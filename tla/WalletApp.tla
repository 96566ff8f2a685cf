------------------------------- MODULE WalletApp -------------------------------
(***************************************************************************)
(* The wallet app (clientapp/lib) of users who have an account: the        *)
(* profile page with the list of their NFTs, the upload page above it, and *)
(* the picture files in Firebase Storage, which all of them share.         *)
(*                                                                         *)
(* An upload goes on when its page was left: `mounted` says whether the    *)
(* page that started it is still there.  The future of a list that fails   *)
(* to load is that of the list before it, so reads[u] holds the futures    *)
(* oldest first, as far as a later one may still come back to them.        *)
(*                                                                         *)
(* Abstractions.  A page transition takes no time.  A request takes effect *)
(* and is answered in one step.  Of the two texts one is kept, empty or    *)
(* not.  A download URL is kept as the name of its object and the picture  *)
(* that was picked, and a list as the set of its NFTs: uploading the same  *)
(* picture, file name and text again adds nothing.  The page of a single   *)
(* NFT, which only shows it, is left out.                                  *)
(***************************************************************************)
EXTENDS Integers, Sequences, SequencesExt, FiniteSets

CONSTANTS
  Uid,       \* the users, each at one wallet app
  File,      \* the names of the files they pick
  Picture,   \* what the files show
  NoPicture, \* there is no such object in Storage
  NoWallet,  \* the document of the user was deleted
  Deletable, \* the users an admin may delete
  Patient,   \* who waits on the upload page for an upload to end
  Flaky,     \* the users whose lists may fail to load
  MaxNfts,   \* bound on the NFTs of a wallet
  MaxBusy,   \* bound on the uploads of an app in flight
  MaxReads   \* bound on the futures of a list

Text == {"", "text"}
Nft  == [text : Text, file : File, picture : Picture]

ASSUME WalletAssumption ==
  /\ NoPicture \notin Picture \cup File
  /\ \A list \in SUBSET Nft : list # NoWallet
  /\ {Deletable, Patient, Flaky} \subseteq SUBSET Uid
  /\ {MaxNfts, MaxBusy, MaxReads} \subseteq Nat

VARIABLES
  wallets,  \* the field NFT of each user's document
  storage,  \* storage[f]: the object of that name
  page,     \* page[u]: the visible page
  reads,    \* reads[u]: the futures of the list, the one it waits for last
  screen,   \* screen[u]: the list the profile page displayed last
  uploads,  \* uploads[u]: the uploads between two awaits
  pending   \* pending[u]: the updates not yet acknowledged, oldest first

vars == <<wallets, storage, page, reads, screen, uploads, pending>>

Wallet == {NoWallet} \cup SUBSET Nft
Future == [state : {"init", "refresh", "sleeping", "done", "failed"}, list : Wallet]
Picking == [awaits : {"pick"}, mounted : BOOLEAN]
Sending == [awaits : {"put", "url"}, file : File, picture : Picture,
            mounted : BOOLEAN]
Upload  == Picking \cup Sending
Update  == [nft : Nft, mounted : BOOLEAN]

Stored(u) == IF wallets[u] = NoWallet THEN {} ELSE wallets[u]
Busy(u)   == uploads[u] # <<>> \/ pending[u] # <<>>

(* A client reads through its own updates that are not acknowledged yet.   *)
View(u) ==
  IF wallets[u] = NoWallet THEN NoWallet
  ELSE wallets[u] \cup {pending[u][i].nft : i \in DOMAIN pending[u]}

Unmounted(works) ==
  [i \in DOMAIN works |-> [works[i] EXCEPT !.mounted = FALSE]]

Loading(state) == [state |-> state, list |-> {}]

-----------------------------------------------------------------------------
(* The person.                                                             *)

SignIn(u) ==
  /\ page[u] = "login"
  /\ page'   = [page EXCEPT ![u] = "profile"]
  /\ reads'  = [reads EXCEPT ![u] = <<Loading("init")>>]
  /\ screen' = [screen EXCEPT ![u] = {}]
  /\ UNCHANGED <<wallets, storage, uploads, pending>>

LogOut(u) ==
  /\ page[u] = "profile"
  /\ page'  = [page EXCEPT ![u] = "login"]
  /\ reads' = [reads EXCEPT ![u] = <<>>]
  /\ UNCHANGED <<wallets, storage, screen, uploads, pending>>

PressRefresh(u) ==
  /\ page[u] = "profile" /\ Len(reads[u]) < MaxReads
  /\ reads' = [reads EXCEPT ![u] = Append(@, Loading("refresh"))]
  /\ UNCHANGED <<wallets, storage, page, screen, uploads, pending>>

OpenUpload(u) ==
  /\ page[u] = "profile" /\ Len(reads[u]) < MaxReads
  /\ page' = [page EXCEPT ![u] = "upload"]
  /\ UNCHANGED <<wallets, storage, reads, screen, uploads, pending>>

(* The upload page is disposed, its handlers go on.                        *)
Back(u) ==
  /\ page[u] = "upload" /\ (u \in Patient => ~Busy(u))
  /\ page'    = [page EXCEPT ![u] = "profile"]
  /\ uploads' = [uploads EXCEPT ![u] = Unmounted(@)]
  /\ pending' = [pending EXCEPT ![u] = Unmounted(@)]
  /\ UNCHANGED <<wallets, storage, reads, screen>>

(* With texts that are not empty.                                          *)
PressPost(u) ==
  /\ page[u] = "upload" /\ (u \in Patient => ~Busy(u))
  /\ Len(uploads[u]) + Len(pending[u]) < MaxBusy
  /\ Cardinality(Stored(u)) + Len(uploads[u]) + Len(pending[u]) < MaxNfts
  /\ uploads' = [uploads EXCEPT ![u] =
                   Append(@, [awaits |-> "pick", mounted |-> TRUE])]
  /\ UNCHANGED <<wallets, storage, page, reads, screen, pending>>

(* The queue of updates and what waits for an answer go with the app.      *)
CloseApp(u) ==
  /\ page[u] # "login"
  /\ page'    = [page EXCEPT ![u] = "login"]
  /\ reads'   = [reads EXCEPT ![u] = <<>>]
  /\ uploads' = [uploads EXCEPT ![u] = <<>>]
  /\ pending' = [pending EXCEPT ![u] = <<>>]
  /\ UNCHANGED <<wallets, storage, screen>>

-----------------------------------------------------------------------------
(* uploadImage and the end of postNFT.                                     *)

Awaits(u, i, step) == i \in DOMAIN uploads[u] /\ uploads[u][i].awaits = step

Goes(u, i, upload) ==
  /\ uploads' = [uploads EXCEPT ![u][i] = upload]
  /\ UNCHANGED <<wallets, page, reads, screen, pending>>

WithFile(step, f, pic, up) ==
  [awaits |-> step, file |-> f, picture |-> pic, mounted |-> up.mounted]

(* Wrong: putData is not awaited, and fails (LinksResolve).                 *)
PickedUnawaited(u, i, f, pic) ==
  /\ Awaits(u, i, "pick")
  /\ Goes(u, i, WithFile("url", f, pic, uploads[u][i]))
  /\ UNCHANGED storage

Picked(u, i, f, pic) ==
  /\ Awaits(u, i, "pick")
  /\ Goes(u, i, WithFile("put", f, pic, uploads[u][i]))
  /\ UNCHANGED storage

Put(u, i) ==
  LET up == uploads[u][i]
  IN  /\ Awaits(u, i, "put")
      /\ storage' = [storage EXCEPT ![up.file] = up.picture]
      /\ Goes(u, i, WithFile("url", up.file, up.picture, up))

Throws(u, i) ==
  /\ uploads' = [uploads EXCEPT ![u] = RemoveAt(@, i)]
  /\ UNCHANGED <<wallets, storage, page, reads, screen, pending>>

(* Wrong: no picture, no matter: file?.name (TypeOK).                       *)
NotPickedGoesOn(u, i) ==
  /\ Awaits(u, i, "pick")
  /\ Goes(u, i, WithFile("put", NoPicture, NoPicture, uploads[u][i]))
  /\ UNCHANGED storage

(* The gallery was closed without a choice, and file! throws.              *)
NotPicked(u, i) == Awaits(u, i, "pick") /\ Throws(u, i)

(* Storage refuses the file or the link.                                   *)
UploadFails(u, i) == (Awaits(u, i, "put") \/ Awaits(u, i, "url")) /\ Throws(u, i)

(* The link is there; what the text fields hold by now goes with it.       *)
Linked(u, i, t) ==
  LET up == uploads[u][i]
      n  == [text |-> t, file |-> up.file, picture |-> up.picture]
  IN  /\ Awaits(u, i, "url")
      /\ uploads' = [uploads EXCEPT ![u] = RemoveAt(@, i)]
      /\ pending' = [pending EXCEPT ![u] =
                       Append(@, [nft |-> n, mounted |-> up.mounted])]
      /\ UNCHANGED <<wallets, storage, page, reads, screen>>

(* The upload page closes itself with true, and the list is read again.    *)
CloseWithTrue(u) ==
  /\ page'    = [page EXCEPT ![u] = "profile"]
  /\ reads'   = [reads EXCEPT ![u] = Append(@, Loading("refresh"))]
  /\ uploads' = [uploads EXCEPT ![u] = Unmounted(@)]
  /\ pending' = [pending EXCEPT ![u] = Unmounted(Tail(@))]

StaysOpen(u) ==
  /\ pending' = [pending EXCEPT ![u] = Tail(@)]
  /\ UNCHANGED <<page, reads, uploads>>

(* Wrong: a refused update stays in the queue (QuietWalletsSettle).         *)
CommitIfThere(u) ==
  /\ pending[u] # <<>> /\ wallets[u] # NoWallet
  /\ wallets' = [wallets EXCEPT ![u] = @ \cup {Head(pending[u]).nft}]
  /\ IF Head(pending[u]).mounted THEN CloseWithTrue(u) ELSE StaysOpen(u)
  /\ UNCHANGED <<storage, screen>>

(* Wrong: pop() without true (UploadsAreSeen).                              *)
CommitPopsNull(u) ==
  LET w == Head(pending[u])
  IN  /\ pending[u] # <<>>
      /\ wallets' = IF wallets[u] = NoWallet THEN wallets
                    ELSE [wallets EXCEPT ![u] = @ \cup {w.nft}]
      /\ page'    = IF w.mounted /\ wallets[u] # NoWallet
                      THEN [page EXCEPT ![u] = "profile"] ELSE page
      /\ pending' = [pending EXCEPT ![u] = Unmounted(Tail(@))]
      /\ UNCHANGED <<storage, screen, reads, uploads>>

(* arrayUnion adds an NFT that is not there yet.  update() of a document   *)
(* that was deleted is refused, and then() is not run.  Once the page was  *)
(* left, Navigator.of(context) throws.                                     *)
Commit(u) ==
  LET w == Head(pending[u])
  IN  /\ pending[u] # <<>>
      /\ IF wallets[u] = NoWallet
           THEN UNCHANGED wallets /\ StaysOpen(u)
         ELSE /\ wallets' = [wallets EXCEPT ![u] = @ \cup {w.nft}]
              /\ IF w.mounted THEN CloseWithTrue(u) ELSE StaysOpen(u)
      /\ UNCHANGED <<storage, screen>>

-----------------------------------------------------------------------------
(* The list: initNFTs, refreshNFTs and the FutureBuilder.                  *)

Becomes(u, futures) ==
  /\ reads' = [reads EXCEPT ![u] = futures]
  /\ UNCHANGED <<wallets, storage, page, uploads, pending>>

(* The builder shows the future it waits for, and no other.                *)
Displays(u, futures) ==
  screen' = IF Last(futures).state = "done"
              THEN [screen EXCEPT ![u] = Last(futures).list] ELSE screen

IsLoading(u, i) == i \in DOMAIN reads[u] /\ reads[u][i].state \in {"init", "refresh"}

(* Both wait two seconds before they return the list they have read.       *)
ListRead(u, i) ==
  LET list == View(u)
  IN  /\ IsLoading(u, i) /\ list # NoWallet
      /\ ~(reads[u][i].state = "init" /\ list = {})
      /\ Becomes(u, ReplaceAt(reads[u], i, [state |-> "sleeping", list |-> list]))
      /\ UNCHANGED screen

(* Futures before one that is done are not asked any more.                 *)
Ended(u, i, state, list) ==
  LET futures == SubSeq(reads[u], i, Len(reads[u]))
  IN  Becomes(u, ReplaceAt(futures, 1, [state |-> state, list |-> list]))
      /\ Displays(u, ReplaceAt(futures, 1, [state |-> state, list |-> list]))

(* Wrong: whichever future is done is shown (NeverOlder).                   *)
ListShownLate(u, i) ==
  /\ i \in DOMAIN reads[u] /\ reads[u][i].state = "sleeping"
  /\ Becomes(u, ReplaceAt(reads[u], i, [reads[u][i] EXCEPT !.state = "done"]))
  /\ screen' = [screen EXCEPT ![u] = reads[u][i].list]

ListShown(u, i) ==
  /\ i \in DOMAIN reads[u] /\ reads[u][i].state = "sleeping"
  /\ Ended(u, i, "done", reads[u][i].list)

(* The document is gone: the future returns null.                          *)
ListMissing(u, i) ==
  /\ IsLoading(u, i) /\ View(u) = NoWallet
  /\ Ended(u, i, "done", NoWallet)

(* "Add your first NFT", or the network is down.                           *)
InitFails(u, i) ==
  /\ IsLoading(u, i) /\ reads[u][i].state = "init"
  /\ u \in Flaky \/ View(u) = {}
  /\ Ended(u, i, "failed", {})

(* What was there before the refresh is returned.                          *)
RefreshFails(u, i) ==
  /\ IsLoading(u, i) /\ reads[u][i].state = "refresh"
  /\ u \in Flaky
  /\ Becomes(u, RemoveAt(reads[u], i))
  /\ Displays(u, RemoveAt(reads[u], i))

-----------------------------------------------------------------------------
Deleted(u) ==
  /\ u \in Deletable
  /\ wallets' = [wallets EXCEPT ![u] = NoWallet]
  /\ UNCHANGED <<storage, page, reads, screen, uploads, pending>>

Init ==
  /\ wallets = [u \in Uid |-> {}]
  /\ storage = [f \in File |-> NoPicture]
  /\ page    = [u \in Uid |-> "login"]
  /\ reads   = [u \in Uid |-> <<>>]
  /\ screen  = [u \in Uid |-> {}]
  /\ uploads = [u \in Uid |-> <<>>]
  /\ pending = [u \in Uid |-> <<>>]

Person(u) ==
  \/ SignIn(u) \/ LogOut(u) \/ PressRefresh(u) \/ OpenUpload(u)
  \/ Back(u) \/ PressPost(u) \/ CloseApp(u)
  \/ \E i \in DOMAIN uploads[u] :
       NotPicked(u, i) \/ \E f \in File, pic \in Picture : Picked(u, i, f, pic)

UploadSettles(u) == \E i \in DOMAIN uploads[u] :
  Put(u, i) \/ UploadFails(u, i) \/ \E t \in Text : Linked(u, i, t)

ListSettles(u) == \E i \in DOMAIN reads[u] :
  ListRead(u, i) \/ ListShown(u, i) \/ ListMissing(u, i)
                 \/ InitFails(u, i) \/ RefreshFails(u, i)

Next == \E u \in Uid :
  Person(u) \/ UploadSettles(u) \/ ListSettles(u) \/ Commit(u) \/ Deleted(u)

Spec == Init /\ [][Next]_vars

(* Futures of the SDK complete or fail, Firestore's queue goes on.         *)
FairSpec ==
  Spec /\ \A u \in Uid : /\ WF_vars(UploadSettles(u)) /\ WF_vars(ListSettles(u))
                         /\ WF_vars(Commit(u))

-----------------------------------------------------------------------------
(* PROPERTIES                                                              *)

(* The shapes of the variables.                                            *)
TypeOK ==
  /\ wallets \in [Uid -> Wallet]
  /\ storage \in [File -> Picture \cup {NoPicture}]
  /\ page \in [Uid -> {"login", "profile", "upload"}]
  /\ reads \in [Uid -> Seq(Future)]
  /\ screen \in [Uid -> Wallet]
  /\ uploads \in [Uid -> Seq(Upload)]
  /\ pending \in [Uid -> Seq(Update)]

(* Each NFT of a wallet links to a file that is in Storage: the document   *)
(* is updated (upload_page.dart:93) after the file was put                 *)
(* (uploadImage.dart:15-19), whatever fails or is closed in between.       *)
LinksResolve ==
  \A u \in Uid : \A n \in Stored(u) : storage[n.file] # NoPicture

(* The profile page never shows an older list after a newer one: NFTs do   *)
(* not disappear from it, nor a deleted wallet come back, although reads   *)
(* overlap and one that fails returns the list before it                   *)
(* (profile_page.dart:38-42, nft_api.dart:46-48).                          *)
NeverOlder ==
  [][\A u \in Uid : page[u] # "login" =>
       \/ screen'[u] = screen[u] \/ screen'[u] = NoWallet
       \/ /\ screen[u] # NoWallet
          /\ screen[u] \subseteq screen'[u]]_vars

(* Somebody who waits for an upload to end sees it: when the profile page  *)
(* has a list, it is the wallet (upload_page.dart:95 closes the page with  *)
(* true, profile_page.dart:108 then reads the list again).                 *)
HasList(u) == page[u] = "profile" /\ Last(reads[u]).state = "done"

UploadsAreSeen == \A u \in Patient \ (Deletable \cup Flaky) :
  HasList(u) /\ ~Busy(u) => screen[u] = wallets[u]

(* Once nobody presses anything, the list is there or an error, every      *)
(* upload is past its picture and every update stored or refused.          *)
AtRest(u) ==
  /\ page[u] # "login" => Last(reads[u]).state \in {"done", "failed"}
  /\ \A i \in DOMAIN uploads[u] : uploads[u][i].awaits = "pick"
  /\ pending[u] = <<>>

QuietWalletsSettle ==
  <>[][\A u \in Uid : ~Person(u)]_vars => <>[](\A u \in Uid : AtRest(u))

(* "The user can store NFT in the Application and see them" (README.md:5): *)
(* the link of an NFT shows the picture that was picked for it.            *)
PicturesKept ==
  \A u \in Uid : \A n \in Stored(u) : storage[n.file] = n.picture

(* postNFT returns when a text is empty (upload_page.dart:89): no NFT is   *)
(* stored without its texts.                                               *)
TextsAreThere ==
  \A u \in Uid : \A n \in Stored(u) : n.text # ""
=============================================================================
