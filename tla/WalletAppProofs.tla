---------------------------- MODULE WalletAppProofs ----------------------------
(***************************************************************************)
(* Theorems of WalletApp, for any number of users, files and uploads in    *)
(* flight: types, that the links of a wallet name files that are in        *)
(* Storage (WInv), that the list on the screen never goes back (LInv), and *)
(* that an upload that was waited for is on it (TInv).                     *)
(***************************************************************************)
EXTENDS WalletApp, SequenceLemmas

(* The files these NFTs, uploads and updates name are in storage st.       *)
FilesIn(list, ups, ws, st) ==
  /\ list # NoWallet => \A n \in list : st[n.file] # NoPicture
  /\ \A i \in DOMAIN ups : ups[i].awaits = "url" => st[ups[i].file] # NoPicture
  /\ \A i \in DOMAIN ws : st[ws[i].nft.file] # NoPicture

(* The oldest future is not one that may come back to an older one, and    *)
(* none that is done or failed has older ones before it.                   *)
ChainOK(rs) == \A i \in DOMAIN rs :
  /\ rs[i].state = "refresh" => i # 1
  /\ rs[i].state \in {"done", "failed"} => i = 1

(* Whoever is signed in waits for a list or has one.                       *)
PageOK(pg, rs) == ChainOK(rs) /\ (pg # "login" => rs # <<>>)

(* Only the page that is there goes on with an upload of its own.          *)
Owned(pg, ups, ws) ==
  /\ \A i \in DOMAIN ups : ups[i].mounted => pg = "upload"
  /\ \A i \in DOMAIN ws : ws[i].mounted => pg = "upload"

(* The inductive invariant: an upload that has passed the put, and what    *)
(* follows it, refers to a file that was put.                              *)
WInv ==
  /\ TypeOK
  /\ \A u \in Uid : PageOK(page[u], reads[u])
  /\ \A u \in Uid : Owned(page[u], uploads[u], pending[u])
  /\ \A u \in Uid : FilesIn(wallets[u], uploads[u], pending[u], storage)

-----------------------------------------------------------------------------
(* Sequences of uploads and updates.                                       *)

LEMMA UnmountedUploads ==
  ASSUME NEW ups \in Seq(Upload)
  PROVE  /\ Unmounted(ups) \in Seq(Upload)
         /\ DOMAIN Unmounted(ups) = DOMAIN ups
         /\ \A i \in DOMAIN ups : ~Unmounted(ups)[i].mounted
         /\ \A i \in DOMAIN ups : ups[i].awaits = "url" \/ Unmounted(ups)[i].awaits = "url" =>
              /\ ups[i].awaits = "url"
              /\ Unmounted(ups)[i].file = ups[i].file
<1>1. ups \in [1..Len(ups) -> Upload] /\ Len(ups) \in Nat /\ DOMAIN ups = 1..Len(ups)
  BY LenProperties
<1>2. \A x \in Picking : [x EXCEPT !.mounted = FALSE] \in Picking
                         /\ [x EXCEPT !.mounted = FALSE].awaits = "pick"
                         /\ [x EXCEPT !.mounted = FALSE].mounted = FALSE
                         /\ x.awaits = "pick"
  BY DEF Picking
<1>3. \A x \in Sending : /\ [x EXCEPT !.mounted = FALSE] \in Sending
                         /\ [x EXCEPT !.mounted = FALSE].mounted = FALSE
                         /\ [x EXCEPT !.mounted = FALSE].awaits = x.awaits
                         /\ [x EXCEPT !.mounted = FALSE].file = x.file
  BY DEF Sending
<1>4. Unmounted(ups) \in [1..Len(ups) -> Upload]
  BY <1>1, <1>2, <1>3 DEF Unmounted, Upload
<1>5. Unmounted(ups) \in Seq(Upload) /\ DOMAIN Unmounted(ups) = DOMAIN ups
  BY <1>1, <1>4
<1>6. \A i \in DOMAIN ups : Unmounted(ups)[i] = [ups[i] EXCEPT !.mounted = FALSE]
                            /\ ups[i] \in Picking \cup Sending
  BY <1>1 DEF Unmounted, Upload
<1>7. ASSUME NEW i \in DOMAIN ups
      PROVE  /\ ~Unmounted(ups)[i].mounted
             /\ ups[i].awaits = "url" \/ Unmounted(ups)[i].awaits = "url" =>
                  ups[i].awaits = "url" /\ Unmounted(ups)[i].file = ups[i].file
  <2>1. CASE ups[i] \in Picking
    BY <1>2, <1>6, <2>1
  <2>2. CASE ups[i] \in Sending
    BY <1>3, <1>6, <2>2
  <2>3. QED
    BY <1>6, <2>1, <2>2
<1>8. QED
  BY <1>5, <1>7

LEMMA UnmountedUpdates ==
  ASSUME NEW ws \in Seq(Update)
  PROVE  /\ Unmounted(ws) \in Seq(Update)
         /\ DOMAIN Unmounted(ws) = DOMAIN ws
         /\ \A i \in DOMAIN ws : /\ Unmounted(ws)[i].nft = ws[i].nft
                                /\ ~Unmounted(ws)[i].mounted
<1>1. ws \in [1..Len(ws) -> Update] /\ Len(ws) \in Nat /\ DOMAIN ws = 1..Len(ws)
  BY LenProperties
<1>2. \A w \in Update : /\ [w EXCEPT !.mounted = FALSE] \in Update
                        /\ [w EXCEPT !.mounted = FALSE].nft = w.nft
                        /\ [w EXCEPT !.mounted = FALSE].mounted = FALSE
  BY DEF Update
<1>3. Unmounted(ws) \in [1..Len(ws) -> Update]
  BY <1>1, <1>2 DEF Unmounted
<1>4. Unmounted(ws) \in Seq(Update)
  BY <1>1, <1>3
<1>5. QED
  BY <1>1, <1>2, <1>4 DEF Unmounted

LEMMA UnmountedOwned ==
  ASSUME NEW pg, NEW ups \in Seq(Upload), NEW ws \in Seq(Update)
  PROVE  Owned(pg, Unmounted(ups), Unmounted(ws))
  BY UnmountedUploads, UnmountedUpdates DEF Owned

(* Leaving the page changes no file.                                       *)
LEMMA UnmountedFiles ==
  ASSUME NEW list, NEW ups \in Seq(Upload), NEW ws \in Seq(Update), NEW st,
         FilesIn(list, ups, ws, st)
  PROVE  FilesIn(list, Unmounted(ups), Unmounted(ws), st)
  BY UnmountedUploads, UnmountedUpdates DEF FilesIn

-----------------------------------------------------------------------------
(* What one app does.                                                      *)

LEMMA OfApp ==
  ASSUME TypeOK, NEW u \in Uid
  PROVE  /\ wallets[u] \in Wallet /\ reads[u] \in Seq(Future) /\ screen[u] \in Wallet
         /\ uploads[u] \in Seq(Upload) /\ pending[u] \in Seq(Update)
         /\ page[u] \in {"login", "profile", "upload"}
         /\ wallets = [wallets EXCEPT ![u] = wallets[u]]
         /\ page    = [page EXCEPT ![u] = page[u]]
         /\ reads   = [reads EXCEPT ![u] = reads[u]]
         /\ screen  = [screen EXCEPT ![u] = screen[u]]
         /\ uploads = [uploads EXCEPT ![u] = uploads[u]]
         /\ pending = [pending EXCEPT ![u] = pending[u]]
  BY DEF TypeOK

(* The files of other users stay where they are.                           *)
LEMMA FilesStay ==
  ASSUME NEW list \in Wallet, NEW ups \in Seq(Upload), NEW ws \in Seq(Update),
         NEW st, NEW new, \A f \in File : st[f] # NoPicture => new[f] # NoPicture,
         FilesIn(list, ups, ws, st)
  PROVE  FilesIn(list, ups, ws, new)
<1>1. list # NoWallet => \A n \in list : n.file \in File
  BY DEF Wallet, Nft
<1>2. \A i \in DOMAIN ups : ups[i].awaits = "url" => ups[i].file \in File
  <2>1. \A i \in DOMAIN ups : ups[i] \in Picking \cup Sending
    BY DEF Upload
  <2>2. QED
    BY <2>1 DEF Picking, Sending
<1>3. \A i \in DOMAIN ws : ws[i].nft.file \in File
  <2>1. \A i \in DOMAIN ws : ws[i] \in Update
    OBVIOUS
  <2>2. QED
    BY <2>1 DEF Update, Nft
<1>4. QED
  BY <1>1, <1>2, <1>3 DEF FilesIn

LEMMA AppStep ==
  ASSUME WInv, NEW u \in Uid,
         NEW list \in Wallet, NEW pg \in {"login", "profile", "upload"},
         NEW rs \in Seq(Future), NEW sc \in Wallet,
         NEW ups \in Seq(Upload), NEW ws \in Seq(Update),
         wallets' = [wallets EXCEPT ![u] = list],
         page'    = [page EXCEPT ![u] = pg],
         reads'   = [reads EXCEPT ![u] = rs],
         screen'  = [screen EXCEPT ![u] = sc],
         uploads' = [uploads EXCEPT ![u] = ups],
         pending' = [pending EXCEPT ![u] = ws],
         storage' \in [File -> Picture \cup {NoPicture}],
         \A f \in File : storage[f] # NoPicture => storage'[f] # NoPicture,
         FilesIn(list, ups, ws, storage'), PageOK(pg, rs), Owned(pg, ups, ws)
  PROVE  WInv'
<1>1. TypeOK'
  BY DEF WInv, TypeOK
<1>2. \A v \in Uid : /\ wallets'[v] = IF v = u THEN list ELSE wallets[v]
                     /\ uploads'[v] = IF v = u THEN ups ELSE uploads[v]
                     /\ pending'[v] = IF v = u THEN ws ELSE pending[v]
  BY DEF WInv, TypeOK
<1>3. ASSUME NEW v \in Uid
      PROVE  FilesIn(wallets'[v], uploads'[v], pending'[v], storage')
  <2>1. FilesIn(wallets[v], uploads[v], pending[v], storage')
    BY OfApp, FilesStay DEF WInv
  <2>2. QED
    BY <1>2, <2>1
<1>4. \A v \in Uid : PageOK(page'[v], reads'[v])
  BY DEF WInv, TypeOK
<1>5. \A v \in Uid : Owned(page'[v], uploads'[v], pending'[v])
  <2>1. \A v \in Uid : page'[v] = IF v = u THEN pg ELSE page[v]
    BY DEF WInv, TypeOK
  <2>2. QED
    BY <1>2, <2>1 DEF WInv
<1>6. QED
  BY <1>1, <1>3, <1>4, <1>5 DEF WInv

(* Steps of the pages and the list leave the files alone.                  *)
LEMMA PageStep ==
  ASSUME WInv, NEW u \in Uid,
         NEW pg \in {"login", "profile", "upload"},
         NEW rs \in Seq(Future), NEW sc \in Wallet,
         page'    = [page EXCEPT ![u] = pg],
         reads'   = [reads EXCEPT ![u] = rs],
         screen'  = [screen EXCEPT ![u] = sc],
         UNCHANGED <<wallets, storage, uploads, pending>>, PageOK(pg, rs),
         Owned(pg, uploads[u], pending[u])
  PROVE  WInv'
<1>1. TypeOK'
  BY DEF WInv, TypeOK
<1>2. \A v \in Uid : PageOK(page'[v], reads'[v])
  BY DEF WInv, TypeOK
<1>3. \A v \in Uid : Owned(page'[v], uploads'[v], pending'[v])
  <2>1. \A v \in Uid : page'[v] = IF v = u THEN pg ELSE page[v]
    BY DEF WInv, TypeOK
  <2>2. QED
    BY <2>1 DEF WInv
<1>4. QED
  BY <1>1, <1>2, <1>3 DEF WInv

(* Steps of an upload leave the pages and the list alone.                  *)
LEMMA UploadStep ==
  ASSUME WInv, NEW u \in Uid, NEW ups \in Seq(Upload), NEW ws \in Seq(Update),
         uploads' = [uploads EXCEPT ![u] = ups],
         pending' = [pending EXCEPT ![u] = ws],
         UNCHANGED <<wallets, storage, page, reads, screen>>,
         FilesIn(wallets[u], ups, ws, storage), Owned(page[u], ups, ws)
  PROVE  WInv'
<1>1. TypeOK'
  BY DEF WInv, TypeOK
<1>2. \A v \in Uid : PageOK(page'[v], reads'[v])
  BY DEF WInv
<1>3. \A v \in Uid : /\ uploads'[v] = IF v = u THEN ups ELSE uploads[v]
                     /\ pending'[v] = IF v = u THEN ws ELSE pending[v]
  BY DEF WInv, TypeOK
<1>4. \A v \in Uid : FilesIn(wallets'[v], uploads'[v], pending'[v], storage')
  BY <1>3 DEF WInv
<1>5. \A v \in Uid : Owned(page'[v], uploads'[v], pending'[v])
  BY <1>3 DEF WInv
<1>6. QED
  BY <1>1, <1>2, <1>4, <1>5 DEF WInv

-----------------------------------------------------------------------------
(* The person.                                                             *)

LEMMA LoadingType ==
  ASSUME NEW state \in {"init", "refresh"}
  PROVE  /\ Loading(state) \in Future /\ Loading(state).state = state
         /\ {} \in Wallet
  BY DEF Loading, Future, Wallet

LEMMA SignInInv ==
  ASSUME WInv, NEW u \in Uid, SignIn(u)
  PROVE  WInv'
<1> DEFINE f == Loading("init")
<1>1. f \in Future /\ f.state = "init" /\ {} \in Wallet
  BY LoadingType
<1>2. /\ page'   = [page EXCEPT ![u] = "profile"]
      /\ reads'  = [reads EXCEPT ![u] = <<f>>]
      /\ screen' = [screen EXCEPT ![u] = {}]
      /\ UNCHANGED <<wallets, storage, uploads, pending>>
  BY DEF SignIn
<1> HIDE DEF f
<1>3. /\ <<f>> \in Seq(Future) /\ PageOK("profile", <<f>>)
      /\ Owned("profile", uploads[u], pending[u])
  BY <1>1 DEF ChainOK, PageOK, Owned, WInv, SignIn
<1>4. QED
  BY <1>1, <1>2, <1>3, PageStep

LEMMA EmptyChain == <<>> \in Seq(Future) /\ PageOK("login", <<>>)
  BY DEF ChainOK, PageOK

LEMMA LogOutInv ==
  ASSUME WInv, NEW u \in Uid, LogOut(u)
  PROVE  WInv'
<1>1. Owned("login", uploads[u], pending[u])
  BY DEF Owned, WInv, LogOut
<1>2. /\ page'   = [page EXCEPT ![u] = "login"]
      /\ reads'  = [reads EXCEPT ![u] = <<>>]
      /\ screen' = [screen EXCEPT ![u] = screen[u]]
      /\ screen[u] \in Wallet
      /\ UNCHANGED <<wallets, storage, uploads, pending>>
  BY OfApp DEF LogOut, WInv
<1>3. QED
  BY <1>1, <1>2, EmptyChain, PageStep

(* A refresh follows the futures that are there.                           *)
LEMMA ChainExtended ==
  ASSUME NEW rs \in Seq(Future), rs # <<>>, ChainOK(rs)
  PROVE  /\ Append(rs, Loading("refresh")) \in Seq(Future)
         /\ PageOK("profile", Append(rs, Loading("refresh")))
<1> DEFINE f == Loading("refresh")
<1>1. f \in Future /\ f.state = "refresh"
  BY LoadingType
<1> HIDE DEF f
<1>2. /\ Append(rs, f) \in Seq(Future) /\ Append(rs, f)[Len(rs) + 1] = f
      /\ \A i \in DOMAIN rs : Append(rs, f)[i] = rs[i]
      /\ DOMAIN Append(rs, f) = 1..(Len(rs) + 1)
      /\ DOMAIN rs = 1..Len(rs) /\ Len(rs) \in Nat /\ Len(rs) # 0
  BY <1>1, AppendType, LenProperties, EmptySeq
<1>3. ChainOK(Append(rs, f))
  BY <1>1, <1>2 DEF ChainOK
<1>4. Append(rs, f) # <<>>
  BY <1>2
<1>5. QED
  BY <1>2, <1>3, <1>4 DEF f, PageOK

LEMMA PressRefreshInv ==
  ASSUME WInv, NEW u \in Uid, PressRefresh(u)
  PROVE  WInv'
<1> DEFINE rs == Append(reads[u], Loading("refresh"))
<1>1. /\ rs \in Seq(Future) /\ PageOK("profile", rs)
      /\ Owned("profile", uploads[u], pending[u])
  BY OfApp, ChainExtended DEF PressRefresh, WInv, PageOK
<1>2. /\ page'   = [page EXCEPT ![u] = "profile"]
      /\ reads'  = [reads EXCEPT ![u] = rs]
      /\ screen' = [screen EXCEPT ![u] = screen[u]]
      /\ screen[u] \in Wallet
      /\ UNCHANGED <<wallets, storage, uploads, pending>>
  BY OfApp DEF PressRefresh, WInv
<1> HIDE DEF rs
<1>3. QED
  BY <1>1, <1>2, PageStep

LEMMA OpenUploadInv ==
  ASSUME WInv, NEW u \in Uid, OpenUpload(u)
  PROVE  WInv'
<1>1. /\ PageOK("upload", reads[u]) /\ reads[u] \in Seq(Future)
      /\ screen[u] \in Wallet /\ Owned("upload", uploads[u], pending[u])
  BY OfApp DEF OpenUpload, WInv, PageOK, Owned
<1>2. /\ page'   = [page EXCEPT ![u] = "upload"]
      /\ reads'  = [reads EXCEPT ![u] = reads[u]]
      /\ screen' = [screen EXCEPT ![u] = screen[u]]
      /\ UNCHANGED <<wallets, storage, uploads, pending>>
  BY OfApp DEF OpenUpload, WInv
<1>3. QED
  BY <1>1, <1>2, PageStep

LEMMA BackInv ==
  ASSUME WInv, NEW u \in Uid, Back(u)
  PROVE  WInv'
<1> DEFINE ups == Unmounted(uploads[u])
           ws  == Unmounted(pending[u])
<1>1. /\ FilesIn(wallets[u], ups, ws, storage)
      /\ ups \in Seq(Upload) /\ ws \in Seq(Update) /\ Owned("profile", ups, ws)
  BY OfApp, UnmountedUploads, UnmountedUpdates, UnmountedFiles, UnmountedOwned
     DEF WInv
<1>2. /\ PageOK("profile", reads[u]) /\ reads[u] \in Seq(Future)
      /\ screen[u] \in Wallet /\ wallets[u] \in Wallet
  BY OfApp DEF Back, WInv, PageOK
<1>3. /\ page'    = [page EXCEPT ![u] = "profile"]
      /\ uploads' = [uploads EXCEPT ![u] = ups]
      /\ pending' = [pending EXCEPT ![u] = ws]
      /\ wallets' = [wallets EXCEPT ![u] = wallets[u]]
      /\ reads'   = [reads EXCEPT ![u] = reads[u]]
      /\ screen'  = [screen EXCEPT ![u] = screen[u]]
      /\ storage' = storage /\ storage \in [File -> Picture \cup {NoPicture}]
  BY OfApp DEF Back, WInv, TypeOK
<1> HIDE DEF ups, ws
<1>4. QED
  BY <1>1, <1>2, <1>3, AppStep

LEMMA CloseAppInv ==
  ASSUME WInv, NEW u \in Uid, CloseApp(u)
  PROVE  WInv'
<1>1. FilesIn(wallets[u], <<>>, <<>>, storage) /\ Owned("login", <<>>, <<>>)
  BY DEF WInv, FilesIn, Owned
<1>2. /\ <<>> \in Seq(Upload) /\ <<>> \in Seq(Update) /\ <<>> \in Seq(Future)
      /\ PageOK("login", <<>>) /\ screen[u] \in Wallet /\ wallets[u] \in Wallet
  BY EmptyChain, OfApp DEF WInv
<1>3. /\ page'    = [page EXCEPT ![u] = "login"]
      /\ uploads' = [uploads EXCEPT ![u] = <<>>]
      /\ pending' = [pending EXCEPT ![u] = <<>>]
      /\ wallets' = [wallets EXCEPT ![u] = wallets[u]]
      /\ reads'   = [reads EXCEPT ![u] = <<>>]
      /\ screen'  = [screen EXCEPT ![u] = screen[u]]
      /\ storage' = storage /\ storage \in [File -> Picture \cup {NoPicture}]
  BY OfApp DEF CloseApp, WInv, TypeOK
<1>4. QED
  BY <1>1, <1>2, <1>3, AppStep

(* An upload is in the list of uploads as u's last, or in i's place, or    *)
(* not at all.                                                             *)
LEMMA UploadAdded ==
  ASSUME NEW list, NEW ups \in Seq(Upload), NEW ws, NEW st, NEW up \in Upload,
         FilesIn(list, ups, ws, st), up.awaits # "url", Owned("upload", ups, ws)
  PROVE  /\ Append(ups, up) \in Seq(Upload)
         /\ FilesIn(list, Append(ups, up), ws, st)
         /\ Owned("upload", Append(ups, up), ws)
<1>1. /\ Append(ups, up) \in Seq(Upload) /\ Append(ups, up)[Len(ups) + 1] = up
      /\ \A i \in DOMAIN ups : Append(ups, up)[i] = ups[i]
      /\ DOMAIN Append(ups, up) = DOMAIN ups \cup {Len(ups) + 1}
  BY AppendType, LenProperties
<1>2. QED
  BY <1>1 DEF FilesIn, Owned

LEMMA UploadReplaced ==
  ASSUME NEW list, NEW ups \in Seq(Upload), NEW ws, NEW st, NEW up \in Upload,
         NEW i \in DOMAIN ups, NEW pg,
         FilesIn(list, ups, ws, st), up.awaits = "url" => st[up.file] # NoPicture,
         Owned(pg, ups, ws), up.mounted = ups[i].mounted
  PROVE  /\ [ups EXCEPT ![i] = up] \in Seq(Upload)
         /\ FilesIn(list, [ups EXCEPT ![i] = up], ws, st)
         /\ Owned(pg, [ups EXCEPT ![i] = up], ws)
<1>1. /\ [ups EXCEPT ![i] = up] \in Seq(Upload)
      /\ DOMAIN [ups EXCEPT ![i] = up] = DOMAIN ups
  BY ReplaceAtType
<1>2. QED
  BY <1>1 DEF FilesIn, Owned

LEMMA UploadRemoved ==
  ASSUME NEW list, NEW ups \in Seq(Upload), NEW ws, NEW st, NEW i \in DOMAIN ups,
         NEW pg, FilesIn(list, ups, ws, st), Owned(pg, ups, ws)
  PROVE  /\ RemoveAt(ups, i) \in Seq(Upload)
         /\ FilesIn(list, RemoveAt(ups, i), ws, st)
         /\ Owned(pg, RemoveAt(ups, i), ws)
  BY RemoveAtType DEF FilesIn, Owned

-----------------------------------------------------------------------------
(* The steps of an upload.                                                 *)

LEMMA PressPostInv ==
  ASSUME WInv, NEW u \in Uid, PressPost(u)
  PROVE  WInv'
<1> DEFINE up  == [awaits |-> "pick", mounted |-> TRUE]
           ups == Append(uploads[u], up)
<1>1. up \in Upload /\ up.awaits # "url"
  BY DEF Upload, Picking
<1>2. /\ uploads' = [uploads EXCEPT ![u] = ups]
      /\ pending' = [pending EXCEPT ![u] = pending[u]]
      /\ UNCHANGED <<wallets, storage, page, reads, screen>>
  BY OfApp DEF PressPost, WInv
<1> HIDE DEF up
<1>3. /\ ups \in Seq(Upload) /\ FilesIn(wallets[u], ups, pending[u], storage)
      /\ Owned(page[u], ups, pending[u])
  BY <1>1, OfApp, UploadAdded DEF WInv, PressPost
<1>4. pending[u] \in Seq(Update)
  BY OfApp DEF WInv
<1> HIDE DEF ups
<1>5. QED
  BY <1>2, <1>3, <1>4, UploadStep

LEMMA UploadOf ==
  ASSUME TypeOK, NEW u \in Uid, NEW i \in DOMAIN uploads[u]
  PROVE  /\ uploads[u][i] \in Upload /\ uploads[u][i].mounted \in BOOLEAN
         /\ uploads[u][i].awaits # "pick" =>
              uploads[u][i].file \in File /\ uploads[u][i].picture \in Picture
<1>1. uploads[u][i] \in Picking \cup Sending
  BY OfApp DEF Upload
<1>2. QED
  BY <1>1 DEF Picking, Sending, Upload

LEMMA PickedInv ==
  ASSUME WInv, NEW u \in Uid, NEW i \in DOMAIN uploads[u],
         NEW f \in File, NEW pic \in Picture, Picked(u, i, f, pic)
  PROVE  WInv'
<1> DEFINE up  == WithFile("put", f, pic, uploads[u][i])
           ups == [uploads[u] EXCEPT ![i] = up]
<1>1. up \in Upload /\ up.awaits # "url" /\ up.mounted = uploads[u][i].mounted
  BY UploadOf DEF WInv, WithFile, Upload, Sending
<1>2. /\ uploads' = [uploads EXCEPT ![u] = ups]
      /\ pending' = [pending EXCEPT ![u] = pending[u]]
      /\ UNCHANGED <<wallets, storage, page, reads, screen>>
  BY OfApp DEF Picked, Goes, WInv
<1> HIDE DEF up
<1>3. /\ ups \in Seq(Upload) /\ FilesIn(wallets[u], ups, pending[u], storage)
      /\ Owned(page[u], ups, pending[u])
  BY <1>1, OfApp, UploadReplaced DEF WInv
<1>4. pending[u] \in Seq(Update)
  BY OfApp DEF WInv
<1> HIDE DEF ups
<1>5. QED
  BY <1>2, <1>3, <1>4, UploadStep

(* The file is in Storage before the upload goes on.                       *)
LEMMA PutInv ==
  ASSUME WInv, NEW u \in Uid, NEW i \in DOMAIN uploads[u], Put(u, i)
  PROVE  WInv'
<1> DEFINE old == uploads[u][i]
           up  == WithFile("url", old.file, old.picture, old)
           ups == [uploads[u] EXCEPT ![i] = up]
           st  == [storage EXCEPT ![old.file] = old.picture]
<1>1. /\ old.file \in File /\ old.picture \in Picture /\ old.mounted \in BOOLEAN
      /\ storage \in [File -> Picture \cup {NoPicture}]
  BY UploadOf DEF WInv, Put, Awaits, TypeOK
<1>2. up \in Upload /\ up.file = old.file /\ up.mounted = old.mounted
  BY <1>1 DEF WithFile, Upload, Sending
<1>3. /\ st \in [File -> Picture \cup {NoPicture}] /\ st[old.file] # NoPicture
      /\ \A f \in File : storage[f] # NoPicture => st[f] # NoPicture
  BY <1>1, WalletAssumption
<1>4. /\ uploads' = [uploads EXCEPT ![u] = ups]
      /\ pending' = [pending EXCEPT ![u] = pending[u]]
      /\ wallets' = [wallets EXCEPT ![u] = wallets[u]]
      /\ page'    = [page EXCEPT ![u] = page[u]]
      /\ reads'   = [reads EXCEPT ![u] = reads[u]]
      /\ screen'  = [screen EXCEPT ![u] = screen[u]]
      /\ storage' = st
  BY OfApp DEF Put, Goes, WInv
<1>5. /\ pending[u] \in Seq(Update) /\ uploads[u] \in Seq(Upload)
      /\ wallets[u] \in Wallet /\ reads[u] \in Seq(Future) /\ screen[u] \in Wallet
      /\ page[u] \in {"login", "profile", "upload"} /\ PageOK(page[u], reads[u])
      /\ Owned(page[u], uploads[u], pending[u])
  BY OfApp DEF WInv
<1> HIDE DEF st, up
<1>6. FilesIn(wallets[u], uploads[u], pending[u], st)
  BY <1>3, <1>5, FilesStay DEF WInv
<1>7. /\ ups \in Seq(Upload) /\ FilesIn(wallets[u], ups, pending[u], st)
      /\ Owned(page[u], ups, pending[u])
  BY <1>2, <1>3, <1>5, <1>6, UploadReplaced
<1> HIDE DEF ups
<1>8. QED
  BY ZenonT(60), <1>3, <1>4, <1>5, <1>7, AppStep

LEMMA ThrowsInv ==
  ASSUME WInv, NEW u \in Uid, NEW i \in DOMAIN uploads[u], Throws(u, i)
  PROVE  WInv'
<1> DEFINE ups == RemoveAt(uploads[u], i)
<1>1. /\ ups \in Seq(Upload) /\ FilesIn(wallets[u], ups, pending[u], storage)
      /\ Owned(page[u], ups, pending[u])
  BY OfApp, UploadRemoved DEF WInv
<1>2. /\ uploads' = [uploads EXCEPT ![u] = ups]
      /\ pending' = [pending EXCEPT ![u] = pending[u]]
      /\ pending[u] \in Seq(Update)
      /\ UNCHANGED <<wallets, storage, page, reads, screen>>
  BY OfApp DEF Throws, WInv
<1> HIDE DEF ups
<1>3. QED
  BY <1>1, <1>2, UploadStep

LEMMA LinkedInv ==
  ASSUME WInv, NEW u \in Uid, NEW i \in DOMAIN uploads[u], NEW t \in Text,
         Linked(u, i, t)
  PROVE  WInv'
<1> DEFINE old == uploads[u][i]
           n   == [text |-> t, file |-> old.file, picture |-> old.picture]
           w   == [nft |-> n, mounted |-> old.mounted]
           ups == RemoveAt(uploads[u], i)
           ws  == Append(pending[u], w)
<1>1. w \in Update /\ w.nft.file = old.file /\ w.mounted = old.mounted
  BY UploadOf DEF WInv, Linked, Awaits, Update, Nft
<1>2. storage[old.file] # NoPicture /\ (old.mounted => page[u] = "upload")
  BY DEF WInv, FilesIn, Linked, Awaits, Owned
<1>3. /\ uploads' = [uploads EXCEPT ![u] = ups]
      /\ pending' = [pending EXCEPT ![u] = ws]
      /\ UNCHANGED <<wallets, storage, page, reads, screen>>
  BY DEF Linked
<1>4. /\ ups \in Seq(Upload) /\ FilesIn(wallets[u], ups, pending[u], storage)
      /\ Owned(page[u], ups, pending[u])
  BY OfApp, UploadRemoved DEF WInv
<1> HIDE DEF w, ups
<1>5. /\ ws \in Seq(Update) /\ ws[Len(pending[u]) + 1] = w
      /\ \A j \in DOMAIN pending[u] : ws[j] = pending[u][j]
      /\ DOMAIN ws = DOMAIN pending[u] \cup {Len(pending[u]) + 1}
  BY SMTT(40), <1>1, OfApp, AppendType, LenProperties DEF WInv
<1> HIDE DEF ws
<1>6. FilesIn(wallets[u], ups, ws, storage) /\ Owned(page[u], ups, ws)
  BY <1>1, <1>2, <1>4, <1>5 DEF FilesIn, Owned
<1>7. QED
  BY <1>3, <1>4, <1>5, <1>6, UploadStep

(* The first update leaves the queue.                                      *)
LEMMA QueueAdvances ==
  ASSUME WInv, NEW u \in Uid, pending[u] # <<>>
  PROVE  /\ Tail(pending[u]) \in Seq(Update) /\ Head(pending[u]).nft \in Nft
         /\ storage[Head(pending[u]).nft.file] # NoPicture
         /\ FilesIn(wallets[u], uploads[u], Tail(pending[u]), storage)
         /\ Owned(page[u], uploads[u], Tail(pending[u]))
         /\ Head(pending[u]).mounted => page[u] = "upload"
<1>1. /\ Head(pending[u]) \in Update /\ Head(pending[u]) = pending[u][1]
      /\ 1 \in DOMAIN pending[u] /\ Tail(pending[u]) \in Seq(Update)
      /\ \A i \in DOMAIN Tail(pending[u]) :
           i + 1 \in DOMAIN pending[u] /\ Tail(pending[u])[i] = pending[u][i + 1]
  BY OfApp, TailType DEF WInv
<1>2. /\ FilesIn(wallets[u], uploads[u], pending[u], storage)
      /\ Owned(page[u], uploads[u], pending[u])
  BY DEF WInv
<1>3. QED
  BY <1>1, <1>2 DEF FilesIn, Update, Owned

LEMMA CommitInv ==
  ASSUME WInv, NEW u \in Uid, Commit(u)
  PROVE  WInv'
<1> DEFINE w    == Head(pending[u])
           list == wallets[u] \cup {w.nft}
           ws   == Tail(pending[u])
<1>1. /\ ws \in Seq(Update) /\ w.nft \in Nft /\ storage[w.nft.file] # NoPicture
      /\ FilesIn(wallets[u], uploads[u], ws, storage)
      /\ Owned(page[u], uploads[u], ws) /\ (w.mounted => page[u] = "upload")
  BY QueueAdvances DEF Commit
<1>2. /\ wallets[u] \in Wallet /\ reads[u] \in Seq(Future) /\ screen[u] \in Wallet
      /\ uploads[u] \in Seq(Upload)
      /\ page[u] \in {"login", "profile", "upload"} /\ PageOK(page[u], reads[u])
      /\ storage' = storage /\ storage \in [File -> Picture \cup {NoPicture}]
      /\ screen' = [screen EXCEPT ![u] = screen[u]]
  BY OfApp DEF WInv, TypeOK, Commit
<1>3. CASE wallets[u] = NoWallet
  <2>1. /\ uploads' = [uploads EXCEPT ![u] = uploads[u]]
        /\ pending' = [pending EXCEPT ![u] = ws]
        /\ UNCHANGED <<wallets, storage, page, reads, screen>>
    BY <1>3, OfApp DEF Commit, StaysOpen, WInv
  <2> HIDE DEF ws
  <2>2. QED
    BY <1>1, <1>2, <2>1, UploadStep
<1>4. CASE wallets[u] # NoWallet
  <2>1. list \in Wallet /\ wallets' = [wallets EXCEPT ![u] = list]
    BY <1>1, <1>2, <1>4 DEF Commit, Wallet
  <2>2. FilesIn(list, uploads[u], ws, storage)
    BY <1>1, <1>4 DEF FilesIn
  <2>3. CASE w.mounted
    <3> DEFINE rs  == Append(reads[u], Loading("refresh"))
               ups == Unmounted(uploads[u])
               wsu == Unmounted(ws)
    <3>1. rs \in Seq(Future) /\ PageOK("profile", rs)
      BY <1>1, <1>2, <2>3, ChainExtended DEF PageOK
    <3>2. /\ ups \in Seq(Upload) /\ wsu \in Seq(Update)
          /\ FilesIn(list, ups, wsu, storage) /\ Owned("profile", ups, wsu)
      BY <1>1, <1>2, <2>2, UnmountedUploads, UnmountedUpdates, UnmountedFiles,
         UnmountedOwned
    <3>3. /\ uploads' = [uploads EXCEPT ![u] = ups]
          /\ pending' = [pending EXCEPT ![u] = wsu]
          /\ page'    = [page EXCEPT ![u] = "profile"]
          /\ reads'   = [reads EXCEPT ![u] = rs]
      BY <1>4, <2>3 DEF Commit, CloseWithTrue
    <3> HIDE DEF ws, list, rs, ups, wsu
    <3>4. QED
      BY <1>2, <2>1, <3>1, <3>2, <3>3, AppStep
  <2>4. CASE ~w.mounted
    <3>1. /\ uploads' = [uploads EXCEPT ![u] = uploads[u]]
          /\ pending' = [pending EXCEPT ![u] = ws]
          /\ page'    = [page EXCEPT ![u] = page[u]]
          /\ reads'   = [reads EXCEPT ![u] = reads[u]]
      BY <1>4, <2>4, OfApp DEF Commit, StaysOpen, WInv
    <3> HIDE DEF ws, list
    <3>2. QED
      BY <1>1, <1>2, <2>1, <2>2, <3>1, AppStep
  <2>5. QED
    BY <2>3, <2>4
<1>5. QED
  BY <1>3, <1>4

-----------------------------------------------------------------------------
(* The list.                                                               *)

FutureEnds(q, i, e) == ReplaceAt(SubSeq(q, i, Len(q)), 1, e)

LEMMA FuturesAfter ==
  ASSUME NEW q \in Seq(Future), NEW i \in DOMAIN q, NEW e \in Future
  PROVE  /\ FutureEnds(q, i, e) \in Seq(Future)
         /\ Len(FutureEnds(q, i, e)) = Len(q) - i + 1
         /\ DOMAIN FutureEnds(q, i, e) = 1..(Len(q) - i + 1)
         /\ \A j \in DOMAIN FutureEnds(q, i, e) :
              /\ i + j - 1 \in DOMAIN q
              /\ FutureEnds(q, i, e)[j] = IF j = 1 THEN e ELSE q[i + j - 1]
<1> DEFINE t == SubSeq(q, i, Len(q))
<1>1. i \in 1..Len(q) /\ Len(q) \in Nat /\ DOMAIN q = 1..Len(q)
  BY LenProperties
<1>2. /\ t \in Seq(Future) /\ Len(t) = Len(q) - i + 1
      /\ \A j \in 1..(Len(q) - i + 1) : t[j] = q[i + j - 1]
  BY <1>1, SubSeqProperties
<1>3. DOMAIN t = 1..(Len(q) - i + 1)
  BY <1>2, LenProperties
<1> HIDE DEF t
<1>4. 1 \in DOMAIN t
  BY <1>1, <1>3
<1>5. /\ [t EXCEPT ![1] = e] \in Seq(Future) /\ Len([t EXCEPT ![1] = e]) = Len(t)
      /\ DOMAIN [t EXCEPT ![1] = e] = DOMAIN t
      /\ \A j \in DOMAIN t : [t EXCEPT ![1] = e][j] = IF j = 1 THEN e ELSE t[j]
  BY <1>2, <1>4, ReplaceAtType
<1>6. FutureEnds(q, i, e) = [t EXCEPT ![1] = e]
  BY DEF FutureEnds, ReplaceAt, t
<1>7. QED
  BY <1>1, <1>2, <1>3, <1>5, <1>6

LEMMA ChainAfter ==
  ASSUME NEW q \in Seq(Future), NEW i \in DOMAIN q, NEW e \in Future, ChainOK(q),
         e.state \in {"done", "failed"}
  PROVE  ChainOK(FutureEnds(q, i, e)) /\ FutureEnds(q, i, e) # <<>>
<1>1. i \in 1..Len(q) /\ Len(q) \in Nat
  BY LenProperties
<1> DEFINE c == FutureEnds(q, i, e)
<1>2. /\ DOMAIN c = 1..(Len(q) - i + 1) /\ Len(c) = Len(q) - i + 1
      /\ \A j \in DOMAIN c : i + j - 1 \in DOMAIN q
                             /\ c[j] = IF j = 1 THEN e ELSE q[i + j - 1]
  BY FuturesAfter
<1> HIDE DEF c
<1>3. ASSUME NEW j \in DOMAIN c
      PROVE  /\ c[j].state = "refresh" => j # 1
             /\ c[j].state \in {"done", "failed"} => j = 1
  <2>1. CASE j = 1
    BY <1>2, <2>1
  <2>2. CASE j # 1
    <3>1. i + j - 1 \in DOMAIN q /\ i + j - 1 # 1 /\ c[j] = q[i + j - 1]
      BY <1>1, <1>2, <2>2
    <3>2. QED
      BY <2>2, <3>1 DEF ChainOK
  <2>3. QED
    BY <2>1, <2>2
<1>4. c # <<>>
  BY <1>1, <1>2
<1>5. QED
  BY <1>3, <1>4 DEF ChainOK, c

(* A future that is not the oldest drops out, or ends in its place.        *)
LEMMA ChainWithout ==
  ASSUME NEW q \in Seq(Future), NEW i \in DOMAIN q, i # 1, ChainOK(q)
  PROVE  /\ RemoveAt(q, i) \in Seq(Future) /\ RemoveAt(q, i) # <<>>
         /\ ChainOK(RemoveAt(q, i))
<1> DEFINE r == RemoveAt(q, i)
<1>1. i \in 2..Len(q) /\ Len(q) \in Nat /\ DOMAIN q = 1..Len(q)
  BY LenProperties
<1>2. r \in Seq(Future) /\ Len(r) = Len(q) - 1 /\ DOMAIN r = 1..(Len(q) - 1)
  BY RemoveAtType, RemoveAtElements
<1>3. \A j \in DOMAIN r : r[j] = IF j < i THEN q[j] ELSE q[j + 1]
  BY RemoveAtElements
<1> HIDE DEF r
<1>4. ASSUME NEW j \in DOMAIN r
      PROVE  /\ r[j].state = "refresh" => j # 1
             /\ r[j].state \in {"done", "failed"} => j = 1
  <2>1. CASE j < i
    BY <1>1, <1>2, <1>3, <2>1 DEF ChainOK
  <2>2. CASE j >= i
    <3>1. j + 1 \in DOMAIN q /\ j + 1 # 1 /\ j # 1 /\ r[j] = q[j + 1]
      BY <1>1, <1>2, <1>3, <2>2
    <3>2. QED
      BY <3>1 DEF ChainOK
  <2>3. QED
    BY <1>1, <1>2, <2>1, <2>2
<1>5. r # <<>>
  BY <1>1, <1>2
<1>6. QED
  BY <1>2, <1>4, <1>5 DEF ChainOK, r

(* What the builder shows is a list.                                       *)
LEMMA DisplaysList ==
  ASSUME TypeOK, NEW u \in Uid, NEW rs \in Seq(Future), rs # <<>>, Displays(u, rs)
  PROVE  \E sc \in Wallet :
           /\ screen' = [screen EXCEPT ![u] = sc]
           /\ sc = IF Last(rs).state = "done" THEN Last(rs).list ELSE screen[u]
<1>1. Len(rs) \in DOMAIN rs /\ Last(rs) = rs[Len(rs)]
  BY EmptySeq, LenProperties DEF Last
<1>2. Last(rs).list \in Wallet
  <2>1. rs[Len(rs)] \in Future
    BY <1>1
  <2>2. QED
    BY <1>1, <2>1 DEF Future
<1>3. QED
  BY <1>2, OfApp DEF Displays

LEMMA ListChangeInv ==
  ASSUME WInv, NEW u \in Uid, NEW rs \in Seq(Future), rs # <<>>, ChainOK(rs),
         reads[u] # <<>>,
         Becomes(u, rs), Displays(u, rs) \/ UNCHANGED screen
  PROVE  WInv'
<1>1. PICK sc \in Wallet : screen' = [screen EXCEPT ![u] = sc]
  BY OfApp, DisplaysList DEF WInv
<1>2. /\ page'  = [page EXCEPT ![u] = page[u]]
      /\ reads' = [reads EXCEPT ![u] = rs]
      /\ page[u] \in {"login", "profile", "upload"} /\ PageOK(page[u], rs)
      /\ Owned(page[u], uploads[u], pending[u])
      /\ UNCHANGED <<wallets, storage, uploads, pending>>
  BY OfApp DEF WInv, Becomes, PageOK
<1>3. QED
  BY <1>1, <1>2, PageStep

LEMMA FutureOf ==
  ASSUME WInv, NEW u \in Uid, NEW i \in DOMAIN reads[u]
  PROVE  /\ reads[u] \in Seq(Future) /\ reads[u] # <<>> /\ ChainOK(reads[u])
         /\ reads[u][i] \in Future /\ reads[u][i].list \in Wallet
<1>1. reads[u] \in Seq(Future) /\ reads[u] # <<>> /\ ChainOK(reads[u])
  BY OfApp DEF WInv, PageOK
<1>2. reads[u][i] \in Future
  BY <1>1
<1>3. QED
  BY <1>1, <1>2 DEF Future

LEMMA ViewType ==
  ASSUME TypeOK, NEW u \in Uid
  PROVE  View(u) \in Wallet
<1>1. \A i \in DOMAIN pending[u] : pending[u][i].nft \in Nft
  <2>1. \A i \in DOMAIN pending[u] : pending[u][i] \in Update
    BY OfApp
  <2>2. QED
    BY <2>1 DEF Update
<1>2. QED
  BY <1>1, OfApp DEF View, Wallet

LEMMA EndedInv ==
  ASSUME WInv, NEW u \in Uid, NEW i \in DOMAIN reads[u],
         NEW state \in {"done", "failed"}, NEW list \in Wallet, Ended(u, i, state, list)
  PROVE  WInv'
<1> DEFINE e  == [state |-> state, list |-> list]
           rs == FutureEnds(reads[u], i, e)
<1>1. e \in Future /\ e.state \in {"done", "failed"}
  BY DEF Future
<1>2. Becomes(u, rs) /\ Displays(u, rs)
  BY DEF Ended, FutureEnds
<1> HIDE DEF e
<1>3. rs \in Seq(Future) /\ rs # <<>> /\ ChainOK(rs)
  BY <1>1, FutureOf, FuturesAfter, ChainAfter
<1> HIDE DEF rs
<1>4. QED
  BY <1>2, <1>3, FutureOf, ListChangeInv

LEMMA ListReadInv ==
  ASSUME WInv, NEW u \in Uid, NEW i \in DOMAIN reads[u], ListRead(u, i)
  PROVE  WInv'
<1> DEFINE e  == [state |-> "sleeping", list |-> View(u)]
           rs == [reads[u] EXCEPT ![i] = e]
<1>1. e \in Future /\ e.state = "sleeping"
  BY ViewType DEF Future, WInv
<1>2. Becomes(u, rs) /\ UNCHANGED screen
  BY DEF ListRead, ReplaceAt
<1> HIDE DEF e
<1>3. rs \in Seq(Future) /\ DOMAIN rs = DOMAIN reads[u] /\ Len(rs) = Len(reads[u])
  BY <1>1, FutureOf, ReplaceAtType
<1>4. ChainOK(rs)
  BY <1>1, <1>3, FutureOf DEF ChainOK
<1>5. rs # <<>>
  BY <1>3, FutureOf, EmptySeq
<1> HIDE DEF rs
<1>6. QED
  BY <1>2, <1>3, <1>4, <1>5, FutureOf, ListChangeInv

LEMMA ListSettlesInv ==
  ASSUME WInv, NEW u \in Uid, ListSettles(u)
  PROVE  WInv'
<1>1. PICK i \in DOMAIN reads[u] :
        ListRead(u, i) \/ ListShown(u, i) \/ ListMissing(u, i)
        \/ InitFails(u, i) \/ RefreshFails(u, i)
  BY DEF ListSettles
<1>2. CASE ListRead(u, i)
  BY <1>2, ListReadInv
<1>3. CASE ListShown(u, i)
  BY <1>3, EndedInv, FutureOf DEF ListShown
<1>4. CASE ListMissing(u, i)
  BY <1>4, EndedInv DEF ListMissing, Wallet
<1>5. CASE InitFails(u, i)
  BY <1>5, EndedInv DEF InitFails, Wallet
<1>6. CASE RefreshFails(u, i)
  <2> DEFINE rs == RemoveAt(reads[u], i)
  <2>1. i # 1
    BY <1>6, FutureOf DEF RefreshFails, ChainOK
  <2>2. rs \in Seq(Future) /\ rs # <<>> /\ ChainOK(rs)
    BY <2>1, FutureOf, ChainWithout
  <2>3. Becomes(u, rs) /\ Displays(u, rs)
    BY <1>6 DEF RefreshFails
  <2> HIDE DEF rs
  <2>4. QED
    BY <2>2, <2>3, FutureOf, ListChangeInv
<1>7. QED
  BY <1>1, <1>2, <1>3, <1>4, <1>5, <1>6

LEMMA DeletedInv ==
  ASSUME WInv, NEW u \in Uid, Deleted(u)
  PROVE  WInv'
<1>1. /\ wallets' = [wallets EXCEPT ![u] = NoWallet] /\ NoWallet \in Wallet
      /\ UNCHANGED <<storage, page, reads, screen, uploads, pending>>
  BY DEF Deleted, Wallet
<1>2. TypeOK'
  BY <1>1 DEF WInv, TypeOK
<1>3. \A v \in Uid : wallets'[v] = IF v = u THEN NoWallet ELSE wallets[v]
  BY <1>1 DEF WInv, TypeOK
<1>4. \A v \in Uid : FilesIn(wallets'[v], uploads'[v], pending'[v], storage')
  BY <1>1, <1>3 DEF WInv, FilesIn
<1>5. QED
  BY <1>1, <1>2, <1>4 DEF WInv

-----------------------------------------------------------------------------
(* The theorems.                                                           *)

LEMMA WInvInitially == Init => WInv
<1> SUFFICES ASSUME Init PROVE WInv
  OBVIOUS
<1>1. TypeOK
  BY DEF Init, TypeOK, Wallet
<1>2. \A u \in Uid : PageOK(page[u], reads[u]) /\ Owned(page[u], uploads[u], pending[u])
  BY EmptyChain DEF Init, Owned
<1>3. \A u \in Uid : FilesIn(wallets[u], uploads[u], pending[u], storage)
  BY DEF Init, FilesIn
<1>4. QED
  BY <1>1, <1>2, <1>3 DEF WInv

LEMMA PersonInv ==
  ASSUME WInv, NEW u \in Uid, Person(u)
  PROVE  WInv'
<1>1. CASE \E i \in DOMAIN uploads[u] :
             NotPicked(u, i) \/ \E f \in File, pic \in Picture : Picked(u, i, f, pic)
  <2>1. ASSUME NEW i \in DOMAIN uploads[u], NotPicked(u, i) PROVE WInv'
    BY <2>1, ThrowsInv DEF NotPicked
  <2>2. QED
    BY <1>1, <2>1, PickedInv
<1>2. QED
  BY <1>1, SignInInv, LogOutInv, PressRefreshInv, OpenUploadInv, BackInv,
     PressPostInv, CloseAppInv DEF Person

LEMMA UploadSettlesInv ==
  ASSUME WInv, NEW u \in Uid, UploadSettles(u)
  PROVE  WInv'
<1>1. ASSUME NEW i \in DOMAIN uploads[u], UploadFails(u, i) PROVE WInv'
  BY <1>1, ThrowsInv DEF UploadFails
<1>2. QED
  BY <1>1, PutInv, LinkedInv DEF UploadSettles

LEMMA WInvInductive == WInv /\ [Next]_vars => WInv'
<1> SUFFICES ASSUME WInv, [Next]_vars PROVE WInv'
  OBVIOUS
<1>1. CASE UNCHANGED vars
  BY <1>1 DEF vars, WInv, TypeOK
<1>2. QED
  BY <1>1, PersonInv, UploadSettlesInv, ListSettlesInv, CommitInv, DeletedInv DEF Next

(* The shapes of the variables, among them: an upload that goes on after   *)
(* the gallery was closed has a file (uploadImage.dart:10).                *)
THEOREM WalletTypes == Spec => []TypeOK
<1>1. WInv => TypeOK
  BY DEF WInv
<1>2. QED
  BY <1>1, WInvInitially, WInvInductive, PTL DEF Spec

(* For any number of users and uploads, whatever fails, is left or closed: *)
(* an NFT in a wallet (upload_page.dart:93) links to a file that is in     *)
(* Storage (uploadImage.dart:15-19).                                       *)
THEOREM StoredLinksResolve == Spec => []LinksResolve
<1>1. WInv => LinksResolve
  BY DEF WInv, LinksResolve, FilesIn, Stored
<1>2. QED
  BY <1>1, WInvInitially, WInvInductive, PTL DEF Spec

-----------------------------------------------------------------------------
(* The lists.  The profile page never goes back to an older one, for any   *)
(* number of overlapping reads, of which any may fail: what a client reads *)
(* only grows, until the document is deleted; each list that was read is   *)
(* no older than the one on the screen; and a future that falls back on    *)
(* another can only fall back on such a list.                              *)

(* A list may replace a on the screen by b.                                *)
Before(a, b) == b = NoWallet \/ (a # NoWallet /\ a \subseteq b)

(* The screen sc, the lists that may come to be shown, and what a client   *)
(* would read now, vw, from old to new.                                    *)
Ordered(pg, rs, sc, vw) == pg # "login" =>
  /\ Before(sc, vw)
  /\ \A i \in DOMAIN rs : rs[i].state \in {"sleeping", "done"} =>
       Before(sc, rs[i].list) /\ Before(rs[i].list, vw)

(* The inductive invariant.                                                *)
LInv == WInv /\ \A u \in Uid : Ordered(page[u], reads[u], screen[u], View(u))

(* What a step of u has to show.                                           *)
GoesOn(u) ==
  /\ Ordered(page'[u], reads'[u], screen'[u], View(u)')
  /\ page[u] # "login" => screen'[u] = screen[u] \/ Before(screen[u], screen'[u])

-----------------------------------------------------------------------------
(* Facts about the order.                                                  *)

LEMMA BeforeOrder ==
  ASSUME NEW a, NEW b, NEW c
  PROVE  Before(a, a) /\ (Before(a, b) /\ Before(b, c) => Before(a, c))
  BY DEF Before

LEMMA StillOrdered ==
  ASSUME NEW pg, NEW rs, NEW sc, NEW vw, NEW pg2, NEW new,
         Ordered(pg, rs, sc, vw), Before(vw, new), pg2 # "login" => pg # "login"
  PROVE  Ordered(pg2, rs, sc, new)
  BY BeforeOrder DEF Ordered

(* A future that is still loading has no list yet.                         *)
LEMMA OrderedWithRefresh ==
  ASSUME NEW pg, NEW rs \in Seq(Future), NEW sc, NEW vw,
         Ordered(pg, rs, sc, vw), pg # "login"
  PROVE  Ordered("profile", Append(rs, Loading("refresh")), sc, vw)
<1> DEFINE f == Loading("refresh")
<1>1. f \in Future /\ f.state = "refresh"
  BY LoadingType
<1> HIDE DEF f
<1>2. /\ Append(rs, f)[Len(rs) + 1] = f
      /\ \A i \in DOMAIN rs : Append(rs, f)[i] = rs[i]
      /\ DOMAIN Append(rs, f) = DOMAIN rs \cup {Len(rs) + 1}
  BY <1>1, AppendType, LenProperties
<1>3. Ordered("profile", Append(rs, f), sc, vw)
  BY <1>1, <1>2 DEF Ordered
<1>4. QED
  BY <1>3 DEF f

(* What a client reads grows, as long as updates stay in its queue or are  *)
(* stored, until the document is deleted.                                  *)
LEMMA ViewGrows ==
  ASSUME TypeOK, NEW u \in Uid,
         wallets'[u] = NoWallet \/
           /\ wallets[u] # NoWallet /\ wallets[u] \subseteq wallets'[u]
           /\ \A i \in DOMAIN pending[u] :
                pending[u][i].nft \in
                  wallets'[u] \cup {pending'[u][j].nft : j \in DOMAIN pending'[u]}
  PROVE  Before(View(u), View(u)')
<1>1. CASE wallets'[u] = NoWallet
  BY <1>1 DEF Before, View
<1>2. CASE wallets'[u] # NoWallet
  <2>1. /\ View(u)  = wallets[u] \cup {pending[u][i].nft : i \in DOMAIN pending[u]}
        /\ View(u)' = wallets'[u] \cup {pending'[u][j].nft : j \in DOMAIN pending'[u]}
    BY <1>2 DEF View
  <2>2. View(u) \subseteq View(u)'
    BY <1>2, <2>1
  <2>3. View(u) # NoWallet
    <3>1. \A i \in DOMAIN pending[u] : pending[u][i].nft \in Nft
      <4>1. \A i \in DOMAIN pending[u] : pending[u][i] \in Update
        BY OfApp
      <4>2. QED
        BY <4>1 DEF Update
    <3>2. wallets[u] \in SUBSET Nft
      BY <1>2, OfApp DEF Wallet
    <3>3. View(u) \in SUBSET Nft
      BY <2>1, <3>1, <3>2
    <3>4. QED
      BY <3>3, WalletAssumption
  <2>4. QED
    BY <2>2, <2>3 DEF Before
<1>3. QED
  BY <1>1, <1>2

(* Where neither the wallet nor the queue changes, nor does what is read.  *)
LEMMA ViewStays ==
  ASSUME NEW u \in Uid, wallets'[u] = wallets[u], pending'[u] = pending[u]
  PROVE  View(u)' = View(u)
  BY DEF View

(* Steps that leave the list alone.                                        *)
LEMMA ScreenStep ==
  ASSUME LInv, NEW u \in Uid,
         reads'[u] = reads[u], screen'[u] = screen[u],
         Before(View(u), View(u)'), page'[u] # "login" => page[u] # "login"
  PROVE  GoesOn(u)
<1>1. Ordered(page[u], reads[u], screen[u], View(u))
  BY DEF LInv
<1>2. Ordered(page'[u], reads[u], screen[u], View(u)')
  BY <1>1, StillOrdered
<1>3. QED
  BY <1>2 DEF GoesOn

-----------------------------------------------------------------------------
(* The person.                                                             *)

LEMMA PagesGoOn ==
  ASSUME LInv, NEW u \in Uid,
         SignIn(u) \/ LogOut(u) \/ PressRefresh(u) \/ OpenUpload(u) \/ Back(u)
         \/ PressPost(u) \/ CloseApp(u)
  PROVE  GoesOn(u)
<1>1. /\ TypeOK /\ u \in DOMAIN page /\ u \in DOMAIN reads /\ u \in DOMAIN screen
      /\ u \in DOMAIN pending
  BY DEF LInv, WInv, TypeOK
<1>2. Before(View(u), View(u))
  BY BeforeOrder
<1>3. CASE SignIn(u)
  <2>1. /\ page[u] = "login" /\ reads'[u] = <<Loading("init")>> /\ screen'[u] = {}
    BY <1>1, <1>3 DEF SignIn
  <2>2. Before({}, View(u)')
    BY WalletAssumption DEF Before
  <2>3. \A i \in DOMAIN <<Loading("init")>> :
          <<Loading("init")>>[i].state \notin {"sleeping", "done"}
    BY DEF Loading
  <2>4. QED
    BY <2>1, <2>2, <2>3 DEF GoesOn, Ordered
<1>4. CASE LogOut(u) \/ CloseApp(u)
  <2>1. page'[u] = "login" /\ screen'[u] = screen[u]
    BY <1>1, <1>4 DEF LogOut, CloseApp
  <2>2. QED
    BY <2>1 DEF GoesOn, Ordered
<1>5. CASE PressRefresh(u)
  <2>1. /\ page[u] = "profile" /\ page'[u] = "profile" /\ screen'[u] = screen[u]
        /\ reads'[u] = Append(reads[u], Loading("refresh"))
        /\ View(u)' = View(u)
    BY <1>1, <1>5, ViewStays DEF PressRefresh
  <2>2. Ordered(page[u], reads[u], screen[u], View(u)) /\ reads[u] \in Seq(Future)
    BY <1>1, OfApp DEF LInv
  <2>3. Ordered("profile", Append(reads[u], Loading("refresh")), screen[u], View(u))
    BY <2>1, <2>2, OrderedWithRefresh
  <2>4. QED
    BY <2>1, <2>3 DEF GoesOn
<1>6. CASE OpenUpload(u) \/ PressPost(u)
  <2>1. /\ page[u] # "login" /\ reads'[u] = reads[u] /\ screen'[u] = screen[u]
        /\ View(u)' = View(u)
    BY <1>6, ViewStays DEF OpenUpload, PressPost
  <2>2. QED
    BY <1>2, <2>1, ScreenStep
<1>7. CASE Back(u)
  <2>1. /\ page[u] # "login" /\ reads'[u] = reads[u] /\ screen'[u] = screen[u]
        /\ wallets'[u] = wallets[u] /\ pending'[u] = Unmounted(pending[u])
    BY <1>1, <1>7 DEF Back
  <2>2. /\ DOMAIN pending'[u] = DOMAIN pending[u]
        /\ \A i \in DOMAIN pending[u] : pending'[u][i].nft = pending[u][i].nft
    BY <1>1, <2>1, OfApp, UnmountedUpdates
  <2>3. Before(View(u), View(u)')
    BY <1>1, <2>1, <2>2, ViewGrows
  <2>4. QED
    BY <2>1, <2>3, ScreenStep
<1>8. QED
  BY <1>3, <1>4, <1>5, <1>6, <1>7

-----------------------------------------------------------------------------
(* Uploads, updates and deletions.                                         *)

LEMMA UploadsGoOn ==
  ASSUME LInv, NEW u \in Uid, NEW i \in DOMAIN uploads[u],
         \/ Put(u, i) \/ UploadFails(u, i) \/ NotPicked(u, i)
         \/ \E f \in File, pic \in Picture : Picked(u, i, f, pic)
  PROVE  GoesOn(u)
<1>1. UNCHANGED <<wallets, page, reads, screen, pending>>
  BY DEF Put, UploadFails, NotPicked, Picked, Goes, Throws
<1>2. View(u)' = View(u) /\ Before(View(u), View(u))
  BY <1>1, ViewStays, BeforeOrder
<1>3. QED
  BY <1>1, <1>2, ScreenStep

LEMMA LinkedGoesOn ==
  ASSUME LInv, NEW u \in Uid, NEW i \in DOMAIN uploads[u], NEW t \in Text,
         Linked(u, i, t)
  PROVE  GoesOn(u)
<1> DEFINE w  == [nft |-> [text |-> t, file |-> uploads[u][i].file,
                           picture |-> uploads[u][i].picture],
                  mounted |-> uploads[u][i].mounted]
           ws == Append(pending[u], w)
<1>1. TypeOK /\ pending[u] \in Seq(Update) /\ u \in DOMAIN pending
  BY OfApp DEF LInv, WInv, TypeOK
<1>2. w \in Update
  BY UploadOf DEF LInv, WInv, Linked, Awaits, Update, Nft
<1>3. pending'[u] = ws /\ UNCHANGED <<wallets, page, reads, screen>>
  BY <1>1 DEF Linked
<1> HIDE DEF w
<1>4. \A j \in DOMAIN pending[u] : j \in DOMAIN ws /\ ws[j] = pending[u][j]
  BY <1>1, <1>2, AppendType
<1> HIDE DEF ws
<1>5. Before(View(u), View(u)')
  BY <1>1, <1>3, <1>4, ViewGrows
<1>6. QED
  BY <1>3, <1>5, ScreenStep

(* The update that leaves the queue is in the wallet, or the document is   *)
(* deleted.                                                                *)
LEMMA CommitGoesOn ==
  ASSUME LInv, NEW u \in Uid, Commit(u)
  PROVE  GoesOn(u)
<1> DEFINE w  == Head(pending[u])
           ws == Tail(pending[u])
<1>1. /\ TypeOK /\ pending[u] \in Seq(Update) /\ pending[u] # <<>>
      /\ u \in DOMAIN pending /\ u \in DOMAIN reads /\ u \in DOMAIN page
      /\ u \in DOMAIN wallets /\ screen' = screen
  BY OfApp DEF LInv, WInv, TypeOK, Commit
<1>2. /\ w = pending[u][1] /\ ws \in Seq(Update)
      /\ \A i \in DOMAIN pending[u] : i = 1 \/ i - 1 \in DOMAIN ws
      /\ \A i \in DOMAIN ws : ws[i] = pending[u][i + 1]
      /\ DOMAIN pending[u] \subseteq Nat
  <2>1. /\ w = pending[u][1] /\ ws \in Seq(Update) /\ Len(ws) = Len(pending[u]) - 1
        /\ \A i \in DOMAIN ws : ws[i] = pending[u][i + 1]
    BY <1>1, HeadTailProperties, TailType
  <2>2. /\ DOMAIN pending[u] = 1..Len(pending[u]) /\ Len(pending[u]) \in Nat
    BY <1>1, LenProperties
  <2> HIDE DEF ws
  <2>3. DOMAIN ws = 1..Len(ws)
    BY <2>1, LenProperties
  <2>4. QED
    BY <2>1, <2>2, <2>3
<1> HIDE DEF ws, w
<1>3. \A i \in DOMAIN pending[u] : pending[u][i] = w
                                   \/ \E j \in DOMAIN ws : pending[u][i] = ws[j]
  <2>1. ASSUME NEW i \in DOMAIN pending[u], i # 1
        PROVE  i - 1 \in DOMAIN ws /\ pending[u][i] = ws[i - 1]
    BY <1>2, <2>1
  <2>2. QED
    BY <1>2, <2>1
<1>4. CASE wallets[u] = NoWallet
  <2>1. wallets'[u] = NoWallet /\ UNCHANGED <<page, reads>>
    BY <1>4 DEF Commit, StaysOpen
  <2>2. Before(View(u), View(u)')
    BY <1>1, <2>1, ViewGrows
  <2>3. QED
    BY <1>1, <2>1, <2>2, ScreenStep
<1>5. CASE wallets[u] # NoWallet
  <2>1. wallets'[u] = wallets[u] \cup {w.nft}
    BY <1>1, <1>5 DEF Commit, w
  <2>2. CASE ~w.mounted
    <3>1. pending'[u] = ws /\ UNCHANGED <<page, reads>>
      BY <1>1, <1>5, <2>2 DEF Commit, StaysOpen, w, ws
    <3>2. Before(View(u), View(u)')
      BY <1>1, <1>3, <1>5, <2>1, <3>1, ViewGrows
    <3>3. QED
      BY <1>1, <3>1, <3>2, ScreenStep
  <2>3. CASE w.mounted
    <3>1. /\ pending'[u] = Unmounted(ws) /\ page'[u] = "profile"
          /\ reads'[u] = Append(reads[u], Loading("refresh"))
      BY <1>1, <1>5, <2>3 DEF Commit, CloseWithTrue, w, ws
    <3>2. /\ DOMAIN Unmounted(ws) = DOMAIN ws
          /\ \A j \in DOMAIN ws : Unmounted(ws)[j].nft = ws[j].nft
      BY <1>2, UnmountedUpdates
    <3>3. Before(View(u), View(u)')
      BY ZenonT(60), <1>1, <1>3, <1>5, <2>1, <3>1, <3>2, ViewGrows
    <3>4. page[u] = "upload"
      BY <1>1, <2>3, QueueAdvances DEF LInv, w
    <3>5. Ordered("profile", reads[u], screen[u], View(u)')
      BY <3>3, <3>4, StillOrdered DEF LInv
    <3>6. Ordered("profile", Append(reads[u], Loading("refresh")), screen[u], View(u)')
      BY <1>1, <3>5, OfApp, OrderedWithRefresh
    <3>7. QED
      BY <1>1, <3>1, <3>6 DEF GoesOn
  <2>4. QED
    BY <2>2, <2>3
<1>6. QED
  BY <1>4, <1>5

LEMMA DeletedGoesOn ==
  ASSUME LInv, NEW u \in Uid, Deleted(u)
  PROVE  GoesOn(u)
<1>1. /\ TypeOK /\ wallets'[u] = NoWallet
      /\ UNCHANGED <<page, reads, screen, pending>>
  BY DEF LInv, WInv, TypeOK, Deleted
<1>2. Before(View(u), View(u)')
  BY <1>1, ViewGrows
<1>3. QED
  BY <1>1, <1>2, ScreenStep

-----------------------------------------------------------------------------
(* The list.                                                               *)

(* The futures rs replace those of u.  Each that has a list has one that   *)
(* is no older than the screen, and the last is shown when it is done: then *)
(* it is the only one.                                                     *)
LEMMA ListChanges ==
  ASSUME LInv, NEW u \in Uid, page[u] # "login", NEW rs \in Seq(Future),
         rs # <<>>, ChainOK(rs), Becomes(u, rs),
         Displays(u, rs) \/ UNCHANGED screen,
         Ordered(page[u], rs, screen[u], View(u))
  PROVE  GoesOn(u)
<1>1. /\ reads'[u] = rs /\ page'[u] = page[u] /\ View(u)' = View(u)
      /\ TypeOK /\ u \in DOMAIN screen
  BY ViewStays DEF Becomes, LInv, WInv, TypeOK
<1>2. CASE screen'[u] = screen[u]
  BY <1>1, <1>2 DEF GoesOn
<1>3. CASE screen'[u] # screen[u]
  <2>1. /\ Last(rs).state = "done" /\ screen'[u] = Last(rs).list
    BY <1>1, <1>3 DEF Displays
  <2>2. /\ Len(rs) \in DOMAIN rs /\ Last(rs) = rs[Len(rs)] /\ Len(rs) = 1
        /\ DOMAIN rs = 1..Len(rs)
    <3>1. /\ DOMAIN rs = 1..Len(rs) /\ Len(rs) \in DOMAIN rs
          /\ Last(rs) = rs[Len(rs)]
      BY EmptySeq, LenProperties DEF Last
    <3>2. Len(rs) = 1
      BY <2>1, <3>1 DEF ChainOK
    <3>3. QED
      BY <3>1, <3>2
  <2>3. /\ Before(screen[u], screen'[u]) /\ Before(screen'[u], View(u))
    BY <2>1, <2>2 DEF Ordered
  <2>4. \A i \in DOMAIN rs : rs[i].list = screen'[u]
    BY <2>1, <2>2
  <2>5. Ordered(page[u], rs, screen'[u], View(u))
    BY <2>3, <2>4, BeforeOrder DEF Ordered
  <2>6. QED
    BY <1>1, <2>3, <2>5 DEF GoesOn
<1>4. QED
  BY <1>2, <1>3

LEMMA EndedGoesOn ==
  ASSUME LInv, NEW u \in Uid, NEW i \in DOMAIN reads[u], page[u] # "login",
         NEW state \in {"done", "failed"}, NEW list \in Wallet,
         Ended(u, i, state, list),
         state = "done" => Before(screen[u], list) /\ Before(list, View(u))
  PROVE  GoesOn(u)
<1> DEFINE e  == [state |-> state, list |-> list]
           rs == FutureEnds(reads[u], i, e)
<1>1. e \in Future /\ e.state = state /\ e.list = list
  BY DEF Future
<1>2. Becomes(u, rs) /\ Displays(u, rs)
  BY DEF Ended, FutureEnds
<1> HIDE DEF e
<1>3. /\ rs \in Seq(Future) /\ rs # <<>> /\ ChainOK(rs)
      /\ \A j \in DOMAIN rs : i + j - 1 \in DOMAIN reads[u]
                              /\ rs[j] = IF j = 1 THEN e ELSE reads[u][i + j - 1]
  <2>1. /\ reads[u] \in Seq(Future) /\ ChainOK(reads[u]) /\ e \in Future
        /\ e.state \in {"done", "failed"}
    BY <1>1, FutureOf DEF LInv
  <2>2. rs \in Seq(Future) /\ DOMAIN rs = 1..(Len(reads[u]) - i + 1)
        /\ \A j \in DOMAIN rs : i + j - 1 \in DOMAIN reads[u]
                                /\ rs[j] = IF j = 1 THEN e ELSE reads[u][i + j - 1]
    BY ZenonT(60), <2>1, FuturesAfter
  <2>3. ChainOK(rs) /\ rs # <<>>
    BY <2>1, ChainAfter
  <2> HIDE DEF rs
  <2>4. QED
    BY <2>2, <2>3
<1> HIDE DEF rs
<1>4. \A j \in DOMAIN rs : rs[j] = e \/ \E k \in DOMAIN reads[u] : rs[j] = reads[u][k]
  BY <1>3
<1>5. Ordered(page[u], rs, screen[u], View(u))
  BY <1>1, <1>4 DEF LInv, Ordered
<1>6. QED
  BY <1>2, <1>3, <1>5, ListChanges

LEMMA ListGoesOn ==
  ASSUME LInv, NEW u \in Uid, ListSettles(u), page[u] # "login"
  PROVE  GoesOn(u)
<1>1. PICK i \in DOMAIN reads[u] :
        ListRead(u, i) \/ ListShown(u, i) \/ ListMissing(u, i)
        \/ InitFails(u, i) \/ RefreshFails(u, i)
  BY DEF ListSettles
<1>2. /\ WInv /\ TypeOK /\ Ordered(page[u], reads[u], screen[u], View(u))
      /\ View(u) \in Wallet
  BY ViewType DEF LInv, WInv
<1>3. CASE ListRead(u, i)
  <2> DEFINE e  == [state |-> "sleeping", list |-> View(u)]
             rs == [reads[u] EXCEPT ![i] = e]
  <2>1. e \in Future /\ e.state = "sleeping" /\ e.list = View(u)
    BY <1>2 DEF Future
  <2>2. Becomes(u, rs) /\ UNCHANGED screen
    BY <1>3 DEF ListRead, ReplaceAt
  <2> HIDE DEF e
  <2>3. rs \in Seq(Future) /\ DOMAIN rs = DOMAIN reads[u] /\ Len(rs) = Len(reads[u])
    BY <1>2, <2>1, FutureOf, ReplaceAtType
  <2>4. ChainOK(rs) /\ rs # <<>>
    BY <1>2, <2>1, <2>3, FutureOf, EmptySeq DEF ChainOK
  <2>5. Ordered(page[u], rs, screen[u], View(u))
    BY <1>2, <2>1, <2>3, BeforeOrder DEF Ordered
  <2> HIDE DEF rs
  <2>6. QED
    BY <2>2, <2>3, <2>4, <2>5, ListChanges
<1>4. CASE ListShown(u, i)
  <2>1. reads[u][i].list \in Wallet /\ reads[u][i].state = "sleeping"
    BY <1>2, <1>4, FutureOf DEF ListShown
  <2>2. Before(screen[u], reads[u][i].list) /\ Before(reads[u][i].list, View(u))
    BY <1>2, <2>1 DEF Ordered
  <2>3. QED
    BY <1>4, <2>1, <2>2, EndedGoesOn DEF ListShown
<1>5. CASE ListMissing(u, i)
  <2>1. NoWallet \in Wallet /\ Before(screen[u], NoWallet) /\ Before(NoWallet, View(u))
    BY <1>5 DEF ListMissing, Wallet, Before
  <2>2. QED
    BY <1>5, <2>1, EndedGoesOn DEF ListMissing
<1>6. CASE InitFails(u, i)
  BY <1>6, EndedGoesOn DEF InitFails, Wallet
<1>7. CASE RefreshFails(u, i)
  <2> DEFINE rs == RemoveAt(reads[u], i)
  <2>1. i # 1
    BY <1>2, <1>7, FutureOf DEF RefreshFails, ChainOK
  <2>2. rs \in Seq(Future) /\ rs # <<>> /\ ChainOK(rs)
    BY <1>2, <2>1, FutureOf, ChainWithout
  <2>3. \A j \in DOMAIN rs : \E k \in DOMAIN reads[u] : rs[j] = reads[u][k]
    BY <1>2, FutureOf, RemoveAtType
  <2>4. Becomes(u, rs) /\ Displays(u, rs)
    BY <1>7 DEF RefreshFails
  <2> HIDE DEF rs
  <2>5. Ordered(page[u], rs, screen[u], View(u))
    BY <1>2, <2>3 DEF Ordered
  <2>6. QED
    BY <2>2, <2>4, <2>5, ListChanges
<1>8. QED
  BY <1>1, <1>3, <1>4, <1>5, <1>6, <1>7

-----------------------------------------------------------------------------
(* The theorem.                                                            *)

LEMMA WhoActs ==
  ASSUME LInv, NEW u \in Uid,
         Person(u) \/ UploadSettles(u) \/ ListSettles(u) \/ Commit(u) \/ Deleted(u)
  PROVE  GoesOn(u)
<1>1. CASE Person(u)
  BY <1>1, PagesGoOn, UploadsGoOn DEF Person
<1>2. CASE UploadSettles(u)
  BY <1>2, UploadsGoOn, LinkedGoesOn DEF UploadSettles
<1>3. CASE ListSettles(u)
  <2>1. CASE page[u] = "login"
    <3>1. page' = page
      BY <1>3 DEF ListSettles, ListRead, ListShown, ListMissing, InitFails,
                  RefreshFails, Ended, Becomes
    <3>2. QED
      BY <2>1, <3>1 DEF GoesOn, Ordered
  <2>2. QED
    BY <1>3, <2>1, ListGoesOn
<1>4. QED
  BY <1>1, <1>2, <1>3, CommitGoesOn, DeletedGoesOn

(* Everybody else's app is as it was.                                      *)
Alone(v) ==
  /\ page'[v] = page[v] /\ reads'[v] = reads[v] /\ screen'[v] = screen[v]
  /\ wallets'[v] = wallets[v] /\ uploads'[v] = uploads[v] /\ pending'[v] = pending[v]

LEMMA OthersAlone ==
  ASSUME WInv, NEW u \in Uid, NEW v \in Uid, v # u,
         Person(u) \/ UploadSettles(u) \/ ListSettles(u) \/ Commit(u) \/ Deleted(u)
  PROVE  Alone(v)
<1>1. TypeOK
  BY DEF WInv
<1>2. CASE Person(u)
  BY <1>1, <1>2 DEF Person, SignIn, LogOut, PressRefresh, OpenUpload, Back,
     PressPost, CloseApp, NotPicked, Picked, Goes, Throws, TypeOK, Alone
<1>3. CASE UploadSettles(u)
  BY <1>1, <1>3 DEF UploadSettles, Put, UploadFails, Linked, Goes, Throws, TypeOK,
     Alone
<1>4. CASE ListSettles(u)
  <2>1. /\ \E rs : reads' = [reads EXCEPT ![u] = rs]
        /\ \E sc : screen' = screen \/ screen' = [screen EXCEPT ![u] = sc]
        /\ UNCHANGED <<wallets, page, uploads, pending>>
    BY <1>4 DEF ListSettles, ListRead, ListShown, ListMissing, InitFails,
                RefreshFails, Ended, Becomes, Displays
  <2>2. QED
    BY <1>1, <2>1 DEF TypeOK, Alone
<1>5. CASE Commit(u)
  BY <1>1, <1>5 DEF Commit, StaysOpen, CloseWithTrue, TypeOK, Alone
<1>6. CASE Deleted(u)
  BY <1>1, <1>6 DEF Deleted, TypeOK, Alone
<1>7. QED
  BY <1>2, <1>3, <1>4, <1>5, <1>6

LEMMA EachGoesOn ==
  ASSUME LInv, [Next]_vars
  PROVE  \A v \in Uid : GoesOn(v)
<1> TAKE v \in Uid
<1>1. Alone(v) => GoesOn(v)
  BY ViewStays DEF Alone, GoesOn, LInv
<1>2. CASE UNCHANGED vars
  BY <1>1, <1>2 DEF vars, Alone
<1>3. ASSUME NEW u \in Uid,
             Person(u) \/ UploadSettles(u) \/ ListSettles(u) \/ Commit(u) \/ Deleted(u)
      PROVE  GoesOn(v)
  <2>1. CASE v = u
    BY <1>3, <2>1, WhoActs
  <2>2. CASE v # u
    BY <1>1, <1>3, <2>2, OthersAlone DEF LInv
  <2>3. QED
    BY <2>1, <2>2
<1>4. QED
  BY <1>2, <1>3 DEF Next

LEMMA LInvInductive == LInv /\ [Next]_vars => LInv'
<1> SUFFICES ASSUME LInv, [Next]_vars PROVE LInv'
  OBVIOUS
<1>1. WInv'
  BY WInvInductive DEF LInv
<1>2. \A v \in Uid : GoesOn(v)
  BY EachGoesOn
<1>3. QED
  BY <1>1, <1>2 DEF LInv, GoesOn

LEMMA LInvInitially == Init => LInv
<1> SUFFICES ASSUME Init PROVE LInv
  OBVIOUS
<1>1. \A u \in Uid : page[u] = "login"
  BY DEF Init
<1>2. QED
  BY <1>1, WInvInitially DEF LInv, Ordered

(* Whatever reads overlap, fail, or are answered out of order              *)
(* (profile_page.dart:38-42, nft_api.dart:46-48), while uploads are in     *)
(* flight and documents deleted: no list on the profile page is replaced   *)
(* by an older one.                                                        *)
THEOREM ListsNeverGoBack == Spec => NeverOlder
<1> DEFINE NewerShown == \A u \in Uid : page[u] # "login" =>
             \/ screen'[u] = screen[u] \/ screen'[u] = NoWallet
             \/ /\ screen[u] # NoWallet
                /\ screen[u] \subseteq screen'[u]
<1>1. LInv /\ [Next]_vars => [NewerShown]_vars
  BY EachGoesOn DEF GoesOn, Before
<1>2. QED
  BY <1>1, LInvInitially, LInvInductive, PTL DEF Spec, NeverOlder

-----------------------------------------------------------------------------
(* Uploads are seen.  Somebody who waits, whose document stays and whose   *)
(* lists do not fail, has one upload in flight at most, and it belongs to  *)
(* the page that is there: it ends by closing that page, and no update is  *)
(* left to come when the profile page is back.  Until then the list it     *)
(* waits for is the wallet, or still loading.  While an update is queued,  *)
(* a read may run ahead of the wallet.                                     *)

Waiting == Patient \ (Deletable \cup Flaky)

AllMounted(works) == \A i \in DOMAIN works : works[i].mounted

OneUpload(ups, ws) == Len(ups) + Len(ws) <= 1 /\ AllMounted(ups) /\ AllMounted(ws)

ListIs(pg, rs, sc, list) == pg # "login" =>
  /\ Last(rs).state \in {"sleeping", "done"} => Last(rs).list = list
  /\ Last(rs).state = "done" => sc = Last(rs).list

InTime(u) ==
  /\ wallets[u] # NoWallet
  /\ OneUpload(uploads[u], pending[u])
  /\ pending[u] = <<>> => ListIs(page[u], reads[u], screen[u], wallets[u])

(* The inductive invariant.                                                *)
TInv == WInv /\ \A u \in Waiting : InTime(u)

LEMMA NothingUnmounted == Unmounted(<<>>) = <<>>
<1> DEFINE none == Unmounted(<<>>)
<1>1. <<>> \in Seq(Update) /\ DOMAIN <<>> = {}
  BY EmptySeq
<1>2. none \in Seq(Update) /\ DOMAIN none = {}
  BY <1>1, UnmountedUpdates
<1> HIDE DEF none
<1>3. Len(none) = 0
  BY <1>2, LenProperties
<1>4. none = <<>>
  BY <1>2, <1>3, EmptySeq
<1>5. QED
  BY <1>4 DEF none

LEMMA LastOf ==
  ASSUME NEW S, NEW q \in Seq(S), q # <<>>
  PROVE  Len(q) \in DOMAIN q /\ Last(q) = q[Len(q)]
  BY EmptySeq, LenProperties DEF Last

LEMMA LastAppended ==
  ASSUME NEW q \in Seq(Future), NEW state, Loading(state) \in Future
  PROVE  Last(Append(q, Loading(state))).state = state
<1> DEFINE f == Loading(state)
           r == Append(q, f)
<1>1. r \in Seq(Future) /\ Len(r) = Len(q) + 1 /\ r[Len(q) + 1] = f /\ Len(q) \in Nat
  BY AppendType, LenProperties
<1>2. f.state = state
  BY DEF Loading
<1> HIDE DEF r, f
<1>3. r # <<>>
  BY <1>1, EmptySeq
<1>4. Last(r) = f
  BY <1>1, <1>3, LastOf
<1>5. QED
  BY <1>2, <1>4 DEF r, f

(* The last future once future i ends.                                     *)
LEMMA LastAfter ==
  ASSUME NEW q \in Seq(Future), NEW i \in DOMAIN q, NEW e \in Future
  PROVE  Last(FutureEnds(q, i, e)) = IF i = Len(q) THEN e ELSE Last(q)
<1> DEFINE c == FutureEnds(q, i, e)
           N == Len(q)
<1>1. i \in 1..N /\ N \in Nat
  BY LenProperties
<1>2. /\ DOMAIN c = 1..(N - i + 1) /\ Len(c) = N - i + 1
      /\ \A j \in DOMAIN c : i + j - 1 \in DOMAIN q
                             /\ c[j] = IF j = 1 THEN e ELSE q[i + j - 1]
  BY FuturesAfter
<1>3. Last(c) = c[Len(c)] /\ Last(q) = q[N]
  BY DEF Last
<1> HIDE DEF c, N
<1>4. CASE i = N
  <2>1. N - i + 1 = 1 /\ 1 \in 1..1
    BY <1>1, <1>4
  <2>2. c[1] = e /\ Len(c) = 1
    BY <1>2, <2>1
  <2>3. QED
    BY <1>3, <1>4, <2>2 DEF c, N
<1>5. CASE i # N
  <2>1. /\ N - i + 1 \in 1..(N - i + 1) /\ N - i + 1 # 1
        /\ i + (N - i + 1) - 1 = N
    BY <1>1, <1>5
  <2>2. c[N - i + 1] = q[N]
    BY <1>2, <2>1
  <2>3. QED
    BY <1>2, <1>3, <1>5, <2>2 DEF c, N
<1>6. QED
  BY <1>4, <1>5

(* Two lengths.                                                            *)
LEMMA AtMostOne ==
  ASSUME NEW a \in Nat, NEW b \in Nat, a + b <= 1
  PROVE  /\ a # 0 => a = 1 /\ b = 0
         /\ b # 0 => b = 1 /\ a = 0
         /\ \A c \in Nat : c <= a => c + b <= 1
  OBVIOUS

LEMMA OneElement ==
  ASSUME NEW S, NEW e \in S
  PROVE  Append(<<>>, e) = <<e>>
<1> DEFINE q == Append(<<>>, e)
           r == <<e>>
<1>1. q \in Seq(S) /\ Len(q) = 1 /\ q[1] = e /\ DOMAIN q = {1}
  <2>1. <<>> \in Seq(S) /\ Len(<<>>) = 0
    BY EmptySeq
  <2>2. q \in Seq(S) /\ Len(q) = 0 + 1 /\ q[0 + 1] = e
    BY <2>1, AppendType
  <2> HIDE DEF q
  <2>3. QED
    BY <2>2, LenProperties
<1>2. r \in Seq(S) /\ Len(r) = 1 /\ r[1] = e
  OBVIOUS
<1> HIDE DEF q, r
<1>3. Len(q) = Len(r) /\ \A i \in 1..Len(q) : q[i] = r[i]
  BY <1>1, <1>2
<1>4. q = r
  BY <1>1, <1>2, <1>3, SeqEqual
<1>5. QED
  BY <1>4 DEF q, r

(* What the invariant says of somebody who waits.                          *)
LEMMA WaitingApp ==
  ASSUME TInv, NEW u \in Waiting
  PROVE  /\ u \in Uid /\ u \in Patient /\ u \notin Deletable /\ u \notin Flaky
         /\ WInv /\ TypeOK /\ InTime(u)
         /\ u \in DOMAIN wallets /\ u \in DOMAIN page /\ u \in DOMAIN reads
         /\ u \in DOMAIN screen /\ u \in DOMAIN uploads /\ u \in DOMAIN pending
         /\ reads[u] \in Seq(Future)
         /\ uploads[u] \in Seq(Upload) /\ pending[u] \in Seq(Update)
         /\ Len(uploads[u]) \in Nat /\ Len(pending[u]) \in Nat
         /\ page[u] # "login" => reads[u] # <<>>
         /\ Busy(u) => page[u] = "upload"
<1>1. u \in Uid /\ WInv /\ TypeOK /\ InTime(u)
  BY WalletAssumption DEF TInv, Waiting, WInv
<1>2. /\ uploads[u] \in Seq(Upload) /\ pending[u] \in Seq(Update)
      /\ reads[u] \in Seq(Future)
  BY <1>1, OfApp
<1>3. Busy(u) => page[u] = "upload"
  <2>1. ASSUME uploads[u] # <<>> PROVE page[u] = "upload"
    <3>1. Len(uploads[u]) \in DOMAIN uploads[u]
      BY <1>2, <2>1, LastOf
    <3>2. QED
      BY <1>1, <3>1 DEF WInv, Owned, InTime, OneUpload, AllMounted
  <2>2. ASSUME pending[u] # <<>> PROVE page[u] = "upload"
    <3>1. Len(pending[u]) \in DOMAIN pending[u]
      BY <1>2, <2>2, LastOf
    <3>2. QED
      BY <1>1, <3>1 DEF WInv, Owned, InTime, OneUpload, AllMounted
  <2>3. QED
    BY <2>1, <2>2 DEF Busy
<1>4. QED
  BY <1>1, <1>2, <1>3, LenProperties DEF Waiting, TypeOK, WInv, PageOK

(* A step after which nothing is in flight.                                *)
LEMMA FreeStep ==
  ASSUME TInv, NEW u \in Waiting, wallets'[u] # NoWallet,
         uploads'[u] = <<>>, pending'[u] = <<>>,
         ListIs(page'[u], reads'[u], screen'[u], wallets'[u])
  PROVE  InTime(u)'
<1>1. OneUpload(<<>>, <<>>)
  BY EmptySeq DEF OneUpload, AllMounted
<1>2. QED
  BY <1>1 DEF InTime

LEMMA PagesInTime ==
  ASSUME TInv, NEW u \in Waiting,
         SignIn(u) \/ LogOut(u) \/ PressRefresh(u) \/ OpenUpload(u) \/ Back(u)
         \/ PressPost(u) \/ CloseApp(u)
  PROVE  InTime(u)'
<1>1. /\ InTime(u) /\ u \in Patient /\ u \in DOMAIN page /\ u \in DOMAIN reads
      /\ u \in DOMAIN uploads /\ u \in DOMAIN pending /\ reads[u] \in Seq(Future)
      /\ (Busy(u) => page[u] = "upload") /\ wallets[u] # NoWallet
  BY WaitingApp DEF InTime
<1>2. ~Busy(u) => uploads[u] = <<>> /\ pending[u] = <<>>
  BY DEF Busy
<1>3. CASE SignIn(u)
  <2>1. /\ page[u] = "login" /\ reads'[u] = <<Loading("init")>>
        /\ UNCHANGED <<wallets, uploads, pending>>
    BY <1>1, <1>3 DEF SignIn
  <2>2. Last(<<Loading("init")>>).state = "init"
    BY DEF Last, Loading
  <2>3. QED
    BY <1>1, <1>2, <2>1, <2>2, FreeStep DEF ListIs
<1>4. CASE LogOut(u)
  <2>1. page[u] = "profile" /\ page'[u] = "login" /\ UNCHANGED <<wallets, uploads, pending>>
    BY <1>1, <1>4 DEF LogOut
  <2>2. QED
    BY <1>1, <1>2, <2>1, FreeStep DEF ListIs
<1>5. CASE PressRefresh(u)
  <2>1. /\ page[u] = "profile" /\ UNCHANGED <<wallets, uploads, pending>>
        /\ reads'[u] = Append(reads[u], Loading("refresh"))
    BY <1>1, <1>5 DEF PressRefresh
  <2>2. Last(reads'[u]).state = "refresh"
    BY <1>1, <2>1, LastAppended, LoadingType
  <2>3. QED
    BY <1>1, <1>2, <2>1, <2>2, FreeStep DEF ListIs
<1>6. CASE OpenUpload(u)
  <2>1. page[u] = "profile" /\ UNCHANGED <<wallets, reads, screen, uploads, pending>>
    BY <1>6 DEF OpenUpload
  <2>2. QED
    BY <1>1, <1>2, <2>1, FreeStep DEF InTime, ListIs
<1>7. CASE Back(u)
  <2>1. /\ ~Busy(u) /\ page[u] = "upload" /\ UNCHANGED <<wallets, reads, screen>>
        /\ uploads'[u] = Unmounted(uploads[u]) /\ pending'[u] = Unmounted(pending[u])
    BY <1>1, <1>7 DEF Back
  <2>2. QED
    BY <1>1, <1>2, <2>1, NothingUnmounted, FreeStep DEF InTime, ListIs
<1>8. CASE PressPost(u)
  <2> DEFINE up == [awaits |-> "pick", mounted |-> TRUE]
  <2>1. /\ ~Busy(u) /\ uploads'[u] = Append(uploads[u], up)
        /\ UNCHANGED <<wallets, page, reads, screen, pending>>
    BY <1>1, <1>8 DEF PressPost
  <2>2. up.mounted /\ up \in Upload
    BY DEF Upload, Picking
  <2> HIDE DEF up
  <2>3. uploads'[u] = <<up>> /\ pending'[u] = <<>>
    BY <1>2, <2>1, <2>2, OneElement
  <2>4. OneUpload(<<up>>, <<>>)
    BY <2>2, EmptySeq DEF OneUpload, AllMounted
  <2>5. QED
    BY <1>1, <2>1, <2>3, <2>4 DEF InTime
<1>9. CASE CloseApp(u)
  <2>1. page'[u] = "login" /\ uploads'[u] = <<>> /\ pending'[u] = <<>> /\ wallets' = wallets
    BY <1>1, <1>9 DEF CloseApp
  <2>2. QED
    BY <1>1, <2>1, FreeStep DEF ListIs
<1>10. QED
  BY <1>3, <1>4, <1>5, <1>6, <1>7, <1>8, <1>9

(* An upload advances, or ends without an update.                          *)
LEMMA UploadsInTime ==
  ASSUME TInv, NEW u \in Waiting, NEW i \in DOMAIN uploads[u],
         \/ Put(u, i) \/ UploadFails(u, i) \/ NotPicked(u, i)
         \/ \E f \in File, pic \in Picture : Picked(u, i, f, pic)
  PROVE  InTime(u)'
<1>1. /\ InTime(u) /\ u \in DOMAIN uploads /\ u \in Uid /\ TypeOK
      /\ uploads[u] \in Seq(Upload) /\ Len(uploads[u]) \in Nat /\ Len(pending[u]) \in Nat
  BY WaitingApp
<1>2. UNCHANGED <<wallets, page, reads, screen, pending>>
  BY DEF Put, UploadFails, NotPicked, Picked, Goes, Throws
<1>3. SUFFICES Len(uploads'[u]) <= Len(uploads[u]) /\ Len(uploads'[u]) \in Nat
               /\ AllMounted(uploads'[u])
  <2>1. Len(uploads[u]) + Len(pending[u]) <= 1 /\ AllMounted(pending[u])
    BY <1>1 DEF InTime, OneUpload
  <2>2. Len(uploads'[u]) <= Len(uploads[u]) /\ Len(uploads'[u]) \in Nat
          => Len(uploads'[u]) + Len(pending[u]) <= 1
    BY <1>1, <2>1, AtMostOne
  <2>3. QED
    BY <1>1, <1>2, <2>1, <2>2 DEF InTime, OneUpload
<1>4. AllMounted(uploads[u])
  BY <1>1 DEF InTime, OneUpload
<1>5. CASE UploadFails(u, i) \/ NotPicked(u, i)
  <2>1. uploads'[u] = RemoveAt(uploads[u], i)
    BY <1>1, <1>5 DEF UploadFails, NotPicked, Throws
  <2>2. Len(RemoveAt(uploads[u], i)) = Len(uploads[u]) - 1 /\ Len(uploads[u]) >= 1
    BY <1>1, RemoveAtElements, LenProperties
  <2>3. AllMounted(RemoveAt(uploads[u], i))
    BY <1>1, <1>4, RemoveAtType DEF AllMounted
  <2>4. QED
    BY <1>1, <2>1, <2>2, <2>3
<1>6. CASE Put(u, i) \/ \E f \in File, pic \in Picture : Picked(u, i, f, pic)
  <2>1. PICK step, f, pic : uploads' =
          [uploads EXCEPT ![u][i] = WithFile(step, f, pic, uploads[u][i])]
    BY <1>6 DEF Put, Picked, Goes
  <2> DEFINE e == WithFile(step, f, pic, uploads[u][i])
  <2>2. e.mounted
    BY <1>4 DEF WithFile, AllMounted
  <2>3. uploads'[u] = [uploads[u] EXCEPT ![i] = e]
    BY <1>1, <2>1
  <2> HIDE DEF e
  <2>4. /\ DOMAIN [uploads[u] EXCEPT ![i] = e] = DOMAIN uploads[u]
        /\ Len([uploads[u] EXCEPT ![i] = e]) = Len(uploads[u])
    BY <1>1, LenProperties
  <2>5. \A j \in DOMAIN uploads[u] : [uploads[u] EXCEPT ![i] = e][j]
                                     = IF j = i THEN e ELSE uploads[u][j]
    OBVIOUS
  <2>6. QED
    BY <1>1, <1>4, <2>2, <2>3, <2>4, <2>5 DEF AllMounted
<1>7. QED
  BY <1>5, <1>6

LEMMA LinkedInTime ==
  ASSUME TInv, NEW u \in Waiting, NEW i \in DOMAIN uploads[u], NEW t \in Text,
         Linked(u, i, t)
  PROVE  InTime(u)'
<1> DEFINE w == [nft |-> [text |-> t, file |-> uploads[u][i].file,
                          picture |-> uploads[u][i].picture],
                 mounted |-> uploads[u][i].mounted]
<1>1. /\ InTime(u) /\ u \in DOMAIN uploads /\ u \in DOMAIN pending
      /\ uploads[u] \in Seq(Upload) /\ pending[u] \in Seq(Update)
  BY WaitingApp
<1>2. /\ uploads'[u] = RemoveAt(uploads[u], i) /\ pending'[u] = Append(pending[u], w)
      /\ UNCHANGED <<wallets, page, reads, screen>>
  BY <1>1 DEF Linked
<1>3. w.mounted
  BY <1>1 DEF InTime, OneUpload, AllMounted
<1> HIDE DEF w
<1>4. Len(uploads[u]) = 1 /\ pending[u] = <<>>
  <2>1. Len(uploads[u]) # 0 /\ Len(uploads[u]) \in Nat /\ Len(pending[u]) \in Nat
    BY <1>1, LenProperties
  <2>2. Len(uploads[u]) + Len(pending[u]) <= 1
    BY <1>1 DEF InTime, OneUpload
  <2>3. Len(pending[u]) = 0 /\ Len(uploads[u]) = 1
    BY <2>1, <2>2, AtMostOne
  <2>4. QED
    BY <1>1, <2>3, EmptySeq
<1>5. uploads'[u] = <<>>
  BY <1>1, <1>2, <1>4, RemoveAtElements, EmptySeq
<1>6. pending'[u] = <<w>>
  BY <1>2, <1>4
<1>7. OneUpload(<<>>, <<w>>)
  BY <1>3, EmptySeq DEF OneUpload, AllMounted
<1>8. QED
  BY <1>1, <1>2, <1>5, <1>6, <1>7 DEF InTime

(* The only update closes the page that waits for it.                      *)
LEMMA CommitInTime ==
  ASSUME TInv, NEW u \in Waiting, Commit(u)
  PROVE  InTime(u)'
<1>1. /\ InTime(u) /\ u \in DOMAIN wallets /\ u \in DOMAIN page /\ u \in DOMAIN reads
      /\ u \in DOMAIN uploads /\ u \in DOMAIN pending /\ reads[u] \in Seq(Future)
      /\ uploads[u] \in Seq(Upload) /\ pending[u] \in Seq(Update)
      /\ pending[u] # <<>> /\ wallets[u] # NoWallet /\ u \in Uid /\ TypeOK
  BY WaitingApp DEF InTime, Commit
<1>2. Len(pending[u]) = 1 /\ Len(uploads[u]) = 0
  <2>1. Len(pending[u]) # 0 /\ Len(uploads[u]) \in Nat /\ Len(pending[u]) \in Nat
    BY <1>1, EmptySeq, LenProperties
  <2>2. Len(uploads[u]) + Len(pending[u]) <= 1
    BY <1>1 DEF InTime, OneUpload
  <2>3. QED
    BY <2>1, <2>2, AtMostOne
<1>3. uploads[u] = <<>> /\ Tail(pending[u]) = <<>>
  <2>1. Tail(pending[u]) \in Seq(Update) /\ Len(Tail(pending[u])) = 0
    BY <1>1, <1>2, HeadTailProperties
  <2>2. QED
    BY <1>1, <1>2, <2>1, EmptySeq
<1>4. Head(pending[u]).mounted
  BY <1>1, TailType DEF InTime, OneUpload, AllMounted
<1>5. /\ wallets'[u] = wallets[u] \cup {Head(pending[u]).nft}
      /\ reads'[u] = Append(reads[u], Loading("refresh"))
      /\ uploads'[u] = Unmounted(uploads[u])
      /\ pending'[u] = Unmounted(Tail(pending[u]))
  BY <1>1, <1>4 DEF Commit, CloseWithTrue
<1>6. wallets'[u] # NoWallet
  <2>1. Head(pending[u]).nft \in Nft
    BY <1>1, QueueAdvances DEF TInv
  <2>2. wallets[u] \in SUBSET Nft
    BY <1>1, OfApp DEF Wallet
  <2>3. wallets'[u] \in SUBSET Nft
    BY <1>5, <2>1, <2>2
  <2>4. QED
    BY <2>3, WalletAssumption
<1>7. Last(reads'[u]).state = "refresh"
  BY <1>1, <1>5, LastAppended, LoadingType
<1>8. QED
  BY <1>3, <1>5, <1>6, <1>7, NothingUnmounted, FreeStep DEF ListIs

(* The futures rs replace those of u; the last one is the one that was     *)
(* last, or f.                                                             *)
LEMMA ListBecomes ==
  ASSUME TInv, NEW u \in Waiting, NEW rs, NEW f, Becomes(u, rs),
         Last(rs) = f \/ (Last(rs) = Last(reads[u]) /\ reads[u] # <<>>),
         Displays(u, rs) \/ (UNCHANGED screen /\ f.state # "done"),
         pending[u] = <<>> /\ f.state \in {"sleeping", "done"} => f.list = wallets[u]
  PROVE  InTime(u)'
<1>1. /\ InTime(u) /\ u \in DOMAIN reads /\ u \in DOMAIN screen
  BY WaitingApp
<1>2. reads'[u] = rs /\ UNCHANGED <<wallets, page, uploads, pending>>
  BY <1>1 DEF Becomes
<1>3. ASSUME pending[u] = <<>>, page[u] # "login"
      PROVE  ListIs(page[u], rs, screen'[u], wallets[u])
  <2>1. ListIs(page[u], reads[u], screen[u], wallets[u])
    BY <1>1, <1>3 DEF InTime
  <2>2. Last(rs).state \in {"sleeping", "done"} => Last(rs).list = wallets[u]
    BY <1>3, <2>1 DEF ListIs
  <2>3. Last(rs).state = "done" => screen'[u] = Last(rs).list
    <3>1. CASE Displays(u, rs)
      BY <1>1, <3>1 DEF Displays
    <3>2. CASE UNCHANGED screen /\ f.state # "done"
      BY <1>3, <2>1, <3>2 DEF ListIs
    <3>3. QED
      BY <3>1, <3>2
  <2>4. QED
    BY <2>2, <2>3 DEF ListIs
<1>4. QED
  BY <1>1, <1>2, <1>3 DEF InTime, ListIs

LEMMA ListsInTime ==
  ASSUME TInv, NEW u \in Waiting, ListSettles(u)
  PROVE  InTime(u)'
<1>1. PICK i \in DOMAIN reads[u] :
        ListRead(u, i) \/ ListShown(u, i) \/ ListMissing(u, i)
        \/ InitFails(u, i) \/ RefreshFails(u, i)
  BY DEF ListSettles
<1>2. /\ WInv /\ TypeOK /\ u \in Uid /\ reads[u] \in Seq(Future) /\ InTime(u)
      /\ u \notin Flaky /\ wallets[u] # NoWallet
  BY WaitingApp DEF InTime
<1>3. pending[u] = <<>> => View(u) = wallets[u]
  BY <1>2, EmptySeq DEF View
<1>4. reads[u] # <<>> /\ Len(reads[u]) \in DOMAIN reads[u]
      /\ Last(reads[u]) = reads[u][Len(reads[u])]
  BY <1>2, FutureOf, LastOf
<1>5. CASE ListRead(u, i)
  <2> DEFINE e  == [state |-> "sleeping", list |-> View(u)]
             rs == [reads[u] EXCEPT ![i] = e]
  <2>1. Becomes(u, rs) /\ UNCHANGED screen
    BY <1>5 DEF ListRead, ReplaceAt
  <2>2. e \in Future /\ e.state = "sleeping" /\ e.list = View(u)
    BY <1>2, ViewType DEF Future
  <2> HIDE DEF e
  <2>3. rs \in Seq(Future) /\ DOMAIN rs = DOMAIN reads[u] /\ Len(rs) = Len(reads[u])
    BY <1>2, <2>2, ReplaceAtType
  <2>4. Last(rs) = rs[Len(reads[u])]
    BY <2>3 DEF Last
  <2>5. Last(rs) = e \/ Last(rs) = Last(reads[u])
    BY <1>4, <2>4
  <2> HIDE DEF rs
  <2>6. QED
    BY <1>3, <1>4, <2>1, <2>2, <2>5, ListBecomes
<1>6. ASSUME NEW state \in {"done", "failed"}, NEW list \in Wallet,
             Ended(u, i, state, list),
             pending[u] = <<>> /\ state = "done" /\ i = Len(reads[u]) => list = wallets[u]
      PROVE  InTime(u)'
  <2> DEFINE e  == [state |-> state, list |-> list]
             rs == FutureEnds(reads[u], i, e)
             g  == IF i = Len(reads[u]) THEN e ELSE Last(reads[u])
  <2>1. Becomes(u, rs) /\ Displays(u, rs)
    BY <1>6 DEF Ended, FutureEnds
  <2>2. e \in Future /\ e.state = state /\ e.list = list
    BY DEF Future
  <2> HIDE DEF e
  <2>3. Last(rs) = g
    BY <1>2, <2>2, LastAfter
  <2> HIDE DEF rs
  <2>4. pending[u] = <<>> /\ g.state \in {"sleeping", "done"} /\ page[u] # "login"
          => g.list = wallets[u]
    BY <1>2, <1>6, <2>2 DEF InTime, ListIs
  <2>5. CASE page[u] = "login"
    <3>1. UNCHANGED <<wallets, page, uploads, pending>>
      BY <2>1 DEF Becomes
    <3>2. QED
      BY <1>2, <2>5, <3>1 DEF InTime, ListIs
  <2>6. CASE page[u] # "login"
    BY <2>1, <2>3, <2>4, <2>6, ListBecomes
  <2>7. QED
    BY <2>5, <2>6
<1>7. CASE ListShown(u, i)
  <2>1. reads[u][i].list \in Wallet /\ reads[u][i].state = "sleeping"
    BY <1>2, <1>7, FutureOf DEF ListShown
  <2>2. CASE page[u] # "login"
    <3>1. pending[u] = <<>> /\ i = Len(reads[u]) => reads[u][i].list = wallets[u]
      BY <1>2, <1>4, <2>1, <2>2 DEF InTime, ListIs
    <3>2. QED
      BY <1>6, <1>7, <2>1, <3>1 DEF ListShown
  <2>3. CASE page[u] = "login"
    <3>1. UNCHANGED <<wallets, page, uploads, pending>>
      BY <1>7 DEF ListShown, Ended, Becomes
    <3>2. QED
      BY <1>2, <2>3, <3>1 DEF InTime, ListIs
  <2>4. QED
    BY <2>2, <2>3
<1>8. CASE ListMissing(u, i)
  BY <1>2, <1>3, <1>6, <1>8 DEF ListMissing, Wallet
<1>9. CASE InitFails(u, i)
  BY <1>6, <1>9 DEF InitFails, Wallet
<1>10. ~RefreshFails(u, i)
  BY <1>2 DEF RefreshFails
<1>11. QED
  BY <1>1, <1>5, <1>7, <1>8, <1>9, <1>10

LEMMA WaitingActs ==
  ASSUME TInv, NEW u \in Waiting,
         Person(u) \/ UploadSettles(u) \/ ListSettles(u) \/ Commit(u) \/ Deleted(u)
  PROVE  InTime(u)'
<1>1. CASE Person(u)
  BY <1>1, PagesInTime, UploadsInTime DEF Person
<1>2. CASE UploadSettles(u)
  BY <1>2, UploadsInTime, LinkedInTime DEF UploadSettles
<1>3. ~Deleted(u)
  BY WaitingApp DEF Deleted
<1>4. QED
  BY <1>1, <1>2, <1>3, ListsInTime, CommitInTime

LEMMA TInvInductive == TInv /\ [Next]_vars => TInv'
<1> SUFFICES ASSUME TInv, [Next]_vars PROVE TInv'
  OBVIOUS
<1>1. WInv'
  BY WInvInductive DEF TInv
<1>2. ASSUME NEW v \in Waiting PROVE InTime(v)'
  <2>1. Alone(v) => InTime(v)'
    BY <1>2, WaitingApp DEF Alone, InTime
  <2>2. CASE UNCHANGED vars
    BY <2>1, <2>2 DEF vars, Alone
  <2>3. ASSUME NEW u \in Uid,
               Person(u) \/ UploadSettles(u) \/ ListSettles(u) \/ Commit(u) \/ Deleted(u)
        PROVE  InTime(v)'
    <3>1. CASE v = u
      BY <2>3, <3>1, WaitingActs
    <3>2. CASE v # u
      BY <2>1, <2>3, <3>2, OthersAlone, WaitingApp DEF TInv
    <3>3. QED
      BY <3>1, <3>2
  <2>4. QED
    BY <2>2, <2>3 DEF Next
<1>3. QED
  BY <1>1, <1>2 DEF TInv

LEMMA TInvInitially == Init => TInv
<1> SUFFICES ASSUME Init PROVE TInv
  OBVIOUS
<1>1. ASSUME NEW u \in Waiting PROVE InTime(u)
  <2>1. u \in Uid
    BY WalletAssumption DEF Waiting
  <2>2. /\ wallets[u] = {} /\ uploads[u] = <<>> /\ pending[u] = <<>>
        /\ page[u] = "login"
    BY <2>1 DEF Init
  <2>3. OneUpload(<<>>, <<>>)
    BY EmptySeq DEF OneUpload, AllMounted
  <2>4. QED
    BY <2>2, <2>3, WalletAssumption DEF InTime, ListIs
<1>2. QED
  BY <1>1, WInvInitially DEF TInv

(* Whoever waits on the upload page for an upload to end, and whose        *)
(* document is neither deleted nor unreadable, finds it on the profile     *)
(* page: once nothing is in flight, the list there is the wallet, whatever *)
(* reads overlapped and whatever the other users' apps did.                *)
THEOREM UploadsEndOnTheList == Spec => []UploadsAreSeen
<1>1. TInv => UploadsAreSeen
  <2> SUFFICES ASSUME TInv, NEW u \in Waiting, HasList(u), ~Busy(u)
               PROVE  screen[u] = wallets[u]
    BY DEF UploadsAreSeen, Waiting
  <2>1. InTime(u) /\ pending[u] = <<>>
    BY WaitingApp DEF Busy
  <2>2. QED
    BY <2>1 DEF InTime, ListIs, HasList
<1>2. QED
  BY <1>1, TInvInitially, TInvInductive, PTL DEF Spec
=============================================================================
