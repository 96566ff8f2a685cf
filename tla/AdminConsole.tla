----------------------------- MODULE AdminConsole -----------------------------
(***************************************************************************)
(* The admin application (adminapp/lib), as several browser tabs that      *)
(* share the users collection with each other and with the wallet app.     *)
(*                                                                         *)
(* A tab has a Navigator stack of pages, handlers suspended on             *)
(* `await collection.doc(id).get()`, and a FIFO queue of writes Firestore  *)
(* has not acknowledged.  A handler or a write remembers in its field `at` *)
(* the position in the stack of the page whose code started it, and 0 once *)
(* that page was disposed: what follows its await then throws instead of   *)
(* touching the interface.                                                 *)
(*                                                                         *)
(* Abstractions.  Page transitions take no time.  A read is answered, and  *)
(* a write is stored and acknowledged, in one step.  A tab runs one        *)
(* sign-in at a time.  Toasts, error texts and layout are left out.        *)
(***************************************************************************)
EXTENDS UsersCollection

CONSTANTS
  Session,      \* the open tabs
  Seeded,       \* the collection when the tabs are opened
  Buttons,      \* the buttons the staff press (narrowed by the small runs)
  Grants,       \* the roles they choose in the dropdown
  Clients,      \* the users whose wallet app registers or uploads meanwhile
  Closers,      \* the tabs that may be closed or reloaded
  MaxNfts,      \* bound on the length of a document's NFT list
  MaxInFlight,  \* bound on the handlers and writes of a tab in flight
  MaxStack,     \* bound on the depth of a tab's Navigator
  NoUser        \* nobody is signing in

AllButtons == {"role", "delete", "add", "edit", "remove"}

ASSUME SeededAssumption   ==
  /\ Seeded \in [Uid -> Doc \cup {NoDoc}]
  /\ \A u \in Uid : Seeded[u] \in WalletOf(u) \cup {NoDoc}
ASSUME ButtonsAssumption  == Buttons \subseteq AllButtons /\ Grants \subseteq Role
ASSUME ActorsAssumption   == Clients \subseteq Uid /\ Closers \subseteq Session
ASSUME BoundsAssumption   == {MaxNfts, MaxInFlight, MaxStack} \subseteq Nat
ASSUME NoUserAssumption   == NoUser \notin Uid

VARIABLES
  users,       \* the stored documents
  registered,  \* the users whose document the wallet app has stored once
  stack,       \* stack[s]: the pages of tab s, the visible one last
  calls,       \* calls[s]: the handlers waiting for the document they read
  pending      \* pending[s]: the writes of tab s, oldest first

vars == <<users, registered, stack, calls, pending>>

-----------------------------------------------------------------------------
(* Pages, suspended handlers, writes.                                      *)

LoginPage   == [kind : {"login"}, signing : Uid \cup {NoUser}]
MainPage    == [kind : {"main"}, user : Uid, role : Staff,
                state : {"waiting", "done", "failed"},
                nfts : [Uid -> Seq(Art) \cup {NoDoc}]]
NftPage     == [kind : {"nfts"}, uid : Uid,
                state : {"waiting", "sleeping", "done", "failed"},
                nfts : Seq(Art)]
NftaddPage  == [kind : {"add"}, uid : Uid]
NftDetailsPage == [kind : {"details"}, uid : Uid, index : Nat,
                   nft : Art, isChange : BOOLEAN]
Page == LoginPage \cup MainPage \cup NftPage \cup NftaddPage \cup NftDetailsPage

RoleCall == [op : {"role"}, uid : Uid, role : Role, at : Nat]
AddCall  == [op : {"add"}, uid : Uid, at : Nat]
ItemCall == [op : {"edit", "remove"}, uid : Uid, index : Nat, at : Nat]
Call     == RoleCall \cup AddCall \cup ItemCall

Write == [op : {"role", "delete", "add", "edit", "remove"}, uid : Uid,
          data : Doc \cup {NoDoc}, at : Nat]

Login   == [kind |-> "login", signing |-> NoUser]
Main(u, r) == [kind |-> "main", user |-> u, role |-> r,
               state |-> "waiting", nfts |-> [v \in Uid |-> NoDoc]]

Top(s)     == stack[s][Len(stack[s])]
On(s, k)   == Top(s).kind = k
View(s, u) == ViewThrough(users, pending[s], u)

-----------------------------------------------------------------------------
(* The Navigator.  Removing or replacing the top page disposes of it: the  *)
(* handlers and writes it started lose their page.                         *)

Orphaned(queue, p) ==
  [i \in DOMAIN queue |->
     IF queue[i].at = p THEN [queue[i] EXCEPT !.at = 0] ELSE queue[i]]

Refreshed(page) == [page EXCEPT !.state = "waiting", !.nfts = <<>>]

(* The stack after pop(result): the page below was waiting for the result  *)
(* and, when it is true, reads the wallet again.                           *)
Popped(pages, result) ==
  LET below == SubSeq(pages, 1, Len(pages) - 1)
  IN  IF result THEN [below EXCEPT ![Len(below)] = Refreshed(@)] ELSE below

Push(s, page) ==
  /\ Len(stack[s]) < MaxStack
  /\ stack' = [stack EXCEPT ![s] = Append(@, page)]
  /\ UNCHANGED <<users, registered, calls, pending>>

(* The top page of s becomes page, queue being what is left of the tab's   *)
(* writes.                                                                 *)
PushReplacement(s, page, queue) ==
  LET p == Len(stack[s])
  IN  /\ stack'   = [stack EXCEPT ![s] = [@ EXCEPT ![p] = page]]
      /\ calls'   = [calls EXCEPT ![s] = Orphaned(@, p)]
      /\ pending' = [pending EXCEPT ![s] = Orphaned(queue, p)]

(* Page p of tab s is rebuilt as page; in a Rebuild everything else stays.  *)
WithPage(s, p, page) == [stack EXCEPT ![s] = [@ EXCEPT ![p] = page]]

Rebuild(s, p, page) ==
  /\ stack' = WithPage(s, p, page)
  /\ UNCHANGED <<users, registered, calls, pending>>

-----------------------------------------------------------------------------
(* The login page.                                                         *)

SignIn(s, u) ==
  /\ On(s, "login") /\ Top(s).signing = NoUser
  /\ u \in registered
  /\ Rebuild(s, Len(stack[s]), [Top(s) EXCEPT !.signing = u])

(* Wrong: the role is shown but not checked (TypeOK).                       *)
LoginUnchecked(s) ==
  /\ On(s, "login") /\ Top(s).signing # NoUser
  /\ LET u   == Top(s).signing
         doc == View(s, u)
     IN  /\ PushReplacement(s, IF doc # NoDoc THEN Main(u, doc.role) ELSE Login,
                            pending[s])
         /\ UNCHANGED <<users, registered>>

(* The users collection answers: the role is looked up in it, "user" when  *)
(* the signed-in account has no document.                                  *)
LoginAnswered(s) ==
  /\ On(s, "login") /\ Top(s).signing # NoUser
  /\ LET u    == Top(s).signing
         doc  == View(s, u)
         role == IF doc = NoDoc THEN "user" ELSE doc.role
     IN  /\ PushReplacement(s, IF role \in Staff THEN Main(u, role) ELSE Login,
                            pending[s])
         /\ UNCHANGED <<users, registered>>

(* Wrong password, or no connection.                                       *)
LoginFailed(s) ==
  /\ On(s, "login") /\ Top(s).signing # NoUser
  /\ Rebuild(s, Len(stack[s]), Login)

Logout(s) ==
  /\ On(s, "main")
  /\ PushReplacement(s, Login, pending[s])
  /\ UNCHANGED <<users, registered>>

-----------------------------------------------------------------------------
(* The main page: the list of users.  Of each the page keeps the NFTs a    *)
(* tap hands on; the role in the dropdown is only displayed.               *)

ListAnswered(s, p) ==
  LET page == stack[s][p]
  IN  /\ page.kind = "main" /\ page.state = "waiting"
      /\ Rebuild(s, p, [page EXCEPT !.state = "done", !.nfts = [u \in Uid |->
           IF View(s, u) = NoDoc THEN NoDoc ELSE View(s, u).NFT]])

ListFailed(s, p) ==
  LET page == stack[s][p]
  IN  /\ page.kind = "main" /\ page.state = "waiting"
      /\ Rebuild(s, p, [page EXCEPT !.state = "failed"])

(* The user v is on the list the tab shows.                                *)
Listed(s, v) == On(s, "main") /\ Top(s).state = "done" /\ Top(s).nfts[v] # NoDoc

Room(s) == Len(calls[s]) + Len(pending[s]) < MaxInFlight

StartCall(s, call) ==
  /\ Room(s)
  /\ calls' = [calls EXCEPT ![s] = Append(@, call)]
  /\ UNCHANGED <<users, registered, stack, pending>>

PressRole(s, v, r) ==
  /\ "role" \in Buttons /\ Listed(s, v)
  /\ StartCall(s, [op |-> "role", uid |-> v, role |-> r, at |-> Len(stack[s])])

PressDelete(s, v) ==
  /\ "delete" \in Buttons /\ Listed(s, v) /\ Room(s)
  /\ Top(s).role = "admin" /\ Top(s).user # v
  /\ pending' = [pending EXCEPT ![s] =
       Append(@, [op |-> "delete", uid |-> v, data |-> NoDoc,
                  at |-> Len(stack[s])])]
  /\ UNCHANGED <<users, registered, stack, calls>>

OpenNfts(s, v) ==
  /\ {"add", "edit", "remove"} \cap Buttons # {} /\ Listed(s, v)
  /\ Push(s, [kind |-> "nfts", uid |-> v, state |-> "done",
              nfts |-> Top(s).nfts[v]])

-----------------------------------------------------------------------------
(* The page with one user's NFTs, and the two pages it opens.              *)

(* refreshNFTs: the answer is shown two seconds later; a user that is gone *)
(* gives null, shown like an error.                                        *)
RefreshAnswered(s, p) ==
  LET page == stack[s][p]
      doc  == View(s, page.uid)
  IN  /\ page.kind = "nfts" /\ page.state = "waiting"
      /\ Rebuild(s, p, IF doc = NoDoc
                         THEN [page EXCEPT !.state = "failed"]
                         ELSE [page EXCEPT !.state = "sleeping", !.nfts = doc.NFT])

(* Wrong: an empty list is taken for one still loading (ListsSettle).       *)
RefreshShownUnlessEmpty(s, p) ==
  LET page == stack[s][p]
  IN  /\ page.kind = "nfts" /\ page.state = "sleeping" /\ page.nfts # <<>>
      /\ Rebuild(s, p, [page EXCEPT !.state = "done"])

RefreshShown(s, p) ==
  LET page == stack[s][p]
  IN  /\ page.kind = "nfts" /\ page.state = "sleeping"
      /\ Rebuild(s, p, [page EXCEPT !.state = "done"])

(* On an error the previous future is returned with the wrong type, so the *)
(* builder shows a type error instead of the previous NFTs.                *)
RefreshFailed(s, p) ==
  LET page == stack[s][p]
  IN  /\ page.kind = "nfts" /\ page.state = "waiting"
      /\ Rebuild(s, p, [page EXCEPT !.state = "failed"])

OpenAdd(s) ==
  /\ "add" \in Buttons /\ On(s, "nfts")
  /\ Push(s, [kind |-> "add", uid |-> Top(s).uid])

OpenDetails(s, i) ==
  /\ {"edit", "remove"} \cap Buttons # {}
  /\ On(s, "nfts") /\ Top(s).state = "done" /\ i \in DOMAIN Top(s).nfts
  /\ Push(s, [kind |-> "details", uid |-> Top(s).uid, index |-> i,
              nft |-> Top(s).nfts[i], isChange |-> FALSE])

(* The arrow of the add page returns true, that of the details page        *)
(* isChange; the browser's back button returns null, as it does on the     *)
(* other pages.                                                            *)
BackResults(page) ==
  CASE page.kind = "add"     -> BOOLEAN
    [] page.kind = "details" -> {FALSE, page.isChange}
    [] OTHER                 -> {FALSE}

Back(s, result) ==
  LET p == Len(stack[s])
  IN  /\ p > 1 /\ result \in BackResults(Top(s))
      /\ stack'   = [stack EXCEPT ![s] = Popped(@, result)]
      /\ calls'   = [calls EXCEPT ![s] = Orphaned(@, p)]
      /\ pending' = [pending EXCEPT ![s] = Orphaned(@, p)]
      /\ UNCHANGED <<users, registered>>

(* Wrong: the add page closes itself through the context of the list that   *)
(* opened it (HandlersOwnTheirPage).                                        *)
PressAddBelow(s) ==
  /\ "add" \in Buttons /\ On(s, "add")
  /\ StartCall(s, [op |-> "add", uid |-> Top(s).uid, at |-> Len(stack[s]) - 1])

PressAdd(s) ==
  /\ "add" \in Buttons /\ On(s, "add")
  /\ StartCall(s, [op |-> "add", uid |-> Top(s).uid, at |-> Len(stack[s])])

PressItem(s, op) ==
  /\ op \in Buttons /\ On(s, "details")
  /\ StartCall(s, [op |-> op, uid |-> Top(s).uid, index |-> Top(s).index,
                   at |-> Len(stack[s])])

-----------------------------------------------------------------------------
(* A handler is given the document and writes all of it back, changed.     *)
(* update() is queued at once.  Only the role handler awaits its result:   *)
(* the other writes keep no page.                                          *)

AnsweredWith(s, i, op) == i \in DOMAIN calls[s] /\ calls[s][i].op = op
                          /\ View(s, calls[s][i].uid) # NoDoc

(* Wrong: the user of the visible page, looked up after the await           *)
(* (WalletsSeparate).                                                       *)
QueuedForVisible(s, i, data) ==
  LET call == calls[s][i]
  IN  Append(pending[s],
        [op |-> call.op, data |-> data, at |-> 0,
         uid |-> IF On(s, "add") THEN Top(s).uid ELSE call.uid])

Queued(s, i, data) ==
  LET call == calls[s][i]
  IN  Append(pending[s], [op |-> call.op, uid |-> call.uid, data |-> data,
                          at |-> IF call.op = "role" THEN call.at ELSE 0])

WriteBack(s, i, data) ==
  /\ calls'   = [calls EXCEPT ![s] = RemoveAt(@, i)]
  /\ pending' = [pending EXCEPT ![s] = Queued(s, i, data)]
  /\ UNCHANGED <<users, registered>>

(* Wrong: the role is written with the NFTs on the list, not read again     *)
(* (OneTabIsAtomic).                                                        *)
RoleFromList(s, i) ==
  LET call == calls[s][i]
      page == stack[s][call.at]
  IN  /\ i \in DOMAIN calls[s] /\ call.op = "role" /\ call.at # 0
      /\ page.nfts[call.uid] # NoDoc
      /\ WriteBack(s, i, [role |-> call.role, NFT |-> page.nfts[call.uid]])
      /\ UNCHANGED stack

RoleAnswered(s, i) ==
  /\ AnsweredWith(s, i, "role")
  /\ LET call == calls[s][i]
     IN  WriteBack(s, i, WithRole(View(s, call.uid), call.role))
  /\ UNCHANGED stack

(* The text fields hold n by the time the document arrives.  The add page, *)
(* when it is still there, closes itself with the result true.             *)
AddAnswered(s, i, n) ==
  LET call == calls[s][i]
      doc  == View(s, call.uid)
      p    == Len(stack[s])
      left == RemoveAt(calls[s], i)
  IN  /\ AnsweredWith(s, i, "add")
      /\ n \in NftOf[call.uid] /\ Len(doc.NFT) < MaxNfts
      /\ \/ /\ call.at = 0
            /\ WriteBack(s, i, WithNft(doc, n))
            /\ UNCHANGED stack
         \/ /\ call.at # 0
            /\ stack'   = [stack EXCEPT ![s] = Popped(@, TRUE)]
            /\ calls'   = [calls EXCEPT ![s] = Orphaned(left, p)]
            /\ pending' = [pending EXCEPT ![s] = Queued(s, i, WithNft(doc, n))]
            /\ UNCHANGED <<users, registered>>

EditAnswered(s, i, n) ==
  LET call == calls[s][i]
      doc  == View(s, call.uid)
  IN  /\ AnsweredWith(s, i, "edit")
      /\ n \in NftOf[call.uid] /\ call.index \in DOMAIN doc.NFT
      /\ WriteBack(s, i, EditedNft(doc, call.index, n))
      /\ stack' = IF call.at = 0 THEN stack
                  ELSE WithPage(s, call.at, [stack[s][call.at] EXCEPT
                                               !.isChange = TRUE, !.nft = n])

(* The page stays open, with the NFT that was removed still on it.         *)
RemoveAnswered(s, i) ==
  LET call == calls[s][i]
      doc  == View(s, call.uid)
  IN  /\ AnsweredWith(s, i, "remove")
      /\ call.index \in DOMAIN doc.NFT
      /\ WriteBack(s, i, WithoutNft(doc, call.index))
      /\ stack' = IF call.at = 0 THEN stack
                  ELSE WithPage(s, call.at, [stack[s][call.at] EXCEPT
                                               !.isChange = TRUE])

(* Wrong: a handler waits for ever for a document that is gone              *)
(* (QuietTabsFinish).                                                       *)
CallThrowsIfThere(s, i) ==
  /\ i \in DOMAIN calls[s] /\ View(s, calls[s][i].uid) # NoDoc
  /\ calls' = [calls EXCEPT ![s] = RemoveAt(@, i)]
  /\ UNCHANGED <<users, registered, stack, pending>>

(* The read fails, or the document is gone (data! on null), or the index   *)
(* is past its NFTs (RangeError): the handler ends having done nothing.    *)
CallThrows(s, i) ==
  /\ i \in DOMAIN calls[s]
  /\ calls' = [calls EXCEPT ![s] = RemoveAt(@, i)]
  /\ UNCHANGED <<users, registered, stack, pending>>

-----------------------------------------------------------------------------
(* Firestore stores the oldest write of a tab and acknowledges it.  The    *)
(* code awaiting it goes on: a changed role replaces the visible page,     *)
(* whichever it is, by a new MainPage; a deletion reads the list again.    *)

(* Wrong: push in place of pushReplacement (LeavesOnTheirList).             *)
RoleStoredPush(s, owner, rest) ==
  /\ stack'   = [stack EXCEPT ![s] = Append(@, Main(owner.user, owner.role))]
  /\ pending' = [pending EXCEPT ![s] = rest]
  /\ UNCHANGED calls

RoleStored(s, owner, rest) ==
  PushReplacement(s, Main(owner.user, owner.role), rest)

Commit(s) ==
  LET w     == Head(pending[s])
      rest  == Tail(pending[s])
      owner == stack[s][w.at]
      continues == Accepted(users, w) /\ w.at # 0
  IN  /\ pending[s] # <<>>
      /\ users' = Written(users, w)
      /\ UNCHANGED registered
      /\ \/ /\ continues /\ w.op = "role"
            /\ RoleStored(s, owner, rest)
         \/ /\ continues /\ w.op = "delete"
            /\ stack' = WithPage(s, w.at, Main(owner.user, owner.role))
            /\ pending' = [pending EXCEPT ![s] = rest]
            /\ UNCHANGED calls
         \/ /\ ~(continues /\ w.op \in {"role", "delete"})
            /\ pending' = [pending EXCEPT ![s] = rest]
            /\ UNCHANGED <<stack, calls>>

(* The tab is closed or reloaded.  Nothing of it is persistent.            *)
CloseTab(s) ==
  /\ s \in Closers
  /\ stack'   = [stack EXCEPT ![s] = <<Login>>]
  /\ calls'   = [calls EXCEPT ![s] = <<>>]
  /\ pending' = [pending EXCEPT ![s] = <<>>]
  /\ UNCHANGED <<users, registered>>

-----------------------------------------------------------------------------
(* The wallet app, seen from the collection.                               *)

(* A new account, and its document set.  Auth refuses an email twice.      *)
Register(u) ==
  /\ u \in Clients \ registered
  /\ registered' = registered \cup {u}
  /\ users' = [users EXCEPT ![u] = NewDoc]
  /\ UNCHANGED <<stack, calls, pending>>

(* Wrong: set(..., merge) in place of update() (NoResurrection).            *)
UploadMerging(u, n) ==
  /\ u \in Clients
  /\ LET doc == IF users[u] = NoDoc THEN NewDoc ELSE users[u]
     IN  /\ Len(doc.NFT) < MaxNfts /\ ~Contains(doc.NFT, n)
         /\ users' = [users EXCEPT ![u] = WithNft(doc, n)]
  /\ UNCHANGED <<registered, stack, calls, pending>>

(* arrayUnion: one atomic step on the server.                              *)
Upload(u, n) ==
  /\ u \in Clients /\ users[u] # NoDoc
  /\ Len(users[u].NFT) < MaxNfts /\ ~Contains(users[u].NFT, n)
  /\ users' = [users EXCEPT ![u] = WithNft(@, n)]
  /\ UNCHANGED <<registered, stack, calls, pending>>

-----------------------------------------------------------------------------
Init ==
  /\ users = Seeded
  /\ registered = {u \in Uid : Seeded[u] # NoDoc}
  /\ stack   = [s \in Session |-> <<Login>>]
  /\ calls   = [s \in Session |-> <<>>]
  /\ pending = [s \in Session |-> <<>>]

(* What the person at the tab does.                                        *)
Person(s) ==
  \/ \E u \in Uid : SignIn(s, u) \/ PressDelete(s, u) \/ OpenNfts(s, u)
  \/ \E u \in Uid, r \in Grants : PressRole(s, u, r)
  \/ \E i \in 1..MaxNfts : OpenDetails(s, i)
  \/ \E result \in BOOLEAN : Back(s, result)
  \/ \E op \in {"edit", "remove"} : PressItem(s, op)
  \/ PressAdd(s) \/ OpenAdd(s) \/ Logout(s) \/ CloseTab(s)

(* The answers: to the sign-in, to a list, to a handler.                   *)
LoginSettles(s) == LoginAnswered(s) \/ LoginFailed(s)

PageSettles(s) == \E p \in DOMAIN stack[s] :
  \/ ListAnswered(s, p) \/ ListFailed(s, p)
  \/ RefreshAnswered(s, p) \/ RefreshShown(s, p) \/ RefreshFailed(s, p)

CallSettles(s) == \E i \in DOMAIN calls[s] :
  \/ RoleAnswered(s, i) \/ RemoveAnswered(s, i) \/ CallThrows(s, i)
  \/ \E n \in Art : AddAnswered(s, i, n) \/ EditAnswered(s, i, n)

Tab(s) == Person(s) \/ LoginSettles(s) \/ PageSettles(s) \/ CallSettles(s)
          \/ Commit(s)

Wallets == \E u \in Uid : Register(u) \/ \E n \in NftOf[u] : Upload(u, n)

Next == Wallets \/ \E s \in Session : Tab(s)

Spec == Init /\ [][Next]_vars

(* Answers arrive and writes are stored: the network and Firestore's queue *)
(* go on by themselves, and the two second timer runs out.  Nothing forces *)
(* a person, or a tab to stay open.                                        *)
Fairness == \A s \in Session :
  /\ WF_vars(LoginSettles(s)) /\ WF_vars(CallSettles(s)) /\ WF_vars(Commit(s))
  /\ WF_vars(PageSettles(s))

FairSpec == Spec /\ Fairness

-----------------------------------------------------------------------------
(* PROPERTIES                                                              *)

(* The shapes of the variables.                                            *)
TypeOK ==
  /\ users \in [Uid -> Doc \cup {NoDoc}]
  /\ registered \in SUBSET Uid
  /\ stack \in [Session -> Seq(Page)]
  /\ calls \in [Session -> Seq(Call)]
  /\ pending \in [Session -> Seq(Write)]
  /\ \A s \in Session : stack[s] # <<>>

(* Whatever was still in flight when a user was deleted (an edit that read *)
(* the document before, a second tab's role change, an upload), the        *)
(* deleted document never comes back: every later write is an update of a  *)
(* document that exists, and Auth gives an email one account only.         *)
NoResurrection ==
  [][\A u \in registered : users[u] = NoDoc => users'[u] = NoDoc]_users

(* An NFT typed in for one user never ends in the wallet of another,       *)
(* although a handler finishes after its page is gone, when the tab may    *)
(* show another user's NFTs.                                               *)
WalletsSeparate ==
  \A u \in Uid : users[u] # NoDoc => ToSet(users[u].NFT) \subseteq NftOf[u]

(* The add and the details page are never covered by another page and lie  *)
(* directly on the NFT page of their user.  So `Navigator.pop(true)` after *)
(* an await closes the add page that said it, and its result reaches the   *)
(* list it belongs to, even when a role change replaces the visible page   *)
(* from below.                                                             *)
LeavesIn(pages) ==
  \A p \in DOMAIN pages : pages[p].kind \in {"add", "details"} =>
    /\ p = Len(pages) /\ p > 1
    /\ pages[p-1].kind = "nfts" /\ pages[p-1].uid = pages[p].uid

LeavesOnTheirList == \A s \in Session : LeavesIn(stack[s])

(* The page on which a handler goes on after its await is the one it was   *)
(* started on: never a page opened later in the same place.                *)
OwnerKind(op) == CASE op \in {"role", "delete"} -> "main"
                   [] op = "add"                -> "add"
                   [] OTHER                     -> "details"

OwnedBy(pages, work) ==
  work.at # 0 => /\ work.at \in DOMAIN pages
                 /\ pages[work.at].kind = OwnerKind(work.op)
                 /\ work.op \in {"add", "edit", "remove"} =>
                      pages[work.at].uid = work.uid

HandlersOwnTheirPage ==
  \A s \in Session :
    /\ \A i \in DOMAIN calls[s] : OwnedBy(stack[s], calls[s][i])
    /\ \A i \in DOMAIN pending[s] :
         /\ OwnedBy(stack[s], pending[s][i])
         /\ pending[s][i].at # 0 => pending[s][i].op \in {"role", "delete"}

(* Somebody who stays in front of lists keeps getting past the progress    *)
(* indicator, to a list or an error, although every deletion and every     *)
(* role change starts the list again and documents vanish meanwhile.       *)
OnList(s)  == Top(s).kind \in {"main", "nfts"}
Settled(s) == OnList(s) /\ Top(s).state \in {"done", "failed"}

ListsSettle == \A s \in Session : <>[]OnList(s) => []<>Settled(s)

(* Once nobody presses anything, every handler is answered or fails and    *)
(* every write it queued is stored or refused: a refused update does not   *)
(* block the writes behind it.                                             *)
QuietTabsFinish ==
  <>[][\A s \in Session : ~Person(s)]_vars =>
    <>[](\A s \in Session : calls[s] = <<>> /\ pending[s] = <<>>)

-----------------------------------------------------------------------------
(* What the documentation promises and the code does not keep.             *)

Stores(s, ops) ==
  Commit(s) /\ Head(pending[s]).op \in ops /\ Accepted(users, Head(pending[s]))

(* "The user can store NFT in the Application and see them" (README.md:5): *)
(* staff who change a role or add an NFT take none out of the wallet.      *)
UploadsKept ==
  [][\A s \in Session : Stores(s, {"role", "add"}) =>
       LET u == Head(pending[s]).uid
       IN  ToSet(users[u].NFT) \subseteq ToSet(users'[u].NFT)]_vars

(* "delete NFT" (README.md:11): the button removes the NFT that the page   *)
(* it is on shows.                                                         *)
RemovesWhatIsShown ==
  [][\A s \in Session : \A i \in DOMAIN calls[s] :
       LET c == calls[s][i] IN
       RemoveAnswered(s, i) /\ c.at # 0 =>
         View(s, c.uid).NFT[c.index] = stack[s][c.at].nft]_vars
=============================================================================
