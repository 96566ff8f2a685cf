-------------------------- MODULE AdminConsoleProofs --------------------------
(***************************************************************************)
(* Theorems of AdminConsole, for any number of users, NFTs and tabs; and   *)
(* that with one tab that stays open each button takes effect at once, as  *)
(* AtomicUsers has it: what the tab sees of a document already has in it   *)
(* every write it has queued, so a write that is stored changes nothing    *)
(* that it sees.                                                           *)
(***************************************************************************)
EXTENDS SingleTab, SequenceLemmas

-----------------------------------------------------------------------------
(* The collection never brings a document back.                            *)

(* Storing a write keeps every missing document missing.                   *)
LEMMA WrittenKeepsMissing ==
  ASSUME NEW u, NEW w, users[u] = NoDoc
  PROVE  Written(users, w)[u] = NoDoc
  BY DEF Written

(* Spec implies NoResurrection: only register_page.dart's set() creates a  *)
(* document, and it runs once for a user.                                  *)
THEOREM DeletedUsersStayDeleted == Spec => NoResurrection
<1>1. ASSUME Next, NEW u \in registered, users[u] = NoDoc
      PROVE  users'[u] = NoDoc
  <2>1. ASSUME NEW v \in Uid, Register(v) PROVE users'[u] = NoDoc
    BY <1>1, <2>1 DEF Register
  <2>2. ASSUME NEW v \in Uid, NEW n \in NftOf[v], Upload(v, n)
        PROVE  users'[u] = NoDoc
    BY <1>1, <2>2 DEF Upload
  <2>3. ASSUME NEW s \in Session, Commit(s) PROVE users'[u] = NoDoc
    BY SMTT(40), <1>1, <2>3, WrittenKeepsMissing DEF Commit
  <2>4. ASSUME NEW s \in Session,
               Person(s) \/ LoginSettles(s) \/ PageSettles(s) \/ CallSettles(s)
        PROVE  users' = users
    BY <2>4 DEF Person, LoginSettles, PageSettles, CallSettles, SignIn,
       PressDelete, OpenNfts, PressRole, OpenDetails, Back, PressItem, PressAdd,
       OpenAdd, Logout, CloseTab, LoginAnswered, LoginFailed, ListAnswered,
       ListFailed, RefreshAnswered, RefreshShown, RefreshFailed, RoleAnswered,
       AddAnswered, EditAnswered, RemoveAnswered, CallThrows, Rebuild, Push,
       StartCall, WriteBack
  <2>5. QED
    BY <1>1, <2>1, <2>2, <2>3, <2>4 DEF Next, Wallets, Tab
<1>2. [Next]_vars => [\A u \in registered :
                         users[u] = NoDoc => users'[u] = NoDoc]_users
  BY <1>1 DEF vars
<1>3. QED
  BY <1>2, PTL DEF Spec, NoResurrection

-----------------------------------------------------------------------------
(* The inductive invariant of a tab: its stack, handlers and writes are    *)
(* well formed, and LeavesOnTheirList and HandlersOwnTheirPage hold of     *)
(* them.  The three need each other: going on after an await has the right *)
(* type only on a page of the right kind, and a result refreshes the page  *)
(* below only if that is an NFT page.                                      *)

IInv == TypeOK /\ LeavesOnTheirList /\ HandlersOwnTheirPage

(* The same, of one tab.                                                   *)
CallsOK(pages, cs) ==
  cs \in Seq(Call) /\ \A i \in DOMAIN cs : OwnedBy(pages, cs[i])

WritesOK(pages, ws) ==
  /\ ws \in Seq(Write)
  /\ \A i \in DOMAIN ws : /\ OwnedBy(pages, ws[i])
                          /\ ws[i].at # 0 => ws[i].op \in {"role", "delete"}

PagesOK(pages) == pages \in Seq(Page) /\ pages # <<>> /\ LeavesIn(pages)

TabOK(pages, cs, ws) == PagesOK(pages) /\ CallsOK(pages, cs) /\ WritesOK(pages, ws)

LEMMA TabOfIInv ==
  ASSUME IInv, NEW s \in Session
  PROVE  TabOK(stack[s], calls[s], pending[s])
  BY DEF IInv, TypeOK, LeavesOnTheirList, HandlersOwnTheirPage, TabOK, PagesOK,
         CallsOK, WritesOK

(* A step of one tab is judged by that tab alone.                          *)
LEMMA OneTabStep ==
  ASSUME IInv, NEW s \in Session,
         users' \in [Uid -> Doc \cup {NoDoc}], registered' \in SUBSET Uid,
         stack' = [stack EXCEPT ![s] = stack'[s]],
         calls' = [calls EXCEPT ![s] = calls'[s]],
         pending' = [pending EXCEPT ![s] = pending'[s]],
         TabOK(stack'[s], calls'[s], pending'[s])
  PROVE  IInv'
<1>1. ASSUME NEW t \in Session PROVE TabOK(stack'[t], calls'[t], pending'[t])
  <2>1. CASE t = s
    BY <2>1
  <2>2. CASE t # s
    <3>1. stack'[t] = stack[t] /\ calls'[t] = calls[t] /\ pending'[t] = pending[t]
      BY <2>2 DEF IInv, TypeOK
    <3>2. QED
      BY <3>1, TabOfIInv
  <2>3. QED
    BY <2>1, <2>2
<1>2. TypeOK'
  <2>1. /\ DOMAIN stack' = Session /\ DOMAIN calls' = Session
        /\ DOMAIN pending' = Session
    BY DEF IInv, TypeOK
  <2>2. QED
    BY <1>1, <2>1 DEF IInv, TypeOK, TabOK, PagesOK, CallsOK, WritesOK
<1>3. LeavesOnTheirList' /\ HandlersOwnTheirPage'
  BY <1>1 DEF LeavesOnTheirList, HandlersOwnTheirPage, TabOK, PagesOK, CallsOK,
              WritesOK
<1>4. QED
  BY <1>2, <1>3 DEF IInv

LEMMA PageKinds ==
  ASSUME NEW page \in Page
  PROVE  /\ page.kind \in {"login", "main", "nfts", "add", "details"}
         /\ page.kind = "login" => page \in LoginPage
         /\ page.kind = "main" => page \in MainPage
         /\ page.kind = "nfts" => page \in NftPage
         /\ page.kind = "add" => page \in NftaddPage
         /\ page.kind = "details" => page \in NftDetailsPage
  BY DEF Page, LoginPage, MainPage, NftPage, NftaddPage, NftDetailsPage

LEMMA CallKinds ==
  ASSUME NEW c \in Call
  PROVE  /\ c.op \in {"role", "add", "edit", "remove"} /\ c.uid \in Uid /\ c.at \in Nat
         /\ c.op = "role" => c \in RoleCall
         /\ c.op \in {"edit", "remove"} => c \in ItemCall
  BY DEF Call, RoleCall, AddCall, ItemCall

(* Work whose page is disposed of keeps nothing of it but its data.        *)
LEMMA OrphanedWrites ==
  ASSUME NEW ws \in Seq(Write), NEW p \in Nat
  PROVE  /\ Orphaned(ws, p) \in Seq(Write)
         /\ \A i \in DOMAIN Orphaned(ws, p) :
              /\ i \in DOMAIN ws
              /\ Orphaned(ws, p)[i].at # 0 =>
                   Orphaned(ws, p)[i] = ws[i] /\ ws[i].at # p
<1>1. ws \in [1..Len(ws) -> Write] /\ Len(ws) \in Nat /\ DOMAIN ws = 1..Len(ws)
  BY LenProperties
<1>2. \A w \in Write : [w EXCEPT !.at = 0] \in Write /\ [w EXCEPT !.at = 0].at = 0
  BY DEF Write
<1>3. Orphaned(ws, p) \in [1..Len(ws) -> Write]
  BY <1>1, <1>2 DEF Orphaned
<1>4. Orphaned(ws, p) \in Seq(Write)
  BY <1>1, <1>3
<1>5. QED
  BY <1>1, <1>2, <1>4 DEF Orphaned

LEMMA OrphanedCalls ==
  ASSUME NEW cs \in Seq(Call), NEW p \in Nat
  PROVE  /\ Orphaned(cs, p) \in Seq(Call)
         /\ \A i \in DOMAIN Orphaned(cs, p) :
              /\ i \in DOMAIN cs
              /\ Orphaned(cs, p)[i].at # 0 =>
                   Orphaned(cs, p)[i] = cs[i] /\ cs[i].at # p
<1>1. cs \in [1..Len(cs) -> Call] /\ Len(cs) \in Nat /\ DOMAIN cs = 1..Len(cs)
  BY LenProperties
<1>2. \A c \in Call : [c EXCEPT !.at = 0] \in Call /\ [c EXCEPT !.at = 0].at = 0
  <2>1. \A c \in RoleCall : [c EXCEPT !.at = 0] \in RoleCall /\ [c EXCEPT !.at = 0].at = 0
    BY DEF RoleCall
  <2>2. \A c \in AddCall : [c EXCEPT !.at = 0] \in AddCall /\ [c EXCEPT !.at = 0].at = 0
    BY DEF AddCall
  <2>3. \A c \in ItemCall : [c EXCEPT !.at = 0] \in ItemCall /\ [c EXCEPT !.at = 0].at = 0
    BY DEF ItemCall
  <2>4. QED
    BY <2>1, <2>2, <2>3 DEF Call
<1>3. Orphaned(cs, p) \in [1..Len(cs) -> Call]
  BY <1>1, <1>2 DEF Orphaned
<1>4. Orphaned(cs, p) \in Seq(Call)
  BY <1>1, <1>3
<1>5. QED
  BY <1>1, <1>2, <1>4 DEF Orphaned

-----------------------------------------------------------------------------
(* What the Navigator preserves.                                           *)

(* Work keeps its page when the stack changes elsewhere.                   *)
LEMMA OwnershipKept ==
  ASSUME NEW old, NEW new, NEW work, OwnedBy(old, work),
         work.at # 0 =>
           /\ work.at \in DOMAIN new
           /\ new[work.at].kind = old[work.at].kind
           /\ work.op \in {"add", "edit", "remove"} =>
                new[work.at].uid = old[work.at].uid
  PROVE  OwnedBy(new, work)
  BY DEF OwnedBy

(* setState: the page is rebuilt in its place.                             *)
LEMMA PageRebuilt ==
  ASSUME NEW pages, PagesOK(pages), NEW p \in DOMAIN pages, NEW page \in Page,
         page.kind = pages[p].kind,
         page.kind \in {"nfts", "add", "details"} => page.uid = pages[p].uid
  PROVE  /\ PagesOK([pages EXCEPT ![p] = page])
         /\ \A work : OwnedBy(pages, work) =>
              OwnedBy([pages EXCEPT ![p] = page], work)
<1> DEFINE new == [pages EXCEPT ![p] = page]
<1>1. pages \in Seq(Page) /\ pages # <<>> /\ LeavesIn(pages)
  BY DEF PagesOK
<1>2. /\ Len(pages) \in Nat \ {0} /\ DOMAIN pages = 1..Len(pages)
      /\ new \in Seq(Page) /\ Len(new) = Len(pages) /\ DOMAIN new = DOMAIN pages
  BY <1>1, ReplaceAtType, LenProperties, EmptySeq
<1>3. \A q \in DOMAIN pages : /\ new[q].kind = pages[q].kind
                              /\ new[q].kind \in {"nfts", "add", "details"} =>
                                   new[q].uid = pages[q].uid
  OBVIOUS
<1>4. LeavesIn(new)
  <2> SUFFICES ASSUME NEW q \in DOMAIN new, new[q].kind \in {"add", "details"}
               PROVE  /\ q = Len(new) /\ q > 1
                      /\ new[q-1].kind = "nfts" /\ new[q-1].uid = new[q].uid
    BY DEF LeavesIn
  <2> HIDE DEF new
  <2>1. /\ q = Len(pages) /\ q > 1
        /\ pages[q-1].kind = "nfts" /\ pages[q-1].uid = pages[q].uid
    BY <1>1, <1>2, <1>3 DEF LeavesIn
  <2>2. q - 1 \in DOMAIN pages
    BY <1>2, <2>1
  <2>3. QED
    BY <1>2, <1>3, <2>1, <2>2
<1>5. new # <<>>
  BY <1>2, EmptySeq
<1>6. ASSUME NEW work, OwnedBy(pages, work) PROVE OwnedBy(new, work)
  <2>1. work.at # 0 => /\ work.at \in DOMAIN pages
                       /\ work.op \in {"add", "edit", "remove"} =>
                            pages[work.at].kind \in {"add", "details"}
    BY <1>6 DEF OwnedBy, OwnerKind
  <2> HIDE DEF new
  <2>2. QED
    BY <1>2, <1>3, <1>6, <2>1, OwnershipKept
<1>7. QED
  BY <1>2, <1>4, <1>5, <1>6 DEF PagesOK

(* pushReplacement: the new top page is not one of the two leaves.         *)
LEMMA PageReplaced ==
  ASSUME NEW pages, PagesOK(pages), NEW page \in LoginPage \cup MainPage
  PROVE  LET new == [pages EXCEPT ![Len(pages)] = page]
         IN  /\ PagesOK(new)
             /\ \A work : OwnedBy(pages, work) /\ work.at # Len(pages) =>
                  OwnedBy(new, work)
<1> DEFINE p == Len(pages)
           new == [pages EXCEPT ![p] = page]
<1>1. pages \in Seq(Page) /\ pages # <<>> /\ LeavesIn(pages)
  BY DEF PagesOK
<1>2. page \in Page /\ page.kind \in {"login", "main"}
  BY DEF Page, LoginPage, MainPage
<1>3. p \in Nat \ {0} /\ DOMAIN pages = 1..p
  BY <1>1, LenProperties, EmptySeq
<1>4. new \in Seq(Page) /\ Len(new) = p /\ DOMAIN new = DOMAIN pages
  BY <1>1, <1>2, <1>3, ReplaceAtType
<1>5. \A q \in DOMAIN pages : q # p => new[q] = pages[q]
  OBVIOUS
<1>6. new[p] = page
  BY <1>3
<1> HIDE DEF new
<1>7. LeavesIn(new)
  BY <1>1, <1>2, <1>3, <1>4, <1>5, <1>6 DEF LeavesIn
<1>8. new # <<>>
  BY <1>3, <1>4, EmptySeq
<1>9. ASSUME NEW work, OwnedBy(pages, work), work.at # p PROVE OwnedBy(new, work)
  BY <1>4, <1>5, <1>9 DEF OwnedBy
<1>10. QED
  BY <1>4, <1>7, <1>8, <1>9 DEF PagesOK, new

(* pop: only a leaf returns true, to the NFT page below it.                *)
LEMMA PagePopped ==
  ASSUME NEW pages, PagesOK(pages), Len(pages) > 1, NEW result \in BOOLEAN,
         result => pages[Len(pages)].kind \in {"add", "details"}
  PROVE  /\ PagesOK(Popped(pages, result))
         /\ \A work : OwnedBy(pages, work) /\ work.at # Len(pages) =>
              OwnedBy(Popped(pages, result), work)
<1> DEFINE p == Len(pages)
           below == SubSeq(pages, 1, p - 1)
           new == Popped(pages, result)
<1>1. pages \in Seq(Page) /\ pages # <<>> /\ LeavesIn(pages)
  BY DEF PagesOK
<1>2. p \in Nat /\ p > 1 /\ DOMAIN pages = 1..p
  BY <1>1, LenProperties
<1>3. /\ below \in Seq(Page) /\ Len(below) = p - 1 /\ DOMAIN below = 1..(p-1)
      /\ \A q \in 1..(p-1) : below[q] = pages[q]
  BY <1>1, <1>2, FrontType
<1> HIDE DEF below
<1>4. PagesOK(below)
  <2>1. below # <<>>
    BY <1>2, <1>3, EmptySeq
  <2>2. LeavesIn(below)
    <3> SUFFICES ASSUME NEW q \in 1..(p-1), below[q].kind \in {"add", "details"}
                 PROVE  FALSE
      BY <1>3 DEF LeavesIn
    <3>1. q \in DOMAIN pages /\ pages[q].kind \in {"add", "details"}
      BY <1>2, <1>3
    <3>2. q = p
      BY <1>1, <3>1 DEF LeavesIn
    <3>3. QED
      BY <1>2, <3>2
  <2>3. QED
    BY <1>3, <2>1, <2>2 DEF PagesOK
<1>5. ASSUME NEW work, OwnedBy(pages, work), work.at # p PROVE OwnedBy(below, work)
  <2>1. work.at # 0 => work.at \in 1..(p-1)
    BY <1>2, <1>5 DEF OwnedBy
  <2>2. QED
    BY <1>3, <1>5, <2>1 DEF OwnedBy
<1>6. CASE ~result
  <2>1. new = below
    BY <1>6 DEF Popped, below
  <2>2. QED
    BY <1>4, <1>5, <2>1
<1>7. CASE result
  <2>1. pages[p-1].kind = "nfts"
    BY <1>1, <1>2, <1>7 DEF LeavesIn
  <2>2. p - 1 \in DOMAIN below /\ below[p-1] \in NftPage
    BY <1>1, <1>2, <1>3, <2>1, PageKinds, ElementOfSeq
  <2> DEFINE page == Refreshed(below[p-1])
  <2>3. page \in NftPage /\ page.uid = below[p-1].uid
    BY <2>2, EmptySeq DEF Refreshed, NftPage
  <2>4. new = [below EXCEPT ![p-1] = page]
    BY <1>3, <1>7 DEF Popped, below
  <2> HIDE DEF new, page
  <2>5. page \in Page /\ page.kind = below[p-1].kind
    BY <2>2, <2>3 DEF Page, NftPage
  <2>6. /\ PagesOK(new)
        /\ \A work : OwnedBy(below, work) => OwnedBy(new, work)
    BY <1>4, <2>2, <2>3, <2>4, <2>5, PageRebuilt
  <2>7. QED
    BY <1>5, <2>6 DEF new
<1>8. QED
  BY <1>6, <1>7

(* push: a leaf goes on the NFT page of its user, nothing goes on a leaf.  *)
LEMMA PagePushed ==
  ASSUME NEW pages, PagesOK(pages), NEW page \in Page,
         pages[Len(pages)].kind \notin {"add", "details"},
         page.kind \in {"add", "details"} =>
           /\ pages[Len(pages)].kind = "nfts"
           /\ pages[Len(pages)].uid = page.uid
  PROVE  /\ PagesOK(Append(pages, page))
         /\ \A work : OwnedBy(pages, work) => OwnedBy(Append(pages, page), work)
<1> DEFINE p == Len(pages)
           new == Append(pages, page)
<1>1. pages \in Seq(Page) /\ pages # <<>> /\ LeavesIn(pages)
  BY DEF PagesOK
<1>2. p \in Nat \ {0} /\ DOMAIN pages = 1..p
  BY <1>1, LenProperties, EmptySeq
<1>3. /\ new \in Seq(Page) /\ Len(new) = p + 1 /\ new[p+1] = page
      /\ DOMAIN new = 1..(p+1)
      /\ \A q \in DOMAIN pages : q \in DOMAIN new /\ new[q] = pages[q]
  BY <1>1, AppendType
<1> HIDE DEF new
<1>4. LeavesIn(new)
  <2> SUFFICES ASSUME NEW q \in 1..(p+1), new[q].kind \in {"add", "details"}
               PROVE  /\ q = p + 1 /\ q > 1
                      /\ new[q-1].kind = "nfts" /\ new[q-1].uid = new[q].uid
    BY <1>3 DEF LeavesIn
  <2>1. CASE q = p + 1
    BY <1>2, <1>3, <2>1
  <2>2. CASE q # p + 1
    <3>1. q \in DOMAIN pages /\ pages[q].kind \in {"add", "details"}
      BY <1>2, <1>3, <2>2
    <3>2. q = p
      BY <1>1, <3>1 DEF LeavesIn
    <3>3. QED
      BY <3>1, <3>2
  <2>3. QED
    BY <2>1, <2>2
<1>5. new # <<>>
  BY <1>2, <1>3, EmptySeq
<1>6. ASSUME NEW work, OwnedBy(pages, work) PROVE OwnedBy(new, work)
  BY <1>3, <1>6 DEF OwnedBy
<1>7. QED
  BY <1>3, <1>4, <1>5, <1>6 DEF PagesOK, new

-----------------------------------------------------------------------------
(* What the queues preserve.                                               *)

LEMMA CallStarted ==
  ASSUME NEW pages, NEW cs, CallsOK(pages, cs), NEW call \in Call,
         OwnedBy(pages, call)
  PROVE  CallsOK(pages, Append(cs, call))
<1>1. cs \in Seq(Call) /\ DOMAIN cs = 1..Len(cs) /\ Len(cs) \in Nat
  BY LenProperties DEF CallsOK
<1>2. QED
  BY <1>1, AppendType DEF CallsOK

LEMMA WriteQueued ==
  ASSUME NEW pages, NEW ws, WritesOK(pages, ws), NEW w \in Write,
         OwnedBy(pages, w), w.at # 0 => w.op \in {"role", "delete"}
  PROVE  WritesOK(pages, Append(ws, w))
<1>1. ws \in Seq(Write) /\ DOMAIN ws = 1..Len(ws) /\ Len(ws) \in Nat
  BY LenProperties DEF WritesOK
<1>2. QED
  BY <1>1, AppendType DEF WritesOK

LEMMA CallEnded ==
  ASSUME NEW pages, NEW cs, CallsOK(pages, cs), NEW i \in DOMAIN cs
  PROVE  CallsOK(pages, RemoveAt(cs, i))
<1>1. /\ RemoveAt(cs, i) \in Seq(Call)
      /\ \A j \in DOMAIN RemoveAt(cs, i) : \E k \in DOMAIN cs : RemoveAt(cs, i)[j] = cs[k]
  BY RemoveAtType DEF CallsOK
<1>2. QED
  BY <1>1 DEF CallsOK

LEMMA WriteEnded ==
  ASSUME NEW pages, NEW ws, WritesOK(pages, ws), ws # <<>>
  PROVE  /\ WritesOK(pages, Tail(ws))
         /\ Head(ws) \in Write /\ OwnedBy(pages, Head(ws))
         /\ Head(ws).at # 0 => Head(ws).op \in {"role", "delete"}
  BY TailType DEF WritesOK

LEMMA WorkOrphaned ==
  ASSUME NEW old, NEW new, NEW cs, NEW ws, NEW p \in Nat,
         CallsOK(old, cs), WritesOK(old, ws),
         \A work : OwnedBy(old, work) /\ work.at # p => OwnedBy(new, work)
  PROVE  CallsOK(new, Orphaned(cs, p)) /\ WritesOK(new, Orphaned(ws, p))
<1>1. CallsOK(new, Orphaned(cs, p))
  <2>1. /\ Orphaned(cs, p) \in Seq(Call)
        /\ \A i \in DOMAIN Orphaned(cs, p) :
             /\ i \in DOMAIN cs
             /\ Orphaned(cs, p)[i].at # 0 =>
                  Orphaned(cs, p)[i] = cs[i] /\ cs[i].at # p
    BY OrphanedCalls DEF CallsOK
  <2>2. ASSUME NEW i \in DOMAIN Orphaned(cs, p)
        PROVE  OwnedBy(new, Orphaned(cs, p)[i])
    <3>1. CASE Orphaned(cs, p)[i].at = 0
      BY <3>1 DEF OwnedBy
    <3>2. CASE Orphaned(cs, p)[i].at # 0
      BY <2>1, <3>2 DEF CallsOK
    <3>3. QED
      BY <3>1, <3>2
  <2>3. QED
    BY <2>1, <2>2 DEF CallsOK
<1>2. WritesOK(new, Orphaned(ws, p))
  <2>1. /\ Orphaned(ws, p) \in Seq(Write)
        /\ \A i \in DOMAIN Orphaned(ws, p) :
             /\ i \in DOMAIN ws
             /\ Orphaned(ws, p)[i].at # 0 =>
                  Orphaned(ws, p)[i] = ws[i] /\ ws[i].at # p
    BY OrphanedWrites DEF WritesOK
  <2>2. ASSUME NEW i \in DOMAIN Orphaned(ws, p)
        PROVE  /\ OwnedBy(new, Orphaned(ws, p)[i])
               /\ Orphaned(ws, p)[i].at # 0 =>
                    Orphaned(ws, p)[i].op \in {"role", "delete"}
    <3>1. CASE Orphaned(ws, p)[i].at = 0
      BY <3>1 DEF OwnedBy
    <3>2. CASE Orphaned(ws, p)[i].at # 0
      BY <2>1, <3>2 DEF WritesOK
    <3>3. QED
      BY <3>1, <3>2
  <2>3. QED
    BY <2>1, <2>2 DEF WritesOK
<1>3. QED
  BY <1>1, <1>2

-----------------------------------------------------------------------------
(* What reads return and handlers write.                                   *)

LEMMA ViewType ==
  ASSUME NEW docs \in [Uid -> Doc \cup {NoDoc}], NEW ws \in Seq(Write), NEW u \in Uid
  PROVE  ViewThrough(docs, ws, u) \in Doc \cup {NoDoc}
<1>1. \A k \in DOMAIN ws : ws[k].data \in Doc \cup {NoDoc}
  <2>1. \A k \in DOMAIN ws : ws[k] \in Write
    BY ElementOfSeq, LenProperties
  <2>2. QED
    BY <2>1 DEF Write
<1>2. docs[u] \in Doc \cup {NoDoc}
  OBVIOUS
<1>3. CASE \E k \in DOMAIN ws : IsLastWrite(ws, u, k)
  <2>1. (CHOOSE k \in DOMAIN ws : IsLastWrite(ws, u, k)) \in DOMAIN ws
    BY <1>3
  <2>2. QED
    BY <1>1, <1>2, <2>1 DEF ViewThrough
<1>4. CASE ~\E k \in DOMAIN ws : IsLastWrite(ws, u, k)
  BY <1>2, <1>4 DEF ViewThrough
<1>5. QED
  BY <1>3, <1>4

LEMMA WithRoleType ==
  ASSUME NEW d \in Doc, NEW r \in Role
  PROVE  WithRole(d, r) \in Doc
  BY DEF WithRole, Doc

LEMMA WithNftType ==
  ASSUME NEW d \in Doc, NEW n \in Art
  PROVE  WithNft(d, n) \in Doc
<1>1. Append(d.NFT, n) \in Seq(Art)
  BY AppendType DEF Doc
<1>2. QED
  BY <1>1 DEF WithNft, Doc

LEMMA EditedNftType ==
  ASSUME NEW d \in Doc, NEW i \in DOMAIN d.NFT, NEW n \in Art
  PROVE  EditedNft(d, i, n) \in Doc
<1>1. [d.NFT EXCEPT ![i] = n] \in Seq(Art)
  BY ReplaceAtType DEF Doc
<1>2. QED
  BY <1>1 DEF EditedNft, ReplaceAt, Doc

LEMMA WithoutNftType ==
  ASSUME NEW d \in Doc, NEW i \in DOMAIN d.NFT
  PROVE  WithoutNft(d, i) \in Doc
<1>1. RemoveAt(d.NFT, i) \in Seq(Art)
  BY RemoveAtType DEF Doc
<1>2. QED
  BY <1>1 DEF WithoutNft, Doc

LEMMA WrittenType ==
  ASSUME NEW docs \in [Uid -> Doc \cup {NoDoc}], NEW w \in Write
  PROVE  Written(docs, w) \in [Uid -> Doc \cup {NoDoc}]
  BY DEF Written, Write

LEMMA ArtOfUser ==
  ASSUME NEW u \in Uid, NEW n \in NftOf[u]
  PROVE  n \in Art
  BY DEF Art

LEMMA TabStep ==
  ASSUME IInv, NEW s \in Session, NEW pages, NEW cs, NEW ws,
         users' \in [Uid -> Doc \cup {NoDoc}], registered' \in SUBSET Uid,
         stack' = [stack EXCEPT ![s] = pages],
         calls' = [calls EXCEPT ![s] = cs],
         pending' = [pending EXCEPT ![s] = ws],
         TabOK(pages, cs, ws)
  PROVE  IInv'
<1>1. stack'[s] = pages /\ calls'[s] = cs /\ pending'[s] = ws
  BY DEF IInv, TypeOK
<1>2. QED
  BY <1>1, OneTabStep

-----------------------------------------------------------------------------
(* The actions.  First the four shapes that most of them have.             *)

LEMMA TopPage ==
  ASSUME IInv, NEW s \in Session
  PROVE  /\ Len(stack[s]) \in Nat \ {0} /\ Len(stack[s]) \in DOMAIN stack[s]
         /\ Top(s) = stack[s][Len(stack[s])] /\ Top(s) \in Page
<1>1. stack[s] \in Seq(Page) /\ stack[s] # <<>>
  BY DEF IInv, TypeOK
<1>2. QED
  BY <1>1, LenProperties, EmptySeq, ElementOfSeq DEF Top

LEMMA IInvFunctions ==
  ASSUME IInv, NEW s \in Session
  PROVE  /\ users \in [Uid -> Doc \cup {NoDoc}] /\ registered \in SUBSET Uid
         /\ stack = [stack EXCEPT ![s] = stack[s]]
         /\ calls = [calls EXCEPT ![s] = calls[s]]
         /\ pending = [pending EXCEPT ![s] = pending[s]]
         /\ \A x : /\ [stack EXCEPT ![s] = x][s] = x
                   /\ [calls EXCEPT ![s] = x][s] = x
                   /\ [pending EXCEPT ![s] = x][s] = x
  BY DEF IInv, TypeOK

LEMMA RebuildInv ==
  ASSUME IInv, NEW s \in Session, NEW p \in DOMAIN stack[s], NEW page \in Page,
         page.kind = stack[s][p].kind,
         page.kind \in {"nfts", "add", "details"} => page.uid = stack[s][p].uid,
         Rebuild(s, p, page)
  PROVE  IInv'
<1> DEFINE new == [stack[s] EXCEPT ![p] = page]
<1>1. TabOK(stack[s], calls[s], pending[s])
  BY TabOfIInv
<1>2. PagesOK(new) /\ \A work : OwnedBy(stack[s], work) => OwnedBy(new, work)
  BY <1>1, PageRebuilt DEF TabOK
<1> HIDE DEF new
<1>3. TabOK(new, calls[s], pending[s])
  BY <1>1, <1>2 DEF TabOK, CallsOK, WritesOK
<1>4. /\ stack' = [stack EXCEPT ![s] = new] /\ calls' = calls
      /\ pending' = pending /\ users' = users /\ registered' = registered
  BY DEF Rebuild, WithPage, new
<1>5. /\ users' \in [Uid -> Doc \cup {NoDoc}] /\ registered' \in SUBSET Uid
      /\ stack'[s] = new /\ calls'[s] = calls[s] /\ pending'[s] = pending[s]
      /\ stack' = [stack EXCEPT ![s] = stack'[s]]
      /\ calls' = [calls EXCEPT ![s] = calls'[s]]
      /\ pending' = [pending EXCEPT ![s] = pending'[s]]
  BY <1>4, IInvFunctions
<1>6. QED
  BY <1>3, <1>5, OneTabStep

LEMMA PushInv ==
  ASSUME IInv, NEW s \in Session, NEW page \in Page,
         Top(s).kind \notin {"add", "details"},
         page.kind \in {"add", "details"} =>
           Top(s).kind = "nfts" /\ Top(s).uid = page.uid,
         Push(s, page)
  PROVE  IInv'
<1> DEFINE new == Append(stack[s], page)
<1>1. TabOK(stack[s], calls[s], pending[s])
  BY TabOfIInv
<1>2. PagesOK(new) /\ \A work : OwnedBy(stack[s], work) => OwnedBy(new, work)
  BY <1>1, PagePushed DEF TabOK, Top
<1> HIDE DEF new
<1>3. TabOK(new, calls[s], pending[s])
  BY <1>1, <1>2 DEF TabOK, CallsOK, WritesOK
<1>4. /\ stack' = [stack EXCEPT ![s] = new] /\ calls' = calls
      /\ pending' = pending /\ users' = users /\ registered' = registered
  BY DEF Push, new
<1>5. /\ users' \in [Uid -> Doc \cup {NoDoc}] /\ registered' \in SUBSET Uid
      /\ stack'[s] = new /\ calls'[s] = calls[s] /\ pending'[s] = pending[s]
      /\ stack' = [stack EXCEPT ![s] = stack'[s]]
      /\ calls' = [calls EXCEPT ![s] = calls'[s]]
      /\ pending' = [pending EXCEPT ![s] = pending'[s]]
  BY <1>4, IInvFunctions
<1>6. QED
  BY <1>3, <1>5, OneTabStep

LEMMA PushReplacementInv ==
  ASSUME IInv, NEW s \in Session, NEW page \in LoginPage \cup MainPage, NEW queue,
         WritesOK(stack[s], queue),
         users' \in [Uid -> Doc \cup {NoDoc}], registered' = registered,
         PushReplacement(s, page, queue)
  PROVE  IInv'
<1> DEFINE p == Len(stack[s])
           new == [stack[s] EXCEPT ![p] = page]
<1>1. TabOK(stack[s], calls[s], pending[s])
  BY TabOfIInv
<1>2. p \in Nat
  BY TopPage
<1>3. /\ PagesOK(new)
      /\ \A work : OwnedBy(stack[s], work) /\ work.at # p => OwnedBy(new, work)
  BY <1>1, PageReplaced DEF TabOK
<1>4. /\ stack' = [stack EXCEPT ![s] = new]
      /\ calls' = [calls EXCEPT ![s] = Orphaned(calls[s], p)]
      /\ pending' = [pending EXCEPT ![s] = Orphaned(queue, p)]
  BY DEF PushReplacement
<1> HIDE DEF new, p
<1>5. TabOK(new, Orphaned(calls[s], p), Orphaned(queue, p))
  BY <1>1, <1>2, <1>3, WorkOrphaned DEF TabOK
<1>6. QED
  BY ZenonT(60), <1>4, <1>5, IInvFunctions, OneTabStep

LEMMA StartCallInv ==
  ASSUME IInv, NEW s \in Session, NEW call \in Call, OwnedBy(stack[s], call),
         StartCall(s, call)
  PROVE  IInv'
<1>1. TabOK(stack[s], Append(calls[s], call), pending[s])
  BY TabOfIInv, CallStarted DEF TabOK
<1>2. /\ calls' = [calls EXCEPT ![s] = Append(calls[s], call)] /\ stack' = stack
      /\ pending' = pending /\ users' = users /\ registered' = registered
  BY DEF StartCall
<1>3. QED
  BY <1>1, <1>2, IInvFunctions, OneTabStep

-----------------------------------------------------------------------------
(* Login page.                                                             *)

LEMMA SignInInv ==
  ASSUME IInv, NEW s \in Session, NEW u \in Uid, SignIn(s, u)
  PROVE  IInv'
<1> DEFINE page == [Top(s) EXCEPT !.signing = u]
<1>1. page \in LoginPage /\ page.kind = Top(s).kind
  BY TopPage, PageKinds DEF SignIn, On, LoginPage
<1>2. page \in Page /\ page.kind = "login"
  BY <1>1 DEF Page, LoginPage
<1>3. Rebuild(s, Len(stack[s]), page)
  BY DEF SignIn
<1> HIDE DEF page
<1>4. QED
  BY <1>1, <1>2, <1>3, TopPage, RebuildInv

LEMMA LoginAnsweredInv ==
  ASSUME IInv, NEW s \in Session, LoginAnswered(s)
  PROVE  IInv'
<1> DEFINE u    == Top(s).signing
           doc  == View(s, u)
           role == IF doc = NoDoc THEN "user" ELSE doc.role
           page == IF role \in Staff THEN Main(u, role) ELSE Login
<1>1. u \in Uid
  BY TopPage, PageKinds DEF LoginAnswered, On, LoginPage
<1>2. page \in LoginPage \cup MainPage
  <2>1. Login \in LoginPage
    BY DEF Login, LoginPage
  <2>2. role \in Staff => Main(u, role) \in MainPage
    BY <1>1 DEF Main, MainPage
  <2>3. QED
    BY <2>1, <2>2
<1>3. PushReplacement(s, page, pending[s]) /\ UNCHANGED <<users, registered>>
  BY DEF LoginAnswered
<1>4. WritesOK(stack[s], pending[s])
  BY TabOfIInv DEF TabOK
<1> HIDE DEF page
<1>5. QED
  BY <1>2, <1>3, <1>4, IInvFunctions, PushReplacementInv

LEMMA LoginFailedInv ==
  ASSUME IInv, NEW s \in Session, LoginFailed(s)
  PROVE  IInv'
<1>1. Login \in Page /\ Login.kind = "login"
  BY DEF Login, Page, LoginPage
<1>2. Top(s).kind = "login" /\ Rebuild(s, Len(stack[s]), Login)
  BY DEF LoginFailed, On
<1>3. QED
  BY <1>1, <1>2, TopPage, RebuildInv

LEMMA LogoutInv ==
  ASSUME IInv, NEW s \in Session, Logout(s)
  PROVE  IInv'
<1>1. Login \in LoginPage
  BY DEF Login, LoginPage
<1>2. WritesOK(stack[s], pending[s])
  BY TabOfIInv DEF TabOK
<1>3. PushReplacement(s, Login, pending[s]) /\ UNCHANGED <<users, registered>>
  BY DEF Logout
<1>4. QED
  BY <1>1, <1>2, <1>3, IInvFunctions, PushReplacementInv

-----------------------------------------------------------------------------
(* Main page.                                                              *)

LEMMA PageAt ==
  ASSUME IInv, NEW s \in Session, NEW p \in DOMAIN stack[s]
  PROVE  stack[s][p] \in Page
<1>1. stack[s] \in Seq(Page)
  BY DEF IInv, TypeOK
<1>2. QED
  BY <1>1, ElementOfSeq, LenProperties

LEMMA ViewOfTab ==
  ASSUME IInv, NEW s \in Session, NEW u \in Uid
  PROVE  View(s, u) \in Doc \cup {NoDoc}
  BY ViewType DEF View, IInv, TypeOK

LEMMA ListAnsweredInv ==
  ASSUME IInv, NEW s \in Session, NEW p \in DOMAIN stack[s], ListAnswered(s, p)
  PROVE  IInv'
<1> DEFINE seen == [u \in Uid |-> IF View(s, u) = NoDoc THEN NoDoc ELSE View(s, u).NFT]
           page == [stack[s][p] EXCEPT !.state = "done", !.nfts = seen]
<1>1. seen \in [Uid -> Seq(Art) \cup {NoDoc}]
  BY ViewOfTab DEF Doc
<1>2. stack[s][p] \in MainPage
  BY PageAt, PageKinds DEF ListAnswered
<1>3. Rebuild(s, p, page)
  BY DEF ListAnswered
<1> HIDE DEF seen
<1>4. page \in MainPage
  BY <1>1, <1>2 DEF MainPage
<1> HIDE DEF page
<1>5. page \in Page /\ page.kind = "main" /\ stack[s][p].kind = "main"
  BY <1>2, <1>4 DEF Page, MainPage
<1>6. QED
  BY <1>3, <1>5, RebuildInv

LEMMA ListFailedInv ==
  ASSUME IInv, NEW s \in Session, NEW p \in DOMAIN stack[s], ListFailed(s, p)
  PROVE  IInv'
<1> DEFINE page == [stack[s][p] EXCEPT !.state = "failed"]
<1>1. stack[s][p] \in MainPage
  BY PageAt, PageKinds DEF ListFailed
<1>2. page \in MainPage
  BY <1>1 DEF MainPage
<1>3. Rebuild(s, p, page)
  BY DEF ListFailed
<1> HIDE DEF page
<1>4. page \in Page /\ page.kind = "main" /\ stack[s][p].kind = "main"
  BY <1>1, <1>2 DEF Page, MainPage
<1>5. QED
  BY <1>3, <1>4, RebuildInv

LEMMA PressRoleInv ==
  ASSUME IInv, NEW s \in Session, NEW v \in Uid, NEW r \in Grants, PressRole(s, v, r)
  PROVE  IInv'
<1> DEFINE call == [op |-> "role", uid |-> v, role |-> r, at |-> Len(stack[s])]
<1>1. r \in Role
  BY ButtonsAssumption
<1>2. call \in Call
  BY <1>1, TopPage DEF Call, RoleCall
<1>3. OwnedBy(stack[s], call)
  BY TopPage DEF OwnedBy, OwnerKind, PressRole, Listed, On
<1>4. StartCall(s, call)
  BY DEF PressRole
<1> HIDE DEF call
<1>5. QED
  BY <1>2, <1>3, <1>4, StartCallInv

LEMMA PressDeleteInv ==
  ASSUME IInv, NEW s \in Session, NEW v \in Uid, PressDelete(s, v)
  PROVE  IInv'
<1> DEFINE w == [op |-> "delete", uid |-> v, data |-> NoDoc, at |-> Len(stack[s])]
<1>1. w \in Write /\ w.op = "delete"
  BY TopPage DEF Write
<1>2. OwnedBy(stack[s], w)
  BY TopPage DEF OwnedBy, OwnerKind, PressDelete, Listed, On
<1>3. /\ pending' = [pending EXCEPT ![s] = Append(pending[s], w)]
      /\ users' = users /\ registered' = registered
      /\ stack' = stack /\ calls' = calls
  BY DEF PressDelete
<1> HIDE DEF w
<1>4. TabOK(stack[s], calls[s], Append(pending[s], w))
  BY <1>1, <1>2, TabOfIInv, WriteQueued DEF TabOK
<1>5. QED
  BY ZenonT(60), <1>3, <1>4, IInvFunctions, OneTabStep

LEMMA OpenNftsInv ==
  ASSUME IInv, NEW s \in Session, NEW v \in Uid, OpenNfts(s, v)
  PROVE  IInv'
<1> DEFINE page == [kind |-> "nfts", uid |-> v, state |-> "done",
                    nfts |-> Top(s).nfts[v]]
<1>1. Top(s) \in MainPage /\ Top(s).nfts[v] # NoDoc
  BY TopPage, PageKinds DEF OpenNfts, Listed, On
<1>2. page \in NftPage
  BY <1>1 DEF MainPage, NftPage
<1>3. Push(s, page) /\ Top(s).kind = "main"
  BY DEF OpenNfts, Listed, On
<1> HIDE DEF page
<1>4. page \in Page /\ page.kind = "nfts"
  BY <1>2 DEF Page, NftPage
<1>5. QED
  BY <1>3, <1>4, PushInv

-----------------------------------------------------------------------------
(* NFT page and its leaves.                                                *)

LEMMA NftPageRebuilt ==
  ASSUME IInv, NEW s \in Session, NEW p \in DOMAIN stack[s], NEW page \in NftPage,
         stack[s][p].kind = "nfts", page.uid = stack[s][p].uid,
         Rebuild(s, p, page)
  PROVE  IInv'
<1>1. page \in Page /\ page.kind = "nfts"
  BY DEF Page, NftPage
<1>2. QED
  BY <1>1, RebuildInv

LEMMA RefreshAnsweredInv ==
  ASSUME IInv, NEW s \in Session, NEW p \in DOMAIN stack[s], RefreshAnswered(s, p)
  PROVE  IInv'
<1> DEFINE old  == stack[s][p]
           doc  == View(s, old.uid)
           page == IF doc = NoDoc
                     THEN [old EXCEPT !.state = "failed"]
                     ELSE [old EXCEPT !.state = "sleeping", !.nfts = doc.NFT]
<1>1. old \in NftPage /\ old.kind = "nfts" /\ Rebuild(s, p, page)
  BY PageAt, PageKinds DEF RefreshAnswered
<1>2. doc \in Doc \cup {NoDoc}
  BY <1>1, ViewOfTab DEF NftPage
<1>3. page \in NftPage /\ page.uid = old.uid
  <2> HIDE DEF doc
  <2>1. doc # NoDoc => doc.NFT \in Seq(Art)
    BY <1>2 DEF Doc
  <2>2. QED
    BY <1>1, <2>1 DEF NftPage
<1> HIDE DEF page
<1>4. QED
  BY <1>1, <1>3, NftPageRebuilt

LEMMA RefreshSettledInv ==
  ASSUME IInv, NEW s \in Session, NEW p \in DOMAIN stack[s],
         RefreshShown(s, p) \/ RefreshFailed(s, p)
  PROVE  IInv'
<1>1. stack[s][p] \in NftPage /\ stack[s][p].kind = "nfts"
  BY PageAt, PageKinds DEF RefreshShown, RefreshFailed
<1>2. PICK state \in {"done", "failed"} :
        Rebuild(s, p, [stack[s][p] EXCEPT !.state = state])
  BY DEF RefreshShown, RefreshFailed
<1> DEFINE page == [stack[s][p] EXCEPT !.state = state]
<1>3. page \in NftPage /\ page.uid = stack[s][p].uid
  BY <1>1 DEF NftPage
<1> HIDE DEF page
<1>4. QED
  BY <1>1, <1>2, <1>3, NftPageRebuilt DEF page

LEMMA OpenAddInv ==
  ASSUME IInv, NEW s \in Session, OpenAdd(s)
  PROVE  IInv'
<1> DEFINE page == [kind |-> "add", uid |-> Top(s).uid]
<1>1. Top(s) \in NftPage /\ Top(s).kind = "nfts" /\ Push(s, page)
  BY TopPage, PageKinds DEF OpenAdd, On
<1>2. page \in NftaddPage /\ page.uid = Top(s).uid
  BY <1>1 DEF NftPage, NftaddPage
<1> HIDE DEF page
<1>3. page \in Page
  BY <1>2 DEF Page
<1>4. QED
  BY <1>1, <1>2, <1>3, PushInv

LEMMA OpenDetailsInv ==
  ASSUME IInv, NEW s \in Session, NEW i \in 1..MaxNfts, OpenDetails(s, i)
  PROVE  IInv'
<1> DEFINE page == [kind |-> "details", uid |-> Top(s).uid, index |-> i,
                    nft |-> Top(s).nfts[i], isChange |-> FALSE]
<1>1. /\ Top(s) \in NftPage /\ Top(s).kind = "nfts" /\ i \in DOMAIN Top(s).nfts
      /\ Push(s, page)
  BY TopPage, PageKinds DEF OpenDetails, On
<1>2. i \in Nat /\ Top(s).nfts[i] \in Art
  <2>1. Top(s).nfts \in Seq(Art)
    BY <1>1 DEF NftPage
  <2>2. i \in 1..Len(Top(s).nfts) /\ Len(Top(s).nfts) \in Nat
    BY <1>1, <2>1, LenProperties
  <2>3. QED
    BY <2>1, <2>2, ElementOfSeq
<1>3. page \in NftDetailsPage /\ page.uid = Top(s).uid
  BY <1>1, <1>2 DEF NftPage, NftDetailsPage
<1> HIDE DEF page
<1>4. page \in Page
  BY <1>3 DEF Page
<1>5. QED
  BY <1>1, <1>3, <1>4, PushInv

LEMMA BackInv ==
  ASSUME IInv, NEW s \in Session, NEW result \in BOOLEAN, Back(s, result)
  PROVE  IInv'
<1> DEFINE p   == Len(stack[s])
           new == Popped(stack[s], result)
<1>1. /\ p > 1 /\ result \in BackResults(Top(s))
      /\ stack'   = [stack EXCEPT ![s] = new]
      /\ calls'   = [calls EXCEPT ![s] = Orphaned(calls[s], p)]
      /\ pending' = [pending EXCEPT ![s] = Orphaned(pending[s], p)]
      /\ users' = users /\ registered' = registered
  BY DEF Back
<1>2. result => stack[s][p].kind \in {"add", "details"}
  BY <1>1, TopPage DEF BackResults
<1>3. TabOK(stack[s], calls[s], pending[s]) /\ p \in Nat
  BY TabOfIInv, TopPage
<1>4. /\ PagesOK(new)
      /\ \A work : OwnedBy(stack[s], work) /\ work.at # p => OwnedBy(new, work)
  BY <1>1, <1>2, <1>3, PagePopped DEF TabOK
<1> HIDE DEF new, p
<1>5. TabOK(new, Orphaned(calls[s], p), Orphaned(pending[s], p))
  BY <1>3, <1>4, WorkOrphaned DEF TabOK
<1>6. QED
  BY ZenonT(60), <1>1, <1>5, IInvFunctions, OneTabStep

LEMMA PressAddInv ==
  ASSUME IInv, NEW s \in Session, PressAdd(s)
  PROVE  IInv'
<1> DEFINE call == [op |-> "add", uid |-> Top(s).uid, at |-> Len(stack[s])]
<1>1. Top(s) \in NftaddPage /\ Top(s).kind = "add"
  BY TopPage, PageKinds DEF PressAdd, On
<1>2. call \in Call
  BY <1>1, TopPage DEF Call, AddCall, NftaddPage
<1>3. OwnedBy(stack[s], call)
  BY <1>1, TopPage DEF OwnedBy, OwnerKind
<1>4. StartCall(s, call)
  BY DEF PressAdd
<1> HIDE DEF call
<1>5. QED
  BY <1>2, <1>3, <1>4, StartCallInv

LEMMA PressItemInv ==
  ASSUME IInv, NEW s \in Session, NEW op \in {"edit", "remove"}, PressItem(s, op)
  PROVE  IInv'
<1> DEFINE call == [op |-> op, uid |-> Top(s).uid, index |-> Top(s).index,
                    at |-> Len(stack[s])]
<1>1. Top(s) \in NftDetailsPage /\ Top(s).kind = "details"
  BY TopPage, PageKinds DEF PressItem, On
<1>2. call \in Call
  BY <1>1, TopPage DEF Call, ItemCall, NftDetailsPage
<1>3. OwnedBy(stack[s], call)
  BY <1>1, TopPage DEF OwnedBy, OwnerKind
<1>4. StartCall(s, call)
  BY DEF PressItem
<1> HIDE DEF call
<1>5. QED
  BY <1>2, <1>3, <1>4, StartCallInv

-----------------------------------------------------------------------------
(* Handlers that are answered.                                             *)

LEMMA CallAt ==
  ASSUME IInv, NEW s \in Session, NEW i \in DOMAIN calls[s]
  PROVE  /\ calls[s][i] \in Call /\ calls[s][i].uid \in Uid
         /\ OwnedBy(stack[s], calls[s][i])
         /\ View(s, calls[s][i].uid) \in Doc \cup {NoDoc}
<1>1. calls[s] \in Seq(Call) /\ OwnedBy(stack[s], calls[s][i])
  BY TabOfIInv DEF TabOK, CallsOK
<1>2. calls[s][i] \in Call
  BY <1>1, ElementOfSeq, LenProperties
<1>3. QED
  BY <1>1, <1>2, CallKinds, ViewOfTab

(* The write a handler queues, and the queues after it.                    *)
LEMMA QueuedOK ==
  ASSUME IInv, NEW s \in Session, NEW i \in DOMAIN calls[s], NEW data \in Doc
  PROVE  /\ WritesOK(stack[s], Queued(s, i, data))
         /\ CallsOK(stack[s], RemoveAt(calls[s], i))
<1> DEFINE call == calls[s][i]
           w    == [op |-> call.op, uid |-> call.uid, data |-> data,
                    at |-> IF call.op = "role" THEN call.at ELSE 0]
<1>1. call \in Call /\ OwnedBy(stack[s], call)
  BY CallAt
<1>2. /\ w \in Write /\ OwnedBy(stack[s], w)
      /\ w.at # 0 => w.op \in {"role", "delete"}
  BY <1>1, CallKinds DEF Write, OwnedBy
<1>3. Queued(s, i, data) = Append(pending[s], w)
  BY DEF Queued
<1> HIDE DEF w
<1>4. WritesOK(stack[s], Append(pending[s], w))
  BY <1>2, TabOfIInv, WriteQueued DEF TabOK
<1>5. CallsOK(stack[s], RemoveAt(calls[s], i))
  BY TabOfIInv, CallEnded DEF TabOK
<1>6. QED
  BY <1>3, <1>4, <1>5

(* Answered without touching the stack.                                    *)
LEMMA WriteBackInv ==
  ASSUME IInv, NEW s \in Session, NEW i \in DOMAIN calls[s], NEW data \in Doc,
         WriteBack(s, i, data), stack' = stack
  PROVE  IInv'
<1> DEFINE cs == RemoveAt(calls[s], i)
           ws == Queued(s, i, data)
<1>1. /\ calls' = [calls EXCEPT ![s] = cs] /\ pending' = [pending EXCEPT ![s] = ws]
      /\ users' = users /\ registered' = registered
  BY DEF WriteBack
<1>2. WritesOK(stack[s], ws) /\ CallsOK(stack[s], cs)
  BY QueuedOK
<1> HIDE DEF cs, ws
<1>3. TabOK(stack[s], cs, ws)
  BY <1>2, TabOfIInv DEF TabOK
<1>4. /\ users' \in [Uid -> Doc \cup {NoDoc}] /\ registered' \in SUBSET Uid
      /\ stack' = [stack EXCEPT ![s] = stack[s]]
  BY <1>1, IInvFunctions
<1>5. QED
  BY <1>1, <1>3, <1>4, TabStep

(* Answered while the page that started it shows the change.               *)
LEMMA WriteBackOnPageInv ==
  ASSUME IInv, NEW s \in Session, NEW i \in DOMAIN calls[s], NEW data \in Doc,
         WriteBack(s, i, data),
         NEW p \in DOMAIN stack[s], NEW page \in NftDetailsPage,
         stack[s][p].kind = "details", page.uid = stack[s][p].uid,
         stack' = [stack EXCEPT ![s] = [stack[s] EXCEPT ![p] = page]]
  PROVE  IInv'
<1> DEFINE cs  == RemoveAt(calls[s], i)
           ws  == Queued(s, i, data)
           new == [stack[s] EXCEPT ![p] = page]
<1>1. /\ calls' = [calls EXCEPT ![s] = cs] /\ pending' = [pending EXCEPT ![s] = ws]
      /\ users' = users /\ registered' = registered
      /\ stack' = [stack EXCEPT ![s] = new]
  BY DEF WriteBack
<1>2. WritesOK(stack[s], ws) /\ CallsOK(stack[s], cs)
  BY QueuedOK
<1>3. page \in Page /\ page.kind = "details"
  BY DEF Page, NftDetailsPage
<1>4. PagesOK(new) /\ \A work : OwnedBy(stack[s], work) => OwnedBy(new, work)
  BY <1>3, TabOfIInv, PageRebuilt DEF TabOK
<1> HIDE DEF cs, ws, new
<1>5. TabOK(new, cs, ws)
  BY <1>2, <1>4 DEF TabOK, CallsOK, WritesOK
<1>6. users' \in [Uid -> Doc \cup {NoDoc}] /\ registered' \in SUBSET Uid
  BY <1>1, IInvFunctions
<1>7. QED
  BY <1>1, <1>5, <1>6, TabStep

LEMMA RoleAnsweredInv ==
  ASSUME IInv, NEW s \in Session, NEW i \in DOMAIN calls[s], RoleAnswered(s, i)
  PROVE  IInv'
<1> DEFINE call == calls[s][i]
           doc  == View(s, call.uid)
<1>1. doc # NoDoc /\ call.op = "role"
  BY DEF RoleAnswered, AnsweredWith
<1>2. doc \in Doc /\ call.role \in Role
  BY <1>1, CallAt, CallKinds DEF RoleCall
<1>3. WithRole(doc, call.role) \in Doc
  BY <1>2, WithRoleType
<1>4. WriteBack(s, i, WithRole(doc, call.role)) /\ stack' = stack
  BY DEF RoleAnswered
<1>5. QED
  BY <1>3, <1>4, WriteBackInv

(* The handlers of the details page find it under their position.          *)
LEMMA ItemCallPage ==
  ASSUME IInv, NEW s \in Session, NEW i \in DOMAIN calls[s],
         calls[s][i].op \in {"edit", "remove"}, calls[s][i].at # 0
  PROVE  /\ calls[s][i].at \in DOMAIN stack[s]
         /\ stack[s][calls[s][i].at].kind = "details"
         /\ stack[s][calls[s][i].at] \in NftDetailsPage
<1>1. /\ calls[s][i].at \in DOMAIN stack[s]
      /\ stack[s][calls[s][i].at].kind = "details"
  BY CallAt DEF OwnedBy, OwnerKind
<1>2. QED
  BY <1>1, PageAt, PageKinds

LEMMA EditAnsweredInv ==
  ASSUME IInv, NEW s \in Session, NEW i \in DOMAIN calls[s], NEW n \in Art,
         EditAnswered(s, i, n)
  PROVE  IInv'
<1> DEFINE call == calls[s][i]
           doc  == View(s, call.uid)
           data == EditedNft(doc, call.index, n)
           page == [stack[s][call.at] EXCEPT !.isChange = TRUE, !.nft = n]
<1>1. /\ doc # NoDoc /\ call.op = "edit" /\ call.index \in DOMAIN doc.NFT
      /\ WriteBack(s, i, data)
  BY DEF EditAnswered, AnsweredWith
<1>0. stack' = IF call.at = 0 THEN stack
              ELSE [stack EXCEPT ![s] = [stack[s] EXCEPT ![call.at] = page]]
  BY DEF EditAnswered, WithPage
<1>2. data \in Doc
  BY <1>1, CallAt, EditedNftType
<1>3. CASE call.at = 0
  BY <1>0, <1>1, <1>2, <1>3, WriteBackInv
<1>4. CASE call.at # 0
  <2>1. /\ call.at \in DOMAIN stack[s] /\ stack[s][call.at].kind = "details"
        /\ stack[s][call.at] \in NftDetailsPage
    BY <1>1, <1>4, ItemCallPage
  <2>2. page \in NftDetailsPage /\ page.uid = stack[s][call.at].uid
    BY <2>1 DEF NftDetailsPage
  <2>3. stack' = [stack EXCEPT ![s] = [stack[s] EXCEPT ![call.at] = page]]
    BY <1>0, <1>4
  <2> HIDE DEF page, data, call
  <2>4. QED
    BY <1>1, <1>2, <2>1, <2>2, <2>3, WriteBackOnPageInv
<1>5. QED
  BY <1>3, <1>4

LEMMA RemoveAnsweredInv ==
  ASSUME IInv, NEW s \in Session, NEW i \in DOMAIN calls[s], RemoveAnswered(s, i)
  PROVE  IInv'
<1> DEFINE call == calls[s][i]
           doc  == View(s, call.uid)
           data == WithoutNft(doc, call.index)
           page == [stack[s][call.at] EXCEPT !.isChange = TRUE]
<1>1. /\ doc # NoDoc /\ call.op = "remove" /\ call.index \in DOMAIN doc.NFT
      /\ WriteBack(s, i, data)
  BY DEF RemoveAnswered, AnsweredWith
<1>0. stack' = IF call.at = 0 THEN stack
              ELSE [stack EXCEPT ![s] = [stack[s] EXCEPT ![call.at] = page]]
  BY DEF RemoveAnswered, WithPage
<1>2. data \in Doc
  BY <1>1, CallAt, WithoutNftType
<1>3. CASE call.at = 0
  BY <1>0, <1>1, <1>2, <1>3, WriteBackInv
<1>4. CASE call.at # 0
  <2>1. /\ call.at \in DOMAIN stack[s] /\ stack[s][call.at].kind = "details"
        /\ stack[s][call.at] \in NftDetailsPage
    BY <1>1, <1>4, ItemCallPage
  <2>2. page \in NftDetailsPage /\ page.uid = stack[s][call.at].uid
    BY <2>1 DEF NftDetailsPage
  <2>3. stack' = [stack EXCEPT ![s] = [stack[s] EXCEPT ![call.at] = page]]
    BY <1>0, <1>4
  <2> HIDE DEF page, data, call
  <2>4. QED
    BY <1>1, <1>2, <2>1, <2>2, <2>3, WriteBackOnPageInv
<1>5. QED
  BY <1>3, <1>4

(* The add page is the top page when its handler goes on, and pops itself. *)
LEMMA AddAnsweredInv ==
  ASSUME IInv, NEW s \in Session, NEW i \in DOMAIN calls[s], NEW n \in Art,
         AddAnswered(s, i, n)
  PROVE  IInv'
<1> DEFINE call == calls[s][i]
           doc  == View(s, call.uid)
           data == WithNft(doc, n)
           p    == Len(stack[s])
           cs   == RemoveAt(calls[s], i)
           ws   == Queued(s, i, data)
           new  == Popped(stack[s], TRUE)
<1>1. doc # NoDoc /\ call.op = "add"
  BY DEF AddAnswered, AnsweredWith
<1>2. data \in Doc
  BY <1>1, CallAt, WithNftType
<1>3. CASE call.at = 0
  BY <1>2, <1>3, WriteBackInv DEF AddAnswered
<1>4. CASE call.at # 0
  <2>1. /\ stack'   = [stack EXCEPT ![s] = new]
        /\ calls'   = [calls EXCEPT ![s] = Orphaned(cs, p)]
        /\ pending' = [pending EXCEPT ![s] = ws]
        /\ users' = users /\ registered' = registered
    BY <1>4 DEF AddAnswered
  <2>2. call.at \in DOMAIN stack[s] /\ stack[s][call.at].kind = "add"
    BY <1>1, <1>4, CallAt DEF OwnedBy, OwnerKind
  <2>3. TabOK(stack[s], calls[s], pending[s])
    BY TabOfIInv
  <2>4. call.at = p /\ p > 1
    BY <2>2, <2>3 DEF TabOK, PagesOK, LeavesIn
  <2>5. p \in Nat
    BY TopPage
  <2>6. WritesOK(stack[s], ws) /\ CallsOK(stack[s], cs)
    BY <1>2, QueuedOK
  <2>7. /\ PagesOK(new)
        /\ \A work : OwnedBy(stack[s], work) /\ work.at # p => OwnedBy(new, work)
    BY <2>2, <2>3, <2>4, PagePopped DEF TabOK
  <2> HIDE DEF new, cs, ws
  <2>8. CallsOK(new, Orphaned(cs, p))
    BY <2>5, <2>6, <2>7, <2>3, WorkOrphaned DEF TabOK
  (* No write awaits an answer on the add page. *)
  <2>9. WritesOK(new, ws)
    <3>1. ASSUME NEW j \in DOMAIN ws PROVE OwnedBy(new, ws[j])
      <4>1. ws[j].at = p => FALSE
        BY <2>2, <2>4, <2>5, <2>6 DEF WritesOK, OwnedBy, OwnerKind
      <4>2. QED
        BY <4>1, <2>6, <2>7 DEF WritesOK
    <3>2. QED
      BY <2>6, <3>1 DEF WritesOK
  <2>10. TabOK(new, Orphaned(cs, p), ws)
    BY <2>7, <2>8, <2>9 DEF TabOK
  <2>11. users' \in [Uid -> Doc \cup {NoDoc}] /\ registered' \in SUBSET Uid
    BY <2>1, IInvFunctions
  <2> HIDE DEF p
  <2>12. QED
    BY <2>1, <2>10, <2>11, TabStep
<1>5. QED
  BY <1>3, <1>4

LEMMA CallThrowsInv ==
  ASSUME IInv, NEW s \in Session, NEW i \in DOMAIN calls[s], CallThrows(s, i)
  PROVE  IInv'
<1> DEFINE cs == RemoveAt(calls[s], i)
<1>1. /\ calls' = [calls EXCEPT ![s] = cs] /\ users' = users
      /\ registered' = registered /\ stack' = stack /\ pending' = pending
  BY DEF CallThrows
<1>2. TabOK(stack[s], cs, pending[s])
  BY TabOfIInv, CallEnded DEF TabOK
<1> HIDE DEF cs
<1>3. QED
  BY ZenonT(60), <1>1, <1>2, IInvFunctions, OneTabStep

-----------------------------------------------------------------------------
(* Writes that are stored, the end of a tab, the wallet app.               *)

LEMMA CommitInv ==
  ASSUME IInv, NEW s \in Session, Commit(s)
  PROVE  IInv'
<1> DEFINE w     == Head(pending[s])
           rest  == Tail(pending[s])
           owner == stack[s][w.at]
           continues == Accepted(users, w) /\ w.at # 0
<1>1. TabOK(stack[s], calls[s], pending[s]) /\ pending[s] # <<>>
  BY TabOfIInv DEF Commit
<1>2. /\ WritesOK(stack[s], rest) /\ w \in Write /\ OwnedBy(stack[s], w)
      /\ w.at # 0 => w.op \in {"role", "delete"}
  BY <1>1, WriteEnded DEF TabOK
<1>3. users' = Written(users, w) /\ registered' = registered
  BY DEF Commit
<1>4. users' \in [Uid -> Doc \cup {NoDoc}] /\ registered' \in SUBSET Uid
  BY <1>2, <1>3, WrittenType, IInvFunctions
<1>5. ASSUME continues
      PROVE  /\ w.at \in DOMAIN stack[s] /\ owner.kind = "main"
             /\ Main(owner.user, owner.role) \in MainPage
  <2>1. w.at \in DOMAIN stack[s] /\ owner.kind = "main"
    BY <1>2, <1>5 DEF OwnedBy, OwnerKind
  <2>2. owner \in MainPage
    BY <2>1, PageAt, PageKinds
  <2>3. QED
    BY <2>1, <2>2 DEF Main, MainPage
<1>6. CASE continues /\ w.op = "role"
  <2>1. PushReplacement(s, Main(owner.user, owner.role), rest)
    BY <1>6 DEF Commit, RoleStored
  <2>2. QED
    BY <1>2, <1>3, <1>4, <1>5, <1>6, <2>1, PushReplacementInv
<1>7. CASE continues /\ w.op = "delete"
  <2> DEFINE page == Main(owner.user, owner.role)
             new  == [stack[s] EXCEPT ![w.at] = page]
  <2>1. /\ stack' = [stack EXCEPT ![s] = new] /\ calls' = calls
        /\ pending' = [pending EXCEPT ![s] = rest]
    BY SMTT(40), <1>7 DEF Commit, WithPage
  <2>2. page \in Page /\ page.kind = "main"
    BY ZenonT(60), <1>5, <1>7 DEF Page, MainPage
  <2>3. PagesOK(new) /\ \A work : OwnedBy(stack[s], work) => OwnedBy(new, work)
    BY <1>1, <1>5, <1>7, <2>2, PageRebuilt DEF TabOK
  <2>4. calls' = [calls EXCEPT ![s] = calls[s]]
    BY <2>1, IInvFunctions
  <2> HIDE DEF new, rest
  <2>5. TabOK(new, calls[s], rest)
    BY <1>1, <1>2, <2>3 DEF TabOK, CallsOK, WritesOK
  <2>6. QED
    BY <1>4, <2>1, <2>4, <2>5, TabStep
<1>8. CASE ~(continues /\ w.op \in {"role", "delete"})
  <2>1. stack' = stack /\ calls' = calls /\ pending' = [pending EXCEPT ![s] = rest]
    BY <1>8 DEF Commit
  <2>2. /\ calls' = [calls EXCEPT ![s] = calls[s]]
        /\ stack' = [stack EXCEPT ![s] = stack[s]]
    BY <2>1, IInvFunctions
  <2> HIDE DEF rest
  <2>3. TabOK(stack[s], calls[s], rest)
    BY <1>1, <1>2 DEF TabOK
  <2>4. QED
    BY <1>4, <2>1, <2>2, <2>3, TabStep
<1>9. QED
  BY <1>6, <1>7, <1>8

(* A tab that shows the login page and has nothing in flight.              *)
LEMMA FreshTab == TabOK(<<Login>>, <<>>, <<>>)
<1>1. Login \in Page /\ Login.kind = "login"
  BY DEF Login, LoginPage, Page
<1>2. <<Login>> \in Seq(Page) /\ Len(<<Login>>) = 1 /\ <<Login>>[1] = Login
  BY <1>1
<1>3. PagesOK(<<Login>>)
  BY <1>1, <1>2 DEF PagesOK, LeavesIn
<1>4. CallsOK(<<Login>>, <<>>) /\ WritesOK(<<Login>>, <<>>)
  BY EmptySeq DEF CallsOK, WritesOK
<1>5. QED
  BY <1>3, <1>4 DEF TabOK

LEMMA CloseTabInv ==
  ASSUME IInv, NEW s \in Session, CloseTab(s)
  PROVE  IInv'
<1>1. /\ stack' = [stack EXCEPT ![s] = <<Login>>]
      /\ calls' = [calls EXCEPT ![s] = <<>>]
      /\ pending' = [pending EXCEPT ![s] = <<>>]
      /\ users' = users /\ registered' = registered
  BY DEF CloseTab
<1>2. users' \in [Uid -> Doc \cup {NoDoc}] /\ registered' \in SUBSET Uid
  BY <1>1, IInvFunctions
<1>3. QED
  BY <1>1, <1>2, FreshTab, TabStep

LEMMA NewDocType == NewDoc \in Doc
  BY EmptySeq DEF NewDoc, Doc, Role

LEMMA WalletsInv ==
  ASSUME IInv, Wallets
  PROVE  IInv'
<1>1. stack' = stack /\ calls' = calls /\ pending' = pending
  BY DEF Wallets, Register, Upload
<1>2. registered' \in SUBSET Uid
  BY DEF Wallets, Register, Upload, IInv, TypeOK
<1>3. users' \in [Uid -> Doc \cup {NoDoc}]
  <2>1. ASSUME NEW u \in Uid, Register(u) PROVE users' \in [Uid -> Doc \cup {NoDoc}]
    BY <2>1, NewDocType DEF Register, IInv, TypeOK
  <2>2. ASSUME NEW u \in Uid, NEW n \in NftOf[u], Upload(u, n)
        PROVE  users' \in [Uid -> Doc \cup {NoDoc}]
    <3>1. users[u] \in Doc /\ n \in Art
      BY <2>2, ArtOfUser DEF Upload, IInv, TypeOK
    <3>2. WithNft(users[u], n) \in Doc
      BY <3>1, WithNftType
    <3>3. QED
      BY <2>2, <3>2 DEF Upload, IInv, TypeOK
  <2>3. QED
    BY <2>1, <2>2 DEF Wallets
<1>4. QED
  BY <1>1, <1>2, <1>3 DEF IInv, TypeOK, LeavesOnTheirList, HandlersOwnTheirPage

-----------------------------------------------------------------------------
LEMMA InitInv == Init => IInv
<1> SUFFICES ASSUME Init PROVE IInv
  OBVIOUS
<1>1. \A s \in Session : TabOK(stack[s], calls[s], pending[s])
  BY FreshTab DEF Init
<1>2. users \in [Uid -> Doc \cup {NoDoc}] /\ registered \in SUBSET Uid
  BY SeededAssumption DEF Init
<1>3. TypeOK
  <2>1. /\ DOMAIN stack = Session /\ DOMAIN calls = Session
        /\ DOMAIN pending = Session
    BY DEF Init
  <2>2. /\ stack \in [Session -> Seq(Page)] /\ calls \in [Session -> Seq(Call)]
        /\ pending \in [Session -> Seq(Write)]
        /\ \A s \in Session : stack[s] # <<>>
    <3>1. /\ stack = [s \in Session |-> stack[s]]
          /\ calls = [s \in Session |-> calls[s]]
          /\ pending = [s \in Session |-> pending[s]]
      BY DEF Init
    <3>2. QED
      BY <1>1, <3>1 DEF TabOK, PagesOK, CallsOK, WritesOK
  <2>3. QED
    BY <1>2, <2>2 DEF TypeOK
<1>4. LeavesOnTheirList /\ HandlersOwnTheirPage
  BY <1>1 DEF LeavesOnTheirList, HandlersOwnTheirPage, TabOK, PagesOK, CallsOK,
              WritesOK
<1>5. QED
  BY <1>3, <1>4 DEF IInv

LEMMA PersonInv ==
  ASSUME IInv, NEW s \in Session, Person(s)
  PROVE  IInv'
<1>1. ASSUME NEW u \in Uid, SignIn(s, u) \/ PressDelete(s, u) \/ OpenNfts(s, u)
      PROVE  IInv'
  BY <1>1, SignInInv, PressDeleteInv, OpenNftsInv
<1>2. ASSUME NEW u \in Uid, NEW r \in Grants, PressRole(s, u, r) PROVE IInv'
  BY <1>2, PressRoleInv
<1>3. ASSUME NEW i \in 1..MaxNfts, OpenDetails(s, i) PROVE IInv'
  BY <1>3, OpenDetailsInv
<1>4. ASSUME NEW result \in BOOLEAN, Back(s, result) PROVE IInv'
  BY <1>4, BackInv
<1>5. ASSUME NEW op \in {"edit", "remove"}, PressItem(s, op) PROVE IInv'
  BY <1>5, PressItemInv
<1>6. CASE PressAdd(s) \/ OpenAdd(s) \/ Logout(s) \/ CloseTab(s)
  BY <1>6, PressAddInv, OpenAddInv, LogoutInv, CloseTabInv
<1>7. QED
  BY <1>1, <1>2, <1>3, <1>4, <1>5, <1>6 DEF Person

LEMMA AnswersInv ==
  ASSUME IInv, NEW s \in Session, LoginSettles(s) \/ PageSettles(s) \/ CallSettles(s)
  PROVE  IInv'
<1>1. CASE LoginSettles(s)
  BY <1>1, LoginAnsweredInv, LoginFailedInv DEF LoginSettles
<1>2. ASSUME NEW p \in DOMAIN stack[s],
             \/ ListAnswered(s, p) \/ ListFailed(s, p) \/ RefreshAnswered(s, p)
             \/ RefreshShown(s, p) \/ RefreshFailed(s, p)
      PROVE  IInv'
  BY <1>2, ListAnsweredInv, ListFailedInv, RefreshAnsweredInv, RefreshSettledInv
<1>3. ASSUME NEW i \in DOMAIN calls[s],
             RoleAnswered(s, i) \/ RemoveAnswered(s, i) \/ CallThrows(s, i)
      PROVE  IInv'
  BY <1>3, RoleAnsweredInv, RemoveAnsweredInv, CallThrowsInv
<1>4. ASSUME NEW i \in DOMAIN calls[s], NEW n \in Art,
             AddAnswered(s, i, n) \/ EditAnswered(s, i, n)
      PROVE  IInv'
  BY <1>4, AddAnsweredInv, EditAnsweredInv
<1>5. QED
  BY <1>1, <1>2, <1>3, <1>4 DEF PageSettles, CallSettles

LEMMA NextInv == IInv /\ [Next]_vars => IInv'
<1> SUFFICES ASSUME IInv, [Next]_vars PROVE IInv'
  OBVIOUS
<1>1. CASE UNCHANGED vars
  BY <1>1 DEF vars, IInv, TypeOK, LeavesOnTheirList, HandlersOwnTheirPage
<1>2. CASE Wallets
  BY <1>2, WalletsInv
<1>3. ASSUME NEW s \in Session, Tab(s) PROVE IInv'
  BY <1>3, PersonInv, AnswersInv, CommitInv DEF Tab
<1>4. QED
  BY <1>1, <1>2, <1>3 DEF Next

(* Every reachable state is well formed.                                   *)
THEOREM TypeCorrect == Spec => []TypeOK
<1>1. IInv => TypeOK
  BY DEF IInv
<1>2. QED
  BY <1>1, InitInv, NextInv, PTL DEF Spec

(* A result popped off the Navigator always reaches the NFT page of the    *)
(* same user, whatever replaced which page meanwhile.                      *)
THEOREM LeavesStayOnTheirList == Spec => []LeavesOnTheirList
<1>1. IInv => LeavesOnTheirList
  BY DEF IInv
<1>2. QED
  BY <1>1, InitInv, NextInv, PTL DEF Spec

(* Code after an await meets the page it was started on or none.           *)
THEOREM HandlersKeepTheirPage == Spec => []HandlersOwnTheirPage
<1>1. IInv => HandlersOwnTheirPage
  BY DEF IInv
<1>2. QED
  BY <1>1, InitInv, NextInv, PTL DEF Spec

-----------------------------------------------------------------------------
(* The wallets of different users never mix, for any number of users, NFTs *)
(* and tabs.  Stored documents alone are not enough for the induction: a   *)
(* queued write must hold NFTs of the user it is addressed to, because it  *)
(* is stored after the handler, and the page it came from, are gone.       *)

WritesSeparate(ws) ==
  \A i \in DOMAIN ws : ws[i].data \in WalletOf(ws[i].uid) \cup {NoDoc}

Separate ==
  /\ \A u \in Uid : users[u] \in WalletOf(u) \cup {NoDoc}
  /\ \A s \in Session : WritesSeparate(pending[s])

-----------------------------------------------------------------------------
(* The operations on a document and on the queue.                          *)

LEMMA WalletOperations ==
  ASSUME NEW u \in Uid, NEW d \in WalletOf(u)
  PROVE  /\ \A r \in Role : WithRole(d, r) \in WalletOf(u)
         /\ \A n \in NftOf[u] : WithNft(d, n) \in WalletOf(u)
         /\ \A i \in DOMAIN d.NFT, n \in NftOf[u] : EditedNft(d, i, n) \in WalletOf(u)
         /\ \A i \in DOMAIN d.NFT : WithoutNft(d, i) \in WalletOf(u)
<1>1. d.NFT \in Seq(NftOf[u])
  BY DEF WalletOf
<1>2. ASSUME NEW r \in Role PROVE WithRole(d, r) \in WalletOf(u)
  BY DEF WithRole, WalletOf
<1>3. ASSUME NEW n \in NftOf[u] PROVE WithNft(d, n) \in WalletOf(u)
  <2>1. Append(d.NFT, n) \in Seq(NftOf[u])
    BY <1>1, AppendType
  <2>2. QED
    BY <2>1 DEF WithNft, WalletOf
<1>4. ASSUME NEW i \in DOMAIN d.NFT, NEW n \in NftOf[u]
      PROVE  EditedNft(d, i, n) \in WalletOf(u)
  <2>1. [d.NFT EXCEPT ![i] = n] \in Seq(NftOf[u])
    BY <1>1, ReplaceAtType
  <2>2. QED
    BY <2>1 DEF EditedNft, ReplaceAt, WalletOf
<1>5. ASSUME NEW i \in DOMAIN d.NFT PROVE WithoutNft(d, i) \in WalletOf(u)
  <2>1. RemoveAt(d.NFT, i) \in Seq(NftOf[u])
    BY <1>1, RemoveAtType
  <2>2. QED
    BY <2>1 DEF WithoutNft, WalletOf
<1>6. QED
  BY <1>2, <1>3, <1>4, <1>5

LEMMA OrphanedSeparate ==
  ASSUME NEW ws \in Seq(Write), WritesSeparate(ws), NEW p \in Nat
  PROVE  WritesSeparate(Orphaned(ws, p))
<1>1. ASSUME NEW i \in DOMAIN ws
      PROVE  /\ Orphaned(ws, p)[i].data = ws[i].data
             /\ Orphaned(ws, p)[i].uid = ws[i].uid
  <2>1. ws[i] \in Write
    BY ElementOfSeq, LenProperties
  <2>2. QED
    BY <2>1 DEF Orphaned, Write
<1>2. DOMAIN Orphaned(ws, p) = DOMAIN ws
  BY DEF Orphaned
<1>3. QED
  BY <1>1, <1>2 DEF WritesSeparate

LEMMA AppendSeparate ==
  ASSUME NEW ws \in Seq(Write), WritesSeparate(ws), NEW w \in Write,
         w.data \in WalletOf(w.uid) \cup {NoDoc}
  PROVE  WritesSeparate(Append(ws, w))
<1>1. DOMAIN ws = 1..Len(ws) /\ Len(ws) \in Nat
  BY LenProperties
<1>2. QED
  BY <1>1, AppendType DEF WritesSeparate

LEMMA TailSeparate ==
  ASSUME NEW ws \in Seq(Write), WritesSeparate(ws), ws # <<>>
  PROVE  /\ WritesSeparate(Tail(ws)) /\ Tail(ws) \in Seq(Write)
         /\ Head(ws) \in Write
         /\ Head(ws).data \in WalletOf(Head(ws).uid) \cup {NoDoc}
  BY TailType DEF WritesSeparate

LEMMA ViewSeparate ==
  ASSUME IInv, Separate, NEW s \in Session, NEW u \in Uid
  PROVE  View(s, u) \in WalletOf(u) \cup {NoDoc}
<1> DEFINE ws == pending[s]
           k  == CHOOSE j \in DOMAIN ws : IsLastWrite(ws, u, j)
<1>1. WritesSeparate(ws) /\ users[u] \in WalletOf(u) \cup {NoDoc}
  BY DEF Separate
<1>2. CASE \E j \in DOMAIN ws : IsLastWrite(ws, u, j)
  <2>1. k \in DOMAIN ws /\ IsLastWrite(ws, u, k)
    BY <1>2
  <2>2. ws[k].uid = u
    BY <2>1 DEF IsLastWrite
  <2>3. ws[k].data \in WalletOf(u) \cup {NoDoc}
    BY <1>1, <2>1, <2>2 DEF WritesSeparate
  <2>4. QED
    BY <1>1, <2>3 DEF View, ViewThrough
<1>3. CASE ~\E j \in DOMAIN ws : IsLastWrite(ws, u, j)
  BY <1>1, <1>3 DEF View, ViewThrough
<1>4. QED
  BY <1>2, <1>3

-----------------------------------------------------------------------------
(* Steps by what they do to the queue of one tab.                          *)

LEMMA QueueStep ==
  ASSUME IInv, Separate, NEW s \in Session, NEW ws, WritesSeparate(ws),
         \A u \in Uid : users'[u] \in WalletOf(u) \cup {NoDoc},
         pending' = [pending EXCEPT ![s] = ws]
  PROVE  Separate'
<1>1. ASSUME NEW t \in Session PROVE WritesSeparate(pending'[t])
  <2>1. pending'[t] = IF t = s THEN ws ELSE pending[t]
    BY DEF IInv, TypeOK
  <2>2. QED
    BY <2>1 DEF Separate
<1>2. QED
  BY <1>1 DEF Separate, WritesSeparate

LEMMA QueueOf ==
  ASSUME IInv, Separate, NEW s \in Session
  PROVE  /\ pending[s] \in Seq(Write) /\ WritesSeparate(pending[s])
         /\ \A u \in Uid : users[u] \in WalletOf(u) \cup {NoDoc}
         /\ Len(stack[s]) \in Nat
  BY TopPage DEF IInv, TypeOK, Separate

LEMMA OrphaningSteps ==
  ASSUME IInv, Separate, NEW s \in Session,
         LoginAnswered(s) \/ Logout(s) \/ \E result \in BOOLEAN : Back(s, result)
  PROVE  Separate'
<1>1. /\ users' = users
      /\ pending' = [pending EXCEPT ![s] = Orphaned(pending[s], Len(stack[s]))]
  BY DEF LoginAnswered, Logout, Back, PushReplacement
<1>2. WritesSeparate(Orphaned(pending[s], Len(stack[s])))
  BY QueueOf, OrphanedSeparate
<1>3. QED
  BY <1>1, <1>2, QueueOf, QueueStep

LEMMA DeleteStep ==
  ASSUME IInv, Separate, NEW s \in Session, NEW v \in Uid, PressDelete(s, v)
  PROVE  Separate'
<1> DEFINE w == [op |-> "delete", uid |-> v, data |-> NoDoc, at |-> Len(stack[s])]
<1>1. users' = users /\ pending' = [pending EXCEPT ![s] = Append(pending[s], w)]
  BY DEF PressDelete
<1>2. w \in Write /\ w.data = NoDoc
  BY QueueOf DEF Write
<1> HIDE DEF w
<1>3. WritesSeparate(Append(pending[s], w))
  BY <1>2, QueueOf, AppendSeparate
<1>4. QED
  BY <1>1, <1>3, QueueOf, QueueStep

(* A handler writes back, under the uid it read, what it read, changed.    *)
LEMMA QueuedStep ==
  ASSUME IInv, Separate, NEW s \in Session, NEW i \in DOMAIN calls[s],
         NEW data \in WalletOf(calls[s][i].uid),
         users' = users, pending' = [pending EXCEPT ![s] = Queued(s, i, data)]
  PROVE  Separate'
<1> DEFINE call == calls[s][i]
           w    == [op |-> call.op, uid |-> call.uid, data |-> data,
                    at |-> IF call.op = "role" THEN call.at ELSE 0]
<1>1. call \in Call /\ call.uid \in Uid
  BY CallAt
<1>2. data \in Doc
  <2>1. NftOf[call.uid] \subseteq Art
    BY <1>1, ArtOfUser
  <2>2. data.NFT \in Seq(Art)
    BY <2>1, SeqMonotonic DEF WalletOf
  <2>3. QED
    BY <2>2 DEF WalletOf, Doc
<1>3. w \in Write /\ w.data \in WalletOf(w.uid)
  BY <1>1, <1>2, CallKinds DEF Write
<1>4. Queued(s, i, data) = Append(pending[s], w)
  BY DEF Queued
<1> HIDE DEF w
<1>5. WritesSeparate(Append(pending[s], w))
  BY <1>3, QueueOf, AppendSeparate
<1>6. QED
  BY <1>4, <1>5, QueueOf, QueueStep

LEMMA AnswerStep ==
  ASSUME IInv, Separate, NEW s \in Session, NEW i \in DOMAIN calls[s],
         \/ RoleAnswered(s, i) \/ RemoveAnswered(s, i)
         \/ \E n \in Art : AddAnswered(s, i, n) \/ EditAnswered(s, i, n)
  PROVE  Separate'
<1> DEFINE call == calls[s][i]
           doc  == View(s, call.uid)
<1>1. call.uid \in Uid /\ doc # NoDoc
  BY CallAt DEF RoleAnswered, RemoveAnswered, AddAnswered, EditAnswered, AnsweredWith
<1>2. doc \in WalletOf(call.uid)
  BY <1>1, ViewSeparate
<1>3. ASSUME RoleAnswered(s, i) PROVE Separate'
  <2>1. call.role \in Role
    BY <1>3, CallAt, CallKinds DEF RoleAnswered, AnsweredWith, RoleCall
  <2>2. WithRole(doc, call.role) \in WalletOf(call.uid)
    BY <1>1, <1>2, <2>1, WalletOperations
  <2>3. /\ users' = users
        /\ pending' = [pending EXCEPT ![s] = Queued(s, i, WithRole(doc, call.role))]
    BY <1>3 DEF RoleAnswered, WriteBack
  <2>4. QED
    BY <2>2, <2>3, QueuedStep
<1>4. ASSUME RemoveAnswered(s, i) PROVE Separate'
  <2>1. call.index \in DOMAIN doc.NFT
    BY <1>4 DEF RemoveAnswered
  <2>2. WithoutNft(doc, call.index) \in WalletOf(call.uid)
    BY <1>1, <1>2, <2>1, WalletOperations
  <2>3. /\ users' = users
        /\ pending' = [pending EXCEPT ![s] = Queued(s, i, WithoutNft(doc, call.index))]
    BY <1>4 DEF RemoveAnswered, WriteBack
  <2>4. QED
    BY <2>2, <2>3, QueuedStep
<1>5. ASSUME NEW n \in Art, EditAnswered(s, i, n) PROVE Separate'
  <2>1. call.index \in DOMAIN doc.NFT /\ n \in NftOf[call.uid]
    BY <1>5 DEF EditAnswered
  <2>2. EditedNft(doc, call.index, n) \in WalletOf(call.uid)
    BY SMTT(40), <1>1, <1>2, <2>1, WalletOperations
  <2>3. /\ users' = users
        /\ pending' = [pending EXCEPT ![s] = Queued(s, i, EditedNft(doc, call.index, n))]
    BY <1>5 DEF EditAnswered, WriteBack
  <2>4. QED
    BY <2>2, <2>3, QueuedStep
<1>6. ASSUME NEW n \in Art, AddAnswered(s, i, n) PROVE Separate'
  <2>1. n \in NftOf[call.uid]
    BY <1>6 DEF AddAnswered
  <2>2. WithNft(doc, n) \in WalletOf(call.uid)
    BY <1>1, <1>2, <2>1, WalletOperations
  <2>3. /\ users' = users
        /\ pending' = [pending EXCEPT ![s] = Queued(s, i, WithNft(doc, n))]
    BY <1>6 DEF AddAnswered, WriteBack
  <2>4. QED
    BY <2>2, <2>3, QueuedStep
<1>7. QED
  BY SMTT(40), <1>3, <1>4, <1>5, <1>6

LEMMA CommitStep ==
  ASSUME IInv, Separate, NEW s \in Session, Commit(s)
  PROVE  Separate'
<1> DEFINE w    == Head(pending[s])
           rest == Tail(pending[s])
<1>1. pending[s] # <<>> /\ users' = Written(users, w)
  BY DEF Commit
<1>2. /\ WritesSeparate(rest) /\ rest \in Seq(Write) /\ w \in Write
      /\ w.data \in WalletOf(w.uid) \cup {NoDoc}
  BY <1>1, QueueOf, TailSeparate
<1>3. \A u \in Uid : users'[u] \in WalletOf(u) \cup {NoDoc}
  BY <1>1, <1>2, QueueOf DEF Written, Write, IInv, TypeOK
<1>4. \/ pending' = [pending EXCEPT ![s] = rest]
      \/ pending' = [pending EXCEPT ![s] = Orphaned(rest, Len(stack[s]))]
  BY DEF Commit, RoleStored, PushReplacement
<1>5. WritesSeparate(Orphaned(rest, Len(stack[s])))
  BY <1>2, QueueOf, OrphanedSeparate
<1> HIDE DEF rest
<1>6. QED
  BY <1>2, <1>3, <1>4, <1>5, QueueStep

LEMMA CloseTabStep ==
  ASSUME IInv, Separate, NEW s \in Session, CloseTab(s)
  PROVE  Separate'
<1>1. WritesSeparate(<<>>)
  BY EmptySeq DEF WritesSeparate
<1>2. users' = users /\ pending' = [pending EXCEPT ![s] = <<>>]
  BY DEF CloseTab
<1>3. QED
  BY <1>1, <1>2, QueueOf, QueueStep

LEMMA WalletsStep ==
  ASSUME IInv, Separate, Wallets
  PROVE  Separate'
<1>1. pending' = pending
  BY DEF Wallets, Register, Upload
<1>2. \A u \in Uid : users'[u] \in WalletOf(u) \cup {NoDoc}
  <2>1. ASSUME NEW v \in Uid, Register(v), NEW u \in Uid
        PROVE  users'[u] \in WalletOf(u) \cup {NoDoc}
    <3>1. NewDoc \in WalletOf(u)
      BY EmptySeq DEF NewDoc, WalletOf, Role
    <3>2. users'[u] = NewDoc \/ users'[u] = users[u]
      BY <2>1 DEF Register, IInv, TypeOK
    <3>3. QED
      BY <3>1, <3>2 DEF Separate
  <2>2. ASSUME NEW v \in Uid, NEW n \in NftOf[v], Upload(v, n), NEW u \in Uid
        PROVE  users'[u] \in WalletOf(u) \cup {NoDoc}
    <3>1. users[v] \in WalletOf(v)
      BY <2>2 DEF Upload, Separate
    <3>2. WithNft(users[v], n) \in WalletOf(v)
      BY <3>1, WalletOperations
    <3>3. users'[u] = IF u = v THEN WithNft(users[v], n) ELSE users[u]
      BY <2>2 DEF Upload, IInv, TypeOK
    <3>4. QED
      BY <3>2, <3>3 DEF Separate
  <2>3. QED
    BY <2>1, <2>2 DEF Wallets
<1>3. QED
  BY <1>1, <1>2 DEF Separate, WritesSeparate

(* Every other step leaves documents and queues alone.                     *)
LEMMA QuietSteps ==
  ASSUME IInv, Separate, NEW s \in Session,
         \/ \E u \in Uid : SignIn(s, u) \/ OpenNfts(s, u)
         \/ \E u \in Uid, r \in Grants : PressRole(s, u, r)
         \/ \E i \in 1..MaxNfts : OpenDetails(s, i)
         \/ \E op \in {"edit", "remove"} : PressItem(s, op)
         \/ PressAdd(s) \/ OpenAdd(s) \/ LoginFailed(s) \/ PageSettles(s)
         \/ \E i \in DOMAIN calls[s] : CallThrows(s, i)
  PROVE  Separate'
<1>1. users' = users /\ pending' = pending
  BY DEF SignIn, OpenNfts, PressRole, OpenDetails, PressItem, PressAdd, OpenAdd,
         LoginFailed, PageSettles, ListAnswered, ListFailed, RefreshAnswered,
         RefreshShown, RefreshFailed, CallThrows, Rebuild, Push, StartCall
<1>2. QED
  BY SMTT(40), <1>1 DEF Separate, WritesSeparate

-----------------------------------------------------------------------------
LEMMA SeparateInit == Init => Separate
  BY EmptySeq, SeededAssumption DEF Init, Separate, WritesSeparate

LEMMA SeparateNext == IInv /\ Separate /\ [Next]_vars => Separate'
<1> SUFFICES ASSUME IInv, Separate, [Next]_vars PROVE Separate'
  OBVIOUS
<1>1. CASE UNCHANGED vars
  BY <1>1 DEF vars, Separate, WritesSeparate
<1>2. CASE Wallets
  BY <1>2, WalletsStep
<1>3. ASSUME NEW s \in Session, Tab(s) PROVE Separate'
  <2>1. CASE Person(s)
    BY <2>1, OrphaningSteps, DeleteStep, CloseTabStep, QuietSteps DEF Person
  <2>2. CASE LoginSettles(s) \/ PageSettles(s)
    BY <2>2, OrphaningSteps, QuietSteps DEF LoginSettles
  <2>3. CASE CallSettles(s)
    BY <2>3, AnswerStep, QuietSteps DEF CallSettles
  <2>4. CASE Commit(s)
    BY <2>4, CommitStep
  <2>5. QED
    BY <1>3, <2>1, <2>2, <2>3, <2>4 DEF Tab
<1>4. QED
  BY <1>1, <1>2, <1>3 DEF Next

(* No handler, late write or upload ever puts an NFT of one user into the  *)
(* wallet of another.                                                      *)
THEOREM WalletsStaySeparate == Spec => []WalletsSeparate
<1>1. Init => IInv /\ Separate
  BY InitInv, SeparateInit
<1>2. Separate => WalletsSeparate
  <2> SUFFICES ASSUME Separate, NEW u \in Uid, users[u] # NoDoc
               PROVE  ToSet(users[u].NFT) \subseteq NftOf[u]
    BY DEF WalletsSeparate
  <2>1. users[u].NFT \in Seq(NftOf[u])
    BY DEF Separate, WalletOf
  <2>2. QED
    BY <2>1, ElementOfSeq, LenProperties DEF ToSet
<1>3. QED
  BY <1>1, <1>2, NextInv, SeparateNext, PTL DEF Spec

-----------------------------------------------------------------------------
(* What a tab reads, as its queue and the documents change.                *)

Deletes(ws, u) == \E k \in DOMAIN ws : ws[k].uid = u /\ ws[k].data = NoDoc
Concerns(ws, u) == \E k \in DOMAIN ws : ws[k].uid = u

(* A queue that concerns a user has a last write for that user, and only   *)
(* one.                                                                    *)
LEMMA LastWriteOf ==
  ASSUME NEW ws \in Seq(Write), NEW u, Concerns(ws, u)
  PROVE  \E k \in DOMAIN ws : IsLastWrite(ws, u, k)
<1> DEFINE T == {k \in DOMAIN ws : ws[k].uid = u}
<1>1. Len(ws) \in Nat /\ DOMAIN ws = 1..Len(ws)
  BY LenProperties
<1>2. T \in SUBSET (1..Len(ws)) /\ T # {}
  BY <1>1 DEF Concerns
<1>3. PICK k \in T : \A j \in T : j <= k
  BY <1>1, <1>2, Greatest
<1>4. QED
  BY <1>3 DEF IsLastWrite

LEMMA LastWriteUnique ==
  ASSUME NEW ws \in Seq(Write), NEW u, NEW k \in DOMAIN ws, IsLastWrite(ws, u, k)
  PROVE  (CHOOSE j \in DOMAIN ws : IsLastWrite(ws, u, j)) = k
<1> DEFINE c == CHOOSE j \in DOMAIN ws : IsLastWrite(ws, u, j)
<1>1. c \in DOMAIN ws /\ IsLastWrite(ws, u, c)
  OBVIOUS
<1>2. DOMAIN ws \subseteq Nat
  BY LenProperties
<1> HIDE DEF c
<1>3. c <= k /\ k <= c
  BY <1>1 DEF IsLastWrite
<1>4. c = k
  BY <1>1, <1>2, <1>3
<1>5. QED
  BY <1>4 DEF c

(* The four things a read can give.                                        *)
LEMMA ViewIs ==
  ASSUME NEW docs, NEW ws \in Seq(Write), NEW u
  PROVE  /\ docs[u] = NoDoc \/ Deletes(ws, u) => ViewThrough(docs, ws, u) = NoDoc
         /\ ~Concerns(ws, u) => ViewThrough(docs, ws, u) = docs[u]
         /\ docs[u] # NoDoc /\ ~Deletes(ws, u) =>
              /\ \A k \in DOMAIN ws : IsLastWrite(ws, u, k) =>
                   ViewThrough(docs, ws, u) = ws[k].data
              /\ ViewThrough(docs, ws, u) # NoDoc
<1>1. docs[u] = NoDoc \/ Deletes(ws, u) => ViewThrough(docs, ws, u) = NoDoc
  BY DEF ViewThrough, Deletes
<1>2. ~Concerns(ws, u) => ViewThrough(docs, ws, u) = docs[u]
  BY DEF ViewThrough, Concerns, IsLastWrite
<1>3. ASSUME docs[u] # NoDoc, ~Deletes(ws, u),
             NEW k \in DOMAIN ws, IsLastWrite(ws, u, k)
      PROVE  ViewThrough(docs, ws, u) = ws[k].data
  BY <1>3, LastWriteUnique DEF ViewThrough, Deletes
<1>4. ASSUME docs[u] # NoDoc, ~Deletes(ws, u)
      PROVE  ViewThrough(docs, ws, u) # NoDoc
  <2>1. CASE Concerns(ws, u)
    <3>1. PICK k \in DOMAIN ws : IsLastWrite(ws, u, k)
      BY <2>1, LastWriteOf
    <3>2. QED
      BY <1>3, <1>4, <3>1 DEF Deletes, IsLastWrite
  <2>2. QED
    BY <1>2, <1>4, <2>1
<1>5. QED
  BY <1>1, <1>2, <1>3, <1>4

(* Only the uids and the data of a queue matter.                           *)
LEMMA ViewOfSame ==
  ASSUME NEW docs, NEW new, NEW ws \in Seq(Write), NEW vs \in Seq(Write), NEW u,
         new[u] = docs[u], DOMAIN vs = DOMAIN ws,
         \A i \in DOMAIN ws : vs[i].uid = ws[i].uid /\ vs[i].data = ws[i].data
  PROVE  ViewThrough(new, vs, u) = ViewThrough(docs, ws, u)
<1>1. /\ Deletes(vs, u) = Deletes(ws, u) /\ Concerns(vs, u) = Concerns(ws, u)
      /\ \A k \in DOMAIN ws : IsLastWrite(vs, u, k) = IsLastWrite(ws, u, k)
  BY DEF Deletes, Concerns, IsLastWrite
<1>2. CASE docs[u] = NoDoc \/ Deletes(ws, u)
  BY <1>1, <1>2, ViewIs
<1>3. CASE ~Concerns(ws, u)
  BY <1>1, <1>3, ViewIs
<1>4. CASE docs[u] # NoDoc /\ ~Deletes(ws, u) /\ Concerns(ws, u)
  <2>1. PICK k \in DOMAIN ws : IsLastWrite(ws, u, k)
    BY <1>4, LastWriteOf
  <2>2. ViewThrough(docs, ws, u) = ws[k].data /\ ViewThrough(new, vs, u) = vs[k].data
    BY <1>1, <1>4, <2>1, ViewIs
  <2>3. QED
    BY <2>1, <2>2
<1>5. QED
  BY <1>2, <1>3, <1>4

(* A write that is queued is read at once, when there is a document.       *)
LEMMA ViewOfAppend ==
  ASSUME NEW docs, NEW ws \in Seq(Write), NEW w \in Write, NEW u
  PROVE  /\ u # w.uid => ViewThrough(docs, Append(ws, w), u) = ViewThrough(docs, ws, u)
         /\ ViewThrough(docs, ws, w.uid) = NoDoc =>
              ViewThrough(docs, Append(ws, w), w.uid) = NoDoc
         /\ ViewThrough(docs, ws, w.uid) # NoDoc =>
              ViewThrough(docs, Append(ws, w), w.uid) = w.data
<1> DEFINE vs == Append(ws, w)
           N  == Len(ws)
<1>1. /\ N \in Nat /\ DOMAIN ws = 1..N /\ vs \in Seq(Write)
      /\ DOMAIN vs = 1..N + 1 /\ vs[N + 1] = w
      /\ \A i \in 1..N : vs[i] = ws[i]
  BY LenProperties, AppendType
<1> HIDE DEF vs, N
<1>2. Deletes(ws, u) => Deletes(vs, u)
  BY <1>1 DEF Deletes
<1>3. Deletes(vs, u) => Deletes(ws, u) \/ (u = w.uid /\ w.data = NoDoc)
  <2> SUFFICES ASSUME NEW i \in 1..N + 1, vs[i].uid = u, vs[i].data = NoDoc
               PROVE  Deletes(ws, u) \/ (u = w.uid /\ w.data = NoDoc)
    BY <1>1 DEF Deletes
  <2>1. CASE i \in 1..N
    BY <1>1, <2>1 DEF Deletes
  <2>2. CASE i = N + 1
    BY <1>1, <2>2
  <2>3. QED
    BY <1>1, <2>1, <2>2
<1>4. IsLastWrite(vs, w.uid, N + 1)
  BY <1>1 DEF IsLastWrite
<1>5. ASSUME u # w.uid
      PROVE  ViewThrough(docs, vs, u) = ViewThrough(docs, ws, u)
  <2>1. CASE docs[u] = NoDoc \/ Deletes(ws, u)
    BY <1>1, <1>2, <2>1, ViewIs
  <2>2. CASE ~Concerns(ws, u)
    <3>1. ~Concerns(vs, u)
      <4> SUFFICES ASSUME NEW i \in 1..N + 1 PROVE vs[i].uid # u
        BY <1>1 DEF Concerns
      <4>1. CASE i \in 1..N
        BY <1>1, <2>2, <4>1 DEF Concerns
      <4>2. CASE i = N + 1
        BY <1>1, <1>5, <4>2
      <4>3. QED
        BY <1>1, <4>1, <4>2
    <3>2. QED
      BY <1>1, <2>2, <3>1, ViewIs
  <2>3. CASE docs[u] # NoDoc /\ ~Deletes(ws, u) /\ Concerns(ws, u)
    <3>1. PICK k \in DOMAIN ws : IsLastWrite(ws, u, k)
      BY <2>3, LastWriteOf
    <3>2. k \in DOMAIN vs /\ IsLastWrite(vs, u, k)
      <4>1. \A j \in DOMAIN vs : j \in DOMAIN ws \/ j = N + 1
        BY <1>1
      <4>2. QED
        BY <1>1, <1>5, <3>1, <4>1 DEF IsLastWrite
    <3>3. ViewThrough(docs, vs, u) = vs[k].data /\ ViewThrough(docs, ws, u) = ws[k].data
      BY <1>1, <1>3, <1>5, <2>3, <3>1, <3>2, ViewIs
    <3>4. QED
      BY <1>1, <3>1, <3>3
  <2>4. QED
    BY <2>1, <2>2, <2>3
<1>6. ASSUME ViewThrough(docs, ws, w.uid) = NoDoc
      PROVE  ViewThrough(docs, vs, w.uid) = NoDoc
  <2>1. docs[w.uid] = NoDoc \/ Deletes(ws, w.uid)
    BY <1>6, ViewIs
  <2>2. Deletes(ws, w.uid) => Deletes(vs, w.uid)
    BY <1>1 DEF Deletes
  <2>3. QED
    BY <1>1, <2>1, <2>2, ViewIs
<1>7. ASSUME ViewThrough(docs, ws, w.uid) # NoDoc
      PROVE  ViewThrough(docs, vs, w.uid) = w.data
  <2>1. docs[w.uid] # NoDoc /\ ~Deletes(ws, w.uid)
    BY <1>7, ViewIs
  <2>2. CASE w.data = NoDoc
    <3>1. Deletes(vs, w.uid)
      BY <1>1, <2>2 DEF Deletes
    <3>2. QED
      BY ZenonT(60), <1>1, <2>2, <3>1, ViewIs
  <2>3. CASE w.data # NoDoc
    <3>1. ~Deletes(vs, w.uid) /\ N + 1 \in DOMAIN vs
      <4> SUFFICES ASSUME NEW i \in 1..N + 1, vs[i].uid = w.uid
                   PROVE  vs[i].data # NoDoc
        BY <1>1 DEF Deletes
      <4>1. CASE i \in 1..N
        BY <1>1, <2>1, <4>1 DEF Deletes
      <4>2. CASE i = N + 1
        BY <1>1, <2>3, <4>2
      <4>3. QED
        BY <1>1, <4>1, <4>2
    <3>2. QED
      BY <1>1, <1>4, <2>1, <3>1, ViewIs
  <2>4. QED
    BY <2>2, <2>3
<1>8. QED
  BY <1>5, <1>6, <1>7 DEF vs

(* Storing the oldest write, or refusing it, changes nothing to be read by *)
(* the tab that queued it.                                                 *)
LEMMA ViewOfCommit ==
  ASSUME NEW docs \in [Uid -> Doc \cup {NoDoc}], NEW ws \in Seq(Write),
         ws # <<>>, NEW u \in Uid
  PROVE  ViewThrough(Written(docs, Head(ws)), Tail(ws), u) = ViewThrough(docs, ws, u)
<1> DEFINE w    == Head(ws)
           rest == Tail(ws)
           new  == Written(docs, w)
           M    == Len(rest)
<1>1. /\ M \in Nat /\ rest \in Seq(Write) /\ DOMAIN rest = 1..M
      /\ DOMAIN ws = 1..M + 1 /\ w = ws[1] /\ w \in Write
      /\ \A i \in 1..M : rest[i] = ws[i + 1]
  <2>1. Len(rest) = Len(ws) - 1
    BY HeadTailProperties
  <2>2. QED
    BY <2>1, TailType, LenProperties
<1>2. \A i \in 1..M + 1 : i = 1 \/ (i - 1 \in 1..M /\ ws[i] = rest[i - 1])
  BY <1>1
<1>3. \A i \in 1..M : i + 1 \in 1..M + 1
  BY <1>1
<1>4. new[u] = IF u = w.uid /\ docs[u] # NoDoc THEN w.data ELSE docs[u]
  BY DEF Written
<1> SUFFICES ViewThrough(new, rest, u) = ViewThrough(docs, ws, u)
  OBVIOUS
<1> HIDE DEF w, rest, new, M
<1>5. Deletes(ws, u) <=> Deletes(rest, u) \/ (w.uid = u /\ w.data = NoDoc)
  <2>1. ASSUME NEW i \in 1..M + 1, ws[i].uid = u, ws[i].data = NoDoc
        PROVE  Deletes(rest, u) \/ (w.uid = u /\ w.data = NoDoc)
    BY <1>1, <1>2, <2>1 DEF Deletes
  <2>2. Deletes(rest, u) => Deletes(ws, u)
    BY <1>1, <1>3 DEF Deletes
  <2>3. w.uid = u /\ w.data = NoDoc => Deletes(ws, u)
    BY <1>1 DEF Deletes
  <2>4. QED
    BY <1>1, <2>1, <2>2, <2>3 DEF Deletes
<1>6. CASE docs[u] = NoDoc \/ Deletes(ws, u)
  <2>1. new[u] = NoDoc \/ Deletes(rest, u)
    BY <1>4, <1>5, <1>6
  <2>2. ViewThrough(new, rest, u) = NoDoc
    BY <1>1, <2>1, ViewIs
  <2>3. ViewThrough(docs, ws, u) = NoDoc
    BY <1>6, ViewIs
  <2>4. QED
    BY <2>2, <2>3
<1>7. CASE docs[u] # NoDoc /\ ~Deletes(ws, u) /\ Concerns(rest, u)
  <2>1. PICK k \in 1..M : IsLastWrite(rest, u, k)
    BY <1>1, <1>7, LastWriteOf
  <2>2. k + 1 \in 1..M + 1 /\ IsLastWrite(ws, u, k + 1) /\ ws[k + 1] = rest[k]
    <3>1. ASSUME NEW j \in 1..M + 1, ws[j].uid = u PROVE j <= k + 1
      <4>1. CASE j = 1
        BY <1>1, <4>1
      <4>2. CASE j # 1
        <5>1. j - 1 \in 1..M /\ rest[j - 1].uid = u
          BY <1>2, <3>1, <4>2
        <5>2. j - 1 <= k
          BY <1>1, <2>1, <5>1 DEF IsLastWrite
        <5>3. QED
          BY <5>2
      <4>3. QED
        BY <4>1, <4>2
    <3>2. QED
      BY <1>1, <1>3, <2>1, <3>1 DEF IsLastWrite
  <2>3. new[u] # NoDoc /\ ~Deletes(rest, u)
    BY <1>4, <1>5, <1>7
  <2>4. ViewThrough(docs, ws, u) = ws[k + 1].data
    BY <1>1, <1>7, <2>2, ViewIs
  <2>5. ViewThrough(new, rest, u) = rest[k].data
    BY <1>1, <2>1, <2>3, ViewIs
  <2>6. QED
    BY <2>2, <2>4, <2>5
<1>8. CASE docs[u] # NoDoc /\ ~Deletes(ws, u) /\ ~Concerns(rest, u)
  <2>1. ViewThrough(new, rest, u) = new[u]
    BY <1>1, <1>8, ViewIs
  <2>2. CASE w.uid = u
    <3>1. IsLastWrite(ws, u, 1) /\ 1 \in 1..M + 1
      <4>1. ASSUME NEW j \in 1..M + 1, ws[j].uid = u PROVE j <= 1
        <5>1. ~(j - 1 \in 1..M /\ ws[j] = rest[j - 1])
          BY <1>1, <1>8, <4>1 DEF Concerns
        <5>2. j = 1
          BY <1>2, <5>1
        <5>3. QED
          BY <5>2
      <4>2. QED
        BY <1>1, <2>2, <4>1 DEF IsLastWrite
    <3>2. ViewThrough(docs, ws, u) = ws[1].data
      BY <1>1, <1>8, <3>1, ViewIs
    <3>3. QED
      BY <1>1, <1>4, <1>8, <2>1, <2>2, <3>2
  <2>3. CASE w.uid # u
    <3>1. ~Concerns(ws, u)
      BY ZenonT(60), <1>1, <1>2, <1>8, <2>3 DEF Concerns
    <3>2. QED
      BY <1>1, <1>4, <2>1, <2>3, <3>1, ViewIs
  <2>4. QED
    BY <2>2, <2>3
<1>9. QED
  BY <1>6, <1>7, <1>8

LEMMA OrphanedViews ==
  ASSUME NEW docs, NEW ws \in Seq(Write), NEW p \in Nat, NEW u
  PROVE  ViewThrough(docs, Orphaned(ws, p), u) = ViewThrough(docs, ws, u)
<1>1. Orphaned(ws, p) \in Seq(Write)
  BY OrphanedWrites
<1>2. DOMAIN Orphaned(ws, p) = DOMAIN ws
  BY DEF Orphaned
<1>3. \A i \in DOMAIN ws : /\ Orphaned(ws, p)[i].uid = ws[i].uid
                           /\ Orphaned(ws, p)[i].data = ws[i].data
  <2>1. \A i \in DOMAIN ws : ws[i] \in Write
    BY ElementOfSeq, LenProperties
  <2>2. QED
    BY <2>1 DEF Orphaned, Write
<1> DEFINE vs == Orphaned(ws, p)
<1> HIDE DEF vs
<1>4. ViewThrough(docs, vs, u) = ViewThrough(docs, ws, u)
  BY SMTT(40), <1>1, <1>2, <1>3, ViewOfSame DEF vs
<1>5. QED
  BY <1>4 DEF vs

-----------------------------------------------------------------------------
(* At a single tab that stays open, every button takes effect at once on   *)
(* what the staff see.  A registration must not meet a write queued for    *)
(* the new user, which would show in the place of the new document: hence  *)
(* the invariant that only a delete can be queued for somebody unknown.    *)

OneOpenTab == Session = {TheTab} /\ TheTab \notin Closers

WritesFor(ws, known) ==
  \A i \in DOMAIN ws : ws[i].data # NoDoc => ws[i].uid \in known

OnlyRegistered ==
  /\ \A u \in Uid : users[u] # NoDoc => u \in registered
  /\ \A s \in Session : WritesFor(pending[s], registered)

AInv == IInv /\ OnlyRegistered

LEMMA QueueOfTab ==
  ASSUME OneOpenTab, IInv
  PROVE  /\ TheTab \in Session /\ pending[TheTab] \in Seq(Write)
         /\ Len(stack[TheTab]) \in Nat
         /\ \A ws : [pending EXCEPT ![TheTab] = ws][TheTab] = ws
<1>1. TheTab \in Session
  BY DEF OneOpenTab
<1>2. QED
  BY <1>1, TopPage DEF IInv, TypeOK

(* What the staff see after a step that changes it nowhere, or for v only. *)
LEMMA SeenStutters ==
  ASSUME \A u \in Uid : ViewThrough(users', pending'[TheTab], u) = View(TheTab, u)
  PROVE  SeenDocs' = SeenDocs
<1>1. SeenDocs' = [u \in Uid |-> ViewThrough(users', pending'[TheTab], u)]
  BY DEF SeenDocs, View, TheTab
<1>2. QED
  BY <1>1 DEF SeenDocs

LEMMA SeenChanges ==
  ASSUME NEW v \in Uid, NEW d,
         \A u \in Uid : ViewThrough(users', pending'[TheTab], u)
                          = IF u = v THEN d ELSE View(TheTab, u)
  PROVE  SeenDocs' = [SeenDocs EXCEPT ![v] = d]
<1>1. SeenDocs' = [u \in Uid |-> ViewThrough(users', pending'[TheTab], u)]
  BY DEF SeenDocs, View, TheTab
<1>2. QED
  BY <1>1 DEF SeenDocs

(* A write that is queued shows at once.                                   *)
LEMMA SeenQueued ==
  ASSUME OneOpenTab, IInv, NEW w \in Write, users' = users,
         pending' = [pending EXCEPT ![TheTab] = Append(@, w)]
  PROVE  SeenDocs' = IF View(TheTab, w.uid) = NoDoc THEN SeenDocs
                     ELSE [SeenDocs EXCEPT ![w.uid] = w.data]
<1> DEFINE ws == pending[TheTab]
<1>1. ws \in Seq(Write) /\ pending'[TheTab] = Append(ws, w) /\ w.uid \in Uid
  BY QueueOfTab DEF Write
<1>2. \A u \in Uid : u # w.uid =>
        ViewThrough(users', pending'[TheTab], u) = View(TheTab, u)
  BY <1>1, ViewOfAppend DEF View
<1>3. ViewThrough(users', pending'[TheTab], w.uid)
        = IF View(TheTab, w.uid) = NoDoc THEN NoDoc ELSE w.data
  BY <1>1, ViewOfAppend DEF View
<1>4. CASE View(TheTab, w.uid) = NoDoc
  BY <1>2, <1>3, <1>4, SeenStutters
<1>5. CASE View(TheTab, w.uid) # NoDoc
  <2>1. \A u \in Uid : ViewThrough(users', pending'[TheTab], u)
                          = IF u = w.uid THEN w.data ELSE View(TheTab, u)
    BY <1>2, <1>3, <1>5
  <2>2. SeenDocs' = [SeenDocs EXCEPT ![w.uid] = w.data]
    BY <1>1, <2>1, SeenChanges
  <2>3. QED
    BY <1>5, <2>2
<1>6. QED
  BY <1>4, <1>5

(* The handlers' changes are the operations of AtomicUsers.                *)
LEMMA SeenOperation ==
  ASSUME OneOpenTab, IInv, NEW u \in Uid, View(TheTab, u) # NoDoc, NEW d,
         SeenDocs' = [SeenDocs EXCEPT ![u] = d], registered' = registered,
         LET doc == View(TheTab, u)
         IN  \/ d = NoDoc
             \/ \E r \in Role : d = WithRole(doc, r)
             \/ \E n \in NftOf[u] : d = WithNft(doc, n)
             \/ \E i \in DOMAIN doc.NFT :
                  \/ d = WithoutNft(doc, i)
                  \/ \E n \in NftOf[u] : d = EditedNft(doc, i, n)
  PROVE  Seen!Next
<1> DEFINE doc == View(TheTab, u)
<1>1. SeenDocs[u] = doc /\ doc \in Doc /\ doc.NFT \in Seq(Art)
  BY QueueOfTab, ViewOfTab DEF SeenDocs, Doc
<1>2. SeenDocs \in [Uid -> Doc \cup {NoDoc}]
  BY QueueOfTab, ViewOfTab DEF SeenDocs
<1>3. SUFFICES Seen!Operation(u)
  BY <1>1 DEF Seen!Next
<1>4. CASE d = NoDoc
  BY <1>4 DEF Seen!Operation, Seen!DeleteUser
<1>5. ASSUME NEW r \in Role, d = WithRole(doc, r) PROVE Seen!Operation(u)
  <2>1. SeenDocs' = [SeenDocs EXCEPT ![u].role = r]
    BY <1>1, <1>5 DEF WithRole
  <2>2. QED
    BY <2>1 DEF Seen!Operation, Seen!SetRole, Seen!Role, Role
<1>6. ASSUME NEW n \in NftOf[u], d = WithNft(doc, n) PROVE Seen!Operation(u)
  <2>1. n \in Art
    BY ArtOfUser
  <2>2. Append(doc.NFT, n) = doc.NFT \o <<n>>
    BY <1>1, <2>1, AppendIsConcat
  <2>3. SeenDocs' = [SeenDocs EXCEPT ![u].NFT = @ \o <<n>>]
    BY <1>1, <1>6, <2>2 DEF WithNft
  <2>4. QED
    BY <2>3 DEF Seen!Operation, Seen!AddNft
<1>7. ASSUME NEW i \in DOMAIN doc.NFT, d = WithoutNft(doc, i) PROVE Seen!Operation(u)
  <2>1. SeenDocs' = [SeenDocs EXCEPT ![u].NFT =
                        SubSeq(@, 1, i-1) \o SubSeq(@, i+1, Len(@))]
    BY <1>1, <1>7 DEF WithoutNft, RemoveAt
  <2>2. QED
    BY <1>1, <2>1 DEF Seen!Operation, Seen!RemoveNft
<1>8. ASSUME NEW i \in DOMAIN doc.NFT, NEW n \in NftOf[u], d = EditedNft(doc, i, n)
      PROVE  Seen!Operation(u)
  <2>1. SeenDocs' = [SeenDocs EXCEPT ![u].NFT[i] = n]
    BY <1>1, <1>8 DEF EditedNft, ReplaceAt
  <2>2. QED
    BY <1>1, <2>1 DEF Seen!Operation, Seen!EditNft
<1>9. QED
  BY <1>4, <1>5, <1>6, <1>7, <1>8

-----------------------------------------------------------------------------
(* Step by step: what the staff see, and that only registered users are    *)
(* written for.                                                            *)

Promise == OnlyRegistered' /\ [Seen!Next]_<<SeenDocs, registered>>

(* A step that only replaces the queue.                                    *)
LEMMA KnownQueue ==
  ASSUME OneOpenTab, IInv, OnlyRegistered, registered' = registered,
         \A u \in Uid : users'[u] # NoDoc => users[u] # NoDoc,
         NEW ws, WritesFor(ws, registered),
         pending' = [pending EXCEPT ![TheTab] = ws]
  PROVE  OnlyRegistered'
<1>1. \A s \in Session : pending'[s] = ws
  BY QueueOfTab DEF OneOpenTab
<1>2. QED
  BY <1>1 DEF OnlyRegistered, WritesFor

LEMMA PromiseQuiet ==
  ASSUME AInv, UNCHANGED <<users, registered, pending>>
  PROVE  Promise
<1>1. SeenDocs' = SeenDocs
  BY DEF SeenDocs, View, TheTab
<1>2. OnlyRegistered'
  BY DEF AInv, OnlyRegistered, WritesFor
<1>3. QED
  BY <1>1, <1>2 DEF Promise

LEMMA PromiseOrphaned ==
  ASSUME OneOpenTab, AInv, UNCHANGED <<users, registered>>,
         pending' = [pending EXCEPT ![TheTab] = Orphaned(@, Len(stack[TheTab]))]
  PROVE  Promise
<1> DEFINE ws == pending[TheTab]
           vs == Orphaned(ws, Len(stack[TheTab]))
<1>1. ws \in Seq(Write) /\ Len(stack[TheTab]) \in Nat /\ pending'[TheTab] = vs
      /\ TheTab \in Session
  BY QueueOfTab DEF AInv
<1>2. \A u \in Uid : ViewThrough(users', pending'[TheTab], u) = View(TheTab, u)
  BY <1>1, OrphanedViews DEF View
<1>3. WritesFor(vs, registered)
  <2>1. WritesFor(ws, registered)
    BY <1>1 DEF AInv, OnlyRegistered
  <2>2. \A i \in DOMAIN ws : ws[i] \in Write
    BY <1>1, ElementOfSeq, LenProperties
  <2>3. QED
    BY <2>1, <2>2 DEF WritesFor, Orphaned, Write
<1>4. OnlyRegistered'
  BY <1>3, KnownQueue DEF AInv
<1>5. QED
  BY <1>2, <1>4, SeenStutters DEF Promise

LEMMA PromiseDelete ==
  ASSUME OneOpenTab, AInv, NEW v \in Uid, PressDelete(TheTab, v)
  PROVE  Promise
<1> DEFINE w  == [op |-> "delete", uid |-> v, data |-> NoDoc, at |-> Len(stack[TheTab])]
           ws == pending[TheTab]
<1>1. UNCHANGED <<users, registered>> /\ pending' = [pending EXCEPT ![TheTab] = Append(@, w)]
  BY DEF PressDelete
<1>2. ws \in Seq(Write) /\ Len(stack[TheTab]) \in Nat /\ TheTab \in Session
  BY QueueOfTab DEF AInv
<1>3. w \in Write /\ w.uid = v /\ w.data = NoDoc
  BY <1>2 DEF Write
<1> HIDE DEF w
<1>4. WritesFor(Append(ws, w), registered)
  <2>1. WritesFor(ws, registered)
    BY <1>2 DEF AInv, OnlyRegistered
  <2>2. QED
    BY <1>2, <1>3, <2>1, AppendType, LenProperties DEF WritesFor
<1>5. OnlyRegistered'
  BY <1>1, <1>4, KnownQueue DEF AInv
<1>6. SeenDocs' = IF View(TheTab, v) = NoDoc THEN SeenDocs
                  ELSE [SeenDocs EXCEPT ![v] = NoDoc]
  BY <1>1, <1>3, SeenQueued DEF AInv
<1>7. View(TheTab, v) # NoDoc => Seen!Next
  BY <1>1, <1>6, SeenOperation DEF AInv
<1>8. QED
  BY <1>1, <1>5, <1>6, <1>7 DEF Promise

(* A handler writes back data for the user of its call.                    *)
LEMMA PromiseQueued ==
  ASSUME OneOpenTab, AInv, NEW i \in DOMAIN calls[TheTab], NEW data \in Doc,
         View(TheTab, calls[TheTab][i].uid) # NoDoc,
         UNCHANGED <<users, registered>>,
         pending' = [pending EXCEPT ![TheTab] = Queued(TheTab, i, data)]
  PROVE  /\ OnlyRegistered'
         /\ SeenDocs' = [SeenDocs EXCEPT ![calls[TheTab][i].uid] = data]
<1> DEFINE call == calls[TheTab][i]
           ws   == pending[TheTab]
           w    == [op |-> call.op, uid |-> call.uid, data |-> data,
                    at |-> IF call.op = "role" THEN call.at ELSE 0]
<1>1. ws \in Seq(Write) /\ TheTab \in Session
  BY QueueOfTab DEF AInv
<1>2. call \in Call /\ call.uid \in Uid
  BY <1>1, CallAt DEF AInv
<1>3. w \in Write /\ w.uid = call.uid /\ w.data = data
  BY <1>2, CallKinds DEF Write
<1>4. pending' = [pending EXCEPT ![TheTab] = Append(@, w)]
  BY DEF Queued
<1> HIDE DEF w
<1>5. call.uid \in registered
  <2>1. users[call.uid] # NoDoc
    BY DEF View, ViewThrough
  <2>2. QED
    BY <1>2, <2>1 DEF AInv, OnlyRegistered
<1>6. WritesFor(Append(ws, w), registered)
  <2>1. WritesFor(ws, registered)
    BY <1>1 DEF AInv, OnlyRegistered
  <2>2. QED
    BY <1>1, <1>3, <1>5, <2>1, AppendType, LenProperties DEF WritesFor
<1>7. OnlyRegistered'
  BY <1>4, <1>6, KnownQueue DEF AInv
<1>8. SeenDocs' = [SeenDocs EXCEPT ![call.uid] = data]
  BY <1>3, <1>4, SeenQueued DEF AInv
<1>9. QED
  BY <1>7, <1>8

LEMMA PromiseAnswers ==
  ASSUME OneOpenTab, AInv, NEW i \in DOMAIN calls[TheTab],
         \/ RoleAnswered(TheTab, i) \/ RemoveAnswered(TheTab, i)
         \/ \E n \in Art : AddAnswered(TheTab, i, n) \/ EditAnswered(TheTab, i, n)
  PROVE  Promise
<1> DEFINE call == calls[TheTab][i]
           doc  == View(TheTab, call.uid)
           Writes(data) ==
             /\ UNCHANGED <<users, registered>>
             /\ pending' = [pending EXCEPT ![TheTab] = Queued(TheTab, i, data)]
<1>1. call \in Call /\ call.uid \in Uid /\ doc \in Doc /\ doc # NoDoc
  BY QueueOfTab, CallAt DEF AInv, RoleAnswered, RemoveAnswered, AddAnswered,
     EditAnswered, AnsweredWith
<1>2. CASE RoleAnswered(TheTab, i)
  <2> DEFINE d == WithRole(doc, call.role)
  <2>1. call.role \in Role
    BY <1>1, <1>2, CallKinds DEF RoleAnswered, AnsweredWith, RoleCall
  <2>2. d \in Doc
    BY <1>1, <2>1, WithRoleType
  <2>3. Writes(d)
    BY <1>2 DEF RoleAnswered, WriteBack
  <2> HIDE DEF d
  <2>4. OnlyRegistered' /\ SeenDocs' = [SeenDocs EXCEPT ![call.uid] = d]
    BY <1>1, <2>2, <2>3, PromiseQueued
  <2>5. Seen!Next
    BY <1>1, <2>1, <2>3, <2>4, SeenOperation DEF AInv, d
  <2>6. QED
    BY <2>4, <2>5 DEF Promise
<1>3. CASE RemoveAnswered(TheTab, i)
  <2> DEFINE d == WithoutNft(doc, call.index)
  <2>1. call.index \in DOMAIN doc.NFT
    BY <1>3 DEF RemoveAnswered
  <2>2. d \in Doc
    BY <1>1, <2>1, WithoutNftType
  <2>3. Writes(d)
    BY <1>3 DEF RemoveAnswered, WriteBack
  <2> HIDE DEF d
  <2>4. OnlyRegistered' /\ SeenDocs' = [SeenDocs EXCEPT ![call.uid] = d]
    BY <1>1, <2>2, <2>3, PromiseQueued
  <2>5. Seen!Next
    BY <1>1, <2>1, <2>3, <2>4, SeenOperation DEF AInv, d
  <2>6. QED
    BY <2>4, <2>5 DEF Promise
<1>4. ASSUME NEW n \in Art, EditAnswered(TheTab, i, n) PROVE Promise
  <2> DEFINE d == EditedNft(doc, call.index, n)
  <2>1. call.index \in DOMAIN doc.NFT /\ n \in NftOf[call.uid]
    BY <1>4 DEF EditAnswered
  <2>2. d \in Doc
    BY SMTT(40), <1>1, <2>1, EditedNftType
  <2>3. Writes(d)
    BY <1>4 DEF EditAnswered, WriteBack
  <2> HIDE DEF d
  <2>4. OnlyRegistered' /\ SeenDocs' = [SeenDocs EXCEPT ![call.uid] = d]
    BY <1>1, <2>2, <2>3, PromiseQueued
  <2>5. Seen!Next
    BY <1>1, <2>1, <2>3, <2>4, SeenOperation DEF AInv, d
  <2>6. QED
    BY <2>4, <2>5 DEF Promise
<1>5. ASSUME NEW n \in Art, AddAnswered(TheTab, i, n) PROVE Promise
  <2> DEFINE d == WithNft(doc, n)
  <2>1. n \in NftOf[call.uid]
    BY <1>5 DEF AddAnswered
  <2>2. d \in Doc
    BY <1>1, WithNftType
  <2>3. Writes(d)
    BY <1>5 DEF AddAnswered, WriteBack
  <2> HIDE DEF d
  <2>4. OnlyRegistered' /\ SeenDocs' = [SeenDocs EXCEPT ![call.uid] = d]
    BY <1>1, <2>2, <2>3, PromiseQueued
  <2>5. Seen!Next
    BY <1>1, <2>1, <2>3, <2>4, SeenOperation DEF AInv, d
  <2>6. QED
    BY <2>4, <2>5 DEF Promise
<1>6. QED
  BY <1>2, <1>3, <1>4, <1>5

LEMMA PromiseCommit ==
  ASSUME OneOpenTab, AInv, Commit(TheTab)
  PROVE  Promise
<1> DEFINE ws   == pending[TheTab]
           w    == Head(ws)
           rest == Tail(ws)
           p    == Len(stack[TheTab])
<1>1. /\ ws \in Seq(Write) /\ p \in Nat /\ TheTab \in Session
      /\ users \in [Uid -> Doc \cup {NoDoc}]
  BY QueueOfTab DEF AInv, IInv, TypeOK
<1>2. ws # <<>> /\ users' = Written(users, w) /\ registered' = registered
  BY DEF Commit
<1>3. /\ rest \in Seq(Write) /\ w \in Write
      /\ \A i \in DOMAIN rest : i + 1 \in DOMAIN ws /\ rest[i] = ws[i + 1]
  BY <1>1, <1>2, TailType
<1>4. PICK vs \in {rest, Orphaned(rest, p)} : pending' = [pending EXCEPT ![TheTab] = vs]
  BY DEF Commit, RoleStored, PushReplacement
<1>5. pending'[TheTab] = vs
  BY <1>4, QueueOfTab DEF AInv
<1>6. \A u \in Uid : ViewThrough(users', vs, u) = View(TheTab, u)
  <2> SUFFICES ASSUME NEW u \in Uid PROVE ViewThrough(users', vs, u) = View(TheTab, u)
    OBVIOUS
  <2>1. ViewThrough(users', rest, u) = View(TheTab, u)
    BY <1>1, <1>2, ViewOfCommit DEF View
  <2>2. ViewThrough(users', Orphaned(rest, p), u) = ViewThrough(users', rest, u)
    BY <1>1, <1>3, OrphanedViews
  <2>3. QED
    BY <1>4, <2>1, <2>2
<1>7. WritesFor(vs, registered)
  <2>1. WritesFor(ws, registered)
    BY <1>1 DEF AInv, OnlyRegistered
  <2>2. WritesFor(rest, registered)
    BY <1>3, <2>1 DEF WritesFor
  <2>3. \A i \in DOMAIN rest : rest[i] \in Write
    BY <1>3, ElementOfSeq, LenProperties
  <2> HIDE DEF rest
  <2>4. WritesFor(Orphaned(rest, p), registered)
    BY <2>2, <2>3 DEF WritesFor, Orphaned, Write
  <2>5. QED
    BY <1>4, <2>2, <2>4
<1>8. \A u \in Uid : users'[u] # NoDoc => users[u] # NoDoc
  BY <1>1, <1>2, <1>3 DEF Written, Write
<1>9. OnlyRegistered'
  BY <1>2, <1>4, <1>7, <1>8, KnownQueue DEF AInv
<1>10. QED
  BY <1>2, <1>5, <1>6, <1>9, SeenStutters DEF Promise

(* The app of one user changes nothing of another's document.              *)
LEMMA OtherViews ==
  ASSUME OneOpenTab, IInv, NEW v, NEW d, users' = [users EXCEPT ![v] = d],
         pending' = pending, NEW u \in Uid, u # v
  PROVE  ViewThrough(users', pending'[TheTab], u) = View(TheTab, u)
<1>1. pending[TheTab] \in Seq(Write)
  BY QueueOfTab
<1>2. users'[u] = users[u]
  BY DEF IInv, TypeOK
<1>3. \A new : new[u] = users[u] =>
        ViewThrough(new, pending[TheTab], u) = ViewThrough(users, pending[TheTab], u)
  BY <1>1, ViewOfSame
<1>4. QED
  BY <1>2, <1>3 DEF View

LEMMA PromiseWallets ==
  ASSUME OneOpenTab, AInv, Wallets
  PROVE  Promise
<1> DEFINE ws == pending[TheTab]
<1>1. /\ ws \in Seq(Write) /\ TheTab \in Session /\ pending' = pending
      /\ users \in [Uid -> Doc \cup {NoDoc}]
  BY QueueOfTab DEF AInv, IInv, TypeOK, Wallets, Register, Upload
<1>2. WritesFor(ws, registered)
  BY <1>1 DEF AInv, OnlyRegistered
<1>3. ASSUME NEW v \in Uid, Register(v) PROVE Promise
  <2>1. /\ users' = [users EXCEPT ![v] = NewDoc] /\ v \notin registered
        /\ registered' = registered \cup {v} /\ users[v] = NoDoc
    BY <1>3 DEF Register, AInv, OnlyRegistered
  <2>2. OnlyRegistered'
    BY <1>1, <2>1 DEF AInv, OnlyRegistered, WritesFor
  <2>3. \A u \in Uid : u # v => ViewThrough(users', pending'[TheTab], u) = View(TheTab, u)
    BY <1>1, <2>1, OtherViews DEF AInv
  <2>4. View(TheTab, v) = NoDoc
    BY <1>1, <2>1, ViewIs DEF View
  <2>5. users'[v] = NewDoc /\ NewDoc # NoDoc
    BY <1>1, <2>1, NewDocType, NoDocAssumption
  <2>6. CASE Deletes(ws, v)
    <3>1. ViewThrough(users', ws, v) = NoDoc
      BY <1>1, <2>6, ViewIs
    <3>2. SeenDocs' = SeenDocs
      BY <1>1, <2>3, <2>4, <3>1, SeenStutters
    <3>3. Seen!MissedUser(v)
      BY <2>1, <3>2 DEF Seen!MissedUser
    <3>4. QED
      BY <2>2, <3>3 DEF Promise, Seen!Next
  <2>7. CASE ~Deletes(ws, v)
    <3>1. ~Concerns(ws, v)
      BY <1>2, <2>1, <2>7 DEF Deletes, Concerns, WritesFor
    <3>2. ViewThrough(users', ws, v) = NewDoc
      BY <1>1, <2>5, <3>1, ViewIs
    <3>3. SeenDocs' = [SeenDocs EXCEPT ![v] = NewDoc]
      BY <1>1, <2>3, <3>2, SeenChanges
    <3>4. SeenDocs[v] = NoDoc
      BY <2>4 DEF SeenDocs
    <3>5. Seen!Next
      BY <2>1, <3>3, <3>4 DEF Seen!Next, Seen!NewUser, Seen!NewDoc, NewDoc
    <3>6. QED
      BY <2>2, <3>5 DEF Promise
  <2>8. QED
    BY <2>6, <2>7
<1>4. ASSUME NEW v \in Uid, NEW n \in NftOf[v], Upload(v, n) PROVE Promise
  <2> DEFINE d == WithNft(users[v], n)
  <2>1. /\ users' = [users EXCEPT ![v] = d] /\ registered' = registered
        /\ users[v] # NoDoc /\ users[v] \in Doc
    BY <1>1, <1>4 DEF Upload
  <2>2. d \in Doc /\ d # NoDoc
    BY <2>1, ArtOfUser, WithNftType, NoDocAssumption
  <2>3. users'[v] = d
    BY <1>1, <2>1
  <2>4. OnlyRegistered'
    BY <1>1, <2>1 DEF AInv, OnlyRegistered, WritesFor
  <2>5. \A u \in Uid : u # v => ViewThrough(users', pending'[TheTab], u) = View(TheTab, u)
    BY <1>1, <2>1, OtherViews DEF AInv
  <2>6. CASE Deletes(ws, v) \/ Concerns(ws, v)
    <3>1. ViewThrough(users', ws, v) = View(TheTab, v)
      <4>1. CASE Deletes(ws, v)
        BY <1>1, <4>1, ViewIs DEF View
      <4>2. CASE ~Deletes(ws, v)
        <5>1. PICK k \in DOMAIN ws : IsLastWrite(ws, v, k)
          BY <1>1, <2>6, <4>2, LastWriteOf
        <5>2. ViewThrough(users', ws, v) = ws[k].data
          BY <1>1, <2>2, <2>3, <4>2, <5>1, ViewIs
        <5>3. View(TheTab, v) = ws[k].data
          BY <1>1, <2>1, <4>2, <5>1, ViewIs DEF View
        <5>4. QED
          BY <5>2, <5>3
      <4>3. QED
        BY <4>1, <4>2
    <3>2. SeenDocs' = SeenDocs
      BY <1>1, <2>5, <3>1, SeenStutters
    <3>3. QED
      BY <2>1, <2>4, <3>2 DEF Promise
  <2>7. CASE ~Concerns(ws, v)
    <3>1. ViewThrough(users', ws, v) = d /\ View(TheTab, v) = users[v]
      BY <1>1, <2>3, <2>7, ViewIs DEF View
    <3> HIDE DEF d
    <3>2. SeenDocs' = [SeenDocs EXCEPT ![v] = d]
      BY <1>1, <2>5, <3>1, SeenChanges
    <3>3. Seen!Next
      BY <2>1, <3>1, <3>2, SeenOperation DEF AInv, d
    <3>4. QED
      BY <2>4, <3>3 DEF Promise
  <2>8. QED
    BY <2>6, <2>7
<1>5. QED
  BY <1>3, <1>4 DEF Wallets

LEMMA PromiseNext == OneOpenTab /\ AInv /\ [Next]_vars => Promise
<1> SUFFICES ASSUME OneOpenTab, AInv, [Next]_vars PROVE Promise
  OBVIOUS
<1> DEFINE s == TheTab
<1>1. CASE UNCHANGED vars
  BY <1>1, PromiseQuiet DEF vars
<1>2. CASE Wallets
  BY <1>2, PromiseWallets
<1>3. CASE Tab(TheTab)
  <2>1. CASE \/ \E u \in Uid : SignIn(s, u) \/ OpenNfts(s, u)
             \/ \E u \in Uid, r \in Grants : PressRole(s, u, r)
             \/ \E i \in 1..MaxNfts : OpenDetails(s, i)
             \/ \E op \in {"edit", "remove"} : PressItem(s, op)
             \/ PressAdd(s) \/ OpenAdd(s) \/ LoginFailed(s) \/ PageSettles(s)
             \/ \E i \in DOMAIN calls[s] : CallThrows(s, i)
    <3>1. UNCHANGED <<users, registered, pending>>
      BY <2>1 DEF SignIn, OpenNfts, PressRole, OpenDetails, PressItem, PressAdd,
         OpenAdd, LoginFailed, PageSettles, ListAnswered, ListFailed,
         RefreshAnswered, RefreshShown, RefreshFailed, CallThrows, Rebuild, Push,
         StartCall
    <3>2. QED
      BY SMTT(40), <3>1, PromiseQuiet
  <2>2. CASE LoginAnswered(s) \/ Logout(s) \/ \E result \in BOOLEAN : Back(s, result)
    <3>1. /\ UNCHANGED <<users, registered>>
          /\ pending' = [pending EXCEPT ![TheTab] = Orphaned(@, Len(stack[TheTab]))]
      BY <2>2 DEF LoginAnswered, Logout, Back, PushReplacement
    <3>2. QED
      BY <3>1, PromiseOrphaned
  <2>3. CASE \E u \in Uid : PressDelete(s, u)
    BY <2>3, PromiseDelete
  <2>4. CASE \E i \in DOMAIN calls[s] :
                \/ RoleAnswered(s, i) \/ RemoveAnswered(s, i)
                \/ \E n \in Art : AddAnswered(s, i, n) \/ EditAnswered(s, i, n)
    BY <2>4, PromiseAnswers
  <2>5. CASE Commit(s)
    BY <2>5, PromiseCommit
  <2>6. ~CloseTab(s)
    BY DEF CloseTab, OneOpenTab
  <2>7. QED
    BY <1>3, <2>1, <2>2, <2>3, <2>4, <2>5, <2>6
       DEF Tab, Person, LoginSettles, CallSettles
<1>4. QED
  BY <1>1, <1>2, <1>3 DEF Next, OneOpenTab

LEMMA PromiseInit == OneOpenTab /\ Init => AInv /\ Seen!Init
<1> SUFFICES ASSUME OneOpenTab, Init PROVE AInv /\ Seen!Init
  OBVIOUS
<1>1. TheTab \in Session /\ pending[TheTab] = <<>> /\ users = Seeded
  BY DEF Init, OneOpenTab
<1>2. OnlyRegistered
  BY EmptySeq DEF Init, OnlyRegistered, WritesFor
<1>3. \A u \in Uid : View(TheTab, u) = Seeded[u]
  <2>1. \A u \in Uid : ~Concerns(<<>>, u)
    BY EmptySeq DEF Concerns
  <2>2. <<>> \in Seq(Write)
    BY EmptySeq
  <2>3. QED
    BY <1>1, <2>1, <2>2, ViewIs DEF View
<1>4. SeenDocs = Seeded
  BY <1>3, SeededAssumption DEF SeenDocs
<1>5. QED
  BY <1>2, <1>4, InitInv DEF Init, AInv, Seen!Init

(* The staff at a single tab that is never closed see each of their        *)
(* buttons change one field of one document, at once, whatever the wallet  *)
(* apps of any number of users do meanwhile: the handlers of one tab,      *)
(* which read, wait and write back whole documents, never undo one         *)
(* another's work.                                                         *)
THEOREM OneTabWorksAtomically ==
  ASSUME OneOpenTab PROVE Spec => OneTabIsAtomic
<1>1. Init => AInv /\ Seen!Init
  BY PromiseInit
<1>2. AInv /\ [Next]_vars => AInv' /\ [Seen!Next]_<<SeenDocs, registered>>
  BY PromiseNext, NextInv DEF AInv, Promise
<1>3. QED
  BY <1>1, <1>2, PTL DEF Spec, OneTabIsAtomic, Seen!Spec, Seen!vars
=============================================================================
