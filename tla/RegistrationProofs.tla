-------------------------- MODULE RegistrationProofs --------------------------
(***************************************************************************)
(* Theorems of Registration, for any number of apps and users: when people *)
(* wait for a registration, it only ever creates a document, although its  *)
(* user is taken from auth.currentUser after two awaits; and whether they  *)
(* wait or not, only somebody who has an account has a document.  To the   *)
(* rest of the system the registration of people who wait is one step.     *)
(***************************************************************************)
EXTENDS Registration, SequenceLemmas

(* An app has one registration in flight or one document being set, and    *)
(* nobody has signed in over the account it created.                       *)
AppOK(hs, ps, c) ==
  \/ hs = <<>> /\ ps = <<>>
  \/ /\ ps = <<>>
     /\ \E h \in Handler : hs = <<h>> /\ (h.awaits # "create" => c = h.uid)
  \/ hs = <<>> /\ \E v \in Uid : ps = <<v>>

(* The inductive invariant: whose document is awaited has an account and   *)
(* no document yet, and one app only is going to set it.                   *)
RInv ==
  /\ TypeOK
  /\ \A u \in Uid : users[u] # NoDoc => u \in accounts
  /\ \A a \in App : AppOK(handlers[a], pending[a], current[a])
  /\ \A a \in App, u \in Uid : Awaited(a, u) => u \in accounts /\ users[u] = NoDoc
  /\ \A a, b \in App, u \in Uid : Awaited(a, u) /\ Awaited(b, u) => a = b

(* It is kept, and to everybody else the step is one of AtomicUsers, or    *)
(* none.                                                                   *)
Kept == RInv' /\ [Atomic!Next]_<<users, Settled>>

-----------------------------------------------------------------------------
(* Sequences of at most one element.                                       *)

LEMMA Singleton ==
  ASSUME NEW S, NEW e \in S
  PROVE  /\ <<e>> \in Seq(S) /\ Len(<<e>>) = 1 /\ DOMAIN <<e>> = {1}
         /\ <<e>>[1] = e /\ Head(<<e>>) = e /\ Tail(<<e>>) = <<>>
         /\ Append(<<>>, e) = <<e>> /\ RemoveAt(<<e>>, 1) = <<>>
         /\ <<e>> # <<>>
<1>1. /\ <<e>> \in Seq(S) /\ Len(<<e>>) = 1 /\ DOMAIN <<e>> = {1}
      /\ <<e>>[1] = e /\ Head(<<e>>) = e /\ <<e>> # <<>>
  OBVIOUS
<1>2. Tail(<<e>>) = <<>> /\ Append(<<>>, e) = <<e>>
  OBVIOUS
<1>3. RemoveAt(<<e>>, 1) = <<>>
  BY <1>1 DEF RemoveAt
<1>4. QED
  BY <1>1, <1>2, <1>3

LEMMA EmptyExpectsNobody ==
  ASSUME NEW u
  PROVE  ~Expects(<<>>, <<>>, u)
  BY DEF Expects

LEMMA OneWrite ==
  ASSUME NEW u, NEW v \in Uid
  PROVE  Expects(<<>>, <<v>>, u) <=> u = v
<1>1. DOMAIN <<v>> = {1} /\ <<v>>[1] = v
  BY Singleton
<1>2. QED
  BY <1>1 DEF Expects

LEMMA OneHandler ==
  ASSUME NEW u, NEW h \in Handler
  PROVE  Expects(<<h>>, <<>>, u) <=> h.awaits # "create" /\ h.uid = u
<1>1. DOMAIN <<h>> = {1} /\ <<h>>[1] = h
  BY Singleton
<1>2. QED
  BY <1>1 DEF Expects

-----------------------------------------------------------------------------
(* The two ways a step keeps the invariant.                                *)

(* App a goes on, and awaits nobody it did not await before.               *)
LEMMA OneAwaited ==
  ASSUME RInv, NEW a \in App, NEW u \in Uid, NEW v \in Uid,
         Awaited(a, u), Awaited(a, v)
  PROVE  u = v
<1>1. AppOK(handlers[a], pending[a], current[a])
  BY DEF RInv
<1>2. CASE handlers[a] = <<>> /\ pending[a] = <<>>
  BY <1>2, EmptyExpectsNobody DEF Awaited
<1>3. CASE \E h \in Handler : handlers[a] = <<h>> /\ pending[a] = <<>>
  BY <1>3, OneHandler DEF Awaited
<1>4. CASE \E w \in Uid : handlers[a] = <<>> /\ pending[a] = <<w>>
  BY <1>4, OneWrite DEF Awaited
<1>5. QED
  BY <1>1, <1>2, <1>3, <1>4 DEF AppOK

LEMMA SettledStays ==
  ASSUME accounts' = accounts,
         \A b \in App, u \in Uid : Awaited(b, u)' <=> Awaited(b, u),
         accounts \subseteq Uid
  PROVE  Settled' = Settled
<1>1. Settled' = {u \in accounts' : \A b \in App : ~Awaited(b, u)'}
  BY DEF Settled
<1>2. QED
  BY <1>1 DEF Settled

LEMMA AppStep ==
  ASSUME RInv, NEW a \in App,
         NEW hs \in Seq(Handler), NEW ps \in Seq(Uid), NEW c \in Uid \cup {NoUser},
         handlers' = [handlers EXCEPT ![a] = hs],
         pending'  = [pending EXCEPT ![a] = ps],
         current'  = [current EXCEPT ![a] = c],
         users' = users, accounts' = accounts,
         AppOK(hs, ps, c),
         \A u \in Uid : Expects(hs, ps, u) => Awaited(a, u)
  PROVE  Kept
<1>1. TypeOK'
  BY DEF RInv, TypeOK
<1>2. \A b \in App : /\ handlers'[b] = IF b = a THEN hs ELSE handlers[b]
                     /\ pending'[b] = IF b = a THEN ps ELSE pending[b]
                     /\ current'[b] = IF b = a THEN c ELSE current[b]
  BY DEF RInv, TypeOK
<1>3. \A b \in App : AppOK(handlers'[b], pending'[b], current'[b])
  BY <1>2 DEF RInv
<1>4. \A b \in App, u \in Uid :
        Awaited(b, u)' <=> IF b = a THEN Expects(hs, ps, u) ELSE Awaited(b, u)
  BY <1>2 DEF Awaited
<1>5. RInv'
  BY <1>1, <1>3, <1>4 DEF RInv
<1>6. accounts \subseteq Uid
  BY DEF RInv, TypeOK
<1>7. CASE \A u \in Uid : Awaited(a, u) => Expects(hs, ps, u)
  <2>1. \A b \in App, u \in Uid : Awaited(b, u)' <=> Awaited(b, u)
    BY <1>4, <1>7
  <2>2. QED
    BY <1>5, <1>6, <2>1, SettledStays DEF Kept
<1>8. ASSUME NEW v \in Uid, Awaited(a, v), ~Expects(hs, ps, v)
      PROVE  Kept
  <2>1. v \in accounts /\ v \notin Settled
    BY <1>8 DEF RInv, Settled
  <2>2. \A b \in App, u \in Uid : Awaited(b, u)' <=> b # a /\ Awaited(b, u)
    BY <1>4, <1>8, OneAwaited
  <2>3. \A b \in App, u \in Uid : Awaited(b, u)' => u # v
    BY <1>8, <2>2 DEF RInv
  <2>4. Settled' = {u \in accounts : \A b \in App : ~Awaited(b, u)'}
    BY DEF Settled
  <2>5. \A u \in accounts :
          (\A b \in App : ~Awaited(b, u)') <=> (u = v \/ \A b \in App : ~Awaited(b, u))
    BY <1>6, <1>8, <2>2, <2>3, OneAwaited
  <2>6. Settled' = Settled \cup {v}
    BY <2>1, <2>4, <2>5 DEF Settled
  <2>7. Atomic!MissedUser(v)
    BY <2>1, <2>6 DEF Atomic!MissedUser
  <2>8. QED
    BY <1>5, <2>7 DEF Kept, Atomic!Next
<1>9. QED
  BY <1>7, <1>8

(* Documents change, and none appears.                                     *)
LEMMA OthersStep ==
  ASSUME RInv, users' \in [Uid -> Doc \cup {NoDoc}],
         \A u \in Uid : users[u] = NoDoc => users'[u] = NoDoc,
         UNCHANGED <<accounts, current, handlers, pending>>
  PROVE  RInv' /\ Settled' = Settled
<1>1. TypeOK'
  BY DEF RInv, TypeOK
<1>2. \A a \in App, u \in Uid : Awaited(a, u)' <=> Awaited(a, u)
  BY DEF Awaited
<1>3. Settled' = Settled
  BY <1>2, SettledStays DEF RInv, TypeOK
<1>4. QED
  BY <1>1, <1>2, <1>3 DEF RInv

-----------------------------------------------------------------------------
(* The steps of an app.                                                    *)

LEMMA AppTypes ==
  ASSUME RInv, NEW a \in App
  PROVE  /\ handlers[a] \in Seq(Handler) /\ pending[a] \in Seq(Uid)
         /\ current[a] \in Uid \cup {NoUser}
         /\ handlers = [handlers EXCEPT ![a] = handlers[a]]
         /\ pending  = [pending EXCEPT ![a] = pending[a]]
         /\ current  = [current EXCEPT ![a] = current[a]]
  BY DEF RInv, TypeOK

LEMMA TheHandler ==
  ASSUME RInv, NEW a \in App, NEW i \in DOMAIN handlers[a]
  PROVE  \E h \in Handler :
           /\ handlers[a] = <<h>> /\ pending[a] = <<>> /\ i = 1
           /\ handlers[a][i] = h
           /\ h.awaits # "create" => current[a] = h.uid
<1>1. AppOK(handlers[a], pending[a], current[a])
  BY DEF RInv
<1>2. handlers[a] # <<>>
  OBVIOUS
<1>3. PICK h \in Handler : /\ handlers[a] = <<h>> /\ pending[a] = <<>>
                           /\ h.awaits # "create" => current[a] = h.uid
  BY <1>1, <1>2 DEF AppOK
<1>4. DOMAIN handlers[a] = {1} /\ handlers[a][1] = h
  BY <1>3, Singleton
<1>5. i = 1 /\ handlers[a][i] = h
  BY <1>4
<1>6. QED
  BY <1>3, <1>5

LEMMA PressRegisterInv ==
  ASSUME RInv, Patient, NEW a \in App, NEW u \in Uid, PressRegister(a, u)
  PROVE  Kept
<1> DEFINE h == [uid |-> u, awaits |-> "create"]
<1>1. h \in Handler /\ handlers[a] = <<>> /\ pending[a] = <<>>
  BY DEF PressRegister, Idle, Handler
<1>2. /\ handlers' = [handlers EXCEPT ![a] = Append(<<>>, h)]
      /\ UNCHANGED <<users, accounts, current, pending>>
  BY <1>1, AppTypes DEF PressRegister
<1> HIDE DEF h
<1>3. Append(<<>>, h) = <<h>> /\ <<h>> \in Seq(Handler)
  BY <1>1, Singleton
<1>4. h.awaits = "create"
  BY DEF h
<1>5. AppOK(<<h>>, <<>>, current[a])
  BY <1>1, <1>4 DEF AppOK
<1>6. \A v \in Uid : ~Expects(<<h>>, <<>>, v)
  BY <1>1, <1>4, OneHandler
<1>7. /\ handlers' = [handlers EXCEPT ![a] = <<h>>]
      /\ pending'  = [pending EXCEPT ![a] = <<>>]
      /\ current'  = [current EXCEPT ![a] = current[a]]
  BY <1>1, <1>2, <1>3, AppTypes
<1>8. <<>> \in Seq(Uid)
  OBVIOUS
<1>9. QED
  BY <1>2, <1>3, <1>5, <1>6, <1>7, <1>8, AppTypes, AppStep

LEMMA SignInInv ==
  ASSUME RInv, Patient, NEW a \in App, NEW u \in Uid, SignIn(a, u)
  PROVE  Kept
<1>1. handlers[a] = <<>> /\ pending[a] = <<>>
  BY DEF SignIn, Idle
<1>2. AppOK(handlers[a], pending[a], u)
  BY <1>1 DEF AppOK
<1>3. \A v \in Uid : Expects(handlers[a], pending[a], v) => Awaited(a, v)
  BY DEF Awaited
<1>4. /\ current' = [current EXCEPT ![a] = u]
      /\ UNCHANGED <<users, accounts, handlers, pending>>
  BY DEF SignIn
<1>5. QED
  BY <1>2, <1>3, <1>4, AppTypes, AppStep

(* The app awaits nothing any more.                                        *)
LEMMA IdleInv ==
  ASSUME RInv, NEW a \in App,
         handlers' = [handlers EXCEPT ![a] = <<>>],
         pending'  = [pending EXCEPT ![a] = <<>>],
         UNCHANGED <<users, accounts, current>>
  PROVE  Kept
<1>1. AppOK(<<>>, <<>>, current[a]) /\ \A v \in Uid : ~Expects(<<>>, <<>>, v)
  BY EmptyExpectsNobody DEF AppOK
<1>2. <<>> \in Seq(Handler) /\ <<>> \in Seq(Uid)
  OBVIOUS
<1>3. QED
  BY <1>1, <1>2, AppTypes, AppStep

(* FireAuth returns the account it created, or auth.currentUser, which is  *)
(* the same.                                                               *)
LEMMA ReturnsInv ==
  ASSUME RInv, NEW a \in App, NEW i \in DOMAIN handlers[a],
         handlers[a][i].awaits # "create",
         Returns(a, i, handlers[a][i].uid) \/ Returns(a, i, current[a])
  PROVE  Kept
<1>1. PICK h \in Handler :
        /\ handlers[a] = <<h>> /\ pending[a] = <<>> /\ i = 1
        /\ handlers[a][i] = h
        /\ h.awaits # "create" => current[a] = h.uid
  BY TheHandler
<1> DEFINE v == h.uid
<1>2. v \in Uid /\ current[a] = v /\ Returns(a, i, v)
  BY <1>1 DEF Handler
<1> HIDE DEF v
<1>3. /\ handlers' = [handlers EXCEPT ![a] = <<>>]
      /\ pending'  = [pending EXCEPT ![a] = <<v>>]
      /\ UNCHANGED <<users, accounts, current>>
  <2>1. RemoveAt(handlers[a], i) = <<>> /\ Append(pending[a], v) = <<v>>
    BY <1>1, <1>2, Singleton
  <2>2. QED
    BY <1>2, <2>1 DEF Returns
<1>4. AppOK(<<>>, <<v>>, current[a])
  BY <1>2 DEF AppOK
<1>5. \A u \in Uid : Expects(<<>>, <<v>>, u) => Awaited(a, u)
  BY <1>1, <1>2, OneWrite, OneHandler DEF Awaited, v
<1>6. <<v>> \in Seq(Uid) /\ <<>> \in Seq(Handler)
  BY <1>2, Singleton
<1>7. QED
  BY <1>3, <1>4, <1>5, <1>6, AppTypes, AppStep

LEMMA UpdatedInv ==
  ASSUME RInv, NEW a \in App, NEW i \in DOMAIN handlers[a], Updated(a, i)
  PROVE  Kept
<1>1. PICK h \in Handler :
        /\ handlers[a] = <<h>> /\ pending[a] = <<>> /\ i = 1
        /\ handlers[a][i] = h
        /\ h.awaits # "create" => current[a] = h.uid
  BY TheHandler
<1> DEFINE g == [h EXCEPT !.awaits = "reload"]
<1>2. /\ g \in Handler /\ g.uid = h.uid /\ g.awaits = "reload"
      /\ h.awaits = "updateProfile"
  BY <1>1 DEF Handler, Updated, Awaits
<1>3. /\ handlers' = [handlers EXCEPT ![a] = [handlers[a] EXCEPT ![i] = g]]
      /\ UNCHANGED <<users, accounts, current, pending>>
  BY <1>1 DEF Updated
<1> HIDE DEF g
<1>4. [handlers[a] EXCEPT ![i] = g] = <<g>> /\ <<g>> \in Seq(Handler)
  BY <1>1, <1>2, Singleton
<1>5. AppOK(<<g>>, pending[a], current[a])
  BY <1>1, <1>2 DEF AppOK
<1>6. \A u \in Uid : Expects(<<g>>, pending[a], u) => Awaited(a, u)
  BY <1>1, <1>2, OneHandler DEF Awaited
<1>7. QED
  BY <1>3, <1>4, <1>5, <1>6, AppTypes, AppStep

LEMMA CreateFailsInv ==
  ASSUME RInv, NEW a \in App, NEW i \in DOMAIN handlers[a], CreateFails(a, i)
  PROVE  Kept
<1>1. PICK h \in Handler : handlers[a] = <<h>> /\ pending[a] = <<>> /\ i = 1
  BY TheHandler
<1>2. RemoveAt(handlers[a], i) = <<>>
  BY <1>1, Singleton
<1>3. /\ handlers' = [handlers EXCEPT ![a] = <<>>]
      /\ pending'  = [pending EXCEPT ![a] = <<>>]
      /\ UNCHANGED <<users, accounts, current>>
  BY <1>1, <1>2, AppTypes DEF CreateFails
<1>4. QED
  BY <1>3, IdleInv

(* The account is new: no other app can be setting its document.           *)
LEMMA CreatedInv ==
  ASSUME RInv, NEW a \in App, NEW i \in DOMAIN handlers[a], Created(a, i)
  PROVE  Kept
<1>1. PICK h \in Handler :
        /\ handlers[a] = <<h>> /\ pending[a] = <<>> /\ i = 1
        /\ handlers[a][i] = h
  BY TheHandler
<1> DEFINE g == [h EXCEPT !.awaits = "updateProfile"]
<1>2. /\ g \in Handler /\ g.uid = h.uid /\ g.awaits = "updateProfile"
      /\ h.uid \in Uid /\ h.uid \notin accounts
  BY <1>1 DEF Handler, Created, Awaits
<1>3. /\ handlers' = [handlers EXCEPT ![a] = [handlers[a] EXCEPT ![i] = g]]
      /\ accounts' = accounts \cup {h.uid}
      /\ current'  = [current EXCEPT ![a] = h.uid]
      /\ users' = users /\ pending' = pending
  BY <1>1 DEF Created
<1> HIDE DEF g
<1>4. [handlers[a] EXCEPT ![i] = g] = <<g>> /\ <<g>> \in Seq(Handler)
  BY <1>1, <1>2, Singleton
<1>5. \A b \in App : /\ handlers'[b] = IF b = a THEN <<g>> ELSE handlers[b]
                     /\ pending'[b] = pending[b]
                     /\ current'[b] = IF b = a THEN h.uid ELSE current[b]
  BY <1>3, <1>4 DEF RInv, TypeOK
<1>6. TypeOK'
  BY <1>2, <1>3, <1>4 DEF RInv, TypeOK
<1>7. \A b \in App : AppOK(handlers'[b], pending'[b], current'[b])
  BY <1>1, <1>2, <1>5 DEF RInv, AppOK
<1>8. \A b \in App, u \in Uid :
        Awaited(b, u)' <=> IF b = a THEN u = h.uid ELSE Awaited(b, u)
  BY <1>1, <1>2, <1>5, OneHandler DEF Awaited
<1>9. \A b \in App, u \in Uid : Awaited(b, u)' => u \in accounts' /\ users'[u] = NoDoc
  BY <1>2, <1>3, <1>8 DEF RInv
<1>10. \A b, c \in App, u \in Uid : Awaited(b, u)' /\ Awaited(c, u)' => b = c
  BY <1>2, <1>8 DEF RInv
<1>11. \A u \in Uid : users'[u] # NoDoc => u \in accounts'
  BY <1>3 DEF RInv
<1>12. Settled' = Settled
  <2>1. Settled' = {u \in accounts' : \A b \in App : ~Awaited(b, u)'}
    BY DEF Settled
  <2>2. \A b \in App : ~Awaited(b, h.uid) /\ ~Awaited(a, h.uid)
    BY <1>2 DEF RInv
  <2>3. \A u \in accounts' :
          (\A b \in App : ~Awaited(b, u)')
            <=> u \in accounts /\ \A b \in App : ~Awaited(b, u)
    <3> SUFFICES ASSUME NEW u \in accounts'
                 PROVE  (\A b \in App : ~Awaited(b, u)')
                          <=> u \in accounts /\ \A b \in App : ~Awaited(b, u)
      OBVIOUS
    <3>1. u \in Uid
      BY <1>6 DEF TypeOK
    <3>2. CASE u = h.uid
      BY <1>2, <1>8, <3>1, <3>2
    <3>3. CASE u # h.uid
      <4>1. ~Awaited(a, u)
        BY <1>1, <1>4, <3>1, <3>3, OneHandler DEF Awaited
      <4>2. u \in accounts
        BY <1>3, <3>3
      <4>3. QED
        BY <1>8, <3>1, <3>3, <4>1, <4>2
    <3>4. QED
      BY <3>2, <3>3
  <2>4. QED
    BY <1>3, <2>1, <2>3 DEF Settled
<1>13. RInv'
  BY <1>6, <1>7, <1>9, <1>10, <1>11 DEF RInv
<1>14. QED
  BY <1>3, <1>12, <1>13 DEF Kept

(* A registration whose write is stored sets a new document.               *)
LEMMA CommitOfNewDocument ==
  ASSUME RInv, NEW a \in App, pending[a] # <<>>
  PROVE  \E v \in Uid : /\ handlers[a] = <<>> /\ pending[a] = <<v>>
                        /\ Head(pending[a]) = v /\ Tail(pending[a]) = <<>>
                        /\ v \in accounts /\ users[v] = NoDoc /\ Awaited(a, v)
<1>1. AppOK(handlers[a], pending[a], current[a])
  BY DEF RInv
<1>2. PICK v \in Uid : handlers[a] = <<>> /\ pending[a] = <<v>>
  BY <1>1 DEF AppOK
<1>3. Awaited(a, v)
  BY <1>2, OneWrite DEF Awaited
<1>4. Head(pending[a]) = v /\ Tail(pending[a]) = <<>>
  BY <1>2, Singleton
<1>5. v \in accounts /\ users[v] = NoDoc
  BY <1>3 DEF RInv
<1>6. QED
  BY <1>2, <1>3, <1>4, <1>5

LEMMA CommitInv ==
  ASSUME RInv, NEW a \in App, Commit(a)
  PROVE  Kept
<1>1. PICK v \in Uid : /\ handlers[a] = <<>> /\ pending[a] = <<v>>
                      /\ Head(pending[a]) = v /\ Tail(pending[a]) = <<>>
                      /\ v \in accounts /\ users[v] = NoDoc /\ Awaited(a, v)
  BY CommitOfNewDocument DEF Commit
<1>2. /\ users'   = [users EXCEPT ![v] = NewDoc]
      /\ pending' = [pending EXCEPT ![a] = <<>>]
      /\ UNCHANGED <<accounts, current, handlers>>
  BY <1>1 DEF Commit
<1>3. NewDoc \in Doc
  BY DEF NewDoc, Doc, Role
<1>4. TypeOK'
  BY <1>2, <1>3 DEF RInv, TypeOK
<1>5. \A b \in App : /\ handlers'[b] = handlers[b] /\ current'[b] = current[b]
                     /\ pending'[b] = IF b = a THEN <<>> ELSE pending[b]
  BY <1>2 DEF RInv, TypeOK
<1>6. \A b \in App : AppOK(handlers'[b], pending'[b], current'[b])
  BY <1>1, <1>5 DEF RInv, AppOK
<1>7. \A b \in App, u \in Uid : Awaited(b, u)' => b # a /\ Awaited(b, u)
  BY <1>1, <1>5, EmptyExpectsNobody DEF Awaited
<1>8. \A b \in App, u \in Uid : Awaited(b, u)' => u # v
  BY <1>1, <1>7 DEF RInv
<1>9. \A b \in App, u \in Uid : Awaited(b, u)' => u \in accounts' /\ users'[u] = NoDoc
  BY <1>2, <1>7, <1>8 DEF RInv, TypeOK
<1>10. \A b, c \in App, u \in Uid : Awaited(b, u)' /\ Awaited(c, u)' => b = c
  BY <1>7 DEF RInv
<1>11. \A u \in Uid : users'[u] # NoDoc => u \in accounts'
  BY <1>1, <1>2 DEF RInv, TypeOK
<1>12. RInv'
  BY <1>4, <1>6, <1>9, <1>10, <1>11 DEF RInv
<1>13. Settled' = Settled \cup {v} /\ v \notin Settled
  <2>1. Settled' = {u \in accounts : \A b \in App : ~Awaited(b, u)'}
    BY <1>2 DEF Settled
  <2>2. \A b \in App, u \in Uid : Awaited(b, u)' <=> b # a /\ Awaited(b, u)
    <3>1. \A b \in App, u \in Uid :
            Awaited(b, u)' <=> Expects(handlers'[b], pending'[b], u)
      BY DEF Awaited
    <3>2. QED
      BY <1>1, <1>5, <3>1, EmptyExpectsNobody DEF Awaited
  <2>3. \A u \in accounts :
          (\A b \in App : ~Awaited(b, u)') <=> (u = v \/ \A b \in App : ~Awaited(b, u))
    BY <1>1, <1>8, <2>2, OneAwaited DEF RInv, TypeOK
  <2>4. QED
    BY <1>1, <2>1, <2>3 DEF Settled
<1>14. Atomic!NewUser(v)
  BY <1>1, <1>2, <1>13 DEF Atomic!NewUser, Atomic!NewDoc, NewDoc
<1>15. QED
  BY <1>12, <1>14 DEF Kept, Atomic!Next

(* Others change documents, and create none.                               *)
LEMMA OthersWork ==
  ASSUME TypeOK, Others
  PROVE  /\ users' \in [Uid -> Doc \cup {NoDoc}]
         /\ \A u \in Uid : users[u] = NoDoc => users'[u] = NoDoc
         /\ UNCHANGED <<accounts, current, handlers, pending>>
         /\ \/ users' = users
            \/ \E u \in Uid : users[u] # NoDoc /\ Atomic!Operation(u)
<1>1. CASE \E u \in Uid : Deleted(u)
  <2>1. PICK u \in Uid : Deleted(u)
    BY <1>1
  <2>2. CASE users[u] = NoDoc
    BY <2>1, <2>2 DEF Deleted, TypeOK
  <2>3. CASE users[u] # NoDoc
    BY <2>1, <2>3 DEF Deleted, TypeOK, Atomic!Operation, Atomic!DeleteUser
  <2>4. QED
    BY <2>2, <2>3
<1>2. CASE \E u \in Uid, r \in Role : RoleSet(u, r)
  <2>1. PICK u \in Uid, r \in Role : RoleSet(u, r)
    BY <1>2
  <2>2. users[u] \in Doc /\ WithRole(users[u], r) \in Doc
    BY <2>1 DEF RoleSet, TypeOK, WithRole, Doc
  <2>3. Atomic!Operation(u)
    BY <2>1 DEF RoleSet, WithRole, Atomic!Operation, Atomic!SetRole, Atomic!Role, Role
  <2>4. QED
    BY <2>1, <2>2, <2>3 DEF RoleSet, TypeOK
<1>3. CASE \E u \in Uid : \E n \in NftOf[u] : Uploaded(u, n)
  <2>1. PICK u \in Uid : \E n \in NftOf[u] : Uploaded(u, n)
    BY <1>3
  <2>2. PICK n \in NftOf[u] : Uploaded(u, n)
    BY <2>1
  <2>3. n \in Art /\ users[u] \in Doc
    BY <2>2 DEF Uploaded, TypeOK, Art
  <2>4. WithNft(users[u], n) \in Doc
    <3>1. Append(users[u].NFT, n) \in Seq(Art)
      BY <2>3, AppendType DEF Doc
    <3>2. QED
      BY <2>3, <3>1 DEF WithNft, Doc
  <2>5. Atomic!Operation(u)
    <3>1. Append(users[u].NFT, n) = users[u].NFT \o <<n>>
      BY <2>3 DEF Doc
    <3>2. users' = [users EXCEPT ![u].NFT = @ \o <<n>>]
      BY <2>2, <3>1 DEF Uploaded, WithNft
    <3>3. QED
      BY <2>2, <3>2 DEF Atomic!Operation, Atomic!AddNft
  <2>6. QED
    BY <2>2, <2>3, <2>4, <2>5 DEF Uploaded, TypeOK
<1>4. QED
  BY <1>1, <1>2, <1>3 DEF Others

LEMMA OthersInv ==
  ASSUME RInv, Others
  PROVE  Kept
<1>1. /\ UNCHANGED <<accounts, current, handlers, pending>>
      /\ \/ users' = users
         \/ \E u \in Uid : users[u] # NoDoc /\ Atomic!Operation(u)
      /\ RInv' /\ Settled' = Settled
  BY OthersWork, OthersStep DEF RInv
<1>2. QED
  BY <1>1 DEF Kept, Atomic!Next

-----------------------------------------------------------------------------
(* Types, whatever people do.  What reload() is followed by is not null:   *)
(* somebody has signed in when an account was created.                     *)

Somebody(hs, c) == \A i \in DOMAIN hs : hs[i].awaits # "create" => c # NoUser

TInv == TypeOK /\ \A a \in App : Somebody(handlers[a], current[a])

LEMMA TypesOfApp ==
  ASSUME TInv, NEW a \in App
  PROVE  /\ handlers[a] \in Seq(Handler) /\ pending[a] \in Seq(Uid)
         /\ current[a] \in Uid \cup {NoUser}
         /\ \A i \in DOMAIN handlers[a] :
              /\ handlers[a][i] \in Handler
              /\ handlers[a][i].awaits # "create" => current[a] \in Uid
         /\ handlers = [handlers EXCEPT ![a] = handlers[a]]
         /\ pending  = [pending EXCEPT ![a] = pending[a]]
         /\ current  = [current EXCEPT ![a] = current[a]]
<1>1. handlers[a] \in Seq(Handler) /\ pending[a] \in Seq(Uid)
      /\ current[a] \in Uid \cup {NoUser}
  BY DEF TInv, TypeOK
<1>2. \A i \in DOMAIN handlers[a] :
         /\ handlers[a][i] \in Handler
         /\ handlers[a][i].awaits # "create" => current[a] \in Uid
  BY <1>1 DEF TInv, Somebody
<1>3. /\ handlers = [handlers EXCEPT ![a] = handlers[a]]
      /\ pending  = [pending EXCEPT ![a] = pending[a]]
      /\ current  = [current EXCEPT ![a] = current[a]]
  BY DEF TInv, TypeOK
<1>4. QED
  BY <1>1, <1>2, <1>3

LEMMA TypeStep ==
  ASSUME TInv, NEW a \in App,
         NEW hs \in Seq(Handler), NEW ps \in Seq(Uid), NEW c \in Uid \cup {NoUser},
         handlers' = [handlers EXCEPT ![a] = hs],
         pending'  = [pending EXCEPT ![a] = ps],
         current'  = [current EXCEPT ![a] = c],
         users' \in [Uid -> Doc \cup {NoDoc}], accounts' \in SUBSET Uid,
         Somebody(hs, c)
  PROVE  TInv'
<1>1. TypeOK'
  BY DEF TInv, TypeOK
<1>2. \A b \in App : /\ handlers'[b] = IF b = a THEN hs ELSE handlers[b]
                     /\ current'[b] = IF b = a THEN c ELSE current[b]
  BY DEF TInv, TypeOK
<1>3. \A b \in App : Somebody(handlers'[b], current'[b])
  BY <1>2 DEF TInv
<1>4. QED
  BY <1>1, <1>3 DEF TInv

LEMMA SomebodyStays ==
  ASSUME TInv, NEW a \in App, NEW i \in DOMAIN handlers[a]
  PROVE  /\ RemoveAt(handlers[a], i) \in Seq(Handler)
         /\ Somebody(RemoveAt(handlers[a], i), current[a])
<1>1. /\ RemoveAt(handlers[a], i) \in Seq(Handler)
      /\ \A j \in DOMAIN RemoveAt(handlers[a], i) :
           \E k \in DOMAIN handlers[a] : RemoveAt(handlers[a], i)[j] = handlers[a][k]
  BY TypesOfApp, RemoveAtType
<1>2. Somebody(handlers[a], current[a])
  BY DEF TInv
<1>3. QED
  BY <1>1, <1>2 DEF Somebody

LEMMA ReturnsTypes ==
  ASSUME TInv, NEW a \in App, NEW i \in DOMAIN handlers[a], NEW v \in Uid,
         Returns(a, i, v)
  PROVE  TInv'
<1>1. Append(pending[a], v) \in Seq(Uid)
  BY TypesOfApp, AppendType
<1>2. /\ handlers' = [handlers EXCEPT ![a] = RemoveAt(handlers[a], i)]
      /\ pending'  = [pending EXCEPT ![a] = Append(pending[a], v)]
      /\ users' = users /\ accounts' = accounts /\ current' = current
  BY DEF Returns
<1>3. users' \in [Uid -> Doc \cup {NoDoc}] /\ accounts' \in SUBSET Uid
  BY <1>2 DEF TInv, TypeOK
<1>4. QED
  BY <1>1, <1>2, <1>3, SomebodyStays, TypesOfApp, TypeStep

(* A registration awaits its next answer, somebody being signed in.        *)
LEMMA GoesOnTypes ==
  ASSUME TInv, NEW a \in App, NEW i \in DOMAIN handlers[a],
         NEW step \in {"updateProfile", "reload"}, NEW c \in Uid,
         handlers' = [handlers EXCEPT ![a][i].awaits = step],
         current'  = [current EXCEPT ![a] = c],
         pending' = pending, users' = users, accounts' \in SUBSET Uid
  PROVE  TInv'
<1> DEFINE h  == [handlers[a][i] EXCEPT !.awaits = step]
           hs == [handlers[a] EXCEPT ![i] = h]
<1>1. h \in Handler
  BY TypesOfApp DEF Handler
<1>2. handlers' = [handlers EXCEPT ![a] = hs]
  OBVIOUS
<1> HIDE DEF h
<1>3. hs \in Seq(Handler)
  BY <1>1, TypesOfApp, ReplaceAtType
<1>4. Somebody(hs, c)
  BY RosterAssumption DEF Somebody
<1>5. users' \in [Uid -> Doc \cup {NoDoc}]
  BY DEF TInv, TypeOK
<1> HIDE DEF hs
<1>6. QED
  BY <1>2, <1>3, <1>4, <1>5, TypesOfApp, TypeStep

LEMMA AnsweredTypes ==
  ASSUME TInv, NEW a \in App, Answered(a)
  PROVE  TInv'
<1>1. PICK i \in DOMAIN handlers[a] :
        \/ Created(a, i) \/ CreateFails(a, i) \/ Updated(a, i)
        \/ Reloaded(a, i) \/ Throws(a, i)
  BY DEF Answered
<1> DEFINE h == handlers[a][i]
<1>2. /\ h.uid \in Uid
      /\ h.awaits # "create" => current[a] \in Uid
      /\ accounts \in SUBSET Uid /\ users \in [Uid -> Doc \cup {NoDoc}]
  BY TypesOfApp DEF Handler, TInv, TypeOK
<1>3. CASE Created(a, i)
  BY <1>2, <1>3, GoesOnTypes DEF Created
<1>4. CASE CreateFails(a, i)
  <2>1. /\ handlers' = [handlers EXCEPT ![a] = RemoveAt(handlers[a], i)]
        /\ pending' = [pending EXCEPT ![a] = pending[a]]
        /\ current' = [current EXCEPT ![a] = current[a]]
        /\ users' = users /\ accounts' = accounts
    BY <1>4, TypesOfApp DEF CreateFails
  <2>2. QED
    BY <1>2, <2>1, SomebodyStays, TypesOfApp, TypeStep
<1>5. CASE Updated(a, i)
  BY <1>2, <1>5, TypesOfApp, GoesOnTypes DEF Updated, Awaits
<1>6. CASE Reloaded(a, i)
  BY <1>2, <1>6, ReturnsTypes DEF Reloaded, Awaits
<1>7. CASE Throws(a, i)
  BY <1>2, <1>7, ReturnsTypes DEF Throws
<1>8. QED
  BY <1>1, <1>3, <1>4, <1>5, <1>6, <1>7

LEMMA PersonTypes ==
  ASSUME TInv, NEW a \in App, Person(a)
  PROVE  TInv'
<1>1. users \in [Uid -> Doc \cup {NoDoc}] /\ accounts \in SUBSET Uid
  BY DEF TInv, TypeOK
<1>2. CASE CloseApp(a)
  <2>1. /\ <<>> \in Seq(Handler) /\ <<>> \in Seq(Uid)
        /\ Somebody(<<>>, current[a])
    BY DEF Somebody
  <2>2. QED
    BY <1>1, <1>2, <2>1, TypesOfApp, TypeStep DEF CloseApp
<1>3. ASSUME NEW u \in Uid, PressRegister(a, u) PROVE TInv'
  <2> DEFINE h == [uid |-> u, awaits |-> "create"]
  <2>1. h \in Handler /\ h.awaits = "create"
    BY DEF Handler
  <2>2. handlers' = [handlers EXCEPT ![a] = Append(handlers[a], h)]
        /\ UNCHANGED <<users, accounts, current, pending>>
    BY <1>3 DEF PressRegister
  <2> HIDE DEF h
  <2>3. Append(handlers[a], h) \in Seq(Handler)
        /\ Somebody(Append(handlers[a], h), current[a])
    <3>1. /\ Append(handlers[a], h) \in Seq(Handler)
          /\ Append(handlers[a], h)[Len(handlers[a]) + 1] = h
          /\ \A i \in DOMAIN handlers[a] : Append(handlers[a], h)[i] = handlers[a][i]
          /\ DOMAIN Append(handlers[a], h) = 1..(Len(handlers[a]) + 1)
      BY <2>1, TypesOfApp, AppendType
    <3>2. DOMAIN handlers[a] = 1..Len(handlers[a]) /\ Len(handlers[a]) \in Nat
      BY TypesOfApp
    <3>3. \A i \in DOMAIN Append(handlers[a], h) :
            i \in DOMAIN handlers[a] \/ i = Len(handlers[a]) + 1
      BY <3>1, <3>2
    <3>4. Somebody(handlers[a], current[a])
      BY DEF TInv
    <3>5. QED
      BY <2>1, <3>1, <3>3, <3>4 DEF Somebody
  <2>4. /\ pending' = [pending EXCEPT ![a] = pending[a]]
        /\ current' = [current EXCEPT ![a] = current[a]]
        /\ users' = users /\ accounts' = accounts
        /\ pending[a] \in Seq(Uid) /\ current[a] \in Uid \cup {NoUser}
    BY <2>2, TypesOfApp
  <2> DEFINE hs == Append(handlers[a], h)
  <2>5. hs \in Seq(Handler) /\ Somebody(hs, current[a])
        /\ handlers' = [handlers EXCEPT ![a] = hs]
    BY <2>2, <2>3
  <2> HIDE DEF hs
  <2>6. QED
    BY <1>1, <2>4, <2>5, TypeStep
<1>4. ASSUME NEW u \in Uid, SignIn(a, u) PROVE TInv'
  <2>1. Somebody(handlers[a], u)
    BY RosterAssumption DEF Somebody
  <2>2. QED
    BY <1>1, <1>4, <2>1, TypesOfApp, TypeStep DEF SignIn
<1>5. QED
  BY <1>2, <1>3, <1>4 DEF Person

LEMMA CommitTypes ==
  ASSUME TInv, NEW a \in App, Commit(a)
  PROVE  TInv'
<1>1. Head(pending[a]) \in Uid /\ Tail(pending[a]) \in Seq(Uid)
  BY TypesOfApp, TailType DEF Commit
<1>2. NewDoc \in Doc
  BY DEF NewDoc, Doc, Role
<1>3. users' \in [Uid -> Doc \cup {NoDoc}] /\ accounts' \in SUBSET Uid
  BY <1>1, <1>2 DEF Commit, TInv, TypeOK
<1>4. Somebody(handlers[a], current[a])
  BY DEF TInv
<1>5. QED
  BY <1>1, <1>3, <1>4, TypesOfApp, TypeStep DEF Commit

-----------------------------------------------------------------------------
(* Accounts, whatever people do: whoever an app has signed in, registers   *)
(* beyond the first await or sets a document for has an account.           *)

Known(hs, ps, c, acc) ==
  /\ c # NoUser => c \in acc
  /\ \A i \in DOMAIN hs : hs[i].awaits # "create" => hs[i].uid \in acc
  /\ \A i \in DOMAIN ps : ps[i] \in acc

AllKnown == \A a \in App : Known(handlers[a], pending[a], current[a], accounts)

DInv == TInv /\ DocumentsHaveAccounts /\ AllKnown

(* One app goes on, and accounts do not go away.                           *)
LEMMA KnownStep ==
  ASSUME TypeOK, AllKnown, NEW a \in App, NEW hs, NEW ps, NEW c,
         handlers' = [handlers EXCEPT ![a] = hs],
         pending'  = [pending EXCEPT ![a] = ps],
         current'  = [current EXCEPT ![a] = c],
         accounts \subseteq accounts', Known(hs, ps, c, accounts')
  PROVE  AllKnown'
<1>1. \A b \in App : /\ handlers'[b] = IF b = a THEN hs ELSE handlers[b]
                     /\ pending'[b] = IF b = a THEN ps ELSE pending[b]
                     /\ current'[b] = IF b = a THEN c ELSE current[b]
  BY DEF TypeOK
<1>2. ASSUME NEW b \in App
      PROVE  Known(handlers'[b], pending'[b], current'[b], accounts')
  BY <1>1 DEF AllKnown, Known
<1>3. QED
  BY <1>2 DEF AllKnown

LEMMA KnownOfApp ==
  ASSUME DInv, NEW a \in App
  PROVE  /\ TInv /\ TypeOK /\ AllKnown
         /\ Known(handlers[a], pending[a], current[a], accounts)
  BY DEF DInv, TInv, AllKnown

LEMMA ReturnsKnown ==
  ASSUME DInv, NEW a \in App, NEW i \in DOMAIN handlers[a], NEW v \in Uid,
         v \in accounts, Returns(a, i, v)
  PROVE  AllKnown'
<1> DEFINE hs == RemoveAt(handlers[a], i)
           ps == Append(pending[a], v)
<1>1. /\ handlers' = [handlers EXCEPT ![a] = hs]
      /\ pending'  = [pending EXCEPT ![a] = ps]
      /\ current' = [current EXCEPT ![a] = current[a]]
      /\ accounts' = accounts
  BY KnownOfApp, TypesOfApp DEF Returns
<1>2. \A j \in DOMAIN hs : \E k \in DOMAIN handlers[a] : hs[j] = handlers[a][k]
  BY KnownOfApp, TypesOfApp, RemoveAtType
<1>3. /\ ps[Len(pending[a]) + 1] = v
      /\ \A j \in DOMAIN pending[a] : ps[j] = pending[a][j]
      /\ DOMAIN ps = DOMAIN pending[a] \cup {Len(pending[a]) + 1}
  BY KnownOfApp, TypesOfApp, AppendType, LenProperties
<1> HIDE DEF hs, ps
<1>4. Known(hs, ps, current[a], accounts)
  BY <1>2, <1>3, KnownOfApp DEF Known
<1>5. QED
  BY <1>1, <1>4, KnownOfApp, KnownStep

LEMMA GoesOnKnown ==
  ASSUME DInv, NEW a \in App, NEW i \in DOMAIN handlers[a],
         NEW step, NEW c,
         handlers' = [handlers EXCEPT ![a][i].awaits = step],
         current'  = [current EXCEPT ![a] = c],
         pending' = pending, accounts \subseteq accounts',
         handlers[a][i].uid \in accounts', c # NoUser => c \in accounts'
  PROVE  AllKnown'
<1> DEFINE h  == [handlers[a][i] EXCEPT !.awaits = step]
           hs == [handlers[a] EXCEPT ![i] = h]
<1>1. handlers[a] \in Seq(Handler) /\ handlers[a][i] \in Handler
  BY KnownOfApp, TypesOfApp
<1>2. h.uid = handlers[a][i].uid
  BY <1>1 DEF Handler
<1>3. handlers' = [handlers EXCEPT ![a] = hs]
  OBVIOUS
<1> HIDE DEF h
<1>4. /\ DOMAIN hs = DOMAIN handlers[a] /\ hs[i] = h
      /\ \A j \in DOMAIN hs : j # i => hs[j] = handlers[a][j]
  BY <1>1
<1> HIDE DEF hs
<1>5. Known(hs, pending[a], c, accounts')
  BY <1>2, <1>4, KnownOfApp DEF Known
<1>6. pending' = [pending EXCEPT ![a] = pending[a]]
  BY KnownOfApp, TypesOfApp
<1>7. QED
  BY <1>3, <1>5, <1>6, KnownOfApp, KnownStep

LEMMA AnsweredKnown ==
  ASSUME DInv, NEW a \in App, Answered(a)
  PROVE  AllKnown' /\ accounts \subseteq accounts' /\ users' = users
<1>1. PICK i \in DOMAIN handlers[a] :
        \/ Created(a, i) \/ CreateFails(a, i) \/ Updated(a, i)
        \/ Reloaded(a, i) \/ Throws(a, i)
  BY DEF Answered
<1>2. /\ Known(handlers[a], pending[a], current[a], accounts)
      /\ handlers[a][i] \in Handler
      /\ handlers[a][i].awaits # "create" =>
           /\ handlers[a][i].uid \in accounts
           /\ current[a] \in Uid /\ current[a] \in accounts
      /\ current = [current EXCEPT ![a] = current[a]]
      /\ pending = [pending EXCEPT ![a] = pending[a]]
  BY KnownOfApp, TypesOfApp, RosterAssumption DEF Known
<1>3. CASE Created(a, i)
  BY <1>3, GoesOnKnown DEF Created
<1>4. CASE CreateFails(a, i)
  <2>1. \A j \in DOMAIN RemoveAt(handlers[a], i) :
          \E k \in DOMAIN handlers[a] : RemoveAt(handlers[a], i)[j] = handlers[a][k]
    BY KnownOfApp, TypesOfApp, RemoveAtType
  <2>2. Known(RemoveAt(handlers[a], i), pending[a], current[a], accounts)
    BY <1>2, <2>1 DEF Known
  <2>3. QED
    BY <1>2, <1>4, <2>2, KnownOfApp, KnownStep DEF CreateFails
<1>5. CASE Updated(a, i)
  <2>1. handlers[a][i].awaits = "updateProfile"
    BY <1>5 DEF Updated, Awaits
  <2>2. QED
    BY <1>2, <1>5, <2>1, GoesOnKnown DEF Updated
<1>6. CASE Reloaded(a, i)
  BY <1>2, <1>6, ReturnsKnown DEF Reloaded, Awaits, Returns
<1>7. CASE Throws(a, i)
  BY <1>2, <1>7, ReturnsKnown DEF Throws, Awaits, Returns, Handler
<1>8. QED
  BY <1>1, <1>3, <1>4, <1>5, <1>6, <1>7

LEMMA PersonKnown ==
  ASSUME DInv, NEW a \in App, Person(a)
  PROVE  AllKnown' /\ accounts' = accounts /\ users' = users
<1>1. /\ Known(handlers[a], pending[a], current[a], accounts)
      /\ handlers[a] \in Seq(Handler)
      /\ handlers = [handlers EXCEPT ![a] = handlers[a]]
      /\ pending  = [pending EXCEPT ![a] = pending[a]]
      /\ current  = [current EXCEPT ![a] = current[a]]
  BY KnownOfApp, TypesOfApp
<1>2. CASE CloseApp(a)
  <2>1. Known(<<>>, <<>>, current[a], accounts)
    BY <1>1 DEF Known
  <2>2. QED
    BY <1>1, <1>2, <2>1, KnownOfApp, KnownStep DEF CloseApp
<1>3. ASSUME NEW u \in Uid, PressRegister(a, u)
      PROVE  AllKnown' /\ accounts' = accounts /\ users' = users
  <2> DEFINE h  == [uid |-> u, awaits |-> "create"]
             hs == Append(handlers[a], h)
  <2>1. h \in Handler /\ h.awaits = "create"
    BY DEF Handler
  <2>2. /\ handlers' = [handlers EXCEPT ![a] = hs]
        /\ UNCHANGED <<users, accounts, current, pending>>
    BY <1>3 DEF PressRegister
  <2> HIDE DEF h
  <2>3. /\ hs[Len(handlers[a]) + 1] = h
        /\ \A j \in DOMAIN handlers[a] : hs[j] = handlers[a][j]
        /\ DOMAIN hs = DOMAIN handlers[a] \cup {Len(handlers[a]) + 1}
    BY <1>1, <2>1, AppendType, LenProperties
  <2> HIDE DEF hs
  <2>4. Known(hs, pending[a], current[a], accounts)
    BY <1>1, <2>1, <2>3 DEF Known
  <2>5. QED
    BY <1>1, <2>2, <2>4, KnownOfApp, KnownStep
<1>4. ASSUME NEW u \in Uid, SignIn(a, u)
      PROVE  AllKnown' /\ accounts' = accounts /\ users' = users
  <2>1. Known(handlers[a], pending[a], u, accounts)
    BY <1>1, <1>4 DEF Known, SignIn
  <2>2. QED
    BY <1>1, <1>4, <2>1, KnownOfApp, KnownStep DEF SignIn
<1>5. QED
  BY <1>2, <1>3, <1>4 DEF Person

(* The document that is set is that of somebody who has an account.        *)
LEMMA CommitKnown ==
  ASSUME DInv, NEW a \in App, Commit(a)
  PROVE  AllKnown' /\ DocumentsHaveAccounts'
<1>1. Known(handlers[a], pending[a], current[a], accounts)
  BY KnownOfApp
<1>2. /\ Head(pending[a]) = pending[a][1] /\ 1 \in DOMAIN pending[a]
      /\ \A i \in DOMAIN Tail(pending[a]) :
           i + 1 \in DOMAIN pending[a] /\ Tail(pending[a])[i] = pending[a][i + 1]
  BY KnownOfApp, TypesOfApp, TailType DEF Commit
<1>3. Known(handlers[a], Tail(pending[a]), current[a], accounts)
  BY <1>1, <1>2 DEF Known
<1>4. AllKnown'
  BY <1>3, KnownOfApp, TypesOfApp, KnownStep DEF Commit
<1>5. Head(pending[a]) \in accounts
  BY <1>1, <1>2 DEF Known
<1>6. DocumentsHaveAccounts'
  BY <1>5, KnownOfApp DEF DInv, DocumentsHaveAccounts, Commit, TypeOK
<1>7. QED
  BY <1>4, <1>6

-----------------------------------------------------------------------------
(* The theorems.                                                           *)

LEMMA RInvInitially == Init => RInv
<1> SUFFICES ASSUME Init PROVE RInv
  OBVIOUS
<1>1. TypeOK
  BY RosterAssumption DEF Init, TypeOK
<1>2. \A a \in App : handlers[a] = <<>> /\ pending[a] = <<>>
  BY DEF Init
<1>3. \A a \in App, u \in Uid : ~Awaited(a, u)
  BY <1>2, EmptyExpectsNobody DEF Awaited
<1>4. \A a \in App : AppOK(handlers[a], pending[a], current[a])
  BY <1>2 DEF AppOK
<1>5. \A u \in Uid : users[u] # NoDoc => u \in accounts
  BY DEF Init
<1>6. QED
  BY <1>1, <1>3, <1>4, <1>5 DEF RInv

LEMMA RInvInductive ==
  ASSUME Patient
  PROVE  RInv /\ [Next]_vars => Kept
<1> SUFFICES ASSUME RInv, [Next]_vars PROVE Kept
  OBVIOUS
<1>1. CASE UNCHANGED vars
  <2>1. RInv'
    BY <1>1 DEF vars, RInv, TypeOK, Awaited
  <2>2. UNCHANGED <<users, Settled>>
    BY <1>1 DEF vars, Settled, Awaited
  <2>3. QED
    BY <2>1, <2>2 DEF Kept
<1>2. CASE Others
  BY <1>2, OthersInv
<1>3. ASSUME NEW a \in App, Person(a) PROVE Kept
  <2>1. CASE CloseApp(a)
    BY <2>1, IdleInv DEF CloseApp
  <2>2. ASSUME NEW u \in Uid, PressRegister(a, u) PROVE Kept
    BY <2>2, PressRegisterInv
  <2>3. ASSUME NEW u \in Uid, SignIn(a, u) PROVE Kept
    BY <2>3, SignInInv
  <2>4. QED
    BY <1>3, <2>1, <2>2, <2>3 DEF Person
<1>4. ASSUME NEW a \in App, Answered(a) PROVE Kept
  <2>1. PICK i \in DOMAIN handlers[a] :
          \/ Created(a, i) \/ CreateFails(a, i) \/ Updated(a, i)
          \/ Reloaded(a, i) \/ Throws(a, i)
    BY <1>4 DEF Answered
  <2>2. CASE Created(a, i)
    BY <2>2, CreatedInv
  <2>3. CASE CreateFails(a, i)
    BY <2>3, CreateFailsInv
  <2>4. CASE Updated(a, i)
    BY <2>4, UpdatedInv
  <2>5. CASE Reloaded(a, i)
    BY <2>5, ReturnsInv DEF Reloaded, Awaits
  <2>6. CASE Throws(a, i)
    BY <2>6, ReturnsInv DEF Throws, Awaits
  <2>7. QED
    BY <2>1, <2>2, <2>3, <2>4, <2>5, <2>6
<1>5. ASSUME NEW a \in App, Commit(a) PROVE Kept
  BY <1>5, CommitInv
<1>6. QED
  BY <1>1, <1>2, <1>3, <1>4, <1>5 DEF Next

LEMMA TInvInductive == (Init => TInv) /\ (TInv /\ [Next]_vars => TInv')
<1>1. Init => TInv
  <2>1. Init => TypeOK
    BY RInvInitially DEF RInv
  <2>2. Init => \A a \in App : Somebody(handlers[a], current[a])
    BY DEF Init, Somebody
  <2>3. QED
    BY <2>1, <2>2 DEF TInv
<1>2. TInv /\ [Next]_vars => TInv'
  <2> SUFFICES ASSUME TInv, [Next]_vars PROVE TInv'
    OBVIOUS
  <2>1. CASE UNCHANGED vars
    BY <2>1 DEF vars, TInv, TypeOK
  <2>2. CASE Others
    BY <2>2, OthersWork DEF TInv, TypeOK
  <2>3. QED
    BY <2>1, <2>2, PersonTypes, AnsweredTypes, CommitTypes DEF Next
<1>3. QED
  BY <1>1, <1>2

(* The shapes of the variables: in particular what FireAuth returns after  *)
(* reload() (fire_auth.dart:20) is a user, never null.                     *)
THEOREM RegistrationTypes == Spec => []TypeOK
<1>1. TInv => TypeOK
  BY DEF TInv
<1>2. QED
  BY <1>1, TInvInductive, PTL DEF Spec

(* Whatever registrations and sign-ins overlap, a document is only there   *)
(* for somebody who has an account: what auth.currentUser answers          *)
(* (fire_auth.dart:20) always has one.                                     *)
THEOREM DocumentsNeedAccounts == Spec => []DocumentsHaveAccounts
<1>1. Init => DInv
  <2> SUFFICES ASSUME Init PROVE DInv
    OBVIOUS
  <2>1. DocumentsHaveAccounts
    BY DEF Init, DocumentsHaveAccounts
  <2>2. AllKnown
    BY DEF Init, AllKnown, Known
  <2>3. QED
    BY <2>1, <2>2, TInvInductive DEF DInv
<1>2. DInv /\ [Next]_vars => DInv'
  <2> SUFFICES ASSUME DInv, [Next]_vars PROVE DInv'
    OBVIOUS
  <2>1. TInv'
    BY TInvInductive DEF DInv
  <2>2. CASE UNCHANGED vars
    BY <2>1, <2>2 DEF vars, DInv, AllKnown, DocumentsHaveAccounts
  <2>3. CASE Others
    <3>1. /\ \A u \in Uid : users[u] = NoDoc => users'[u] = NoDoc
          /\ UNCHANGED <<accounts, current, handlers, pending>>
      BY <2>3, OthersWork DEF DInv, TInv
    <3>2. QED
      BY <2>1, <3>1 DEF DInv, AllKnown, DocumentsHaveAccounts
  <2>4. ASSUME NEW a \in App, Person(a) PROVE DInv'
    BY <2>1, <2>4, PersonKnown DEF DInv, DocumentsHaveAccounts
  <2>5. ASSUME NEW a \in App, Answered(a) PROVE DInv'
    BY <2>1, <2>5, AnsweredKnown DEF DInv, DocumentsHaveAccounts
  <2>6. ASSUME NEW a \in App, Commit(a) PROVE DInv'
    BY <2>1, <2>6, CommitKnown DEF DInv
  <2>7. QED
    BY <2>2, <2>3, <2>4, <2>5, <2>6 DEF Next
<1>3. DInv => DocumentsHaveAccounts
  BY DEF DInv
<1>4. QED
  BY <1>1, <1>2, <1>3, PTL DEF Spec

(* A registration only ever creates a document, and replaces none          *)
(* (register_page.dart:107), when people wait for it before they go on:    *)
(* then auth.currentUser (fire_auth.dart:20) is the account just created,  *)
(* and Auth gives an email one account, so no other app sets its document. *)
THEOREM RegistrationReplacesNothing ==
  ASSUME Patient
  PROVE  Spec => OnlyNewDocuments
<1>1. RInv /\ [Next]_vars =>
        [\A a \in App : Commit(a) => users[Head(pending[a])] = NoDoc]_vars
  <2> SUFFICES ASSUME RInv, NEW a \in App, Commit(a)
               PROVE  users[Head(pending[a])] = NoDoc
    OBVIOUS
  <2>1. QED
    BY CommitOfNewDocument DEF Commit
<1>2. QED
  BY <1>1, RInvInitially, RInvInductive, PTL DEF Spec, OnlyNewDocuments, Kept

(* When people wait, a registration is one step to everybody else, and     *)
(* makes a document once: an account whose document was made, or whose     *)
(* registration was cut off by closing the app, is never written for       *)
(* again, so no deleted user comes back.  The admin console is specified   *)
(* against, and modelled with, wallet apps that do just this.              *)
THEOREM RegistrationWorksAtomically ==
  ASSUME Patient
  PROVE  Spec => RegistrationIsAtomic
<1>1. Init => RInv /\ Atomic!Init
  <2> SUFFICES ASSUME Init PROVE RInv /\ Atomic!Init
    OBVIOUS
  <2>1. \A a \in App, u \in Uid : ~Awaited(a, u)
    BY EmptyExpectsNobody DEF Init, Awaited
  <2>2. Settled = accounts
    BY <2>1 DEF Init, Settled
  <2>3. QED
    BY <2>2, RInvInitially DEF Init, Atomic!Init
<1>2. RInv /\ [Next]_vars => RInv' /\ [Atomic!Next]_<<users, Settled>>
  BY RInvInductive DEF Kept
<1>3. QED
  BY <1>1, <1>2, PTL DEF Spec, RegistrationIsAtomic, Atomic!Spec, Atomic!vars
=============================================================================
