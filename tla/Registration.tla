----------------------------- MODULE Registration -----------------------------
(***************************************************************************)
(* Registration in the wallet app (clientapp/lib): an account of Firebase  *)
(* Auth is created first, its document in the users collection is set      *)
(* afterwards, and between the two FireAuth awaits updateProfile and       *)
(* reload and then takes `auth.currentUser` for the user it has created.   *)
(*                                                                         *)
(* An App is a running wallet app with an Auth instance of its own.        *)
(* Accounts are identified with their uid, an email with the account it    *)
(* may have.                                                               *)
(*                                                                         *)
(* Abstractions.  The login and the register page are one step apart, so   *)
(* pages are left out: a person may start either of their handlers at any  *)
(* time.  A request takes effect and is answered in one step.  The name    *)
(* that is stored is left out.  `current` survives closing the app.        *)
(***************************************************************************)
EXTENDS UsersCollection

CONSTANTS
  App,        \* the running wallet apps
  Seeded,     \* the collection at the start; who has a document has an account
  Patient,    \* whether people wait for a registration before going on
  Closers,    \* the apps that may be closed
  Deletable,  \* the users an admin may delete
  MaxNfts,    \* bound on the length of a document's NFT list
  MaxBusy,    \* bound on the registrations and writes of an app in flight
  NoUser      \* nobody has signed in

ASSUME RosterAssumption ==
  /\ Seeded \in [Uid -> Doc \cup {NoDoc}]
  /\ Closers \subseteq App /\ Deletable \subseteq Uid
  /\ Patient \in BOOLEAN /\ {MaxNfts, MaxBusy} \subseteq Nat
  /\ NoUser \notin Uid

VARIABLES
  users,     \* the stored documents
  accounts,  \* the accounts of Firebase Auth
  current,   \* current[a]: auth.currentUser of app a
  handlers,  \* handlers[a]: the registrations awaiting an answer
  pending    \* pending[a]: the users whose document is being set, oldest first

vars == <<users, accounts, current, handlers, pending>>

(* What a registration is waiting for.                                     *)
Handler == [uid : Uid, awaits : {"create", "updateProfile", "reload"}]

Idle(a) == handlers[a] = <<>> /\ pending[a] = <<>>

Awaits(a, i, step) == i \in DOMAIN handlers[a] /\ handlers[a][i].awaits = step

-----------------------------------------------------------------------------
(* The person.                                                             *)

(* Wrong: the document is set while the account is being created           *)
(* (DocumentsHaveAccounts).                                                *)
PressRegisterAtOnce(a, u) ==
  /\ Patient => Idle(a)
  /\ Len(handlers[a]) + Len(pending[a]) < MaxBusy
  /\ handlers' = [handlers EXCEPT ![a] =
                    Append(@, [uid |-> u, awaits |-> "create"])]
  /\ pending'  = [pending EXCEPT ![a] = Append(@, u)]
  /\ UNCHANGED <<users, accounts, current>>

PressRegister(a, u) ==
  /\ Patient => Idle(a)
  /\ Len(handlers[a]) + Len(pending[a]) < MaxBusy
  /\ handlers' = [handlers EXCEPT ![a] =
                    Append(@, [uid |-> u, awaits |-> "create"])]
  /\ UNCHANGED <<users, accounts, current, pending>>

(* Wrong: signing in does not wait for a registration                      *)
(* (RegistrationIsAtomic).                                                 *)
SignInMeanwhile(a, u) ==
  /\ u \in accounts
  /\ current' = [current EXCEPT ![a] = u]
  /\ UNCHANGED <<users, accounts, handlers, pending>>

SignIn(a, u) ==
  /\ Patient => Idle(a)
  /\ u \in accounts
  /\ current' = [current EXCEPT ![a] = u]
  /\ UNCHANGED <<users, accounts, handlers, pending>>

(* The queue of writes and what waits for an answer go with the app.       *)
CloseApp(a) ==
  /\ a \in Closers
  /\ handlers' = [handlers EXCEPT ![a] = <<>>]
  /\ pending'  = [pending EXCEPT ![a] = <<>>]
  /\ UNCHANGED <<users, accounts, current>>

-----------------------------------------------------------------------------
(* registerUsingEmailPassword and the end of postRegister.                 *)

Created(a, i) ==
  LET u == handlers[a][i].uid
  IN  /\ Awaits(a, i, "create") /\ u \notin accounts
      /\ accounts' = accounts \cup {u}
      /\ current'  = [current EXCEPT ![a] = u]
      /\ handlers' = [handlers EXCEPT ![a][i].awaits = "updateProfile"]
      /\ UNCHANGED <<users, pending>>

(* Wrong: an email in use signs its owner in and goes on as if it were new  *)
(* (OnlyNewDocuments).                                                      *)
CreateFailsToSignIn(a, i) ==
  /\ Awaits(a, i, "create") /\ handlers[a][i].uid \in accounts
  /\ current'  = [current EXCEPT ![a] = handlers[a][i].uid]
  /\ handlers' = [handlers EXCEPT ![a][i].awaits = "updateProfile"]
  /\ UNCHANGED <<users, accounts, pending>>

(* Wrong: auth.currentUser is returned after any exception (TypeOK).        *)
CreateFailsToCurrent(a, i) ==
  /\ Awaits(a, i, "create")
  /\ handlers' = [handlers EXCEPT ![a] = RemoveAt(@, i)]
  /\ pending'  = [pending EXCEPT ![a] = Append(@, current[a])]
  /\ UNCHANGED <<users, accounts, current>>

(* The email is in use, the password weak, or the network down: user is    *)
(* null and nothing follows.                                               *)
CreateFails(a, i) ==
  /\ Awaits(a, i, "create")
  /\ handlers' = [handlers EXCEPT ![a] = RemoveAt(@, i)]
  /\ UNCHANGED <<users, accounts, current, pending>>

Updated(a, i) ==
  /\ Awaits(a, i, "updateProfile")
  /\ handlers' = [handlers EXCEPT ![a][i].awaits = "reload"]
  /\ UNCHANGED <<users, accounts, current, pending>>

(* FireAuth returns v, and postRegister sets the document of v.            *)
Returns(a, i, v) ==
  /\ handlers' = [handlers EXCEPT ![a] = RemoveAt(@, i)]
  /\ pending'  = [pending EXCEPT ![a] = Append(@, v)]
  /\ UNCHANGED <<users, accounts, current>>

Reloaded(a, i) == Awaits(a, i, "reload") /\ Returns(a, i, current[a])

(* Wrong: after an exception null is returned (AccountsGetDocuments).       *)
ThrowsToNull(a, i) ==
  /\ Awaits(a, i, "updateProfile") \/ Awaits(a, i, "reload")
  /\ handlers' = [handlers EXCEPT ![a] = RemoveAt(@, i)]
  /\ UNCHANGED <<users, accounts, current, pending>>

(* updateProfile or reload throws: the exception is caught, user is still  *)
(* the account that was created, and it is returned.                       *)
Throws(a, i) ==
  /\ Awaits(a, i, "updateProfile") \/ Awaits(a, i, "reload")
  /\ Returns(a, i, handlers[a][i].uid)

(* set() creates the document or replaces the whole of it.                 *)
Commit(a) ==
  /\ pending[a] # <<>>
  /\ users'   = [users EXCEPT ![Head(pending[a])] = NewDoc]
  /\ pending' = [pending EXCEPT ![a] = Tail(@)]
  /\ UNCHANGED <<accounts, current, handlers>>

-----------------------------------------------------------------------------
(* What else happens to documents: the staff's work, and uploads.          *)

RoleSet(u, r) ==
  /\ users[u] # NoDoc
  /\ users' = [users EXCEPT ![u] = WithRole(@, r)]
  /\ UNCHANGED <<accounts, current, handlers, pending>>

Deleted(u) ==
  /\ u \in Deletable
  /\ users' = [users EXCEPT ![u] = NoDoc]
  /\ UNCHANGED <<accounts, current, handlers, pending>>

Uploaded(u, n) ==
  /\ users[u] # NoDoc
  /\ Len(users[u].NFT) < MaxNfts /\ ~Contains(users[u].NFT, n)
  /\ users' = [users EXCEPT ![u] = WithNft(@, n)]
  /\ UNCHANGED <<accounts, current, handlers, pending>>

-----------------------------------------------------------------------------
Init ==
  /\ users    = Seeded
  /\ accounts = {u \in Uid : Seeded[u] # NoDoc}
  /\ current  = [a \in App |-> NoUser]
  /\ handlers = [a \in App |-> <<>>]
  /\ pending  = [a \in App |-> <<>>]

Person(a) == CloseApp(a) \/ \E u \in Uid : PressRegister(a, u) \/ SignIn(a, u)

Answered(a) == \E i \in DOMAIN handlers[a] :
  Created(a, i) \/ CreateFails(a, i) \/ Updated(a, i) \/ Reloaded(a, i)
                \/ Throws(a, i)

Others == \E u \in Uid :
  \/ Deleted(u)
  \/ \E r \in Role : RoleSet(u, r)
  \/ \E n \in NftOf[u] : Uploaded(u, n)

Next == Others \/ \E a \in App : Person(a) \/ Answered(a) \/ Commit(a)

Spec == Init /\ [][Next]_vars

(* Every request is answered, and Firestore's queue goes on by itself.     *)
FairSpec == Spec /\ \A a \in App : WF_vars(Answered(a)) /\ WF_vars(Commit(a))

-----------------------------------------------------------------------------
(* PROPERTIES                                                              *)

(* The shapes of the variables.                                            *)
TypeOK ==
  /\ users \in [Uid -> Doc \cup {NoDoc}]
  /\ accounts \in SUBSET Uid
  /\ current \in [App -> Uid \cup {NoUser}]
  /\ handlers \in [App -> Seq(Handler)]
  /\ pending \in [App -> Seq(Uid)]

(* "The user can store NFT in the Application and see them" (README.md:5): *)
(* the document a registration sets is a new one.  It never replaces one   *)
(* that is there, with its NFTs and its role, although the code names the  *)
(* user by what auth.currentUser happens to be after two awaits.           *)
OnlyNewDocuments ==
  [][\A a \in App : Commit(a) => users[Head(pending[a])] = NoDoc]_vars

(* A document is only ever there for somebody who can sign in to it: the    *)
(* account comes first (fire_auth.dart:13, register_page.dart:107), also    *)
(* when registrations and sign-ins of one app overlap.                     *)
DocumentsHaveAccounts == \A u \in Uid : users[u] # NoDoc => u \in accounts

(* Unless the app is closed, an account that was created gets its document *)
(* (register_page.dart:107), also when updateProfile or reload fails: the  *)
(* email is in use from then on, and would be refused a second time.       *)
Owed(a, u) == \E i \in DOMAIN handlers[a] :
  handlers[a][i].uid = u /\ ~Awaits(a, i, "create")

AccountsGetDocuments ==
  \A a \in App \ Closers, u \in Uid : Owed(a, u) ~> users[u] # NoDoc

(* The document of u is still to come from these registrations and writes. *)
Expects(hs, ps, u) ==
  \/ \E i \in DOMAIN hs : hs[i].awaits # "create" /\ hs[i].uid = u
  \/ \E i \in DOMAIN ps : ps[i] = u

Awaited(a, u) == Expects(handlers[a], pending[a], u)

Settled == {u \in accounts : \A a \in App : ~Awaited(a, u)}

(* To everybody else a registration is one step, however its account,      *)
(* profile and document come about and whichever apps are closed meanwhile *)
(* (fire_auth.dart:10-35, register_page.dart:107): a newcomer gets a new   *)
(* document, once, so nobody who was deleted comes back.  This is what the *)
(* admin console's work is specified against, and takes the wallet apps to *)
(* do.                                                                     *)
Atomic == INSTANCE AtomicUsers WITH docs <- users, registered <- Settled

RegistrationIsAtomic == Atomic!Spec
=============================================================================
