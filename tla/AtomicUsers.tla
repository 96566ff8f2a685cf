----------------------------- MODULE AtomicUsers -----------------------------
(***************************************************************************)
(* What the buttons of the admin application promise: each changes one     *)
(* field of one document, at once.  The README says no more than this of a *)
(* manager's and an admin's work (README.md:11-12).  And what they rely on *)
(* of the wallet app: a user's document is made once, and once deleted it  *)
(* stays deleted.                                                          *)
(***************************************************************************)
EXTENDS UsersCollection

CONSTANT Seeded
VARIABLES
  docs,         \* the collection as the staff see it
  registered    \* the users whose document was made, or never will be

vars == <<docs, registered>>

SetRole(u, r)    == docs' = [docs EXCEPT ![u].role = r]
AddNft(u, n)     == docs' = [docs EXCEPT ![u].NFT = @ \o <<n>>]
EditNft(u, i, n) == docs' = [docs EXCEPT ![u].NFT[i] = n]
RemoveNft(u, i)  == docs' = [docs EXCEPT ![u].NFT =
                               SubSeq(@, 1, i-1) \o SubSeq(@, i+1, Len(@))]
DeleteUser(u)    == docs' = [docs EXCEPT ![u] = NoDoc]

(* The wallet app's part: a newcomer gets a document, or never will: the   *)
(* registration was cut short, or the document deleted before it was seen. *)
NewUser(u) ==
  /\ u \notin registered /\ docs[u] = NoDoc
  /\ registered' = registered \cup {u}
  /\ docs' = [docs EXCEPT ![u] = NewDoc]

MissedUser(u) ==
  /\ u \notin registered /\ registered' = registered \cup {u}
  /\ docs' = docs

Operation(u) ==
  \/ \E r \in Role : SetRole(u, r)
  \/ \E n \in NftOf[u] : AddNft(u, n)
  \/ \E i \in DOMAIN docs[u].NFT :
       RemoveNft(u, i) \/ \E n \in NftOf[u] : EditNft(u, i, n)
  \/ DeleteUser(u)

Init == docs = Seeded /\ registered = {u \in Uid : Seeded[u] # NoDoc}

Next == \E u \in Uid :
  \/ docs[u] # NoDoc /\ Operation(u) /\ UNCHANGED registered
  \/ NewUser(u) \/ MissedUser(u)

Spec == Init /\ [][Next]_vars
=============================================================================
