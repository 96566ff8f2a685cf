--------------------------- MODULE UsersCollection ---------------------------
(***************************************************************************)
(* The Firestore collection "users": one document per registered user,     *)
(* named by the Auth uid, with the fields role and NFT.  (The third field, *)
(* name, is written once at registration and afterwards only written back  *)
(* as it was read, so it is left out.)  Firestore itself is external: this *)
(* module holds what the applications rely on when they call get, update,  *)
(* delete and arrayUnion.                                                  *)
(***************************************************************************)
EXTENDS Integers, Sequences, SequencesExt

CONSTANTS
  Uid,      \* the user ids Firebase Auth hands out
  NftOf,    \* NftOf[u]: the NFTs (name, image, description) typed in for user u
  NoDoc     \* what a read returns when the document does not exist

Role  == {"admin", "manager", "user"}
Staff == {"admin", "manager"}           \* the roles the console lets in
Art   == UNION {NftOf[u] : u \in Uid}
Doc   == [role : Role, NFT : Seq(Art)]
WalletOf(u) == [role : Role, NFT : Seq(NftOf[u])]   \* a Doc with u's NFTs only

ASSUME NftOfAssumption == DOMAIN NftOf = Uid
ASSUME NoDocAssumption == NoDoc \notin Doc

-----------------------------------------------------------------------------
(* The changes the handlers make to a document they have read.             *)

WithRole(d, r)     == [d EXCEPT !.role = r]
WithNft(d, n)      == [d EXCEPT !.NFT = Append(@, n)]
EditedNft(d, i, n) == [d EXCEPT !.NFT = ReplaceAt(@, i, n)]
WithoutNft(d, i)   == [d EXCEPT !.NFT = RemoveAt(@, i)]

(* The document register_page.dart writes for a new user.                  *)
NewDoc == [role |-> "user", NFT |-> <<>>]

-----------------------------------------------------------------------------
(* A write is a record with at least the fields uid and data; deleting a   *)
(* document is writing NoDoc.  update() of a document that does not exist  *)
(* is rejected and delete() of one is accepted: neither creates it.        *)

Accepted(docs, w) == docs[w.uid] # NoDoc \/ w.data = NoDoc

Written(docs, w) ==
  IF docs[w.uid] = NoDoc THEN docs ELSE [docs EXCEPT ![w.uid] = w.data]

(* A client reads the stored documents through its own writes that the     *)
(* server has not acknowledged yet (queue is the FIFO queue of these).     *)

IsLastWrite(queue, u, k) ==
  /\ queue[k].uid = u
  /\ \A j \in DOMAIN queue : queue[j].uid = u => j <= k

ViewThrough(docs, queue, u) ==
  IF \/ docs[u] = NoDoc
     \/ \E k \in DOMAIN queue : queue[k].uid = u /\ queue[k].data = NoDoc
    THEN NoDoc
  ELSE IF \E k \in DOMAIN queue : IsLastWrite(queue, u, k)
    THEN queue[CHOOSE k \in DOMAIN queue : IsLastWrite(queue, u, k)].data
  ELSE docs[u]
=============================================================================
