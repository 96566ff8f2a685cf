--------------------------- MODULE MCAdminConsole ---------------------------
(* Small rosters for AdminConsole: an admin and a user.                   *)
EXTENDS SingleTab, TLC

CONSTANTS ada, una   \* an admin, a user

(* What may be typed in or uploaded for each user.                         *)
NftsOfUna == [u \in Uid |-> IF u = una THEN {"n1", "n2"} ELSE {}]
OneNftOfUna == [u \in Uid |-> IF u = una THEN {"n1"} ELSE {}]
OneNftEach == [u \in Uid |-> IF u = una THEN {"n1"} ELSE {"m1"}]

RoleOf(u) == IF u = ada THEN "admin" ELSE "user"

EmptyWallets == [u \in Uid |-> [role |-> RoleOf(u), NFT |-> <<>>]]
UnaCollects  == [EmptyWallets EXCEPT ![una].NFT = <<"n1", "n2">>]
UnaIsNew     == [EmptyWallets EXCEPT ![una] = NoDoc]
=============================================================================
