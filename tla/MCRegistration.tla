---------------------------- MODULE MCRegistration ----------------------------
(* A small roster for Registration: a manager with an NFT, two newcomers.  *)
EXTENDS Registration, TLC

CONSTANTS max, una, uwe   \* a manager, two who have no account yet

OneNft == [u \in Uid |-> {"n1"}]

MaxIsThere ==
  [u \in Uid |-> IF u = max THEN [role |-> "manager", NFT |-> <<"n1">>]
                 ELSE NoDoc]

Alike == Permutations(App) \cup Permutations({una, uwe})
=============================================================================
