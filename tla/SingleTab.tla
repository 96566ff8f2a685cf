------------------------------- MODULE SingleTab -------------------------------
(***************************************************************************)
(* The admin console at a single tab, beside any number of wallet apps,    *)
(* and what the staff at that tab see of the collection.                   *)
(***************************************************************************)
EXTENDS AdminConsole

(* The documents as the tab sees them, through its own pending writes.     *)
TheTab   == CHOOSE s \in Session : TRUE
SeenDocs == [u \in Uid |-> View(TheTab, u)]
Seen     == INSTANCE AtomicUsers WITH docs <- SeenDocs

(* The staff at a single tab, whatever the wallet app does meanwhile, see  *)
(* every button take effect at once and on one field only: a read shows    *)
(* the tab its own writes that are still queued (nftadd_page.dart:80-87,   *)
(* nftdetails_page.dart:86-113, main_page.dart:113-116 read, change and    *)
(* write back whole documents), so no work done here undoes other work     *)
(* done here, and a user who was deleted here stays deleted.               *)
OneTabIsAtomic == Seen!Spec
=============================================================================
