----------------------------- MODULE WebBootProofs -----------------------------
(***************************************************************************)
(* Theorems of WebBoot, for any number of pages and versions.              *)
(***************************************************************************)
EXTENDS WebBoot, TLAPS

(* One page: it counts its tag.                                            *)
Counts(s) == s.tags = IF s.scriptLoaded THEN 1 ELSE 0

(* One page, given the active worker: what has loaded before the timer     *)
(* fired found one.                                                        *)
Served(s, active) == s.scriptLoaded /\ s.timer => active # NoWorker

(* A worker of r will tell page q about its state.                         *)
Heard(r, q) == \E slot \in Slot : r[slot] # NoWorker /\ q \in r[slot].listeners

(* Before the timer is set nothing is loaded, and no worker can load the   *)
(* page yet: those that listen are past the promise.                       *)
BInv ==
  /\ TypeOK
  /\ \A p \in Page : Counts(page[p]) /\ Served(page[p], reg.active)
  /\ \A p \in Page : IsAt(p, "parsed") => ~page[p].scriptLoaded /\ ~page[p].timer
  /\ \A p \in Page : Heard(reg, p) => IsAt(p, "settled")

-----------------------------------------------------------------------------
LEMMA Loads ==
  ASSUME NEW s \in State, Counts(s)
  PROVE  /\ loadMainDartJs(s) \in State /\ Counts(loadMainDartJs(s))
         /\ loadMainDartJs(s).step = s.step /\ loadMainDartJs(s).timer = s.timer
         /\ loadMainDartJs(s).scriptLoaded
<1>1. CASE s.scriptLoaded
  BY <1>1 DEF loadMainDartJs
<1>2. CASE ~s.scriptLoaded
  <2> DEFINE t == [s EXCEPT !.scriptLoaded = TRUE, !.tags = s.tags + 1]
  <2>1. loadMainDartJs(s) = t /\ s.tags = 0
    BY <1>2 DEF loadMainDartJs, Counts, State
  <2>2. t \in State
    <3>1. s.tags + 1 \in Nat
      BY DEF State
    <3>2. QED
      BY <3>1 DEF State
  <2>3. t.scriptLoaded /\ t.tags = 1 /\ t.step = s.step /\ t.timer = s.timer
    BY <2>1 DEF State
  <2>4. QED
    BY <2>1, <2>2, <2>3 DEF Counts
<1>3. QED
  BY <1>1, <1>2

(* The slots of a registration are changed one at a time.                  *)
LEMMA Slots ==
  ASSUME NEW r \in [Slot -> Worker \cup {NoWorker}], NEW slot \in Slot,
         NEW w \in Worker \cup {NoWorker}
  PROVE  [r EXCEPT ![slot] = w] \in [Slot -> Worker \cup {NoWorker}]
  OBVIOUS

(* A step of one page.                                                     *)
LEMMA OnePage ==
  ASSUME BInv, NEW p \in Page, NEW s \in State, page' = [page EXCEPT ![p] = s],
         deployed' \in Version, activated' \in BOOLEAN,
         reg' \in [Slot -> Worker \cup {NoWorker}],
         reg.active # NoWorker => reg'.active # NoWorker,
         Counts(s), Served(s, reg'.active), s.step = "parsed" => ~s.scriptLoaded /\ ~s.timer,
         \A q \in Page : q # p /\ Heard(reg', q) => Heard(reg, q),
         Heard(reg', p) => s.step = "settled"
  PROVE  BInv'
<1>1. TypeOK'
  BY DEF BInv, TypeOK
<1>2. ASSUME NEW q \in Page
      PROVE  /\ Counts(page'[q]) /\ Served(page'[q], reg'.active)
             /\ page'[q].step = "parsed" => ~page'[q].scriptLoaded /\ ~page'[q].timer
             /\ Heard(reg', q) => page'[q].step = "settled"
  <2>1. CASE q = p
    BY <2>1 DEF BInv, TypeOK
  <2>2. CASE q # p
    BY <2>2 DEF BInv, TypeOK, Served, IsAt
  <2>3. QED
    BY <2>1, <2>2
<1>3. QED
  BY <1>1, <1>2 DEF BInv, IsAt

(* A step of the browser.                                                  *)
LEMMA NoPage ==
  ASSUME BInv, page' = page, deployed' \in Version, activated' \in BOOLEAN,
         reg' \in [Slot -> Worker \cup {NoWorker}],
         reg.active # NoWorker => reg'.active # NoWorker,
         \A q \in Page : Heard(reg', q) => Heard(reg, q)
  PROVE  BInv'
  BY DEF BInv, TypeOK, Served, IsAt
-----------------------------------------------------------------------------
(* One step per action.                                                    *)

LEMMA BInit == Init => BInv
<1>1. Closed \in State
  BY BootAssumption DEF Closed, State, Version
<1>2. /\ Counts(Closed) /\ ~Closed.scriptLoaded /\ Closed.step # "parsed"
  BY DEF Closed, Counts
<1>3. 1 \in Version
  BY BootAssumption DEF Version
<1>4. ASSUME Init PROVE BInv
  <2>1. TypeOK
    BY <1>1, <1>3, <1>4 DEF Init, TypeOK
  <2>2. \A p \in Page : page[p] = Closed /\ ~Heard(reg, p)
    BY <1>4 DEF Init, Heard
  <2>3. QED
    BY <1>2, <2>1, <2>2 DEF BInv, Served, IsAt
<1>5. QED
  BY <1>4

LEMMA BNext == BInv /\ [Next]_vars => BInv'
<1> SUFFICES ASSUME BInv, [Next]_vars PROVE BInv'
  OBVIOUS
<1>t. TypeOK
  BY DEF BInv
<1>a. ASSUME NEW q \in Page
      PROVE  /\ page[q] \in State /\ Counts(page[q]) /\ Served(page[q], reg.active)
             /\ page[q].step = "parsed" => ~page[q].scriptLoaded /\ ~page[q].timer
             /\ Heard(reg, q) => page[q].step = "settled"
  BY DEF BInv, TypeOK, IsAt
<1>1. ASSUME NEW p \in Page, Open(p) PROVE BInv'
  <2> DEFINE s == [Closed EXCEPT !.step = "parsed", !.version = deployed]
             t == loadMainDartJs([s EXCEPT !.step = "settled"])
  <2>1. s \in State /\ Counts(s) /\ ~s.scriptLoaded /\ ~s.timer
    BY <1>t DEF TypeOK, State, Closed, Version, Counts
  <2>2. [s EXCEPT !.step = "settled"] \in State /\ Counts([s EXCEPT !.step = "settled"])
        /\ [s EXCEPT !.step = "settled"].timer = FALSE
        /\ [s EXCEPT !.step = "settled"].step = "settled"
    BY <2>1 DEF State, Counts
  <2>3. t \in State /\ Counts(t) /\ ~t.timer /\ t.step = "settled"
    BY <2>2, Loads
  <2>4. page' = [page EXCEPT ![p] = IF p \in Supported THEN s ELSE t]
        /\ UNCHANGED <<deployed, reg, activated>>
    BY <1>1 DEF Open
  <2> HIDE DEF s, t
  <2>a. ~Heard(reg', p)
    BY <1>1, <1>a, <2>4 DEF Open, IsAt
  <2>5. CASE p \in Supported
    BY <2>1, <2>4, <2>5, <2>a, <1>t, OnePage DEF TypeOK, Served
  <2>6. CASE p \notin Supported
    BY <2>3, <2>4, <2>6, <2>a, <1>t, OnePage DEF TypeOK, Served
  <2>7. QED
    BY <2>5, <2>6
<1>2. ASSUME NEW p \in Page, OnLoad(p) PROVE BInv'
  <2> DEFINE s == [page[p] EXCEPT !.step = "register", !.timer = TRUE]
  <2>1. s \in State /\ Counts(s) /\ ~s.scriptLoaded /\ s.step # "parsed" /\ ~Heard(reg, p)
    BY <1>a, <1>2 DEF State, Counts, OnLoad, IsAt
  <2>2. page' = [page EXCEPT ![p] = s] /\ UNCHANGED <<deployed, reg, activated>>
    BY <1>2, <1>t DEF OnLoad, TypeOK
  <2> HIDE DEF s
  <2>3. QED
    BY <2>1, <2>2, <1>t, OnePage DEF TypeOK, Served
<1>3. ASSUME NEW p \in Page, NEW s \in State, Settled(p, s), Counts(s),
             reg' \in [Slot -> Worker \cup {NoWorker}],
             reg.active # NoWorker => reg'.active # NoWorker, Served(s, reg'.active),
             \A q \in Page : q # p /\ Heard(reg', q) => Heard(reg, q)
      PROVE  BInv'
  <2> DEFINE t == [s EXCEPT !.step = "settled"]
  <2>1. t \in State /\ Counts(t) /\ Served(t, reg'.active) /\ t.step = "settled"
    BY <1>3 DEF State, Counts, Served
  <2>2. page' = [page EXCEPT ![p] = t] /\ UNCHANGED <<deployed, activated>>
    BY <1>3 DEF Settled
  <2> HIDE DEF t
  <2>3. QED
    BY <2>1, <2>2, <1>3, <1>t, OnePage DEF TypeOK
<1>4. ASSUME NEW p \in Page, NEW slot \in Slot, reg[slot] # NoWorker,
             waitForActivation(p, slot)
      PROVE  BInv'
  <2> DEFINE w == [reg[slot] EXCEPT !.listeners = @ \cup {p}]
  <2>1. reg[slot] \in Worker /\ w \in Worker
    BY <1>t, <1>4 DEF TypeOK, Worker
  <2>2. reg' = [reg EXCEPT ![slot] = w]
    BY <1>4, <1>t DEF waitForActivation, TypeOK
  <2> HIDE DEF w
  <2>3. w # NoWorker
    BY <2>1, BootAssumption
  <2>4. reg' \in [Slot -> Worker \cup {NoWorker}] /\ (reg.active # NoWorker => reg'.active # NoWorker)
    BY <2>1, <2>2, <2>3, <1>t, Slots DEF TypeOK, Slot
  <2>5. Served(page[p], reg'.active)
    BY <1>a, <2>4 DEF Served
  <2>a. w.listeners = reg[slot].listeners \cup {p}
    BY <2>1 DEF w, Worker
  <2>b. \A q \in Page : q # p /\ Heard(reg', q) => Heard(reg, q)
    BY <2>2, <2>a, <1>4, <1>t DEF Heard, TypeOK
  <2>6. QED
    BY <1>3, <1>4, <1>a, <2>4, <2>5, <2>b DEF waitForActivation
<1>5. ASSUME NEW p \in Page, FirstInstall(p) PROVE BInv'
  BY <1>4, <1>5 DEF FirstInstall, Slot
<1>6. ASSUME NEW p \in Page, NewVersion(p) PROVE BInv'
  <2>1. CASE reg.installing # NoWorker
    BY <1>4, <1>6, <2>1 DEF NewVersion, Slot
  <2>2. CASE reg.installing = NoWorker
    BY <1>3, <1>6, <1>a, <1>t, <2>2 DEF NewVersion, TypeOK
  <2>3. QED
    BY <2>1, <2>2
<1>7. ASSUME NEW p \in Page, StillGood(p) PROVE BInv'
  <2>1. loadMainDartJs(page[p]) \in State /\ Counts(loadMainDartJs(page[p]))
    BY <1>a, Loads
  <2>2. reg' = reg /\ reg.active # NoWorker /\ Settled(p, loadMainDartJs(page[p]))
    BY <1>7 DEF StillGood
  <2>3. QED
    BY <1>3, <1>t, <2>1, <2>2 DEF TypeOK, Served
<1>8. ASSUME NEW p \in Page, FallBack(p) PROVE BInv'
  <2> DEFINE s == [page[p] EXCEPT !.timer = FALSE]
  <2>1. s \in State /\ Counts(s) /\ ~s.timer /\ s.step = page[p].step /\ (Heard(reg, p) => s.step = "settled")
    BY <1>a DEF State, Counts
  <2>2. page' = [page EXCEPT ![p] = loadMainDartJs(s)] /\ UNCHANGED <<deployed, reg, activated>>
    BY <1>8, <1>t DEF FallBack, TypeOK
  <2> HIDE DEF s
  <2>3. loadMainDartJs(s) \in State /\ Counts(loadMainDartJs(s))
        /\ ~loadMainDartJs(s).timer /\ loadMainDartJs(s).step = page[p].step
    BY <2>1, Loads
  <2>4. page[p].step # "parsed"
    BY <1>8, <1>a DEF FallBack
  <2>5. QED
    BY <2>1, <2>2, <2>3, <2>4, <1>t, OnePage DEF TypeOK, Served
<1>9. ASSUME NEW w, w \in Worker \cup {NoWorker}, NEW p \in Page
      PROVE  /\ Without(w, p) \in Worker \cup {NoWorker}
             /\ w # NoWorker <=> Without(w, p) # NoWorker
             /\ w # NoWorker => Without(w, p).listeners = w.listeners \ {p}
  <2>1. CASE w = NoWorker
    BY <2>1 DEF Without
  <2>2. CASE w \in Worker
    <3>1. w # NoWorker /\ Without(w, p) = [w EXCEPT !.listeners = w.listeners \ {p}]
      BY <2>2, BootAssumption DEF Without
    <3>2. Without(w, p) \in Worker /\ Without(w, p).listeners = w.listeners \ {p}
      BY <2>2, <3>1 DEF Worker
    <3>3. QED
      BY <3>1, <3>2, BootAssumption
  <2>3. QED
    BY <1>9, <2>1, <2>2
<1>10. ASSUME NEW p \in Page, Close(p) PROVE BInv'
  <2>1. Closed \in State /\ Counts(Closed) /\ Closed.step # "parsed" /\ ~Closed.scriptLoaded
    BY BootAssumption DEF Closed, State, Version, Counts
  <2>2. page' = [page EXCEPT ![p] = Closed] /\ UNCHANGED <<deployed, activated>>
        /\ reg' = [slot \in Slot |-> Without(reg[slot], p)]
    BY <1>10 DEF Close
  <2>3. ASSUME NEW slot \in Slot
        PROVE  /\ Without(reg[slot], p) \in Worker \cup {NoWorker}
               /\ reg[slot] # NoWorker <=> Without(reg[slot], p) # NoWorker
               /\ reg[slot] # NoWorker =>
                    Without(reg[slot], p).listeners = reg[slot].listeners \ {p}
    <3>1. reg[slot] \in Worker \cup {NoWorker}
      BY <1>t DEF TypeOK
    <3>2. QED
      BY <1>9, <3>1
  <2>4. reg' \in [Slot -> Worker \cup {NoWorker}] /\ (reg.active # NoWorker => reg'.active # NoWorker)
    BY <2>2, <2>3 DEF Slot
  <2>a. ~Heard(reg', p) /\ \A q \in Page : Heard(reg', q) => Heard(reg, q)
    BY <2>2, <2>3 DEF Heard
  <2>5. QED
    BY <2>1, <2>2, <2>4, <2>a, <1>t, OnePage DEF TypeOK, Served
<1>11. ASSUME NEW v \in Version, Install(v)
       PROVE  /\ reg' \in [Slot -> Worker \cup {NoWorker}] /\ reg'.active = reg.active
              /\ \A q \in Page : Heard(reg', q) => Heard(reg, q)
  <2> DEFINE w == [version |-> v, listeners |-> {}]
  <2>1. w \in Worker /\ w.listeners = {} /\ reg' = [reg EXCEPT !["installing"] = w]
    BY <1>11 DEF Worker, Install
  <2> HIDE DEF w
  <2>2. reg' \in [Slot -> Worker \cup {NoWorker}] /\ reg'.active = reg.active
    BY <2>1, <1>t, Slots DEF TypeOK, Slot
  <2>3. \A q \in Page : Heard(reg', q) => Heard(reg, q)
    BY <2>1, <1>t DEF TypeOK, Heard
  <2>4. QED
    BY <2>2, <2>3
<1>12. ASSUME NEW p \in Page, Register(p) PROVE BInv'
  <2> DEFINE s == [page[p] EXCEPT !.step = "then"]
  <2>1. s \in State /\ Counts(s) /\ Served(s, reg.active) /\ s.step # "parsed"
    BY <1>a DEF State, Counts, Served
  <2>2. page' = [page EXCEPT ![p] = s] /\ UNCHANGED <<deployed, activated>>
    BY <1>12, <1>t DEF Register, TypeOK
  <2>3. page[p].version \in Version
    BY <1>a DEF State
  <2>4. /\ reg' \in [Slot -> Worker \cup {NoWorker}] /\ reg'.active = reg.active
        /\ \A q \in Page : Heard(reg', q) => Heard(reg, q)
        /\ ~Heard(reg, p)
    BY <1>11, <1>12, <1>a, <1>t, <2>3 DEF Register, TypeOK, IsAt
  <2> HIDE DEF s
  <2>5. QED
    BY <2>1, <2>2, <2>4, <1>t, OnePage DEF TypeOK, Served
<1>13. ASSUME NEW p \in Page, RegisterFails(p) PROVE BInv'
  <2> DEFINE s == [page[p] EXCEPT !.step = "settled"]
  <2>1. s \in State /\ Counts(s) /\ Served(s, reg.active) /\ s.step # "parsed" /\ ~Heard(reg, p)
    BY <1>a, <1>13 DEF State, Counts, Served, RegisterFails, IsAt
  <2>2. page' = [page EXCEPT ![p] = s] /\ UNCHANGED <<deployed, reg, activated>>
    BY <1>13, <1>t DEF RegisterFails, TypeOK
  <2> HIDE DEF s
  <2>3. QED
    BY <2>1, <2>2, <1>t, OnePage DEF TypeOK, Served
<1>14. ASSUME Update PROVE BInv'
  <2>1. Newest \in Worker
    BY <1>14, <1>t DEF Update, Newest, TypeOK, Slot
  <2>2. Newest.version \in Version
    BY <2>1 DEF Worker
  <2>3. QED
    BY <1>11, <1>14, <1>t, <2>2, NoPage DEF Update, TypeOK
<1>15. ASSUME Installed \/ InstallFails \/ Activating PROVE BInv'
  <2>1. /\ reg' \in [Slot -> Worker \cup {NoWorker}]
        /\ reg.active # NoWorker => reg'.active # NoWorker
        /\ \A q \in Page : Heard(reg', q) => Heard(reg, q)
    BY <1>15, <1>t DEF Installed, InstallFails, Activating, TypeOK, Slot, Heard
  <2>2. page' = page /\ deployed' = deployed /\ activated' \in BOOLEAN
    BY <1>15, <1>t DEF Installed, InstallFails, Activating, TypeOK
  <2>3. QED
    BY <1>t, <2>1, <2>2, NoPage DEF TypeOK
<1>16. ASSUME Activated PROVE BInv'
  <2>1. reg' = reg /\ deployed' = deployed /\ activated' \in BOOLEAN /\ reg.active # NoWorker
        /\ page' = [p \in Page |-> IF p \in reg.active.listeners
                                     THEN loadMainDartJs(page[p]) ELSE page[p]]
    BY <1>16 DEF Activated, StateChange
  <2>a. ASSUME NEW p \in Page, p \in reg.active.listeners PROVE Heard(reg, p)
    BY <2>1, <2>a DEF Heard, Slot
  <2>2. ASSUME NEW p \in Page
        PROVE  /\ page'[p] \in State /\ Counts(page'[p]) /\ Served(page'[p], reg'.active)
               /\ page'[p].step = "parsed" => ~page'[p].scriptLoaded /\ ~page'[p].timer
               /\ page'[p].step = page[p].step
    BY <1>a, <2>1, <2>a, Loads DEF Served
  <2>3. QED
    BY <1>a, <1>t, <2>1, <2>2 DEF BInv, TypeOK, IsAt
<1>17. ASSUME Deploy PROVE BInv'
  <2>1. deployed' \in Version
    BY <1>17, <1>t, BootAssumption DEF Deploy, TypeOK, Version
  <2>2. QED
    BY <1>17, <1>t, <2>1, NoPage DEF Deploy, TypeOK
<1>18. CASE UNCHANGED vars
  BY <1>18, <1>t, NoPage DEF vars, TypeOK
<1>19. QED
  BY <1>1, <1>2, <1>5, <1>6, <1>7, <1>8, <1>10, <1>12, <1>13, <1>14, <1>15, <1>16,
     <1>17, <1>18 DEF Next, Script, Person, Browser

(* What holds of the script of every page, however many share the workers. *)
LEMMA BAlways == Spec => []BInv
<1>1. QED
  BY BInit, BNext, PTL DEF Spec

-----------------------------------------------------------------------------
(* The variables keep their shapes.                                        *)
THEOREM BootTypes == Spec => []TypeOK
<1>1. BInv => TypeOK
  BY DEF BInv
<1>2. QED
  BY <1>1, BAlways, PTL

(* A page drops one <script> tag at most, whichever of worker,             *)
(* registration and timer comes first.                                     *)
THEOREM LoadsOnce == Spec => []OneTag
<1>1. BInv => OneTag
  <2>1. ASSUME NEW p \in Page, Counts(page[p]) PROVE page[p].tags <= 1
    BY <2>1 DEF Counts
  <2>2. QED
    BY <2>1 DEF BInv, OneTag
<1>2. QED
  BY <1>1, BAlways, PTL

(* Before its timer fires a page only loads through an active worker.      *)
THEOREM LoadsServed == Spec => []ServedByWorker
<1>1. BInv => ServedByWorker
  BY DEF BInv, ServedByWorker, Served
<1>2. QED
  BY <1>1, BAlways, PTL
=============================================================================
