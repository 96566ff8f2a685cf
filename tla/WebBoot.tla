-------------------------------- MODULE WebBoot --------------------------------
(***************************************************************************)
(* How a page of either web application starts (web/index.html, the same   *)
(* script in both): it registers the service worker, waits for it to be    *)
(* activated, and drops the <script> tag of main.dart.js; after four       *)
(* seconds it does not wait any longer.                                    *)
(*                                                                         *)
(* The pages of one browser share a registration with up to three workers. *)
(* What the browser does with them is external, and so are the deployments *)
(* that give later pages another serviceWorkerVersion.                     *)
(*                                                                         *)
(* Abstractions.  A worker is its version and the pages that listen to its *)
(* statechange.  reg.update() may start an install like any other update   *)
(* of the browser.  Time is left out: the timer fires at any moment after  *)
(* it was set.                                                             *)
(***************************************************************************)
EXTENDS Integers

CONSTANTS
  Page,       \* the pages (tabs) of a browser
  Supported,  \* those with 'serviceWorker' in navigator
  NoWorker,   \* the slot of a registration is empty
  MaxVersion  \* bound on serviceWorkerVersion, counted from 1

Version == 1..MaxVersion
Worker  == [version : Version, listeners : SUBSET Page]

ASSUME BootAssumption ==
  Supported \subseteq Page /\ MaxVersion \in Nat \ {0} /\ NoWorker \notin Worker

VARIABLES
  deployed,  \* the serviceWorkerVersion of the pages served now
  reg,       \* the registration: reg.installing, reg.waiting, reg.active
  activated, \* the active worker has got past activating
  page       \* page[p]: the globals of the script, and what it waits for

vars == <<deployed, reg, activated, page>>

Slot == {"installing", "waiting", "active"}

(* steps: the `load` event is to come, register() is pending or settled;   *)
(* tags: the <script> tags dropped so far.                                 *)
State == [step : {"closed", "parsed", "register", "then", "settled"},
          version : Version, scriptLoaded : BOOLEAN, tags : Nat, timer : BOOLEAN]

Closed == [step |-> "closed", version |-> 1, scriptLoaded |-> FALSE,
           tags |-> 0, timer |-> FALSE]

IsAt(p, step) == page[p].step = step

(* Wrong: without the guard (OneTag).                                       *)
LoadAgain(s) == [s EXCEPT !.scriptLoaded = TRUE, !.tags = s.tags + 1]

loadMainDartJs(s) ==
  IF s.scriptLoaded THEN s
  ELSE [s EXCEPT !.scriptLoaded = TRUE, !.tags = s.tags + 1]

-----------------------------------------------------------------------------
(* The page.                                                               *)

(* Wrong: serviceWorkerVersion was left as it is in the sources (TypeOK).   *)
OpenUnbuilt(p) ==
  /\ IsAt(p, "closed")
  /\ page' = [page EXCEPT ![p] = [Closed EXCEPT !.step = "parsed", !.version = 0]]
  /\ UNCHANGED <<deployed, reg, activated>>

Open(p) ==
  LET s == [Closed EXCEPT !.step = "parsed", !.version = deployed]
  IN  /\ IsAt(p, "closed")
      /\ page' = [page EXCEPT ![p] = IF p \in Supported THEN s
                                     ELSE loadMainDartJs([s EXCEPT !.step = "settled"])]
      /\ UNCHANGED <<deployed, reg, activated>>

(* The `load` event: the worker is being registered and the timer is set.  *)
OnLoad(p) ==
  /\ IsAt(p, "parsed")
  /\ page' = [page EXCEPT ![p].step = "register", ![p].timer = TRUE]
  /\ UNCHANGED <<deployed, reg, activated>>

Settled(p, s) ==
  /\ page' = [page EXCEPT ![p] = [s EXCEPT !.step = "settled"]]
  /\ UNCHANGED <<deployed, activated>>

(* Wrong: an install is enough (ServedByWorker).                            *)
goOnWithInstall(p, slot) ==
  /\ reg' = [reg EXCEPT ![slot].listeners = @ \cup {p}]
  /\ Settled(p, loadMainDartJs(page[p]))

waitForActivation(p, slot) ==
  /\ reg' = [reg EXCEPT ![slot].listeners = @ \cup {p}]
  /\ Settled(p, page[p])

(* Then: the worker is installed for the first time.                       *)
FirstInstall(p) ==
  LET slot == IF reg.installing # NoWorker THEN "installing" ELSE "waiting"
  IN  /\ IsAt(p, "then")
      /\ reg.active = NoWorker /\ reg[slot] # NoWorker
      /\ waitForActivation(p, slot)

(* Another version is active; or none, and the install has failed.  What   *)
(* is null here throws in a promise nobody handles.                        *)
NewVersion(p) ==
  /\ IsAt(p, "then")
  /\ IF reg.active = NoWorker THEN reg.installing = NoWorker /\ reg.waiting = NoWorker
     ELSE reg.active.version # page[p].version
  /\ IF reg.installing # NoWorker THEN waitForActivation(p, "installing")
     ELSE Settled(p, page[p]) /\ UNCHANGED reg

(* The existing worker is still good.                                      *)
StillGood(p) ==
  /\ IsAt(p, "then")
  /\ reg.active # NoWorker /\ reg.active.version = page[p].version
  /\ Settled(p, loadMainDartJs(page[p])) /\ UNCHANGED reg

(* Wrong: only while the promise is pending (AppStarts).                    *)
FallBackIfPending(p) ==
  /\ page[p].timer /\ page[p].step # "settled"
  /\ page' = [page EXCEPT ![p] = loadMainDartJs([@ EXCEPT !.timer = FALSE])]
  /\ UNCHANGED <<deployed, reg, activated>>

(* Four seconds after the `load` event.                                    *)
FallBack(p) ==
  /\ page[p].timer
  /\ page' = [page EXCEPT ![p] = loadMainDartJs([@ EXCEPT !.timer = FALSE])]
  /\ UNCHANGED <<deployed, reg, activated>>

(* Its listeners go with the page.                                         *)
Without(w, p) == IF w = NoWorker THEN w ELSE [w EXCEPT !.listeners = @ \ {p}]

Close(p) ==
  /\ ~IsAt(p, "closed")
  /\ page' = [page EXCEPT ![p] = Closed]
  /\ reg'  = [slot \in Slot |-> Without(reg[slot], p)]
  /\ UNCHANGED <<deployed, activated>>

-----------------------------------------------------------------------------
(* The browser: external.                                                  *)

Newest ==
  IF reg.installing # NoWorker THEN reg.installing
  ELSE IF reg.waiting # NoWorker THEN reg.waiting ELSE reg.active

Install(v) ==
  /\ reg.installing = NoWorker
  /\ reg' = [reg EXCEPT !.installing = [version |-> v, listeners |-> {}]]

(* register() is resolved at once when the newest worker is of that URL.   *)
Register(p) ==
  /\ IsAt(p, "register")
  /\ \/ /\ Newest # NoWorker /\ Newest.version = page[p].version
        /\ UNCHANGED reg
     \/ /\ Newest # NoWorker => Newest.version # page[p].version
        /\ Install(page[p].version)
  /\ page' = [page EXCEPT ![p].step = "then"]
  /\ UNCHANGED <<deployed, activated>>

RegisterFails(p) ==
  /\ IsAt(p, "register")
  /\ page' = [page EXCEPT ![p].step = "settled"]
  /\ UNCHANGED <<deployed, reg, activated>>

Update ==
  /\ Newest # NoWorker /\ Install(Newest.version)
  /\ UNCHANGED <<deployed, activated, page>>

Installed ==
  /\ reg.installing # NoWorker
  /\ reg' = [reg EXCEPT !.installing = NoWorker, !.waiting = reg.installing]
  /\ UNCHANGED <<deployed, activated, page>>

InstallFails ==
  /\ reg.installing # NoWorker
  /\ reg' = [reg EXCEPT !.installing = NoWorker]
  /\ UNCHANGED <<deployed, activated, page>>

Activating ==
  /\ reg.waiting # NoWorker /\ (reg.active # NoWorker => activated)
  /\ reg' = [reg EXCEPT !.waiting = NoWorker, !.active = reg.waiting]
  /\ activated' = FALSE
  /\ UNCHANGED <<deployed, page>>

(* The script of the pages that listen to statechange.                     *)
StateChange(w) ==
  page' = [p \in Page |-> IF p \in w.listeners THEN loadMainDartJs(page[p])
                          ELSE page[p]]

Activated ==
  /\ reg.active # NoWorker /\ ~activated
  /\ activated' = TRUE
  /\ StateChange(reg.active)
  /\ UNCHANGED <<deployed, reg>>

Deploy ==
  /\ deployed < MaxVersion
  /\ deployed' = deployed + 1
  /\ UNCHANGED <<reg, activated, page>>

Init ==
  /\ deployed = 1
  /\ reg = [slot \in Slot |-> NoWorker]
  /\ activated = FALSE
  /\ page = [p \in Page |-> Closed]

Script(p) == OnLoad(p) \/ FirstInstall(p) \/ NewVersion(p) \/ StillGood(p) \/ FallBack(p)
Person(p) == Open(p) \/ Close(p)
Browser   == Update \/ Installed \/ InstallFails \/ Activating \/ Activated

Next ==
  \/ \E p \in Page : Script(p) \/ Person(p) \/ Register(p) \/ RegisterFails(p)
  \/ Browser \/ Deploy

Spec == Init /\ [][Next]_vars

(* Timers fire and loaded pages get their event; nothing else is sure:     *)
(* a registration may be pending, and a worker waiting, for ever.          *)
FairSpec == Spec /\ \A p \in Page : WF_vars(OnLoad(p)) /\ WF_vars(FallBack(p))
-----------------------------------------------------------------------------
(* PROPERTIES                                                              *)

(* The shapes of the variables.                                            *)
TypeOK ==
  /\ deployed \in Version
  /\ reg \in [Slot -> Worker \cup {NoWorker}]
  /\ activated \in BOOLEAN
  /\ page \in [Page -> State]

(* "Otherwise, the browser will load the script multiple times"            *)
(* (index.html:70): whatever of the worker, the registration and the timer *)
(* comes first or late, a page drops one <script> tag.                     *)
OneTag == \A p \in Page : page[p].tags <= 1

(* A page that dropped the tag while its timer is still to fire has an     *)
(* active worker to load through (index.html:77, 93): it did not go on     *)
(* with one that is only installed, its own or that of another page.       *)
ServedByWorker == \A p \in Page :
  page[p].scriptLoaded /\ page[p].timer => reg.active # NoWorker

(* Every page that is not closed loads the application (index.html:102),   *)
(* although the registration may fail, hang, or find what it expects gone, *)
(* and the worker it listens to may never be activated.                    *)
AppStarts == \A p \in Page :
  ~IsAt(p, "closed") ~> (page[p].scriptLoaded \/ IsAt(p, "closed"))
=============================================================================
