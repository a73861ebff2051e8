--------------------------- MODULE ConfigRestore ---------------------------
(***************************************************************************)
(* busscan --dongle (tools/busscan/main.go, dongle.go): the dongle's MQTT   *)
(* settings are read, replaced by ours, and put back on the way out,        *)
(* whatever the HTTP requests, the scan and Ctrl-C do.                      *)
(***************************************************************************)
EXTENDS Naturals, Sequences

CONSTANTS
  MaxTries    \* attempts of post

ASSUME TriesAssumption == MaxTries \in Nat \ {0}

(* Mutant of Steps: the restart comes too early. *)
StepsRestartEarly ==
  <<"MQTT Server", "MQTT Port", "TLS", "restart", "Cloud Connection">>

(* The POSTs of applyConfig in their order; the last one presses the restart   *)
(* button.                                                                     *)
Entities == {"MQTT Server", "MQTT Port", "TLS", "Cloud Connection"}
Steps == <<"MQTT Server", "MQTT Port", "TLS", "Cloud Connection", "restart">>
Settings == [Entities -> {"saved", "ours"}]
All(whose) == [e \in Entities |-> whose]

VARIABLES
  pc,           \* "fetch", "apply", "scan", "restore" or "exit"
  step, try,    \* where applyConfig, and post within it, have come to
  cancelled,    \* the run's context is done (Ctrl-C)
  expired,      \* the restore's own context is done
  restore,      \* "none" (the no-op), "set", or "done" (restoreOnce has run it)
  told          \* the user was told to restore the settings by hand

VARIABLES       \* the dongle
  entities,     \* the settings as the web server shows them
  running       \* the settings it started with

vars == <<pc, step, try, cancelled, expired, restore, told, entities, running>>

TypeOK ==
  /\ pc \in {"fetch", "apply", "scan", "restore", "exit"}
  /\ step \in 1..5 /\ try \in 1..MaxTries
  /\ cancelled \in BOOLEAN /\ expired \in BOOLEAN /\ told \in BOOLEAN
  /\ restore \in {"none", "set", "done"}
  /\ entities \in Settings /\ running \in Settings

Init ==
  /\ pc = "fetch" /\ step = 1 /\ try = 1
  /\ cancelled = FALSE /\ expired = FALSE
  /\ restore = "none" /\ told = FALSE
  /\ entities = All("saved") /\ running = All("saved")

-----------------------------------------------------------------------------
(* autoReconfigure, up to applyConfig: reading fails, or there is no local IP. *)
Fetch ==
  /\ pc = "fetch"
  /\ pc' \in (IF cancelled THEN {"exit"} ELSE {"apply", "exit"})
  /\ UNCHANGED <<step, try, cancelled, expired, restore, told, entities, running>>

(* What the dongle does on a POST.  applyConfig writes ours, restore the saved. *)
Whose == IF pc = "restore" THEN "saved" ELSE "ours"
TakesEffect ==
  IF Steps[step] = "restart"
  THEN running' = entities /\ UNCHANGED entities
  ELSE entities' = [entities EXCEPT ![Steps[step]] = Whose] /\ UNCHANGED running

(* The caller of applyConfig goes on: run() sets restore and scans, ...        *)
ApplyDone ==
  IF pc = "apply"
  THEN pc' = "scan" /\ restore' = "set" /\ UNCHANGED told
  ELSE pc' = "exit" /\ UNCHANGED <<restore, told>>

(* Mutant of ApplyFailed: the failure of the restore is not reported. *)
ApplyFailedSilently == pc' = "exit" /\ UNCHANGED <<told, restore>>

(* ... or returns, its restore still being the no-op; restore says that it     *)
(* failed, and what to restore by hand.                                        *)
ApplyFailed ==
  /\ pc' = "exit"
  /\ told' = (told \/ pc = "restore")
  /\ UNCHANGED restore

Applying == pc \in {"apply", "restore"}
ContextDone == IF pc = "apply" THEN cancelled ELSE expired

(* A POST is answered with 200 ... *)
PostSucceeds ==
  /\ Applying /\ ~ContextDone
  /\ TakesEffect
  /\ try' = 1
  /\ IF step < Len(Steps)
     THEN step' = step + 1 /\ UNCHANGED <<pc, restore, told>>
     ELSE step' = 1 /\ ApplyDone
  /\ UNCHANGED <<cancelled, expired>>

(* ... or with another status, ... *)
PostRefused ==
  /\ Applying /\ ~ContextDone
  /\ step' = 1 /\ try' = 1
  /\ ApplyFailed
  /\ UNCHANGED <<cancelled, expired, entities, running>>

(* Mutant of PostLost: post never gives up. *)
PostLostForever ==
  /\ Applying /\ ~ContextDone
  /\ \/ TakesEffect
     \/ UNCHANGED <<entities, running>>
  /\ try' = 1 + (try % MaxTries)
  /\ UNCHANGED <<pc, step, restore, told, cancelled, expired>>

(* ... or not at all, before or after it took effect, and is tried again.      *)
PostLost ==
  /\ Applying /\ ~ContextDone
  /\ \/ TakesEffect
     \/ UNCHANGED <<entities, running>>
  /\ IF try < MaxTries
     THEN try' = try + 1 /\ UNCHANGED <<pc, step, restore, told>>
     ELSE try' = 1 /\ step' = 1 /\ ApplyFailed
  /\ UNCHANGED <<cancelled, expired>>

(* Once the context is done, a request under way fails and none is repeated.   *)
PostCancelled ==
  /\ Applying /\ ContextDone
  /\ \/ TakesEffect
     \/ UNCHANGED <<entities, running>>
  /\ step' = 1 /\ try' = 1
  /\ ApplyFailed
  /\ UNCHANGED <<cancelled, expired>>

(* The dongle does not connect, the scan ends or is aborted: on every way out   *)
(* restoreOnce runs restore.                                                    *)
ScanEnds ==
  /\ pc = "scan"
  /\ pc' = "restore"
  /\ restore' = "done"
  /\ UNCHANGED <<step, try, cancelled, expired, told, entities, running>>

Interrupt ==
  /\ ~cancelled /\ pc # "exit"
  /\ cancelled' = TRUE
  /\ UNCHANGED <<pc, step, try, expired, restore, told, entities, running>>

RestoreExpires ==
  /\ pc = "restore" /\ ~expired
  /\ expired' = TRUE
  /\ UNCHANGED <<pc, step, try, cancelled, restore, told, entities, running>>

Run == Fetch \/ PostSucceeds \/ PostRefused \/ PostLost \/ PostCancelled \/ ScanEnds

Next == Run \/ Interrupt \/ RestoreExpires

Spec == Init /\ [][Next]_vars

(* HTTP requests and the scan return.                                          *)
FairSpec == Spec /\ WF_vars(Run)

-----------------------------------------------------------------------------
(* Properties *)

(* A dongle that was pointed at this tool runs on its saved settings again when *)
(* the tool exits, or the user was told to restore them: after lost requests,   *)
(* lost replies, a refused step or Ctrl-C at any point (main.go:134-145).        *)
RestoredOrTold ==
  pc = "exit" /\ restore # "none" =>
    told \/ (running = All("saved") /\ entities = All("saved"))

(* The scan only starts on a dongle that has restarted with all of our settings *)
(* (main.go:129-132).                                                           *)
ScansOurDongle == pc = "scan" => running = All("ours")

(* Ctrl-C ends the program, through the restore (main.go:51-55,135-138).        *)
InterruptExits == cancelled ~> pc = "exit"

(* "must run exactly once, on any exit path (incl. Ctrl-C)" (main.go:51-52): a  *)
(* dongle whose settings were touched is not left without the restore.          *)
RestoreRunsOnEveryExit ==
  pc = "exit" /\ restore # "done" =>
    entities = All("saved") /\ running = All("saved")
=============================================================================
