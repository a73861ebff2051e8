------------------------------ MODULE GbbDongle ------------------------------
(***************************************************************************)
(* GbbDongle (components/gbb_dongle/gbb_dongle.cpp): the RS485 bus is shared *)
(* by the requests of the cloud and the emergency send cycle.               *)
(*                                                                          *)
(* All of it runs on the main-loop task.  One run of GbbDongle::loop is the *)
(* four actions of LoopStep in the order of `phase`; the MQTT callback and  *)
(* the persist switch run between two loops, a power cut at any moment.     *)
(* Left to other modules: the UART and its timing (ModbusExecutor), the     *)
(* log ring, the keepalive and the MQTT session, the payload's encoding.    *)
(***************************************************************************)
EXTENDS EmergencyManager

CONSTANTS
  Environment   \* what may happen around the dongle, a subset of Hazards

Hazards == {"persist_switch",   \* the user turns "Persist Emergency Commands"
            "power_cut",        \* the device restarts
            "lazy_preferences"} \* a switch state reaches the flash only later

ASSUME EnvironmentAssumption == Environment \subseteq Hazards

VARIABLES
  phase,         \* the step of loop() that runs next; "result" between loops
  pending,       \* pending_request_.has_value()
  switchSaved    \* the persist switch state a restart restores

vars == <<phase, pending, switchSaved, managerVars, worldVars, historyVars,
          storeVars, exVars>>

TypeOK ==
  /\ phase \in {"result", "bus", "executor", "check"}
  /\ pending \in BOOLEAN
  /\ switchSaved \in BOOLEAN
  /\ ManagerTypeOK
  /\ StoreTypeOK
  /\ ExTypeOK

Init ==
  /\ phase = "result"
  /\ pending = FALSE
  /\ switchSaved = FALSE
  /\ ManagerInit
  /\ StoreInit
  /\ ExInit

-----------------------------------------------------------------------------
(* loop(), step by step *)

(* A finished batch is taken: the manager judges its own, the cloud's is      *)
(* published.                                                                 *)
CollectResult ==
  /\ HasResult
  /\ TakeResult
  /\ IF exBatch.emergency
     THEN \E outcome \in NvsOutcomes : HandleResult(outcome)
     ELSE UNCHANGED <<managerVars, historyVars, storeVars>>

ResultPhase ==
  /\ phase = "result"
  /\ phase' = "bus"
  /\ IF HasResult THEN CollectResult
     ELSE UNCHANGED <<managerVars, historyVars, storeVars, exVars>>
  /\ UNCHANGED <<pending, switchSaved, worldVars>>

StartRequest ==
  /\ pending
  /\ pending' = FALSE
  /\ \E lines \in LineVectors : Start([emergency |-> FALSE, lines |-> lines])
  /\ UNCHANGED <<managerVars, historyVars, storeVars>>

(* Mutant of BusPhase: the cloud's request goes before the emergency set. *)
BusPhaseCloudFirst ==
  /\ phase = "bus"
  /\ phase' = "executor"
  /\ CASE ~Busy /\ pending              -> StartRequest
       [] ~Busy /\ WantsBus /\ ~pending -> StartNextSet /\ UNCHANGED pending
       [] OTHER -> UNCHANGED <<pending, managerVars, historyVars, storeVars, exVars>>
  /\ UNCHANGED <<switchSaved, worldVars>>

(* Mutant of BusPhase: a request waits for as long as anything is stored. *)
BusPhaseStoredFirst ==
  /\ phase = "bus"
  /\ phase' = "executor"
  /\ CASE ~Busy /\ WantsBus                         -> StartNextSet /\ UNCHANGED pending
       [] ~Busy /\ ~WantsBus /\ pending /\ IsEmpty(sets) -> StartRequest
       [] OTHER -> UNCHANGED <<pending, managerVars, historyVars, storeVars, exVars>>
  /\ UNCHANGED <<switchSaved, worldVars>>

(* busy() is false in DONE too, but a result never waits here: loop() has     *)
(* just taken it.                                                             *)
BusPhase ==
  /\ phase = "bus"
  /\ phase' = "executor"
  /\ CASE ~Busy /\ WantsBus             -> StartNextSet /\ UNCHANGED pending
       [] ~Busy /\ ~WantsBus /\ pending -> StartRequest
       [] OTHER -> UNCHANGED <<pending, managerVars, historyVars, storeVars, exVars>>
  /\ UNCHANGED <<switchSaved, worldVars>>

(* executor_.loop(): the batch waits for a gap or for bytes, or it moves on.  *)
BatchAdvances ==
  /\ phase = "executor"
  /\ phase' = "check"
  /\ LineAnswered \/ LineFailed
  /\ UNCHANGED <<pending, switchSaved, managerVars, worldVars, historyVars, storeVars>>

BatchWaits ==
  /\ phase = "executor"
  /\ phase' = "check"
  /\ UNCHANGED <<pending, switchSaved, managerVars, worldVars, historyVars,
                 storeVars, exVars>>

CheckPhase ==
  /\ phase = "check"
  /\ phase' = "result"
  /\ ManagerLoop
  /\ UNCHANGED <<pending, switchSaved, worldVars, exVars>>

LoopStep == ResultPhase \/ BusPhase \/ BatchAdvances \/ BatchWaits \/ CheckPhase

-----------------------------------------------------------------------------
(* Callbacks, between two runs of loop() *)

(* on_cloud_message_, past the payload size and the parser: a request that is *)
(* dropped there changes nothing modelled here.  The single slot keeps the    *)
(* newest request.                                                            *)
OnCloudMessage ==
  /\ phase = "result"
  /\ \E isInvSetup \in BOOLEAN, update \in Updates, outcome \in NvsOutcomes :
       /\ update.lines # NoLines => nextRevision < MaxRevision
       /\ HandleFields(isInvSetup, update, outcome)
  /\ pending' = TRUE
  /\ UNCHANGED <<phase, switchSaved, worldVars, exVars>>

TurnPersistSwitch ==
  /\ "persist_switch" \in Environment
  /\ phase = "result"
  /\ \E outcome \in NvsOutcomes : SetPersistEnabled(~persistEnabled, outcome)
  /\ switchSaved' = IF "lazy_preferences" \in Environment THEN switchSaved
                    ELSE persistEnabled'
  /\ UNCHANGED <<phase, pending, managerVars, worldVars, historyVars, exVars>>

-----------------------------------------------------------------------------
(* Around the program *)

(* The preferences reach the flash at intervals.                              *)
FlushPreferences ==
  /\ switchSaved # persistEnabled
  /\ switchSaved' = persistEnabled
  /\ UNCHANGED <<phase, pending, managerVars, worldVars, historyVars, storeVars, exVars>>

(* Power cut and setup() of the next boot.                                    *)
Restart ==
  /\ "power_cut" \in Environment
  /\ phase' = "result"
  /\ pending' = FALSE
  /\ \E outcome \in LoadOutcomes : Setup(switchSaved, outcome)
  /\ exState' = "IDLE"
  /\ exBatch' = [emergency |-> FALSE, lines |-> NoLines]
  /\ exAnswered' = 0
  /\ clockValid' \in BOOLEAN
  /\ UNCHANGED <<switchSaved, pastThreshold, nvsWorks>>

(* One CHECK_INTERVAL_MS passes.                                              *)
Tick ==
  /\ checkDue' = TRUE
  /\ retryIn' = IF retryIn > 0 THEN retryIn - 1 ELSE 0
  /\ UNCHANGED <<phase, pending, switchSaved, worldVars, historyVars, storeVars, exVars>>
  /\ UNCHANGED <<state, lastInvSetup, invSetupAwaits, bootLoadedAwaits, cloudBack,
                 walkFromStart, currentKey, currentRevision, retryDelay>>

SyncClock ==
  /\ ~clockValid
  /\ clockValid' = TRUE
  /\ UNCHANGED <<phase, pending, switchSaved, pastThreshold, nvsWorks, managerVars,
                 historyVars, storeVars, exVars>>

(* The wall clock passes the threshold minute, then the top of the hour.      *)
PassThreshold ==
  /\ ~pastThreshold
  /\ pastThreshold' = TRUE
  /\ UNCHANGED <<phase, pending, switchSaved, clockValid, nvsWorks, managerVars,
                 historyVars, storeVars, exVars>>

AnHourAgo(mark) == IF mark = "this_hour" THEN "earlier" ELSE mark

TopOfHour ==
  /\ pastThreshold
  /\ pastThreshold' = FALSE
  /\ lastInvSetup' = AnHourAgo(lastInvSetup)
  /\ cloudInvSetup' = AnHourAgo(cloudInvSetup)
  /\ UNCHANGED <<phase, pending, switchSaved, clockValid, nvsWorks, storeVars, exVars>>
  /\ UNCHANGED <<state, invSetupAwaits, bootLoadedAwaits, cloudBack, walkFromStart,
                 currentKey, currentRevision, retryDelay, retryIn, checkDue>>
  /\ UNCHANGED <<cloudInCycle, unserved, touched>>

(* NVS goes out of order (a full or worn flash, no memory for a handle) and    *)
(* recovers.                                                                    *)
NvsChanges ==
  /\ NvsFaults
  /\ nvsWorks' = ~nvsWorks
  /\ UNCHANGED <<phase, pending, switchSaved, clockValid, pastThreshold, managerVars,
                 historyVars, storeVars, exVars>>

Next ==
  \/ LoopStep
  \/ OnCloudMessage
  \/ TurnPersistSwitch
  \/ FlushPreferences
  \/ Restart
  \/ Tick
  \/ SyncClock
  \/ PassThreshold
  \/ TopOfHour
  \/ NvsChanges

Spec == Init /\ [][Next]_vars

(* The main loop keeps running and time passes on both clocks; a batch comes   *)
(* to an end, which ModbusExecutor's response timeout sees to.                 *)
Fairness ==
  /\ WF_vars(LoopStep)
  /\ SF_vars(BatchAdvances)
  /\ WF_vars(Tick)
  /\ WF_vars(PassThreshold)
  /\ WF_vars(TopOfHour)

FairSpec == Spec /\ Fairness

(* The inverter answers an emergency line.                                     *)
EmergencyLineAnswered ==
  /\ phase = "executor"
  /\ phase' = "check"
  /\ exBatch.emergency
  /\ LineAnswered
  /\ UNCHANGED <<pending, switchSaved, managerVars, worldVars, historyVars, storeVars>>

(* An inverter that is sent emergency lines over and over answers one at last.  *)
(* Nothing in the code sees to that, so it is no part of FairSpec.             *)
AnswersAtLast == SF_vars(EmergencyLineAnswered)

-----------------------------------------------------------------------------
(* Safety *)

(* The lifecycle state never disagrees with the store: something is stored     *)
(* while the device is armed, queued or backing off, nothing when it is EMPTY. *)
(* handle_fields, handle_result, check_trigger_ and setup each decide this on   *)
(* their own view of the store (emergency_manager.cpp:34,95,115,213).           *)
StateMatchesStore ==
  /\ state \in {"ARMED", "QUEUED", "BACKOFF"} => ~IsEmpty(sets)
  /\ state = "EMPTY" => IsEmpty(sets)

(* The manager is EXECUTING exactly while the executor holds a batch of its    *)
(* own, whatever the cloud clears, replaces or announces meanwhile: otherwise a *)
(* second batch would start over a running one, or a result would reach the     *)
(* wrong owner (gbb_dongle.cpp:276-296).                                        *)
BusOwnership ==
  (exState # "IDLE" /\ exBatch.emergency) <=> state = "EXECUTING"

(* A cycle does not end before every set that was stored when it was triggered *)
(* has been run, unless the cloud cleared it ("owns the bus until every stored  *)
(* set has been executed", gbb_dongle.cpp:286-290).                             *)
CycleCoversEverySet == ~InCycle => unserved = {}

(* A retry is never scheduled or kept after an InvSetup: it came before the     *)
(* cycle was queued, or the remainder is left to the cloud                      *)
(* (emergency_manager.cpp:59-73,221).                                           *)
NoRetryBehindTheCloud == state = "BACKOFF" => ~cloudInCycle

(* When start_next_set gets the bus there always is a set to run, so its end   *)
(* of walk (emergency_manager.cpp:153-157) is never reached.                    *)
WalkFindsASet == phase = "bus" /\ ~Busy /\ WantsBus => Ahead # {}

(* A cloud request never starts between the trigger of a cycle and its end     *)
(* ("they never interleave", docs/protocol.md:104).                             *)
CloudNeverInterleaves ==
  [][exState = "IDLE" /\ exState' # "IDLE" /\ ~exBatch'.emergency => ~InCycle]_vars

(* The result of a run clears the set it ran and no other, only if the inverter *)
(* answered, and never a set the cloud stored after the run started, not even   *)
(* one with the same content (emergency_manager.cpp:192-203).                   *)
ClearsOnlyWhatRan ==
  [][phase = "result" /\ phase' = "bus" /\ sets' # sets =>
       /\ ~touched
       /\ exAnswered > 0
       /\ sets[currentKey] = exBatch.lines
       /\ sets' = [sets EXCEPT ![currentKey] = NoLines]]_vars

(* The hourly check never fires in an hour in which an InvSetup came, nor in    *)
(* the first minutes of the hour, nor on an unset clock: not when the InvSetup  *)
(* beat the clock sync and its time was approximated, nor after a restart       *)
(* ("never fire it early", emergency_manager.cpp:126-129).                      *)
NeverFiresEarly ==
  [][state = "ARMED" /\ state' = "QUEUED" =>
       clockValid /\ pastThreshold /\ cloudInvSetup # "this_hour"]_vars

(* The delay between retries grows to its maximum and only shrinks again when   *)
(* a new hour without InvSetup triggers a cycle (emergency_manager.cpp:144,230), *)
(* or by a restart, provided its first value is not above the maximum.          *)
BackoffNeverShrinks ==
  [][RetryInitial <= RetryMax /\ retryDelay' < retryDelay =>
       (state = "ARMED" /\ state' = "QUEUED") \/ Restart]_vars

(* The persist switch takes effect, and is saved, as one step.                  *)
SwitchSaved == switchSaved = persistEnabled

(* The blob is what a restart should restore: the stored sets while persistence *)
(* is on, unless they exceed the cap, and nothing while it is off; and the hash  *)
(* is that of the blob, or sync_nvs would skip or repeat a write.                *)
Mirrored ==
  /\ persistEnabled /\ ~ExceedsCap(sets) => nvs = sets
  /\ ~persistEnabled => IsEmpty(nvs)
  /\ persistEnabled => persistedHash = nvs

(* NVS mirrors the store from the start, and no step loses that while NVS works: *)
(* no change of the store by the cloud or by a delivery, no turn of the switch    *)
(* and no power cut, however often NVS failed before; but for a power cut that    *)
(* comes before the turned switch is in the flash (emergency_store.h:37-45).      *)
NvsMirrorsStore ==
  [][Mirrored /\ nvsWorks => Mirrored' \/ (Restart /\ ~SwitchSaved)]_vars

-----------------------------------------------------------------------------
(* GbbDongle implements LastWill *)

BusInUse ==
  CASE exState = "IDLE"                      -> [owner |-> "nobody"]
    [] exState # "IDLE" /\ ~exBatch.emergency -> [owner |-> "cloud"]
    [] exState # "IDLE" /\ exBatch.emergency  ->
         [owner |-> "will", key |-> currentKey, fresh |-> ~touched,
          answered |-> exAnswered > 0]

LW == INSTANCE LastWill WITH
  stored <- sets, saved <- nvs, cycle <- InCycle, due <- unserved, bus <- BusInUse,
  retry <- state = "BACKOFF", cloud <- cloudInvSetup, back <- cloudInCycle,
  late <- pastThreshold

(* Whatever the loop does with keys, revisions, hashes and failing NVS, the     *)
(* cloud and the inverter see the promises of LastWill: the sets of a cycle go   *)
(* out without the cloud in between, one is forgotten only when it was answered  *)
(* as it is stored, a retry ends with an InvSetup, and a restart restores what   *)
(* was saved, or nothing.                                                        *)
ImplementsLastWill == LW!Spec

-----------------------------------------------------------------------------
(* The parts that make the invariants above inductive *)

(* Every stored set has a revision of its own time, every absent one revision 0. *)
RevisionsOfSets ==
  \A k \in Keys :
    /\ revisions[k] <= nextRevision
    /\ revisions[k] = 0 <=> sets[k] = NoLines

(* The revision noted at the start of a run tells whether the set on the bus is *)
(* still the stored one.                                                        *)
RevisionTellsTouched ==
  state = "EXECUTING" =>
    /\ currentKey \in Keys
    /\ currentRevision \in 1..nextRevision
    /\ IF touched
       THEN revisions[currentKey] # currentRevision
       ELSE /\ revisions[currentKey] = currentRevision
            /\ sets[currentKey] = exBatch.lines

(* What a cycle has left to run lies ahead of the walk; between two sets of one *)
(* cycle the bus is not given away.                                             *)
WalkInOrder ==
  /\ state = "QUEUED" => unserved \subseteq Ahead
  /\ state = "QUEUED" /\ ~walkFromStart =>
       phase = "bus" /\ exState = "IDLE" /\ Ahead # {}
  /\ state = "EXECUTING" =>
       \A k \in unserved : sets[k] # NoLines /\ k > currentKey

(* A cycle knows of every InvSetup that came since it was queued.               *)
CycleKnowsCloud == InCycle /\ cloudInCycle => cloudBack

(* loop() leaves no result on the executor when it hands out the bus.           *)
NoResultAtBus == phase = "bus" => exState # "DONE"

(* An InvSetup of this hour is on record, or waits for the clock.               *)
InvSetupOnRecord ==
  cloudInvSetup = "this_hour" => lastInvSetup # "earlier" \/ invSetupAwaits

(* The inductive invariant. *)
IInv ==
  /\ StateMatchesStore
  /\ BusOwnership
  /\ CycleCoversEverySet
  /\ NoRetryBehindTheCloud
  /\ RevisionsOfSets
  /\ RevisionTellsTouched
  /\ WalkInOrder
  /\ CycleKnowsCloud
  /\ NoResultAtBus
  /\ InvSetupOnRecord

-----------------------------------------------------------------------------
(* Liveness *)

(* The request in the slot gets the bus, emergency cycles notwithstanding: also *)
(* when no inverter ever answers, and failed cycles and retries follow each      *)
(* other for ever (gbb_dongle.cpp:285-296; emergency_manager.cpp:221-233).      *)
RequestServed == pending ~> ~pending

(* A triggered cycle comes to an end, whatever the inverter answers and however  *)
(* often it is retried (gbb_dongle.cpp:285-296).                                *)
CycleEnds == InCycle ~> ~InCycle

(* "Retried until it succeeds or a fresh IsInvSetup arrives"                    *)
(* (docs/protocol.md:110-115), for an inverter that answers at last.            *)
RetriedUntilDelivered ==
  AnswersAtLast => (state = "BACKOFF" ~> IsEmpty(sets) \/ cloudInCycle)

-----------------------------------------------------------------------------
(* What the documentation says and the code does not do *)

(* "InvSetup arrived while a send cycle was running" (emergency_manager.h:79):  *)
(* a remainder is left un-retried only then.                                    *)
CloudBackIsOfThisCycle ==
  [][state = "EXECUTING" /\ state' = "ARMED" => cloudInCycle]_vars

(* "If an IsInvSetup message has been seen before but none arrived since the    *)
(* top of the current hour, the device executes every stored set"               *)
(* (docs/protocol.md:95-98).  Said of the clear case: the InvSetup came after    *)
(* the last cycle was queued, on a valid clock, in an earlier hour.              *)
FiresOncePastThreshold ==
  [][/\ phase = "check" /\ phase' = "result" /\ checkDue
     /\ state = "ARMED" /\ clockValid /\ pastThreshold
     /\ ~invSetupAwaits /\ ~bootLoadedAwaits
     /\ cloudInvSetup = "earlier" /\ lastInvSetup # "this_hour"
     /\ cloudInCycle
     => state' = "QUEUED"]_vars

(* "The inverter must never be left with a half-applied emergency state"         *)
(* (gbb_dongle.cpp:286-288): a set is done with only when all of its lines went  *)
(* through.                                                                      *)
NeverHalfApplied ==
  [][phase = "result" /\ phase' = "bus" /\ sets' # sets =>
       exAnswered = ValidLines[exBatch.lines]]_vars

(* sync_nvs "erases the key when the store is empty" (emergency_store.h:43-45):  *)
(* said of the clear case, a change that empties the store while NVS works.      *)
EmptyStoreErased ==
  [][/\ nvsWorks /\ persistEnabled /\ persistEnabled'
     /\ ~IsEmpty(sets) /\ IsEmpty(sets')
     => IsEmpty(nvs')]_vars
=============================================================================
