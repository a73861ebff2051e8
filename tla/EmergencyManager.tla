-------------------------- MODULE EmergencyManager --------------------------
(***************************************************************************)
(* EmergencyManager (components/gbb_dongle/emergency_manager.cpp): the      *)
(* hourly InvSetup deadline, the send cycle over the stored sets, and the   *)
(* retry with backoff.  Its handlers are the operators with primes below;   *)
(* module GbbDongle puts them in the order GbbDongle::loop calls them.      *)
(*                                                                          *)
(* Wall-clock time is kept as far as the handlers tell instants apart:      *)
(* whether the clock is valid, whether the minute is past the threshold,    *)
(* and whether an InvSetup timestamp is before the top of the hour.         *)
(* Elapsed time is counted in ticks of CHECK_INTERVAL_MS.                   *)
(***************************************************************************)
EXTENDS BatchExecutor, EmergencyStore

CONSTANTS
  RetryInitial,   \* retry_initial_ms_, in ticks
  RetryMax,       \* retry_max_ms_, in ticks
  MaxRevision     \* bound on nextRevision, so on the sets the cloud sends

(* Neither positive_time_period nor anything else keeps RetryInitial below     *)
(* RetryMax, or above 0 (__init__.py:113-118).                                  *)
ASSUME RetryAssumption ==
  /\ RetryInitial \in Nat
  /\ RetryMax \in Nat
  /\ MaxRevision \in Nat

VARIABLES
  state,            \* state_
  lastInvSetup,     \* last_inv_setup_ts_: "never" (0), "earlier" or "this_hour"
  invSetupAwaits,   \* inv_setup_awaiting_time_
  bootLoadedAwaits, \* boot_loaded_awaiting_time_
  cloudBack,        \* cloud_back_
  walkFromStart,    \* walk_from_start_
  currentKey,       \* current_key_
  currentRevision,  \* current_revision_
  retryDelay,       \* retry_delay_ms_
  retryIn,          \* retry_at_ - millis(), 0 once it is due
  checkDue          \* millis() - last_check_ >= CHECK_INTERVAL_MS

VARIABLES           \* the wall clock; with nvsWorks, the world around the manager
  clockValid,       \* time_source_->now().is_valid()
  pastThreshold     \* the minute of the hour is past minute_threshold_

VARIABLES           \* history, read by properties only
  cloudInvSetup,    \* when the last InvSetup really came
  cloudInCycle,     \* an InvSetup came since the cycle was last queued
  unserved,         \* keys stored when the cycle was queued, not yet run
  touched           \* the set on the bus was cleared or replaced since it started

managerVars == <<state, lastInvSetup, invSetupAwaits, bootLoadedAwaits, cloudBack,
                 walkFromStart, currentKey, currentRevision, retryDelay, retryIn,
                 checkDue>>
worldVars == <<clockValid, pastThreshold, nvsWorks>>
historyVars == <<cloudInvSetup, cloudInCycle, unserved, touched>>

States == {"EMPTY", "ARMED", "QUEUED", "EXECUTING", "BACKOFF"}
InCycle == state \in {"QUEUED", "EXECUTING"}
HourMarks == {"never", "earlier", "this_hour"}
LongestDelay == IF RetryInitial < RetryMax THEN RetryMax ELSE RetryInitial

ManagerTypeOK ==
  /\ state \in States
  /\ lastInvSetup \in HourMarks
  /\ invSetupAwaits \in BOOLEAN /\ bootLoadedAwaits \in BOOLEAN
  /\ cloudBack \in BOOLEAN /\ walkFromStart \in BOOLEAN
  /\ currentKey \in Keys \cup {0}
  /\ currentRevision \in Nat
  /\ retryDelay \in 0..LongestDelay
  /\ retryIn \in 0..LongestDelay
  /\ checkDue \in BOOLEAN
  /\ clockValid \in BOOLEAN /\ pastThreshold \in BOOLEAN /\ nvsWorks \in BOOLEAN
  /\ cloudInvSetup \in HourMarks
  /\ cloudInCycle \in BOOLEAN
  /\ unserved \subseteq Keys
  /\ touched \in BOOLEAN

(* The members of a fresh EmergencyManager, all but state_ and                *)
(* boot_loaded_awaiting_time_, which setup() decides.  retry_delay_ms_ is 60 s  *)
(* then, but nothing reads it before a trigger has set it to RetryInitial.     *)
FreshMembers ==
  /\ lastInvSetup' = "never"
  /\ invSetupAwaits' = FALSE
  /\ cloudBack' = FALSE
  /\ walkFromStart' = FALSE
  /\ currentKey' = 0
  /\ currentRevision' = 0
  /\ retryDelay' = RetryInitial
  /\ retryIn' = 0
  /\ checkDue' = FALSE
  /\ cloudInCycle' = FALSE
  /\ unserved' = {}
  /\ touched' = FALSE

ManagerInit ==
  /\ state = "EMPTY"
  /\ lastInvSetup = "never"
  /\ invSetupAwaits = FALSE /\ bootLoadedAwaits = FALSE
  /\ cloudBack = FALSE /\ walkFromStart = FALSE
  /\ currentKey = 0 /\ currentRevision = 0
  /\ retryDelay = RetryInitial /\ retryIn = 0
  /\ checkDue = FALSE
  /\ clockValid = FALSE /\ pastThreshold \in BOOLEAN /\ nvsWorks = TRUE
  /\ cloudInvSetup = "never" /\ cloudInCycle = FALSE
  /\ unserved = {} /\ touched = FALSE

(* Mutant of Setup: the switch arms the device, not what was restored. *)
SetupArmedBySwitch(on, outcome) ==
  /\ RestartStore(on, outcome)
  /\ state' = IF on THEN "ARMED" ELSE "EMPTY"
  /\ bootLoadedAwaits' = on
  /\ FreshMembers
  /\ UNCHANGED cloudInvSetup

(* setup() on a restarted device; `on` is the restored persist switch. *)
Setup(on, outcome) ==
  /\ RestartStore(on, outcome)
  /\ state' = IF IsEmpty(sets') THEN "EMPTY" ELSE "ARMED"
  /\ bootLoadedAwaits' = ~IsEmpty(sets')
  /\ FreshMembers
  /\ UNCHANGED cloudInvSetup

-----------------------------------------------------------------------------
(* handle_fields, its two halves in order: IsInvSetup first, then             *)
(* LinesOnNoInvSetup, whose test for an empty store runs on the new sets and  *)
(* whether or not they changed.                                               *)

NoUpdate == [given |-> FALSE, key |-> 0, lines |-> NoLines]
Updates == [given : {TRUE}, key : Keys, lines : LineVectors] \cup {NoUpdate}

(* Mutant of StateAfterInvSetup: a scheduled retry survives the InvSetup. *)
StateAfterInvSetupWithRetry(isInvSetup) == state

StateAfterInvSetup(isInvSetup) ==
  IF isInvSetup /\ state = "BACKOFF" THEN "ARMED" ELSE state

(* Mutant of StateAfterUpdate: a running cycle does not stay EXECUTING. *)
StateAfterUpdateDropped(st, s) ==
  CASE IsEmpty(s)                    -> "EMPTY"
    [] ~IsEmpty(s) /\ st = "EMPTY"   -> "ARMED"
    [] OTHER                         -> st

StateAfterUpdate(st, s) ==
  CASE IsEmpty(s) /\ st # "EXECUTING"  -> "EMPTY"
    [] ~IsEmpty(s) /\ st = "EMPTY"     -> "ARMED"
    [] OTHER                           -> st

NoteInvSetup(isInvSetup) ==
  IF isInvSetup
  THEN /\ lastInvSetup' = IF clockValid THEN "this_hour" ELSE lastInvSetup
       /\ invSetupAwaits' = ~clockValid
       /\ bootLoadedAwaits' = FALSE
       /\ cloudBack' = (cloudBack \/ InCycle)
       /\ cloudInvSetup' = "this_hour"
       /\ cloudInCycle' = TRUE
  ELSE UNCHANGED <<lastInvSetup, invSetupAwaits, bootLoadedAwaits, cloudBack,
                   cloudInvSetup, cloudInCycle>>

HandleFields(isInvSetup, update, outcome) ==
  /\ NoteInvSetup(isInvSetup)
  /\ IF update.given
     THEN /\ SetLines(update.key, update.lines)
          /\ IF Changes(update.key, update.lines)
             THEN SyncNvs(sets', persistedHash, persistEnabled, outcome)
             ELSE UNCHANGED <<persistedHash, nvs>>
          /\ state' = StateAfterUpdate(StateAfterInvSetup(isInvSetup), sets')
          /\ unserved' = unserved \cap KeysOf(sets')
          /\ touched' = (touched \/ (/\ state = "EXECUTING"
                                     /\ update.key = currentKey
                                     /\ Changes(update.key, update.lines)))
     ELSE /\ state' = StateAfterInvSetup(isInvSetup)
          /\ UNCHANGED <<sets, revisions, nextRevision, persistedHash, nvs,
                         unserved, touched>>
  /\ UNCHANGED persistEnabled
  /\ UNCHANGED <<walkFromStart, currentKey, currentRevision, retryDelay, retryIn,
                 checkDue>>

-----------------------------------------------------------------------------
(* check_trigger_ *)

RetryDue == state = "BACKOFF" /\ retryIn = 0

HourlyDue ==
  /\ pastThreshold
  /\ lastInvSetup = "earlier"   \* neither 0 nor at or after the top of the hour

(* Mutant of QueueCycle: the walk goes on where the last one stopped. *)
QueueCycleAtOldKey ==
  /\ state' = "QUEUED"
  /\ UNCHANGED walkFromStart
  /\ cloudInCycle' = FALSE
  /\ unserved' = KeysOf(sets)

QueueCycle ==
  /\ state' = "QUEUED"
  /\ walkFromStart' = TRUE
  /\ cloudInCycle' = FALSE
  /\ unserved' = KeysOf(sets)

(* Mutant of RetryCycle: every retry starts over with the initial delay. *)
RetryCycleResetting ==
  /\ RetryDue
  /\ QueueCycle
  /\ retryDelay' = RetryInitial
  /\ UNCHANGED <<lastInvSetup, invSetupAwaits, bootLoadedAwaits>>

(* The retry timer ran out. *)
RetryCycle ==
  /\ RetryDue
  /\ QueueCycle
  /\ UNCHANGED <<lastInvSetup, invSetupAwaits, bootLoadedAwaits, retryDelay>>

(* Mutant of StampInvSetup: the unknown time is taken for an earlier hour's. *)
StampInvSetupEarlier ==
  /\ state = "ARMED" /\ clockValid
  /\ invSetupAwaits \/ bootLoadedAwaits
  /\ invSetupAwaits' = FALSE /\ bootLoadedAwaits' = FALSE
  /\ lastInvSetup' = "earlier"
  /\ UNCHANGED <<state, walkFromStart, cloudInCycle, unserved, retryDelay>>

(* First check with a valid clock after an InvSetup, or a restored store,     *)
(* that preceded the sync: its unknown time is approximated by now.           *)
StampInvSetup ==
  /\ state = "ARMED" /\ clockValid
  /\ invSetupAwaits \/ bootLoadedAwaits
  /\ invSetupAwaits' = FALSE /\ bootLoadedAwaits' = FALSE
  /\ lastInvSetup' = "this_hour"
  /\ UNCHANGED <<state, walkFromStart, cloudInCycle, unserved, retryDelay>>

(* No InvSetup this hour. *)
TriggerCycle ==
  /\ state = "ARMED" /\ clockValid
  /\ ~invSetupAwaits /\ ~bootLoadedAwaits
  /\ HourlyDue
  /\ retryDelay' = RetryInitial
  /\ QueueCycle
  /\ UNCHANGED <<lastInvSetup, invSetupAwaits, bootLoadedAwaits>>

(* Every early return that leaves things as they are.                         *)
NothingToTrigger ==
  /\ ~RetryDue
  /\ state = "ARMED" =>
       \/ ~clockValid
       \/ ~invSetupAwaits /\ ~bootLoadedAwaits /\ ~HourlyDue
  /\ UNCHANGED <<state, lastInvSetup, invSetupAwaits, bootLoadedAwaits,
                 walkFromStart, cloudInCycle, unserved, retryDelay>>

(* ARMED over an empty store falls back to EMPTY first.                       *)
DisarmEmptyStore ==
  /\ state' = "EMPTY"
  /\ UNCHANGED <<lastInvSetup, invSetupAwaits, bootLoadedAwaits, walkFromStart,
                 cloudInCycle, unserved, retryDelay>>

CheckTrigger ==
  IF state = "ARMED" /\ IsEmpty(sets)
  THEN DisarmEmptyStore
  ELSE RetryCycle \/ StampInvSetup \/ TriggerCycle \/ NothingToTrigger

(* loop(): check_trigger_ is rate-limited. *)
ManagerLoop ==
  /\ checkDue' = FALSE
  /\ IF checkDue
     THEN CheckTrigger
     ELSE UNCHANGED <<state, lastInvSetup, invSetupAwaits, bootLoadedAwaits,
                      walkFromStart, cloudInCycle, unserved, retryDelay>>
  /\ UNCHANGED <<cloudBack, currentKey, currentRevision, retryIn,
                 cloudInvSetup, touched>>
  /\ UNCHANGED storeVars

-----------------------------------------------------------------------------
(* start_next_set, called with the executor idle. *)

WantsBus == state = "QUEUED"

(* The key the cycle comes to next: the first one, or the first one after the *)
(* set it ran last.                                                           *)
Ahead == {k \in KeysOf(sets) : walkFromStart \/ k > currentKey}
FirstOf(ks) == CHOOSE k \in ks : \A j \in ks : k <= j

EndOfWalk ==
  /\ cloudBack' = FALSE
  /\ state' = IF IsEmpty(sets) THEN "EMPTY" ELSE "ARMED"
  /\ UNCHANGED <<walkFromStart, currentKey, currentRevision, unserved, touched>>
  /\ UNCHANGED exVars

RunSet(key) ==
  /\ walkFromStart' = FALSE
  /\ currentKey' = key
  /\ currentRevision' = revisions[key]
  /\ Start([emergency |-> TRUE, lines |-> sets[key]])
  /\ state' = "EXECUTING"
  /\ unserved' = unserved \ {key}
  /\ touched' = FALSE
  /\ UNCHANGED cloudBack

StartNextSet ==
  /\ WantsBus
  /\ IF Ahead = {} THEN EndOfWalk ELSE RunSet(FirstOf(Ahead))
  /\ UNCHANGED <<lastInvSetup, invSetupAwaits, bootLoadedAwaits, retryDelay,
                 retryIn, checkDue, cloudInvSetup, cloudInCycle>>
  /\ UNCHANGED storeVars

-----------------------------------------------------------------------------
(* handle_result *)

(* Mutant of SettleSet: the copy in NVS is left as it was. *)
SettleSetInRam(outcome) ==
  IF Delivered /\ revisions[currentKey] = currentRevision
  THEN ClearSet(currentKey) /\ UNCHANGED <<persistEnabled, persistedHash, nvs>>
  ELSE UNCHANGED storeVars

(* Mutant of SettleSet: a set without an answer is cleared, too. *)
SettleSetUnanswered(outcome) ==
  IF revisions[currentKey] = currentRevision
  THEN /\ ClearSet(currentKey)
       /\ SyncNvs(sets', persistedHash, persistEnabled, outcome)
       /\ UNCHANGED persistEnabled
  ELSE UNCHANGED storeVars

(* A delivered set is cleared only while its revision is still the one run.   *)
SettleSet(outcome) ==
  IF Delivered /\ revisions[currentKey] = currentRevision
  THEN /\ ClearSet(currentKey)
       /\ SyncNvs(sets', persistedHash, persistEnabled, outcome)
       /\ UNCHANGED persistEnabled
  ELSE UNCHANGED storeVars

(* Mutant of MoreSetsAhead: the cycle stops when the cloud is back. *)
MoreSetsAheadUnlessBack(s) == ~cloudBack /\ \E k \in KeysOf(s) : k > currentKey

MoreSetsAhead(s) == \E k \in KeysOf(s) : k > currentKey

NextSetQueued ==
  /\ MoreSetsAhead(sets')
  /\ state' = "QUEUED"
  /\ UNCHANGED <<lastInvSetup, cloudBack, retryIn, retryDelay>>

AllSetsDelivered ==
  /\ IsEmpty(sets')
  /\ lastInvSetup' = "never"
  /\ cloudBack' = FALSE
  /\ state' = "EMPTY"
  /\ UNCHANGED <<retryIn, retryDelay>>

(* An undelivered remainder is left to the cloud that came back, ...          *)
RemainderLeftToCloud ==
  /\ ~MoreSetsAhead(sets') /\ ~IsEmpty(sets')
  /\ cloudBack
  /\ cloudBack' = FALSE
  /\ state' = "ARMED"
  /\ UNCHANGED <<lastInvSetup, retryIn, retryDelay>>

(* Mutant of RemainderToRetry: the delay is not capped. *)
RemainderToRetryUncapped ==
  /\ ~MoreSetsAhead(sets') /\ ~IsEmpty(sets')
  /\ ~cloudBack
  /\ state' = "BACKOFF"
  /\ retryIn' = retryDelay
  /\ retryDelay' = 2 * retryDelay
  /\ UNCHANGED <<lastInvSetup, cloudBack>>

(* ... or retried, each time after twice the delay.                           *)
RemainderToRetry ==
  /\ ~MoreSetsAhead(sets') /\ ~IsEmpty(sets')
  /\ ~cloudBack
  /\ state' = "BACKOFF"
  /\ retryIn' = retryDelay
  /\ retryDelay' = IF 2 * retryDelay < RetryMax THEN 2 * retryDelay ELSE RetryMax
  /\ UNCHANGED <<lastInvSetup, cloudBack>>

HandleResult(outcome) ==
  /\ SettleSet(outcome)
  /\ \/ NextSetQueued
     \/ AllSetsDelivered
     \/ RemainderLeftToCloud
     \/ RemainderToRetry
  /\ UNCHANGED <<invSetupAwaits, bootLoadedAwaits, walkFromStart, currentKey,
                 currentRevision, checkDue, cloudInvSetup, cloudInCycle,
                 unserved, touched>>
=============================================================================
