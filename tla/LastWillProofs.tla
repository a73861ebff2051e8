-------------------------- MODULE LastWillProofs --------------------------
(***************************************************************************)
(* GbbDongle implements LastWill: for every set of SubInverterSNs and       *)
(* contents, every retry bound and every environment, each step of the      *)
(* dongle is a step of LastWill or changes nothing LastWill sees.           *)
(***************************************************************************)
EXTENDS GbbDongleProofs

-----------------------------------------------------------------------------
(* The two modules' words for the same things *)

(* Both modules have the same empty store and the same stored keys. *)
LEMMA SameStore ==
  LW!None = EmptySets /\ LW!LineVectors = LineVectors /\ \A s : LW!KeysOf(s) = KeysOf(s)
BY DEF LW!None, EmptySets, LW!LineVectors, LineVectors, LW!KeysOf, KeysOf

(* Every call of sync_nvs leaves the blob, replaces it by the sets, or erases it. *)
LEMMA SyncNvsSaves ==
  ASSUME NEW s, NEW hash, NEW on \in BOOLEAN, NEW outcome, SyncNvs(s, hash, on, outcome)
  PROVE  nvs' \in {nvs, s, EmptySets}
<1>1. CASE ~on \/ outcome = "open_fails"
  BY <1>1 DEF SyncNvs
<1>2. CASE on /\ outcome # "open_fails" /\ IsEmpty(s)
  BY <1>2 DEF SyncNvs, EraseNvs
<1>3. CASE on /\ outcome # "open_fails" /\ ~IsEmpty(s)
  BY <1>3 DEF SyncNvs
<1>4. QED
  BY <1>1, <1>2, <1>3

(* What the bus is in use for, by the owner of the executor's batch. *)
LEMMA BusByOwner ==
  /\ exState = "IDLE" => BusInUse = LW!Free
  /\ exState # "IDLE" /\ ~exBatch.emergency => BusInUse = LW!Cloud
  /\ exState # "IDLE" /\ exBatch.emergency =>
       BusInUse = LW!Will(currentKey, ~touched, exAnswered > 0)
BY DEF BusInUse, LW!Free, LW!Cloud, LW!Will

(* The owners are different, and a set on the bus says what it is. *)
LEMMA OwnersDiffer ==
  ASSUME NEW key, NEW fresh, NEW answered
  PROVE  /\ LW!Free.owner = "nobody" /\ LW!Cloud.owner = "cloud"
         /\ LW!Will(key, fresh, answered).owner = "will"
         /\ LW!Will(key, fresh, answered).key = key
         /\ LW!Will(key, fresh, answered).fresh = fresh
         /\ LW!Will(key, fresh, answered).answered = answered
BY DEF LW!Free, LW!Cloud, LW!Will

(* A step that leaves the executor and the set on it alone leaves the bus alone. *)
LEMMA BusUnchanged ==
  ASSUME UNCHANGED exVars, UNCHANGED <<currentKey, touched>>
  PROVE  BusInUse' = BusInUse
BY DEF exVars, BusInUse

-----------------------------------------------------------------------------
(* The steps *)

(* handle_result settles the set on the bus. *)
LEMMA ResultSettles ==
  ASSUME TypeOK, IInv, IInv', ResultPhase, HasResult, exBatch.emergency
  PROVE  LW!Settle
<1>1. PICK outcome \in NvsOutcomes : HandleResult(outcome)
  BY DEF ResultPhase, CollectResult
<1>2. state = "EXECUTING" /\ exState = "DONE"
  BY DEF IInv, BusOwnership, HasResult
<1>3. BusInUse = LW!Will(currentKey, ~touched, exAnswered > 0)
  BY <1>2, BusByOwner
<1>4. BusInUse' = LW!Free
  BY BusByOwner DEF ResultPhase, CollectResult, TakeResult, BusInUse, LW!Free
<1>5. (revisions[currentKey] = currentRevision) <=> ~touched
  BY <1>2 DEF IInv, RevisionTellsTouched
<1>6. sets' = IF exAnswered > 0 /\ ~touched
              THEN [sets EXCEPT ![currentKey] = NoLines] ELSE sets
  BY <1>1, <1>5 DEF HandleResult, SettleSet, Delivered, ClearSet, storeVars
<1>7. nvs' \in {nvs, sets', EmptySets}
  <2>1. persistEnabled \in BOOLEAN
    BY DEF TypeOK, StoreTypeOK
  <2>2. QED
    BY <1>1, <2>1, SyncNvsSaves DEF HandleResult, SettleSet, storeVars
<1>8. /\ UNCHANGED <<unserved, cloudInvSetup, cloudInCycle, pastThreshold>>
      /\ state' \in {"QUEUED", "EMPTY", "ARMED", "BACKOFF"}
  BY <1>1 DEF ResultPhase, HandleResult, NextSetQueued, AllSetsDelivered,
              RemainderLeftToCloud, RemainderToRetry, worldVars
<1>9. /\ InCycle' = (state' = "QUEUED")
      /\ state' # "EMPTY" => KeysOf(sets') # {}
      /\ state' # "QUEUED" => unserved = {}
      /\ state' = "BACKOFF" => ~cloudInCycle
  BY <1>8 DEF InCycle, IInv, StateMatchesStore, IsEmpty, CycleCoversEverySet,
              NoRetryBehindTheCloud
<1>10. \/ InCycle' = TRUE /\ KeysOf(sets') # {} /\ (state' = "BACKOFF") = (state = "BACKOFF")
       \/ /\ InCycle' = FALSE /\ unserved = {}
          /\ state' = "BACKOFF" => ~cloudInCycle /\ KeysOf(sets') # {}
  BY <1>2, <1>8, <1>9
<1>11. QED
  BY <1>3, <1>4, <1>6, <1>7, <1>8, <1>10, SameStore DEF LW!Settle, LW!Will

(* The first loop step settles the set, ends the cloud's batch or does nothing. *)
LEMMA ResultStep ==
  ASSUME TypeOK, IInv, IInv', ResultPhase
  PROVE  [LW!Next]_(LW!vars)
<1>1. CASE HasResult /\ exBatch.emergency
  BY <1>1, ResultSettles DEF LW!Next
<1>2. CASE HasResult /\ ~exBatch.emergency
  <2>1. BusInUse = LW!Cloud
    BY <1>2, BusByOwner DEF HasResult
  <2>2. BusInUse' = LW!Free
    BY <1>2 DEF ResultPhase, CollectResult, TakeResult, BusInUse, LW!Free
  <2>3. UNCHANGED <<sets, nvs, state, unserved, cloudInvSetup, cloudInCycle, pastThreshold>>
    BY <1>2 DEF ResultPhase, CollectResult, managerVars, historyVars, storeVars, worldVars
  <2>4. LW!CloudLeavesBus
    BY <2>1, <2>2, <2>3 DEF LW!CloudLeavesBus, InCycle
  <2>5. QED
    BY <2>4 DEF LW!Next
<1>3. CASE ~HasResult
  <2>1. UNCHANGED <<managerVars, historyVars, storeVars, exVars, worldVars>>
    BY <1>3 DEF ResultPhase
  <2>2. QED
    BY <2>1, BusUnchanged DEF LW!vars, managerVars, historyVars, storeVars, worldVars, InCycle
<1>4. QED
  BY <1>1, <1>2, <1>3

(* start_next_set sends the first set the cycle still has to send. *)
LEMMA SetIsSent ==
  ASSUME TypeOK, IInv, BusPhase, ~Busy, WantsBus
  PROVE  LW!Next
<1> DEFINE key == FirstOf(Ahead)
<1>1. StartNextSet /\ UNCHANGED pastThreshold
  BY DEF BusPhase, worldVars
<1>2. phase = "bus" /\ exState = "IDLE" /\ state = "QUEUED"
  BY DEF BusPhase, TypeOK, ExTypeOK, Busy, IInv, NoResultAtBus, WantsBus
<1>3. Ahead # {} /\ Ahead \subseteq Keys
  BY <1>2, QueuedFindsASet DEF Ahead, KeysOf
<1>4. /\ RunSet(key) /\ key \in Ahead /\ \A j \in Ahead : key <= j
      /\ UNCHANGED <<cloudInvSetup, cloudInCycle>> /\ UNCHANGED storeVars
  BY <1>1, <1>3, FirstOfIsLeast DEF StartNextSet
<1> HIDE DEF key
<1>5. BusInUse = LW!Free
  BY <1>2, BusByOwner
<1>6. BusInUse' = LW!Will(key, TRUE, FALSE)
  <2>1. exState' # "IDLE" /\ exBatch'.emergency /\ exAnswered' = 0
    BY <1>4 DEF RunSet, Start, AfterLine
  <2>2. currentKey' = key /\ touched' = FALSE
    BY <1>4 DEF RunSet
  <2>3. QED
    <3>1. BusInUse' = LW!Will(key, ~touched', exAnswered' > 0)
      BY <2>1, <2>2 DEF BusInUse, LW!Will
    <3>2. (~touched') = TRUE /\ (exAnswered' > 0) = FALSE
      BY <2>1, <2>2
    <3>3. QED
      BY <3>1, <3>2 DEF LW!Will
<1>7. key \in Keys /\ key \in KeysOf(sets) /\ \A j \in unserved : key <= j
  BY <1>2, <1>3, <1>4 DEF Ahead, IInv, WalkInOrder
<1>8. state' = "EXECUTING" /\ unserved' = unserved \ {key}
  BY <1>4 DEF RunSet
<1>9. LW!Send(key)
  BY <1>1, <1>2, <1>4, <1>5, <1>6, <1>7, <1>8, SameStore DEF LW!Send, InCycle, storeVars
<1>10. QED
  BY <1>7, <1>9 DEF LW!Next

(* The second loop step sends a set, lets the cloud have the bus or does nothing. *)
LEMMA BusStep ==
  ASSUME TypeOK, IInv, BusPhase
  PROVE  [LW!Next]_(LW!vars)
<1>1. CASE ~Busy /\ WantsBus
  BY <1>1, SetIsSent
<1>2. CASE ~Busy /\ ~WantsBus /\ pending
  <2>1. /\ StartRequest
        /\ UNCHANGED <<sets, nvs, state, unserved, cloudInvSetup, cloudInCycle, pastThreshold>>
    BY <1>2 DEF BusPhase, StartRequest, managerVars, historyVars, storeVars, worldVars
  <2>2. exState = "IDLE"
    BY <1>2 DEF BusPhase, TypeOK, ExTypeOK, Busy, IInv, NoResultAtBus
  <2>3. ~InCycle
    BY <1>2, <2>2 DEF WantsBus, InCycle, IInv, BusOwnership
  <2>4. BusInUse = LW!Free
    BY <2>2, BusByOwner
  <2>5. BusInUse' = LW!Cloud
    BY <2>1 DEF StartRequest, Start, AfterLine, BusInUse, LW!Cloud
  <2>6. LW!CloudTakesBus
    BY <2>1, <2>3, <2>4, <2>5 DEF LW!CloudTakesBus, InCycle
  <2>7. QED
    BY <2>6 DEF LW!Next
<1>3. CASE ~(~Busy /\ WantsBus) /\ ~(~Busy /\ ~WantsBus /\ pending)
  <2>1. UNCHANGED <<managerVars, historyVars, storeVars, exVars, worldVars>>
    BY <1>3 DEF BusPhase
  <2>2. QED
    BY <2>1, BusUnchanged DEF LW!vars, managerVars, historyVars, storeVars, worldVars, InCycle
<1>4. QED
  BY <1>1, <1>2, <1>3

(* The third one notes an answer to a set on the bus, or does nothing. *)
LEMMA ExecutorStep ==
  ASSUME TypeOK, BatchAdvances
  PROVE  [LW!Next]_(LW!vars)
<1>1. UNCHANGED <<sets, nvs, state, unserved, cloudInvSetup, cloudInCycle, pastThreshold,
                  currentKey, touched, exBatch>>
  BY DEF BatchAdvances, LineAnswered, LineFailed, managerVars, historyVars, storeVars, worldVars
<1>2. exState = "BUSY" /\ exState' # "IDLE" /\ exAnswered \in Nat
  BY DEF BatchAdvances, LineAnswered, LineFailed, AfterLine, Busy, TypeOK, ExTypeOK
<1>3. CASE ~exBatch.emergency \/ exAnswered' = exAnswered
  <2>1. BusInUse' = BusInUse
    BY <1>1, <1>2, <1>3 DEF BusInUse
  <2>2. QED
    BY <1>1, <2>1 DEF LW!vars, InCycle
<1>4. CASE exBatch.emergency /\ exAnswered' # exAnswered
  <2>1. exAnswered' = exAnswered + 1
    BY <1>4 DEF BatchAdvances, LineAnswered, LineFailed
  <2>2. (exAnswered' > 0) = TRUE
    BY <1>2, <2>1
  <2>3. BusInUse = LW!Will(currentKey, ~touched, exAnswered > 0)
    BY <1>2, <1>4, BusByOwner
  <2>4. BusInUse' = LW!Will(currentKey, ~touched, TRUE)
    BY <1>1, <1>2, <1>4, <2>2 DEF BusInUse, LW!Will
  <2>5. LW!LineAnswered
    BY <1>1, <2>3, <2>4 DEF LW!LineAnswered, LW!Will, InCycle
  <2>6. QED
    BY <2>5 DEF LW!Next
<1>5. QED
  BY <1>3, <1>4

(* The fourth one starts a cycle, or does nothing LastWill sees. *)
LEMMA CheckStep ==
  ASSUME TypeOK, IInv, CheckPhase
  PROVE  [LW!Next]_(LW!vars)
<1>1. /\ ManagerLoop /\ BusInUse' = BusInUse
      /\ UNCHANGED <<sets, nvs, cloudInvSetup, pastThreshold>>
  BY BusUnchanged DEF CheckPhase, ManagerLoop, storeVars, worldVars
<1>2. CASE state # "QUEUED" /\ state' = "QUEUED"
  <2>1. checkDue /\ (RetryCycle \/ TriggerCycle)
    BY <1>1, <1>2 DEF ManagerLoop, CheckTrigger, DisarmEmptyStore, StampInvSetup,
                      NothingToTrigger
  <2>2. /\ ~InCycle /\ InCycle'
        /\ unserved' = KeysOf(sets) /\ cloudInCycle' = FALSE
        /\ state \in {"ARMED", "BACKOFF"}
    BY <1>2, <2>1 DEF RetryCycle, RetryDue, TriggerCycle, QueueCycle, InCycle
  <2>3. KeysOf(sets) # {}
    BY <2>2 DEF IInv, StateMatchesStore, IsEmpty
  <2>4. state = "BACKOFF" \/ (pastThreshold /\ cloudInvSetup # "this_hour")
    BY <2>1 DEF RetryCycle, RetryDue, TriggerCycle, HourlyDue, IInv, InvSetupOnRecord
  <2>5. InCycle' = TRUE /\ (state' = "BACKOFF") = FALSE
    BY <1>2 DEF InCycle
  <2>6. LW!StartCycle
    BY <1>1, <2>2, <2>3, <2>4, <2>5, SameStore DEF LW!StartCycle
  <2>7. QED
    BY <2>6 DEF LW!Next
<1>3. CASE ~(state # "QUEUED" /\ state' = "QUEUED")
  <2>1. /\ UNCHANGED <<unserved, cloudInCycle>>
        /\ state' = state \/ (state = "ARMED" /\ state' = "EMPTY")
    BY <1>1, <1>3 DEF ManagerLoop, CheckTrigger, DisarmEmptyStore, RetryCycle, RetryDue,
                      TriggerCycle, QueueCycle, StampInvSetup, NothingToTrigger
  <2>2. InCycle' = InCycle /\ (state' = "BACKOFF") = (state = "BACKOFF")
    BY <2>1 DEF InCycle
  <2>3. QED
    BY <1>1, <2>1, <2>2 DEF LW!vars
<1>4. QED
  BY <1>2, <1>3

(* A message of the cloud is one of LastWill. *)
LEMMA MessageStep ==
  ASSUME TypeOK, IInv, IInv', OnCloudMessage
  PROVE  LW!Next
<1>1. PICK isInvSetup \in BOOLEAN, update \in Updates, outcome \in NvsOutcomes :
        HandleFields(isInvSetup, update, outcome)
  BY DEF OnCloudMessage
<1>2. UNCHANGED <<pastThreshold, currentKey, exState, exBatch, exAnswered>>
  BY <1>1 DEF OnCloudMessage, HandleFields, worldVars, exVars
<1>3. IF isInvSetup THEN cloudInvSetup' = "this_hour" /\ cloudInCycle' = TRUE
      ELSE UNCHANGED <<cloudInvSetup, cloudInCycle>>
  BY <1>1 DEF HandleFields, NoteInvSetup
<1>4. nvs' \in {nvs, sets', EmptySets}
  <2>1. persistEnabled \in BOOLEAN
    BY DEF TypeOK, StoreTypeOK
  <2>2. QED
    BY <1>1, <2>1, SyncNvsSaves DEF HandleFields
<1>5. BusInUse.owner = "will" <=> state = "EXECUTING"
  BY BusByOwner, OwnersDiffer DEF IInv, BusOwnership, BusInUse
<1>6. \/ \E key \in Keys, lines \in LineVectors : LW!Replace(key, lines)
      \/ UNCHANGED <<sets, unserved, BusInUse>>
  <2>1. CASE ~update.given
    BY <1>1, <1>2, <2>1, BusUnchanged DEF HandleFields, exVars
  <2>2. CASE update.given
    <3>1. update.key \in Keys /\ update.lines \in LineVectors
      <4>1. update # NoUpdate
        BY <2>2 DEF NoUpdate
      <4>2. update \in [given : {TRUE}, key : Keys, lines : LineVectors]
        BY <4>1 DEF Updates
      <4>3. QED
        BY <4>2
    <3>2. sets' = [sets EXCEPT ![update.key] = update.lines]
      BY <1>1, <2>2, <3>1 DEF HandleFields, SetLines, Changes, TypeOK, StoreTypeOK, StoredSets
    <3>3. unserved' = unserved \cap LW!KeysOf(sets')
      BY <1>1, <2>2, SameStore DEF HandleFields
    <3>4. touched' = (touched \/ (/\ state = "EXECUTING"
                                  /\ update.key = currentKey
                                  /\ sets[update.key] # update.lines))
      BY <1>1, <2>2 DEF HandleFields, Changes
    <3>5. BusInUse' = IF /\ BusInUse.owner = "will" /\ BusInUse.key = update.key
                         /\ sets[update.key] # update.lines
                      THEN LW!Will(BusInUse.key, FALSE, BusInUse.answered) ELSE BusInUse
      <4>1. CASE state = "EXECUTING"
        <5>1. exState # "IDLE" /\ exBatch.emergency
          BY <4>1 DEF IInv, BusOwnership
        <5>2. BusInUse = LW!Will(currentKey, ~touched, exAnswered > 0)
          BY <5>1, BusByOwner
        <5>3. BusInUse' = LW!Will(currentKey, ~touched', exAnswered > 0)
          BY <1>2, <5>1 DEF BusInUse, LW!Will
        <5>4. CASE update.key = currentKey /\ sets[update.key] # update.lines
          BY <3>4, <4>1, <5>2, <5>3, <5>4 DEF LW!Will
        <5>5. CASE ~(update.key = currentKey /\ sets[update.key] # update.lines)
          <6>1. (~touched') = (~touched)
            BY <3>4, <5>5
          <6>2. QED
            BY <5>2, <5>3, <5>5, <6>1 DEF LW!Will
        <5>6. QED
          BY <5>4, <5>5
      <4>2. CASE state # "EXECUTING"
        <5>1. BusInUse.owner # "will"
          BY <1>5, <4>2
        <5>2. ~(exState # "IDLE" /\ exBatch.emergency)
          BY <4>2 DEF IInv, BusOwnership
        <5>3. BusInUse' = BusInUse
          BY <1>2, <5>2 DEF BusInUse
        <5>4. QED
          BY <5>1, <5>3
      <4>3. QED
        BY <4>1, <4>2
    <3>6. LW!Replace(update.key, update.lines)
      BY <3>2, <3>3, <3>5 DEF LW!Replace
    <3>7. QED
      BY <3>1, <3>6
  <2>3. QED
    BY <2>1, <2>2
<1>7. /\ (state' = "BACKOFF") = (state = "BACKOFF" /\ ~isInvSetup /\ LW!KeysOf(sets') # {})
      /\ InCycle' = (InCycle /\ (BusInUse.owner = "will" \/ LW!KeysOf(sets') # {}))
  <2>1. state \in States
    BY DEF TypeOK, ManagerTypeOK
  <2>2. CASE update.given
    BY <1>1, <1>5, <2>1, <2>2, SameStore
    DEF HandleFields, StateAfterUpdate, StateAfterInvSetup, States, IsEmpty, InCycle
  <2>3. CASE ~update.given
    <3>1. state' = StateAfterInvSetup(isInvSetup) /\ sets' = sets
      BY <1>1, <2>3 DEF HandleFields
    <3>2. state \in {"QUEUED", "BACKOFF"} => KeysOf(sets') # {}
      BY <3>1 DEF IInv, StateMatchesStore, IsEmpty
    <3>3. QED
      BY <1>5, <2>1, <3>1, <3>2, SameStore DEF StateAfterInvSetup, States, InCycle
  <2>4. QED
    BY <2>2, <2>3
<1>8. LW!Message(isInvSetup)
  BY <1>2, <1>3, <1>4, <1>6, <1>7, SameStore DEF LW!Message
<1>9. QED
  BY <1>8 DEF LW!Next

(* The persist switch saves or forgets. *)
LEMMA SwitchStep ==
  ASSUME TypeOK, TurnPersistSwitch
  PROVE  [LW!Next]_(LW!vars)
<1>1. PICK outcome \in NvsOutcomes : SetPersistEnabled(~persistEnabled, outcome)
  BY DEF TurnPersistSwitch
<1>2. /\ UNCHANGED <<sets, state, unserved, cloudInvSetup, cloudInCycle, pastThreshold>>
      /\ BusInUse' = BusInUse
  BY <1>1, BusUnchanged DEF TurnPersistSwitch, SetPersistEnabled, managerVars, historyVars, worldVars
<1>3. nvs' \in {nvs, sets, EmptySets}
  <2>1. (~persistEnabled) \in BOOLEAN
    OBVIOUS
  <2>2. CASE ~persistEnabled
    BY <1>1, <2>1, <2>2, SyncNvsSaves DEF SetPersistEnabled
  <2>3. CASE persistEnabled
    BY <1>1, <2>3 DEF SetPersistEnabled, EraseNvs
  <2>4. QED
    BY <2>2, <2>3
<1>4. CASE nvs' = nvs
  BY <1>2, <1>4 DEF LW!vars, InCycle
<1>5. CASE nvs' # nvs
  <2>1. LW!SaveOrForget
    BY <1>2, <1>3, <1>5, SameStore DEF LW!SaveOrForget, InCycle
  <2>2. QED
    BY <2>1 DEF LW!Next
<1>6. QED
  BY <1>4, <1>5

(* A restart is a power cut. *)
LEMMA RestartStep ==
  ASSUME TypeOK, Restart
  PROVE  LW!Next
<1>1. PICK outcome \in LoadOutcomes : Setup(switchSaved, outcome)
  BY DEF Restart
<1>2. sets' \in {nvs, EmptySets} /\ nvs' \in {nvs, EmptySets}
  BY <1>1 DEF Setup, RestartStore
<1>3. /\ state' \in {"EMPTY", "ARMED"} /\ unserved' = {} /\ cloudInCycle' = FALSE
      /\ UNCHANGED <<cloudInvSetup, pastThreshold>>
  BY <1>1 DEF Setup, FreshMembers, Restart
<1>4. BusInUse' = LW!Free
  BY DEF Restart, BusInUse, LW!Free
<1>5. InCycle' = FALSE /\ (state' = "BACKOFF") = FALSE
  BY <1>3 DEF InCycle
<1>6. LW!PowerCut
  BY <1>2, <1>3, <1>4, <1>5, SameStore DEF LW!PowerCut
<1>7. QED
  BY <1>6 DEF LW!Next

(* The steps of the world around. *)
LEMMA WorldStep ==
  ASSUME TypeOK,
         PassThreshold \/ TopOfHour \/ Tick \/ SyncClock \/ FlushPreferences \/ NvsChanges
  PROVE  [LW!Next]_(LW!vars)
<1>1. BusInUse' = BusInUse
  BY BusUnchanged DEF PassThreshold, TopOfHour, Tick, SyncClock, FlushPreferences, NvsChanges,
                      managerVars, historyVars
<1>2. UNCHANGED <<sets, nvs, state, unserved, cloudInCycle>>
  BY DEF PassThreshold, TopOfHour, Tick, SyncClock, FlushPreferences, NvsChanges,
         managerVars, historyVars, storeVars
<1>3. CASE PassThreshold
  <2>1. LW!InvSetupIsDue
    BY <1>1, <1>2, <1>3 DEF PassThreshold, historyVars, LW!InvSetupIsDue, InCycle
  <2>2. QED
    BY <2>1 DEF LW!Next
<1>4. CASE TopOfHour
  <2>1. cloudInvSetup' = IF cloudInvSetup = "never" THEN "never" ELSE "earlier"
    BY <1>4 DEF TopOfHour, AnHourAgo, TypeOK, ManagerTypeOK, HourMarks
  <2>2. LW!TopOfHour
    BY <1>1, <1>2, <1>4, <2>1 DEF TopOfHour, LW!TopOfHour, InCycle
  <2>3. QED
    BY <2>2 DEF LW!Next
<1>5. CASE Tick \/ SyncClock \/ FlushPreferences \/ NvsChanges
  BY <1>1, <1>2, <1>5 DEF Tick, SyncClock, FlushPreferences, NvsChanges, historyVars, worldVars,
                          LW!vars, InCycle
<1>6. QED
  BY <1>3, <1>4, <1>5

(* Every step of the dongle is one of LastWill or changes nothing LastWill sees. *)
LEMMA StepImplements ==
  ASSUME TypeOK, IInv, IInv', [Next]_vars
  PROVE  [LW!Next]_(LW!vars)
<1>1. CASE UNCHANGED vars \/ BatchWaits
  <2>1. UNCHANGED <<managerVars, historyVars, storeVars, exVars, worldVars>>
    BY <1>1 DEF vars, BatchWaits
  <2>2. QED
    BY <2>1, BusUnchanged DEF LW!vars, managerVars, historyVars, storeVars, worldVars, InCycle
<1>2. CASE ResultPhase
  BY <1>2, ResultStep
<1>3. CASE BusPhase
  BY <1>3, BusStep
<1>4. CASE BatchAdvances
  BY <1>4, ExecutorStep
<1>5. CASE CheckPhase
  BY <1>5, CheckStep
<1>6. CASE OnCloudMessage
  BY <1>6, MessageStep
<1>7. CASE TurnPersistSwitch
  BY <1>7, SwitchStep
<1>8. CASE Restart
  BY <1>8, RestartStep
<1>9. CASE PassThreshold \/ TopOfHour \/ Tick \/ SyncClock \/ FlushPreferences \/ NvsChanges
  BY <1>9, WorldStep
<1>10. QED
  BY <1>1, <1>2, <1>3, <1>4, <1>5, <1>6, <1>7, <1>8, <1>9 DEF Next, LoopStep

(* The dongle keeps the promises of LastWill (docs/protocol.md, "Emergency         *)
(* commands"), with any number of inverters, on working and on failing NVS, across *)
(* power cuts.                                                                     *)
THEOREM KeepsLastWill == Spec => ImplementsLastWill
<1>1. Init => LW!Init
  <2> SUFFICES ASSUME Init PROVE LW!Init
    OBVIOUS
  <2>1. BusInUse = LW!Free
    BY BusByOwner DEF Init, ExInit
  <2>2. InCycle = FALSE /\ (state = "BACKOFF") = FALSE
    BY DEF Init, ManagerInit, InCycle
  <2>3. QED
    BY <2>1, <2>2, SameStore DEF Init, ManagerInit, StoreInit, LW!Init
<1>2. TypeOK /\ IInv /\ IInv' /\ [Next]_vars => [LW!Next]_(LW!vars)
  BY StepImplements
<1>3. QED
  BY <1>1, <1>2, Invariance, PTL DEF Spec, ImplementsLastWill, LW!Spec
=============================================================================
