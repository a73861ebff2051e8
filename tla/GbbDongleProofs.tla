-------------------------- MODULE GbbDongleProofs --------------------------
(***************************************************************************)
(* Theorems about GbbDongle, for every set of SubInverterSNs and contents   *)
(* and every environment.                                                   *)
(***************************************************************************)
EXTENDS GbbDongle, FiniteSetTheorems, WellFoundedInduction, TLAPS

-----------------------------------------------------------------------------
(* Facts about the store's operators *)

(* No blob is a store without sets. *)
LEMMA EmptySetsType == EmptySets \in StoredSets
BY DEF EmptySets, StoredSets, LineVectors

(* sync_nvs leaves a store image in the hash and in NVS. *)
LEMMA SyncNvsType ==
  ASSUME NEW s \in StoredSets, NEW hash \in StoredSets, NEW on \in BOOLEAN,
         NEW outcome, nvs \in StoredSets, SyncNvs(s, hash, on, outcome)
  PROVE  persistedHash' \in StoredSets /\ nvs' \in StoredSets
<1>1. CASE ~on \/ outcome = "open_fails"
  BY <1>1 DEF SyncNvs
<1>2. CASE on /\ outcome # "open_fails" /\ IsEmpty(s)
  BY <1>2, EmptySetsType DEF SyncNvs, EraseNvs
<1>3. CASE on /\ outcome # "open_fails" /\ ~IsEmpty(s)
  BY <1>3 DEF SyncNvs
<1>4. QED
  BY <1>1, <1>2, <1>3

(* A restored set has a revision between 1 and the number of restored sets, an *)
(* absent one has revision 0.                                                  *)
LEMMA RestoredRevisionsBound ==
  ASSUME NEW s \in StoredSets
  PROVE  /\ Cardinality(KeysOf(s)) \in Nat
         /\ RestoredRevisions(s) \in [Keys -> Nat]
         /\ \A k \in Keys :
              /\ RestoredRevisions(s)[k] <= Cardinality(KeysOf(s))
              /\ RestoredRevisions(s)[k] = 0 <=> s[k] = NoLines
<1> DEFINE UpTo(k) == {j \in KeysOf(s) : j <= k}
<1>1. IsFiniteSet(KeysOf(s)) /\ Cardinality(KeysOf(s)) \in Nat
  BY StoreAssumption, FS_Subset, FS_CardinalityType DEF KeysOf
<1>2. ASSUME NEW k \in Keys
      PROVE  /\ IsFiniteSet(UpTo(k))
             /\ Cardinality(UpTo(k)) \in Nat
             /\ Cardinality(UpTo(k)) <= Cardinality(KeysOf(s))
  <2>1. UpTo(k) \in SUBSET KeysOf(s)
    OBVIOUS
  <2>2. QED
    BY <1>1, <2>1, FS_Subset, FS_CardinalityType
<1>3. ASSUME NEW k \in Keys, s[k] # NoLines
      PROVE  Cardinality(UpTo(k)) # 0
  <2>1. k \in UpTo(k)
    BY <1>3, StoreAssumption DEF KeysOf
  <2>2. QED
    BY <1>2, <2>1, FS_EmptySet
<1>4. \A k \in Keys : RestoredRevisions(s)[k] = IF s[k] = NoLines THEN 0
                                                ELSE Cardinality(UpTo(k))
  BY DEF RestoredRevisions
<1>5. RestoredRevisions(s) \in [Keys -> Nat]
  BY <1>2 DEF RestoredRevisions
<1> HIDE DEF UpTo
<1>6. QED
  BY <1>1, <1>2, <1>3, <1>4, <1>5

(* The walk over a non-empty set of keys has a first key. *)
LEMMA FirstOfIsLeast ==
  ASSUME NEW ks \in SUBSET Keys, ks # {}
  PROVE  FirstOf(ks) \in ks /\ \A j \in ks : FirstOf(ks) <= j
<1>1. ks \subseteq Nat
  BY StoreAssumption
<1>2. PICK x \in ks : \A y \in ks : ~(<<y, x>> \in OpToRel(<, Nat))
  BY <1>1, NatLessThanWellFounded, WFMin
<1>3. ASSUME NEW y \in ks, y < x
      PROVE  FALSE
  <2>1. <<y, x>> \in Nat \X Nat /\ <<y, x>>[1] = y /\ <<y, x>>[2] = x
    BY <1>1
  <2>2. <<y, x>> \in OpToRel(<, Nat)
    BY <1>3, <2>1, Zenon DEF OpToRel
  <2>3. QED
    BY <1>2, <2>2
<1>4. \A y \in ks : x <= y
  BY <1>1, <1>3
<1>5. QED
  BY <1>4 DEF FirstOf

-----------------------------------------------------------------------------
(* Types *)

(* The delays start within their bounds.                                       *)
LEMMA RetryRange ==
  /\ LongestDelay \in Nat
  /\ RetryInitial \in 0..LongestDelay /\ RetryMax \in 0..LongestDelay
  /\ 0 \in 0..LongestDelay
BY RetryAssumption DEF LongestDelay

(* What start(), a reply, a failure and take_result() do to the executor's     *)
(* variables keeps their types.                                                *)
LEMMA StartType ==
  ASSUME NEW batch \in Batches, Start(batch)
  PROVE  ExTypeOK'
BY DEF Start, AfterLine, ExTypeOK

(* A reply, a failure and take_result() keep the types of the executor. *)
LEMMA ExecutorStepType ==
  ASSUME ExTypeOK, LineAnswered \/ LineFailed \/ TakeResult
  PROVE  ExTypeOK'
BY DEF LineAnswered, LineFailed, TakeResult, AfterLine, ExTypeOK

(* handle_fields keeps the types of the manager and of the store.              *)
LEMMA HandleFieldsType ==
  ASSUME TypeOK, NEW isInvSetup \in BOOLEAN, NEW update \in Updates, NEW outcome,
         HandleFields(isInvSetup, update, outcome), UNCHANGED worldVars
  PROVE  ManagerTypeOK' /\ StoreTypeOK'
<1> USE DEF TypeOK
<1>1. /\ lastInvSetup' \in HourMarks
      /\ invSetupAwaits' \in BOOLEAN /\ bootLoadedAwaits' \in BOOLEAN
      /\ cloudBack' \in BOOLEAN
      /\ cloudInvSetup' \in HourMarks
      /\ cloudInCycle' \in BOOLEAN
  BY DEF HandleFields, NoteInvSetup, ManagerTypeOK, HourMarks, InCycle
<1>2. /\ walkFromStart' \in BOOLEAN
      /\ currentKey' \in Keys \cup {0}
      /\ currentRevision' \in Nat
      /\ retryDelay' \in 0..LongestDelay
      /\ retryIn' \in 0..LongestDelay
      /\ checkDue' \in BOOLEAN
      /\ clockValid' \in BOOLEAN /\ pastThreshold' \in BOOLEAN /\ nvsWorks' \in BOOLEAN
      /\ persistEnabled' \in BOOLEAN
  BY DEF HandleFields, ManagerTypeOK, StoreTypeOK, worldVars
<1>3. CASE ~update.given
  BY <1>1, <1>2, <1>3 DEF HandleFields, StateAfterInvSetup, ManagerTypeOK, StoreTypeOK, States
<1>4. CASE update.given
  <2>1. update.key \in Keys /\ update.lines \in LineVectors
    <3>1. update # NoUpdate
      BY <1>4 DEF NoUpdate
    <3>2. update \in [given : {TRUE}, key : Keys, lines : LineVectors]
      BY <3>1 DEF Updates
    <3>3. QED
      BY <3>2
  <2>2. sets' \in StoredSets /\ revisions' \in [Keys -> Nat] /\ nextRevision' \in Nat
    BY <1>4, <2>1 DEF HandleFields, SetLines, StoreTypeOK, StoredSets
  <2>3. persistedHash' \in StoredSets /\ nvs' \in StoredSets
    <3>1. CASE Changes(update.key, update.lines)
      BY <1>4, <2>2, <3>1, SyncNvsType DEF HandleFields, StoreTypeOK
    <3>2. CASE ~Changes(update.key, update.lines)
      BY <1>4, <3>2 DEF HandleFields, StoreTypeOK
    <3>3. QED
      BY <3>1, <3>2
  <2>4. state' \in States
    BY <1>4 DEF HandleFields, StateAfterUpdate, StateAfterInvSetup, ManagerTypeOK, States
  <2>5. unserved' \subseteq Keys
    BY <1>4 DEF HandleFields, ManagerTypeOK
  <2>6. touched' \in BOOLEAN
    BY <1>4 DEF HandleFields, ManagerTypeOK
  <2>7. QED
    BY <1>1, <1>2, <2>2, <2>3, <2>4, <2>5, <2>6 DEF ManagerTypeOK, StoreTypeOK
<1>5. QED
  BY <1>3, <1>4

(* So does handle_result.                                                      *)
LEMMA HandleResultType ==
  ASSUME TypeOK, NEW outcome, HandleResult(outcome), UNCHANGED worldVars
  PROVE  ManagerTypeOK' /\ StoreTypeOK'
<1> USE DEF TypeOK
<1>1. StoreTypeOK'
  <2>1. CASE Delivered /\ revisions[currentKey] = currentRevision
    <3>1. sets' \in StoredSets /\ revisions' \in [Keys -> Nat] /\ nextRevision' \in Nat
      BY <2>1 DEF HandleResult, SettleSet, ClearSet, StoreTypeOK, StoredSets, LineVectors
    <3>2. persistedHash' \in StoredSets /\ nvs' \in StoredSets
      BY <2>1, <3>1, SyncNvsType DEF HandleResult, SettleSet, StoreTypeOK
    <3>3. QED
      BY <2>1, <3>1, <3>2 DEF HandleResult, SettleSet, StoreTypeOK
  <2>2. CASE ~(Delivered /\ revisions[currentKey] = currentRevision)
    BY <2>2 DEF HandleResult, SettleSet, StoreTypeOK, storeVars
  <2>3. QED
    BY <2>1, <2>2
<1>2. ManagerTypeOK'
  <2>1. CASE NextSetQueued
    BY <2>1 DEF HandleResult, NextSetQueued, ManagerTypeOK, States, worldVars
  <2>2. CASE AllSetsDelivered
    BY <2>2 DEF HandleResult, AllSetsDelivered, ManagerTypeOK, States, HourMarks, worldVars
  <2>3. CASE RemainderLeftToCloud
    BY <2>3 DEF HandleResult, RemainderLeftToCloud, ManagerTypeOK, States, worldVars
  <2>4. CASE RemainderToRetry
    <3>1. retryDelay' \in 0..LongestDelay
      BY <2>4, RetryRange, RetryAssumption DEF RemainderToRetry, ManagerTypeOK, LongestDelay
    <3>2. QED
      BY <2>4, <3>1 DEF HandleResult, RemainderToRetry, ManagerTypeOK, States, worldVars
  <2>5. QED
    BY <2>1, <2>2, <2>3, <2>4 DEF HandleResult
<1>3. QED
  BY <1>1, <1>2

(* ... start_next_set ...                                                      *)
LEMMA StartNextSetType ==
  ASSUME TypeOK, StartNextSet, UNCHANGED worldVars
  PROVE  ManagerTypeOK' /\ StoreTypeOK' /\ ExTypeOK'
<1> USE DEF TypeOK
<1>1. StoreTypeOK'
  BY DEF StartNextSet, StoreTypeOK, storeVars
<1>2. CASE Ahead = {}
  BY <1>1, <1>2 DEF StartNextSet, EndOfWalk, ManagerTypeOK, ExTypeOK, exVars, States, worldVars
<1>3. CASE Ahead # {}
  <2> DEFINE key == FirstOf(Ahead)
  <2>1. key \in Keys /\ RunSet(key)
    BY <1>3, FirstOfIsLeast DEF StartNextSet, Ahead, KeysOf
  <2>2. ExTypeOK'
    BY <2>1, StartType DEF RunSet, Batches, StoreTypeOK, StoredSets
  <2> HIDE DEF key
  <2>3. ManagerTypeOK'
    BY <2>1 DEF StartNextSet, RunSet, ManagerTypeOK, StoreTypeOK, States, worldVars
  <2>4. QED
    BY <1>1, <2>2, <2>3
<1>4. QED
  BY <1>2, <1>3

(* ... and loop() of the manager.                                              *)
LEMMA ManagerLoopType ==
  ASSUME TypeOK, ManagerLoop, UNCHANGED worldVars
  PROVE  ManagerTypeOK' /\ StoreTypeOK'
<1> USE DEF TypeOK
<1>1. StoreTypeOK'
  BY DEF ManagerLoop, StoreTypeOK, storeVars
<1>2. CASE ~checkDue
  BY <1>1, <1>2 DEF ManagerLoop, ManagerTypeOK, worldVars
<1>3. CASE checkDue
  <2>1. CASE state = "ARMED" /\ IsEmpty(sets)
    BY <1>1, <1>3, <2>1 DEF ManagerLoop, CheckTrigger, DisarmEmptyStore, ManagerTypeOK, States, worldVars
  <2>2. CASE ~(state = "ARMED" /\ IsEmpty(sets))
    <3>1. CASE RetryCycle
      BY <1>1, <3>1 DEF ManagerLoop, RetryCycle, QueueCycle, ManagerTypeOK, States, worldVars, KeysOf
    <3>2. CASE StampInvSetup
      BY <1>1, <3>2 DEF ManagerLoop, StampInvSetup, ManagerTypeOK, HourMarks, worldVars
    <3>3. CASE TriggerCycle
      BY <1>1, <3>3, RetryRange
      DEF ManagerLoop, TriggerCycle, QueueCycle, ManagerTypeOK, States, worldVars, KeysOf
    <3>4. CASE NothingToTrigger
      BY <1>1, <3>4 DEF ManagerLoop, NothingToTrigger, ManagerTypeOK, worldVars
    <3>5. QED
      BY <1>3, <2>2, <3>1, <3>2, <3>3, <3>4 DEF ManagerLoop, CheckTrigger
  <2>3. QED
    BY <2>1, <2>2
<1>4. QED
  BY <1>1, <1>2, <1>3

(* Every variable keeps its type.                                              *)
LEMMA InitType == Init => TypeOK
<1> SUFFICES ASSUME Init PROVE TypeOK
  OBVIOUS
<1>1. ManagerTypeOK
  BY RetryRange DEF Init, ManagerInit, ManagerTypeOK, States, HourMarks
<1>2. StoreTypeOK
  BY EmptySetsType DEF Init, StoreInit, StoreTypeOK
<1>3. ExTypeOK
  BY DEF Init, ExInit, ExTypeOK, Batches, LineVectors
<1>4. QED
  BY <1>1, <1>2, <1>3 DEF Init, TypeOK

(* No step of the dongle or of what surrounds it changes a variable's type. *)
LEMMA StepType == TypeOK /\ [Next]_vars => TypeOK'
<1> SUFFICES ASSUME TypeOK, [Next]_vars
             PROVE  TypeOK'
  OBVIOUS
<1>1. CASE ResultPhase
  <2>1. /\ phase' = "bus" /\ UNCHANGED <<pending, switchSaved>> /\ UNCHANGED worldVars
    BY <1>1 DEF ResultPhase
  <2>2. CASE HasResult /\ exBatch.emergency
    <3>1. PICK outcome \in NvsOutcomes : HandleResult(outcome)
      BY <1>1, <2>2 DEF ResultPhase, CollectResult
    <3>2. ExTypeOK'
      BY <1>1, <2>2, ExecutorStepType DEF ResultPhase, CollectResult, TypeOK
    <3>3. QED
      BY <2>1, <3>1, <3>2, HandleResultType DEF TypeOK
  <2>3. CASE HasResult /\ ~exBatch.emergency
    <3>1. ExTypeOK'
      BY <1>1, <2>3, ExecutorStepType DEF ResultPhase, CollectResult, TypeOK
    <3>2. UNCHANGED <<managerVars, historyVars, storeVars>>
      BY <1>1, <2>3 DEF ResultPhase, CollectResult
    <3>3. QED
      BY <2>1, <3>1, <3>2 DEF TypeOK, ManagerTypeOK, StoreTypeOK, managerVars, historyVars,
                              storeVars, worldVars
  <2>4. CASE ~HasResult
    BY <1>1, <2>1, <2>4 DEF ResultPhase, TypeOK, ManagerTypeOK, StoreTypeOK, ExTypeOK,
                            managerVars, historyVars, storeVars, worldVars, exVars
  <2>5. QED
    BY <2>2, <2>3, <2>4
<1>2. CASE BusPhase
  <2>1. phase' = "executor" /\ UNCHANGED switchSaved /\ UNCHANGED worldVars
    BY <1>2 DEF BusPhase
  <2>2. CASE ~Busy /\ WantsBus
    BY <1>2, <2>1, <2>2, StartNextSetType DEF BusPhase, TypeOK
  <2>3. CASE ~Busy /\ ~WantsBus /\ pending
    <3>1. pending' \in BOOLEAN /\ UNCHANGED <<managerVars, historyVars, storeVars>>
      BY <1>2, <2>3 DEF BusPhase, StartRequest
    <3>2. PICK lines \in LineVectors : Start([emergency |-> FALSE, lines |-> lines])
      BY <1>2, <2>3 DEF BusPhase, StartRequest
    <3>3. ExTypeOK'
      BY <3>2, StartType DEF Batches
    <3>4. QED
      BY <2>1, <3>1, <3>3 DEF TypeOK, ManagerTypeOK, StoreTypeOK, managerVars, historyVars,
                              storeVars, worldVars
  <2>4. CASE ~(~Busy /\ WantsBus) /\ ~(~Busy /\ ~WantsBus /\ pending)
    BY <1>2, <2>1, <2>4 DEF BusPhase, TypeOK, ManagerTypeOK, StoreTypeOK, ExTypeOK,
                            managerVars, historyVars, storeVars, worldVars, exVars
  <2>5. QED
    BY <2>2, <2>3, <2>4
<1>3. CASE BatchAdvances
  BY <1>3, ExecutorStepType DEF BatchAdvances, TypeOK, ManagerTypeOK, StoreTypeOK,
                                managerVars, historyVars, storeVars, worldVars
<1>4. CASE BatchWaits
  BY <1>4 DEF BatchWaits, TypeOK, ManagerTypeOK, StoreTypeOK, ExTypeOK,
              managerVars, historyVars, storeVars, worldVars, exVars
<1>5. CASE CheckPhase
  BY <1>5, ManagerLoopType DEF CheckPhase, TypeOK, ExTypeOK, exVars
<1>6. CASE OnCloudMessage
  <2>1. PICK isInvSetup \in BOOLEAN, update \in Updates, outcome \in NvsOutcomes :
          HandleFields(isInvSetup, update, outcome)
    BY <1>6 DEF OnCloudMessage
  <2>2. ManagerTypeOK' /\ StoreTypeOK'
    BY <1>6, <2>1, HandleFieldsType DEF OnCloudMessage
  <2>3. QED
    BY <1>6, <2>2 DEF OnCloudMessage, TypeOK, ExTypeOK, exVars
<1>7. CASE TurnPersistSwitch
  <2>1. PICK outcome \in NvsOutcomes : SetPersistEnabled(~persistEnabled, outcome)
    BY <1>7 DEF TurnPersistSwitch
  <2>2. persistedHash' \in StoredSets /\ nvs' \in StoredSets
    BY <2>1, SyncNvsType, EmptySetsType DEF SetPersistEnabled, EraseNvs, TypeOK, StoreTypeOK
  <2>3. persistEnabled' \in BOOLEAN /\ UNCHANGED <<sets, revisions, nextRevision>>
    BY <2>1 DEF SetPersistEnabled
  <2>4. StoreTypeOK'
    BY <2>2, <2>3 DEF TypeOK, StoreTypeOK
  <2>5. QED
    BY <1>7, <2>3, <2>4 DEF TurnPersistSwitch, TypeOK, ManagerTypeOK, ExTypeOK,
                            managerVars, historyVars, worldVars, exVars
<1>8. CASE FlushPreferences
  BY <1>8 DEF FlushPreferences, TypeOK, ManagerTypeOK, StoreTypeOK, ExTypeOK,
              managerVars, historyVars, storeVars, worldVars, exVars
<1>9. CASE Restart
  <2>1. PICK outcome \in LoadOutcomes : Setup(switchSaved, outcome)
    BY <1>9 DEF Restart
  <2>2. StoreTypeOK'
    BY <2>1, EmptySetsType, RestoredRevisionsBound DEF Setup, RestartStore, TypeOK, StoreTypeOK
  <2>3. ManagerTypeOK'
    <3>1. state' \in States /\ bootLoadedAwaits' \in BOOLEAN
      BY <2>1 DEF Setup, States, IsEmpty
    <3>2. clockValid' \in BOOLEAN /\ UNCHANGED <<pastThreshold, nvsWorks, cloudInvSetup>>
      BY <1>9, <2>1 DEF Restart, Setup
    <3>3. QED
      BY <2>1, <3>1, <3>2, RetryRange
      DEF Setup, FreshMembers, TypeOK, ManagerTypeOK, HourMarks
  <2>4. QED
    BY <1>9, <2>2, <2>3 DEF Restart, TypeOK, ExTypeOK, Batches, LineVectors
<1>10. CASE Tick
  BY <1>10, RetryRange
  DEF Tick, TypeOK, ManagerTypeOK, StoreTypeOK, ExTypeOK, historyVars, storeVars, worldVars, exVars
<1>11. CASE SyncClock
  BY <1>11 DEF SyncClock, TypeOK, ManagerTypeOK, StoreTypeOK, ExTypeOK,
               managerVars, historyVars, storeVars, exVars
<1>12. CASE PassThreshold
  BY <1>12 DEF PassThreshold, TypeOK, ManagerTypeOK, StoreTypeOK, ExTypeOK,
               managerVars, historyVars, storeVars, exVars
<1>13. CASE TopOfHour
  <2>1. lastInvSetup' \in HourMarks /\ cloudInvSetup' \in HourMarks
    BY <1>13 DEF TopOfHour, AnHourAgo, TypeOK, ManagerTypeOK, HourMarks
  <2>2. StoreTypeOK' /\ ExTypeOK'
    BY <1>13 DEF TopOfHour, TypeOK, StoreTypeOK, ExTypeOK, storeVars, exVars
  <2>3. ManagerTypeOK'
    BY <1>13, <2>1 DEF TopOfHour, TypeOK, ManagerTypeOK
  <2>4. QED
    BY <1>13, <2>2, <2>3 DEF TopOfHour, TypeOK
<1>14. CASE NvsChanges
  BY <1>14 DEF NvsChanges, TypeOK, ManagerTypeOK, StoreTypeOK, ExTypeOK,
               managerVars, historyVars, storeVars, exVars
<1>15. CASE UNCHANGED vars
  BY <1>15 DEF vars, TypeOK, ManagerTypeOK, StoreTypeOK, ExTypeOK,
               managerVars, historyVars, storeVars, worldVars, exVars
<1>16. QED
  BY <1>1, <1>2, <1>3, <1>4, <1>5, <1>6, <1>7, <1>8, <1>9, <1>10, <1>11, <1>12, <1>13, <1>14,
     <1>15
  DEF Next, LoopStep

(* Type correctness of GbbDongle: in particular the retry delay stays below the
   larger of retry_initial and retry_max, and what NVS holds is always a store image. *)
THEOREM TypeCorrect == Spec => []TypeOK
BY InitType, StepType, PTL DEF Spec

-----------------------------------------------------------------------------
(* The inductive invariant *)

(* A dongle that has just booted without a stored set satisfies the invariant. *)
LEMMA InitInv == Init => IInv
BY DEF Init, ManagerInit, StoreInit, ExInit, IInv, StateMatchesStore, BusOwnership,
       CycleCoversEverySet, NoRetryBehindTheCloud, RevisionsOfSets, RevisionTellsTouched,
       WalkInOrder, CycleKnowsCloud, NoResultAtBus, InvSetupOnRecord, IsEmpty, KeysOf,
       EmptySets, InCycle

(* A step that leaves alone what the invariant is about, and does not come to    *)
(* or leave the hand-out of the bus, keeps it.                                   *)
LEMMA FrameInv ==
  ASSUME IInv,
         UNCHANGED <<state, sets, revisions, nextRevision, exState, exBatch, unserved,
                     cloudInCycle, cloudBack, currentKey, currentRevision, touched,
                     walkFromStart, cloudInvSetup, lastInvSetup, invSetupAwaits>>,
         phase' = phase \/ (phase # "bus" /\ phase' # "bus")
  PROVE  IInv'
<1>1. (StateMatchesStore /\ BusOwnership /\ CycleCoversEverySet /\ NoRetryBehindTheCloud)'
  BY DEF IInv, StateMatchesStore, BusOwnership, CycleCoversEverySet,
         NoRetryBehindTheCloud, IsEmpty, KeysOf, InCycle
<1>2. (RevisionsOfSets /\ RevisionTellsTouched /\ CycleKnowsCloud /\ InvSetupOnRecord)'
  BY DEF IInv, RevisionsOfSets, RevisionTellsTouched, CycleKnowsCloud, InvSetupOnRecord, InCycle
<1>3. (WalkInOrder /\ NoResultAtBus)'
  BY DEF IInv, WalkInOrder, NoResultAtBus, Ahead, KeysOf
<1>4. QED
  BY <1>1, <1>2, <1>3 DEF IInv

(* handle_result *)
LEMMA HandleResultInv ==
  ASSUME TypeOK, IInv, NEW outcome, HandleResult(outcome),
         exState = "DONE", exBatch.emergency, exState' = "IDLE", phase' = "bus"
  PROVE  IInv'
<1>1. state = "EXECUTING" /\ currentKey \in Keys
  BY DEF IInv, BusOwnership, RevisionTellsTouched
<1>2. UNCHANGED <<nextRevision, walkFromStart, currentKey, currentRevision, cloudInCycle,
                  unserved, touched, cloudInvSetup, invSetupAwaits>>
  BY DEF HandleResult, SettleSet, ClearSet, storeVars
<1>3. \A k \in Keys : k # currentKey => sets'[k] = sets[k] /\ revisions'[k] = revisions[k]
  BY DEF HandleResult, SettleSet, ClearSet, storeVars, TypeOK, StoreTypeOK, StoredSets
<1>4. \/ sets'[currentKey] = NoLines /\ revisions'[currentKey] = 0
      \/ sets'[currentKey] = sets[currentKey] /\ revisions'[currentKey] = revisions[currentKey]
  BY <1>1 DEF HandleResult, SettleSet, ClearSet, storeVars, TypeOK, StoreTypeOK, StoredSets
<1>5. \A k \in unserved : k \in Keys /\ k # currentKey /\ k > currentKey /\ sets'[k] # NoLines
  BY <1>1, <1>3, StoreAssumption DEF IInv, WalkInOrder, TypeOK, ManagerTypeOK
<1>6. ~MoreSetsAhead(sets') => unserved = {}
  BY <1>5 DEF MoreSetsAhead, KeysOf
<1>7. RevisionsOfSets'
  BY <1>1, <1>2, <1>3, <1>4 DEF IInv, RevisionsOfSets, TypeOK, StoreTypeOK
<1>8. CASE NextSetQueued
  <2>1. state' = "QUEUED" /\ UNCHANGED <<lastInvSetup, cloudBack>> /\ MoreSetsAhead(sets')
    BY <1>8 DEF NextSetQueued
  <2>2. Ahead' # {} /\ ~IsEmpty(sets')
    BY <1>2, <2>1 DEF MoreSetsAhead, Ahead, KeysOf, IsEmpty
  <2>3. unserved' \subseteq Ahead'
    BY <1>2, <1>5 DEF Ahead, KeysOf
  <2>4. (WalkInOrder /\ NoResultAtBus /\ BusOwnership)'
    BY <2>1, <2>2, <2>3 DEF WalkInOrder, NoResultAtBus, BusOwnership
  <2>5. (CycleKnowsCloud /\ InvSetupOnRecord /\ RevisionTellsTouched)'
    BY <1>1, <1>2, <2>1
    DEF IInv, CycleKnowsCloud, InvSetupOnRecord, RevisionTellsTouched, InCycle
  <2>6. (StateMatchesStore /\ CycleCoversEverySet /\ NoRetryBehindTheCloud)'
    BY <2>1, <2>2 DEF StateMatchesStore, CycleCoversEverySet, NoRetryBehindTheCloud, InCycle
  <2>7. QED
    BY <1>7, <2>4, <2>5, <2>6 DEF IInv
<1>9. CASE ~NextSetQueued
  <2>1. ~MoreSetsAhead(sets') \/ AllSetsDelivered
    BY <1>9 DEF HandleResult, RemainderLeftToCloud, RemainderToRetry
  <2>2. unserved' = {}
    BY <1>2, <1>5, <1>6, <2>1 DEF AllSetsDelivered, IsEmpty, KeysOf
  <2>3. \/ state' = "EMPTY" /\ IsEmpty(sets') /\ lastInvSetup' = "never"
        \/ state' = "ARMED" /\ ~IsEmpty(sets') /\ lastInvSetup' = lastInvSetup
        \/ /\ state' = "BACKOFF" /\ ~IsEmpty(sets') /\ lastInvSetup' = lastInvSetup
           /\ ~cloudBack
    BY <1>9 DEF HandleResult, AllSetsDelivered, RemainderLeftToCloud, RemainderToRetry
  <2>4. (StateMatchesStore /\ CycleCoversEverySet /\ CycleKnowsCloud /\ InvSetupOnRecord)'
    BY <1>2, <2>2, <2>3
    DEF IInv, StateMatchesStore, CycleCoversEverySet, CycleKnowsCloud, InvSetupOnRecord, InCycle
  <2>5. NoRetryBehindTheCloud'
    BY <1>1, <1>2, <2>3 DEF IInv, NoRetryBehindTheCloud, CycleKnowsCloud, InCycle
  <2>6. (WalkInOrder /\ NoResultAtBus /\ BusOwnership /\ RevisionTellsTouched)'
    BY <2>3 DEF WalkInOrder, NoResultAtBus, BusOwnership, RevisionTellsTouched
  <2>7. QED
    BY <1>7, <2>4, <2>5, <2>6 DEF IInv
<1>10. QED
  BY <1>8, <1>9

(* loop() taking a result: of the manager's batch, of the cloud's, or none. *)
LEMMA ResultPhaseInv ==
  ASSUME TypeOK, IInv, ResultPhase
  PROVE  IInv'
<1>1. phase = "result" /\ phase' = "bus"
  BY DEF ResultPhase
<1>2. CASE HasResult /\ exBatch.emergency
  <2>1. PICK outcome \in NvsOutcomes : HandleResult(outcome)
    BY <1>2 DEF ResultPhase, CollectResult
  <2>2. exState = "DONE" /\ exState' = "IDLE"
    BY <1>2 DEF ResultPhase, CollectResult, HasResult, TakeResult
  <2>3. QED
    BY <1>1, <1>2, <2>1, <2>2, HandleResultInv
<1>3. CASE ~(HasResult /\ exBatch.emergency)
  <2>1. /\ UNCHANGED <<managerVars, historyVars, storeVars>>
        /\ UNCHANGED exBatch
        /\ \/ exState' = exState /\ exState # "DONE"
           \/ exState = "DONE" /\ exState' = "IDLE" /\ ~exBatch.emergency
    BY <1>3 DEF ResultPhase, CollectResult, HasResult, TakeResult, exVars
  <2>2. UNCHANGED <<state, sets, revisions, nextRevision, unserved,
                    cloudInCycle, cloudBack, currentKey, currentRevision, touched,
                    walkFromStart, cloudInvSetup, lastInvSetup, invSetupAwaits>>
    BY <2>1 DEF managerVars, historyVars, storeVars
  <2>3. (BusOwnership /\ NoResultAtBus)'
    BY <2>1, <2>2 DEF IInv, BusOwnership, NoResultAtBus
  <2>4. WalkInOrder'
    BY <1>1, <2>2 DEF IInv, WalkInOrder, Ahead, KeysOf
  <2>5. (StateMatchesStore /\ CycleCoversEverySet /\ NoRetryBehindTheCloud)'
    BY <2>2 DEF IInv, StateMatchesStore, CycleCoversEverySet, NoRetryBehindTheCloud,
                IsEmpty, KeysOf, InCycle
  <2>6. (RevisionsOfSets /\ RevisionTellsTouched /\ CycleKnowsCloud /\ InvSetupOnRecord)'
    BY <2>1, <2>2 DEF IInv, RevisionsOfSets, RevisionTellsTouched, CycleKnowsCloud,
                      InvSetupOnRecord, InCycle
  <2>7. QED
    BY <2>3, <2>4, <2>5, <2>6 DEF IInv
<1>4. QED
  BY <1>2, <1>3

(* start_next_set: the walk is not at its end, so it runs the least key ahead.   *)
LEMMA QueuedFindsASet ==
  ASSUME TypeOK, IInv, state = "QUEUED"
  PROVE  Ahead # {}
<1>1. CASE walkFromStart
  BY <1>1 DEF IInv, StateMatchesStore, Ahead, IsEmpty
<1>2. CASE ~walkFromStart
  BY <1>2 DEF IInv, WalkInOrder
<1>3. QED
  BY <1>1, <1>2

(* start_next_set keeps the invariant. *)
LEMMA StartNextSetInv ==
  ASSUME TypeOK, IInv, StartNextSet, phase = "bus", phase' = "executor"
  PROVE  IInv'
<1> DEFINE key == FirstOf(Ahead)
<1>1. state = "QUEUED" /\ Ahead # {}
  BY QueuedFindsASet DEF StartNextSet, WantsBus
<1>2. key \in Ahead /\ \A j \in Ahead : key <= j
  BY <1>1, FirstOfIsLeast DEF Ahead, KeysOf
<1>3. RunSet(key)
  BY <1>1 DEF StartNextSet
<1>4. key \in Keys /\ sets[key] # NoLines
  BY <1>2 DEF Ahead, KeysOf
<1>5. /\ UNCHANGED <<sets, revisions, nextRevision, lastInvSetup, invSetupAwaits,
                     cloudInvSetup, cloudInCycle>>
      /\ state' = "EXECUTING" /\ currentKey' = key /\ currentRevision' = revisions[key]
      /\ touched' = FALSE /\ cloudBack' = cloudBack /\ unserved' = unserved \ {key}
      /\ exBatch' = [emergency |-> TRUE, lines |-> sets[key]]
      /\ exState' \in {"BUSY", "DONE"}
  BY <1>3 DEF StartNextSet, RunSet, Start, AfterLine, storeVars
<1> HIDE DEF key
<1>6. (StateMatchesStore /\ CycleCoversEverySet /\ NoRetryBehindTheCloud)'
  BY <1>5 DEF StateMatchesStore, CycleCoversEverySet, NoRetryBehindTheCloud, InCycle
<1>7. (BusOwnership /\ NoResultAtBus)'
  BY <1>5 DEF BusOwnership, NoResultAtBus
<1>8. RevisionsOfSets'
  BY <1>5 DEF IInv, RevisionsOfSets
<1>9. RevisionTellsTouched'
  <2>1. revisions[key] \in 1..nextRevision
    BY <1>4 DEF IInv, RevisionsOfSets, TypeOK, StoreTypeOK
  <2>2. QED
    BY <1>4, <1>5, <2>1 DEF RevisionTellsTouched
<1>10. WalkInOrder'
  <2>1. \A k \in unserved' : k \in Ahead /\ k # key
    BY <1>1, <1>5 DEF IInv, WalkInOrder
  <2>2. ASSUME NEW k \in unserved'
        PROVE  sets[k] # NoLines /\ k > key
    <3>1. k \in Keys /\ sets[k] # NoLines
      BY <2>1 DEF Ahead, KeysOf
    <3>2. k \in Nat /\ key \in Nat /\ k # key /\ key <= k
      BY <1>2, <1>4, <2>1, <3>1, StoreAssumption
    <3>3. QED
      BY <3>1, <3>2
  <2>3. QED
    BY <1>5, <2>2 DEF WalkInOrder
<1>11. (CycleKnowsCloud /\ InvSetupOnRecord)'
  BY <1>1, <1>5 DEF IInv, CycleKnowsCloud, InvSetupOnRecord, InCycle
<1>12. QED
  BY <1>6, <1>7, <1>8, <1>9, <1>10, <1>11 DEF IInv

(* So does the hand-out of the bus in loop(). *)
LEMMA BusPhaseInv ==
  ASSUME TypeOK, IInv, BusPhase
  PROVE  IInv'
<1>1. phase = "bus" /\ phase' = "executor"
  BY DEF BusPhase
<1>2. CASE ~Busy /\ WantsBus
  BY <1>1, <1>2, StartNextSetInv DEF BusPhase
<1>3. CASE ~(~Busy /\ WantsBus)
  <2>1. UNCHANGED <<managerVars, historyVars, storeVars>>
    BY <1>3 DEF BusPhase, StartRequest
  <2>2. UNCHANGED <<state, sets, revisions, nextRevision, unserved,
                    cloudInCycle, cloudBack, currentKey, currentRevision, touched,
                    walkFromStart, cloudInvSetup, lastInvSetup, invSetupAwaits>>
    BY <2>1 DEF managerVars, historyVars, storeVars
  <2>3. \/ UNCHANGED <<exState, exBatch>>
        \/ exState = "IDLE" /\ ~exBatch'.emergency /\ state # "EXECUTING"
    <3>1. CASE ~Busy /\ ~WantsBus /\ pending
      <4>1. PICK lines \in LineVectors : Start([emergency |-> FALSE, lines |-> lines])
        BY <1>1, <3>1 DEF BusPhase, StartRequest
      <4>2. exState = "IDLE"
        BY <1>1, <3>1 DEF IInv, NoResultAtBus, Busy, TypeOK, ExTypeOK
      <4>3. QED
        BY <4>1, <4>2 DEF Start, IInv, BusOwnership
    <3>2. CASE ~(~Busy /\ ~WantsBus /\ pending)
      BY <1>3, <3>2 DEF BusPhase, exVars
    <3>3. QED
      BY <3>1, <3>2
  <2>4. (BusOwnership /\ NoResultAtBus)'
    BY <1>1, <2>2, <2>3 DEF IInv, BusOwnership, NoResultAtBus
  <2>5. RevisionTellsTouched'
    BY <2>2, <2>3 DEF IInv, RevisionTellsTouched
  <2>6. WalkInOrder'
    <3>1. ~(state = "QUEUED" /\ ~walkFromStart)
      BY <1>1, <1>3 DEF IInv, WalkInOrder, Busy, WantsBus
    <3>2. QED
      BY <2>2, <3>1 DEF IInv, WalkInOrder, Ahead, KeysOf
  <2>7. (StateMatchesStore /\ CycleCoversEverySet /\ NoRetryBehindTheCloud)'
    BY <2>2 DEF IInv, StateMatchesStore, CycleCoversEverySet, NoRetryBehindTheCloud,
                IsEmpty, KeysOf, InCycle
  <2>8. (RevisionsOfSets /\ CycleKnowsCloud /\ InvSetupOnRecord)'
    BY <2>2 DEF IInv, RevisionsOfSets, CycleKnowsCloud, InvSetupOnRecord, InCycle
  <2>9. QED
    BY <2>4, <2>5, <2>6, <2>7, <2>8 DEF IInv
<1>4. QED
  BY <1>2, <1>3

(* executor_.loop() only moves the batch along.                                  *)
LEMMA BatchAdvancesInv ==
  ASSUME TypeOK, IInv, BatchAdvances
  PROVE  IInv'
<1>1. /\ phase = "executor" /\ phase' = "check"
      /\ exState = "BUSY" /\ exState' \in {"BUSY", "DONE"} /\ exBatch' = exBatch
      /\ UNCHANGED <<managerVars, historyVars, storeVars>>
  BY DEF BatchAdvances, LineAnswered, LineFailed, Busy, AfterLine
<1>2. UNCHANGED <<state, sets, revisions, nextRevision, unserved,
                  cloudInCycle, cloudBack, currentKey, currentRevision, touched,
                  walkFromStart, cloudInvSetup, lastInvSetup, invSetupAwaits>>
  BY <1>1 DEF managerVars, historyVars, storeVars
<1>3. (BusOwnership /\ NoResultAtBus /\ RevisionTellsTouched)'
  BY <1>1, <1>2 DEF IInv, BusOwnership, NoResultAtBus, RevisionTellsTouched
<1>4. WalkInOrder'
  BY <1>1, <1>2 DEF IInv, WalkInOrder, Ahead, KeysOf
<1>5. (StateMatchesStore /\ CycleCoversEverySet /\ NoRetryBehindTheCloud)'
  BY <1>2 DEF IInv, StateMatchesStore, CycleCoversEverySet, NoRetryBehindTheCloud,
              IsEmpty, KeysOf, InCycle
<1>6. (RevisionsOfSets /\ CycleKnowsCloud /\ InvSetupOnRecord)'
  BY <1>2 DEF IInv, RevisionsOfSets, CycleKnowsCloud, InvSetupOnRecord, InCycle
<1>7. QED
  BY <1>3, <1>4, <1>5, <1>6 DEF IInv

(* check_trigger_ *)
LEMMA CheckPhaseInv ==
  ASSUME TypeOK, IInv, CheckPhase
  PROVE  IInv'
<1>1. /\ phase = "check" /\ phase' = "result"
      /\ UNCHANGED <<sets, revisions, nextRevision, exState, exBatch, cloudBack,
                     currentKey, currentRevision, touched, cloudInvSetup>>
  BY DEF CheckPhase, ManagerLoop, storeVars, exVars
<1>2. CASE UNCHANGED <<state, lastInvSetup, invSetupAwaits, walkFromStart, cloudInCycle,
                       unserved>>
  BY <1>1, <1>2, FrameInv
<1>3. CASE RetryCycle \/ TriggerCycle
  <2>1. /\ state \in {"ARMED", "BACKOFF"} /\ state' = "QUEUED" /\ walkFromStart'
        /\ ~cloudInCycle' /\ unserved' = KeysOf(sets)
        /\ UNCHANGED <<lastInvSetup, invSetupAwaits>>
    BY <1>3 DEF RetryCycle, TriggerCycle, RetryDue, QueueCycle
  <2>2. ~IsEmpty(sets) /\ ~IsEmpty(sets')
    BY <1>1, <2>1 DEF IInv, StateMatchesStore, IsEmpty, KeysOf
  <2>3. (StateMatchesStore /\ CycleCoversEverySet /\ NoRetryBehindTheCloud /\ CycleKnowsCloud)'
    BY <2>1, <2>2
    DEF StateMatchesStore, CycleCoversEverySet, NoRetryBehindTheCloud, CycleKnowsCloud, InCycle
  <2>4. (BusOwnership /\ NoResultAtBus /\ RevisionTellsTouched)'
    BY <1>1, <2>1 DEF IInv, BusOwnership, NoResultAtBus, RevisionTellsTouched
  <2>5. WalkInOrder'
    BY <1>1, <2>1 DEF WalkInOrder, Ahead, KeysOf
  <2>6. (RevisionsOfSets /\ InvSetupOnRecord)'
    BY <1>1, <2>1 DEF IInv, RevisionsOfSets, InvSetupOnRecord
  <2>7. QED
    BY <2>3, <2>4, <2>5, <2>6 DEF IInv
<1>4. CASE StampInvSetup
  <2>1. UNCHANGED <<state, walkFromStart, cloudInCycle, unserved>> /\ lastInvSetup' = "this_hour"
    BY <1>4 DEF StampInvSetup
  <2>2. InvSetupOnRecord'
    BY <2>1 DEF InvSetupOnRecord
  <2>3. (StateMatchesStore /\ BusOwnership /\ CycleCoversEverySet /\ NoRetryBehindTheCloud)'
    BY <1>1, <2>1 DEF IInv, StateMatchesStore, BusOwnership, CycleCoversEverySet,
                      NoRetryBehindTheCloud, IsEmpty, KeysOf, InCycle
  <2>4. (RevisionsOfSets /\ RevisionTellsTouched /\ CycleKnowsCloud)'
    BY <1>1, <2>1 DEF IInv, RevisionsOfSets, RevisionTellsTouched, CycleKnowsCloud, InCycle
  <2>5. (WalkInOrder /\ NoResultAtBus)'
    BY <1>1, <2>1 DEF IInv, WalkInOrder, NoResultAtBus, Ahead, KeysOf
  <2>6. QED
    BY <2>2, <2>3, <2>4, <2>5 DEF IInv
<1>5. ~(state = "ARMED" /\ IsEmpty(sets))
  BY DEF IInv, StateMatchesStore
<1>6. QED
  BY <1>2, <1>3, <1>4, <1>5 DEF CheckPhase, ManagerLoop, CheckTrigger, NothingToTrigger

(* handle_fields: set_lines keeps the revisions in order.                        *)
LEMMA SetLinesRevisions ==
  ASSUME TypeOK, RevisionsOfSets, NEW key \in Keys, NEW lines \in LineVectors,
         SetLines(key, lines)
  PROVE  /\ RevisionsOfSets'
         /\ nextRevision <= nextRevision'
         /\ \A k \in Keys : k # key => sets'[k] = sets[k] /\ revisions'[k] = revisions[k]
         /\ Changes(key, lines) => revisions'[key] \in {0, nextRevision + 1}
         /\ ~Changes(key, lines) => sets' = sets /\ revisions' = revisions
         /\ nextRevision' \in Nat
<1> USE DEF TypeOK, StoreTypeOK, StoredSets
<1>1. CASE ~Changes(key, lines)
  BY <1>1 DEF SetLines, RevisionsOfSets
<1>2. CASE Changes(key, lines) /\ lines = NoLines
  BY <1>2 DEF SetLines, RevisionsOfSets
<1>3. CASE Changes(key, lines) /\ lines # NoLines
  <2>1. /\ sets' = [sets EXCEPT ![key] = lines]
        /\ nextRevision' = nextRevision + 1
        /\ revisions' = [revisions EXCEPT ![key] = nextRevision + 1]
    BY <1>3 DEF SetLines
  <2>2. QED
    BY <1>3, <2>1 DEF RevisionsOfSets
<1>4. QED
  BY <1>1, <1>2, <1>3

(* on_cloud_message_, with or without an InvSetup and a new set. *)
LEMMA OnCloudMessageInv ==
  ASSUME TypeOK, IInv, OnCloudMessage
  PROVE  IInv'
<1>1. PICK isInvSetup \in BOOLEAN, update \in Updates, outcome \in NvsOutcomes :
        HandleFields(isInvSetup, update, outcome)
  BY DEF OnCloudMessage
<1>2. /\ phase = "result" /\ phase' = "result"
      /\ UNCHANGED <<exState, exBatch, walkFromStart, currentKey, currentRevision>>
  BY <1>1 DEF OnCloudMessage, HandleFields, exVars
<1>3. /\ cloudBack' = (cloudBack \/ (isInvSetup /\ InCycle))
      /\ cloudInCycle' = (cloudInCycle \/ isInvSetup)
  BY <1>1 DEF HandleFields, NoteInvSetup, TypeOK, ManagerTypeOK
<1>4. InvSetupOnRecord'
  <2>1. CASE isInvSetup
    BY <1>1, <2>1 DEF HandleFields, NoteInvSetup, InvSetupOnRecord
  <2>2. CASE ~isInvSetup
    BY <1>1, <2>2 DEF HandleFields, NoteInvSetup, InvSetupOnRecord, IInv
  <2>3. QED
    BY <2>1, <2>2
<1>5. NoResultAtBus'
  BY <1>2 DEF NoResultAtBus
<1>6. walkFromStart \/ state # "QUEUED"
  BY <1>2 DEF IInv, WalkInOrder
<1>7. CASE ~update.given
  <2>1. /\ UNCHANGED <<sets, revisions, nextRevision, unserved, touched>>
        /\ \/ state' = state /\ ~(isInvSetup /\ state = "BACKOFF")
           \/ state = "BACKOFF" /\ state' = "ARMED"
    BY <1>1, <1>7 DEF HandleFields, StateAfterInvSetup
  <2>2. (StateMatchesStore /\ BusOwnership /\ CycleCoversEverySet /\ NoRetryBehindTheCloud)'
    BY <1>2, <1>3, <2>1 DEF IInv, StateMatchesStore, BusOwnership, CycleCoversEverySet,
                            NoRetryBehindTheCloud, IsEmpty, KeysOf, InCycle
  <2>3. (RevisionsOfSets /\ RevisionTellsTouched)'
    BY <1>2, <2>1 DEF IInv, RevisionsOfSets, RevisionTellsTouched
  <2>4. CycleKnowsCloud'
    BY <1>3, <2>1 DEF IInv, CycleKnowsCloud, InCycle
  <2>5. WalkInOrder'
    BY <1>2, <1>6, <2>1 DEF IInv, WalkInOrder, Ahead, KeysOf
  <2>6. QED
    BY <1>4, <1>5, <2>2, <2>3, <2>4, <2>5 DEF IInv
<1>8. CASE update.given
  <2> DEFINE key == update.key
             lines == update.lines
             st == StateAfterInvSetup(isInvSetup)
  <2>1. key \in Keys /\ lines \in LineVectors
    <3>1. update # NoUpdate
      BY <1>8 DEF NoUpdate
    <3>2. update \in [given : {TRUE}, key : Keys, lines : LineVectors]
      BY <3>1 DEF Updates
    <3>3. QED
      BY <3>2
  <2>2. /\ SetLines(key, lines)
        /\ state' = StateAfterUpdate(st, sets')
        /\ unserved' = unserved \cap KeysOf(sets')
        /\ touched' = (touched \/ (state = "EXECUTING" /\ key = currentKey
                                   /\ Changes(key, lines)))
    BY <1>1, <1>8 DEF HandleFields
  <2>3. /\ RevisionsOfSets'
        /\ nextRevision <= nextRevision' /\ nextRevision' \in Nat
        /\ \A k \in Keys : k # key => sets'[k] = sets[k] /\ revisions'[k] = revisions[k]
        /\ Changes(key, lines) => revisions'[key] \in {0, nextRevision + 1}
        /\ ~Changes(key, lines) => sets' = sets /\ revisions' = revisions
    BY <2>1, <2>2, SetLinesRevisions DEF IInv
  <2>4. \/ st = state /\ ~(isInvSetup /\ state = "BACKOFF")
        \/ state = "BACKOFF" /\ st = "ARMED"
    BY DEF StateAfterInvSetup
  <2> HIDE DEF key, lines, st
  <2>5. \/ st # "EXECUTING" /\ IsEmpty(sets') /\ state' = "EMPTY"
        \/ ~IsEmpty(sets') /\ st = "EMPTY" /\ state' = "ARMED"
        \/ ~IsEmpty(sets') /\ st # "EMPTY" /\ state' = st
        \/ st = "EXECUTING" /\ state' = st
    BY <2>2 DEF StateAfterUpdate
  <2>6. state' = "EXECUTING" <=> state = "EXECUTING"
    BY <2>4, <2>5
  <2>7. StateMatchesStore'
    BY <2>4, <2>5, <2>6 DEF StateMatchesStore, TypeOK, ManagerTypeOK, States
  <2>8. BusOwnership'
    BY <1>2, <2>6 DEF IInv, BusOwnership
  <2>9. CycleCoversEverySet'
    <3>1. CASE IsEmpty(sets')
      BY <2>2, <3>1 DEF CycleCoversEverySet, IsEmpty
    <3>2. CASE ~IsEmpty(sets')
      BY <2>2, <2>4, <2>5, <3>2 DEF IInv, CycleCoversEverySet, InCycle
    <3>3. QED
      BY <3>1, <3>2
  <2>10. NoRetryBehindTheCloud'
    BY <1>3, <2>4, <2>5 DEF IInv, NoRetryBehindTheCloud
  <2>11. CycleKnowsCloud'
    BY <1>3, <2>4, <2>5 DEF IInv, CycleKnowsCloud, InCycle
  <2>12. RevisionTellsTouched'
    <3> SUFFICES ASSUME state' = "EXECUTING"
                 PROVE  RevisionTellsTouched'
      BY DEF RevisionTellsTouched
    <3>1. /\ state = "EXECUTING" /\ currentKey \in Keys /\ currentRevision \in 1..nextRevision
          /\ IF touched THEN revisions[currentKey] # currentRevision
             ELSE /\ revisions[currentKey] = currentRevision
                  /\ sets[currentKey] = exBatch.lines
      BY <2>6 DEF IInv, RevisionTellsTouched
    <3>2. currentRevision \in 1..nextRevision' /\ currentRevision # 0
          /\ currentRevision # nextRevision + 1
      BY <2>3, <3>1 DEF TypeOK, StoreTypeOK
    <3>3. CASE key = currentKey /\ Changes(key, lines)
      BY <1>2, <2>2, <2>3, <3>1, <3>2, <3>3 DEF RevisionTellsTouched
    <3>4. CASE ~(key = currentKey /\ Changes(key, lines))
      <4>1. /\ touched' = touched
            /\ revisions'[currentKey] = revisions[currentKey]
            /\ sets'[currentKey] = sets[currentKey]
        BY <2>2, <2>3, <3>1, <3>4 DEF TypeOK, ManagerTypeOK
      <4>2. QED
        BY <1>2, <3>1, <3>2, <4>1 DEF RevisionTellsTouched
    <3>5. QED
      BY <3>3, <3>4
  <2>13. WalkInOrder'
    <3>1. CASE state' = "QUEUED"
      <4>1. state = "QUEUED" /\ walkFromStart'
        BY <1>2, <1>6, <2>4, <2>5, <3>1
      <4>2. QED
        BY <2>2, <3>1, <4>1 DEF WalkInOrder, Ahead, KeysOf
    <3>2. CASE state' = "EXECUTING"
      BY <1>2, <2>2, <2>6, <3>2 DEF IInv, WalkInOrder, KeysOf
    <3>3. QED
      BY <3>1, <3>2 DEF WalkInOrder
  <2>14. QED
    BY <1>4, <1>5, <2>3, <2>7, <2>8, <2>9, <2>10, <2>11, <2>12, <2>13 DEF IInv
<1>9. QED
  BY <1>7, <1>8

(* A restart, whatever it finds in NVS.                                          *)
LEMMA RestartInv ==
  ASSUME TypeOK, Restart
  PROVE  IInv'
<1>1. PICK outcome \in LoadOutcomes : Setup(switchSaved, outcome)
  BY DEF Restart
<1>2. /\ phase' = "result" /\ exState' = "IDLE"
      /\ state' = IF IsEmpty(sets') THEN "EMPTY" ELSE "ARMED"
      /\ lastInvSetup' = "never" /\ unserved' = {}
  BY <1>1 DEF Restart, Setup, FreshMembers
<1>3. PICK loaded \in StoredSets :
        /\ sets' = loaded
        /\ revisions' = RestoredRevisions(loaded)
        /\ nextRevision' = Cardinality(KeysOf(loaded))
  BY <1>1, EmptySetsType DEF Setup, RestartStore, TypeOK, StoreTypeOK
<1>4. RevisionsOfSets'
  BY <1>3, RestoredRevisionsBound DEF RevisionsOfSets
<1>5. (StateMatchesStore /\ BusOwnership /\ CycleCoversEverySet /\ NoRetryBehindTheCloud)'
  BY <1>2 DEF StateMatchesStore, BusOwnership, CycleCoversEverySet, NoRetryBehindTheCloud
<1>6. (RevisionTellsTouched /\ WalkInOrder /\ CycleKnowsCloud /\ NoResultAtBus
       /\ InvSetupOnRecord)'
  BY <1>2 DEF RevisionTellsTouched, WalkInOrder, CycleKnowsCloud, NoResultAtBus,
              InvSetupOnRecord, InCycle
<1>7. QED
  BY <1>4, <1>5, <1>6 DEF IInv

(* At the top of the hour every InvSetup becomes one of an earlier hour. *)
LEMMA TopOfHourInv ==
  ASSUME TypeOK, IInv, TopOfHour
  PROVE  IInv'
<1>1. /\ UNCHANGED <<phase, state, sets, revisions, nextRevision, exState, exBatch, unserved,
                     cloudInCycle, cloudBack, currentKey, currentRevision, touched,
                     walkFromStart, invSetupAwaits>>
      /\ cloudInvSetup' # "this_hour"
  BY DEF TopOfHour, AnHourAgo, storeVars, exVars
<1>2. (StateMatchesStore /\ BusOwnership /\ CycleCoversEverySet /\ NoRetryBehindTheCloud)'
  BY <1>1 DEF IInv, StateMatchesStore, BusOwnership, CycleCoversEverySet,
              NoRetryBehindTheCloud, IsEmpty, KeysOf, InCycle
<1>3. (RevisionsOfSets /\ RevisionTellsTouched /\ CycleKnowsCloud /\ InvSetupOnRecord)'
  BY <1>1 DEF IInv, RevisionsOfSets, RevisionTellsTouched, CycleKnowsCloud, InvSetupOnRecord,
              InCycle
<1>4. (WalkInOrder /\ NoResultAtBus)'
  BY <1>1 DEF IInv, WalkInOrder, NoResultAtBus, Ahead, KeysOf
<1>5. QED
  BY <1>2, <1>3, <1>4 DEF IInv

(* Every step of the specification keeps the inductive invariant. *)
LEMMA StepInv == TypeOK /\ IInv /\ [Next]_vars => IInv'
<1> SUFFICES ASSUME TypeOK, IInv, [Next]_vars
             PROVE  IInv'
  OBVIOUS
<1>1. CASE LoopStep
  <2>1. CASE BatchWaits
    BY <2>1, FrameInv DEF BatchWaits, managerVars, historyVars, storeVars, exVars
  <2>2. QED
    BY <1>1, <2>1, ResultPhaseInv, BusPhaseInv, BatchAdvancesInv, CheckPhaseInv DEF LoopStep
<1>2. CASE OnCloudMessage
  BY <1>2, OnCloudMessageInv
<1>3. CASE TurnPersistSwitch
  BY <1>3, FrameInv DEF TurnPersistSwitch, SetPersistEnabled, managerVars, historyVars, exVars
<1>4. CASE FlushPreferences
  BY <1>4, FrameInv DEF FlushPreferences, managerVars, historyVars, storeVars, exVars
<1>5. CASE Restart
  BY <1>5, RestartInv
<1>6. CASE Tick
  BY <1>6, FrameInv DEF Tick, historyVars, storeVars, exVars
<1>7. CASE SyncClock
  BY <1>7, FrameInv DEF SyncClock, managerVars, historyVars, storeVars, exVars
<1>8. CASE PassThreshold
  BY <1>8, FrameInv DEF PassThreshold, managerVars, historyVars, storeVars, exVars
<1>9. CASE TopOfHour
  BY <1>9, TopOfHourInv
<1>10. CASE NvsChanges
  BY <1>10, FrameInv DEF NvsChanges, managerVars, historyVars, storeVars, exVars
<1>11. CASE UNCHANGED vars
  BY <1>11, FrameInv DEF vars, managerVars, historyVars, storeVars, exVars
<1>12. QED
  BY <1>1, <1>2, <1>3, <1>4, <1>5, <1>6, <1>7, <1>8, <1>9, <1>10, <1>11 DEF Next

(* The inductive invariant holds in every state.                                 *)
THEOREM Invariance == Spec => [](TypeOK /\ IInv)
BY InitType, StepType, InitInv, StepInv, PTL DEF Spec

-----------------------------------------------------------------------------
(* What follows for every state *)

(* The lifecycle state agrees with the store.                                    *)
THEOREM LifecycleMatchesStore == Spec => []StateMatchesStore
<1>1. IInv => StateMatchesStore
  BY DEF IInv
<1>2. QED
  BY <1>1, Invariance, PTL

(* EXECUTING means that the executor holds the manager's batch, and no batch of  *)
(* the manager's is there otherwise.                                             *)
THEOREM BusOwned == Spec => []BusOwnership
<1>1. IInv => BusOwnership
  BY DEF IInv
<1>2. QED
  BY <1>1, Invariance, PTL

(* Every set stored at the trigger is run, or was cleared by the cloud, before   *)
(* the cycle ends.                                                               *)
THEOREM CycleComplete == Spec => []CycleCoversEverySet
<1>1. IInv => CycleCoversEverySet
  BY DEF IInv
<1>2. QED
  BY <1>1, Invariance, PTL

(* No retry stands after an InvSetup.                                            *)
THEOREM CloudCancelsRetry == Spec => []NoRetryBehindTheCloud
<1>1. IInv => NoRetryBehindTheCloud
  BY DEF IInv
<1>2. QED
  BY <1>1, Invariance, PTL

(* start_next_set never reaches its end of walk.                                 *)
THEOREM WalkNeverEmpty == Spec => []WalkFindsASet
<1>1. TypeOK /\ IInv => WalkFindsASet
  BY QueuedFindsASet DEF WalkFindsASet, WantsBus
<1>2. QED
  BY <1>1, Invariance, PTL

-----------------------------------------------------------------------------
(* What follows for every step *)

(* The executor starts a cloud batch only outside of a cycle.                    *)
LEMMA StepInterleavesNothing ==
  ASSUME TypeOK, IInv, [Next]_vars,
         exState = "IDLE", exState' # "IDLE", ~exBatch'.emergency
  PROVE  ~InCycle
<1>1. BusPhase
  <2>1. CASE ResultPhase
    BY <2>1 DEF ResultPhase, CollectResult, HasResult, exVars
  <2>2. CASE BatchAdvances
    BY <2>2 DEF BatchAdvances, LineAnswered, LineFailed, Busy
  <2>3. QED
    BY <2>1, <2>2 DEF Next, LoopStep, BatchWaits, CheckPhase, OnCloudMessage,
       TurnPersistSwitch, FlushPreferences, Restart, Tick, SyncClock, PassThreshold,
       TopOfHour, NvsChanges, vars, exVars
<1>2. ~Busy
  BY DEF Busy
<1>3. CASE WantsBus
  <2>1. RunSet(FirstOf(Ahead))
    BY <1>1, <1>2, <1>3, QueuedFindsASet DEF BusPhase, WantsBus, StartNextSet
  <2>2. QED
    BY <2>1 DEF RunSet, Start
<1>4. CASE ~WantsBus
  BY <1>4 DEF WantsBus, InCycle, IInv, BusOwnership
<1>5. QED
  BY <1>3, <1>4

(* A cloud request never starts between the trigger of a cycle and its end. *)
THEOREM NoInterleaving == Spec => CloudNeverInterleaves
<1>1. TypeOK /\ IInv /\ [Next]_vars =>
        [exState = "IDLE" /\ exState' # "IDLE" /\ ~exBatch'.emergency => ~InCycle]_vars
  BY StepInterleavesNothing
<1>2. QED
  BY <1>1, Invariance, PTL DEF Spec, CloudNeverInterleaves

(* A run that was answered clears the set it ran, if the cloud did not touch it. *)
LEMMA StepClearsWhatRan ==
  ASSUME TypeOK, IInv, [Next]_vars,
         phase = "result", phase' = "bus", sets' # sets
  PROVE  /\ ~touched
         /\ exAnswered > 0
         /\ sets[currentKey] = exBatch.lines
         /\ sets' = [sets EXCEPT ![currentKey] = NoLines]
<1>1. ResultPhase
  BY DEF Next, LoopStep, BusPhase, BatchAdvances, BatchWaits, CheckPhase, OnCloudMessage,
         TurnPersistSwitch, FlushPreferences, Restart, Tick, SyncClock, PassThreshold,
         TopOfHour, NvsChanges, vars
<1>2. HasResult /\ exBatch.emergency
  BY <1>1 DEF ResultPhase, CollectResult, storeVars
<1>3. PICK outcome \in NvsOutcomes : HandleResult(outcome)
  BY <1>1, <1>2 DEF ResultPhase, CollectResult
<1>4. Delivered /\ revisions[currentKey] = currentRevision /\ ClearSet(currentKey)
  BY <1>3 DEF HandleResult, SettleSet, storeVars
<1>5. state = "EXECUTING"
  BY <1>2 DEF HasResult, IInv, BusOwnership
<1>6. ~touched /\ sets[currentKey] = exBatch.lines
  BY <1>4, <1>5 DEF IInv, RevisionTellsTouched
<1>7. QED
  BY <1>4, <1>6 DEF Delivered, ClearSet

(* A result clears exactly the set that was run and answered, and only while the
   cloud has not replaced it. *)
THEOREM OnlyWhatRanIsCleared == Spec => ClearsOnlyWhatRan
<1>1. TypeOK /\ IInv /\ [Next]_vars =>
        [phase = "result" /\ phase' = "bus" /\ sets' # sets =>
           /\ ~touched
           /\ exAnswered > 0
           /\ sets[currentKey] = exBatch.lines
           /\ sets' = [sets EXCEPT ![currentKey] = NoLines]]_vars
  BY StepClearsWhatRan
<1>2. QED
  BY <1>1, Invariance, PTL DEF Spec, ClearsOnlyWhatRan

(* A cycle is only triggered in an hour without InvSetup.                        *)
LEMMA StepFiresInTime ==
  ASSUME TypeOK, IInv, [Next]_vars, state = "ARMED", state' = "QUEUED"
  PROVE  clockValid /\ pastThreshold /\ cloudInvSetup # "this_hour"
<1>1. CheckPhase /\ checkDue
  <2>1. CASE ResultPhase
    <3>1. CASE HasResult /\ exBatch.emergency
      BY <3>1 DEF HasResult, IInv, BusOwnership
    <3>2. CASE ~(HasResult /\ exBatch.emergency)
      BY <2>1, <3>2 DEF ResultPhase, CollectResult, managerVars
    <3>3. QED
      BY <3>1, <3>2
  <2>2. CASE BusPhase
    BY <2>2 DEF BusPhase, StartNextSet, WantsBus, StartRequest, managerVars
  <2>3. CASE OnCloudMessage
    BY <2>3 DEF OnCloudMessage, HandleFields, StateAfterInvSetup, StateAfterUpdate
  <2>4. CASE Restart
    BY <2>4 DEF Restart, Setup
  <2>5. CASE CheckPhase
    BY <2>5 DEF CheckPhase, ManagerLoop
  <2>6. QED
    BY <2>1, <2>2, <2>3, <2>4, <2>5 DEF Next, LoopStep, BatchAdvances, BatchWaits,
       TurnPersistSwitch, FlushPreferences, Tick, SyncClock, PassThreshold, TopOfHour,
       NvsChanges, vars, managerVars
<1>2. TriggerCycle
  BY <1>1 DEF CheckPhase, ManagerLoop, CheckTrigger, DisarmEmptyStore, RetryCycle, RetryDue,
              StampInvSetup, NothingToTrigger
<1>3. QED
  BY <1>2 DEF TriggerCycle, HourlyDue, IInv, InvSetupOnRecord

(* The hourly check never fires early, however InvSetup, clock sync and restart
   interleave. *)
THEOREM TriggerInTime == Spec => NeverFiresEarly
<1>1. TypeOK /\ IInv /\ [Next]_vars =>
        [state = "ARMED" /\ state' = "QUEUED" =>
           clockValid /\ pastThreshold /\ cloudInvSetup # "this_hour"]_vars
  BY StepFiresInTime
<1>2. QED
  BY <1>1, Invariance, PTL DEF Spec, NeverFiresEarly

(* The retry delay never shrinks but at the hourly trigger and at a restart.     *)
LEMMA StepBacksOff ==
  ASSUME TypeOK, [Next]_vars, RetryInitial <= RetryMax, retryDelay' < retryDelay
  PROVE  (state = "ARMED" /\ state' = "QUEUED") \/ Restart
<1>1. retryDelay \in Nat /\ retryDelay <= RetryMax
  BY RetryAssumption DEF TypeOK, ManagerTypeOK, LongestDelay
<1>2. retryDelay' # retryDelay
  BY <1>1
<1>3. ~ResultPhase
  <2> SUFFICES ASSUME ResultPhase PROVE FALSE
    OBVIOUS
  <2>1. PICK outcome \in NvsOutcomes : HandleResult(outcome)
    BY <1>2 DEF ResultPhase, CollectResult, managerVars
  <2>2. RemainderToRetry
    BY <1>2, <2>1 DEF HandleResult, NextSetQueued, AllSetsDelivered, RemainderLeftToCloud
  <2>3. retryDelay' = IF 2 * retryDelay < RetryMax THEN 2 * retryDelay ELSE RetryMax
    BY <2>2 DEF RemainderToRetry
  <2>4. QED
    BY <1>1, <2>3, RetryAssumption
<1>4. ~BusPhase
  BY <1>2 DEF BusPhase, StartNextSet, StartRequest, managerVars
<1>5. ~OnCloudMessage
  BY <1>2 DEF OnCloudMessage, HandleFields
<1>6. CASE CheckPhase
  BY <1>2, <1>6 DEF CheckPhase, ManagerLoop, CheckTrigger, DisarmEmptyStore, RetryCycle,
                    StampInvSetup, TriggerCycle, QueueCycle, NothingToTrigger
<1>7. QED
  BY <1>2, <1>3, <1>4, <1>5, <1>6 DEF Next, LoopStep, BatchAdvances, BatchWaits,
     TurnPersistSwitch, FlushPreferences, Tick, SyncClock, PassThreshold, TopOfHour,
     NvsChanges, vars, managerVars

(* Retries back off: see StepBacksOff. *)
THEOREM BackoffGrows == Spec => BackoffNeverShrinks
<1>1. TypeOK /\ [Next]_vars =>
        [RetryInitial <= RetryMax /\ retryDelay' < retryDelay =>
           (state = "ARMED" /\ state' = "QUEUED") \/ Restart]_vars
  BY StepBacksOff
<1>2. QED
  BY <1>1, TypeCorrect, PTL DEF Spec, BackoffNeverShrinks

-----------------------------------------------------------------------------
(* The copy in NVS, step by step while NVS works                                 *)

(* An empty store has one image only. *)
LEMMA EmptyStoreIsEmptySets ==
  ASSUME NEW s \in StoredSets
  PROVE  IsEmpty(s) <=> s = EmptySets
BY DEF IsEmpty, KeysOf, EmptySets, StoredSets

(* After sync_nvs the blob is the store, unless that exceeds the cap.            *)
LEMMA SyncNvsMirrors ==
  ASSUME TypeOK, NEW s \in StoredSets, NEW hash \in StoredSets, hash = nvs,
         SyncNvs(s, hash, TRUE, "ok")
  PROVE  persistedHash' = nvs' /\ (~ExceedsCap(s) => nvs' = s)
<1>1. CASE IsEmpty(s)
  BY <1>1, EmptyStoreIsEmptySets DEF SyncNvs, EraseNvs
<1>2. CASE ~IsEmpty(s)
  BY <1>2 DEF SyncNvs
<1>3. QED
  BY <1>1, <1>2

(* A call of sync_nvs with the new sets, or none because they did not change.    *)
LEMMA SyncKeepsMirror ==
  ASSUME TypeOK, Mirrored, nvsWorks, sets' \in StoredSets, UNCHANGED persistEnabled,
         NEW outcome \in NvsOutcomes,
         \/ SyncNvs(sets', persistedHash, persistEnabled, outcome)
         \/ UNCHANGED <<sets, persistedHash, nvs>>
  PROVE  Mirrored'
<1>1. CASE UNCHANGED <<sets, persistedHash, nvs>>
  BY <1>1 DEF Mirrored, ExceedsCap, IsEmpty, KeysOf
<1>2. CASE SyncNvs(sets', persistedHash, persistEnabled, outcome) /\ persistEnabled
  <2>1. outcome = "ok"
    BY DEF NvsOutcomes
  <2>2. persistedHash \in StoredSets /\ persistedHash = nvs /\ persistEnabled = TRUE
    BY <1>2 DEF TypeOK, StoreTypeOK, Mirrored
  <2>3. persistedHash' = nvs' /\ (~ExceedsCap(sets') => nvs' = sets')
    BY <1>2, <2>1, <2>2, SyncNvsMirrors
  <2>4. QED
    BY <1>2, <2>3 DEF Mirrored, ExceedsCap
<1>3. CASE SyncNvs(sets', persistedHash, persistEnabled, outcome) /\ ~persistEnabled
  BY <1>3 DEF SyncNvs, Mirrored, IsEmpty, KeysOf
<1>4. QED
  BY <1>1, <1>2, <1>3

(* Turning the switch writes or erases the copy at once. *)
LEMMA TurnPersistSwitchNvs ==
  ASSUME TypeOK, Mirrored, nvsWorks, TurnPersistSwitch
  PROVE  Mirrored'
<1>1. SetPersistEnabled(~persistEnabled, "ok")
  BY DEF TurnPersistSwitch, NvsOutcomes
<1>2. persistEnabled' = ~persistEnabled /\ sets' = sets
  BY <1>1 DEF SetPersistEnabled
<1>3. CASE persistEnabled
  BY <1>1, <1>2, <1>3, EmptySetsType, EmptyStoreIsEmptySets
  DEF SetPersistEnabled, EraseNvs, Mirrored
<1>4. CASE ~persistEnabled
  <2>1. nvs = EmptySets
    BY <1>4, EmptyStoreIsEmptySets DEF TypeOK, StoreTypeOK, Mirrored
  <2>2. SyncNvs(sets, EmptySets, TRUE, "ok")
    BY <1>1, <1>4 DEF SetPersistEnabled
  <2>3. persistedHash' = nvs' /\ (~ExceedsCap(sets) => nvs' = sets)
    BY <2>1, <2>2, EmptySetsType, SyncNvsMirrors DEF TypeOK, StoreTypeOK
  <2>4. QED
    BY <1>2, <1>4, <2>3 DEF Mirrored, ExceedsCap
<1>5. QED
  BY <1>3, <1>4

(* A restart restores what the copy holds. *)
LEMMA RestartNvs ==
  ASSUME Mirrored, nvsWorks, SwitchSaved, Restart
  PROVE  Mirrored'
<1>1. Setup(switchSaved, "ok")
  BY DEF Restart, LoadOutcomes
<1>2. /\ persistEnabled' = switchSaved /\ nvs' = nvs
      /\ switchSaved => sets' = nvs /\ persistedHash' = nvs
  BY <1>1 DEF Setup, RestartStore
<1>3. QED
  BY <1>2 DEF SwitchSaved, Mirrored, IsEmpty, KeysOf

(* No step but a restart with a switch that is not saved loses the mirror.        *)
LEMMA StepKeepsMirror ==
  ASSUME TypeOK, TypeOK', Mirrored, nvsWorks, [Next]_vars
  PROVE  Mirrored' \/ (Restart /\ ~SwitchSaved)
<1>1. sets' \in StoredSets
  BY DEF TypeOK, StoreTypeOK
<1>2. CASE UNCHANGED <<sets, persistedHash, nvs, persistEnabled>>
  BY <1>2 DEF Mirrored, ExceedsCap, IsEmpty, KeysOf
<1>3. CASE ResultPhase
  <2>1. CASE HasResult /\ exBatch.emergency
    <3>1. PICK outcome \in NvsOutcomes : HandleResult(outcome)
      BY <1>3, <2>1 DEF ResultPhase, CollectResult
    <3>2. /\ \/ SyncNvs(sets', persistedHash, persistEnabled, outcome)
             \/ UNCHANGED <<sets, persistedHash, nvs>>
          /\ UNCHANGED persistEnabled
      BY <3>1 DEF HandleResult, SettleSet, storeVars
    <3>3. QED
      BY <1>1, <3>2, SyncKeepsMirror
  <2>2. CASE ~(HasResult /\ exBatch.emergency)
    BY <1>2, <1>3, <2>2 DEF ResultPhase, CollectResult, storeVars
  <2>3. QED
    BY <2>1, <2>2
<1>4. CASE OnCloudMessage
  <2>1. PICK isInvSetup \in BOOLEAN, update \in Updates, outcome \in NvsOutcomes :
          HandleFields(isInvSetup, update, outcome)
    BY <1>4 DEF OnCloudMessage
  <2>2. /\ \/ SyncNvs(sets', persistedHash, persistEnabled, outcome)
           \/ UNCHANGED <<sets, persistedHash, nvs>>
        /\ UNCHANGED persistEnabled
    BY <2>1 DEF HandleFields, SetLines
  <2>3. QED
    BY <1>1, <2>2, SyncKeepsMirror
<1>5. CASE TurnPersistSwitch
  BY <1>5, TurnPersistSwitchNvs
<1>6. CASE Restart
  BY <1>6, RestartNvs
<1>7. CASE BusPhase
  BY <1>2, <1>7 DEF BusPhase, StartNextSet, StartRequest, storeVars
<1>8. QED
  BY <1>2, <1>3, <1>4, <1>5, <1>6, <1>7 DEF Next, LoopStep, BatchAdvances, BatchWaits,
     CheckPhase, ManagerLoop, FlushPreferences, Tick, SyncClock, PassThreshold, TopOfHour,
     NvsChanges, vars, storeVars

(* While NVS works, whatever it did before, no step lets the copy in NVS differ   *)
(* from the store: a power cut at any moment loses no stored set while            *)
(* persistence is on and its switch saved.                                        *)
THEOREM NvsMirrored == Spec => NvsMirrorsStore
<1>1. TypeOK /\ TypeOK' /\ [Next]_vars =>
        [Mirrored /\ nvsWorks => Mirrored' \/ (Restart /\ ~SwitchSaved)]_vars
  BY StepKeepsMirror
<1>2. QED
  BY <1>1, TypeCorrect, PTL DEF Spec, NvsMirrorsStore
=============================================================================
