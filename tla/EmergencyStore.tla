--------------------------- MODULE EmergencyStore ---------------------------
(***************************************************************************)
(* EmergencyStore (components/gbb_dongle/emergency_store.cpp): the stored   *)
(* emergency command sets, their revisions, and the copy of them in NVS.    *)
(*                                                                          *)
(* The operators with primes are the methods of the class; the actions of   *)
(* GbbDongle conjoin them.  A SubInverterSN is a number: 0 is the master    *)
(* (""), and < is the order std::map walks the keys in.  The NVS blob is    *)
(* the `sets` it encodes, and its hash is taken to be injective and never   *)
(* 0, so persistedHash is the `sets` last written; EmptySets stands for "no *)
(* blob" and for hash 0.                                                    *)
(***************************************************************************)
EXTENDS CommandSets, FiniteSets

CONSTANTS
  Keys,         \* SubInverterSN values in use
  Oversized,    \* the contents that push the blob over the JSON size cap
  NvsFaults     \* TRUE: NVS breaks and recovers, so its calls may fail

ASSUME StoreAssumption ==
  /\ Keys \subseteq Nat
  /\ IsFiniteSet(Keys)
  /\ Oversized \subseteq Contents
  /\ NvsFaults \in BOOLEAN

VARIABLES
  sets,            \* sets_
  revisions,       \* revisions_, 0 = key absent
  nextRevision,    \* next_revision_
  persistEnabled,  \* persist_enabled_
  persistedHash,   \* persisted_hash_
  nvs,             \* the blob under NVS_KEY
  nvsWorks         \* NVS is in order: its calls succeed

storeVars == <<sets, revisions, nextRevision, persistEnabled, persistedHash, nvs>>

StoredSets == [Keys -> LineVectors]
EmptySets == [k \in Keys |-> NoLines]
KeysOf(s) == {k \in Keys : s[k] # NoLines}
IsEmpty(s) == KeysOf(s) = {}

StoreTypeOK ==
  /\ sets \in StoredSets
  /\ revisions \in [Keys -> Nat]
  /\ nextRevision \in Nat
  /\ persistEnabled \in BOOLEAN
  /\ persistedHash \in StoredSets
  /\ nvs \in StoredSets

StoreInit ==
  /\ sets = EmptySets
  /\ revisions = [k \in Keys |-> 0]
  /\ nextRevision = 0
  /\ persistEnabled = FALSE
  /\ persistedHash = EmptySets
  /\ nvs = EmptySets

(* How the NVS calls of one method go.  A failed write may still have reached *)
(* the flash: nvs_set_blob may have stored what nvs_commit then reports.      *)
NvsOutcomes ==
  IF nvsWorks THEN {"ok"} ELSE {"ok", "open_fails", "io_fails", "io_fails_late"}

(* The key and line vector of LinesOnNoInvSetup change the store unless they  *)
(* clear an absent key or repeat what is stored.                              *)
Changes(key, lines) == sets[key] # lines

(* Mutant of SetLines: a replacement keeps the revision of what it replaces. *)
SetLinesKeepingRevision(key, lines) ==
  IF ~Changes(key, lines)
  THEN UNCHANGED <<sets, revisions, nextRevision>>
  ELSE /\ sets' = [sets EXCEPT ![key] = lines]
       /\ nextRevision' = IF lines = NoLines THEN nextRevision ELSE nextRevision + 1
       /\ revisions' = [revisions EXCEPT
                          ![key] = CASE lines = NoLines -> 0
                                     [] lines # NoLines /\ @ # 0 -> @
                                     [] OTHER -> nextRevision + 1]

(* set_lines; the empty vector is clear(). *)
SetLines(key, lines) ==
  IF ~Changes(key, lines)
  THEN UNCHANGED <<sets, revisions, nextRevision>>
  ELSE /\ sets' = [sets EXCEPT ![key] = lines]
       /\ nextRevision' = IF lines = NoLines THEN nextRevision ELSE nextRevision + 1
       /\ revisions' = [revisions EXCEPT
                          ![key] = IF lines = NoLines THEN 0 ELSE nextRevision + 1]

(* clear *)
ClearSet(key) ==
  /\ sets' = [sets EXCEPT ![key] = NoLines]
  /\ revisions' = [revisions EXCEPT ![key] = 0]
  /\ UNCHANGED nextRevision

(* build_emergency_sets would be truncated by build_json. *)
ExceedsCap(s) == \E k \in Keys : s[k] \in Oversized

(* nvs_erase_sets: an erase that fails is logged and otherwise ignored. *)
EraseNvs(outcome) ==
  nvs' = IF outcome \in {"ok", "io_fails_late"} THEN EmptySets ELSE nvs

(* sync_nvs, called with `s` in sets_, `hash` in persisted_hash_ and `on` in  *)
(* persist_enabled_.                                                          *)
SyncNvs(s, hash, on, outcome) ==
  CASE ~on \/ outcome = "open_fails" ->
         persistedHash' = hash /\ UNCHANGED nvs
    [] on /\ outcome # "open_fails" /\ IsEmpty(s) ->
         /\ persistedHash' = EmptySets
         /\ IF hash # EmptySets THEN EraseNvs(outcome) ELSE UNCHANGED nvs
    [] on /\ outcome # "open_fails" /\ ~IsEmpty(s) ->
         IF ExceedsCap(s) \/ s = hash
         THEN persistedHash' = hash /\ UNCHANGED nvs
         ELSE /\ persistedHash' = IF outcome = "ok" THEN s ELSE hash
              /\ nvs' = IF outcome = "io_fails" THEN nvs ELSE s

(* set_persist_enabled, past its early return. *)
SetPersistEnabled(on, outcome) ==
  /\ persistEnabled' = on
  /\ IF on
     THEN SyncNvs(sets, EmptySets, on, outcome)
     ELSE /\ persistedHash' = EmptySets
          /\ IF outcome = "open_fails" THEN UNCHANGED nvs ELSE EraseNvs(outcome)
  /\ UNCHANGED <<sets, revisions, nextRevision>>

(* The revisions load_from_nvs hands out, in the order of the keys. *)
RestoredRevisions(s) ==
  [k \in Keys |-> IF s[k] = NoLines THEN 0
                  ELSE Cardinality({j \in KeysOf(s) : j <= k})]

(* How reading the blob back goes; "unreadable" erases it, "kept" fails to. *)
LoadOutcomes ==
  IF nvsWorks THEN {"ok"} ELSE {"ok", "open_fails", "unreadable", "kept"}

(* The store after a restart: a fresh object, to which EmergencyManager::setup *)
(* applies set_persist_enabled(true) (nothing to write, nothing to erase: the  *)
(* sets are empty and the hash is 0) and load_from_nvs if the switch is on.    *)
RestartStore(on, outcome) ==
  LET loaded == IF on /\ outcome = "ok" THEN nvs ELSE EmptySets
  IN /\ persistEnabled' = on
     /\ sets' = loaded
     /\ persistedHash' = loaded
     /\ revisions' = RestoredRevisions(loaded)
     /\ nextRevision' = Cardinality(KeysOf(loaded))
     /\ nvs' = IF on /\ outcome = "unreadable" THEN EmptySets ELSE nvs
=============================================================================
