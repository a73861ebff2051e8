------------------------ MODULE ConfigRestoreProofs ------------------------
(***************************************************************************)
(* The safety of busscan --dongle for any number of attempts: the scan runs  *)
(* on a dongle that has all of our settings, and afterwards the dongle has   *)
(* its own again or the user is told.                                        *)
(***************************************************************************)
EXTENDS ConfigRestore, TLAPS

(* The settings that the first n POSTs write. *)
Written(n) == {Steps[i] : i \in 1..n}

(* As many of the settings as steps have succeeded are ours while they are        *)
(* applied, and the saved ones again while they are restored; a request that was   *)
(* lost may have changed the next one, too, and the restart may have come to pass. *)
RestoreInv ==
  /\ pc \in {"fetch", "apply", "scan", "restore", "exit"}
  /\ step \in 1..5 /\ entities \in Settings /\ running \in Settings
  /\ pc \in {"fetch", "apply"} => restore = "none"
  /\ pc \in {"fetch", "scan"} => step = 1
  /\ pc = "apply" => \A e \in Written(step - 1) : entities[e] = "ours"
  /\ pc = "restore" => \A e \in Written(step - 1) : entities[e] = "saved"
  /\ ScansOurDongle
  /\ RestoredOrTold

(* The steps, one by one: the settings, then the restart. *)
LEMMA StepsAre ==
  /\ Len(Steps) = 5 /\ Written(0) = {} /\ Written(4) = Entities
  /\ \A n \in 1..4 : Steps[n] \in Entities /\ Written(n) = Written(n - 1) \cup {Steps[n]}
  /\ Steps[5] = "restart" /\ "restart" \notin Entities
  /\ \A n \in 0..4 : Written(n) \subseteq Entities
<1>1. /\ Len(Steps) = 5 /\ Steps[1] = "MQTT Server" /\ Steps[2] = "MQTT Port"
      /\ Steps[3] = "TLS" /\ Steps[4] = "Cloud Connection" /\ Steps[5] = "restart"
  BY DEF Steps
<1>2. /\ Written(0) = {} /\ Written(1) = {Steps[1]} /\ Written(2) = {Steps[1], Steps[2]}
      /\ Written(3) = {Steps[1], Steps[2], Steps[3]}
      /\ Written(4) = {Steps[1], Steps[2], Steps[3], Steps[4]}
  <2>1. \A n \in 0..4 : \A e : e \in Written(n) <=> \E i \in 1..n : e = Steps[i]
    BY DEF Written
  <2>2. QED
    BY <2>1
<1>3. ASSUME NEW n \in 1..4
      PROVE  Steps[n] \in Entities /\ Written(n) = Written(n - 1) \cup {Steps[n]}
  <2>1. n = 1 \/ n = 2 \/ n = 3 \/ n = 4
    OBVIOUS
  <2>2. \A m \in {1, 2, 3, 4} : Steps[m] \in Entities
    BY <1>1 DEF Entities
  <2>3. QED
    BY <1>2, <2>1, <2>2
<1>4. "restart" \notin Entities /\ Written(4) = Entities
  BY <1>1, <1>2 DEF Entities
<1>5. ASSUME NEW n \in 0..4 PROVE Written(n) \subseteq Entities
  <2>1. n = 0 \/ n = 1 \/ n = 2 \/ n = 3 \/ n = 4
    OBVIOUS
  <2>2. QED
    BY <1>2, <1>4, <2>1
<1>6. QED
  BY <1>1, <1>2, <1>3, <1>4, <1>5

(* A POST that takes effect: the setting it writes, or the restart. *)
LEMMA Effect ==
  ASSUME RestoreInv, TakesEffect
  PROVE  /\ entities' \in Settings /\ running' \in Settings
         /\ \A whose \in {"saved", "ours"} :
              Whose = whose /\ (\A e \in Written(step - 1) : entities[e] = whose) =>
                /\ \A e \in Written(step - 1) : entities'[e] = whose
                /\ step < 5 => \A e \in Written(step) : entities'[e] = whose
                /\ step = 5 => entities' = All(whose) /\ running' = All(whose)
<1>1. step \in 1..5 /\ entities \in Settings /\ running \in Settings
  BY DEF RestoreInv
<1>2. CASE step = 5
  <2>1. running' = entities /\ entities' = entities
    BY <1>2, StepsAre DEF TakesEffect
  <2>2. Written(step - 1) = Entities
    BY <1>2, StepsAre
  <2>3. ASSUME NEW whose, \A e \in Entities : entities[e] = whose PROVE entities = All(whose)
    BY <1>1, <2>3 DEF Settings, All
  <2>4. QED
    BY <1>1, <1>2, <2>1, <2>2, <2>3
<1>3. CASE step < 5
  <2>1. /\ step \in 1..4 /\ step - 1 \in 0..4 /\ Steps[step] \in Entities
        /\ Written(step) = Written(step - 1) \cup {Steps[step]}
        /\ Written(step - 1) \subseteq Entities
    BY <1>1, <1>3, StepsAre
  <2>2. /\ entities' = [entities EXCEPT ![Steps[step]] = Whose] /\ running' = running
    BY <2>1, StepsAre DEF TakesEffect
  <2>3. Whose \in {"saved", "ours"}
    BY DEF Whose
  <2>4. /\ entities' \in Settings
        /\ \A e \in Entities : entities'[e] = IF e = Steps[step] THEN Whose ELSE entities[e]
    BY <1>1, <2>2, <2>3 DEF Settings
  <2>5. QED
    BY <1>1, <1>3, <2>1, <2>2, <2>4
<1>4. QED
  BY <1>1, <1>2, <1>3

(* Every step of the tool, and every way a POST may go, keeps the invariant. *)
LEMMA RestoreKept == RestoreInv /\ [Next]_vars => RestoreInv'
<1> SUFFICES ASSUME RestoreInv, [Next]_vars PROVE RestoreInv'
  OBVIOUS
<1>1. /\ step \in 1..5 /\ entities \in Settings /\ running \in Settings
      /\ Written(0) = {} /\ Len(Steps) = 5
  BY StepsAre DEF RestoreInv
<1>2. CASE Fetch
  <2>1. pc' \in {"apply", "exit"} /\ pc = "fetch"
        /\ UNCHANGED <<step, restore, entities, running, told>>
    BY <1>2 DEF Fetch
  <2>2. QED
    BY <1>1, <2>1 DEF RestoreInv, ScansOurDongle, RestoredOrTold
<1>3. CASE ScanEnds
  <2>1. /\ pc = "scan" /\ pc' = "restore" /\ restore' = "done"
        /\ UNCHANGED <<step, entities, running>>
    BY <1>3 DEF ScanEnds
  <2>2. Written(step' - 1) = {}
    BY <1>1, <2>1 DEF RestoreInv
  <2>3. QED
    BY <1>1, <2>1, <2>2 DEF RestoreInv, ScansOurDongle, RestoredOrTold
<1>4. ASSUME Applying, ApplyFailed, step' = 1, entities' \in Settings, running' \in Settings
      PROVE  RestoreInv'
  <2>1. pc' = "exit" /\ restore' = restore /\ (pc = "restore" => told')
    BY <1>4, Zenon DEF ApplyFailed
  <2>2. (pc = "apply" /\ restore = "none") \/ pc = "restore"
    BY <1>4 DEF RestoreInv, Applying
  <2>3. RestoredOrTold' /\ ScansOurDongle'
    BY <2>1, <2>2 DEF RestoredOrTold, ScansOurDongle
  <2>4. QED
    BY <1>4, <2>1, <2>3 DEF RestoreInv
<1>5. ASSUME Applying PROVE \E whose \in {"saved", "ours"} :
                              /\ Whose = whose /\ (whose = "ours" <=> pc = "apply")
                              /\ \A e \in Written(step - 1) : entities[e] = whose
  BY <1>5 DEF Applying, Whose, RestoreInv
<1>6. ASSUME Applying, TakesEffect \/ UNCHANGED <<entities, running>>,
             UNCHANGED <<pc, step, restore, told>>
      PROVE  RestoreInv'
  <2>1. CASE TakesEffect
    <3>1. entities' \in Settings /\ running' \in Settings
      BY <2>1, Effect
    <3>2. PICK whose \in {"saved", "ours"} :
            /\ Whose = whose /\ (whose = "ours" <=> pc = "apply")
            /\ \A e \in Written(step - 1) : entities[e] = whose
      BY <1>5, <1>6
    <3>3. \A e \in Written(step - 1) : entities'[e] = whose
      BY <2>1, <3>2, Effect
    <3>4. QED
      BY <1>1, <1>6, <3>1, <3>2, <3>3
      DEF RestoreInv, Applying, ScansOurDongle, RestoredOrTold
  <2>2. CASE UNCHANGED <<entities, running>>
    BY <1>6, <2>2 DEF RestoreInv, ScansOurDongle, RestoredOrTold
  <2>3. QED
    BY <1>6, <2>1, <2>2
<1>7. CASE PostSucceeds
  <2>1. Applying /\ TakesEffect
    BY <1>7 DEF PostSucceeds
  <2>2. entities' \in Settings /\ running' \in Settings
    BY <2>1, Effect
  <2>3. PICK whose \in {"saved", "ours"} :
          /\ Whose = whose /\ (whose = "ours" <=> pc = "apply")
          /\ \A e \in Written(step - 1) : entities[e] = whose
    BY <1>5, <2>1
  <2>4. CASE step < 5
    <3>1. step' = step + 1 /\ UNCHANGED <<pc, restore, told>>
      BY <1>1, <1>7, <2>4 DEF PostSucceeds
    <3>2. \A e \in Written(step) : entities'[e] = whose
      BY <2>1, <2>3, <2>4, Effect
    <3>3. step' - 1 = step /\ step' \in 1..5
      BY <1>1, <2>4, <3>1
    <3>4. QED
      BY <2>1, <2>2, <2>3, <3>1, <3>2, <3>3
      DEF RestoreInv, Applying, ScansOurDongle, RestoredOrTold
  <2>5. CASE step = 5
    <3>1. entities' = All(whose) /\ running' = All(whose)
      BY <2>1, <2>3, <2>5, Effect
    <3>2. step' = 1 /\ ApplyDone
      BY <1>1, <1>7, <2>5 DEF PostSucceeds
    <3>3. CASE pc = "apply"
      BY <2>2, <2>3, <3>1, <3>2, <3>3
      DEF ApplyDone, RestoreInv, ScansOurDongle, RestoredOrTold
    <3>4. CASE pc = "restore"
      BY <2>2, <2>3, <3>1, <3>2, <3>4
      DEF ApplyDone, RestoreInv, ScansOurDongle, RestoredOrTold
    <3>5. QED
      BY <2>1, <3>3, <3>4 DEF Applying
  <2>6. QED
    BY <1>1, <2>4, <2>5
<1>8. CASE PostRefused
  BY <1>1, <1>4, <1>8 DEF PostRefused
<1>9. CASE PostLost
  <2>1. CASE try < MaxTries
    BY <1>6, <1>9, <2>1 DEF PostLost
  <2>2. CASE ~(try < MaxTries)
    <3>1. entities' \in Settings /\ running' \in Settings
      BY <1>1, <1>9, Effect DEF PostLost
    <3>2. QED
      BY <1>4, <1>9, <2>2, <3>1 DEF PostLost
  <2>3. QED
    BY <2>1, <2>2
<1>10. CASE PostCancelled
  <2>1. entities' \in Settings /\ running' \in Settings
    BY <1>1, <1>10, Effect DEF PostCancelled
  <2>2. QED
    BY <1>4, <1>10, <2>1 DEF PostCancelled
<1>11. CASE Interrupt \/ RestoreExpires
  BY <1>11 DEF Interrupt, RestoreExpires, RestoreInv, ScansOurDongle, RestoredOrTold
<1>12. CASE UNCHANGED vars
  BY <1>12 DEF vars, RestoreInv, ScansOurDongle, RestoredOrTold
<1>13. QED
  BY <1>2, <1>3, <1>7, <1>8, <1>9, <1>10, <1>11, <1>12 DEF Next, Run

(* Nothing is touched before the settings have been read. *)
LEMMA RestoreStarts == Init => RestoreInv
<1>1. All("saved") \in Settings
  BY DEF All, Settings
<1>2. QED
  BY <1>1 DEF Init, RestoreInv, ScansOurDongle, RestoredOrTold

(* A dongle that was pointed at this tool has its saved settings back, and runs on *)
(* them, when the tool exits, or the user was told to restore them: whichever      *)
(* requests and replies are lost, refused or cut short by Ctrl-C                    *)
(* (main.go:134-145).                                                               *)
THEOREM RestoresOrTells == Spec => []RestoredOrTold
<1>1. RestoreInv => RestoredOrTold
  BY DEF RestoreInv
<1>2. QED
  BY <1>1, RestoreStarts, RestoreKept, PTL DEF Spec

(* The scan only starts on a dongle that has restarted with all of our settings     *)
(* (main.go:129-132).                                                               *)
THEOREM OursWhenScanned == Spec => []ScansOurDongle
<1>1. RestoreInv => ScansOurDongle
  BY DEF RestoreInv
<1>2. QED
  BY <1>1, RestoreStarts, RestoreKept, PTL DEF Spec

-----------------------------------------------------------------------------
(* A POST that takes effect leaves settings. *)
LEMMA EffectTyped ==
  ASSUME TypeOK, TakesEffect
  PROVE  entities' \in Settings /\ running' \in Settings
<1>1. step \in 1..5 /\ entities \in Settings /\ running \in Settings
  BY DEF TypeOK
<1>2. CASE step = 5
  BY <1>1, <1>2, StepsAre DEF TakesEffect
<1>3. CASE step \in 1..4
  <2>1. /\ Steps[step] \in Entities /\ Steps[step] # "restart"
    BY <1>3, StepsAre
  <2>2. entities' = [entities EXCEPT ![Steps[step]] = Whose] /\ running' = running
    BY <2>1 DEF TakesEffect
  <2>3. Whose \in {"saved", "ours"}
    BY DEF Whose
  <2>4. QED
    BY <1>1, <2>1, <2>2, <2>3 DEF Settings
<1>4. QED
  BY <1>1, <1>2, <1>3

(* Every step keeps the types; the steps and the attempts stay within their bounds. *)
LEMMA TypesKept == TypeOK /\ [Next]_vars => TypeOK'
<1> SUFFICES ASSUME TypeOK, [Next]_vars PROVE TypeOK'
  OBVIOUS
<1> USE TriesAssumption
<1>1. /\ step \in 1..5 /\ try \in 1..MaxTries /\ Len(Steps) = 5
      /\ cancelled \in BOOLEAN /\ expired \in BOOLEAN /\ told \in BOOLEAN
      /\ restore \in {"none", "set", "done"}
      /\ pc \in {"fetch", "apply", "scan", "restore", "exit"}
      /\ entities \in Settings /\ running \in Settings
  BY StepsAre DEF TypeOK
<1>2. ASSUME Applying, ApplyFailed, step' = 1, try' = 1,
             TakesEffect \/ UNCHANGED <<entities, running>>, UNCHANGED <<cancelled, expired>>
      PROVE  TypeOK'
  <2>1. entities' \in Settings /\ running' \in Settings
    BY <1>1, <1>2, EffectTyped
  <2>2. pc' = "exit" /\ restore' = restore /\ told' \in BOOLEAN
    BY <1>1, <1>2, Zenon DEF ApplyFailed
  <2>3. QED
    BY <1>1, <1>2, <2>1, <2>2 DEF TypeOK
<1>3. CASE Fetch
  BY <1>1, <1>3 DEF Fetch, TypeOK
<1>4. CASE ScanEnds
  BY <1>1, <1>4 DEF ScanEnds, TypeOK
<1>5. CASE PostSucceeds
  <2>1. /\ entities' \in Settings /\ running' \in Settings
        /\ try' = 1 /\ UNCHANGED <<cancelled, expired>>
    BY <1>5, EffectTyped DEF PostSucceeds
  <2>2. CASE step < 5
    BY <1>1, <1>5, <2>1, <2>2 DEF PostSucceeds, TypeOK
  <2>3. CASE step = 5
    <3>1. step' = 1 /\ ApplyDone
      BY <1>1, <1>5, <2>3 DEF PostSucceeds
    <3>2. /\ pc' \in {"scan", "exit"} /\ restore' \in {restore, "set"} /\ told' = told
      BY <3>1 DEF ApplyDone
    <3>3. QED
      BY <1>1, <2>1, <3>1, <3>2 DEF TypeOK
  <2>4. QED
    BY <1>1, <2>2, <2>3
<1>6. CASE PostRefused
  BY <1>2, <1>6 DEF PostRefused
<1>7. CASE PostLost
  <2>1. CASE try < MaxTries
    <3>1. entities' \in Settings /\ running' \in Settings
      BY <1>1, <1>7, EffectTyped DEF PostLost
    <3>2. /\ try' = try + 1 /\ UNCHANGED <<pc, step, restore, told, cancelled, expired>>
      BY <1>7, <2>1 DEF PostLost
    <3>3. try' \in 1..MaxTries
      BY <1>1, <2>1, <3>2
    <3>4. QED
      BY <1>1, <3>1, <3>2, <3>3 DEF TypeOK
  <2>2. CASE ~(try < MaxTries)
    BY <1>2, <1>7, <2>2 DEF PostLost
  <2>3. QED
    BY <2>1, <2>2
<1>8. CASE PostCancelled
  BY <1>2, <1>8 DEF PostCancelled
<1>9. CASE Interrupt \/ RestoreExpires
  BY <1>1, <1>9 DEF Interrupt, RestoreExpires, TypeOK
<1>10. CASE UNCHANGED vars
  BY <1>10 DEF vars, TypeOK
<1>11. QED
  BY <1>3, <1>4, <1>5, <1>6, <1>7, <1>8, <1>9, <1>10 DEF Next, Run

(* The types of ConfigRestore, for any number of attempts. *)
THEOREM RestoreTyped == Spec => []TypeOK
<1>1. Init => TypeOK
  <2>1. All("saved") \in Settings
    BY DEF All, Settings
  <2>2. 1 \in 1..MaxTries /\ 1 \in 1..5
    BY TriesAssumption
  <2>3. QED
    BY <2>1, <2>2 DEF Init, TypeOK
<1>2. QED
  BY <1>1, TypesKept, PTL DEF Spec
=============================================================================
