------------------------ MODULE ModbusExecutorProofs ------------------------
(***************************************************************************)
(* The safety of ModbusExecutor for any line vectors, any timing the        *)
(* assumption allows and any width of millis(), and that it implements      *)
(* BatchExecutor.                                                           *)
(***************************************************************************)
EXTENDS ModbusExecutor, FiniteSetTheorems, SequenceTheorems, TLAPS

(* What is assumed of the constants, one by one. *)
LEMMA Constants ==
  /\ Vectors \subseteq Seq(LineKinds)
  /\ Wrap \in Nat /\ ResponseTimeout \in Nat /\ ReadGap \in Nat /\ WriteGap \in Nat
  /\ SilenceGap \in Nat /\ ReplyWithin \in Nat /\ PauseWithin \in Nat
  /\ LoopWithin \in Nat /\ MaxIdle \in Nat
  /\ 2 * (ResponseTimeout + WriteGap) < Wrap
  /\ ReadGap <= WriteGap /\ PauseWithin < ReadGap /\ WriteGap <= MaxIdle
  /\ ReplyWithin + PauseWithin < ResponseTimeout + ReadGap
<1>1. /\ Wrap \in Nat /\ ResponseTimeout \in Nat /\ ReadGap \in Nat /\ WriteGap \in Nat
      /\ SilenceGap \in Nat /\ ReplyWithin \in Nat /\ PauseWithin \in Nat
      /\ LoopWithin \in Nat /\ MaxIdle \in Nat
  BY ExecutorAssumption, Zenon
<1>2. Vectors \subseteq Seq(LineKinds)
  BY ExecutorAssumption, Zenon
<1>3. /\ 2 * (ResponseTimeout + WriteGap) < Wrap
      /\ ReadGap <= WriteGap /\ PauseWithin < ReadGap /\ WriteGap <= MaxIdle
      /\ ReplyWithin + PauseWithin < ResponseTimeout + ReadGap
  BY ExecutorAssumption, Zenon
<1>4. QED
  BY <1>1, <1>2, <1>3

(* A function on 1..n is a sequence of length n. *)
LEMMA FunctionIsSeq ==
  ASSUME NEW S, NEW n \in Nat, NEW f \in [1..n -> S]
  PROVE  f \in Seq(S) /\ Len(f) = n /\ DOMAIN f = 1..n
<1>1. f \in Seq(S)
  BY SeqDef
<1>2. DOMAIN f = 1..n /\ Len(f) \in Nat /\ DOMAIN f = 1..Len(f)
  BY <1>1, LenProperties
<1>3. QED
  BY <1>1, <1>2

(* A set of numbers that is not empty has a least member. *)
LEMMA Least ==
  ASSUME NEW T, T \subseteq Nat, T # {}
  PROVE  \E x \in T : \A y \in T : x <= y
<1> DEFINE Less == {p \in Nat \X Nat : p[1] < p[2]}
<1>1. IsWellFoundedOn(Less, Nat)
  BY NatLessThanWellFounded DEF OpToRel
<1>2. PICK x \in T : \A y \in T : ~ (<<y, x>> \in Less)
  BY <1>1, WFMin
<1>3. ASSUME NEW y \in T PROVE x <= y
  <2>1. x \in Nat /\ y \in Nat /\ ~ (<<y, x>> \in Less)
    BY <1>2
  <2>2. ~ (y < x)
    BY <2>1, Zenon
  <2>3. QED
    BY <2>1, <2>2
<1>4. QED
  BY <1>3

-----------------------------------------------------------------------------
(* The lines of a batch *)

(* start_next_line_ stops at the first line with a payload, or past the last. *)
LEMMA PayloadIsFirst ==
  ASSUME NEW ls \in Seq(Line), NEW i \in 1..Len(ls) + 1
  PROVE  /\ Payload(ls, i) \in i..Len(ls) + 1
         /\ \A j \in i..Payload(ls, i) - 1 : ls[j].kind = "none"
         /\ Payload(ls, i) <= Len(ls) => ls[Payload(ls, i)].kind # "none"
<1> DEFINE rest == {j \in i..Len(ls) : ls[j].kind # "none"}
<1>1. Len(ls) \in Nat /\ i \in Nat
  BY LenProperties
<1>2. CASE rest = {}
  <2>1. Payload(ls, i) = Len(ls) + 1
    BY <1>2 DEF Payload
  <2>2. QED
    BY <1>1, <1>2, <2>1
<1>3. CASE rest # {}
  <2>1. rest \subseteq Nat
    BY <1>1
  <2>2. \E x \in rest : \A y \in rest : x <= y
    BY <1>3, <2>1, Least
  <2>3. Payload(ls, i) = CHOOSE x \in rest : \A y \in rest : x <= y
    BY <1>3 DEF Payload
  <2>4. Payload(ls, i) \in rest /\ \A y \in rest : Payload(ls, i) <= y
    BY <2>2, <2>3, Zenon
  <2>5. QED
    BY <1>1, <2>4
<1>4. QED
  BY <1>2, <1>3

(* Clearing the lines from i on changes no kind and nothing before i. *)
LEMMA ClearedFromKeeps ==
  ASSUME NEW ls \in Seq(Line), NEW i \in Nat
  PROVE  /\ ClearedFrom(ls, i) \in Seq(Line)
         /\ Len(ClearedFrom(ls, i)) = Len(ls)
         /\ \A j \in 1..Len(ls) :
              /\ ClearedFrom(ls, i)[j].kind = ls[j].kind
              /\ ClearedFrom(ls, i)[j].modbus =
                   IF j >= i THEN "cleared" ELSE ls[j].modbus
<1>1. Len(ls) \in Nat /\ DOMAIN ls = 1..Len(ls) /\ \A j \in 1..Len(ls) : ls[j] \in Line
  BY LenProperties, ElementOfSeq
<1>2. \A j \in 1..Len(ls) : /\ ClearedFrom(ls, i)[j] \in Line
                            /\ ClearedFrom(ls, i)[j].kind = ls[j].kind
                            /\ ClearedFrom(ls, i)[j].modbus =
                                 IF j >= i THEN "cleared" ELSE ls[j].modbus
  BY <1>1 DEF ClearedFrom, Line
<1>3. ClearedFrom(ls, i) \in [1..Len(ls) -> Line]
  BY <1>1, <1>2 DEF ClearedFrom
<1>4. QED
  BY <1>1, <1>2, <1>3, FunctionIsSeq

(* A reply is stored in one line and changes no kind. *)
LEMMA ReplyStored ==
  ASSUME NEW ls \in Seq(Line), NEW i \in 1..Len(ls)
  PROVE  LET now == [ls EXCEPT ![i].modbus = "reply"]
         IN /\ now \in Seq(Line)
            /\ Len(now) = Len(ls)
            /\ \A j \in 1..Len(ls) :
                 /\ now[j].kind = ls[j].kind
                 /\ now[j].modbus = IF j = i THEN "reply" ELSE ls[j].modbus
<1> DEFINE now == [ls EXCEPT ![i].modbus = "reply"]
<1>1. Len(ls) \in Nat /\ DOMAIN ls = 1..Len(ls) /\ \A j \in 1..Len(ls) : ls[j] \in Line
  BY LenProperties, ElementOfSeq
<1>2. \A j \in 1..Len(ls) : /\ now[j] \in Line
                            /\ now[j].kind = ls[j].kind
                            /\ now[j].modbus = IF j = i THEN "reply" ELSE ls[j].modbus
  BY <1>1 DEF Line
<1>3. now \in [1..Len(ls) -> Line]
  BY <1>1, <1>2
<1>4. QED
  BY <1>1, <1>2, <1>3, FunctionIsSeq

(* The lines before i are answered, those from i on are as they came. *)
AnsweredUpTo(ls, i) ==
  \A j \in 1..Len(ls) :
    /\ j < i => /\ ls[j].kind # "invalid"
                /\ ls[j].modbus = IF ls[j].kind = "none" THEN "cleared" ELSE "reply"
    /\ j >= i => ls[j].modbus = IF ls[j].kind = "none" THEN "cleared" ELSE "request"

(* A new batch has the lines that arrived, none of them answered. *)
LEMMA FreshBatch ==
  ASSUME NEW vector \in Vectors
  PROVE  /\ Fresh(vector) \in Seq(Line) /\ Len(Fresh(vector)) = Len(vector)
         /\ Len(vector) \in Nat
         /\ \A j \in 1..Len(vector) : Fresh(vector)[j].kind = vector[j]
         /\ AnsweredUpTo(Fresh(vector), 1)
<1>1. /\ vector \in Seq(LineKinds) /\ Len(vector) \in Nat /\ DOMAIN vector = 1..Len(vector)
      /\ \A j \in 1..Len(vector) : vector[j] \in LineKinds
  BY Constants, LenProperties, ElementOfSeq
<1>2. \A j \in 1..Len(vector) :
        /\ Fresh(vector)[j] \in Line /\ Fresh(vector)[j].kind = vector[j]
        /\ Fresh(vector)[j].modbus = IF vector[j] = "none" THEN "cleared" ELSE "request"
  BY <1>1 DEF Fresh, Line
<1>3. Fresh(vector) \in [1..Len(vector) -> Line]
  BY <1>1, <1>2 DEF Fresh
<1>4. Fresh(vector) \in Seq(Line) /\ Len(Fresh(vector)) = Len(vector)
  BY <1>1, <1>3, FunctionIsSeq
<1>5. AnsweredUpTo(Fresh(vector), 1)
  BY <1>1, <1>2, <1>4 DEF AnsweredUpTo
<1>6. QED
  BY <1>1, <1>2, <1>4, <1>5

-----------------------------------------------------------------------------
(* Of a batch under way, a line that can be transmitted is the current one. *)
InProgress ==
  /\ lineIndex \in 1..Len(lines)
  /\ lines[lineIndex].kind \in {"read", "write", "readwrite", "other"}
  /\ AnsweredUpTo(lines, lineIndex)

LinesInv ==
  /\ lines \in Seq(Line) /\ lineIndex \in Nat
  /\ state \in {"IDLE", "GAP", "RX_WAIT", "DONE"}
  /\ Busy => InProgress
  /\ RepliesThenNothing

(* A failing line leaves the replies of the lines before it, and no more. *)
LEMMA FailLineEndsBatch ==
  ASSUME NEW ls \in Seq(Line), NEW i \in 1..Len(ls), AnsweredUpTo(ls, i), FailLine(ls, i)
  PROVE  LinesInv'
<1>1. Len(ls) \in Nat /\ lines' = ClearedFrom(ls, i) /\ lineIndex' = i /\ state' = "DONE"
  BY LenProperties DEF FailLine
<1>2. /\ lines' \in Seq(Line) /\ Len(lines') = Len(ls)
      /\ \A j \in 1..Len(ls) :
           /\ lines'[j].kind = ls[j].kind
           /\ lines'[j].modbus = IF j >= i THEN "cleared" ELSE ls[j].modbus
  BY <1>1, ClearedFromKeeps
<1>3. DOMAIN lines' = 1..Len(ls)
  BY <1>2, LenProperties
<1>4. i - 1 \in 0..Len(lines')
  BY <1>1, <1>2
<1>5. ASSUME NEW j \in DOMAIN lines'
      PROVE  lines'[j].modbus =
               IF j <= i - 1 /\ lines'[j].kind # "none" THEN "reply" ELSE "cleared"
  BY <1>1, <1>2, <1>3 DEF AnsweredUpTo
<1>6. RepliesThenNothing'
  BY <1>4, <1>5 DEF RepliesThenNothing
<1>7. QED
  BY <1>1, <1>2, <1>6 DEF LinesInv, Busy

(* Going on from line i, the lines before which are answered. *)
LEMMA NextLineOrEnd ==
  ASSUME NEW ls \in Seq(Line), NEW i \in 1..Len(ls) + 1, AnsweredUpTo(ls, i),
         NEW afterReply, StartNextLine(ls, i, afterReply)
  PROVE  LinesInv'
<1> DEFINE next == Payload(ls, i)
<1>1. /\ Len(ls) \in Nat /\ DOMAIN ls = 1..Len(ls) /\ next \in i..Len(ls) + 1
      /\ \A j \in i..next - 1 : ls[j].kind = "none"
      /\ next <= Len(ls) => ls[next].kind # "none"
      /\ \A j \in 1..Len(ls) : ls[j] \in Line
  BY LenProperties, ElementOfSeq, PayloadIsFirst
<1>2. AnsweredUpTo(ls, next)
  BY <1>1 DEF AnsweredUpTo
<1>3. CASE next <= Len(ls) /\ ls[next].kind = "invalid"
  <2>1. FailLine(ls, next) /\ next \in 1..Len(ls)
    BY <1>1, <1>3 DEF StartNextLine
  <2>2. QED
    BY <1>2, <2>1, FailLineEndsBatch
<1>4. CASE ~ (next <= Len(ls) /\ ls[next].kind = "invalid")
  <2>1. /\ lines' = ls /\ lineIndex' = next
        /\ state' = IF next > Len(ls) THEN "DONE" ELSE "GAP"
    BY <1>4 DEF StartNextLine
  <2>2. CASE next > Len(ls)
    <3>1. Len(ls) \in 0..Len(lines')
      BY <1>1, <2>1
    <3>2. ASSUME NEW j \in DOMAIN lines'
          PROVE  lines'[j].modbus =
                   IF j <= Len(ls) /\ lines'[j].kind # "none" THEN "reply" ELSE "cleared"
      BY <1>1, <1>2, <2>1, <2>2 DEF AnsweredUpTo
    <3>3. RepliesThenNothing'
      BY <3>1, <3>2 DEF RepliesThenNothing
    <3>4. QED
      BY <1>1, <2>1, <2>2, <3>3 DEF LinesInv, Busy
  <2>3. CASE next <= Len(ls)
    <3>1. next \in 1..Len(ls) /\ ls[next].kind \in {"read", "write", "readwrite", "other"}
      BY <1>1, <1>4, <2>3 DEF Line, LineKinds
    <3>2. QED
      BY <1>1, <1>2, <2>1, <2>3, <3>1 DEF LinesInv, InProgress, Busy, RepliesThenNothing
  <2>4. QED
    BY <1>1, <2>2, <2>3
<1>5. QED
  BY <1>3, <1>4

(* A step that leaves the lines alone keeps the invariant if it ends no line. *)
LEMMA LinesUntouched ==
  ASSUME LinesInv, UNCHANGED <<lines, lineIndex>>,
         state' \in {"IDLE", "GAP", "RX_WAIT", "DONE"},
         state' = state \/ state' = "IDLE" \/ (Busy /\ state' = "RX_WAIT")
  PROVE  LinesInv'
BY DEF LinesInv, InProgress, AnsweredUpTo, Busy, RepliesThenNothing

(* Only the reply to the current line, or its failure, touches the lines of a  *)
(* batch.                                                                      *)
LEMMA LinesKept == LinesInv /\ [Next]_vars => LinesInv'
<1> SUFFICES ASSUME LinesInv, [Next]_vars PROVE LinesInv'
  OBVIOUS
<1>1. CASE \E isEmergency \in BOOLEAN, vector \in Vectors : Start(isEmergency, vector)
  <2>1. PICK isEmergency \in BOOLEAN, vector \in Vectors : Start(isEmergency, vector)
    BY <1>1
  <2>2. StartNextLine(Fresh(vector), 1, FALSE)
    BY <2>1 DEF Start
  <2>3. /\ Fresh(vector) \in Seq(Line) /\ 1 \in 1..Len(Fresh(vector)) + 1
        /\ AnsweredUpTo(Fresh(vector), 1)
    BY FreshBatch
  <2>4. QED
    BY <2>2, <2>3, NextLineOrEnd
<1>2. CASE TakeResult
  BY <1>2, LinesUntouched DEF TakeResult, headerVars
<1>3. CASE TransmitCurrent
  BY <1>3, LinesUntouched DEF TransmitCurrent, headerVars, Busy
<1>4. CASE HandleRx
  <2>1. InProgress /\ lines \in Seq(Line) /\ Len(lines) \in Nat
    BY <1>4, LenProperties DEF HandleRx, LinesInv, Busy
  <2>2. CASE ReplyArrived
    <3> DEFINE now == [lines EXCEPT ![lineIndex].modbus = "reply"]
    <3>1. /\ now \in Seq(Line) /\ Len(now) = Len(lines)
          /\ \A j \in 1..Len(lines) :
               /\ now[j].kind = lines[j].kind
               /\ now[j].modbus = IF j = lineIndex THEN "reply" ELSE lines[j].modbus
      BY <2>1, ReplyStored DEF InProgress
    <3>2. lineIndex + 1 \in 1..Len(now) + 1
      BY <2>1, <3>1 DEF InProgress
    <3>3. AnsweredUpTo(now, lineIndex + 1)
      BY <2>1, <3>1 DEF InProgress, AnsweredUpTo
    <3>4. StartNextLine(now, lineIndex + 1, TRUE)
      BY <2>2 DEF ReplyArrived
    <3>5. QED
      BY <3>1, <3>2, <3>3, <3>4, NextLineOrEnd
  <2>3. CASE DamagedReply \/ NoReplyInTime
    BY <2>1, <2>3, FailLineEndsBatch DEF DamagedReply, NoReplyInTime, InProgress
  <2>4. CASE KeepReceiving
    BY <2>4, LinesUntouched DEF KeepReceiving, LinesInv
  <2>5. QED
    BY <1>4, <2>2, <2>3, <2>4 DEF HandleRx
<1>5. CASE NothingToDo
  BY <1>5, LinesUntouched DEF NothingToDo, headerVars, LinesInv
<1>6. CASE Arrive \/ Tick \/ ApplyUartSettings
  BY <1>6, LinesUntouched DEF Arrive, Tick, ApplyUartSettings, headerVars, LinesInv
<1>7. CASE UNCHANGED vars
  BY <1>7, LinesUntouched DEF vars, headerVars, LinesInv
<1>8. QED
  BY <1>1, <1>2, <1>3, <1>4, <1>5, <1>6, <1>7 DEF Next, Loop

(* A result holds replies up to the line that went wrong and nothing from there *)
(* on, whatever the batch was and whatever came over the wire                   *)
(* (modbus_executor.cpp:209-221).                                               *)
THEOREM ResultsAreReplies == Spec => []RepliesThenNothing
<1>1. Init => LinesInv
  BY EmptySeq DEF Init, LinesInv, Busy, RepliesThenNothing
<1>2. LinesInv /\ [Next]_vars => LinesInv'
  BY LinesKept
<1>3. LinesInv => RepliesThenNothing
  BY DEF LinesInv
<1>4. QED
  BY <1>1, <1>2, <1>3, PTL DEF Spec

-----------------------------------------------------------------------------
(* The refinement of BatchExecutor *)

Replied(ls) == {j \in DOMAIN ls : ls[j].modbus = "reply"}
LoadedBefore(ls, i) == {j \in 1..i - 1 : ls[j].kind # "none"}

(* How many lines of a batch can be answered. *)
Answerable(ls) == Cardinality(BeforeInvalid(Kinds(ls)))
Answered(ls) == Cardinality(Replied(ls))

(* The counts are numbers. *)
LEMMA LinesAreFinite ==
  ASSUME NEW ls \in Seq(Line), NEW i \in 1..Len(ls) + 1
  PROVE  /\ IsFiniteSet(LoadedBefore(ls, i))
         /\ IsFiniteSet(BeforeInvalid(Kinds(ls)))
         /\ Cardinality(LoadedBefore(ls, i)) \in Nat
         /\ Answerable(ls) \in Nat
<1>1. Len(ls) \in Nat /\ DOMAIN ls = 1..Len(ls) /\ DOMAIN Kinds(ls) = 1..Len(ls)
  BY LenProperties DEF Kinds
<1>2. IsFiniteSet(1..Len(ls))
  BY <1>1, FS_Interval
<1>3. LoadedBefore(ls, i) \in SUBSET (1..Len(ls))
  BY <1>1 DEF LoadedBefore
<1>4. BeforeInvalid(Kinds(ls)) \in SUBSET (1..Len(ls))
  BY <1>1 DEF BeforeInvalid, Loaded
<1>5. QED
  BY <1>2, <1>3, <1>4, FS_Subset, FS_CardinalityType DEF Answerable

(* The replies stored are those to the loaded lines before the current one. *)
LEMMA RepliedIsLoaded ==
  ASSUME NEW ls \in Seq(Line), NEW i \in 1..Len(ls) + 1, AnsweredUpTo(ls, i)
  PROVE  Replied(ls) = LoadedBefore(ls, i)
<1>1. Len(ls) \in Nat /\ DOMAIN ls = 1..Len(ls)
  BY LenProperties
<1>2. QED
  BY <1>1 DEF Replied, LoadedBefore, AnsweredUpTo

(* As long as the current line can be transmitted, more lines can be answered *)
(* than are; when none is left or it is no frame, none can.                   *)
LEMMA AnsweredBound ==
  ASSUME NEW ls \in Seq(Line), NEW i \in 1..Len(ls) + 1, AnsweredUpTo(ls, i),
         i <= Len(ls) => ls[i].kind # "none"
  PROVE  Cardinality(LoadedBefore(ls, i)) < Answerable(ls)
           <=> i <= Len(ls) /\ ls[i].kind # "invalid"
<1>1. /\ Len(ls) \in Nat /\ DOMAIN Kinds(ls) = 1..Len(ls)
      /\ \A j \in 1..Len(ls) : Kinds(ls)[j] = ls[j].kind
  BY LenProperties DEF Kinds
<1>2. /\ IsFiniteSet(LoadedBefore(ls, i)) /\ IsFiniteSet(BeforeInvalid(Kinds(ls)))
      /\ Cardinality(LoadedBefore(ls, i)) \in Nat /\ Answerable(ls) \in Nat
  BY LinesAreFinite
<1>3. BeforeInvalid(Kinds(ls)) =
        {j \in 1..Len(ls) : ls[j].kind # "none" /\ \A k \in 1..j : ls[k].kind # "invalid"}
  BY <1>1 DEF BeforeInvalid, Loaded
<1>4. LoadedBefore(ls, i) \subseteq BeforeInvalid(Kinds(ls))
  BY <1>1, <1>3 DEF LoadedBefore, AnsweredUpTo
<1>5. CASE i <= Len(ls) /\ ls[i].kind # "invalid"
  <2>1. i \in BeforeInvalid(Kinds(ls))
    BY <1>1, <1>3, <1>5 DEF AnsweredUpTo
  <2>2. i \notin LoadedBefore(ls, i)
    BY <1>1 DEF LoadedBefore
  <2>3. /\ Cardinality(LoadedBefore(ls, i)) <= Answerable(ls)
        /\ Cardinality(LoadedBefore(ls, i)) # Answerable(ls)
    BY <1>2, <1>4, <2>1, <2>2, FS_Subset DEF Answerable
  <2>4. QED
    BY <1>2, <1>5, <2>3
<1>6. CASE ~ (i <= Len(ls) /\ ls[i].kind # "invalid")
  <2>1. BeforeInvalid(Kinds(ls)) \subseteq LoadedBefore(ls, i)
    BY <1>1, <1>3, <1>6 DEF LoadedBefore
  <2>2. BeforeInvalid(Kinds(ls)) = LoadedBefore(ls, i)
    BY <1>4, <2>1, Zenon
  <2>3. Cardinality(LoadedBefore(ls, i)) = Answerable(ls)
    BY <2>2 DEF Answerable
  <2>4. QED
    BY <1>2, <1>6, <2>3
<1>7. QED
  BY <1>5, <1>6

(* The reply to the current line makes one more. *)
LEMMA OneMoreAnswered ==
  ASSUME NEW ls \in Seq(Line), NEW i \in 1..Len(ls), ls[i].kind # "none"
  PROVE  Cardinality(LoadedBefore(ls, i + 1)) = Cardinality(LoadedBefore(ls, i)) + 1
<1>1. Len(ls) \in Nat
  BY LenProperties
<1>2. LoadedBefore(ls, i + 1) = LoadedBefore(ls, i) \cup {i} /\ i \notin LoadedBefore(ls, i)
  BY <1>1 DEF LoadedBefore
<1>3. IsFiniteSet(LoadedBefore(ls, i))
  BY <1>1, LinesAreFinite
<1>4. QED
  BY <1>2, <1>3, FS_AddElement

(* The mapping of Promise. *)
exState == IF Busy THEN "BUSY" ELSE state

(* Going on from line i ends the batch exactly if BatchExecutor does. *)
LEMMA NextLineOrEndImplements ==
  ASSUME NEW ls \in Seq(Line), NEW i \in 1..Len(ls) + 1, AnsweredUpTo(ls, i),
         NEW afterReply, StartNextLine(ls, i, afterReply)
  PROVE  /\ Kinds(lines') = Kinds(ls)
         /\ Replied(lines') = LoadedBefore(ls, i)
         /\ exState' = IF Cardinality(LoadedBefore(ls, i)) < Answerable(ls)
                       THEN "BUSY" ELSE "DONE"
<1> DEFINE next == Payload(ls, i)
<1>1. /\ Len(ls) \in Nat /\ DOMAIN ls = 1..Len(ls) /\ next \in i..Len(ls) + 1
      /\ \A j \in i..next - 1 : ls[j].kind = "none"
      /\ next <= Len(ls) => ls[next].kind # "none"
  BY LenProperties, PayloadIsFirst
<1>2. AnsweredUpTo(ls, next)
  BY <1>1 DEF AnsweredUpTo
<1>3. LoadedBefore(ls, i) = LoadedBefore(ls, next)
  BY <1>1 DEF LoadedBefore
<1>4. Cardinality(LoadedBefore(ls, i)) < Answerable(ls)
        <=> next <= Len(ls) /\ ls[next].kind # "invalid"
  BY <1>1, <1>2, <1>3, AnsweredBound
<1>5. Replied(ls) = LoadedBefore(ls, i)
  BY <1>1, <1>2, <1>3, RepliedIsLoaded
<1>6. CASE next <= Len(ls) /\ ls[next].kind = "invalid"
  <2>1. lines' = ClearedFrom(ls, next) /\ state' = "DONE"
    BY <1>6 DEF StartNextLine, FailLine
  <2>2. /\ lines' \in Seq(Line) /\ Len(lines') = Len(ls) /\ DOMAIN lines' = 1..Len(ls)
        /\ \A j \in 1..Len(ls) :
             /\ lines'[j].kind = ls[j].kind
             /\ lines'[j].modbus = IF j >= next THEN "cleared" ELSE ls[j].modbus
    BY <1>1, <2>1, ClearedFromKeeps, LenProperties
  <2>3. Kinds(lines') = Kinds(ls)
    BY <1>1, <2>2 DEF Kinds
  <2>4. Replied(lines') = Replied(ls)
    BY <1>1, <1>2, <2>2 DEF Replied, AnsweredUpTo
  <2>5. QED
    BY <1>4, <1>5, <1>6, <2>1, <2>3, <2>4 DEF exState, Busy
<1>7. CASE ~ (next <= Len(ls) /\ ls[next].kind = "invalid")
  <2>1. lines' = ls /\ state' = IF next > Len(ls) THEN "DONE" ELSE "GAP"
    BY <1>7 DEF StartNextLine
  <2>2. exState' = IF next > Len(ls) THEN "DONE" ELSE "BUSY"
    BY <2>1 DEF exState, Busy
  <2>3. QED
    BY <1>1, <1>4, <1>5, <1>7, <2>1, <2>2
<1>8. QED
  BY <1>6, <1>7

(* A failing line leaves the replies that are there. *)
LEMMA FailLineImplements ==
  ASSUME NEW ls \in Seq(Line), NEW i \in 1..Len(ls), AnsweredUpTo(ls, i), FailLine(ls, i)
  PROVE  Kinds(lines') = Kinds(ls) /\ Replied(lines') = Replied(ls) /\ exState' = "DONE"
<1>1. Len(ls) \in Nat /\ DOMAIN ls = 1..Len(ls) /\ lines' = ClearedFrom(ls, i)
  BY LenProperties DEF FailLine
<1>2. /\ lines' \in Seq(Line) /\ Len(lines') = Len(ls) /\ DOMAIN lines' = 1..Len(ls)
      /\ \A j \in 1..Len(ls) :
           /\ lines'[j].kind = ls[j].kind
           /\ lines'[j].modbus = IF j >= i THEN "cleared" ELSE ls[j].modbus
  BY <1>1, ClearedFromKeeps, LenProperties
<1>3. Kinds(lines') = Kinds(ls)
  BY <1>1, <1>2 DEF Kinds
<1>4. Replied(lines') = Replied(ls)
  BY <1>1, <1>2 DEF Replied, AnsweredUpTo
<1>5. QED
  BY <1>3, <1>4 DEF FailLine, exState, Busy

(* The lines of a batch are those of a vector that arrived. *)
KnownLines == Kinds(lines) \in Vectors \cup {<<>>}

(* What Promise says of the batch at hand. *)
LEMMA PromiseAfterLine ==
  ASSUME NEW e, NEW ls, Kinds(ls) \in Vectors \cup {<<>>}, NEW n
  PROVE  Promise!AfterLine([emergency |-> e, lines |-> Kinds(ls)], n) =
           IF n < Answerable(ls) THEN "BUSY" ELSE "DONE"
BY DEF Promise!AfterLine, Answerable

(* A step that changes neither the batch nor what is answered. *)
LEMMA PromiseStutters ==
  ASSUME UNCHANGED <<emergency, lines, exState>>
  PROVE  UNCHANGED Promise!exVars
BY DEF Promise!exVars, exState, Busy, Kinds

(* Every step of the executor is a step of BatchExecutor, or hidden from it. *)
LEMMA StepImplements ==
  LinesInv /\ KnownLines /\ [Next]_vars
    => KnownLines' /\ [Promise!ExNext]_Promise!exVars
<1> SUFFICES ASSUME LinesInv, KnownLines, [Next]_vars
             PROVE  KnownLines' /\ [Promise!ExNext]_Promise!exVars
  OBVIOUS
<1>1. CASE \E isEmergency \in BOOLEAN, vector \in Vectors : Start(isEmergency, vector)
  <2>1. PICK isEmergency \in BOOLEAN, vector \in Vectors : Start(isEmergency, vector)
    BY <1>1
  <2> DEFINE ls == Fresh(vector)
  <2>2. /\ StartNextLine(ls, 1, FALSE) /\ emergency' = isEmergency /\ state = "IDLE"
    BY <2>1 DEF Start
  <2>3. ls \in Seq(Line) /\ 1 \in 1..Len(ls) + 1 /\ AnsweredUpTo(ls, 1)
    BY FreshBatch
  <2>4. Kinds(ls) = vector
    <3>1. /\ vector \in Seq(LineKinds) /\ DOMAIN vector = 1..Len(vector)
          /\ DOMAIN ls = 1..Len(vector)
      BY Constants, FreshBatch, LenProperties
    <3>2. \A j \in 1..Len(vector) : Kinds(ls)[j] = vector[j]
      BY <3>1, FreshBatch DEF Kinds
    <3>3. vector = [j \in 1..Len(vector) |-> vector[j]]
      BY <3>1, LenProperties
    <3>4. QED
      BY <3>1, <3>2, <3>3 DEF Kinds
  <2>5. LoadedBefore(ls, 1) = {}
    BY DEF LoadedBefore
  <2>6. /\ Kinds(lines') = vector /\ Answered(lines') = 0
        /\ exState' = IF 0 < Answerable(ls) THEN "BUSY" ELSE "DONE"
    BY <2>2, <2>3, <2>4, <2>5, NextLineOrEndImplements, FS_EmptySet DEF Answered
  <2> DEFINE batch == [emergency |-> isEmergency, lines |-> vector]
  <2>7. batch \in Promise!Batches
    BY DEF Promise!Batches, Promise!LineVectors
  <2>8. Promise!AfterLine(batch, 0) = exState'
    BY <2>4, <2>6, PromiseAfterLine
  <2>9. Promise!Start(batch)
    BY <2>2, <2>6, <2>8 DEF Promise!Start, exState, Answered, Replied
  <2>10. ~Promise!Busy /\ ~Promise!HasResult
    BY <2>2 DEF Promise!Busy, Promise!HasResult, Busy
  <2>11. Promise!ExNext
    BY <2>7, <2>9, <2>10 DEF Promise!ExNext
  <2>12. QED
    BY <2>6, <2>11 DEF KnownLines
<1>2. CASE TakeResult
  <2>1. Promise!TakeResult
    BY <1>2 DEF TakeResult, headerVars, Promise!TakeResult, Promise!HasResult, Busy
  <2>2. QED
    BY <1>2, <2>1 DEF TakeResult, headerVars, KnownLines, Promise!ExNext
<1>3. CASE TransmitCurrent
  <2>1. UNCHANGED <<emergency, lines, exState>>
    BY <1>3 DEF TransmitCurrent, headerVars, exState, Busy
  <2>2. QED
    BY <2>1, PromiseStutters DEF KnownLines
<1>4. CASE HandleRx
  <2>1. /\ state = "RX_WAIT" /\ InProgress /\ lines \in Seq(Line) /\ Len(lines) \in Nat
        /\ emergency' = emergency /\ Promise!Busy
    BY <1>4, LenProperties DEF HandleRx, LinesInv, Busy, Promise!Busy
  <2>2. /\ lineIndex \in 1..Len(lines) /\ AnsweredUpTo(lines, lineIndex)
        /\ lines[lineIndex].kind \in {"read", "write", "readwrite", "other"}
    BY <2>1 DEF InProgress
  <2>3. CASE ReplyArrived
    <3> DEFINE now == [lines EXCEPT ![lineIndex].modbus = "reply"]
    <3>1. /\ now \in Seq(Line) /\ Len(now) = Len(lines)
          /\ DOMAIN now = 1..Len(lines) /\ DOMAIN lines = 1..Len(lines)
          /\ \A j \in 1..Len(lines) :
               /\ now[j].kind = lines[j].kind
               /\ now[j].modbus = IF j = lineIndex THEN "reply" ELSE lines[j].modbus
      BY <2>1, <2>2, ReplyStored, LenProperties
    <3>2. lineIndex + 1 \in 1..Len(now) + 1 /\ AnsweredUpTo(now, lineIndex + 1)
      BY <2>1, <2>2, <3>1 DEF AnsweredUpTo
    <3>3. StartNextLine(now, lineIndex + 1, TRUE)
      BY <2>3 DEF ReplyArrived
    <3>4. Kinds(now) = Kinds(lines)
      BY <3>1 DEF Kinds
    <3>5. LoadedBefore(now, lineIndex + 1) = LoadedBefore(lines, lineIndex + 1)
      BY <2>1, <2>2, <3>1 DEF LoadedBefore
    <3>6. /\ Kinds(lines') = Kinds(lines)
          /\ Replied(lines') = LoadedBefore(lines, lineIndex + 1)
          /\ exState' = IF Cardinality(Replied(lines')) < Answerable(lines)
                        THEN "BUSY" ELSE "DONE"
      BY <3>1, <3>2, <3>3, <3>4, <3>5, NextLineOrEndImplements DEF Answerable
    <3>7. Answered(lines') = Answered(lines) + 1
      BY <2>1, <2>2, <3>6, OneMoreAnswered, RepliedIsLoaded DEF Answered
    <3>8. Promise!AfterLine([emergency |-> emergency, lines |-> Kinds(lines)], Answered(lines'))
            = exState'
      BY <3>6, PromiseAfterLine DEF KnownLines, Answered
    <3>9. Promise!LineAnswered
      BY <2>1, <3>6, <3>7, <3>8 DEF Promise!LineAnswered, exState, Answered, Replied
    <3>10. QED
      BY <3>6, <3>9 DEF KnownLines, Promise!ExNext
  <2>4. CASE DamagedReply \/ NoReplyInTime
    <3>1. /\ Kinds(lines') = Kinds(lines) /\ Replied(lines') = Replied(lines)
          /\ exState' = "DONE"
      BY <2>1, <2>2, <2>4, FailLineImplements DEF DamagedReply, NoReplyInTime
    <3>2. Promise!LineFailed
      BY <2>1, <3>1 DEF Promise!LineFailed, exState, Replied
    <3>3. QED
      BY <3>1, <3>2 DEF KnownLines, Promise!ExNext
  <2>5. CASE KeepReceiving
    <3>1. UNCHANGED <<emergency, lines, exState>>
      BY <2>1, <2>5 DEF KeepReceiving, exState, Busy
    <3>2. QED
      BY <3>1, PromiseStutters DEF KnownLines
  <2>6. QED
    BY <1>4, <2>3, <2>4, <2>5 DEF HandleRx
<1>5. CASE NothingToDo \/ Arrive \/ Tick \/ ApplyUartSettings \/ UNCHANGED vars
  <2>1. UNCHANGED <<emergency, lines, exState>>
    BY <1>5 DEF NothingToDo, Arrive, Tick, ApplyUartSettings, vars, headerVars, exState, Busy
  <2>2. QED
    BY <2>1, PromiseStutters DEF KnownLines
<1>6. QED
  BY <1>1, <1>2, <1>3, <1>4, <1>5 DEF Next, Loop

(* To GbbDongle::loop the executor is what BatchExecutor promises, for every    *)
(* vector of lines and every timing.                                            *)
THEOREM KeepsPromise == Spec => ImplementsBatchExecutor
<1>1. Init => LinesInv /\ KnownLines /\ Promise!ExInit
  <2> SUFFICES ASSUME Init PROVE LinesInv /\ KnownLines /\ Promise!ExInit
    OBVIOUS
  <2>1. LinesInv
    BY EmptySeq DEF Init, LinesInv, Busy, RepliesThenNothing
  <2>2. Kinds(lines) = <<>> /\ Replied(lines) = {}
    BY DEF Init, Kinds, Replied
  <2>3. QED
    BY <2>1, <2>2, FS_EmptySet DEF Init, KnownLines, Promise!ExInit, Busy, Replied
<1>2. LinesInv /\ KnownLines /\ [Next]_vars
        => (LinesInv /\ KnownLines)' /\ [Promise!ExNext]_Promise!exVars
  BY LinesKept, StepImplements
<1>3. QED
  BY <1>1, <1>2, PTL DEF Spec, ImplementsBatchExecutor, Promise!ExSpec

-----------------------------------------------------------------------------
(* The clocks *)

ClocksTyped ==
  /\ gapUntil \in Millis /\ txDoneAt \in Millis /\ lastRxByteAt \in Millis
  /\ millis \in Millis
  /\ nextGap \in Nat /\ owed \in Nat
  /\ sinceLoop \in 0..LoopWithin /\ quiet \in 0..MaxIdle

(* Wrap alone, for the arithmetic modulo Wrap. *)
LEMMA WrapIsNat == Wrap \in Nat /\ Wrap > 1
BY Constants

(* A remainder is what it is taken of, or that less one wrap. *)
LEMMA WrapOnce ==
  ASSUME NEW t \in Nat, t < 2 * Wrap
  PROVE  t % Wrap = IF t < Wrap THEN t ELSE t - Wrap
BY WrapIsNat

(* The moment t comes d units after the moment m. *)
IsAfter(m, d, t) == t = m + d \/ t + Wrap = m + d

(* Later and Since, which compute it. *)
LEMMA LaterIsAfter ==
  ASSUME NEW m \in Millis, NEW d \in Nat, d < Wrap
  PROVE  (m + d) % Wrap \in Millis /\ IsAfter(m, d, (m + d) % Wrap)
<1>1. m + d \in Nat /\ m + d < 2 * Wrap
  BY WrapIsNat DEF Millis
<1>2. (m + d) % Wrap = IF m + d < Wrap THEN m + d ELSE (m + d) - Wrap
  BY <1>1, WrapOnce
<1>3. QED
  BY <1>1, <1>2, WrapIsNat DEF Millis, IsAfter

(* One unit on, a moment is one unit less ahead. *)
LEMMA OneLessAhead ==
  ASSUME NEW m \in Millis, NEW n \in Millis, NEW t \in Millis, IsAfter(m, 1, n),
         NEW d \in Nat, 0 < d, 2 * d < Wrap, IsAfter(m, d, t)
  PROVE  IsAfter(n, d - 1, t)
BY WrapIsNat DEF IsAfter, Millis

(* The unsigned difference of two moments. *)
LEMMA SinceIs ==
  ASSUME NEW m \in Millis, NEW t \in Millis
  PROVE  (m + Wrap - t) % Wrap = IF t <= m THEN m - t ELSE m + Wrap - t
<1>1. m + Wrap - t \in Nat /\ m + Wrap - t < 2 * Wrap
  BY WrapIsNat DEF Millis
<1>2. (m + Wrap - t) % Wrap = IF m + Wrap - t < Wrap THEN m + Wrap - t
                                                     ELSE (m + Wrap - t) - Wrap
  BY <1>1, WrapOnce
<1>3. QED
  BY <1>2, WrapIsNat DEF Millis

(* What a line that ends, or the next one that begins, does to the clocks. *)
LEMMA NextLineClocks ==
  ASSUME NEW ls, NEW i, NEW afterReply \in BOOLEAN, StartNextLine(ls, i, afterReply)
  PROVE  /\ state' \in {"GAP", "DONE"}
         /\ \/ gapUntil' = Later(nextGap) /\ quiet' = 0
            \/ ~afterReply /\ UNCHANGED <<gapUntil, quiet>>
BY DEF StartNextLine, FailLine, NextCommandAfter

(* The gap of the last command, and until when it lasts. *)
GapInv ==
  /\ nextGap = owed /\ owed <= WriteGap
  /\ state = "RX_WAIT" => owed >= ReadGap
  /\ state # "RX_WAIT" /\ quiet < owed => IsAfter(millis, owed - quiet, gapUntil)

(* While the gap lasts it is not over: half a wrap is longer than any gap. *)
LEMMA GapLasts ==
  ASSUME ClocksTyped, GapInv, state # "RX_WAIT", quiet < owed
  PROVE  ~NotBefore(gapUntil)
<1> DEFINE d == owed - quiet
<1>1. d \in Nat /\ 0 < d /\ 2 * d < Wrap
  BY Constants DEF ClocksTyped, GapInv
<1>2. gapUntil \in Millis /\ millis \in Millis /\ IsAfter(millis, d, gapUntil)
  BY DEF ClocksTyped, GapInv
<1>3. Since(gapUntil) = IF gapUntil <= millis THEN millis - gapUntil
                                              ELSE millis + Wrap - gapUntil
  BY <1>2, SinceIs DEF Since
<1>4. Since(gapUntil) = Wrap - d
  BY <1>1, <1>2, <1>3, WrapIsNat DEF IsAfter, Millis
<1>5. QED
  BY <1>1, <1>4, WrapIsNat DEF NotBefore

(* Every step keeps the clocks: time passing shortens the rest of the gap by one,  *)
(* a line that ends sets it anew.                                                  *)
LEMMA ClocksKept == ClocksTyped /\ GapInv /\ [Next]_vars => ClocksTyped' /\ GapInv'
<1> SUFFICES ASSUME ClocksTyped, GapInv, [Next]_vars PROVE ClocksTyped' /\ GapInv'
  OBVIOUS
<1>1. /\ 0 \in 0..LoopWithin /\ 0 \in 0..MaxIdle
      /\ Later(nextGap) \in Millis /\ IsAfter(millis, owed, Later(nextGap))
  <2>1. nextGap \in Nat /\ nextGap < Wrap /\ nextGap = owed /\ millis \in Millis
    BY Constants DEF ClocksTyped, GapInv
  <2>2. QED
    BY <2>1, LaterIsAfter, Constants DEF Later
<1>2. ASSUME NEW ls, NEW i, NEW afterReply \in BOOLEAN, StartNextLine(ls, i, afterReply),
             state # "RX_WAIT" \/ afterReply,
             UNCHANGED <<txDoneAt, millis, nextGap, owed>>,
             lastRxByteAt' \in Millis, sinceLoop' \in 0..LoopWithin
      PROVE  ClocksTyped' /\ GapInv'
  <2>1. state' \in {"GAP", "DONE"}
    BY <1>2, NextLineClocks
  <2>2. CASE gapUntil' = Later(nextGap) /\ quiet' = 0
    <3>1. IsAfter(millis, owed - quiet', gapUntil')
      BY <1>1, <2>2 DEF ClocksTyped
    <3>2. QED
      BY <1>1, <1>2, <2>1, <2>2, <3>1 DEF ClocksTyped, GapInv
  <2>3. CASE ~afterReply /\ UNCHANGED <<gapUntil, quiet>>
    BY <1>2, <2>1, <2>3 DEF ClocksTyped, GapInv
  <2>4. QED
    BY <1>2, <2>2, <2>3, NextLineClocks
<1>3. CASE \E isEmergency \in BOOLEAN, vector \in Vectors : Start(isEmergency, vector)
  <2>1. PICK isEmergency \in BOOLEAN, vector \in Vectors : Start(isEmergency, vector)
    BY <1>3
  <2>2. QED
    BY <1>2, <2>1 DEF Start, busVars, ClocksTyped
<1>4. CASE TakeResult
  BY <1>4 DEF TakeResult, timers, busVars, ClocksTyped, GapInv
<1>5. CASE TransmitCurrent /\ sinceLoop' = 0
  <2>1. /\ nextGap' = owed' /\ owed' \in {ReadGap, WriteGap} /\ state' = "RX_WAIT"
        /\ txDoneAt' = millis /\ lastRxByteAt' = millis
        /\ UNCHANGED <<gapUntil, millis, quiet>>
    BY <1>5 DEF TransmitCurrent, Gap
  <2>2. QED
    BY <1>1, <1>5, <2>1, Constants DEF ClocksTyped, GapInv
<1>6. CASE HandleRx /\ sinceLoop' = 0
  <2>1. /\ state = "RX_WAIT" /\ UNCHANGED <<txDoneAt, nextGap, millis, owed>>
        /\ lastRxByteAt' \in Millis
    BY <1>6 DEF HandleRx, LastByteAt, ClocksTyped
  <2>2. CASE ReplyArrived
    BY <1>1, <1>2, <1>6, <2>1, <2>2 DEF ReplyArrived
  <2>3. CASE DamagedReply \/ NoReplyInTime
    <3>1. state' = "DONE" /\ gapUntil' = Later(nextGap) /\ quiet' = 0
      BY <2>3 DEF DamagedReply, NoReplyInTime, FailLine, NextCommandAfter
    <3>2. IsAfter(millis, owed - quiet', gapUntil')
      BY <1>1, <3>1 DEF ClocksTyped
    <3>3. QED
      BY <1>1, <1>6, <2>1, <3>1, <3>2 DEF ClocksTyped, GapInv
  <2>4. CASE KeepReceiving
    BY <1>1, <1>6, <2>1, <2>4 DEF KeepReceiving, ClocksTyped, GapInv
  <2>5. QED
    BY <1>6, <2>2, <2>3, <2>4 DEF HandleRx
<1>7. CASE NothingToDo /\ sinceLoop' = 0
  BY <1>1, <1>7 DEF NothingToDo, timers, ClocksTyped, GapInv
<1>8. CASE Arrive \/ ApplyUartSettings
  BY <1>8 DEF Arrive, ApplyUartSettings, timers, ClocksTyped, GapInv
<1>9. CASE Tick
  <2>1. UNCHANGED <<state, gapUntil, txDoneAt, lastRxByteAt, nextGap, owed>>
    BY <1>9 DEF Tick, timers
  <2>2. /\ sinceLoop' \in 0..LoopWithin /\ quiet' \in 0..MaxIdle
        /\ quiet' = IF quiet < MaxIdle THEN quiet + 1 ELSE quiet
    <3>1. /\ sinceLoop < LoopWithin /\ sinceLoop' = sinceLoop + 1
          /\ quiet' = IF quiet < MaxIdle THEN quiet + 1 ELSE quiet
      BY <1>9 DEF Tick
    <3>2. sinceLoop \in 0..LoopWithin /\ quiet \in 0..MaxIdle
      BY DEF ClocksTyped
    <3>3. QED
      BY <3>1, <3>2, Constants
  <2>3. millis' \in Millis /\ IsAfter(millis, 1, millis')
    BY <1>9, LaterIsAfter, WrapIsNat DEF Tick, Later, ClocksTyped
  <2>4. ASSUME state # "RX_WAIT", quiet' < owed
        PROVE  IsAfter(millis', owed - quiet', gapUntil)
    <3>1. quiet < owed /\ quiet' = quiet + 1 /\ owed <= WriteGap
      BY <2>2, <2>4, Constants DEF ClocksTyped, GapInv
    <3>2. IsAfter(millis, owed - quiet, gapUntil)
      BY <2>4, <3>1 DEF GapInv
    <3>3. gapUntil \in Millis /\ millis \in Millis /\ quiet \in Nat /\ owed \in Nat
      BY DEF ClocksTyped
    <3>4. owed - quiet \in Nat /\ 0 < owed - quiet /\ 2 * (owed - quiet) < Wrap
      BY <3>1, <3>3, Constants
    <3>5. owed - quiet' = (owed - quiet) - 1
      BY <3>1, <3>3
    <3>6. IsAfter(millis', (owed - quiet) - 1, gapUntil)
      BY <2>3, <3>2, <3>3, <3>4, OneLessAhead
    <3>7. QED
      BY <3>5, <3>6
  <2>5. QED
    BY <2>1, <2>2, <2>3, <2>4 DEF ClocksTyped, GapInv
<1>10. CASE UNCHANGED vars
  BY <1>10 DEF vars, timers, busVars, ClocksTyped, GapInv
<1>11. QED
  BY <1>3, <1>4, <1>5, <1>6, <1>7, <1>8, <1>9, <1>10 DEF Next, Loop

(* Before the first command no gap is owed. *)
LEMMA ClocksStart == Init => ClocksTyped /\ GapInv
BY Constants DEF Init, ClocksTyped, GapInv, Millis

(* No command goes out before the gap the command before it asks for has       *)
(* passed, across batches and across the wrap of millis(), for any gaps and any *)
(* width (docs/protocol.md:75-80, modbus_executor.cpp:42,57-59).                *)
THEOREM GapsAreKept == Spec => GapHonoured
<1>1. ClocksTyped /\ GapInv /\ [Next]_vars
        => [state = "GAP" /\ state' = "RX_WAIT" => quiet >= owed]_vars
  <2> SUFFICES ASSUME ClocksTyped, GapInv, Next, state = "GAP", state' = "RX_WAIT"
               PROVE  quiet >= owed
    OBVIOUS
  <2>1. TransmitCurrent
    BY DEF Next, Start, TakeResult, Loop, HandleRx, NothingToDo, Arrive, Tick,
           ApplyUartSettings
  <2>2. NotBefore(gapUntil)
    BY <2>1 DEF TransmitCurrent
  <2>3. ~(quiet < owed)
    BY <2>2, GapLasts
  <2>4. QED
    BY <2>3 DEF ClocksTyped
<1>2. QED
  BY <1>1, ClocksStart, ClocksKept, PTL DEF Spec, GapHonoured

-----------------------------------------------------------------------------
(* The wire *)

AllCurrent(pieces) == \A i \in 1..Len(pieces) : pieces[i].current

(* The time until the last of at most two pieces is there. *)
Remaining(pieces) ==
  IF Len(pieces) = 2 THEN pieces[1].takes + pieces[2].takes ELSE pieces[1].takes

(* Whose replies are on the wire, and for how long.  While a line waits, only   *)
(* its own reply is; once its first piece is there, only a pause is left.  A     *)
(* reply that outlives its line is over before the next command goes out.       *)
WireInv ==
  /\ rx \in Seq(Piece) /\ fifo \in Seq(Piece) /\ inFlight \in Seq(Piece)
  /\ Len(inFlight) <= 2
  /\ state = "RX_WAIT" =>
       /\ AllCurrent(rx) /\ AllCurrent(fifo) /\ AllCurrent(inFlight)
       /\ Len(inFlight) > 0 =>
            Since(txDoneAt) + Remaining(inFlight) <= ReplyWithin + PauseWithin
       /\ Len(inFlight) = 2 =>
            rx = <<>> /\ fifo = <<>> /\ inFlight[2].takes <= PauseWithin
       /\ Len(inFlight) = 1 /\ (rx # <<>> \/ fifo # <<>>) =>
            inFlight[1].takes <= PauseWithin
  /\ state # "RX_WAIT" /\ Len(inFlight) > 0 => quiet + Remaining(inFlight) < owed

(* What is remaining is a number. *)
LEMMA RemainingIsNat ==
  ASSUME NEW pieces \in Seq(Piece), 0 < Len(pieces), Len(pieces) <= 2
  PROVE  Remaining(pieces) \in Nat /\ pieces[1].takes \in Nat /\ pieces[1].takes <= Remaining(pieces)
<1>1. Len(pieces) \in Nat /\ \A i \in 1..Len(pieces) : pieces[i] \in Piece
  BY LenProperties, ElementOfSeq
<1>2. \A i \in 1..Len(pieces) : pieces[i].takes \in Nat
  BY <1>1, Constants DEF Piece
<1>3. QED
  BY <1>1, <1>2 DEF Remaining

(* A reply has at most two pieces, its own, and both come in time. *)
LEMMA ReplyPieces ==
  ASSUME NEW kind, NEW reply \in Replies(kind)
  PROVE  /\ reply \in Seq(Piece) /\ Len(reply) <= 2 /\ AllCurrent(reply)
         /\ Len(reply) > 0 => Remaining(reply) <= ReplyWithin + PauseWithin
         /\ Len(reply) = 2 => reply[2].takes <= PauseWithin
<1> DEFINE P(form, part, intact, takes) ==
             [form |-> form, part |-> part, intact |-> intact, current |-> TRUE,
              takes |-> takes]
           ok == /\ reply \in Seq(Piece) /\ Len(reply) <= 2 /\ AllCurrent(reply)
                 /\ Len(reply) > 0 => Remaining(reply) <= ReplyWithin + PauseWithin
                 /\ Len(reply) = 2 => reply[2].takes <= PauseWithin
<1>1. \A f \in Forms, part \in {"head", "tail"}, i \in BOOLEAN,
         d \in 0..ReplyWithin + PauseWithin : P(f, part, i, d) \in Piece
  BY DEF Piece
<1>2. /\ \A d \in 0..ReplyWithin : d \in 0..ReplyWithin + PauseWithin
      /\ \A d \in 0..PauseWithin : d \in 0..ReplyWithin + PauseWithin
  BY Constants
<1>3. \/ reply = <<>>
      \/ \E d \in 0..ReplyWithin, f \in Forms : reply = <<P(f, "head", FALSE, d)>>
      \/ \E d \in 0..ReplyWithin, p \in 0..PauseWithin, f \in Forms, i \in BOOLEAN :
           reply = <<P(f, "head", i, d), P(f, "tail", i, p)>>
  BY DEF Replies, Forms
<1>4. CASE reply = <<>>
  BY <1>4, EmptySeq DEF AllCurrent
<1>5. CASE \E d \in 0..ReplyWithin, f \in Forms : reply = <<P(f, "head", FALSE, d)>>
  <2>1. PICK d \in 0..ReplyWithin, f \in Forms : reply = <<P(f, "head", FALSE, d)>>
    BY <1>5
  <2>2. P(f, "head", FALSE, d) \in Piece
    BY <1>1, <1>2
  <2>3. reply \in Seq(Piece) /\ Len(reply) = 1 /\ reply[1] = P(f, "head", FALSE, d)
    BY <2>1, <2>2
  <2>4. QED
    BY <2>3, Constants DEF AllCurrent, Remaining
<1>6. CASE \E d \in 0..ReplyWithin, p \in 0..PauseWithin, f \in Forms, i \in BOOLEAN :
             reply = <<P(f, "head", i, d), P(f, "tail", i, p)>>
  <2>1. PICK d \in 0..ReplyWithin, p \in 0..PauseWithin, f \in Forms, i \in BOOLEAN :
          reply = <<P(f, "head", i, d), P(f, "tail", i, p)>>
    BY <1>6
  <2>2. P(f, "head", i, d) \in Piece /\ P(f, "tail", i, p) \in Piece
    BY <1>1, <1>2
  <2>3. /\ reply \in Seq(Piece) /\ Len(reply) = 2
        /\ reply[1] = P(f, "head", i, d) /\ reply[2] = P(f, "tail", i, p)
    BY <2>1, <2>2
  <2>4. QED
    BY <2>3, Constants DEF AllCurrent, Remaining
<1>7. QED
  BY <1>3, <1>4, <1>5, <1>6

(* The wire when time passes, and when the UART is set up anew. *)
LEMMA PiecesTick ==
  ASSUME NEW s \in Seq(Piece), 0 < Len(s), Len(s) <= 2, Head(s).takes > 0
  PROVE  LET later == [i \in DOMAIN s |->
                         IF i = 1 THEN [s[i] EXCEPT !.takes = @ - 1] ELSE s[i]]
         IN /\ later \in Seq(Piece) /\ Len(later) = Len(s)
            /\ Remaining(later) = Remaining(s) - 1
            /\ AllCurrent(s) => AllCurrent(later)
            /\ later[1].takes <= s[1].takes
            /\ Len(s) = 2 => later[2] = s[2]
<1> DEFINE later == [i \in DOMAIN s |->
                       IF i = 1 THEN [s[i] EXCEPT !.takes = @ - 1] ELSE s[i]]
<1>1. /\ Len(s) \in Nat /\ DOMAIN s = 1..Len(s)
      /\ \A i \in 1..Len(s) : s[i] \in Piece
      /\ Head(s) = s[1]
  BY LenProperties, ElementOfSeq
<1>2. s[1].takes \in 0..ReplyWithin + PauseWithin /\ s[1].takes > 0
  BY <1>1 DEF Piece
<1>3. s[1].takes - 1 \in 0..ReplyWithin + PauseWithin
  BY <1>2, Constants
<1>4. later[1] = [s[1] EXCEPT !.takes = s[1].takes - 1] /\ \A i \in 2..Len(s) : later[i] = s[i]
  BY <1>1
<1>5. later[1] \in Piece /\ later[1].takes = s[1].takes - 1 /\ later[1].current = s[1].current
  BY <1>1, <1>3, <1>4 DEF Piece
<1>6. \A i \in 1..Len(s) : later[i] \in Piece
  BY <1>1, <1>4, <1>5
<1>7. later \in Seq(Piece) /\ Len(later) = Len(s)
  <2>1. later \in [1..Len(s) -> Piece]
    BY <1>1, <1>6
  <2>2. QED
    BY <1>1, <2>1, FunctionIsSeq
<1>8. AllCurrent(s) => AllCurrent(later)
  BY <1>1, <1>4, <1>5, <1>7 DEF AllCurrent
<1>9. Remaining(later) = Remaining(s) - 1
  <2>1. Len(s) = 2 => s[2].takes \in Nat /\ later[2] = s[2]
    BY <1>1, <1>4, Constants DEF Piece
  <2>2. /\ s[1].takes \in Nat /\ later[1].takes = s[1].takes - 1 /\ Len(later) = Len(s)
    BY <1>2, <1>5, <1>7, Constants
  <2> HIDE DEF later
  <2>3. CASE Len(s) = 2
    BY <2>1, <2>2, <2>3 DEF Remaining
  <2>4. CASE Len(s) # 2
    BY <2>2, <2>4 DEF Remaining
  <2>5. QED
    BY <2>3, <2>4
<1>10. QED
  BY <1>1, <1>2, <1>4, <1>5, <1>7, <1>8, <1>9, Constants

(* Pieces that another baud rate spoils are as many, as old and as late as before. *)
LEMMA PiecesSpoiled ==
  ASSUME NEW s \in Seq(Piece)
  PROVE  LET spoiled == [i \in DOMAIN s |-> [s[i] EXCEPT !.intact = FALSE]]
         IN /\ spoiled \in Seq(Piece) /\ Len(spoiled) = Len(s)
            /\ \A i \in 1..Len(s) : /\ spoiled[i].takes = s[i].takes
                                    /\ spoiled[i].current = s[i].current
<1> DEFINE spoiled == [i \in DOMAIN s |-> [s[i] EXCEPT !.intact = FALSE]]
<1>1. Len(s) \in Nat /\ DOMAIN s = 1..Len(s) /\ \A i \in 1..Len(s) : s[i] \in Piece
  BY LenProperties, ElementOfSeq
<1>2. \A i \in 1..Len(s) : /\ spoiled[i] \in Piece /\ spoiled[i].takes = s[i].takes
                            /\ spoiled[i].current = s[i].current
  BY <1>1 DEF Piece
<1>3. spoiled \in [1..Len(s) -> Piece]
  BY <1>1, <1>2
<1>4. QED
  BY <1>1, <1>2, <1>3, FunctionIsSeq

(* A moment that is not a wrap old gets one unit older. *)
LEMMA OneOlder ==
  ASSUME NEW m \in Millis, NEW n \in Millis, NEW t \in Millis, IsAfter(m, 1, n),
         ((m + Wrap - t) % Wrap) + 1 < Wrap
  PROVE  (n + Wrap - t) % Wrap = ((m + Wrap - t) % Wrap) + 1
<1>1. /\ (m + Wrap - t) % Wrap = IF t <= m THEN m - t ELSE m + Wrap - t
      /\ (n + Wrap - t) % Wrap = IF t <= n THEN n - t ELSE n + Wrap - t
  BY SinceIs
<1>2. QED
  BY <1>1, WrapIsNat DEF IsAfter, Millis

(* A line ends with less on the wire than the gap that follows, if anything. *)
LEMMA WireAtLineEnd ==
  ASSUME WireInv, ClocksTyped, GapInv, state = "RX_WAIT",
         \/ TRUE \in Complete(Received)
         \/ TimedOut
  PROVE  Len(inFlight) > 0 => Remaining(inFlight) < owed
<1> SUFFICES ASSUME Len(inFlight) > 0 PROVE Remaining(inFlight) < owed
  OBVIOUS
<1>1. /\ inFlight \in Seq(Piece) /\ Len(inFlight) \in Nat /\ Len(inFlight) <= 2
      /\ rx \in Seq(Piece) /\ fifo \in Seq(Piece) /\ owed \in Nat /\ owed >= ReadGap
      /\ Since(txDoneAt) + Remaining(inFlight) <= ReplyWithin + PauseWithin
      /\ Len(inFlight) = 2 => rx = <<>> /\ fifo = <<>>
      /\ Len(inFlight) = 1 /\ (rx # <<>> \/ fifo # <<>>) => inFlight[1].takes <= PauseWithin
  BY LenProperties DEF WireInv, ClocksTyped, GapInv
<1>2. Remaining(inFlight) \in Nat /\ inFlight[1].takes \in Nat
  BY <1>1, RemainingIsNat
<1>3. Since(txDoneAt) \in Nat
  <2>1. millis \in Millis /\ txDoneAt \in Millis
    BY DEF ClocksTyped
  <2>2. QED
    BY <2>1, SinceIs, WrapIsNat DEF Since, Millis
<1>4. CASE TimedOut
  BY <1>1, <1>2, <1>3, <1>4, Constants DEF TimedOut
<1>5. CASE TRUE \in Complete(Received)
  <2>1. Received # <<>>
    BY <1>5 DEF Complete
  <2>2. rx # <<>> \/ fifo # <<>>
    BY <1>1, <2>1, ConcatEmptySeq DEF Received
  <2>3. Len(inFlight) = 1
    <3>1. Len(inFlight) # 2
      BY <1>1, <2>2, Zenon
    <3>2. \A n \in Nat : n > 0 /\ n <= 2 /\ n # 2 => n = 1
      OBVIOUS
    <3>3. QED
      BY <1>1, <3>1, <3>2
  <2>4. QED
    BY <1>1, <1>2, <2>2, <2>3, Constants DEF Remaining
<1>6. QED
  BY <1>4, <1>5

(* A line that ends leaves the wire as it is to the state between the commands. *)
LEMMA WireBetweenLines ==
  ASSUME WireInv, ClocksTyped, GapInv, state' \in {"GAP", "DONE"}, quiet' \in {0, quiet},
         Len(inFlight) > 0 => quiet' + Remaining(inFlight) < owed,
         UNCHANGED <<inFlight, owed>>, rx' \in Seq(Piece), fifo' \in Seq(Piece)
  PROVE  WireInv'
BY DEF WireInv, Remaining

(* Every step keeps what is on the wire bounded by the timeout and the gap. *)
LEMMA WireKept ==
  WireInv /\ ClocksTyped /\ GapInv /\ [Next]_vars => WireInv'
<1> SUFFICES ASSUME WireInv, ClocksTyped, GapInv, [Next]_vars PROVE WireInv'
  OBVIOUS
<1>0. /\ rx \in Seq(Piece) /\ fifo \in Seq(Piece) /\ inFlight \in Seq(Piece)
      /\ Len(inFlight) \in Nat /\ Len(inFlight) <= 2 /\ <<>> \in Seq(Piece)
      /\ quiet \in Nat /\ owed \in Nat /\ owed <= WriteGap /\ owed <= MaxIdle
      /\ millis \in Millis /\ txDoneAt \in Millis
  BY LenProperties, EmptySeq, Constants DEF WireInv, ClocksTyped, GapInv
<1>1. CASE \E isEmergency \in BOOLEAN, vector \in Vectors : Start(isEmergency, vector)
  <2>1. PICK isEmergency \in BOOLEAN, vector \in Vectors : Start(isEmergency, vector)
    BY <1>1
  <2>2. /\ state = "IDLE" /\ UNCHANGED <<rx, fifo, inFlight, owed>>
        /\ StartNextLine(Fresh(vector), 1, FALSE)
    BY <2>1 DEF Start, busVars
  <2>3. state' \in {"GAP", "DONE"} /\ quiet' \in {0, quiet}
    BY <2>2, NextLineClocks
  <2>4. Len(inFlight) > 0 => Remaining(inFlight) \in Nat
    BY <1>0, RemainingIsNat
  <2>5. Len(inFlight) > 0 => quiet + Remaining(inFlight) < owed
    BY <2>2 DEF WireInv
  <2>6. Len(inFlight) > 0 => quiet' + Remaining(inFlight) < owed
    BY <1>0, <2>3, <2>4, <2>5
  <2>7. QED
    BY <1>0, <2>2, <2>3, <2>6, WireBetweenLines
<1>2. CASE TakeResult
  BY <1>2 DEF TakeResult, timers, busVars, WireInv
<1>3. CASE TransmitCurrent
  <2>1. /\ state = "GAP" /\ state' = "RX_WAIT" /\ NotBefore(gapUntil)
        /\ fifo' = <<>> /\ rx' = <<>> /\ txDoneAt' = millis /\ millis' = millis
    BY <1>3 DEF TransmitCurrent, DrainUart
  <2>2. quiet >= owed
    BY <1>0, <2>1, GapLasts
  <2>3. inFlight = <<>>
    <3>1. ~ (Len(inFlight) > 0)
      <4> SUFFICES ASSUME Len(inFlight) > 0 PROVE FALSE
        OBVIOUS
      <4>1. Remaining(inFlight) \in Nat /\ quiet + Remaining(inFlight) < owed
        BY <1>0, <2>1, RemainingIsNat DEF WireInv
      <4>2. QED
        BY <1>0, <2>2, <4>1
    <3>2. QED
      BY <1>0, <3>1, EmptySeq
  <2>4. PICK reply \in Replies(lines[lineIndex].kind) :
          inFlight' = [i \in DOMAIN inFlight |->
                         [inFlight[i] EXCEPT !.current = FALSE]] \o reply
    BY <1>3 DEF TransmitCurrent
  <2>5. /\ reply \in Seq(Piece) /\ Len(reply) <= 2 /\ AllCurrent(reply)
        /\ Len(reply) > 0 => Remaining(reply) <= ReplyWithin + PauseWithin
        /\ Len(reply) = 2 => reply[2].takes <= PauseWithin
    BY ReplyPieces
  <2>6. [i \in DOMAIN inFlight |-> [inFlight[i] EXCEPT !.current = FALSE]] = <<>>
    BY <2>3
  <2>7. inFlight' = reply
    BY <2>4, <2>5, <2>6, ConcatEmptySeq
  <2>8. Since(txDoneAt)' = 0
    BY <1>0, <2>1, SinceIs, WrapIsNat DEF Since, Millis
  <2>9. Len(reply) > 0 => Since(txDoneAt)' + Remaining(reply) <= ReplyWithin + PauseWithin
    BY <2>5, <2>8, RemainingIsNat
  <2>10. AllCurrent(<<>>)
    BY DEF AllCurrent
  <2>11. QED
    BY <1>0, <2>1, <2>5, <2>7, <2>9, <2>10 DEF WireInv
<1>4. CASE HandleRx
  <2>1. /\ state = "RX_WAIT" /\ fifo' = <<>> /\ UNCHANGED <<inFlight, txDoneAt, millis, owed>>
        /\ Received \in Seq(Piece)
    BY <1>0, <1>4, ConcatProperties DEF HandleRx, Received
  <2>2. CASE ReplyArrived \/ DamagedReply \/ NoReplyInTime
    <3>1. state' \in {"GAP", "DONE"} /\ quiet' = 0
      BY <2>2, NextLineClocks DEF ReplyArrived, DamagedReply, NoReplyInTime, FailLine,
                                  NextCommandAfter
    <3>2. rx' \in Seq(Piece)
      BY <1>0, <2>1, <2>2 DEF ReplyArrived, DamagedReply, NoReplyInTime
    <3>3. TRUE \in Complete(Received) \/ TimedOut
      BY <2>2 DEF ReplyArrived, DamagedReply, NoReplyInTime
    <3>4. Len(inFlight) > 0 => Remaining(inFlight) \in Nat /\ Remaining(inFlight) < owed
      BY <1>0, <2>1, <3>3, WireAtLineEnd, RemainingIsNat
    <3>5. Len(inFlight) > 0 => quiet' + Remaining(inFlight) < owed
      BY <1>0, <3>1, <3>4
    <3>6. QED
      BY <1>0, <2>1, <3>1, <3>2, <3>5, WireBetweenLines
  <2>3. CASE KeepReceiving
    <3>1. rx' = Received /\ state' = state /\ quiet' = quiet
      BY <2>3 DEF KeepReceiving
    <3>2. /\ AllCurrent(rx) /\ AllCurrent(fifo) /\ AllCurrent(inFlight)
      BY <2>1 DEF WireInv
    <3>3. AllCurrent(Received) /\ AllCurrent(<<>>)
      <4>1. /\ Len(Received) = Len(rx) + Len(fifo)
            /\ \A i \in 1..Len(Received) :
                 Received[i] = IF i <= Len(rx) THEN rx[i] ELSE fifo[i - Len(rx)]
        BY <1>0, ConcatProperties DEF Received
      <4>2. Len(rx) \in Nat /\ Len(fifo) \in Nat
        BY <1>0, LenProperties
      <4>3. QED
        BY <3>2, <4>1, <4>2 DEF AllCurrent
    <3>4. Received # <<>> => rx # <<>> \/ fifo # <<>>
      BY <1>0, ConcatEmptySeq DEF Received
    <3>5. rx = <<>> /\ fifo = <<>> => Received = <<>>
      BY <1>0, ConcatEmptySeq DEF Received
    <3>6. Since(txDoneAt)' = Since(txDoneAt)
      BY <2>1 DEF Since
    <3>7. QED
      BY <1>0, <2>1, <3>1, <3>2, <3>3, <3>4, <3>5, <3>6 DEF WireInv
  <2>4. QED
    BY <1>4, <2>2, <2>3 DEF HandleRx
<1>5. CASE NothingToDo
  BY <1>5 DEF NothingToDo, timers, WireInv
<1>6. CASE Arrive
  <2>1. /\ inFlight # <<>> /\ inFlight' = Tail(inFlight) /\ Head(inFlight).takes = 0
        /\ fifo' = Append(fifo, Head(inFlight))
        /\ UNCHANGED <<state, rx, txDoneAt, millis, quiet, owed>>
    BY <1>6 DEF Arrive, timers
  <2>2. /\ Head(inFlight) = inFlight[1] /\ Head(inFlight) \in Piece /\ Len(inFlight) > 0
        /\ Tail(inFlight) \in Seq(Piece) /\ Len(Tail(inFlight)) = Len(inFlight) - 1
        /\ \A i \in 1..Len(Tail(inFlight)) : Tail(inFlight)[i] = inFlight[i + 1]
    BY <1>0, <2>1, HeadTailProperties, EmptySeq
  <2>3. /\ fifo' \in Seq(Piece) /\ fifo' # <<>> /\ Len(fifo') = Len(fifo) + 1
        /\ \A i \in 1..Len(fifo) : fifo'[i] = fifo[i]
        /\ fifo'[Len(fifo) + 1] = inFlight[1]
    BY <1>0, <2>1, <2>2, AppendProperties
  <2>4. Len(inFlight) = 2 =>
          Remaining(inFlight') = Remaining(inFlight) /\ inFlight'[1] = inFlight[2]
    <3> SUFFICES ASSUME Len(inFlight) = 2
                 PROVE  Remaining(inFlight') = Remaining(inFlight) /\ inFlight'[1] = inFlight[2]
      OBVIOUS
    <3>1. inFlight[2] \in Piece /\ inFlight[2].takes \in Nat
      <4>1. 2 \in 1..Len(inFlight) /\ inFlight \in Seq(Piece)
        BY <1>0
      <4>2. inFlight[2] \in Piece
        BY <4>1, ElementOfSeq
      <4>3. QED
        BY <4>2, Constants DEF Piece
    <3>2. Len(inFlight') = 1 /\ inFlight'[1] = inFlight[2]
      BY <2>1, <2>2
    <3>3. Remaining(inFlight') = inFlight[2].takes
      BY <3>2 DEF Remaining
    <3>4. Remaining(inFlight) = inFlight[1].takes + inFlight[2].takes
      BY DEF Remaining
    <3>5. inFlight[1].takes = 0
      BY <2>1, <2>2
    <3>6. Remaining(inFlight') = Remaining(inFlight)
      BY <3>1, <3>3, <3>4, <3>5
    <3>7. QED
      BY <3>2, <3>6
  <2>5. Since(txDoneAt)' = Since(txDoneAt)
    BY <2>1 DEF Since
  <2>6. Len(inFlight') \in Nat /\ (Len(inFlight') > 0 => Len(inFlight) = 2 /\ Len(inFlight') = 1)
    BY <1>0, <2>1, <2>2
  <2>7. CASE state = "RX_WAIT"
    <3>1. AllCurrent(rx) /\ AllCurrent(fifo) /\ AllCurrent(inFlight)
      BY <2>7 DEF WireInv
    <3>2. AllCurrent(fifo') /\ AllCurrent(inFlight')
      <4>1. Len(fifo) \in Nat
        BY <1>0, LenProperties
      <4>2. QED
        BY <1>0, <2>1, <2>2, <2>3, <3>1, <4>1 DEF AllCurrent
    <3>3. QED
      BY <1>0, <2>1, <2>2, <2>3, <2>4, <2>5, <2>6, <2>7, <3>1, <3>2 DEF WireInv
  <2>8. CASE state # "RX_WAIT"
    <3>1. Len(inFlight') > 0 => quiet' + Remaining(inFlight') < owed'
      BY <2>1, <2>2, <2>4, <2>6, <2>8 DEF WireInv
    <3>2. inFlight' \in Seq(Piece) /\ Len(inFlight') <= 2
      BY <2>1, <2>2, <2>6
    <3>3. QED
      BY <1>0, <2>1, <2>3, <2>8, <3>1, <3>2 DEF WireInv
  <2>9. QED
    BY <2>7, <2>8
<1>7. CASE Tick
  <2>1. /\ UNCHANGED <<state, rx, fifo, txDoneAt, owed>> /\ millis' = Later(1)
        /\ quiet' = IF quiet < MaxIdle THEN quiet + 1 ELSE quiet
        /\ inFlight' = [i \in DOMAIN inFlight |->
                          IF i = 1 THEN [inFlight[i] EXCEPT !.takes = @ - 1] ELSE inFlight[i]]
    BY <1>7 DEF Tick, timers
  <2>2. CASE Len(inFlight) > 0
    <3>1. Head(inFlight).takes > 0
      BY <1>7, <2>2, EmptySeq DEF Tick
    <3>2. /\ inFlight' \in Seq(Piece) /\ Len(inFlight') = Len(inFlight)
          /\ Remaining(inFlight') = Remaining(inFlight) - 1
          /\ AllCurrent(inFlight) => AllCurrent(inFlight')
          /\ inFlight'[1].takes <= inFlight[1].takes
          /\ Len(inFlight) = 2 => inFlight'[2] = inFlight[2]
      BY <1>0, <2>1, <2>2, <3>1, PiecesTick
    <3>3. Remaining(inFlight) \in Nat /\ inFlight[1].takes \in Nat
      BY <1>0, <2>2, RemainingIsNat
    <3>4. inFlight'[1].takes \in Int
      <4>1. inFlight'[1] \in Piece
        BY <1>0, <2>2, <3>2, ElementOfSeq
      <4>2. QED
        BY <4>1 DEF Piece
    <3>5. CASE state = "RX_WAIT"
      <4>1. Since(txDoneAt) \in Nat /\ Since(txDoneAt) + Remaining(inFlight) <= ReplyWithin + PauseWithin
        <5>1. Since(txDoneAt) \in Nat
          BY <1>0, SinceIs, WrapIsNat DEF Since, Millis
        <5>2. QED
          BY <2>2, <3>5, <5>1 DEF WireInv
      <4>2. Remaining(inFlight) > 0
        BY <1>0, <2>2, <3>1, <3>2, <3>3, RemainingIsNat
      <4>3. Since(txDoneAt) + 1 < Wrap
        BY <3>3, <4>1, <4>2, Constants
      <4>4. Since(txDoneAt)' = Since(txDoneAt) + 1
        <5>1. millis' \in Millis /\ IsAfter(millis, 1, millis')
          BY <1>0, <2>1, LaterIsAfter, WrapIsNat DEF Later
        <5>2. QED
          BY <1>0, <2>1, <4>3, <5>1, OneOlder DEF Since
      <4>5. Since(txDoneAt)' + Remaining(inFlight') <= ReplyWithin + PauseWithin
        BY <3>2, <3>3, <4>1, <4>4, Constants
      <4>6. /\ Len(inFlight) = 2 => inFlight'[2].takes <= PauseWithin
            /\ Len(inFlight) = 1 /\ (rx # <<>> \/ fifo # <<>>) =>
                 inFlight'[1].takes <= PauseWithin
        BY <1>0, <3>2, <3>3, <3>4, <3>5, Constants DEF WireInv
      <4>7. QED
        BY <1>0, <2>1, <3>2, <3>5, <4>5, <4>6 DEF WireInv
    <3>6. CASE state # "RX_WAIT"
      <4>1. quiet + Remaining(inFlight) < owed
        BY <2>2, <3>6 DEF WireInv
      <4>2. quiet' = quiet + 1
        <5>1. quiet < MaxIdle
          BY <1>0, <3>3, <4>1, Constants
        <5>2. QED
          BY <2>1, <5>1
      <4>3. quiet' + Remaining(inFlight') < owed
        BY <1>0, <3>2, <3>3, <4>1, <4>2
      <4>4. QED
        BY <1>0, <2>1, <3>2, <3>6, <4>3 DEF WireInv
    <3>7. QED
      BY <3>5, <3>6
  <2>3. CASE ~ (Len(inFlight) > 0)
    <3>1. inFlight = <<>>
      BY <1>0, <2>3, EmptySeq
    <3>2. inFlight' = <<>>
      BY <2>1, <3>1
    <3>3. QED
      BY <1>0, <2>1, <3>1, <3>2 DEF WireInv
  <2>4. QED
    BY <2>2, <2>3
<1>8. CASE ApplyUartSettings
  <2>1. fifo' = <<>> /\ UNCHANGED <<state, rx, txDoneAt, millis, quiet, owed>>
    BY <1>8 DEF ApplyUartSettings, timers
  <2>2. /\ inFlight' \in Seq(Piece) /\ Len(inFlight') = Len(inFlight)
        /\ \A i \in 1..Len(inFlight) : /\ inFlight'[i].takes = inFlight[i].takes
                                       /\ inFlight'[i].current = inFlight[i].current
    <3>1. CASE UNCHANGED inFlight
      BY <1>0, <3>1
    <3>2. CASE inFlight' = [i \in DOMAIN inFlight |-> [inFlight[i] EXCEPT !.intact = FALSE]]
      BY <1>0, <3>2, PiecesSpoiled
    <3>3. QED
      BY <1>8, <3>1, <3>2 DEF ApplyUartSettings
  <2>3. Len(inFlight) > 0 => Remaining(inFlight') = Remaining(inFlight)
    BY <1>0, <2>2 DEF Remaining
  <2>4. /\ AllCurrent(inFlight) => AllCurrent(inFlight')
        /\ AllCurrent(<<>>)
    BY <2>2 DEF AllCurrent
  <2>5. Since(txDoneAt)' = Since(txDoneAt)
    BY <2>1 DEF Since
  <2>6. QED
    BY <1>0, <2>1, <2>2, <2>3, <2>4, <2>5 DEF WireInv
<1>9. CASE UNCHANGED vars
  BY <1>9 DEF vars, timers, busVars, WireInv, Since
<1>10. QED
  BY <1>1, <1>2, <1>3, <1>4, <1>5, <1>6, <1>7, <1>8, <1>9 DEF Next, Loop

(* What the wire and the clocks guarantee, together. *)
ExecutorInv == ClocksTyped /\ GapInv /\ LinesInv /\ WireInv

(* All of it holds at first ... *)
LEMMA ExecutorStarts == Init => ExecutorInv
<1> SUFFICES ASSUME Init PROVE ExecutorInv
  OBVIOUS
<1>1. ClocksTyped /\ GapInv
  BY ClocksStart
<1>2. LinesInv
  BY EmptySeq DEF Init, LinesInv, Busy, RepliesThenNothing
<1>3. WireInv
  BY EmptySeq DEF Init, WireInv
<1>4. QED
  BY <1>1, <1>2, <1>3 DEF ExecutorInv

(* ... and is kept by every step. *)
LEMMA ExecutorKept == ExecutorInv /\ [Next]_vars => ExecutorInv'
BY ClocksKept, LinesKept, WireKept DEF ExecutorInv

(* A line is answered by the reply to its own command, never by a reply to an   *)
(* earlier one that outlives that one's timeout, for any timing within the      *)
(* assumption (modbus_executor.cpp:95-99).                                      *)
THEOREM RepliesAreOwn == Spec => ReplyIsToThisCommand
<1>1. ExecutorInv /\ [Next]_vars
        => [state = "RX_WAIT" /\ lines' # lines /\ lines'[lineIndex].modbus = "reply" =>
              \A i \in {1, 2} : Received[i].current]_vars
  <2> SUFFICES ASSUME ExecutorInv, Next, state = "RX_WAIT", lines' # lines,
                      lines'[lineIndex].modbus = "reply"
               PROVE  \A i \in {1, 2} : Received[i].current
    OBVIOUS
  <2>1. HandleRx
    BY DEF Next, Start, TakeResult, Loop, TransmitCurrent, NothingToDo, Arrive, Tick,
           ApplyUartSettings, headerVars
  <2>2. ~ (DamagedReply \/ NoReplyInTime)
    <3> SUFFICES ASSUME DamagedReply \/ NoReplyInTime PROVE FALSE
      OBVIOUS
    <3>1. lines' = ClearedFrom(lines, lineIndex)
      BY DEF DamagedReply, NoReplyInTime, FailLine
    <3>2. lines \in Seq(Line) /\ lineIndex \in 1..Len(lines) /\ lineIndex \in Nat
      BY DEF ExecutorInv, LinesInv, InProgress, Busy
    <3>3. lines'[lineIndex].modbus = "cleared"
      BY <3>1, <3>2, ClearedFromKeeps
    <3>4. QED
      BY <3>3
  <2>3. ReplyArrived
    BY <2>1, <2>2 DEF HandleRx, KeepReceiving
  <2>4. Len(Received) >= 2
    BY <2>3 DEF ReplyArrived, Intact
  <2>5. rx \in Seq(Piece) /\ fifo \in Seq(Piece) /\ AllCurrent(rx) /\ AllCurrent(fifo)
    BY DEF ExecutorInv, WireInv
  <2>6. /\ Len(Received) = Len(rx) + Len(fifo)
        /\ \A i \in 1..Len(Received) :
             Received[i] = IF i <= Len(rx) THEN rx[i] ELSE fifo[i - Len(rx)]
        /\ Len(rx) \in Nat /\ Len(fifo) \in Nat
    BY <2>5, ConcatProperties, LenProperties DEF Received
  <2>7. \A i \in 1..Len(Received) : Received[i].current
    BY <2>5, <2>6 DEF AllCurrent
  <2>8. QED
    BY <2>4, <2>6, <2>7
<1>2. QED
  BY <1>1, ExecutorStarts, ExecutorKept, PTL DEF Spec, ReplyIsToThisCommand

EmergencyTyped == emergency \in BOOLEAN

(* The state of the executor and the wire is what TypeOK describes. *)
THEOREM ExecutorTyped == Spec => []TypeOK
<1>1. ExecutorInv /\ EmergencyTyped => TypeOK
  BY DEF ExecutorInv, ClocksTyped, LinesInv, WireInv, TypeOK, EmergencyTyped
<1>2. Init => EmergencyTyped
  BY DEF Init, EmergencyTyped
<1>3. EmergencyTyped /\ [Next]_vars => EmergencyTyped'
  BY DEF EmergencyTyped, Next, Start, TakeResult, Loop, TransmitCurrent, HandleRx, NothingToDo, Arrive, Tick,
         ApplyUartSettings, headerVars, vars
<1>4. QED
  BY <1>1, <1>2, <1>3, ExecutorStarts, ExecutorKept, PTL DEF Spec

-----------------------------------------------------------------------------
(* No parking *)

(* At the moment m, the moment g is w units after one that is e units back. *)
BackBy(m, w, e, g) == g + e \in {m + w, m + w + Wrap, m + w - Wrap}

(* One unit on, it is one unit further back. *)
LEMMA OneFurtherBack ==
  ASSUME NEW m \in Millis, NEW n \in Millis, NEW g \in Millis, NEW w \in Nat,
         NEW e \in Nat, e < Wrap, IsAfter(m, 1, n), BackBy(m, w, e, g)
  PROVE  BackBy(n, w, e + 1, g)
BY WrapIsNat DEF BackBy, IsAfter, Millis

(* A line that ends now ended 0 units ago. *)
LEMMA JustNow ==
  ASSUME NEW m \in Millis, NEW g \in Millis, NEW w \in Nat, IsAfter(m, w, g)
  PROVE  BackBy(m, w, 0, g)
BY WrapIsNat DEF BackBy, IsAfter, Millis

(* Half a wrap has not passed since, so the signed difference tells. *)
LEMMA BackByTells ==
  ASSUME NEW m \in Millis, NEW g \in Millis, NEW w \in Nat, 2 * w < Wrap,
         NEW e \in Nat, 2 * e < Wrap, BackBy(m, w, e, g)
  PROVE  2 * ((m + Wrap - g) % Wrap) < Wrap <=> w <= e
<1>1. (m + Wrap - g) % Wrap = IF g <= m THEN m - g ELSE m + Wrap - g
  BY SinceIs
<1>2. CASE w <= e
  <2>1. (m + Wrap - g) % Wrap = e - w
    BY <1>1, <1>2, WrapIsNat DEF BackBy, Millis
  <2>2. QED
    BY <1>2, <2>1, WrapIsNat
<1>3. CASE e < w
  <2>1. (m + Wrap - g) % Wrap = Wrap - (w - e)
    BY <1>1, <1>3, WrapIsNat DEF BackBy, Millis
  <2>2. QED
    BY <1>3, <2>1, WrapIsNat
<1>4. QED
  BY <1>2, <1>3

(* How long ago the last line ended: what quiet says, or, once that is at its   *)
(* bound in the gap of a batch, up to the time loop() has been away for longer. *)
Elapsed(e) ==
  /\ \/ e = quiet
     \/ state = "GAP" /\ quiet = MaxIdle /\ MaxIdle <= e /\ e <= MaxIdle + sinceLoop
  /\ BackBy(millis, owed, e, gapUntil)

NotParked == state # "RX_WAIT" => \E e \in Nat : Elapsed(e)

ParkInv == ClocksTyped /\ GapInv /\ NotParked

(* The elapsed time and the gap are both shorter than half a wrap. *)
LEMMA ElapsedShort ==
  ASSUME 2 * (MaxIdle + LoopWithin) < Wrap, ClocksTyped, GapInv, NEW e \in Nat, Elapsed(e)
  PROVE  2 * e < Wrap /\ 2 * owed < Wrap /\ e < Wrap
<1>1. e <= MaxIdle + LoopWithin
  BY Constants DEF Elapsed, ClocksTyped
<1>2. owed \in Nat /\ owed <= WriteGap
  BY DEF ClocksTyped, GapInv
<1>3. QED
  BY <1>1, <1>2, Constants

(* Whether the gap is over is whether as much time has passed as it asks for. *)
LEMMA GapEnds ==
  ASSUME 2 * (MaxIdle + LoopWithin) < Wrap, ClocksTyped, GapInv, NEW e \in Nat, Elapsed(e)
  PROVE  NotBefore(gapUntil) <=> owed <= e
<1>1. gapUntil \in Millis /\ millis \in Millis /\ owed \in Nat
  BY DEF ClocksTyped
<1>2. 2 * e < Wrap /\ 2 * owed < Wrap
  BY ElapsedShort
<1>3. BackBy(millis, owed, e, gapUntil)
  BY DEF Elapsed
<1>4. QED
  BY <1>1, <1>2, <1>3, BackByTells DEF NotBefore, Since

(* The bus is used again, and loop() is called again, within half a wrap of the *)
(* end of a line: then every step keeps ParkInv.                                *)
LEMMA ParkKept ==
  ASSUME 2 * (MaxIdle + LoopWithin) < Wrap
  PROVE  ParkInv /\ [Next]_vars => ParkInv'
<1> SUFFICES ASSUME ParkInv, [Next]_vars PROVE NotParked'
  BY ClocksKept DEF ParkInv
<1>1. ClocksTyped /\ GapInv /\ NotParked
  BY DEF ParkInv
<1>2. ASSUME gapUntil' = Later(nextGap), quiet' = 0, UNCHANGED <<millis, owed>>
      PROVE  NotParked'
  <2>1. nextGap \in Nat /\ nextGap < Wrap /\ nextGap = owed /\ millis \in Millis
    BY <1>1, Constants DEF ClocksTyped, GapInv
  <2>2. gapUntil' \in Millis /\ IsAfter(millis, owed, gapUntil')
    BY <1>2, <2>1, LaterIsAfter DEF Later
  <2>3. BackBy(millis, owed, 0, gapUntil')
    BY <2>1, <2>2, JustNow
  <2>4. QED
    BY <1>2, <2>3 DEF NotParked, Elapsed
<1>3. ASSUME state # "RX_WAIT", state' = state \/ (state = "IDLE" /\ state' \in {"GAP", "DONE"})
                                \/ (state = "DONE" /\ state' = "IDLE"),
             UNCHANGED <<gapUntil, quiet, millis, owed, sinceLoop>>
      PROVE  NotParked'
  BY <1>1, <1>3 DEF NotParked, Elapsed
<1>4. CASE \E isEmergency \in BOOLEAN, vector \in Vectors : Start(isEmergency, vector)
  <2>1. PICK isEmergency \in BOOLEAN, vector \in Vectors : Start(isEmergency, vector)
    BY <1>4
  <2>2. /\ state = "IDLE" /\ UNCHANGED <<millis, owed, sinceLoop>>
        /\ StartNextLine(Fresh(vector), 1, FALSE)
    BY <2>1 DEF Start, busVars
  <2>3. state' \in {"GAP", "DONE"}
    BY <2>2, NextLineClocks
  <2>4. (gapUntil' = Later(nextGap) /\ quiet' = 0) \/ UNCHANGED <<gapUntil, quiet>>
    BY <2>2, NextLineClocks
  <2>5. QED
    BY <1>2, <1>3, <2>2, <2>3, <2>4
<1>5. CASE TakeResult
  BY <1>3, <1>5 DEF TakeResult, timers, busVars
<1>6. CASE TransmitCurrent
  BY <1>6 DEF TransmitCurrent, NotParked
<1>7. CASE HandleRx
  <2>1. CASE ReplyArrived
    <3>1. gapUntil' = Later(nextGap) /\ quiet' = 0
      BY <2>1 DEF ReplyArrived, StartNextLine, FailLine, NextCommandAfter
    <3>2. QED
      BY <1>2, <1>7, <3>1 DEF HandleRx
  <2>2. CASE DamagedReply \/ NoReplyInTime
    <3>1. gapUntil' = Later(nextGap) /\ quiet' = 0
      BY <2>2 DEF DamagedReply, NoReplyInTime, FailLine, NextCommandAfter
    <3>2. QED
      BY <1>2, <1>7, <3>1 DEF HandleRx
  <2>3. CASE KeepReceiving
    BY <1>7, <2>3 DEF HandleRx, KeepReceiving, NotParked
  <2>4. QED
    BY <1>7, <2>1, <2>2, <2>3 DEF HandleRx
<1>8. CASE NothingToDo /\ sinceLoop' = 0
  <2>1. UNCHANGED <<state, gapUntil, quiet, millis, owed>>
    BY <1>8 DEF NothingToDo, timers
  <2>2. state # "RX_WAIT"
    BY <1>8 DEF NothingToDo
  <2>3. PICK e \in Nat : Elapsed(e)
    BY <1>1, <2>2 DEF NotParked
  <2>4. e = quiet
    <3>1. CASE state = "GAP"
      <4>1. e < owed
        BY <1>1, <1>8, <2>3, <3>1, GapEnds DEF NothingToDo, ClocksTyped
      <4>2. owed <= MaxIdle /\ owed \in Nat
        BY <1>1, Constants DEF ClocksTyped, GapInv
      <4>3. QED
        BY <2>3, <4>1, <4>2, Constants DEF Elapsed
    <3>2. QED
      BY <2>3, <3>1 DEF Elapsed
  <2>5. QED
    BY <2>1, <2>3, <2>4 DEF NotParked, Elapsed
<1>9. CASE Arrive \/ ApplyUartSettings
  BY <1>1, <1>9 DEF Arrive, ApplyUartSettings, timers, NotParked, Elapsed
<1>10. CASE Tick
  <2> SUFFICES ASSUME state # "RX_WAIT" PROVE \E e \in Nat : Elapsed(e)'
    BY <1>10 DEF Tick, NotParked
  <2>1. UNCHANGED <<state, gapUntil, owed>>
    BY <1>10 DEF Tick, timers
  <2>2. PICK e \in Nat : Elapsed(e)
    BY <1>1 DEF NotParked
  <2>3. e < Wrap
    BY <1>1, <2>2, ElapsedShort
  <2>4. millis \in Millis /\ gapUntil \in Millis /\ owed \in Nat /\ quiet \in 0..MaxIdle
        /\ sinceLoop \in 0..LoopWithin
    BY <1>1 DEF ClocksTyped
  <2>5. millis' \in Millis /\ IsAfter(millis, 1, millis')
    BY <1>10, <2>4, LaterIsAfter, WrapIsNat DEF Tick, Later
  <2>6. BackBy(millis', owed, e + 1, gapUntil)
    BY <2>2, <2>3, <2>4, <2>5, OneFurtherBack DEF Elapsed
  <2>7. /\ sinceLoop' = sinceLoop + 1
        /\ quiet' = IF quiet < MaxIdle THEN quiet + 1 ELSE quiet
        /\ state # "GAP" => quiet < MaxIdle
    BY <1>10 DEF Tick, Busy
  <2>8. \/ e + 1 = quiet'
        \/ state = "GAP" /\ quiet' = MaxIdle /\ MaxIdle <= e + 1
           /\ e + 1 <= MaxIdle + sinceLoop'
    <3>1. CASE quiet < MaxIdle
      BY <2>2, <2>4, <2>7, <3>1, Constants DEF Elapsed
    <3>2. CASE quiet = MaxIdle
      <4>1. MaxIdle <= e /\ e <= MaxIdle + sinceLoop
        BY <2>2, <2>4, <3>2, Constants DEF Elapsed
      <4>2. quiet' = MaxIdle /\ state = "GAP"
        BY <2>7, <3>2, Constants
      <4>3. MaxIdle <= e + 1 /\ e + 1 <= MaxIdle + (sinceLoop + 1)
        BY <2>4, <4>1, Constants
      <4>4. QED
        BY <2>7, <4>2, <4>3
    <3>3. QED
      BY <2>4, <3>1, <3>2, Constants
  <2>9. Elapsed(e + 1)'
    BY <2>1, <2>6, <2>8 DEF Elapsed
  <2>10. QED
    BY <2>9
<1>11. CASE UNCHANGED vars
  BY <1>1, <1>11 DEF vars, timers, busVars, NotParked, Elapsed
<1>12. QED
  BY <1>4, <1>5, <1>6, <1>7, <1>8, <1>9, <1>10, <1>11 DEF Next, Loop

(* Once the gap has passed the next command goes out: no batch waits for millis() *)
(* to wrap, if the bus is used and loop() is called again within half a wrap.     *)
(* Beyond it the comparison of modbus_executor.cpp:57-59 does park, as the run    *)
(* executor_idle shows.                                                           *)
THEOREM NoGapIsEndless ==
  ASSUME 2 * (MaxIdle + LoopWithin) < Wrap
  PROVE  Spec => []NeverParked
<1>1. Init => ParkInv
  <2> SUFFICES ASSUME Init PROVE NotParked
    BY ClocksStart DEF ParkInv
  <2>1. BackBy(millis, owed, 0, gapUntil) /\ quiet = 0
    BY DEF Init, BackBy
  <2>2. QED
    BY <2>1 DEF NotParked, Elapsed
<1>2. ParkInv => NeverParked
  <2> SUFFICES ASSUME ParkInv, state = "GAP", quiet >= owed PROVE NotBefore(gapUntil)
    BY DEF NeverParked
  <2>1. PICK e \in Nat : Elapsed(e)
    BY DEF ParkInv, NotParked
  <2>2. owed <= e
    BY <2>1, Constants DEF Elapsed, ParkInv, ClocksTyped
  <2>3. QED
    BY <2>1, <2>2, GapEnds DEF ParkInv
<1>3. ParkInv /\ [Next]_vars => ParkInv'
  BY ParkKept
<1>4. QED
  BY <1>1, <1>2, <1>3, PTL DEF Spec
=============================================================================
