--------------------------- MODULE ModbusExecutor ---------------------------
(***************************************************************************)
(* ModbusExecutor (components/gbb_dongle/modbus_executor.cpp): the lines of *)
(* one request go over RS485 one frame at a time, with a gap between two     *)
(* commands, a response timeout, and millis() wrapping round.               *)
(*                                                                          *)
(* A line is the kind of its payload; a reply is the pieces the UART hands   *)
(* over between two runs of loop(): the "head" that decides the framing, the *)
(* "tail" that completes it, or "noise" too short to be framed at all.       *)
(***************************************************************************)
EXTENDS Naturals, Sequences, FiniteSets

CONSTANTS
  Vectors,          \* the line vectors that arrive, sequences over LineKinds
  Wrap,             \* millis() counts modulo Wrap
  ResponseTimeout,  \* response_timeout_ms_
  ReadGap,          \* read_gap_ms_
  WriteGap,         \* write_gap_ms_
  SilenceGap,       \* silence_gap_ms_()
  ReplyWithin,      \* an inverter starts its reply after at most so long ...
  PauseWithin,      \* ... and does not pause longer within it
  LoopWithin,       \* loop() runs at least once in so long
  MaxIdle           \* bound: the bus is used again after at most so long

LineKinds == {"none",       \* no Modbus payload
              "invalid",    \* a payload that is no frame
              "read",       \* function 1..4
              "write",      \* function 5, 6, 15, 16: the reply has 8 bytes
              "readwrite",  \* function 23 (or 0): a read, its reply's length not known
              "other"}      \* any other: a write, its reply's length not known

ASSUME ExecutorAssumption ==
  /\ Vectors \subseteq Seq(LineKinds)
  /\ \A n \in {Wrap, ResponseTimeout, ReadGap, WriteGap, SilenceGap,
               ReplyWithin, PauseWithin, LoopWithin, MaxIdle} : n \in Nat
  /\ ReadGap <= WriteGap /\ 2 * (ResponseTimeout + WriteGap) < Wrap
  /\ PauseWithin < ReadGap /\ WriteGap <= MaxIdle
  /\ ReplyWithin + PauseWithin < ResponseTimeout + ReadGap

VARIABLES
  state,          \* state_; TRANSMIT is never at rest
  emergency,      \* header_.emergency
  lines,          \* header_.lines: what was asked, and what modbus holds now
  lineIndex,      \* line_index_, from 1
  rx,             \* rx_frame_
  gapUntil,       \* gap_until_
  txDoneAt,       \* tx_done_at_
  lastRxByteAt,   \* last_rx_byte_at_
  nextGap,        \* next_gap_ms_
  millis          \* millis()

VARIABLES         \* the bus
  fifo,           \* received by the UART, not read yet
  inFlight,       \* the rest of the replies, each piece with the time it takes
  sinceLoop       \* time since loop() last ran

VARIABLES         \* history, read by properties only
  quiet,          \* time since a line last ended, up to MaxIdle
  owed            \* the gap the last transmitted command asks for

headerVars == <<emergency, lines>>
timers == <<gapUntil, txDoneAt, lastRxByteAt, nextGap>>
busVars == <<fifo, inFlight, sinceLoop>>
vars == <<state, headerVars, lineIndex, rx, timers, millis, busVars, quiet, owed>>

Line == [kind : LineKinds, modbus : {"request", "reply", "cleared"}]
Forms == {"framed", "silent", "noise"}
Piece == [form : Forms, part : {"head", "tail"}, intact : BOOLEAN,
          current : BOOLEAN, takes : 0..(ReplyWithin + PauseWithin)]
Millis == 0..(Wrap - 1)

TypeOK ==
  /\ state \in {"IDLE", "GAP", "RX_WAIT", "DONE"}
  /\ emergency \in BOOLEAN
  /\ lines \in Seq(Line)
  /\ lineIndex \in Nat
  /\ rx \in Seq(Piece) /\ fifo \in Seq(Piece) /\ inFlight \in Seq(Piece)
  /\ {gapUntil, txDoneAt, lastRxByteAt, millis} \subseteq Millis
  /\ nextGap \in Nat /\ owed \in Nat
  /\ sinceLoop \in 0..LoopWithin
  /\ quiet \in 0..MaxIdle

Init ==
  /\ state = "IDLE"
  /\ emergency = FALSE /\ lines = <<>> /\ lineIndex = 1
  /\ rx = <<>> /\ fifo = <<>> /\ inFlight = <<>>
  /\ gapUntil = 0 /\ txDoneAt = 0 /\ lastRxByteAt = 0 /\ nextGap = 0
  /\ millis = 0
  /\ sinceLoop = 0 /\ quiet = 0 /\ owed = 0

Busy == state \in {"GAP", "RX_WAIT"}
Later(d) == (millis + d) % Wrap
Since(t) == (millis + Wrap - t) % Wrap          \* unsigned difference

(* Mutant of NotBefore: the absolute values are compared. *)
NotBeforeAbsolute(t) == millis >= t

NotBefore(t) == 2 * Since(t) < Wrap             \* (int32_t) difference >= 0

-----------------------------------------------------------------------------
(* Ending a line *)

(* Mutant of Payload: lines without a payload are not skipped.                 *)
PayloadOrNot(ls, i) == i

(* start_next_line_ over the lines `ls` from `i` on: the first line with a     *)
(* payload, or one past the last.                                              *)
Payload(ls, i) ==
  LET rest == {j \in i..Len(ls) : ls[j].kind # "none"}
  IN IF rest = {} THEN Len(ls) + 1 ELSE CHOOSE j \in rest : \A m \in rest : j <= m

(* Mutant of ClearedFrom: only the failing line loses its Modbus.              *)
ClearedAt(ls, i) ==
  [j \in DOMAIN ls |-> IF j = i THEN [ls[j] EXCEPT !.modbus = "cleared"] ELSE ls[j]]

(* fail_line_ at line i: that line and the later ones lose their Modbus.       *)
ClearedFrom(ls, i) ==
  [j \in DOMAIN ls |-> IF j >= i THEN [ls[j] EXCEPT !.modbus = "cleared"] ELSE ls[j]]

NextCommandAfter(gap) == gapUntil' = Later(gap) /\ quiet' = 0

FailLine(ls, i) ==
  /\ lines' = ClearedFrom(ls, i)
  /\ lineIndex' = i
  /\ state' = "DONE"
  /\ NextCommandAfter(nextGap)

(* Goes on to the first payload of `ls` at or after `i`; `afterReply` tells    *)
(* finish_line_ok_, which has just set the gap, from start, which has not.     *)
StartNextLine(ls, i, afterReply) ==
  LET next == Payload(ls, i)
  IN IF next <= Len(ls) /\ ls[next].kind = "invalid"
     THEN FailLine(ls, next)
     ELSE /\ lines' = ls
          /\ lineIndex' = next
          /\ state' = IF next > Len(ls) THEN "DONE" ELSE "GAP"
          /\ IF afterReply THEN NextCommandAfter(nextGap)
             ELSE UNCHANGED <<gapUntil, quiet>>

-----------------------------------------------------------------------------
(* Operations *)

Fresh(vector) == [i \in DOMAIN vector |-> [kind |-> vector[i],
    modbus |-> IF vector[i] = "none" THEN "cleared" ELSE "request"]]

(* start(), which GbbDongle::loop calls while the executor is not busy and its *)
(* last result has been taken.                                                 *)
Start(isEmergency, vector) ==
  /\ state = "IDLE"
  /\ emergency' = isEmergency
  /\ StartNextLine(Fresh(vector), 1, FALSE)
  /\ UNCHANGED <<rx, txDoneAt, lastRxByteAt, nextGap, millis, busVars, owed>>

TakeResult ==
  /\ state = "DONE"
  /\ state' = "IDLE"
  /\ UNCHANGED <<headerVars, lineIndex, rx, timers, millis, busVars, quiet, owed>>

Gap(kind) == IF kind \in {"write", "other"} THEN WriteGap ELSE ReadGap

(* The pieces of the reply an inverter may give: none, all of it (intact or    *)
(* damaged, maybe an exception), its beginning only, or a few stray bytes.     *)
Replies(kind) ==
  LET P(form, part, intact, takes) ==
        [form |-> form, part |-> part, intact |-> intact, current |-> TRUE,
         takes |-> takes]
      forms == {"framed"}
               \cup (IF kind \in {"readwrite", "other"} THEN {"silent"} ELSE {})
      delays == 0..ReplyWithin
  IN {<<>>}
     \cup {<<P("noise", "head", FALSE, d)>> : d \in delays}
     \cup {<<P(f, "head", FALSE, d)>> : f \in forms, d \in delays}
     \cup {<<P(f, "head", ok, d), P(f, "tail", ok, p)>> :
             f \in forms, ok \in BOOLEAN, d \in delays, p \in 0..PauseWithin}

(* Mutant of DrainUart: what the UART holds is kept. *)
KeepUart == fifo

DrainUart == <<>>

(* transmit_current_, from GAP: what the UART still holds is thrown away.      *)
TransmitCurrent ==
  /\ state = "GAP"
  /\ NotBefore(gapUntil)
  /\ LET kind == lines[lineIndex].kind
     IN /\ nextGap' = Gap(kind)
        /\ owed' = Gap(kind)
        /\ \E reply \in Replies(kind) :
             inFlight' = [i \in DOMAIN inFlight |->
                            [inFlight[i] EXCEPT !.current = FALSE]] \o reply
  /\ fifo' = DrainUart
  /\ rx' = <<>>
  /\ txDoneAt' = millis
  /\ lastRxByteAt' = millis
  /\ state' = "RX_WAIT"
  /\ UNCHANGED <<headerVars, lineIndex, gapUntil, millis, quiet>>

(* What handle_rx_ has after reading all the UART holds.                       *)
Received == rx \o fifo
LastByteAt == IF fifo = <<>> THEN lastRxByteAt ELSE millis

(* Whether the frame is complete: by its length, or by silence.  Bytes that    *)
(* do not begin with a header are framed any way they happen to read.          *)
Complete(frame) ==
  CASE frame = <<>> -> {FALSE}
    [] frame # <<>> /\ frame[1].form = "noise" ->
         IF Len(frame) = 1 THEN {FALSE} ELSE BOOLEAN
    [] frame # <<>> /\ frame[1].form # "noise" /\ frame[1].part = "tail" -> BOOLEAN
    [] frame # <<>> /\ frame[1].part = "head" /\ frame[1].form = "framed" ->
         {Len(frame) >= 2}
    [] frame # <<>> /\ frame[1].part = "head" /\ frame[1].form = "silent" ->
         {Since(LastByteAt) >= SilenceGap}

(* finish_line_ok_: long enough, and the checksum is right.  A frame cut by its *)
(* length is what its first two pieces say.                                     *)
Intact(frame) ==
  /\ Len(frame) >= 2
  /\ frame[1].part = "head" /\ frame[1].intact
  /\ frame[2].part = "tail" /\ frame[2].intact
  /\ frame[1].form = "silent" => Len(frame) = 2

ReplyArrived ==
  /\ TRUE \in Complete(Received)
  /\ Intact(Received)
  /\ StartNextLine([lines EXCEPT ![lineIndex].modbus = "reply"], lineIndex + 1, TRUE)
  /\ rx' = IF state' = "DONE" THEN <<>> ELSE Received

DamagedReply ==
  /\ TRUE \in Complete(Received)
  /\ ~Intact(Received)
  /\ FailLine(lines, lineIndex)
  /\ rx' = <<>>

(* Mutant of TimedOut: a reply that has begun is waited for.                   *)
TimedOutSilent == Since(txDoneAt) >= ResponseTimeout /\ Received = <<>>

TimedOut == Since(txDoneAt) >= ResponseTimeout

NoReplyInTime ==
  /\ FALSE \in Complete(Received)
  /\ TimedOut
  /\ FailLine(lines, lineIndex)
  /\ rx' = <<>>

KeepReceiving ==
  /\ FALSE \in Complete(Received)
  /\ ~TimedOut
  /\ rx' = Received
  /\ UNCHANGED <<state, lines, lineIndex, gapUntil, quiet>>

HandleRx ==
  /\ state = "RX_WAIT"
  /\ ReplyArrived \/ DamagedReply \/ NoReplyInTime \/ KeepReceiving
  /\ fifo' = <<>>
  /\ lastRxByteAt' = LastByteAt
  /\ UNCHANGED <<emergency, txDoneAt, nextGap, millis, inFlight, owed>>

(* Nothing to do: no batch, or the gap is not over.                            *)
NothingToDo ==
  /\ state \in {"IDLE", "DONE"} \/ (state = "GAP" /\ ~NotBefore(gapUntil))
  /\ UNCHANGED <<state, headerVars, lineIndex, rx, timers, millis, fifo, inFlight,
                 quiet, owed>>

Loop ==
  /\ TransmitCurrent \/ HandleRx \/ NothingToDo
  /\ sinceLoop' = 0

-----------------------------------------------------------------------------
(* The bus and the clock *)

Arrive ==
  /\ inFlight # <<>>
  /\ Head(inFlight).takes = 0
  /\ fifo' = Append(fifo, Head(inFlight))
  /\ inFlight' = Tail(inFlight)
  /\ UNCHANGED <<state, headerVars, lineIndex, rx, timers, millis, sinceLoop,
                 quiet, owed>>

Tick ==
  /\ inFlight # <<>> => Head(inFlight).takes > 0
  /\ ~Busy => quiet < MaxIdle
  /\ sinceLoop < LoopWithin
  /\ sinceLoop' = sinceLoop + 1
  /\ millis' = Later(1)
  /\ quiet' = IF quiet < MaxIdle THEN quiet + 1 ELSE quiet
  /\ inFlight' = [i \in DOMAIN inFlight |->
                    IF i = 1 THEN [inFlight[i] EXCEPT !.takes = @ - 1] ELSE inFlight[i]]
  /\ UNCHANGED <<state, headerVars, lineIndex, rx, timers, fifo, owed>>

(* apply_uart_settings_, when baud rate or parity is set in the web panel: what    *)
(* the UART holds is lost, and of a reply under way what is still to come too if    *)
(* the inverter is spoken to at another speed.                                      *)
ApplyUartSettings ==
  /\ fifo' = <<>>
  /\ \/ UNCHANGED inFlight
     \/ inFlight' = [i \in DOMAIN inFlight |-> [inFlight[i] EXCEPT !.intact = FALSE]]
  /\ UNCHANGED <<state, headerVars, lineIndex, rx, timers, millis, sinceLoop, quiet, owed>>

Next ==
  \/ \E isEmergency \in BOOLEAN, vector \in Vectors : Start(isEmergency, vector)
  \/ TakeResult
  \/ Loop
  \/ Arrive
  \/ Tick
  \/ ApplyUartSettings

Spec == Init /\ [][Next]_vars

(* The main loop keeps calling loop(), bytes on the wire arrive, time passes.  *)
FairSpec == Spec /\ WF_vars(Loop) /\ WF_vars(Arrive) /\ WF_vars(Tick)

-----------------------------------------------------------------------------
(* Properties *)

Kinds(ls) == [i \in DOMAIN ls |-> ls[i].kind]
Loaded(vector) == {i \in DOMAIN vector : vector[i] # "none"}
BeforeInvalid(vector) ==
  {i \in Loaded(vector) : \A j \in 1..i : vector[j] # "invalid"}

(* To GbbDongle::loop the executor is what BatchExecutor promises: time, gaps,  *)
(* the wrap of millis() and whatever comes in over the wire are only ways for   *)
(* a line to be answered or to fail.                                            *)
Promise == INSTANCE BatchExecutor WITH
  Contents <- Vectors \ {<<>>},
  NoLines <- <<>>,
  ValidLines <- [v \in Vectors \cup {<<>>} |-> Cardinality(BeforeInvalid(v))],
  exState <- IF Busy THEN "BUSY" ELSE state,
  exBatch <- [emergency |-> emergency, lines |-> Kinds(lines)],
  exAnswered <- Cardinality({i \in DOMAIN lines : lines[i].modbus = "reply"})

ImplementsBatchExecutor == Promise!ExSpec

(* A result holds replies up to the line that went wrong and nothing from there *)
(* on; no request frame is ever sent back as if it were the inverter's reply    *)
(* (docs/protocol.md:60-70, modbus_executor.cpp:209-221).                       *)
RepliesThenNothing ==
  state = "DONE" =>
    \E cut \in 0..Len(lines) :
      \A i \in DOMAIN lines :
        lines[i].modbus =
          IF i <= cut /\ lines[i].kind # "none" THEN "reply" ELSE "cleared"

(* A line is answered by the reply to its own command, never by a reply to an   *)
(* earlier one that comes after that one's timeout: handle_rx_ compares no      *)
(* address or function, so only the timeout, the gap and the draining of the    *)
(* UART (modbus_executor.cpp:95-99) keep them apart.                            *)
ReplyIsToThisCommand ==
  [][state = "RX_WAIT" /\ lines' # lines /\ lines'[lineIndex].modbus = "reply" =>
       \A i \in {1, 2} : Received[i].current]_vars

(* No command goes out before the gap the command before it asks for has        *)
(* passed, across batches, and across the wrap of millis()                      *)
(* (docs/protocol.md:75-80, modbus_executor.cpp:42,57-59).                      *)
GapHonoured ==
  [][state = "GAP" /\ state' = "RX_WAIT" => quiet >= owed]_vars

(* ... and once it has passed the command does go out: the executor is never    *)
(* parked until the next wrap (modbus_executor.cpp:57-59).                      *)
NeverParked == state = "GAP" /\ quiet >= owed => NotBefore(gapUntil)

(* Every batch ends, whatever the inverter does: GbbDongle counts on it before  *)
(* it takes the next request or emergency set.                                  *)
BatchEnds == Busy ~> state = "DONE"
=============================================================================
