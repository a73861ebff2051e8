------------------------------ MODULE BusScan ------------------------------
(***************************************************************************)
(* The scan of busscan (tools/busscan/scan.go) against a dongle: exchange,  *)
(* probe and scan, the responses channel, and the requests and responses    *)
(* that are lost, late or delivered twice on the way.                       *)
(*                                                                          *)
(* A frame is the address it was read from; what comes back for it is the   *)
(* frame, something garbled (no Ident can be parsed, or the dongle reports   *)
(* an error other than the timeout), or the dongle's "Response timeout".    *)
(***************************************************************************)
EXTENDS Tracker, Sequences

CONSTANTS
  Last,          \* 247, the last address to probe
  ResponseCap,   \* capacity of broker.responses
  MaxFaults      \* how often something goes wrong during the scan

ASSUME ScanAssumption == {Last, ResponseCap, MaxFaults} \subseteq Nat /\ Last > 0

VARIABLES
  full, readSOC,  \* the flags of the run
  pc,             \* "connect" in run(); "probe", then "waiting", "publish" and
                  \* "receive" in exchange; "done" or "aborted"
  cancelled,      \* the run's context is done
  addr,           \* scan's addr
  reading,        \* what exchange is called for: "ident" or "soc"
  attempt,        \* probe's attempt
  lastNote,       \* probe's lastNote is set
  order,          \* orderCounter
  timerOut,       \* the timer of the request has fired
  responses,      \* broker.responses
  results         \* what scan has found out per address so far

VARIABLES         \* the dongle and the bus
  devices,        \* addresses a device answers at
  slot,           \* the dongle's pending request, or NoRequest
  inTransit,      \* responses on their way to the broker
  faults          \* faults so far

flags == <<full, readSOC, devices>>
scanVars == <<pc, cancelled, addr, reading, attempt, lastNote, order, timerOut,
              results>>
dongleVars == <<slot, inTransit, faults>>
vars == <<trackerVars, brokerVars, waitVars, flags, scanVars, responses, dongleVars>>

Addresses == 1..Last
Orders == 0..(3 * Last)    \* an exchange for Ident, a second one, one for SOC
NoRequest == [order |-> 0, addr |-> 0]
Requests == [order : Orders, addr : 0..Last]
Response == [order : Orders, addr : 0..Last, says : {"frame", "garbled", "timeout"}]
Found == [is : {"unknown", "silent", "ident", "garbled"}, from : 0..Last]
Nothing == [is |-> "unknown", from |-> 0]

TypeOK ==
  /\ TrackerTypeOK
  /\ full \in BOOLEAN /\ readSOC \in BOOLEAN
  /\ pc \in {"connect", "probe", "waiting", "publish", "receive", "done", "aborted"}
  /\ cancelled \in BOOLEAN
  /\ addr \in 1..(Last + 1) /\ reading \in {"ident", "soc"} /\ attempt \in {1, 2}
  /\ lastNote \in BOOLEAN
  /\ order \in Orders /\ timerOut \in BOOLEAN
  /\ responses \in Seq(Response) /\ Len(responses) <= ResponseCap
  /\ results \in [Addresses -> Found]
  /\ devices \subseteq Addresses
  /\ slot \in Requests
  /\ inTransit \in Seq(Response)
  /\ faults \in 0..MaxFaults

Init ==
  /\ TrackerInit
  /\ full \in BOOLEAN /\ readSOC \in BOOLEAN
  /\ pc = "connect" /\ cancelled = FALSE
  /\ addr = 1 /\ reading = "ident" /\ attempt = 1 /\ lastNote = FALSE
  /\ order = 0 /\ timerOut = FALSE /\ responses = <<>>
  /\ results = [a \in Addresses |-> Nothing]
  /\ devices \in SUBSET Addresses
  /\ slot = NoRequest /\ inTransit = <<>>
  /\ faults = 0

-----------------------------------------------------------------------------
(* probe and scan, when an exchange is over *)

(* The next address is probed, or the scan is over.                            *)
NextAddress(found, stop) ==
  /\ results' = [results EXCEPT ![addr] = found]
  /\ addr' = addr + 1
  /\ reading' = "ident" /\ attempt' = 1 /\ lastNote' = FALSE
  /\ pc' = IF stop \/ addr = Last THEN "done" ELSE "probe"

Silent == NextAddress([is |-> "silent", from |-> 0], ~full)
Garbled == NextAddress([is |-> "garbled", from |-> 0], FALSE)

Retry(note) ==
  /\ pc' = "probe"
  /\ attempt' = 2
  /\ lastNote' = note
  /\ UNCHANGED <<addr, reading, results>>

Abort ==
  /\ pc' = "aborted"
  /\ UNCHANGED <<addr, reading, attempt, lastNote, results>>

(* The device has answered; its SOC is read next if that is asked for, in one   *)
(* exchange whose failure does not matter.  A Modbus exception is an answer too, *)
(* but no SOC is read after it.                                                 *)
Identified(from) ==
  \/ /\ readSOC
     /\ results' = [results EXCEPT ![addr] = [is |-> "ident", from |-> from]]
     /\ reading' = "soc"
     /\ pc' = "probe"
     /\ UNCHANGED <<addr, attempt, lastNote>>
  \/ NextAddress([is |-> "ident", from |-> from], FALSE)

SocRead == NextAddress(results[addr], FALSE)

(* probe's cases for what exchange returns *)
GotFrame(from) == IF reading = "soc" THEN SocRead ELSE Identified(from)
GotGarbled ==
  CASE reading = "soc"                    -> SocRead
    [] reading = "ident" /\ attempt = 1   -> Retry(TRUE)
    [] reading = "ident" /\ attempt = 2   -> Garbled
(* Mutant of GotBusTimeout: a bus timeout is not tried again. *)
GotBusTimeoutOnce == IF reading = "soc" THEN SocRead ELSE Silent

GotBusTimeout ==
  CASE reading = "soc"                    -> SocRead
    [] reading = "ident" /\ attempt = 1   -> Retry(lastNote)
    [] reading = "ident" /\ attempt = 2   -> Silent
ToolError ==
  CASE reading = "soc"                                   -> SocRead
    [] reading = "ident" /\ ~cancelled /\ attempt = 1    -> Retry(lastNote)
    [] reading = "ident" /\ (cancelled \/ attempt = 2)   -> Abort

-----------------------------------------------------------------------------
(* exchange *)

probeVars == <<addr, reading, attempt, lastNote, results>>

(* run() waits for the dongle before the scan starts, and gives up without it. *)
Connected ==
  /\ pc = "connect"
  /\ \/ WaitReady /\ UNCHANGED pc
     \/ WaitAgain /\ UNCHANGED pc
     \/ ReadyReturns /\ pc' = "probe"
     \/ (cancelled \/ ~IsReady) /\ WaitGivesUp /\ pc' = "aborted"
  /\ UNCHANGED <<cancelled, probeVars, order, timerOut, slot, inTransit, responses>>

EnterExchange ==
  /\ pc = "probe"
  /\ WaitReady
  /\ pc' = "waiting"
  /\ UNCHANGED <<cancelled, probeVars, order, timerOut, slot, inTransit, responses>>

Waiting ==
  /\ pc = "waiting"
  /\ \/ WaitAgain /\ UNCHANGED pc
     \/ ReadyReturns /\ pc' = "publish"
  /\ UNCHANGED <<cancelled, probeVars, order, timerOut, slot, inTransit, responses>>

(* The deadline of the wait passes, or the run is interrupted.                  *)
NotConnected ==
  /\ pc = "waiting"
  /\ cancelled \/ ~IsReady
  /\ WaitGivesUp
  /\ ToolError
  /\ UNCHANGED <<cancelled, order, timerOut, slot, inTransit, responses>>

(* The channel is drained and the request published; it reaches the dongle if   *)
(* its subscription is live at that moment, and replaces a request in its slot. *)
(* Only the locked client executes: a second one with the same Plant Id, which   *)
(* would receive it too, and a publish or a hex string that fails are left out.  *)
Publish ==
  /\ pc = "publish"
  /\ responses' = <<>>
  /\ order' = order + 1
  /\ timerOut' = FALSE
  /\ slot' = IF session[clientID] = "subscribed"
             THEN [order |-> order + 1, addr |-> addr] ELSE slot
  /\ pc' = "receive"
  /\ UNCHANGED <<waitVars, cancelled, probeVars, inTransit>>

(* Mutant of IsAnswer: the OrderId is not compared. *)
IsAnyAnswer(response) == TRUE

IsAnswer(response) == response.order = order

Receive ==
  /\ pc = "receive"
  /\ responses # <<>>
  /\ responses' = Tail(responses)
  /\ LET response == Head(responses)
     IN \/ ~IsAnswer(response) /\ UNCHANGED <<pc, probeVars>>
        \/ IsAnswer(response) /\ response.says = "frame" /\ GotFrame(response.addr)
        \/ IsAnswer(response) /\ response.says = "garbled" /\ GotGarbled
        \/ IsAnswer(response) /\ response.says = "timeout" /\ GotBusTimeout
  /\ UNCHANGED <<waitVars, cancelled, order, timerOut, slot, inTransit>>

(* Mutant of NoAnswer: exchange has no timer. *)
NoAnswerButInterrupt ==
  /\ pc = "receive"
  /\ cancelled
  /\ ToolError
  /\ UNCHANGED <<waitVars, cancelled, order, timerOut, slot, inTransit, responses>>

NoAnswer ==
  /\ pc = "receive"
  /\ cancelled \/ timerOut
  /\ ToolError
  /\ UNCHANGED <<waitVars, cancelled, order, timerOut, slot, inTransit, responses>>

(* Nothing can answer the request any more. *)
AnswerLost ==
  /\ slot.order # order
  /\ \A i \in DOMAIN inTransit : ~IsAnswer(inTransit[i])
  /\ \A i \in DOMAIN responses : ~IsAnswer(responses[i])

(* A timer that fires although the answer is still to come is a fault.         *)
TimerFires ==
  /\ pc = "receive" /\ ~timerOut
  /\ timerOut' = TRUE
  /\ \/ AnswerLost /\ UNCHANGED faults
     \/ ~AnswerLost /\ faults < MaxFaults /\ faults' = faults + 1
  /\ UNCHANGED <<waitVars, pc, cancelled, addr, reading, attempt, lastNote, order,
                 results, slot, inTransit, responses>>

Interrupt ==
  /\ ~cancelled
  /\ pc \notin {"done", "aborted"}
  /\ cancelled' = TRUE
  /\ UNCHANGED <<waitVars, pc, probeVars, order, timerOut, slot, inTransit, responses>>

Exchange == Connected \/ EnterExchange \/ Waiting \/ NotConnected \/ Publish \/ Receive \/ NoAnswer

-----------------------------------------------------------------------------
(* The dongle and the way back *)

scanUntouched == <<waitVars, pc, cancelled, addr, reading, attempt, lastNote, order,
                   timerOut, results>>

(* What the bus says about an address, and what it may say instead by a fault. *)
Truth(a) == IF a \in devices THEN "frame" ELSE "timeout"
Slips(a) == IF a \in devices THEN {"timeout", "garbled"} ELSE {"garbled"}

(* The dongle executes the request and publishes the response, which fails      *)
(* while it is not connected.                                                   *)
Execute ==
  /\ slot # NoRequest
  /\ slot' = NoRequest
  /\ \E says \in {Truth(slot.addr)} \cup Slips(slot.addr) :
       /\ says # Truth(slot.addr) => faults < MaxFaults
       /\ faults' = IF says = Truth(slot.addr) THEN faults ELSE faults + 1
       /\ inTransit' = IF session[clientID] = "off" THEN inTransit
                       ELSE Append(inTransit, [order |-> slot.order,
                                               addr |-> slot.addr, says |-> says])
  /\ UNCHANGED <<scanUntouched, responses>>

(* The broker's callback drops what the full channel cannot take; a response    *)
(* that is sent again comes twice.                                              *)
Deliver ==
  /\ inTransit # <<>>
  /\ responses' = IF Len(responses) < ResponseCap
                  THEN Append(responses, Head(inTransit)) ELSE responses
  /\ \/ inTransit' = Tail(inTransit) /\ UNCHANGED faults
     \/ faults < MaxFaults /\ faults' = faults + 1 /\ UNCHANGED inTransit
  /\ UNCHANGED <<scanUntouched, slot>>

(* The connection is lost with what is in transit, and with a restart also the  *)
(* request in the slot.                                                         *)
DongleLeaves ==
  /\ \E c \in Clients : Disconnect(c)
  /\ faults < MaxFaults
  /\ faults' = faults + 1
  /\ slot' \in {slot, NoRequest}
  /\ inTransit' = <<>>
  /\ UNCHANGED <<pc, cancelled, addr, reading, attempt, lastNote, order, timerOut,
                 results, responses>>

DongleComes ==
  /\ \E c \in Clients : Connect(c) \/ Subscribe(c)
  /\ UNCHANGED <<pc, cancelled, probeVars, order, timerOut, slot, inTransit, responses>>

Hooks ==
  /\ \E c \in Clients : OnSubscribed(c) \/ OnDisconnect(c)
  /\ UNCHANGED <<pc, cancelled, probeVars, order, timerOut, slot, inTransit, responses>>

ScanSteps == Exchange /\ UNCHANGED <<trackerVars, brokerVars, flags, faults>>
Timer == TimerFires /\ UNCHANGED <<trackerVars, brokerVars, flags>>
Work == (Execute \/ Deliver) /\ UNCHANGED <<trackerVars, brokerVars, flags>>

Next ==
  \/ ScanSteps
  \/ Timer
  \/ Interrupt /\ UNCHANGED <<trackerVars, brokerVars, flags, faults>>
  \/ Work
  \/ DongleLeaves /\ UNCHANGED flags
  \/ (DongleComes \/ Hooks) /\ UNCHANGED <<flags, faults>>

Spec == Init /\ [][Next]_vars

(* busscan runs on, its timers fire, and the dongle answers what it has got.   *)
FairSpec == Spec /\ WF_vars(ScanSteps) /\ WF_vars(Timer) /\ WF_vars(Work)

-----------------------------------------------------------------------------
(* Properties *)

(* A device is recorded at the address it was read from, whatever late or       *)
(* repeated responses come in between: parseIdent takes a frame of any address, *)
(* so only the OrderId keeps them apart (scan.go:100-102, modbus.go:75-78).     *)
FoundIsThere ==
  \A a \in Addresses : results[a].is = "ident" => results[a].from = a /\ a \in devices

(* One thing going wrong during the scan never hides a device it comes to:      *)
(* a lost, late or repeated response, a bus timeout, a damaged frame or a       *)
(* restart of the dongle (scan.go:120-158).                                     *)
NoDeviceMissed ==
  \A a \in devices : results[a].is # "silent"

(* The scan comes to an end, found or not, connected or not.                    *)
ScanEnds == <>(pc \in {"done", "aborted"})
=============================================================================
