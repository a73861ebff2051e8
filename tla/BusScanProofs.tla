--------------------------- MODULE BusScanProofs ---------------------------
(***************************************************************************)
(* The safety of busscan's tracker and scan for any clients, any number of  *)
(* addresses and any number of faults; and that one fault hides no device.  *)
(***************************************************************************)
EXTENDS BusScan, SequenceTheorems, TLAPS

-----------------------------------------------------------------------------
(* The tracker *)

TrackerInv ==
  /\ channel \in Nat /\ awaited \in Nat /\ awaited <= channel
  /\ closed \subseteq 0..channel
  /\ \A n \in 0..channel : n < channel => n \in closed
  /\ clientID \in Clients \cup {NoClient}
  /\ session \in [Clients -> {"off", "connected", "subscribed"}]
  /\ hooks \in [Clients -> SUBSET {"OnSubscribed", "OnDisconnect"}]
  /\ \A c \in Clients : "OnSubscribed" \in hooks[c] => session[c] = "subscribed"
  /\ clientID # NoClient /\ IsReady /\ session[clientID] # "subscribed"
       => "OnDisconnect" \in hooks[clientID]

Interrupted == Interrupt /\ UNCHANGED <<trackerVars, brokerVars, flags, faults>>

(* The scan, the timer and the dongle at work leave the tracker and the broker as *)
(* they are; the wait reads the channel or keeps the one it has.                  *)
LEMMA OnlyTheWait ==
  ASSUME ScanSteps \/ Timer \/ Interrupted
           \/ Work
  PROVE  UNCHANGED <<trackerVars, brokerVars>> /\ awaited' \in {awaited, channel}
<1>1. CASE ScanSteps
  BY <1>1 DEF ScanSteps, Exchange, Connected, EnterExchange, Waiting, NotConnected, Publish,
              Receive, NoAnswer, WaitReady, WaitAgain, ReadyReturns, WaitGivesUp, Snapshot,
              waitVars
<1>2. CASE Timer
  BY <1>2 DEF Timer, TimerFires, waitVars
<1>3. CASE Interrupted
  BY <1>3 DEF Interrupted, Interrupt, waitVars
<1>4. CASE Work
  BY <1>4 DEF Work, Execute, Deliver, scanUntouched, waitVars
<1>5. QED
  BY <1>1, <1>2, <1>3, <1>4

(* Every step keeps the invariant of the tracker. *)
LEMMA TrackerKept == TrackerInv /\ [Next]_vars => TrackerInv'
<1> SUFFICES ASSUME TrackerInv, [Next]_vars PROVE TrackerInv'
  OBVIOUS
<1>1. ASSUME UNCHANGED <<trackerVars, brokerVars>>, awaited' \in {awaited, channel}
      PROVE  TrackerInv'
  BY <1>1 DEF TrackerInv, trackerVars, brokerVars, IsReady
<1>2. CASE ScanSteps \/ Timer \/ Interrupted
             \/ Work
  BY <1>1, <1>2, OnlyTheWait
<1>3. ASSUME NEW c \in Clients, Connect(c) PROVE TrackerInv'
  BY <1>3 DEF Connect, TrackerInv, trackerVars, waitVars, IsReady
<1>4. ASSUME NEW c \in Clients, Subscribe(c) PROVE TrackerInv'
  BY <1>4 DEF Subscribe, TrackerInv, trackerVars, waitVars, IsReady
<1>5. ASSUME NEW c \in Clients, Disconnect(c) PROVE TrackerInv'
  BY <1>5 DEF Disconnect, TrackerInv, trackerVars, waitVars, IsReady
<1>6. ASSUME NEW c \in Clients, OnSubscribed(c) PROVE TrackerInv'
  <2>1. /\ channel' = channel /\ awaited' = awaited /\ session' = session
        /\ hooks' = [hooks EXCEPT ![c] = @ \ {"OnSubscribed"}]
        /\ closed' \in {closed, closed \cup {channel}}
        /\ \/ clientID' = c
           \/ clientID' = clientID /\ closed' = closed /\ clientID # c
        /\ session[c] = "subscribed"
    BY <1>6 DEF OnSubscribed, TrackerInv, waitVars
  <2>2. /\ closed' \subseteq 0..channel
        /\ \A n \in 0..channel : n < channel => n \in closed'
    BY <2>1 DEF TrackerInv
  <2>3. /\ hooks' \in [Clients -> SUBSET {"OnSubscribed", "OnDisconnect"}]
        /\ \A b \in Clients : "OnSubscribed" \in hooks'[b] => "OnSubscribed" \in hooks[b]
        /\ \A b \in Clients : b # c => hooks'[b] = hooks[b]
    BY <2>1 DEF TrackerInv
  <2>4. clientID' # NoClient /\ IsReady' /\ session[clientID'] # "subscribed"
          => "OnDisconnect" \in hooks'[clientID']
    BY <2>1, <2>3 DEF TrackerInv, IsReady
  <2>5. QED
    BY <2>1, <2>2, <2>3, <2>4 DEF TrackerInv
<1>7. ASSUME NEW c \in Clients, OnDisconnect(c) PROVE TrackerInv'
  BY <1>7 DEF OnDisconnect, TrackerInv, trackerVars, waitVars, IsReady
<1>8. CASE DongleLeaves \/ DongleComes \/ Hooks
  BY <1>3, <1>4, <1>5, <1>6, <1>7, <1>8 DEF DongleLeaves, DongleComes, Hooks
<1>9. CASE UNCHANGED vars
  BY <1>1, <1>9 DEF vars, waitVars
<1>10. QED
  BY <1>2, <1>8, <1>9 DEF Next, Interrupted

(* It holds before any client connects. *)
LEMMA TrackerStarts == Init => TrackerInv
<1> SUFFICES ASSUME TrackerInit PROVE TrackerInv
  BY DEF Init
<1>1. /\ channel = 0 /\ awaited = 0 /\ closed = {} /\ clientID = NoClient
      /\ session = [c \in Clients |-> "off"] /\ hooks = [c \in Clients |-> {}]
  BY DEF TrackerInit
<1>2. QED
  BY <1>1 DEF TrackerInv

(* A channel somebody waits on is closed when it was replaced: no wake-up is lost *)
(* between the unlock and the select (broker.go:75-93).                           *)
THEOREM WakeupsArrive == Spec => []NoLostWakeup
<1>1. TrackerInv => NoLostWakeup
  BY DEF TrackerInv, NoLostWakeup, IsReady
<1>2. QED
  BY <1>1, TrackerStarts, TrackerKept, PTL DEF Spec

(* The tracker calls the dongle ready only while its subscription is live, once   *)
(* the hooks of its connections have been called, whichever clients come and go    *)
(* (broker.go:36-71).                                                             *)
THEOREM ReadyMeansLive == Spec => []ReadyIsLive
<1>1. TrackerInv => ReadyIsLive
  BY DEF TrackerInv, ReadyIsLive, IsReady
<1>2. QED
  BY <1>1, TrackerStarts, TrackerKept, PTL DEF Spec

-----------------------------------------------------------------------------
(* What the scan records *)

(* A request or response is never ahead of the scan; one with the OrderId that is  *)
(* waited for is about the address that is probed.                                *)
Current(r) == r.order <= order /\ (pc = "receive" /\ r.order = order => r.addr = addr)

OwnRequests == {r \in [order : Nat, addr : Nat] : Current(r)}

(* A frame comes from a device. *)
TrueResponses ==
  {r \in [order : Nat, addr : Nat, says : {"frame", "garbled", "timeout"}] :
     Current(r) /\ (r.says = "frame" => r.addr \in devices)}

Entries == [is : {"unknown", "silent", "ident", "garbled"}, from : Nat]

OrdersInv ==
  /\ order \in Nat /\ addr \in Nat
  /\ slot \in OwnRequests \cup {NoRequest}
  /\ responses \in Seq(TrueResponses) /\ inTransit \in Seq(TrueResponses)
  /\ reading \in {"ident", "soc"} /\ attempt \in {1, 2}
  /\ results \in [Addresses -> Entries]

(* What probe does with what exchange returned, as alternatives. *)
LEMMA ProbeCases ==
  ASSUME reading \in {"ident", "soc"}, attempt \in {1, 2}
  PROVE  /\ GotGarbled => \/ reading = "soc" /\ SocRead
                          \/ reading = "ident" /\ attempt = 1 /\ Retry(TRUE)
                          \/ reading = "ident" /\ attempt = 2 /\ Garbled
         /\ GotBusTimeout => \/ reading = "soc" /\ SocRead
                             \/ reading = "ident" /\ attempt = 1 /\ Retry(lastNote)
                             \/ reading = "ident" /\ attempt = 2 /\ Silent
         /\ ToolError => \/ reading = "soc" /\ SocRead
                         \/ reading = "ident" /\ ~cancelled /\ Retry(lastNote)
                         \/ reading = "ident" /\ Abort
BY DEF GotGarbled, GotBusTimeout, ToolError

(* However probe goes on, what was found stays true. *)
LEMMA ProbeGoesOn ==
  ASSUME results \in [Addresses -> Entries], FoundIsThere, addr \in Nat, devices' = devices,
         reading \in {"ident", "soc"}, attempt \in {1, 2},
         \/ GotFrame(addr) /\ addr \in devices
         \/ GotGarbled \/ GotBusTimeout \/ ToolError
  PROVE  /\ results' \in [Addresses -> Entries] /\ FoundIsThere'
         /\ addr' \in Nat /\ pc' \in {"probe", "done", "aborted"}
         /\ reading' \in {"ident", "soc"} /\ attempt' \in {1, 2}
<1>1. ASSUME NEW found \in Entries, results' = [results EXCEPT ![addr] = found],
             found.is = "ident" => found.from = addr /\ addr \in devices
      PROVE  results' \in [Addresses -> Entries] /\ FoundIsThere'
  <2>1. results' \in [Addresses -> Entries]
    BY <1>1
  <2>2. \A a \in Addresses : results'[a] = IF a = addr THEN found ELSE results[a]
    BY <1>1
  <2>3. QED
    BY <1>1, <2>1, <2>2 DEF FoundIsThere
<1>2. CASE SocRead
  <2>1. results' = results
    BY <1>2 DEF SocRead, NextAddress
  <2>2. addr' = addr + 1 /\ pc' \in {"probe", "done"} /\ reading' = "ident" /\ attempt' = 1
    BY <1>2 DEF SocRead, NextAddress
  <2>3. FoundIsThere'
    BY <2>1 DEF FoundIsThere
  <2>4. QED
    BY <2>1, <2>2, <2>3
<1>3. CASE Silent \/ Garbled
  <2>1. PICK kind \in {"silent", "garbled"} :
            results' = [results EXCEPT ![addr] = [is |-> kind, from |-> 0]]
    BY <1>3 DEF Silent, Garbled, NextAddress
  <2>2. [is |-> kind, from |-> 0] \in Entries
    BY DEF Entries
  <2>3. addr' = addr + 1 /\ pc' \in {"probe", "done"} /\ reading' = "ident" /\ attempt' = 1
    BY <1>3 DEF Silent, Garbled, NextAddress
  <2>4. [is |-> kind, from |-> 0].is # "ident"
    OBVIOUS
  <2>5. results' \in [Addresses -> Entries] /\ FoundIsThere'
    BY <1>1, <2>1, <2>2, <2>4
  <2>6. QED
    BY <2>3, <2>5
<1>4. CASE Abort \/ \E note : Retry(note)
  BY <1>4 DEF Abort, Retry, FoundIsThere
<1>5. CASE Identified(addr) /\ addr \in devices
  <2>1. [is |-> "ident", from |-> addr] \in Entries
    BY DEF Entries
  <2>2. /\ results' = [results EXCEPT ![addr] = [is |-> "ident", from |-> addr]]
        /\ addr' \in {addr, addr + 1} /\ pc' \in {"probe", "done"}
        /\ reading' \in {"ident", "soc"} /\ attempt' \in {1, attempt}
    BY <1>5 DEF Identified, NextAddress
  <2>3. [is |-> "ident", from |-> addr].from = addr
    OBVIOUS
  <2>4. results' \in [Addresses -> Entries] /\ FoundIsThere'
    BY <1>1, <1>5, <2>1, <2>2, <2>3
  <2>5. QED
    BY <2>2, <2>4
<1>6. QED
  BY <1>2, <1>3, <1>4, <1>5, ProbeCases DEF GotFrame

(* The scan and the dongle go on: what was true of a request or response stays true. *)
LEMMA StillCurrent ==
  ASSUME NEW r, Current(r), r.order \in Nat, order \in Nat,
         \/ pc' # "receive" /\ order' = order
         \/ order' = order + 1
         \/ UNCHANGED <<pc, order, addr>>
  PROVE  Current(r)'
BY DEF Current

(* ... so all that is under way or waits in the channel still is what it was. *)
LEMMA StillTrue ==
  ASSUME OrdersInv, devices' = devices,
         \/ pc' # "receive" /\ order' = order
         \/ order' = order + 1
         \/ UNCHANGED <<pc, order, addr>>
  PROVE  /\ OwnRequests \subseteq OwnRequests' /\ TrueResponses \subseteq TrueResponses'
         /\ responses \in Seq(TrueResponses)' /\ inTransit \in Seq(TrueResponses)'
<1>1. ASSUME NEW r \in TrueResponses PROVE r \in TrueResponses'
  BY <1>1, StillCurrent DEF TrueResponses, OrdersInv
<1>2. ASSUME NEW r \in OwnRequests PROVE r \in OwnRequests'
  BY <1>2, StillCurrent DEF OwnRequests, OrdersInv
<1>3. responses \in Seq(TrueResponses') /\ inTransit \in Seq(TrueResponses')
  BY <1>1, SeqMonotonic DEF OrdersInv
<1>4. QED
  BY <1>1, <1>2, <1>3

FoundInv == OrdersInv /\ FoundIsThere

(* Every step keeps what is recorded, and what is under way, true. *)
LEMMA FoundKept == FoundInv /\ [Next]_vars => FoundInv'
<1> SUFFICES ASSUME OrdersInv, FoundIsThere, [Next]_vars PROVE FoundInv'
  BY DEF FoundInv
<1>1. ASSUME UNCHANGED <<addr, reading, attempt, results>>, UNCHANGED <<pc, order>>,
             devices' = devices, slot' \in OwnRequests' \cup {NoRequest},
             responses' \in Seq(TrueResponses'), inTransit' \in Seq(TrueResponses')
      PROVE  FoundInv'
  BY <1>1 DEF OrdersInv, FoundIsThere, FoundInv
<1>2. ASSUME UNCHANGED <<addr, reading, attempt, results>>,
             (pc' # "receive" /\ order' = order) \/ UNCHANGED <<pc, order>>,
             devices' = devices, UNCHANGED <<slot, responses, inTransit>>
      PROVE  FoundInv'
  <2>1. /\ OwnRequests \subseteq OwnRequests'
        /\ responses \in Seq(TrueResponses') /\ inTransit \in Seq(TrueResponses')
    BY <1>2, StillTrue
  <2>2. QED
    BY <1>2, <2>1 DEF OrdersInv, FoundIsThere, FoundInv
<1>3. ASSUME \/ GotFrame(addr) /\ addr \in devices
             \/ GotGarbled \/ GotBusTimeout \/ ToolError,
             devices' = devices, UNCHANGED <<order, slot, inTransit>>,
             \/ responses' = responses
             \/ responses # <<>> /\ responses' = Tail(responses)
      PROVE  FoundInv'
  <2>1. /\ results' \in [Addresses -> Entries] /\ FoundIsThere'
        /\ addr' \in Nat /\ pc' \in {"probe", "done", "aborted"}
        /\ reading' \in {"ident", "soc"} /\ attempt' \in {1, 2}
    BY <1>3, ProbeGoesOn DEF OrdersInv
  <2>2. /\ OwnRequests \subseteq OwnRequests'
        /\ responses \in Seq(TrueResponses') /\ inTransit \in Seq(TrueResponses')
    BY <1>3, <2>1, StillTrue
  <2>3. responses' \in Seq(TrueResponses')
    BY <1>3, <2>2, HeadTailProperties
  <2>4. QED
    BY <1>3, <2>1, <2>2, <2>3 DEF OrdersInv, FoundInv
<1>4. CASE ScanSteps
  <2>1. devices' = devices
    BY <1>4 DEF ScanSteps, flags
  <2>2. CASE Connected \/ EnterExchange \/ Waiting
    BY <1>2, <2>1, <2>2 DEF Connected, EnterExchange, Waiting, probeVars
  <2>3. CASE NotConnected \/ NoAnswer
    BY <1>3, <2>1, <2>3 DEF NotConnected, NoAnswer
  <2>4. CASE Publish
    <3>1. /\ order' = order + 1 /\ responses' = <<>> /\ pc' = "receive"
          /\ slot' \in {slot, [order |-> order + 1, addr |-> addr]}
          /\ UNCHANGED <<addr, reading, attempt, results, inTransit>>
      BY <2>4 DEF Publish, probeVars
    <3>2. OwnRequests \subseteq OwnRequests' /\ inTransit \in Seq(TrueResponses')
      BY <2>1, <3>1, StillTrue
    <3>3. [order |-> order + 1, addr |-> addr] \in OwnRequests'
      BY <3>1 DEF OwnRequests, Current, OrdersInv
    <3>4. responses' \in Seq(TrueResponses')
      BY <3>1, EmptySeq
    <3>5. QED
      BY <2>1, <3>1, <3>2, <3>3, <3>4 DEF OrdersInv, FoundIsThere, FoundInv
  <2>5. CASE Receive
    <3> DEFINE response == Head(responses)
    <3>1. /\ pc = "receive" /\ responses # <<>> /\ responses' = Tail(responses)
          /\ UNCHANGED <<order, slot, inTransit>>
      BY <2>5 DEF Receive
    <3>2. response \in TrueResponses
      BY <3>1, HeadTailProperties DEF OrdersInv
    <3>3. CASE ~IsAnswer(response) /\ UNCHANGED <<pc, probeVars>>
      <4>1. UNCHANGED <<pc, addr, reading, attempt, results>>
        BY <3>3 DEF probeVars
      <4>2. /\ OwnRequests \subseteq OwnRequests'
            /\ responses \in Seq(TrueResponses') /\ inTransit \in Seq(TrueResponses')
        BY <2>1, <3>1, <4>1, StillTrue
      <4>3. responses' \in Seq(TrueResponses')
        BY <3>1, <4>2, HeadTailProperties
      <4>4. QED
        BY <1>1, <2>1, <3>1, <4>1, <4>2, <4>3 DEF OrdersInv
    <3>4. ASSUME IsAnswer(response) PROVE response.addr = addr
      BY <3>1, <3>2, <3>4 DEF TrueResponses, Current, IsAnswer
    <3>5. CASE IsAnswer(response) /\ response.says = "frame" /\ GotFrame(response.addr)
      <4>1. GotFrame(addr) /\ addr \in devices
        BY <3>2, <3>4, <3>5 DEF TrueResponses
      <4>2. QED
        BY <1>3, <2>1, <3>1, <4>1
    <3>6. CASE GotGarbled \/ GotBusTimeout
      BY <1>3, <2>1, <3>1, <3>6
    <3>7. QED
      BY <2>5, <3>3, <3>5, <3>6 DEF Receive
  <2>6. QED
    BY <1>4, <2>2, <2>3, <2>4, <2>5 DEF ScanSteps, Exchange
<1>5. CASE Timer
  BY <1>2, <1>5 DEF Timer, TimerFires, flags
<1>6. CASE Interrupted
  BY <1>2, <1>6 DEF Interrupted, Interrupt, probeVars, flags
<1>7. CASE Work
  <2>1. UNCHANGED <<pc, addr, order, reading, attempt, results>> /\ devices' = devices
    BY <1>7 DEF Work, Execute, Deliver, scanUntouched, flags
  <2>2. /\ OwnRequests \subseteq OwnRequests' /\ TrueResponses \subseteq TrueResponses'
        /\ responses \in Seq(TrueResponses') /\ inTransit \in Seq(TrueResponses')
    BY <2>1, StillTrue
  <2>3. CASE Execute
    <3>1. /\ slot # NoRequest /\ slot' = NoRequest /\ responses' = responses
          /\ slot \in OwnRequests
      BY <2>3 DEF Execute, OrdersInv
    <3>2. PICK says \in {Truth(slot.addr)} \cup Slips(slot.addr) :
            inTransit' \in {inTransit, Append(inTransit, [order |-> slot.order,
                                                          addr |-> slot.addr,
                                                          says |-> says])}
      BY <2>3 DEF Execute
    <3>3. /\ says \in {"frame", "garbled", "timeout"}
          /\ says = "frame" => slot.addr \in devices
      BY <3>2 DEF Truth, Slips
    <3>4. [order |-> slot.order, addr |-> slot.addr, says |-> says] \in TrueResponses
      BY <3>1, <3>3 DEF OwnRequests, TrueResponses, Current
    <3>5. inTransit' \in Seq(TrueResponses')
      BY <2>2, <3>2, <3>4, AppendProperties
    <3>6. QED
      BY <1>1, <2>1, <2>2, <3>1, <3>5
  <2>4. CASE Deliver
    <3>1. /\ inTransit # <<>> /\ inTransit' \in {inTransit, Tail(inTransit)} /\ slot' = slot
          /\ responses' \in {responses, Append(responses, Head(inTransit))}
      BY <2>4 DEF Deliver
    <3>2. /\ inTransit' \in Seq(TrueResponses') /\ Head(inTransit) \in TrueResponses'
      BY <2>2, <3>1, HeadTailProperties
    <3>3. responses' \in Seq(TrueResponses')
      BY <2>2, <3>1, <3>2, AppendProperties
    <3>4. QED
      BY <1>1, <2>1, <2>2, <3>1, <3>2, <3>3 DEF OrdersInv
  <2>5. QED
    BY <1>7, <2>3, <2>4 DEF Work
<1>8. CASE DongleLeaves /\ UNCHANGED flags
  <2>1. /\ UNCHANGED <<pc, addr, order, reading, attempt, results, responses>>
        /\ devices' = devices /\ slot' \in {slot, NoRequest} /\ inTransit' = <<>>
    BY <1>8 DEF DongleLeaves, flags
  <2>2. /\ OwnRequests \subseteq OwnRequests' /\ responses \in Seq(TrueResponses')
    BY <2>1, StillTrue
  <2>3. inTransit' \in Seq(TrueResponses')
    BY <2>1, EmptySeq
  <2>4. QED
    BY <1>1, <2>1, <2>2, <2>3 DEF OrdersInv
<1>9. CASE (DongleComes \/ Hooks) /\ UNCHANGED <<flags, faults>>
  BY <1>2, <1>9 DEF DongleComes, Hooks, probeVars, flags
<1>10. CASE UNCHANGED vars
  BY <1>2, <1>10 DEF vars, scanVars, dongleVars, flags
<1>11. QED
  BY <1>4, <1>5, <1>6, <1>7, <1>8, <1>9, <1>10 DEF Next, Interrupted

(* Nothing is under way at first, and nothing recorded. *)
LEMMA FoundStarts == Init => FoundInv
<1> SUFFICES ASSUME Init PROVE FoundInv
  OBVIOUS
<1>1. Nothing \in Entries /\ Nothing.is # "ident"
  BY DEF Nothing, Entries
<1>2. results \in [Addresses -> Entries] /\ FoundIsThere
  BY <1>1 DEF Init, FoundIsThere
<1>3. QED
  BY <1>2, EmptySeq DEF Init, FoundInv, OrdersInv

(* A device is recorded at the address it was read from, whatever late or repeated *)
(* responses come in between (scan.go:100-102, modbus.go:75-78).                   *)
THEOREM FoundAtItsOwn == Spec => []FoundIsThere
<1>1. FoundInv => FoundIsThere
  BY DEF FoundInv
<1>2. QED
  BY <1>1, FoundStarts, FoundKept, PTL DEF Spec

-----------------------------------------------------------------------------
(* One fault hides no device *)

(* The one answer that is waited for is still to be read, being executed or on its *)
(* way, and nothing else is.                                                       *)
OneAnswer(s) == s # <<>> /\ s = <<Head(s)>> /\ Head(s).order = order

AnswerToCome ==
  /\ ~timerOut
  /\ \/ slot # NoRequest /\ slot.order = order /\ inTransit = <<>> /\ responses = <<>>
     \/ slot = NoRequest /\ OneAnswer(inTransit) /\ responses = <<>>
     \/ slot = NoRequest /\ inTransit = <<>> /\ OneAnswer(responses)

NothingToCome == slot = NoRequest /\ inTransit = <<>> /\ responses = <<>>

(* As long as nothing went wrong, the dongle is connected ... *)
ConnectedInv ==
  /\ faults \in Nat
  /\ awaitedPlant # NoClient \/ plantID # NoClient => clientID # NoClient
  /\ faults = 0 =>
       /\ channel = 0
       /\ \A c \in Clients : "OnDisconnect" \notin hooks[c]
       /\ clientID # NoClient => session[clientID] = "subscribed"
       /\ pc \notin {"connect", "aborted"} => clientID # NoClient /\ channel \in closed

(* ... and, until somebody interrupts the run, the answer will come. *)
AnswersInv ==
  faults = 0 /\ ~cancelled =>
    /\ pc \in {"connect", "probe", "waiting", "publish"} => NothingToCome
    /\ pc = "receive" => AnswerToCome

(* The outcome of an exchange ends it. *)
LEMMA ProbeMovesOn ==
  ASSUME reading \in {"ident", "soc"}, attempt \in {1, 2},
         \/ \E from : GotFrame(from)
         \/ GotGarbled \/ GotBusTimeout \/ ToolError
  PROVE  pc' \in {"probe", "done", "aborted"}
BY ProbeCases DEF GotFrame, Identified, SocRead, Silent, Garbled, Retry, Abort, NextAddress

(* No step but a fault disconnects the dongle. *)
LEMMA ConnectedKept ==
  TrackerInv /\ OrdersInv /\ ConnectedInv /\ [Next]_vars => ConnectedInv'
<1> SUFFICES ASSUME TrackerInv, OrdersInv, ConnectedInv, [Next]_vars PROVE ConnectedInv'
  OBVIOUS
<1>1. ASSUME UNCHANGED <<trackerVars, brokerVars>>, faults' \in {faults, faults + 1},
             awaitedPlant' \in {awaitedPlant, plantID},
             \/ pc' \in {"connect", "aborted"}
             \/ pc \notin {"connect", "aborted"}
             \/ awaited \in closed /\ awaitedPlant # NoClient
      PROVE  ConnectedInv'
  <2>1. UNCHANGED <<clientID, plantID, channel, closed, session, hooks>>
    BY <1>1 DEF trackerVars, brokerVars
  <2>2. faults = 0 /\ awaited \in closed => channel \in closed
    BY DEF ConnectedInv, TrackerInv
  <2>3. QED
    BY <1>1, <2>1, <2>2 DEF ConnectedInv
<1>2. CASE ScanSteps
  <2>1. UNCHANGED <<trackerVars, brokerVars, faults>>
    BY <1>2 DEF ScanSteps
  <2>2. awaitedPlant' \in {awaitedPlant, plantID}
    BY <1>2 DEF ScanSteps, Exchange, Connected, EnterExchange, Waiting, NotConnected, Publish,
                Receive, NoAnswer, WaitReady, WaitAgain, ReadyReturns, WaitGivesUp, Snapshot,
                waitVars
  <2>3. \/ pc' \in {"connect", "aborted"}
        \/ pc \notin {"connect", "aborted"}
        \/ awaited \in closed /\ awaitedPlant # NoClient
    BY <1>2 DEF ScanSteps, Exchange, Connected, EnterExchange, Waiting, NotConnected, Publish,
                Receive, NoAnswer, ReadyReturns
  <2>4. QED
    BY <1>1, <2>1, <2>2, <2>3
<1>3. CASE Timer
  BY <1>1, <1>3 DEF Timer, TimerFires, waitVars
<1>4. CASE Interrupted
  BY <1>1, <1>4 DEF Interrupted, Interrupt, waitVars
<1>5. CASE Work
  BY <1>1, <1>5 DEF Work, Execute, Deliver, scanUntouched, waitVars
<1>6. CASE DongleLeaves
  <2>1. faults' = faults + 1 /\ UNCHANGED <<clientID, plantID, awaitedPlant>>
    BY <1>6 DEF DongleLeaves, Disconnect, trackerVars, waitVars
  <2>2. QED
    BY <2>1 DEF ConnectedInv
<1>7. ASSUME NEW c \in Clients, Connect(c) \/ Subscribe(c), UNCHANGED <<pc, faults>>
      PROVE  ConnectedInv'
  <2>1. /\ UNCHANGED <<clientID, plantID, channel, closed, awaitedPlant>>
        /\ session[c] # "subscribed"
        /\ \A b \in Clients : b # c => session'[b] = session[b]
        /\ session'[c] \in {"connected", "subscribed"}
        /\ \A b \in Clients : "OnDisconnect" \notin hooks[b] => "OnDisconnect" \notin hooks'[b]
    BY <1>7 DEF Connect, Subscribe, trackerVars, waitVars, TrackerInv
  <2>2. QED
    BY <1>7, <2>1 DEF ConnectedInv, TrackerInv
<1>8. ASSUME NEW c \in Clients, OnSubscribed(c), UNCHANGED <<pc, faults>>
      PROVE  ConnectedInv'
  <2>1. /\ UNCHANGED <<channel, session, awaitedPlant>> /\ closed \subseteq closed'
        /\ session[c] = "subscribed"
        /\ \/ clientID' = c
           \/ UNCHANGED <<clientID, plantID>>
        /\ \A b \in Clients : "OnDisconnect" \notin hooks[b] => "OnDisconnect" \notin hooks'[b]
    BY <1>8 DEF OnSubscribed, waitVars, TrackerInv
  <2>2. c # NoClient
    BY TrackerAssumption
  <2>3. QED
    BY <1>8, <2>1, <2>2 DEF ConnectedInv
<1>9. ASSUME NEW c \in Clients, OnDisconnect(c), UNCHANGED <<pc, faults>>
      PROVE  ConnectedInv'
  BY <1>9 DEF OnDisconnect, waitVars, ConnectedInv
<1>10. CASE (DongleComes \/ Hooks) /\ UNCHANGED <<flags, faults>>
  BY <1>7, <1>8, <1>9, <1>10 DEF DongleComes, Hooks
<1>11. CASE UNCHANGED vars
  BY <1>11 DEF vars, trackerVars, brokerVars, waitVars, scanVars, dongleVars, ConnectedInv
<1>12. QED
  BY <1>2, <1>3, <1>4, <1>5, <1>6, <1>10, <1>11 DEF Next, Interrupted

(* While nothing went wrong and nobody interrupts the run, every exchange gets its *)
(* answer: the channel never overflows and the timer does not fire.                *)
LEMMA AnswersKept ==
  ASSUME ResponseCap > 0
  PROVE  TrackerInv /\ OrdersInv /\ ConnectedInv /\ AnswersInv /\ [Next]_vars => AnswersInv'
<1> SUFFICES ASSUME TrackerInv, OrdersInv, ConnectedInv, AnswersInv, [Next]_vars,
                    faults' = 0, ~cancelled'
             PROVE  /\ pc' \in {"connect", "probe", "waiting", "publish"} => NothingToCome'
                    /\ pc' = "receive" => AnswerToCome'
  BY DEF AnswersInv
<1>1. faults \in Nat /\ order \in Nat /\ ResponseCap \in Nat
  BY ScanAssumption DEF ConnectedInv, OrdersInv
<1>2. ASSUME faults = 0, ~cancelled
      PROVE  /\ pc \in {"connect", "probe", "waiting", "publish"} => NothingToCome
             /\ pc = "receive" => AnswerToCome
  BY <1>2 DEF AnswersInv
<1>3. ASSUME UNCHANGED <<faults, cancelled, pc, slot, inTransit, responses, order, timerOut>>
      PROVE  /\ pc' \in {"connect", "probe", "waiting", "publish"} => NothingToCome'
             /\ pc' = "receive" => AnswerToCome'
  BY <1>2, <1>3 DEF NothingToCome, AnswerToCome, OneAnswer
<1>4. ASSUME UNCHANGED <<faults, cancelled, slot, inTransit, responses>>,
             pc \in {"connect", "probe", "waiting"}, pc' # "receive"
      PROVE  /\ pc' \in {"connect", "probe", "waiting", "publish"} => NothingToCome'
             /\ pc' = "receive" => AnswerToCome'
  BY <1>2, <1>4 DEF NothingToCome
<1>5. CASE ScanSteps
  <2>1. UNCHANGED <<trackerVars, brokerVars, faults, cancelled>>
    BY <1>5 DEF ScanSteps, Exchange, Connected, EnterExchange, Waiting, NotConnected, Publish,
                Receive, NoAnswer
  <2>2. CASE Connected \/ EnterExchange
    BY <1>4, <2>1, <2>2 DEF Connected, EnterExchange
  <2>3. CASE Waiting
    BY <1>4, <2>1, <2>3 DEF Waiting
  <2>4. CASE NotConnected
    <3>1. pc' # "receive" /\ pc = "waiting"
      BY <2>4, ProbeMovesOn DEF NotConnected, OrdersInv
    <3>2. QED
      BY <1>4, <2>1, <2>4, <3>1 DEF NotConnected
  <2>5. CASE Publish
    <3>1. NothingToCome /\ session[clientID] = "subscribed"
      BY <1>2, <2>1, <2>5 DEF Publish, ConnectedInv
    <3>2. /\ responses' = <<>> /\ inTransit' = <<>> /\ order' = order + 1 /\ ~timerOut'
          /\ slot' = [order |-> order + 1, addr |-> addr] /\ pc' = "receive"
      BY <2>5, <3>1 DEF Publish, NothingToCome
    <3>3. slot'.order = order + 1 /\ slot' # NoRequest
      BY <1>1, <3>2 DEF NoRequest
    <3>4. QED
      BY <3>2, <3>3 DEF AnswerToCome, OneAnswer
  <2>6. CASE Receive
    <3>1. /\ pc = "receive" /\ responses # <<>> /\ responses' = Tail(responses)
          /\ UNCHANGED <<order, slot, inTransit>>
      BY <2>6 DEF Receive
    <3>2. slot = NoRequest /\ inTransit = <<>> /\ \E r : responses = <<r>> /\ r.order = order
      BY <1>2, <2>1, <3>1 DEF AnswerToCome, OneAnswer
    <3>3. IsAnswer(Head(responses)) /\ responses' = <<>>
      BY <3>1, <3>2 DEF IsAnswer
    <3>4. pc' # "receive"
      BY <2>6, <3>3, ProbeMovesOn DEF Receive, OrdersInv
    <3>5. QED
      BY <3>1, <3>2, <3>3, <3>4 DEF NothingToCome
  <2>7. CASE NoAnswer
    BY <1>2, <2>1, <2>7 DEF NoAnswer, AnswerToCome, OneAnswer
  <2>8. QED
    BY <1>5, <2>2, <2>3, <2>4, <2>5, <2>6, <2>7 DEF ScanSteps, Exchange
<1>6. CASE Timer
  <2>1. pc = "receive" /\ UNCHANGED <<slot, inTransit, responses, order, cancelled>>
    BY <1>6 DEF Timer, TimerFires
  <2>2. AnswerLost /\ faults = 0
    BY <1>1, <1>6 DEF Timer, TimerFires
  <2>3. AnswerToCome
    BY <1>2, <2>1, <2>2
  <2>4. ASSUME NEW r, inTransit = <<r>> \/ responses = <<r>>, r.order = order PROVE FALSE
    BY <2>2, <2>4 DEF AnswerLost, IsAnswer
  <2>5. QED
    BY <2>2, <2>3, <2>4 DEF AnswerToCome, OneAnswer, AnswerLost
<1>7. CASE Interrupted
  BY <1>7 DEF Interrupted, Interrupt
<1>8. CASE Work
  <2>1. /\ UNCHANGED <<trackerVars, brokerVars, pc, cancelled, order, timerOut>>
        /\ faults' \in {faults, faults + 1}
    BY <1>8 DEF Work, Execute, Deliver, scanUntouched
  <2>2. faults = 0 /\ faults' = faults /\ ~cancelled
    BY <1>1, <2>1
  <2>3. CASE Execute
    <3>1. slot # NoRequest /\ slot' = NoRequest /\ responses' = responses
      BY <2>3 DEF Execute
    <3>2. pc \notin {"connect", "probe", "waiting", "publish"}
      BY <1>2, <2>2, <3>1 DEF NothingToCome
    <3>3. CASE pc = "receive"
      <4>1. slot.order = order /\ inTransit = <<>> /\ responses = <<>> /\ ~timerOut
        BY <1>2, <2>2, <3>1, <3>3 DEF AnswerToCome, OneAnswer
      <4>2. session[clientID] = "subscribed"
        BY <2>2, <3>3 DEF ConnectedInv
      <4>3. PICK says : inTransit' = Append(inTransit, [order |-> slot.order,
                                                        addr |-> slot.addr, says |-> says])
        BY <2>3, <4>2 DEF Execute
      <4>4. inTransit' = <<[order |-> slot.order, addr |-> slot.addr, says |-> says]>>
        BY <4>1, <4>3
      <4>5. [order |-> slot.order, addr |-> slot.addr, says |-> says].order = order
        BY <4>1
      <4>6. \E r : inTransit' = <<r>> /\ r.order = order
        BY <4>4, <4>5
      <4>7. QED
        BY <2>1, <3>1, <3>3, <4>1, <4>6 DEF AnswerToCome, OneAnswer
    <3>4. QED
      BY <2>1, <3>2, <3>3
  <2>4. CASE Deliver
    <3>1. inTransit # <<>> /\ inTransit' = Tail(inTransit) /\ slot' = slot
      BY <1>1, <2>2, <2>4 DEF Deliver
    <3>2. pc \notin {"connect", "probe", "waiting", "publish"}
      BY <1>2, <2>2, <3>1 DEF NothingToCome
    <3>3. CASE pc = "receive"
      <4>1. /\ slot = NoRequest /\ responses = <<>> /\ ~timerOut
            /\ \E r : inTransit = <<r>> /\ r.order = order
        BY <1>2, <2>2, <3>1, <3>3 DEF AnswerToCome, OneAnswer
      <4>2. responses' = Append(responses, Head(inTransit))
        BY <1>1, <2>4, <4>1 DEF Deliver
      <4>3. inTransit' = <<>> /\ \E r : responses' = <<r>> /\ r.order = order
        BY <3>1, <4>1, <4>2
      <4>4. QED
        BY <2>1, <3>1, <3>3, <4>1, <4>3 DEF AnswerToCome, OneAnswer
    <3>4. QED
      BY <2>1, <3>2, <3>3
  <2>5. QED
    BY <1>8, <2>3, <2>4 DEF Work
<1>9. CASE DongleLeaves
  BY <1>1, <1>9 DEF DongleLeaves
<1>10. CASE (DongleComes \/ Hooks) /\ UNCHANGED <<flags, faults>>
  BY <1>3, <1>10 DEF DongleComes, Hooks
<1>11. CASE UNCHANGED vars
  BY <1>3, <1>11 DEF vars, scanVars, dongleVars
<1>12. QED
  BY <1>5, <1>6, <1>7, <1>8, <1>9, <1>10, <1>11 DEF Next, Interrupted

(* What comes back about a device is its frame, as long as nothing went wrong, and  *)
(* when it is asked for the second time.                                           *)
Faithful ==
  {r \in TrueResponses :
     /\ faults = 0 \/ (pc = "receive" /\ r.order = order /\ reading = "ident" /\ attempt = 2)
     /\ r.addr \in devices
     => r.says = "frame"}

(* A device is asked a second time only after something went wrong. *)
MissInv ==
  /\ devices \subseteq Addresses
  /\ responses \in Seq(Faithful) /\ inTransit \in Seq(Faithful)
  /\ reading = "ident" /\ attempt = 2 /\ addr \in devices => faults # 0
  /\ NoDeviceMissed

(* Faults do not go away, and a new exchange has a new order. *)
LEMMA StillFaithful ==
  ASSUME OrdersInv, MissInv, devices' = devices, faults \in Nat,
         faults' \in {faults, faults + 1},
         \/ pc' # "receive" /\ order' = order
         \/ order' = order + 1
         \/ UNCHANGED <<pc, order, addr, reading, attempt>>
  PROVE  /\ Faithful \subseteq Faithful'
         /\ responses \in Seq(Faithful') /\ inTransit \in Seq(Faithful')
<1>1. TrueResponses \subseteq TrueResponses'
  BY StillTrue
<1>2. ASSUME NEW r \in Faithful PROVE r \in Faithful'
  <2>1. /\ r \in TrueResponses' /\ r.order \in Nat /\ r.order <= order /\ order \in Nat
        /\ faults' = 0 => faults = 0
    BY <1>1, <1>2 DEF Faithful, TrueResponses, Current, OrdersInv
  <2>2. pc' = "receive" /\ r.order = order' => UNCHANGED <<pc, order, addr, reading, attempt>>
    BY <2>1
  <2>3. QED
    BY <1>2, <2>1, <2>2 DEF Faithful
<1>3. QED
  BY <1>2, SeqMonotonic DEF MissInv

(* The results when an exchange is over: only a device that is silent when it is    *)
(* asked the second time could be missed.                                          *)
LEMMA NoneIsMissed ==
  ASSUME OrdersInv, MissInv, devices' = devices, faults' = faults,
         \/ \E from : GotFrame(from)
         \/ /\ GotGarbled \/ GotBusTimeout
            /\ addr \in devices => faults # 0 /\ ~(reading = "ident" /\ attempt = 2)
         \/ ToolError /\ (~cancelled => faults # 0)
  PROVE  /\ NoDeviceMissed'
         /\ reading' = "ident" /\ attempt' = 2 /\ addr' \in devices => faults # 0
<1>1. /\ reading \in {"ident", "soc"} /\ attempt \in {1, 2}
      /\ results \in [Addresses -> Entries] /\ devices \subseteq Addresses
      /\ \A a \in devices : results[a].is # "silent"
      /\ reading = "ident" /\ attempt = 2 /\ addr \in devices => faults # 0
  BY DEF OrdersInv, MissInv, NoDeviceMissed
<1>2. ASSUME NEW found, results' = [results EXCEPT ![addr] = found],
             addr \in devices => found.is # "silent"
      PROVE  NoDeviceMissed'
  <2>1. \A a \in devices : results'[a] = IF a = addr THEN found ELSE results[a]
    BY <1>1, <1>2
  <2>2. QED
    BY <1>1, <1>2, <2>1 DEF NoDeviceMissed
<1>3. CASE SocRead
  <2>1. results' = results /\ attempt' = 1
    BY <1>1, <1>3 DEF SocRead, NextAddress
  <2>2. QED
    BY <1>1, <2>1 DEF NoDeviceMissed
<1>4. CASE Garbled \/ (Silent /\ addr \notin devices)
  <2>1. PICK kind \in {"silent", "garbled"} :
          /\ results' = [results EXCEPT ![addr] = [is |-> kind, from |-> 0]]
          /\ addr \in devices => kind = "garbled"
    BY <1>4 DEF Silent, Garbled, NextAddress
  <2>2. [is |-> kind, from |-> 0].is = kind
    OBVIOUS
  <2>3. NoDeviceMissed'
    BY <1>2, <2>1, <2>2
  <2>4. attempt' = 1
    BY <1>4 DEF Silent, Garbled, NextAddress
  <2>5. QED
    BY <2>3, <2>4
<1>5. ASSUME NEW from, Identified(from)
      PROVE  NoDeviceMissed' /\ (reading' = "ident" => attempt' = 1)
  <2>1. [is |-> "ident", from |-> from].is # "silent"
    OBVIOUS
  <2>2. /\ results' = [results EXCEPT ![addr] = [is |-> "ident", from |-> from]]
        /\ reading' = "ident" => attempt' = 1
    BY <1>5 DEF Identified, NextAddress
  <2>3. QED
    BY <1>2, <2>1, <2>2
<1>6. ASSUME NEW note, Retry(note), addr \in devices => faults # 0
      PROVE  NoDeviceMissed' /\ (addr' \in devices => faults # 0)
  BY <1>1, <1>6 DEF Retry, NoDeviceMissed
<1>7. CASE Abort
  BY <1>1, <1>7 DEF Abort, NoDeviceMissed
<1>8. CASE \E from : GotFrame(from)
  BY <1>3, <1>5, <1>8 DEF GotFrame
<1>9. CASE /\ GotGarbled \/ GotBusTimeout
           /\ addr \in devices => faults # 0 /\ ~(reading = "ident" /\ attempt = 2)
  <2>1. \/ SocRead \/ Garbled
        \/ reading = "ident" /\ attempt = 2 /\ Silent
        \/ \E note : Retry(note)
    BY <1>1, <1>9, ProbeCases
  <2>2. QED
    BY <1>3, <1>4, <1>6, <1>9, <2>1
<1>10. CASE ToolError /\ (~cancelled => faults # 0)
  <2>1. SocRead \/ Abort \/ (~cancelled /\ \E note : Retry(note))
    BY <1>1, <1>10, ProbeCases
  <2>2. QED
    BY <1>3, <1>6, <1>7, <1>10, <2>1
<1>11. QED
  BY <1>8, <1>9, <1>10

(* With one fault at most, every step keeps a device from being missed. *)
LEMMA MissKept ==
  ASSUME MaxFaults <= 1
  PROVE  /\ TrackerInv /\ OrdersInv /\ ConnectedInv /\ AnswersInv /\ MissInv
         /\ [Next]_vars
         => MissInv'
<1> SUFFICES ASSUME TrackerInv, OrdersInv, ConnectedInv, AnswersInv, MissInv, [Next]_vars
             PROVE  MissInv'
  OBVIOUS
<1>0. faults \in Nat /\ MaxFaults \in Nat
  BY ScanAssumption DEF ConnectedInv
<1>1. ASSUME UNCHANGED <<addr, reading, attempt, results>>, devices' = devices,
             faults' \in {faults, faults + 1},
             responses' \in Seq(Faithful'), inTransit' \in Seq(Faithful')
      PROVE  MissInv'
  <2>1. faults' = 0 => faults = 0
    BY <1>0, <1>1
  <2>2. QED
    BY <1>1, <2>1 DEF MissInv, NoDeviceMissed
<1>2. ASSUME UNCHANGED <<addr, reading, attempt, results>>, devices' = devices,
             faults' \in {faults, faults + 1},
             (pc' # "receive" /\ order' = order) \/ UNCHANGED <<pc, order>>,
             UNCHANGED <<responses, inTransit>>
      PROVE  MissInv'
  <2>1. responses \in Seq(Faithful') /\ inTransit \in Seq(Faithful')
    BY <1>0, <1>2, StillFaithful
  <2>2. QED
    BY <1>1, <1>2, <2>1
<1>3. ASSUME \/ \E from : GotFrame(from)
             \/ /\ GotGarbled \/ GotBusTimeout
                /\ addr \in devices => faults # 0 /\ ~(reading = "ident" /\ attempt = 2)
             \/ ToolError /\ (~cancelled => faults # 0),
             devices' = devices, UNCHANGED <<order, inTransit, faults>>,
             \/ responses' = responses
             \/ responses # <<>> /\ responses' = Tail(responses)
      PROVE  MissInv'
  <2>1. /\ NoDeviceMissed'
        /\ reading' = "ident" /\ attempt' = 2 /\ addr' \in devices => faults # 0
    BY <1>3, NoneIsMissed
  <2>2. pc' # "receive"
    BY <1>3, ProbeMovesOn DEF OrdersInv
  <2>3. responses \in Seq(Faithful') /\ inTransit \in Seq(Faithful')
    BY <1>0, <1>3, <2>2, StillFaithful
  <2>4. responses' \in Seq(Faithful')
    BY <1>3, <2>3, HeadTailProperties
  <2>5. QED
    BY <1>3, <2>1, <2>3, <2>4 DEF MissInv
<1>4. CASE ScanSteps
  <2>1. devices' = devices /\ faults' = faults
    BY <1>4 DEF ScanSteps, flags
  <2>2. CASE Connected \/ EnterExchange \/ Waiting
    BY <1>2, <2>1, <2>2 DEF Connected, EnterExchange, Waiting, probeVars
  <2>3. CASE NotConnected
    <3>1. ToolError /\ UNCHANGED <<order, inTransit, responses>>
      BY <2>3 DEF NotConnected
    <3>2. ~cancelled => faults # 0
      BY <2>3 DEF NotConnected, ConnectedInv, IsReady
    <3>3. QED
      BY <1>3, <2>1, <3>1, <3>2
  <2>4. CASE NoAnswer
    <3>1. ToolError /\ UNCHANGED <<order, inTransit, responses>>
      BY <2>4 DEF NoAnswer
    <3>2. ~cancelled => faults # 0
      BY <2>4 DEF NoAnswer, AnswersInv, AnswerToCome
    <3>3. QED
      BY <1>3, <2>1, <3>1, <3>2
  <2>5. CASE Publish
    <3>1. /\ responses' = <<>> /\ order' = order + 1 /\ inTransit' = inTransit
          /\ UNCHANGED <<addr, reading, attempt, results>>
      BY <2>5 DEF Publish, probeVars
    <3>2. inTransit \in Seq(Faithful')
      BY <1>0, <2>1, <3>1, StillFaithful
    <3>3. responses' \in Seq(Faithful')
      BY <3>1, EmptySeq
    <3>4. QED
      BY <1>1, <2>1, <3>1, <3>2, <3>3
  <2>6. CASE Receive
    <3> DEFINE response == Head(responses)
    <3>1. /\ pc = "receive" /\ responses # <<>> /\ responses' = Tail(responses)
          /\ UNCHANGED <<order, inTransit>>
      BY <2>6 DEF Receive
    <3>2. response \in Faithful
      BY <3>1, HeadTailProperties DEF MissInv
    <3>3. CASE ~IsAnswer(response) /\ UNCHANGED <<pc, probeVars>>
      <4>1. UNCHANGED <<pc, order, addr, reading, attempt, results>>
        BY <3>1, <3>3 DEF probeVars
      <4>2. responses \in Seq(Faithful') /\ inTransit \in Seq(Faithful')
        BY <1>0, <2>1, <4>1, StillFaithful
      <4>3. responses' \in Seq(Faithful')
        BY <3>1, <4>2, HeadTailProperties
      <4>4. QED
        BY <1>1, <2>1, <3>1, <4>1, <4>2, <4>3
    <3>4. CASE \E from : GotFrame(from)
      BY <1>3, <2>1, <3>1, <3>4
    <3>5. CASE IsAnswer(response) /\ response.says # "frame" /\ (GotGarbled \/ GotBusTimeout)
      <4>1. response.order = order /\ response.addr = addr
        BY <3>1, <3>2, <3>5 DEF Faithful, TrueResponses, Current, IsAnswer
      <4>2. addr \in devices => faults # 0 /\ ~(reading = "ident" /\ attempt = 2)
        BY <3>1, <3>2, <3>5, <4>1 DEF Faithful
      <4>3. QED
        BY <1>3, <2>1, <3>1, <3>5, <4>2
    <3>6. QED
      BY <2>6, <3>3, <3>4, <3>5 DEF Receive
  <2>7. QED
    BY <1>4, <2>2, <2>3, <2>4, <2>5, <2>6 DEF ScanSteps, Exchange
<1>5. CASE Timer
  BY <1>2, <1>5 DEF Timer, TimerFires, flags
<1>6. CASE Interrupted
  BY <1>2, <1>6 DEF Interrupted, Interrupt, probeVars, flags
<1>7. CASE Work
  <2>1. UNCHANGED <<pc, addr, order, reading, attempt, results>> /\ devices' = devices
    BY <1>7 DEF Work, Execute, Deliver, scanUntouched, flags
  <2>2. faults' \in {faults, faults + 1}
    BY <1>7 DEF Work, Execute, Deliver
  <2>3. Faithful \subseteq Faithful' /\ responses \in Seq(Faithful') /\ inTransit \in Seq(Faithful')
    BY <1>0, <2>1, <2>2, StillFaithful
  <2>4. CASE Execute
    <3>1. slot # NoRequest /\ responses' = responses /\ slot \in OwnRequests
      BY <2>4 DEF Execute, OrdersInv
    <3>2. PICK says \in {Truth(slot.addr)} \cup Slips(slot.addr) :
            /\ says # Truth(slot.addr) => faults < MaxFaults /\ faults' = faults + 1
            /\ inTransit' \in {inTransit, Append(inTransit, [order |-> slot.order,
                                                             addr |-> slot.addr,
                                                             says |-> says])}
      BY <2>4 DEF Execute
    <3> DEFINE response == [order |-> slot.order, addr |-> slot.addr, says |-> says]
    <3>3. /\ says \in {"frame", "garbled", "timeout"}
          /\ says = "frame" => slot.addr \in devices
          /\ slot.addr \in devices /\ says # "frame" => faults = 0 /\ faults' # 0
      BY <1>0, <3>2 DEF Truth, Slips
    <3>4. response \in TrueResponses'
      <4>1. response \in TrueResponses
        BY <3>1, <3>3 DEF OwnRequests, TrueResponses, Current
      <4>2. QED
        BY <2>1, <4>1, StillTrue
    <3>5. ASSUME slot.addr \in devices, says # "frame", pc = "receive", slot.order = order,
                 reading = "ident", attempt = 2
          PROVE  FALSE
      <4>1. slot.addr = addr
        BY <3>1, <3>5 DEF OwnRequests, Current
      <4>2. QED
        BY <3>3, <3>5, <4>1 DEF MissInv
    <3>6. response \in Faithful'
      BY <2>1, <3>3, <3>4, <3>5 DEF Faithful
    <3>7. inTransit' \in Seq(Faithful')
      BY <2>3, <3>2, <3>6, AppendProperties
    <3>8. QED
      BY <1>1, <2>1, <2>2, <2>3, <3>1, <3>7
  <2>5. CASE Deliver
    <3>1. /\ inTransit # <<>> /\ inTransit' \in {inTransit, Tail(inTransit)}
          /\ responses' \in {responses, Append(responses, Head(inTransit))}
      BY <2>5 DEF Deliver
    <3>2. inTransit' \in Seq(Faithful') /\ Head(inTransit) \in Faithful'
      BY <2>3, <3>1, HeadTailProperties
    <3>3. responses' \in Seq(Faithful')
      BY <2>3, <3>1, <3>2, AppendProperties
    <3>4. QED
      BY <1>1, <2>1, <2>2, <3>2, <3>3
  <2>6. QED
    BY <1>7, <2>4, <2>5 DEF Work
<1>8. CASE DongleLeaves /\ UNCHANGED flags
  <2>1. /\ UNCHANGED <<pc, addr, order, reading, attempt, results, responses>>
        /\ devices' = devices /\ faults' = faults + 1 /\ inTransit' = <<>>
    BY <1>8 DEF DongleLeaves, flags
  <2>2. responses \in Seq(Faithful')
    BY <1>0, <2>1, StillFaithful
  <2>3. inTransit' \in Seq(Faithful')
    BY <2>1, EmptySeq
  <2>4. QED
    BY <1>1, <2>1, <2>2, <2>3
<1>9. CASE (DongleComes \/ Hooks) /\ UNCHANGED <<flags, faults>>
  BY <1>2, <1>9 DEF DongleComes, Hooks, probeVars, flags
<1>10. CASE UNCHANGED vars
  BY <1>2, <1>10 DEF vars, scanVars, dongleVars, flags
<1>11. QED
  BY <1>4, <1>5, <1>6, <1>7, <1>8, <1>9, <1>10 DEF Next, Interrupted

(* At first nothing went wrong, nothing is under way and nothing is recorded. *)
LEMMA ScanStarts == Init => ConnectedInv /\ AnswersInv /\ MissInv
<1> SUFFICES ASSUME Init PROVE ConnectedInv /\ AnswersInv /\ MissInv
  OBVIOUS
<1>1. /\ faults = 0 /\ pc = "connect" /\ attempt = 1 /\ channel = 0
      /\ clientID = NoClient /\ plantID = NoClient /\ awaitedPlant = NoClient
      /\ hooks = [c \in Clients |-> {}] /\ devices \subseteq Addresses
      /\ slot = NoRequest /\ inTransit = <<>> /\ responses = <<>>
      /\ results = [a \in Addresses |-> Nothing]
  BY DEF Init, TrackerInit
<1>2. ConnectedInv
  BY <1>1 DEF ConnectedInv
<1>3. AnswersInv
  BY <1>1 DEF AnswersInv, NothingToCome
<1>4. NoDeviceMissed
  BY <1>1 DEF NoDeviceMissed, Nothing
<1>5. MissInv
  BY <1>1, <1>4, EmptySeq DEF MissInv
<1>6. QED
  BY <1>2, <1>3, <1>5

(* One thing going wrong during the scan never hides a device it comes to: a lost,  *)
(* late or repeated response, a bus timeout, a damaged frame or a restart of the    *)
(* dongle (scan.go:120-158).                                                        *)
THEOREM OneFaultHidesNoDevice ==
  ASSUME MaxFaults <= 1, ResponseCap > 0
  PROVE  Spec => []NoDeviceMissed
<1> DEFINE Inv == TrackerInv /\ FoundInv /\ ConnectedInv /\ AnswersInv /\ MissInv
<1>1. Init => Inv
  BY TrackerStarts, FoundStarts, ScanStarts
<1>2. Inv /\ [Next]_vars => Inv'
  <2>1. FoundInv => OrdersInv
    BY DEF FoundInv
  <2>2. QED
    BY <2>1, TrackerKept, FoundKept, ConnectedKept, AnswersKept, MissKept
<1>3. Inv => NoDeviceMissed
  BY DEF MissInv
<1>4. QED
  BY <1>1, <1>2, <1>3, PTL DEF Spec

-----------------------------------------------------------------------------
(* The types *)

(* A channel is replaced only by a hook whose disconnect there was room for. *)
TrackerBounds ==
  /\ plantID \in Plants /\ awaitedPlant \in Plants /\ waiting \in BOOLEAN
  /\ channel <= MaxChannels
  /\ \A c \in Clients : "OnDisconnect" \in hooks[c] => MaxChannels > 0
  /\ clientID = NoClient => channel = 0
  /\ clientID # NoClient /\ "OnDisconnect" \in hooks[clientID] => channel < MaxChannels

(* The tracker keeps its types. *)
LEMMA BoundsKept == TrackerInv /\ TrackerBounds /\ [Next]_vars => TrackerBounds'
<1> SUFFICES ASSUME TrackerInv, TrackerBounds, [Next]_vars PROVE TrackerBounds'
  OBVIOUS
<1> USE TrackerAssumption
<1>1. ASSUME UNCHANGED <<trackerVars, brokerVars>>, awaitedPlant' \in {awaitedPlant, plantID},
             waiting' \in BOOLEAN
      PROVE  TrackerBounds'
  BY <1>1 DEF TrackerBounds, trackerVars, brokerVars
<1>2. CASE ScanSteps
  <2>1. UNCHANGED <<trackerVars, brokerVars>> /\ waiting \in BOOLEAN
    BY <1>2 DEF ScanSteps, TrackerBounds
  <2>2. awaitedPlant' \in {awaitedPlant, plantID} /\ waiting' \in BOOLEAN
    BY <1>2, <2>1 DEF ScanSteps, Exchange, Connected, EnterExchange, Waiting, NotConnected,
                      Publish, Receive, NoAnswer, WaitReady, WaitAgain, ReadyReturns,
                      WaitGivesUp, Snapshot, waitVars
  <2>3. QED
    BY <1>1, <2>1, <2>2
<1>3. CASE Timer \/ Interrupted \/ Work \/ UNCHANGED vars
  <2>1. UNCHANGED <<trackerVars, brokerVars, waitVars>>
    BY <1>3 DEF Timer, TimerFires, Interrupted, Interrupt, Work, Execute, Deliver,
                scanUntouched, vars
  <2>2. QED
    BY <1>1, <2>1 DEF waitVars, TrackerBounds
<1>4. ASSUME NEW c \in Clients, Connect(c) PROVE TrackerBounds'
  BY <1>4 DEF Connect, TrackerBounds, trackerVars, waitVars
<1>5. ASSUME NEW c \in Clients, Subscribe(c) PROVE TrackerBounds'
  BY <1>5 DEF Subscribe, TrackerBounds, TrackerInv, trackerVars, waitVars
<1>6. ASSUME NEW c \in Clients, Disconnect(c) PROVE TrackerBounds'
  <2>1. /\ channel < MaxChannels /\ channel \in Nat /\ MaxChannels \in Nat
        /\ hooks' = [hooks EXCEPT ![c] = {"OnDisconnect"}]
        /\ UNCHANGED <<trackerVars, waitVars>>
    BY <1>6 DEF Disconnect, TrackerInv
  <2>2. QED
    BY <2>1 DEF TrackerBounds, TrackerInv, trackerVars, waitVars
<1>7. ASSUME NEW c \in Clients, OnSubscribed(c) PROVE TrackerBounds'
  <2>1. /\ hooks' = [hooks EXCEPT ![c] = @ \ {"OnSubscribed"}]
        /\ UNCHANGED <<channel, waiting, awaitedPlant>>
        /\ \/ clientID = NoClient /\ clientID' = c /\ plantID' = PlantOf[c]
           \/ clientID # NoClient /\ UNCHANGED <<clientID, plantID>>
    BY <1>7 DEF OnSubscribed, waitVars
  <2>2. /\ \A b \in Clients : "OnDisconnect" \in hooks'[b] => "OnDisconnect" \in hooks[b]
        /\ PlantOf[c] \in Plants
    BY <2>1 DEF TrackerInv, Plants
  <2>3. QED
    BY <2>1, <2>2 DEF TrackerBounds, TrackerInv
<1>8. ASSUME NEW c \in Clients, OnDisconnect(c) PROVE TrackerBounds'
  <2>1. /\ hooks' = [hooks EXCEPT ![c] = @ \ {"OnDisconnect"}] /\ "OnDisconnect" \in hooks[c]
        /\ channel' = IF clientID = c /\ IsReady THEN channel + 1 ELSE channel
        /\ UNCHANGED <<clientID, plantID, waiting, awaitedPlant>>
    BY <1>8 DEF OnDisconnect, waitVars
  <2>2. /\ \A b \in Clients : "OnDisconnect" \in hooks'[b] => "OnDisconnect" \in hooks[b]
        /\ "OnDisconnect" \notin hooks'[c] /\ c # NoClient
    BY <2>1 DEF TrackerInv
  <2>3. CASE clientID = c
    BY <2>1, <2>2, <2>3 DEF TrackerBounds, TrackerInv
  <2>4. CASE clientID # c
    BY <2>1, <2>2, <2>4 DEF TrackerBounds, TrackerInv
  <2>5. QED
    BY <2>3, <2>4
<1>9. CASE DongleLeaves \/ DongleComes \/ Hooks
  BY <1>4, <1>5, <1>6, <1>7, <1>8, <1>9 DEF DongleLeaves, DongleComes, Hooks
<1>10. QED
  BY <1>2, <1>3, <1>9 DEF Next, Interrupted

(* The requests that the probed address has cost so far. *)
Spent == (IF reading = "ident" THEN attempt - 1 ELSE 2)
         + (IF pc \in {"receive", "aborted"} THEN 1 ELSE 0)

(* An address costs three requests at most, and there is none behind the last one. *)
ScanBounds ==
  /\ pc \in {"connect", "probe", "waiting", "publish", "receive", "done", "aborted"}
  /\ addr \in 1..(Last + 1) /\ reading \in {"ident", "soc"} /\ attempt \in {1, 2}
  /\ addr = Last + 1 => pc = "done" /\ reading = "ident" /\ attempt = 1
  /\ order \in Nat /\ order <= 3 * (addr - 1) + Spent

MessagesTyped ==
  /\ full \in BOOLEAN /\ readSOC \in BOOLEAN /\ cancelled \in BOOLEAN
  /\ lastNote \in BOOLEAN /\ timerOut \in BOOLEAN
  /\ responses \in Seq(Response) /\ Len(responses) <= ResponseCap
  /\ results \in [Addresses -> Found] /\ devices \subseteq Addresses
  /\ slot \in Requests /\ inTransit \in Seq(Response) /\ faults \in 0..MaxFaults

(* What the scan has cost is within the order numbers. *)
LEMMA OrdersSuffice ==
  ASSUME ScanBounds
  PROVE  /\ order \in Orders
         /\ pc \in {"connect", "probe", "waiting", "publish", "receive"} => addr \in 1..Last
         /\ pc = "publish" => order + 1 \in Orders
<1>1. Last \in Nat /\ Last > 0
  BY ScanAssumption
<1>2. Spent \in 0..3 /\ (pc = "publish" => Spent \in 0..2)
  BY DEF Spent, ScanBounds
<1>3. addr = Last + 1 => Spent = 0
  BY DEF Spent, ScanBounds
<1>4. addr \in Nat /\ (addr <= Last \/ addr = Last + 1)
  BY <1>1 DEF ScanBounds
<1> DEFINE spent == Spent
<1>5. order \in Nat /\ order <= 3 * (addr - 1) + spent /\ spent \in 0..3
  BY <1>2 DEF ScanBounds
<1>6. pc # "done" => addr \in 1..Last
  BY <1>1, <1>4 DEF ScanBounds
<1> HIDE DEF spent
<1>7. order <= 3 * Last
  <2>1. addr = Last + 1 => spent = 0
    BY <1>3 DEF spent
  <2>2. QED
    BY <1>1, <1>4, <1>5, <2>1
<1>8. ASSUME pc = "publish" PROVE order + 1 <= 3 * Last
  <2>1. spent <= 2 /\ addr <= Last
    BY <1>1, <1>2, <1>6, <1>8 DEF spent
  <2>2. QED
    BY <1>1, <1>4, <1>5, <2>1
<1>9. QED
  BY <1>1, <1>5, <1>6, <1>7, <1>8 DEF Orders

(* However an exchange ends, its address or the next one has paid for it. *)
LEMMA OutcomeTyped ==
  ASSUME ScanBounds, MessagesTyped, pc \in {"waiting", "receive"},
         \/ \E from \in 0..Last : GotFrame(from)
         \/ GotGarbled \/ GotBusTimeout \/ ToolError,
         order' = order
  PROVE  ScanBounds' /\ results' \in [Addresses -> Found] /\ lastNote' \in BOOLEAN
<1>1. /\ Last \in Nat /\ addr \in 1..Last /\ order \in Nat
      /\ reading \in {"ident", "soc"} /\ attempt \in {1, 2}
      /\ order <= 3 * (addr - 1) + Spent
      /\ results \in [Addresses -> Found] /\ lastNote \in BOOLEAN
  BY ScanAssumption, OrdersSuffice DEF ScanBounds, MessagesTyped
<1>2. Spent <= 3 /\ (reading = "ident" => Spent <= attempt) /\ Spent \in Nat
  BY <1>1 DEF Spent
<1>3. ASSUME NEW found \in Found, NEW stop \in BOOLEAN, NextAddress(found, stop)
      PROVE  ScanBounds' /\ results' \in [Addresses -> Found] /\ lastNote' \in BOOLEAN
  <2>1. /\ addr' = addr + 1 /\ reading' = "ident" /\ attempt' = 1 /\ lastNote' = FALSE
        /\ results' = [results EXCEPT ![addr] = found]
        /\ pc' \in {"probe", "done"} /\ (addr = Last => pc' = "done")
    BY <1>3 DEF NextAddress
  <2>2. Spent' = 0
    BY <2>1 DEF Spent
  <2>3. order' <= 3 * (addr' - 1) + Spent' /\ addr' \in 1..(Last + 1)
        /\ (addr' = Last + 1 => addr = Last)
    BY <1>1, <1>2, <2>1, <2>2
  <2>4. QED
    BY <1>1, <2>1, <2>3 DEF ScanBounds
<1>4. ASSUME reading = "ident", attempt = 1, NEW note \in BOOLEAN, Retry(note)
      PROVE  ScanBounds' /\ results' \in [Addresses -> Found] /\ lastNote' \in BOOLEAN
  <2>1. /\ addr' = addr /\ reading' = "ident" /\ attempt' = 2 /\ lastNote' = note
        /\ results' = results /\ pc' = "probe"
    BY <1>4 DEF Retry
  <2>2. Spent' = 1 /\ Spent <= 1
    BY <1>2, <1>4, <2>1 DEF Spent
  <2>3. order' <= 3 * (addr' - 1) + Spent' /\ addr' # Last + 1
    BY <1>1, <1>2, <2>1, <2>2
  <2>4. QED
    BY <1>1, <2>1, <2>3 DEF ScanBounds
<1>5. ASSUME Abort
      PROVE  ScanBounds' /\ results' \in [Addresses -> Found] /\ lastNote' \in BOOLEAN
  <2>1. pc' = "aborted" /\ UNCHANGED <<addr, reading, attempt, lastNote, results>>
    BY <1>5 DEF Abort
  <2>2. Spent <= Spent' /\ Spent' \in Nat
    BY <1>1, <2>1 DEF Spent
  <2>3. addr' # Last + 1
    BY <1>1, <2>1
  <2>4. \A a, b, c, n \in Nat : n <= 3 * (a - 1) + b /\ b <= c => n <= 3 * (a - 1) + c
    OBVIOUS
  <2>5. addr \in Nat /\ Spent \in Nat /\ order \in Nat
    BY <1>1, <1>2
  <2>6. order <= 3 * (addr - 1) + Spent'
    BY <1>1, <2>2, <2>4, <2>5
  <2>7. QED
    BY <1>1, <2>1, <2>3, <2>6 DEF ScanBounds
<1>6. ASSUME SocRead
      PROVE  ScanBounds' /\ results' \in [Addresses -> Found] /\ lastNote' \in BOOLEAN
  BY <1>1, <1>3, <1>6 DEF SocRead, Addresses
<1>7. ASSUME NEW from \in 0..Last, reading = "ident", Identified(from)
      PROVE  ScanBounds' /\ results' \in [Addresses -> Found] /\ lastNote' \in BOOLEAN
  <2>1. [is |-> "ident", from |-> from] \in Found
    BY DEF Found
  <2>2. CASE NextAddress([is |-> "ident", from |-> from], FALSE)
    BY <1>3, <2>1, <2>2
  <2>3. CASE ~NextAddress([is |-> "ident", from |-> from], FALSE)
    <3>1. /\ results' = [results EXCEPT ![addr] = [is |-> "ident", from |-> from]]
          /\ reading' = "soc" /\ pc' = "probe" /\ UNCHANGED <<addr, attempt, lastNote>>
      BY <1>7, <2>3 DEF Identified
    <3>2. Spent' = 2 /\ Spent <= 2
      BY <1>1, <1>2, <1>7, <3>1 DEF Spent
    <3>3. order' <= 3 * (addr' - 1) + Spent' /\ addr' # Last + 1
      BY <1>1, <1>2, <3>1, <3>2
    <3>4. QED
      BY <1>1, <2>1, <3>1, <3>3 DEF ScanBounds
  <2>4. QED
    BY <2>2, <2>3
<1>8. /\ [is |-> "silent", from |-> 0] \in Found /\ [is |-> "garbled", from |-> 0] \in Found
      /\ (~full) \in BOOLEAN
  BY <1>1 DEF Found, MessagesTyped
<1>9. ASSUME Silent \/ Garbled
      PROVE  ScanBounds' /\ results' \in [Addresses -> Found] /\ lastNote' \in BOOLEAN
  BY <1>3, <1>8, <1>9 DEF Silent, Garbled
<1>10. CASE \E from \in 0..Last : GotFrame(from)
  <2>1. PICK from \in 0..Last : GotFrame(from)
    BY <1>10
  <2>2. \/ reading = "soc" /\ SocRead
        \/ reading = "ident" /\ Identified(from)
    BY <1>1, <2>1 DEF GotFrame
  <2>3. QED
    BY <1>6, <1>7, <2>2
<1>11. CASE GotGarbled
  BY <1>1, <1>4, <1>6, <1>9, <1>11 DEF GotGarbled
<1>12. CASE GotBusTimeout
  BY <1>1, <1>4, <1>6, <1>9, <1>12 DEF GotBusTimeout
<1>13. CASE ToolError
  BY <1>1, <1>4, <1>5, <1>6, <1>13 DEF ToolError
<1>14. QED
  BY <1>10, <1>11, <1>12, <1>13

(* Every step keeps the bounds of the scan and the types of the messages. *)
LEMMA ScanTypesKept ==
  ScanBounds /\ MessagesTyped /\ [Next]_vars => ScanBounds' /\ MessagesTyped'
<1> SUFFICES ASSUME ScanBounds, MessagesTyped, [Next]_vars
             PROVE  ScanBounds' /\ MessagesTyped'
  OBVIOUS
<1> USE ScanAssumption
<1>1. /\ Last \in Nat /\ ResponseCap \in Nat /\ MaxFaults \in Nat
      /\ pc \in {"connect", "probe", "waiting", "publish", "receive"} => addr \in 1..Last
  BY OrdersSuffice
<1>2. ASSUME UNCHANGED <<addr, reading, attempt, order>>,
             \/ pc' = pc
             \/ /\ pc \in {"connect", "probe", "waiting"}
                /\ pc' \in {"probe", "waiting", "publish", "aborted"}
      PROVE  ScanBounds'
  <2>1. Spent \in 0..3 /\ Spent' \in 0..3 /\ Spent <= Spent'
    BY <1>2 DEF Spent, ScanBounds
  <2>2. addr \in Nat /\ order \in Nat /\ order <= 3 * (addr - 1) + Spent
    BY DEF ScanBounds
  <2>3. \A a, b, c, n \in Nat : n <= 3 * (a - 1) + b /\ b <= c => n <= 3 * (a - 1) + c
    OBVIOUS
  <2>4. Spent \in Nat /\ Spent' \in Nat
    BY <2>1
  <2>5. order <= 3 * (addr - 1) + Spent'
    BY <2>1, <2>2, <2>3, <2>4
  <2>6. addr = Last + 1 => pc' = "done" /\ reading = "ident" /\ attempt = 1
    BY <1>2 DEF ScanBounds
  <2>7. QED
    BY <1>2, <2>5, <2>6 DEF ScanBounds
<1>3. ASSUME UNCHANGED <<flags, lastNote, results, slot, inTransit, faults, responses>>,
             cancelled' \in BOOLEAN, timerOut' \in BOOLEAN
      PROVE  MessagesTyped'
  BY <1>3 DEF MessagesTyped, flags
<1>4. ASSUME pc \in {"waiting", "receive"},
             \/ \E from \in 0..Last : GotFrame(from)
             \/ GotGarbled \/ GotBusTimeout \/ ToolError,
             UNCHANGED <<order, cancelled, timerOut, flags, slot, inTransit, faults>>,
             responses' \in Seq(Response), Len(responses') <= ResponseCap
      PROVE  ScanBounds' /\ MessagesTyped'
  <2>1. ScanBounds' /\ results' \in [Addresses -> Found] /\ lastNote' \in BOOLEAN
    BY <1>4, OutcomeTyped
  <2>2. QED
    BY <1>4, <2>1 DEF MessagesTyped, flags
<1>5. CASE ScanSteps
  <2>1. UNCHANGED <<flags, faults>>
    BY <1>5 DEF ScanSteps
  <2>2. responses \in Seq(Response) /\ Len(responses) <= ResponseCap
        /\ cancelled \in BOOLEAN /\ timerOut \in BOOLEAN
    BY DEF MessagesTyped
  <2>3. CASE Connected \/ EnterExchange \/ Waiting
    <3>1. /\ UNCHANGED <<addr, reading, attempt, order, lastNote, results, slot, inTransit,
                         responses, cancelled, timerOut>>
          /\ \/ pc' = pc
             \/ /\ pc \in {"connect", "probe", "waiting"}
                /\ pc' \in {"probe", "waiting", "publish", "aborted"}
      BY <2>3 DEF Connected, EnterExchange, Waiting, probeVars
    <3>2. QED
      BY <1>2, <1>3, <2>1, <2>2, <3>1
  <2>4. CASE NotConnected \/ NoAnswer
    BY <1>4, <2>1, <2>2, <2>4 DEF NotConnected, NoAnswer
  <2>5. CASE Publish
    <3>1. /\ pc = "publish" /\ pc' = "receive" /\ order' = order + 1 /\ responses' = <<>>
          /\ timerOut' = FALSE
          /\ slot' \in {slot, [order |-> order + 1, addr |-> addr]}
          /\ UNCHANGED <<cancelled, addr, reading, attempt, lastNote, results, inTransit>>
      BY <2>5 DEF Publish, probeVars
    <3>2. order + 1 \in Orders /\ addr \in 0..Last
      BY <1>1, <3>1, OrdersSuffice
    <3>3. [order |-> order + 1, addr |-> addr] \in Requests
      BY <3>2 DEF Requests
    <3>4. responses' \in Seq(Response) /\ Len(responses') <= ResponseCap
      BY <1>1, <3>1, EmptySeq
    <3>5. MessagesTyped'
      BY <2>1, <3>1, <3>3, <3>4 DEF MessagesTyped, flags
    <3>6. Spent' = Spent + 1 /\ Spent \in Nat
      BY <3>1 DEF Spent, ScanBounds
    <3>7. order' \in Nat /\ order' <= 3 * (addr' - 1) + Spent'
      BY <3>1, <3>6 DEF ScanBounds
    <3>8. addr' # Last + 1
      BY <1>1, <3>1
    <3>9. QED
      BY <3>1, <3>5, <3>7, <3>8 DEF ScanBounds
  <2>6. CASE Receive
    <3> DEFINE response == Head(responses)
    <3>1. /\ pc = "receive" /\ responses # <<>> /\ responses' = Tail(responses)
          /\ UNCHANGED <<cancelled, order, timerOut, slot, inTransit>>
      BY <2>6 DEF Receive
    <3>2. /\ response \in Response /\ responses' \in Seq(Response)
          /\ Len(responses') <= ResponseCap
      <4>1. /\ response \in Response /\ responses' \in Seq(Response)
            /\ Len(responses') = Len(responses) - 1 /\ Len(responses) \in Nat
        BY <2>2, <3>1, HeadTailProperties, LenProperties
      <4>2. QED
        BY <1>1, <2>2, <4>1
    <3>3. CASE UNCHANGED <<pc, probeVars>>
      <4>1. UNCHANGED <<pc, addr, reading, attempt, lastNote, results>>
        BY <3>3 DEF probeVars
      <4>2. QED
        BY <1>2, <2>1, <3>1, <3>2, <4>1 DEF MessagesTyped, flags
    <3>4. ASSUME \/ GotFrame(response.addr)
                 \/ GotGarbled \/ GotBusTimeout
          PROVE  ScanBounds' /\ MessagesTyped'
      <4>1. response.addr \in 0..Last
        BY <3>2 DEF Response
      <4>2. QED
        BY <1>4, <2>1, <3>1, <3>2, <3>4, <4>1
    <3>5. QED
      BY <2>6, <3>3, <3>4 DEF Receive
  <2>7. QED
    BY <1>5, <2>3, <2>4, <2>5, <2>6 DEF ScanSteps, Exchange
<1>6. CASE Timer
  <2>1. /\ UNCHANGED <<flags, cancelled, addr, reading, attempt, order, lastNote, results, pc,
                       slot, inTransit, responses>>
        /\ timerOut' = TRUE /\ faults' \in 0..MaxFaults
    BY <1>1, <1>6 DEF Timer, TimerFires, MessagesTyped
  <2>2. QED
    BY <1>2, <2>1 DEF MessagesTyped, flags
<1>7. CASE Interrupted
  <2>1. /\ UNCHANGED <<flags, addr, reading, attempt, order, lastNote, results, pc,
                       slot, inTransit, responses, timerOut, faults>>
        /\ cancelled' = TRUE
    BY <1>7 DEF Interrupted, Interrupt, probeVars
  <2>2. QED
    BY <1>2, <1>3, <2>1 DEF MessagesTyped
<1>8. CASE Work
  <2>1. UNCHANGED <<flags, pc, cancelled, addr, reading, attempt, lastNote, order, timerOut,
                    results>>
    BY <1>8 DEF Work, Execute, Deliver, scanUntouched
  <2>2. CASE Execute
    <3>1. /\ slot' = NoRequest /\ responses' = responses /\ slot \in Requests
      BY <2>2 DEF Execute, MessagesTyped
    <3>2. PICK says \in {Truth(slot.addr)} \cup Slips(slot.addr) :
            /\ says # Truth(slot.addr) => faults < MaxFaults
            /\ faults' = IF says = Truth(slot.addr) THEN faults ELSE faults + 1
            /\ inTransit' \in {inTransit, Append(inTransit, [order |-> slot.order,
                                                             addr |-> slot.addr,
                                                             says |-> says])}
      BY <2>2 DEF Execute
    <3>3. says \in {"frame", "garbled", "timeout"}
      BY <3>2 DEF Truth, Slips
    <3>4. [order |-> slot.order, addr |-> slot.addr, says |-> says] \in Response
      BY <3>1, <3>3 DEF Requests, Response
    <3>5. inTransit' \in Seq(Response)
      <4> DEFINE answer == [order |-> slot.order, addr |-> slot.addr, says |-> says]
      <4>1. inTransit' \in {inTransit, Append(inTransit, answer)} /\ answer \in Response
        BY <3>2, <3>4
      <4>2. inTransit \in Seq(Response)
        BY DEF MessagesTyped
      <4> HIDE DEF answer
      <4>3. QED
        BY <4>1, <4>2, AppendProperties
    <3>6. faults' \in 0..MaxFaults
      BY <1>1, <3>2 DEF MessagesTyped
    <3>7. NoRequest \in Requests
      BY <1>1 DEF NoRequest, Requests, Orders
    <3>8. QED
      BY <1>2, <2>1, <3>1, <3>5, <3>6, <3>7 DEF MessagesTyped, flags
  <2>3. CASE Deliver
    <3>1. /\ inTransit # <<>> /\ inTransit' \in {inTransit, Tail(inTransit)} /\ slot' = slot
          /\ \/ responses' = responses
             \/ Len(responses) < ResponseCap /\ responses' = Append(responses, Head(inTransit))
          /\ faults' \in 0..MaxFaults
      BY <1>1, <2>3 DEF Deliver, MessagesTyped
    <3>2. inTransit' \in Seq(Response) /\ Head(inTransit) \in Response
      BY <3>1, HeadTailProperties DEF MessagesTyped
    <3>3. responses' \in Seq(Response) /\ Len(responses') <= ResponseCap
      BY <1>1, <3>1, <3>2, AppendProperties, LenProperties DEF MessagesTyped
    <3>4. QED
      BY <1>2, <2>1, <3>1, <3>2, <3>3 DEF MessagesTyped, flags
  <2>4. QED
    BY <1>8, <2>2, <2>3 DEF Work
<1>9. CASE DongleLeaves /\ UNCHANGED flags
  <2>1. /\ UNCHANGED <<flags, pc, cancelled, addr, reading, attempt, lastNote, order, timerOut,
                       results, responses>>
        /\ slot' \in {slot, NoRequest} /\ inTransit' = <<>> /\ faults' \in 0..MaxFaults
    BY <1>1, <1>9 DEF DongleLeaves, MessagesTyped
  <2>2. NoRequest \in Requests /\ inTransit' \in Seq(Response)
    BY <1>1, <2>1, EmptySeq DEF NoRequest, Requests, Orders
  <2>3. QED
    BY <1>2, <2>1, <2>2 DEF MessagesTyped, flags
<1>10. CASE (DongleComes \/ Hooks) /\ UNCHANGED <<flags, faults>>
  <2>1. UNCHANGED <<flags, faults, pc, cancelled, addr, reading, attempt, lastNote, order,
                    timerOut, results, responses, slot, inTransit>>
    BY <1>10 DEF DongleComes, Hooks, probeVars
  <2>2. QED
    BY <1>2, <1>3, <2>1 DEF MessagesTyped
<1>11. CASE UNCHANGED vars
  BY <1>2, <1>3, <1>11 DEF vars, scanVars, dongleVars, MessagesTyped
<1>12. QED
  BY <1>5, <1>6, <1>7, <1>8, <1>9, <1>10, <1>11 DEF Next, Interrupted

(* The types of BusScan and Tracker, for any clients, addresses, faults and capacity *)
(* of the channel: an address costs three requests at most, the scan never goes      *)
(* beyond the last one, and the channel never holds more than its capacity           *)
(* (scan.go:120-158).                                                                *)
THEOREM ScanTypeCorrect == Spec => []TypeOK
<1> DEFINE Inv == TrackerInv /\ TrackerBounds /\ ScanBounds /\ MessagesTyped
<1>1. Init => Inv
  <2> SUFFICES ASSUME Init PROVE Inv
    OBVIOUS
  <2>1. TrackerInv
    BY TrackerStarts
  <2>2. TrackerBounds
    <3>1. /\ channel = 0 /\ clientID = NoClient /\ plantID = NoClient
          /\ waiting \in BOOLEAN /\ awaitedPlant = NoClient
          /\ hooks = [c \in Clients |-> {}] /\ MaxChannels \in Nat
      BY TrackerAssumption DEF Init, TrackerInit
    <3>2. NoClient \in Plants
      BY DEF Plants
    <3>3. QED
      BY <3>1, <3>2 DEF TrackerBounds
  <2>3. Last \in Nat /\ Last > 0 /\ ResponseCap \in Nat /\ MaxFaults \in Nat
    BY ScanAssumption
  <2>4. Spent = 0
    BY DEF Init, Spent
  <2>5. ScanBounds
    BY <2>3, <2>4 DEF Init, ScanBounds
  <2>6. Nothing \in Found /\ NoRequest \in Requests
    BY <2>3 DEF Nothing, Found, NoRequest, Requests, Orders
  <2>7. MessagesTyped
    <3>1. <<>> \in Seq(Response) /\ Len(<<>>) = 0
      BY EmptySeq
    <3>2. [a \in Addresses |-> Nothing] \in [Addresses -> Found] /\ 0 \in 0..MaxFaults
      BY <2>3, <2>6
    <3>3. /\ full \in BOOLEAN /\ readSOC \in BOOLEAN /\ cancelled \in BOOLEAN
          /\ lastNote \in BOOLEAN /\ timerOut \in BOOLEAN
      BY Zenon DEF Init
    <3>4. /\ responses = <<>> /\ inTransit = <<>> /\ slot = NoRequest /\ faults = 0
          /\ results = [a \in Addresses |-> Nothing] /\ devices \subseteq Addresses
      BY DEF Init
    <3>5. QED
      BY <2>3, <2>6, <3>1, <3>2, <3>3, <3>4 DEF MessagesTyped
  <2>8. QED
    BY <2>1, <2>2, <2>5, <2>7
<1>2. Inv /\ [Next]_vars => Inv'
  BY TrackerKept, BoundsKept, ScanTypesKept
<1>3. Inv => TypeOK
  <2> SUFFICES ASSUME Inv PROVE TypeOK
    OBVIOUS
  <2>1. TrackerTypeOK
    BY TrackerAssumption DEF TrackerInv, TrackerBounds, TrackerTypeOK
  <2>2. order \in Orders
    BY OrdersSuffice
  <2>3. QED
    BY <2>1, <2>2 DEF ScanBounds, MessagesTyped, TypeOK
<1>4. QED
  BY <1>1, <1>2, <1>3, PTL DEF Spec

=============================================================================
