---------------------------- MODULE CloudRequests ----------------------------
(***************************************************************************)
(* The way of a request through GbbDongle (components/gbb_dongle/           *)
(* gbb_dongle.cpp): on_cloud_message_, the one slot, the executor and       *)
(* publish_response_ with the size cap of build_json.  GbbDongle models the  *)
(* emergency cycle in full; here it is a `will` that now and then wants the  *)
(* bus and keeps it for some batches.                                        *)
(***************************************************************************)
EXTENDS Naturals

CONSTANTS
  MaxReceived,     \* bound on requests_received_
  TruncatedSize,   \* JSON_BUILD_TRUNCATED_SIZE
  BodySizes,       \* how long a response is without LastLog ...
  LogSizes         \* ... and how much LastLog adds

ASSUME RequestsAssumption ==
  /\ MaxReceived \in Nat
  /\ TruncatedSize \in Nat
  /\ BodySizes \subseteq Nat /\ LogSizes \subseteq Nat

VARIABLES
  phase,      \* the step of loop() that runs next; "result" between loops
  slot,       \* pending_request_, or NoRequest
  exState,    \* executor_: "IDLE", "RUNNING" or "DONE"
  batch,      \* its batch: a request, the will's, or NoRequest
  wantsBus,   \* emergency_.wants_bus()
  received,   \* requests_received_, which also numbers the deliveries
  handled,    \* requests_handled_
  published   \* the last response that publish() took

VARIABLES     \* history, read by properties only
  ignored,    \* oversized or malformed
  replaced,   \* pushed out of the slot
  dropped,    \* answered by nothing, for the size of the response
  lost        \* answered by a publish() that failed

vars == <<phase, slot, exState, batch, wantsBus, received, handled, published,
          ignored, replaced, dropped, lost>>
countVars == <<ignored, replaced, dropped, lost, handled, published>>

Requests == [number : 1..MaxReceived, log : BOOLEAN]
NoRequest == [number |-> 0, log |-> FALSE]
TheWills == [number |-> 0, log |-> TRUE]

TypeOK ==
  /\ phase \in {"result", "bus", "executor"}
  /\ slot \in Requests \cup {NoRequest}
  /\ exState \in {"IDLE", "RUNNING", "DONE"}
  /\ batch \in Requests \cup {NoRequest, TheWills}
  /\ exState = "IDLE" <=> batch = NoRequest
  /\ wantsBus \in BOOLEAN
  /\ {received, handled, ignored, replaced, dropped, lost} \subseteq 0..MaxReceived
  /\ published \in [number : 0..MaxReceived, size : Nat, whole : BOOLEAN]

Init ==
  /\ phase = "result"
  /\ slot = NoRequest
  /\ exState = "IDLE" /\ batch = NoRequest
  /\ wantsBus = FALSE
  /\ received = 0 /\ handled = 0
  /\ published = [number |-> 0, size |-> 0, whole |-> TRUE]
  /\ ignored = 0 /\ replaced = 0 /\ dropped = 0 /\ lost = 0

-----------------------------------------------------------------------------
(* on_cloud_message_: at QoS 1 the same request may come twice, and then it is *)
(* two deliveries here as it is for the code.                                  *)
IgnoreMessage ==
  /\ phase = "result" /\ received < MaxReceived
  /\ received' = received + 1
  /\ ignored' = ignored + 1
  /\ UNCHANGED <<phase, slot, exState, batch, wantsBus, replaced, dropped, lost,
                 handled, published>>

AcceptMessage ==
  /\ phase = "result" /\ received < MaxReceived
  /\ received' = received + 1
  /\ replaced' = IF slot = NoRequest THEN replaced ELSE replaced + 1
  /\ \E log \in BOOLEAN : slot' = [number |-> received + 1, log |-> log]
  /\ UNCHANGED <<phase, exState, batch, wantsBus, ignored, dropped, lost, handled,
                 published>>

-----------------------------------------------------------------------------
(* build_json: the document, or its first TruncatedSize bytes. *)
Built(size) == [size  |-> IF size > TruncatedSize THEN TruncatedSize ELSE size,
                whole |-> size <= TruncatedSize]

(* Mutant of TooLong: only what is longer than the cap, which nothing is. *)
TooLongBeyond(response) == response.size > TruncatedSize

TooLong(response) == response.size >= TruncatedSize

(* The response with LastLog, if it was asked for and fits, else without. *)
Response(request, body, log) ==
  IF request.log /\ ~TooLong(Built(body + log)) THEN Built(body + log) ELSE Built(body)

(* publish_response_.  A failed publish() counts as handled. *)
PublishResponse(request) ==
  \E body \in BodySizes, log \in LogSizes, taken \in BOOLEAN :
    LET response == Response(request, body, log)
    IN IF TooLong(response)
       THEN dropped' = dropped + 1 /\ UNCHANGED <<handled, lost, published>>
       ELSE /\ handled' = handled + 1
            /\ lost' = IF taken THEN lost ELSE lost + 1
            /\ published' = IF taken THEN [number |-> request.number,
                                           size |-> response.size,
                                           whole |-> response.whole]
                            ELSE published
            /\ UNCHANGED dropped

(* Mutant of CollectResult: the manager's results are published too. *)
CollectAnyResult ==
  /\ exState' = "IDLE" /\ batch' = NoRequest
  /\ PublishResponse(batch)
  /\ UNCHANGED wantsBus

(* The will's result goes to the manager, which may end its cycle. *)
CollectResult ==
  /\ exState' = "IDLE" /\ batch' = NoRequest
  /\ IF batch = TheWills
     THEN wantsBus' \in BOOLEAN /\ UNCHANGED <<dropped, lost, handled, published>>
     ELSE PublishResponse(batch) /\ UNCHANGED wantsBus

ResultPhase ==
  /\ phase = "result"
  /\ phase' = "bus"
  /\ IF exState = "DONE" THEN CollectResult
     ELSE UNCHANGED <<exState, batch, wantsBus, dropped, lost, handled, published>>
  /\ UNCHANGED <<slot, received, ignored, replaced>>

(* Mutant of StartNext: the slot is not emptied. *)
StartNextAgain ==
  /\ exState' = "RUNNING"
  /\ batch' = IF wantsBus THEN TheWills ELSE slot
  /\ UNCHANGED slot

StartNext ==
  /\ exState' = "RUNNING"
  /\ IF wantsBus THEN batch' = TheWills /\ UNCHANGED slot
     ELSE batch' = slot /\ slot' = NoRequest

BusPhase ==
  /\ phase = "bus"
  /\ phase' = "executor"
  /\ IF exState # "RUNNING" /\ (wantsBus \/ slot # NoRequest) THEN StartNext
     ELSE UNCHANGED <<slot, exState, batch>>
  /\ UNCHANGED <<wantsBus, received, countVars>>

(* emergency_.loop(): nothing triggers a cycle while the will's own batch runs. *)
TriggerCheck == wantsBus' \in IF batch = TheWills THEN {wantsBus} ELSE BOOLEAN

(* executor_.loop(), and emergency_.loop() in the same run of loop(). *)
BatchEnds ==
  /\ phase = "executor" /\ exState = "RUNNING"
  /\ phase' = "result"
  /\ exState' = "DONE"
  /\ TriggerCheck
  /\ UNCHANGED <<slot, batch, received, countVars>>

BatchGoesOn ==
  /\ phase = "executor"
  /\ phase' = "result"
  /\ TriggerCheck
  /\ UNCHANGED <<slot, exState, batch, received, countVars>>

LoopStep == ResultPhase \/ BusPhase \/ BatchEnds \/ BatchGoesOn

Next == LoopStep \/ IgnoreMessage \/ AcceptMessage

Spec == Init /\ [][Next]_vars

-----------------------------------------------------------------------------
Ours(b) == b \notin {NoRequest, TheWills}
OneIf(p) == IF p THEN 1 ELSE 0

(* No request goes missing: each that came was ignored, pushed out of the slot,  *)
(* answered or given up for its size, or it still waits or runs; none runs or    *)
(* counts twice ("Cases that get no response", docs/protocol.md:65-73).          *)
Accounted ==
  received = ignored + replaced + dropped + handled
             + OneIf(slot # NoRequest) + OneIf(Ours(batch))

(* Whatever the response and the log in it come to, the cloud is never sent a     *)
(* document that build_json cut short (gbb_protocol.h:18-21).                     *)
PublishedIsWhole == published.whole

(* Responses leave in the order the requests came in, none twice, and none is     *)
(* for a batch of the will's ("never published to fromDevice",                    *)
(* docs/protocol.md:101).                                                         *)
AnswersInOrder ==
  [][handled' # handled =>
       /\ Ours(batch)
       /\ published' # published => published'.number > published.number]_vars
=============================================================================
