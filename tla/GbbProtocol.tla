----------------------------- MODULE GbbProtocol -----------------------------
(***************************************************************************)
(* gbb_protocol.cpp (components/gbb_dongle): what a toDevice payload is      *)
(* taken for, what goes back in the response, and what the emergency sets     *)
(* become in NVS and after the next boot; with the part of EmergencyStore     *)
(* that compares lines.  A JSON value is its type and, if that can matter,    *)
(* one of a few values; text 0 is "".                                         *)
(***************************************************************************)
EXTENDS Naturals, Sequences

CONSTANTS
  Payloads,   \* the documents the cloud sends
  MaxLines    \* MAX_LINES_PER_ARRAY

Value == [is : {"absent", "text", "number"}, v : {0, 1}]
Absent == [is |-> "absent", v |-> 0]
Text(v) == [is |-> "text", v |-> v]
Number(v) == [is |-> "number", v |-> v]
Typed(value, type) == IF value.is = type THEN value ELSE Absent

LineDocs == [LineNo : Value, Tag : Value, Timestamp : Value, Modbus : Value, Error : Value]
Arrays == [present : BOOLEAN, elements : Seq(LineDocs)]
NoArray == [present |-> FALSE, elements |-> <<>>]
HeaderKeys == {"Error", "OrderId", "LogLevel", "SendLastLog", "SubInverterSN"}

(* A GbbLine; its optional fields are as they come, or Absent. *)
Lines == [lineNo : {0, 1}, error : {0, 1}, tag : Value, timestamp : Value, modbus : Value]

ASSUME ProtocolAssumption ==
  /\ MaxLines \in Nat
  /\ \A p \in Payloads :
       /\ p.fields \in [HeaderKeys -> Value]
       /\ p.lines \in Arrays /\ p.onNoInvSetup \in Arrays

VARIABLES
  response,  \* the last response, before the executor changes its lines
  stored,    \* sets_: the lines of each SubInverterSN
  blob       \* what sync_nvs makes of them

VARIABLE     \* history, read by properties only
  answered   \* the fields and lines that `response` answers

vars == <<response, stored, blob, answered>>

Keys == {0, 1}

-----------------------------------------------------------------------------
(* One line there and back *)

(* parse_line_array's body.  An element that is no object has no field. *)
ParseLine(doc) ==
  [lineNo    |-> Typed(doc.LineNo, "number").v,
   error     |-> Typed(doc.Error, "text").v,
   tag       |-> Typed(doc.Tag, "text"),
   timestamp |-> Typed(doc.Timestamp, "number"),
   modbus    |-> Typed(doc.Modbus, "text")]

ParseLines(array) == [i \in DOMAIN array.elements |-> ParseLine(array.elements[i])]

(* Mutant of SerializeLine: has_tag is not looked at. *)
SerializeWithTag(line) ==
  [LineNo    |-> Number(line.lineNo),
   Tag       |-> Text(line.tag.v),
   Timestamp |-> line.timestamp,
   Modbus    |-> line.modbus,
   Error     |-> IF line.error = 0 THEN Absent ELSE Text(line.error)]

(* serialize_line_array's body *)
SerializeLine(line) ==
  [LineNo    |-> Number(line.lineNo),
   Tag       |-> line.tag,
   Timestamp |-> line.timestamp,
   Modbus    |-> line.modbus,
   Error     |-> IF line.error = 0 THEN Absent ELSE Text(line.error)]

SerializeLines(lines) ==
  [present |-> TRUE, elements |-> [i \in DOMAIN lines |-> SerializeLine(lines[i])]]

-----------------------------------------------------------------------------
(* The header *)

TooMany(array) == Len(array.elements) > MaxLines

(* Mutant of Parseable: only Lines is limited. *)
ParseableByLines(payload) == ~TooMany(payload.lines)

(* parse_header returns TRUE. *)
Parseable(payload) == ~TooMany(payload.lines) /\ ~TooMany(payload.onNoInvSetup)

TypeOf(key) == IF key = "SendLastLog" THEN "number" ELSE "text"

(* parse_header and build_response.  Error is a plain string, "" for none; an  *)
(* empty Lines and LinesOnNoInvSetup are not echoed.                            *)
BuildResponse(payload) ==
  [fields |-> [key \in HeaderKeys |->
     LET value == Typed(payload.fields[key], TypeOf(key))
     IN IF key = "Error" /\ value.v = 0 THEN Absent ELSE value],
   lines  |-> IF payload.lines.elements = <<>> THEN NoArray
              ELSE SerializeLines(ParseLines(payload.lines))]

-----------------------------------------------------------------------------
(* The emergency sets *)

Target(payload) == Typed(payload.fields["SubInverterSN"], "text").v

SameExecutionContent(a, b) ==
  /\ Len(a) = Len(b)
  /\ \A i \in DOMAIN a : a[i].lineNo = b[i].lineNo /\ a[i].modbus = b[i].modbus

(* build_emergency_sets: an entry for each stored set. *)
BuildEmergencySets(sets) ==
  {[sn |-> k, lines |-> SerializeLines(sets[k])] : k \in {k \in Keys : sets[k] # <<>>}}

(* parse_emergency_sets; a line array that is too long spoils all of it, and   *)
(* load_from_nvs then starts empty.                                            *)
ParseEmergencySets(entries) ==
  IF \E e \in entries : TooMany(e.lines)
  THEN [k \in Keys |-> <<>>]
  ELSE [k \in Keys |->
          IF \E e \in entries : e.sn = k
          THEN ParseLines((CHOOSE e \in entries : e.sn = k).lines)
          ELSE <<>>]

-----------------------------------------------------------------------------
Init ==
  /\ response = [fields |-> [key \in HeaderKeys |-> Absent], lines |-> NoArray]
  /\ answered = [fields |-> [key \in HeaderKeys |-> Absent], lines |-> NoArray]
  /\ stored = [k \in Keys |-> <<>>]
  /\ blob = {}

(* set_lines, and sync_nvs if that changed anything. *)
SetLines(key, lines) ==
  /\ stored' = IF SameExecutionContent(stored[key], lines) THEN stored
               ELSE [stored EXCEPT ![key] = lines]
  /\ blob' = IF stored' = stored THEN blob ELSE BuildEmergencySets(stored')

(* on_cloud_message_, with the response to a request that has its turn at once. *)
Receive(payload) ==
  /\ Parseable(payload)
  /\ answered' = [fields |-> payload.fields, lines |-> payload.lines]
  /\ response' = BuildResponse(payload)
  /\ IF payload.onNoInvSetup.present
     THEN SetLines(Target(payload), ParseLines(payload.onNoInvSetup))
     ELSE UNCHANGED <<stored, blob>>

(* load_from_nvs in the next boot. *)
Restart ==
  /\ stored' = ParseEmergencySets(blob)
  /\ UNCHANGED <<response, blob, answered>>

Next == (\E payload \in Payloads : Receive(payload)) \/ Restart

Spec == Init /\ [][Next]_vars

-----------------------------------------------------------------------------
TypeOK ==
  /\ response.fields \in [HeaderKeys -> Value] /\ response.lines \in Arrays
  /\ stored \in [Keys -> Seq(Lines)]
  /\ \A k \in Keys : Len(stored[k]) <= MaxLines

(* Whatever the cloud managed to store comes back from NVS field by field: a     *)
(* set is never mangled by the restart, or thrown away with the others because    *)
(* the parser refuses what it once took (gbb_protocol.cpp:128-156).               *)
SurvivesNvs == ParseEmergencySets(blob) = stored

(* A response says of a request what the request said: each line with the same    *)
(* fields in the same place, and no field that was absent, or of a wrong type,    *)
(* appears (but LineNo, which then is 0)                                           *)
(* ("passed through unchanged", docs/protocol.md:29-30).                           *)
EchoedAsSent ==
  /\ \A key \in HeaderKeys :
       response.fields[key] # Absent => response.fields[key] = answered.fields[key]
  /\ Len(response.lines.elements) = Len(answered.lines.elements)
  /\ \A i \in DOMAIN response.lines.elements, f \in {"Tag", "Timestamp", "Modbus", "Error"} :
       LET echo == response.lines.elements[i][f]
           said == answered.lines.elements[i][f]
       IN \/ echo = said
          \/ echo = Absent /\ f = "Error" /\ said = Text(0)
          \/ echo = Absent /\ said # Typed(said, IF f = "Timestamp" THEN "number" ELSE "text")
=============================================================================
