------------------------- MODULE GbbProtocolProofs -------------------------
(***************************************************************************)
(* What gbb_protocol.cpp makes of a document, for any documents and any limit *)
(* on their lines: the response says what the request said, and the emergency *)
(* sets come back from NVS as they were stored; and, for any replies, wrong    *)
(* bits and stray bytes, what the framing of ModbusFrame makes of a reply, and  *)
(* what the checksum notices.                                                  *)
(***************************************************************************)
EXTENDS GbbProtocol, ModbusFrame, SequenceTheorems, WellFoundedInduction, TLAPS

Texts == {Absent, Text(0), Text(1)}
Numbers == {Absent, Number(0), Number(1)}

(* What parse_line_array can make of an element. *)
ParsedLines == [lineNo : {0, 1}, error : {0, 1}, tag : Texts, timestamp : Numbers,
                modbus : Texts]

(* A function on 1..n is a sequence of length n. *)
LEMMA FunctionIsSeq ==
  ASSUME NEW S, NEW n \in Nat, NEW f \in [1..n -> S]
  PROVE  f \in Seq(S) /\ Len(f) = n /\ DOMAIN f = 1..n
<1>1. f \in Seq(S)
  BY SeqDef
<1>2. DOMAIN f = 1..n
  OBVIOUS
<1>3. QED
  BY <1>1, <1>2, LenProperties

(* What the accessors of the JSON library give: a value of that type, or nothing. *)
LEMMA TypedValues ==
  ASSUME NEW value \in Value
  PROVE  /\ Typed(value, "text") \in Texts /\ Typed(value, "number") \in Numbers
         /\ Typed(value, "text").v \in {0, 1} /\ Typed(value, "number").v \in {0, 1}
<1>1. /\ value.is \in {"absent", "text", "number"} /\ value.v \in {0, 1}
      /\ value = [is |-> value.is, v |-> value.v]
  BY DEF Value
<1>2. value.is = "text" => value \in {Text(0), Text(1)}
  BY <1>1 DEF Text
<1>3. value.is = "number" => value \in {Number(0), Number(1)}
  BY <1>1 DEF Number
<1>4. QED
  BY <1>1, <1>2, <1>3 DEF Typed, Texts, Numbers, Absent

(* Every element becomes a line, objects and others. *)
LEMMA ParsedLine ==
  ASSUME NEW doc \in LineDocs
  PROVE  ParseLine(doc) \in ParsedLines
<1>1. /\ doc.LineNo \in Value /\ doc.Tag \in Value /\ doc.Timestamp \in Value
      /\ doc.Modbus \in Value /\ doc.Error \in Value
  BY DEF LineDocs
<1>2. QED
  BY <1>1, TypedValues DEF ParseLine, ParsedLines

(* ... as many of them as the array has elements. *)
LEMMA ParsedArray ==
  ASSUME NEW array \in Arrays
  PROVE  /\ ParseLines(array) \in Seq(ParsedLines)
         /\ Len(ParseLines(array)) = Len(array.elements)
<1>1. array.elements \in Seq(LineDocs)
  BY DEF Arrays
<1>2. /\ Len(array.elements) \in Nat /\ DOMAIN array.elements = 1..Len(array.elements)
      /\ \A i \in 1..Len(array.elements) : array.elements[i] \in LineDocs
  BY <1>1, LenProperties, ElementOfSeq
<1>3. ParseLines(array) \in [1..Len(array.elements) -> ParsedLines]
  BY <1>2, ParsedLine DEF ParseLines
<1>4. QED
  BY <1>2, <1>3, FunctionIsSeq

-----------------------------------------------------------------------------
(* NVS *)

(* A line that was parsed comes back as it was. *)
LEMMA LineThereAndBack ==
  ASSUME NEW line \in ParsedLines
  PROVE  ParseLine(SerializeLine(line)) = line
<1>1. /\ line.lineNo \in {0, 1} /\ line.error \in {0, 1} /\ line.tag \in Texts
      /\ line.timestamp \in Numbers /\ line.modbus \in Texts
      /\ line = [lineNo |-> line.lineNo, error |-> line.error, tag |-> line.tag,
                 timestamp |-> line.timestamp, modbus |-> line.modbus]
  BY DEF ParsedLines
<1>2. \A value \in Texts : Typed(value, "text") = value
  BY DEF Typed, Texts, Text, Absent
<1>3. \A value \in Numbers : Typed(value, "number") = value
  BY DEF Typed, Numbers, Number, Absent
<1>4. \A v \in {0, 1} : Typed(Number(v), "number").v = v
  BY DEF Typed, Number
<1>5. \A v \in {0, 1} : Typed(IF v = 0 THEN Absent ELSE Text(v), "text").v = v
  BY DEF Typed, Text, Absent
<1>6. /\ SerializeLine(line).LineNo = Number(line.lineNo)
      /\ SerializeLine(line).Tag = line.tag
      /\ SerializeLine(line).Timestamp = line.timestamp
      /\ SerializeLine(line).Modbus = line.modbus
      /\ SerializeLine(line).Error = IF line.error = 0 THEN Absent ELSE Text(line.error)
  BY DEF SerializeLine
<1>7. ParseLine(SerializeLine(line)) =
        [lineNo |-> line.lineNo, error |-> line.error, tag |-> line.tag,
         timestamp |-> line.timestamp, modbus |-> line.modbus]
  BY <1>1, <1>2, <1>3, <1>4, <1>5, <1>6 DEF ParseLine
<1>8. QED
  BY <1>1, <1>7

(* ... and so does a set of them. *)
LEMMA SetThereAndBack ==
  ASSUME NEW lines \in Seq(ParsedLines)
  PROVE  /\ ParseLines(SerializeLines(lines)) = lines
         /\ Len(SerializeLines(lines).elements) = Len(lines)
<1>1. /\ Len(lines) \in Nat /\ DOMAIN lines = 1..Len(lines)
      /\ \A i \in 1..Len(lines) : lines[i] \in ParsedLines
      /\ lines = [i \in 1..Len(lines) |-> lines[i]]
  BY LenProperties, ElementOfSeq
<1> DEFINE elements == [i \in 1..Len(lines) |-> SerializeLine(lines[i])]
<1>2. SerializeLines(lines).elements = elements
  BY <1>1 DEF SerializeLines
<1>3. Len(elements) = Len(lines) /\ DOMAIN elements = 1..Len(lines)
  <2>1. elements \in [1..Len(lines) -> {SerializeLine(lines[i]) : i \in 1..Len(lines)}]
    OBVIOUS
  <2>2. QED
    BY <1>1, <2>1, FunctionIsSeq
<1>4. ParseLines(SerializeLines(lines)) = [i \in 1..Len(lines) |-> ParseLine(elements[i])]
  BY <1>2, <1>3 DEF ParseLines
<1>5. \A i \in 1..Len(lines) : ParseLine(elements[i]) = lines[i]
  BY <1>1, LineThereAndBack
<1>6. QED
  BY <1>1, <1>2, <1>3, <1>4, <1>5

StoredSets == [Keys -> {lines \in Seq(ParsedLines) : Len(lines) <= MaxLines}]

(* What sync_nvs writes, load_from_nvs reads. *)
LEMMA BlobThereAndBack ==
  ASSUME NEW sets \in StoredSets
  PROVE  ParseEmergencySets(BuildEmergencySets(sets)) = sets
<1> DEFINE entries == BuildEmergencySets(sets)
<1>1. ASSUME NEW k \in Keys
      PROVE  /\ sets[k] \in Seq(ParsedLines) /\ Len(sets[k]) \in Nat /\ Len(sets[k]) <= MaxLines
             /\ ParseLines(SerializeLines(sets[k])) = sets[k]
             /\ ~TooMany(SerializeLines(sets[k]))
  <2>1. sets[k] \in Seq(ParsedLines) /\ Len(sets[k]) <= MaxLines
    BY DEF StoredSets
  <2>2. QED
    BY <2>1, SetThereAndBack, LenProperties, ProtocolAssumption DEF TooMany
<1>2. \A e : e \in entries <=>
        \E k \in Keys : sets[k] # <<>> /\ e = [sn |-> k, lines |-> SerializeLines(sets[k])]
  BY DEF BuildEmergencySets
<1>3. ~ \E e \in entries : TooMany(e.lines)
  BY <1>1, <1>2
<1>4. ParseEmergencySets(entries) =
        [k \in Keys |-> IF \E e \in entries : e.sn = k
                        THEN ParseLines((CHOOSE e \in entries : e.sn = k).lines)
                        ELSE <<>>]
  BY <1>3 DEF ParseEmergencySets
<1>5. ASSUME NEW k \in Keys
      PROVE  (IF \E e \in entries : e.sn = k
              THEN ParseLines((CHOOSE e \in entries : e.sn = k).lines)
              ELSE <<>>) = sets[k]
  <2>1. CASE sets[k] = <<>>
    <3>1. ~ \E e \in entries : e.sn = k
      BY <1>2, <2>1
    <3>2. QED
      BY <2>1, <3>1
  <2>2. CASE sets[k] # <<>>
    <3> DEFINE entry == [sn |-> k, lines |-> SerializeLines(sets[k])]
               chosen == CHOOSE e \in entries : e.sn = k
    <3>1. entry \in entries /\ entry.sn = k /\ entry.lines = SerializeLines(sets[k])
      BY <1>2, <2>2
    <3>2. \A e \in entries : e.sn = k => e = entry
      BY <1>2
    <3>3. chosen = entry
      BY <3>1, <3>2
    <3>4. (IF \E e \in entries : e.sn = k THEN ParseLines(chosen.lines) ELSE <<>>) =
            ParseLines(chosen.lines)
      BY <3>1
    <3>5. ParseLines(chosen.lines) = sets[k]
      <4> HIDE DEF chosen, entry, entries
      <4>1. chosen.lines = SerializeLines(sets[k])
        BY <3>1, <3>3
      <4>2. QED
        BY <1>1, <4>1
    <3>6. QED
      BY <3>4, <3>5
  <2>3. QED
    BY <2>1, <2>2
<1>6. sets = [k \in Keys |-> sets[k]]
  BY DEF StoredSets
<1>7. QED
  BY <1>4, <1>5, <1>6

NvsInv == stored \in StoredSets /\ blob = BuildEmergencySets(stored)

(* What is stored is what was parsed, and the blob follows it. *)
LEMMA NvsKept == NvsInv /\ [Next]_vars => NvsInv'
<1> SUFFICES ASSUME NvsInv, [Next]_vars PROVE NvsInv'
  OBVIOUS
<1>1. ASSUME NEW payload \in Payloads, Receive(payload) PROVE NvsInv'
  <2> DEFINE parsed == ParseLines(payload.onNoInvSetup)
  <2>1. payload.fields \in [HeaderKeys -> Value] /\ payload.onNoInvSetup \in Arrays
        /\ MaxLines \in Nat
    BY ProtocolAssumption
  <2>2. parsed \in Seq(ParsedLines) /\ Len(parsed) = Len(payload.onNoInvSetup.elements)
    BY <2>1, ParsedArray
  <2>3. Len(parsed) <= MaxLines
    <3>1. Len(parsed) \in Nat /\ ~(Len(parsed) > MaxLines)
      BY <1>1, <2>2, LenProperties DEF Receive, Parseable, TooMany
    <3>2. QED
      BY <2>1, <3>1
  <2>4. Target(payload) \in Keys
    BY <2>1, TypedValues DEF Target, Keys, HeaderKeys
  <2>5. CASE SetLines(Target(payload), parsed)
    <3>1. stored' = stored \/ stored' = [stored EXCEPT ![Target(payload)] = parsed]
      BY <2>5 DEF SetLines
    <3>2. stored' \in StoredSets
      BY <2>2, <2>3, <2>4, <3>1 DEF NvsInv, StoredSets
    <3>3. blob' = BuildEmergencySets(stored')
      BY <2>5 DEF SetLines, NvsInv
    <3>4. QED
      BY <3>2, <3>3 DEF NvsInv, BuildEmergencySets
  <2>6. CASE UNCHANGED <<stored, blob>>
    BY <2>6 DEF NvsInv, BuildEmergencySets
  <2>7. QED
    BY <1>1, <2>5, <2>6 DEF Receive
<1>2. CASE Restart
  <2>1. stored' = stored /\ blob' = blob
    BY <1>2, BlobThereAndBack DEF Restart, NvsInv
  <2>2. QED
    BY <2>1 DEF NvsInv, BuildEmergencySets
<1>3. CASE UNCHANGED vars
  BY <1>3 DEF vars, NvsInv, BuildEmergencySets
<1>4. QED
  BY <1>1, <1>2, <1>3 DEF Next

(* Nothing is stored at first. *)
LEMMA NvsStarts == Init => NvsInv
<1> SUFFICES ASSUME Init PROVE NvsInv
  OBVIOUS
<1>1. stored = [k \in Keys |-> <<>>] /\ blob = {}
  BY DEF Init
<1>2. <<>> \in Seq(ParsedLines) /\ Len(<<>>) = 0 /\ MaxLines \in Nat
  BY EmptySeq, ProtocolAssumption
<1>3. stored \in StoredSets
  BY <1>1, <1>2 DEF StoredSets
<1>4. BuildEmergencySets(stored) = {}
  BY <1>1 DEF BuildEmergencySets
<1>5. QED
  BY <1>1, <1>3, <1>4 DEF NvsInv

(* Whatever the cloud managed to store comes back from NVS field by field: no set is *)
(* mangled by a restart, or lost because the parser refuses what it once took         *)
(* (gbb_protocol.cpp:128-156).                                                        *)
THEOREM SetsSurviveNvs == Spec => []SurvivesNvs
<1>1. NvsInv => SurvivesNvs
  BY BlobThereAndBack DEF NvsInv, SurvivesNvs
<1>2. QED
  BY <1>1, NvsStarts, NvsKept, PTL DEF Spec

-----------------------------------------------------------------------------
(* The response *)

(* The fields that an echo keeps, and the type each must have. *)
EchoedFields == {"Tag", "Timestamp", "Modbus", "Error"}
LineType(f) == IF f = "Timestamp" THEN "number" ELSE "text"

(* A line in the response is the line of the request, less what was absent, of a    *)
(* wrong type or an empty Error.                                                    *)
LEMMA LineEchoed ==
  ASSUME NEW doc \in LineDocs, NEW f \in EchoedFields
  PROVE  LET echo == SerializeLine(ParseLine(doc))[f]
             said == doc[f]
         IN \/ echo = said
            \/ echo = Absent /\ f = "Error" /\ said = Text(0)
            \/ echo = Absent /\ said # Typed(said, LineType(f))
<1>1. /\ doc.Tag \in Value /\ doc.Timestamp \in Value
      /\ doc.Modbus \in Value /\ doc.Error \in Value
  BY DEF LineDocs
<1>2. ASSUME NEW value \in Value, NEW type \in {"text", "number"}
      PROVE  \/ Typed(value, type) = value
             \/ Typed(value, type) = Absent /\ value # Typed(value, type)
  BY DEF Typed
<1>3. CASE f = "Error"
  <2>1. SerializeLine(ParseLine(doc))[f] =
          IF Typed(doc.Error, "text").v = 0 THEN Absent ELSE Text(Typed(doc.Error, "text").v)
    BY <1>3 DEF SerializeLine, ParseLine
  <2>2. Typed(doc.Error, "text") \in {Absent, Text(0), Text(1)}
    BY <1>1, TypedValues DEF Texts
  <2>3. Absent.v = 0 /\ Text(0).v = 0 /\ Text(1).v = 1
    BY DEF Absent, Text
  <2>4. QED
    BY <1>1, <1>2, <1>3, <2>1, <2>2, <2>3 DEF LineType
<1>4. CASE f \in {"Tag", "Modbus"}
  <2>1. SerializeLine(ParseLine(doc))[f] = Typed(doc[f], "text")
    BY <1>4 DEF SerializeLine, ParseLine
  <2>2. QED
    BY <1>1, <1>2, <1>4, <2>1 DEF LineType
<1>5. CASE f = "Timestamp"
  <2>1. SerializeLine(ParseLine(doc))[f] = Typed(doc[f], "number")
    BY <1>5 DEF SerializeLine, ParseLine
  <2>2. QED
    BY <1>1, <1>2, <1>5, <2>1 DEF LineType
<1>6. QED
  BY <1>3, <1>4, <1>5 DEF EchoedFields

(* The response to a payload echoes it. *)
LEMMA ResponseEchoes ==
  ASSUME NEW payload \in Payloads, Receive(payload)
  PROVE  EchoedAsSent'
<1> DEFINE elements == payload.lines.elements
<1>1. /\ response' = BuildResponse(payload)
      /\ answered' = [fields |-> payload.fields, lines |-> payload.lines]
  BY DEF Receive
<1>2. payload.fields \in [HeaderKeys -> Value] /\ payload.lines \in Arrays
  BY ProtocolAssumption
<1>3. /\ elements \in Seq(LineDocs) /\ Len(elements) \in Nat
      /\ DOMAIN elements = 1..Len(elements)
      /\ \A i \in 1..Len(elements) : elements[i] \in LineDocs
  <2>1. elements \in Seq(LineDocs)
    BY <1>2 DEF Arrays
  <2>2. QED
    BY <2>1, LenProperties, ElementOfSeq
<1>4. ASSUME NEW key \in HeaderKeys, response'.fields[key] # Absent
      PROVE  response'.fields[key] = answered'.fields[key]
  BY <1>1, <1>4 DEF BuildResponse, Typed
<1>5. /\ Len(response'.lines.elements) = Len(elements)
      /\ \A i \in 1..Len(elements) :
           response'.lines.elements[i] = SerializeLine(ParseLine(elements[i]))
  <2>1. CASE elements = <<>>
    BY <1>1, <1>3, <2>1 DEF BuildResponse, NoArray
  <2>2. CASE elements # <<>>
    <3> DEFINE parsed == ParseLines(payload.lines)
    <3>1. response'.lines.elements = [i \in DOMAIN parsed |-> SerializeLine(parsed[i])]
      BY <1>1, <2>2 DEF BuildResponse, SerializeLines
    <3>2. /\ Len(parsed) = Len(elements) /\ DOMAIN parsed = 1..Len(elements)
          /\ \A i \in 1..Len(elements) : parsed[i] = ParseLine(elements[i])
      BY <1>2, <1>3, ParsedArray, LenProperties DEF ParseLines
    <3>3. response'.lines.elements \in
            [1..Len(elements) -> {SerializeLine(parsed[i]) : i \in 1..Len(elements)}]
      BY <3>1, <3>2
    <3>4. QED
      BY <1>3, <3>1, <3>2, <3>3, FunctionIsSeq
  <2>3. QED
    BY <2>1, <2>2
<1>6. DOMAIN response'.lines.elements = 1..Len(elements)
  <2>1. CASE elements = <<>>
    BY <1>1, <1>3, <2>1 DEF BuildResponse, NoArray
  <2>2. CASE elements # <<>>
    BY <1>1, <1>2, <1>3, <2>2, ParsedArray, LenProperties DEF BuildResponse, SerializeLines
  <2>3. QED
    BY <2>1, <2>2
<1>7. answered'.fields = payload.fields /\ answered'.lines.elements = elements
  BY <1>1
<1>8. ASSUME NEW i \in DOMAIN response'.lines.elements, NEW f \in EchoedFields
      PROVE  LET echo == response'.lines.elements[i][f]
                 said == answered'.lines.elements[i][f]
             IN \/ echo = said
                \/ echo = Absent /\ f = "Error" /\ said = Text(0)
                \/ echo = Absent /\ said # Typed(said, LineType(f))
  <2>1. i \in 1..Len(elements) /\ elements[i] \in LineDocs
    BY <1>3, <1>6
  <2>2. response'.lines.elements[i] = SerializeLine(ParseLine(elements[i]))
    BY <1>5, <2>1
  <2>3. QED
    BY <1>7, <2>1, <2>2, LineEchoed
<1>9. QED
  BY <1>4, <1>5, <1>7, <1>8 DEF EchoedAsSent, EchoedFields, LineType

(* A response says of a request what the request said, line by line and field by    *)
(* field, for any request (docs/protocol.md:29-30).                                  *)
THEOREM EchoIsTrue == Spec => []EchoedAsSent
<1>1. Init => EchoedAsSent
  BY DEF Init, EchoedAsSent, NoArray
<1>2. EchoedAsSent /\ [Next]_vars => EchoedAsSent'
  <2> SUFFICES ASSUME EchoedAsSent, Restart \/ UNCHANGED vars PROVE EchoedAsSent'
    BY ResponseEchoes DEF Next
  <2>1. response' = response /\ answered' = answered
    BY DEF Restart, vars
  <2>2. QED
    BY <2>1 DEF EchoedAsSent
<1>3. QED
  BY <1>1, <1>2, PTL DEF Spec

(* Lines that were parsed are written as an array of line documents. *)
LEMMA SerializedArray ==
  ASSUME NEW lines \in Seq(ParsedLines)
  PROVE  SerializeLines(lines) \in Arrays
<1>1. /\ Len(lines) \in Nat /\ DOMAIN lines = 1..Len(lines)
      /\ \A i \in 1..Len(lines) : lines[i] \in ParsedLines
  BY LenProperties, ElementOfSeq
<1>2. Texts \subseteq Value /\ Numbers \subseteq Value
  BY DEF Texts, Numbers, Value, Absent, Text, Number
<1>3. ASSUME NEW line \in ParsedLines PROVE SerializeLine(line) \in LineDocs
  <2>1. /\ line.lineNo \in {0, 1} /\ line.error \in {0, 1}
        /\ line.tag \in Value /\ line.timestamp \in Value /\ line.modbus \in Value
    BY <1>2 DEF ParsedLines
  <2>2. /\ Number(line.lineNo) \in Value
        /\ (IF line.error = 0 THEN Absent ELSE Text(line.error)) \in Value
    BY <2>1 DEF Value, Number, Text, Absent
  <2>3. QED
    BY <2>1, <2>2 DEF SerializeLine, LineDocs
<1>4. [i \in 1..Len(lines) |-> SerializeLine(lines[i])] \in [1..Len(lines) -> LineDocs]
  BY <1>1, <1>3
<1>5. [i \in 1..Len(lines) |-> SerializeLine(lines[i])] \in Seq(LineDocs)
  BY <1>1, <1>4, FunctionIsSeq
<1>6. QED
  BY <1>1, <1>5 DEF SerializeLines, Arrays

(* The header and the lines of a response. *)
LEMMA ResponseTyped ==
  ASSUME NEW payload \in Payloads
  PROVE  /\ BuildResponse(payload).fields \in [HeaderKeys -> Value]
         /\ BuildResponse(payload).lines \in Arrays
<1>1. payload.fields \in [HeaderKeys -> Value] /\ payload.lines \in Arrays
  BY ProtocolAssumption
<1>2. ASSUME NEW key \in HeaderKeys
      PROVE  LET value == Typed(payload.fields[key], TypeOf(key))
             IN (IF key = "Error" /\ value.v = 0 THEN Absent ELSE value) \in Value
  <2>1. payload.fields[key] \in Value /\ Absent \in Value
    BY <1>1 DEF Value, Absent
  <2>2. QED
    BY <2>1 DEF Typed
<1>3. BuildResponse(payload).fields \in [HeaderKeys -> Value]
  BY <1>2 DEF BuildResponse
<1>4. NoArray \in Arrays
  BY EmptySeq DEF NoArray, Arrays
<1>5. SerializeLines(ParseLines(payload.lines)) \in Arrays
  BY <1>1, ParsedArray, SerializedArray
<1>6. QED
  BY <1>3, <1>4, <1>5 DEF BuildResponse

(* The types of GbbProtocol, for any payloads and any limit on their lines; no set *)
(* is stored that is longer than the parser takes.                                  *)
THEOREM ProtocolTyped == Spec => []TypeOK
<1> DEFINE EchoTyped == response.fields \in [HeaderKeys -> Value] /\ response.lines \in Arrays
<1>1. Init => EchoTyped
  <2>1. Absent \in Value /\ NoArray \in Arrays
    BY EmptySeq DEF Absent, Value, NoArray, Arrays
  <2>2. QED
    BY <2>1 DEF Init
<1>2. EchoTyped /\ [Next]_vars => EchoTyped'
  <2>1. ASSUME NEW payload \in Payloads, Receive(payload) PROVE EchoTyped'
    BY <2>1, ResponseTyped DEF Receive
  <2>2. ASSUME EchoTyped, Restart \/ UNCHANGED vars PROVE EchoTyped'
    BY <2>2 DEF Restart, vars
  <2>3. QED
    BY <2>1, <2>2 DEF Next
<1>3. NvsInv /\ EchoTyped => TypeOK
  <2>1. ParsedLines \subseteq Lines
    BY DEF ParsedLines, Lines, Texts, Numbers, Value, Absent, Text, Number
  <2>2. Seq(ParsedLines) \subseteq Seq(Lines)
    BY <2>1, SeqMonotonic
  <2>3. QED
    BY <2>2 DEF NvsInv, StoredSets, TypeOK
<1>4. QED
  BY <1>1, <1>2, <1>3, NvsStarts, NvsKept, PTL DEF Spec

-----------------------------------------------------------------------------
(* A reply byte by byte *)

(* A digit that was written is read as what it was. *)
LEMMA NibbleThereAndBack ==
  ASSUME NEW n \in 0..15
  PROVE  HexNibble(Digits[n + 1]) = n
<1>1. Len(Digits) = 16
  BY DEF Digits
<1>2. \A i, j \in 1..16 : Digits[i] = Digits[j] => i = j
  BY DEF Digits
<1>3. Contains(Digits, Digits[n + 1])
  BY <1>1 DEF Contains
<1>4. \A m \in 0..15 : Digits[m + 1] = Digits[n + 1] => m = n
  BY <1>2
<1>5. Len(LowerDigits) = 6 /\ \A i \in 1..6, j \in 1..16 : LowerDigits[i] # Digits[j]
  BY DEF Digits, LowerDigits
<1>6. ~Contains(LowerDigits, Digits[n + 1])
  BY <1>5 DEF Contains
<1> HIDE DEF Digits
<1>7. (CHOOSE m \in 0..15 : Digits[m + 1] = Digits[n + 1]) = n
  BY <1>4
<1>8. QED
  BY <1>3, <1>7, <1>6 DEF HexNibble

(* A byte is its two digits. *)
LEMMA TwoDigits ==
  ASSUME NEW d \in 0..255
  PROVE  /\ d \div 16 \in 0..15 /\ d % 16 \in 0..15
         /\ 16 * (d \div 16) + (d % 16) = d
         /\ 1 + (d \div 16) = (d \div 16) + 1 /\ 1 + (d % 16) = (d % 16) + 1
OBVIOUS

(* An even number is twice its half. *)
LEMMA HalfOfEven ==
  ASSUME NEW n \in Nat
  PROVE  (2 * n) \div 2 = n
OBVIOUS

(* Bytes that were written as text are read as what they were. *)
LEMMA HexThereAndBack ==
  ASSUME NEW data \in Seq(Byte)
  PROVE  HexToBytes(BytesToHex(data)) = data
<1> DEFINE text == BytesToHex(data)
           read == HexToBytes(text)
<1>1. Len(data) \in Nat /\ DOMAIN data = 1..Len(data) /\ \A i \in 1..Len(data) : data[i] \in 0..255
  BY LenProperties DEF Byte
<1>2. Len(text) = 2 * Len(data) /\ DOMAIN text = 1..2 * Len(data)
  <2>1. text \in [1..2 * Len(data) -> {text[i] : i \in 1..2 * Len(data)}]
    BY DEF BytesToHex
  <2> HIDE DEF text
  <2>2. QED
    BY <1>1, <2>1, FunctionIsSeq
<1>3. ASSUME NEW i \in 1..Len(data)
      PROVE  16 * HexNibble(text[2 * i - 1]) + HexNibble(text[2 * i]) = data[i]
  <2>1. /\ 2 * i - 1 \in 1..2 * Len(data) /\ 2 * i \in 1..2 * Len(data)
        /\ (2 * i - 1 + 1) \div 2 = i /\ (2 * i + 1) \div 2 = i
        /\ (2 * i - 1) % 2 = 1 /\ (2 * i) % 2 # 1
    BY <1>1
  <2>2. /\ text[2 * i - 1] = Digits[1 + (data[i] \div 16)]
        /\ text[2 * i] = Digits[1 + (data[i] % 16)]
    BY <2>1 DEF BytesToHex
  <2>3. /\ data[i] \div 16 \in 0..15 /\ data[i] % 16 \in 0..15
        /\ 16 * (data[i] \div 16) + (data[i] % 16) = data[i]
        /\ 1 + (data[i] \div 16) = (data[i] \div 16) + 1
        /\ 1 + (data[i] % 16) = (data[i] % 16) + 1
    <3>1. data[i] \in 0..255
      BY <1>1
    <3>2. QED
      BY <3>1, TwoDigits
  <2>4. /\ HexNibble(text[2 * i - 1]) = data[i] \div 16
        /\ HexNibble(text[2 * i]) = data[i] % 16
    BY <2>2, <2>3, NibbleThereAndBack
  <2>5. QED
    BY <2>3, <2>4
<1>4. Len(text) \div 2 = Len(data)
  BY <1>1, <1>2, HalfOfEven
<1>5. read = [i \in 1..Len(data) |-> 16 * HexNibble(text[2 * i - 1]) + HexNibble(text[2 * i])]
  BY <1>4 DEF HexToBytes
<1> HIDE DEF text
<1>6. read = [i \in 1..Len(data) |-> data[i]]
  BY <1>3, <1>5
<1>7. data = [i \in 1..Len(data) |-> data[i]]
  BY <1>1, LenProperties
<1>8. QED
  BY <1>6, <1>7 DEF text

(* The length that is expected, function by function. *)
LEMMA LengthByFunction ==
  ASSUME NEW f, f[2] \in 0..255, f[3] \in 0..255
  PROVE  /\ f[2] >= 128 => ExpectedLength(f) = 5
         /\ f[2] \in 1..4 => ExpectedLength(f) = f[3] + 5
         /\ f[2] \in {5, 6, 15, 16} => ExpectedLength(f) = 8
         /\ ~ (f[2] >= 128) /\ f[2] \notin 1..4 /\ f[2] \notin {5, 6, 15, 16}
              => ExpectedLength(f) = 0
<1> DEFINE p == f[2]
           q == f[3]
<1>1. ExpectedLength(f) = CASE p >= 128             -> 5
                            [] p \in 1..4           -> 3 + q + 2
                            [] p \in {5, 6, 15, 16} -> 8
                            [] OTHER                -> 0
  BY DEF ExpectedLength
<1>2. p \in 0..255 /\ q \in 0..255
  OBVIOUS
<1> HIDE DEF p, q
<1>3. p >= 128 => p \notin 1..4 /\ p \notin {5, 6, 15, 16}
  BY <1>2
<1>4. p \in 1..4 => ~ (p >= 128) /\ p \notin {5, 6, 15, 16} /\ 3 + q + 2 = q + 5
  BY <1>2
<1>5. p \in {5, 6, 15, 16} => ~ (p >= 128) /\ p \notin 1..4
  BY <1>2
<1>6. /\ p >= 128 => ExpectedLength(f) = 5
      /\ p \in 1..4 => ExpectedLength(f) = 3 + q + 2
      /\ p \in {5, 6, 15, 16} => ExpectedLength(f) = 8
      /\ ~ (p >= 128) /\ p \notin 1..4 /\ p \notin {5, 6, 15, 16} => ExpectedLength(f) = 0
  BY <1>1, <1>3, <1>4, <1>5
<1>7. QED
  BY <1>4, <1>6 DEF p, q

(* The bytes of a header are bytes. *)
LEMMA HeaderBytes ==
  ASSUME NEW f \in Seq(Byte), Len(f) >= 3
  PROVE  f[2] \in 0..255 /\ f[3] \in 0..255
<1>1. Len(f) \in Nat /\ \A i \in 1..Len(f) : f[i] \in 0..255
  BY LenProperties DEF Byte
<1>2. 2 \in 1..Len(f) /\ 3 \in 1..Len(f)
  BY <1>1
<1>3. QED
  BY <1>1, <1>2, Zenon

(* What an inverter replies has the length that the executor expects, if any. *)
LEMMA RepliesAreWellFormed ==
  ASSUME NEW r \in Replies
  PROVE  /\ r \in Seq(Byte) /\ Len(r) \in Nat /\ Len(r) >= 5
         /\ ExpectedLength(r) \in {0, Len(r)} /\ ChecksumOk(r)
<1>1. /\ r \in Seq(Byte) /\ Len(r) >= 5 /\ WellFormed(r)
  BY FrameAssumption
<1>2. Len(r) \in Nat
  BY <1>1, LenProperties
<1>3. ChecksumOk(r)
  BY <1>1 DEF WellFormed, ChecksumOk
<1>4. /\ r[2] >= 128 => Len(r) = 5
      /\ r[2] \in 1..4 => Len(r) = r[3] + 5
      /\ r[2] \in {5, 6, 15, 16} => Len(r) = 8
  BY <1>1 DEF WellFormed
<1>5. r[2] \in 0..255 /\ r[3] \in 0..255
  BY <1>1, <1>2, HeaderBytes
<1>6. ExpectedLength(r) \in {0, Len(r)}
  <2>1. /\ r[2] >= 128 => ExpectedLength(r) = 5
        /\ r[2] \in 1..4 => ExpectedLength(r) = r[3] + 5
        /\ r[2] \in {5, 6, 15, 16} => ExpectedLength(r) = 8
        /\ ~ (r[2] >= 128) /\ r[2] \notin 1..4 /\ r[2] \notin {5, 6, 15, 16}
             => ExpectedLength(r) = 0
    BY <1>5, LengthByFunction
  <2>2. QED
    BY <1>4, <2>1, Zenon
<1>7. QED
  BY <1>1, <1>2, <1>3, <1>6

(* The length that is expected is a length, and the first three bytes say it. *)
LEMMA HeaderSaysLength ==
  ASSUME NEW f \in Seq(Byte), Len(f) >= 3
  PROVE  /\ ExpectedLength(f) \in Nat /\ (ExpectedLength(f) > 0 => ExpectedLength(f) >= 5)
         /\ \A g \in Seq(Byte) : g[2] = f[2] /\ g[3] = f[3]
              => ExpectedLength(g) = ExpectedLength(f)
<1>1. f[2] \in 0..255 /\ f[3] \in 0..255
  BY HeaderBytes
<1>2. /\ ExpectedLength(f) \in Nat
      /\ ExpectedLength(f) > 0 => ExpectedLength(f) >= 5
  <2>1. ExpectedLength(f) \in {0, 5, 8, f[3] + 5}
    BY <1>1, LengthByFunction
  <2>2. f[3] + 5 \in Nat /\ f[3] + 5 >= 5
    <3>1. \A byte \in 0..255 : byte + 5 \in Nat /\ byte + 5 >= 5
      OBVIOUS
    <3>2. QED
      BY <1>1, <3>1, Zenon
  <2>3. \A n \in {0, 5, 8, f[3] + 5} : n \in Nat /\ (n > 0 => n >= 5)
    BY <2>2
  <2>4. QED
    BY <2>1, <2>3, Zenon
<1>3. ASSUME NEW g \in Seq(Byte), g[2] = f[2], g[3] = f[3]
      PROVE  ExpectedLength(g) = ExpectedLength(f)
  BY <1>3 DEF ExpectedLength
<1>4. QED
  BY <1>1, <1>2, <1>3

(* The beginning of a sequence. *)
LEMMA Beginning ==
  ASSUME NEW S, NEW s \in Seq(S), NEW n \in 0..Len(s)
  PROVE  /\ SubSeq(s, 1, n) \in Seq(S) /\ Len(SubSeq(s, 1, n)) = n
         /\ \A i \in 1..n : SubSeq(s, 1, n)[i] = s[i]
<1>1. Len(s) \in Nat /\ \A i \in 1..n : s[i] \in S
  BY LenProperties
<1>2. QED
  BY <1>1, SubSeqProperties

(* What a prefix is, element by element. *)
LEMMA PrefixByElements ==
  ASSUME NEW S, NEW s \in Seq(S), NEW t \in Seq(S)
  PROVE  IsPrefix(s, t) <=> Len(s) <= Len(t) /\ \A i \in 1..Len(s) : t[i] = s[i]
<1>1. Len(s) \in Nat /\ Len(t) \in Nat
  BY LenProperties
<1>2. SUFFICES ASSUME Len(s) <= Len(t)
               PROVE  IsPrefix(s, t) <=> \A i \in 1..Len(s) : t[i] = s[i]
  BY DEF IsPrefix
<1> DEFINE a == SubSeq(s, 1, Len(s))
           b == SubSeq(t, 1, Len(s))
<1>3. /\ a \in Seq(S) /\ Len(a) = Len(s) /\ \A i \in 1..Len(s) : a[i] = s[i]
      /\ b \in Seq(S) /\ Len(b) = Len(s) /\ \A i \in 1..Len(s) : b[i] = t[i]
  BY <1>1, <1>2, Beginning
<1>4. IsPrefix(s, t) <=> a = b
  BY <1>2 DEF IsPrefix
<1> HIDE DEF a, b
<1>5. a = b <=> \A i \in 1..Len(s) : a[i] = b[i]
  BY <1>3, SeqEqual
<1>6. QED
  BY <1>3, <1>4, <1>5

-----------------------------------------------------------------------------
(* What the checksum tells apart *)

(* The numbers of 1, 2, 4, 8 and 16 bits. *)
Bits1 == {n \in Nat : n < 2}
Bits2 == {n \in Nat : n < 4}
Bits4 == {n \in Nat : n < 16}
Bits8 == {n \in Nat : n < 256}
Bits16 == {n \in Nat : n < 65536}

(* A number of 2 bits is that of its halves. *)
LEMMA Halves2 ==
  ASSUME NEW m \in Bits2
  PROVE  m \div 2 \in Bits1 /\ m % 2 \in Bits1 /\ m = 2 * (m \div 2) + (m % 2)
BY DEF Bits1, Bits2

(* ... and two halves are those of a number. *)
LEMMA Whole2 ==
  ASSUME NEW high \in Bits1, NEW low \in Bits1
  PROVE  /\ 2 * high + low \in Bits2
         /\ (2 * high + low) \div 2 = high /\ (2 * high + low) % 2 = low
BY DEF Bits1, Bits2

(* ... and zero has none. *)
LEMMA Zero2 == 0 \in Bits1 /\ 0 \in Bits2 /\ 0 \div 2 = 0 /\ 0 % 2 = 0 /\ 2 * 0 + 0 = 0
BY DEF Bits1, Bits2

(* A number of 4 bits is that of its halves. *)
LEMMA Halves4 ==
  ASSUME NEW m \in Bits4
  PROVE  m \div 4 \in Bits2 /\ m % 4 \in Bits2 /\ m = 4 * (m \div 4) + (m % 4)
BY DEF Bits2, Bits4

(* ... and two halves are those of a number. *)
LEMMA Whole4 ==
  ASSUME NEW high \in Bits2, NEW low \in Bits2
  PROVE  /\ 4 * high + low \in Bits4
         /\ (4 * high + low) \div 4 = high /\ (4 * high + low) % 4 = low
BY DEF Bits2, Bits4

(* ... and zero has none. *)
LEMMA Zero4 == 0 \in Bits2 /\ 0 \in Bits4 /\ 0 \div 4 = 0 /\ 0 % 4 = 0 /\ 4 * 0 + 0 = 0
BY DEF Bits2, Bits4

(* A number of 8 bits is that of its halves. *)
LEMMA Halves8 ==
  ASSUME NEW m \in Bits8
  PROVE  m \div 16 \in Bits4 /\ m % 16 \in Bits4 /\ m = 16 * (m \div 16) + (m % 16)
BY DEF Bits4, Bits8

(* ... and two halves are those of a number. *)
LEMMA Whole8 ==
  ASSUME NEW high \in Bits4, NEW low \in Bits4
  PROVE  /\ 16 * high + low \in Bits8
         /\ (16 * high + low) \div 16 = high /\ (16 * high + low) % 16 = low
BY DEF Bits4, Bits8

(* ... and zero has none. *)
LEMMA Zero8 == 0 \in Bits4 /\ 0 \in Bits8 /\ 0 \div 16 = 0 /\ 0 % 16 = 0 /\ 16 * 0 + 0 = 0
BY DEF Bits4, Bits8

(* A number of 16 bits is that of its halves. *)
LEMMA Halves16 ==
  ASSUME NEW m \in Bits16
  PROVE  m \div 256 \in Bits8 /\ m % 256 \in Bits8 /\ m = 256 * (m \div 256) + (m % 256)
BY DEF Bits8, Bits16

(* ... and two halves are those of a number. *)
LEMMA Whole16 ==
  ASSUME NEW high \in Bits8, NEW low \in Bits8
  PROVE  /\ 256 * high + low \in Bits16
         /\ (256 * high + low) \div 256 = high /\ (256 * high + low) % 256 = low
BY DEF Bits8, Bits16

(* ... and zero has none. *)
LEMMA Zero16 == 0 \in Bits8 /\ 0 \in Bits16 /\ 0 \div 256 = 0 /\ 0 % 256 = 0 /\ 256 * 0 + 0 = 0
BY DEF Bits8, Bits16

(* Exclusive or of bits: it can be turned round and taken back. *)
LEMMA Xor1Laws ==
  ASSUME NEW m \in Bits1, NEW n \in Bits1
  PROVE  /\ Xor1(m, n) \in Bits1 /\ Xor1(m, n) = Xor1(n, m)
         /\ Xor1(m, 0) = m /\ Xor1(m, m) = 0
         /\ \A k \in Bits1 : Xor1(m, n) = Xor1(m, k) => n = k
BY DEF Xor1, Bits1

(* ... of numbers of 2 bits: by halves, and with the same laws. *)
LEMMA Xor2Laws ==
  ASSUME NEW m \in Bits2, NEW n \in Bits2
  PROVE  /\ Xor2(m, n) \in Bits2 /\ Xor2(m, n) = Xor2(n, m)
         /\ Xor2(m, 0) = m /\ Xor2(m, m) = 0
         /\ \A k \in Bits2 : Xor2(m, n) = Xor2(m, k) => n = k
         /\ Xor2(m, n) \div 2 = Xor1(m \div 2, n \div 2)
         /\ Xor2(m, n) % 2 = Xor1(m % 2, n % 2)
<1>1. ASSUME NEW p \in Bits2
      PROVE  /\ Xor2(m, p) \in Bits2
             /\ Xor2(m, p) \div 2 = Xor1(m \div 2, p \div 2)
             /\ Xor2(m, p) % 2 = Xor1(m % 2, p % 2)
  <2>1. /\ Xor1(m \div 2, p \div 2) \in Bits1 /\ Xor1(m % 2, p % 2) \in Bits1
    BY Halves2, Xor1Laws
  <2>2. QED
    BY <2>1, Whole2 DEF Xor2
<1>2. Xor2(m, n) = Xor2(n, m)
  BY Halves2, Xor1Laws DEF Xor2
<1>3. Xor2(m, 0) = m
  BY Halves2, Zero2, Xor1Laws DEF Xor2
<1>4. Xor2(m, m) = 0
  BY Halves2, Zero2, Xor1Laws DEF Xor2
<1>5. ASSUME NEW k \in Bits2, Xor2(m, n) = Xor2(m, k) PROVE n = k
  <2>1. /\ Xor1(m \div 2, n \div 2) = Xor1(m \div 2, k \div 2)
        /\ Xor1(m % 2, n % 2) = Xor1(m % 2, k % 2)
    BY <1>1, <1>5
  <2>2. n \div 2 = k \div 2 /\ n % 2 = k % 2
    BY <2>1, Xor1Laws, Halves2
  <2>3. QED
    BY <2>2, Halves2
<1>6. QED
  BY <1>1, <1>2, <1>3, <1>4, <1>5

(* ... of numbers of 4 bits: by halves, and with the same laws. *)
LEMMA Xor4Laws ==
  ASSUME NEW m \in Bits4, NEW n \in Bits4
  PROVE  /\ Xor4(m, n) \in Bits4 /\ Xor4(m, n) = Xor4(n, m)
         /\ Xor4(m, 0) = m /\ Xor4(m, m) = 0
         /\ \A k \in Bits4 : Xor4(m, n) = Xor4(m, k) => n = k
         /\ Xor4(m, n) \div 4 = Xor2(m \div 4, n \div 4)
         /\ Xor4(m, n) % 4 = Xor2(m % 4, n % 4)
<1>1. ASSUME NEW p \in Bits4
      PROVE  /\ Xor4(m, p) \in Bits4
             /\ Xor4(m, p) \div 4 = Xor2(m \div 4, p \div 4)
             /\ Xor4(m, p) % 4 = Xor2(m % 4, p % 4)
  <2>1. /\ Xor2(m \div 4, p \div 4) \in Bits2 /\ Xor2(m % 4, p % 4) \in Bits2
    BY Halves4, Xor2Laws
  <2>2. QED
    BY <2>1, Whole4 DEF Xor4
<1>2. Xor4(m, n) = Xor4(n, m)
  BY Halves4, Xor2Laws DEF Xor4
<1>3. Xor4(m, 0) = m
  BY Halves4, Zero4, Xor2Laws DEF Xor4
<1>4. Xor4(m, m) = 0
  BY Halves4, Zero4, Xor2Laws DEF Xor4
<1>5. ASSUME NEW k \in Bits4, Xor4(m, n) = Xor4(m, k) PROVE n = k
  <2>1. /\ Xor2(m \div 4, n \div 4) = Xor2(m \div 4, k \div 4)
        /\ Xor2(m % 4, n % 4) = Xor2(m % 4, k % 4)
    BY <1>1, <1>5
  <2>2. n \div 4 = k \div 4 /\ n % 4 = k % 4
    BY <2>1, Xor2Laws, Halves4
  <2>3. QED
    BY <2>2, Halves4
<1>6. QED
  BY <1>1, <1>2, <1>3, <1>4, <1>5

(* ... of numbers of 8 bits: by halves, and with the same laws. *)
LEMMA Xor8Laws ==
  ASSUME NEW m \in Bits8, NEW n \in Bits8
  PROVE  /\ Xor8(m, n) \in Bits8 /\ Xor8(m, n) = Xor8(n, m)
         /\ Xor8(m, 0) = m /\ Xor8(m, m) = 0
         /\ \A k \in Bits8 : Xor8(m, n) = Xor8(m, k) => n = k
         /\ Xor8(m, n) \div 16 = Xor4(m \div 16, n \div 16)
         /\ Xor8(m, n) % 16 = Xor4(m % 16, n % 16)
<1>1. ASSUME NEW p \in Bits8
      PROVE  /\ Xor8(m, p) \in Bits8
             /\ Xor8(m, p) \div 16 = Xor4(m \div 16, p \div 16)
             /\ Xor8(m, p) % 16 = Xor4(m % 16, p % 16)
  <2>1. /\ Xor4(m \div 16, p \div 16) \in Bits4 /\ Xor4(m % 16, p % 16) \in Bits4
    BY Halves8, Xor4Laws
  <2>2. QED
    BY <2>1, Whole8 DEF Xor8
<1>2. Xor8(m, n) = Xor8(n, m)
  BY Halves8, Xor4Laws DEF Xor8
<1>3. Xor8(m, 0) = m
  BY Halves8, Zero8, Xor4Laws DEF Xor8
<1>4. Xor8(m, m) = 0
  BY Halves8, Zero8, Xor4Laws DEF Xor8
<1>5. ASSUME NEW k \in Bits8, Xor8(m, n) = Xor8(m, k) PROVE n = k
  <2>1. /\ Xor4(m \div 16, n \div 16) = Xor4(m \div 16, k \div 16)
        /\ Xor4(m % 16, n % 16) = Xor4(m % 16, k % 16)
    BY <1>1, <1>5
  <2>2. n \div 16 = k \div 16 /\ n % 16 = k % 16
    BY <2>1, Xor4Laws, Halves8
  <2>3. QED
    BY <2>2, Halves8
<1>6. QED
  BY <1>1, <1>2, <1>3, <1>4, <1>5

(* ... of numbers of 16 bits: by halves, and with the same laws. *)
LEMMA XorLaws ==
  ASSUME NEW m \in Bits16, NEW n \in Bits16
  PROVE  /\ Xor(m, n) \in Bits16 /\ Xor(m, n) = Xor(n, m)
         /\ Xor(m, 0) = m /\ Xor(m, m) = 0
         /\ \A k \in Bits16 : Xor(m, n) = Xor(m, k) => n = k
         /\ Xor(m, n) \div 256 = Xor8(m \div 256, n \div 256)
         /\ Xor(m, n) % 256 = Xor8(m % 256, n % 256)
<1>1. ASSUME NEW p \in Bits16
      PROVE  /\ Xor(m, p) \in Bits16
             /\ Xor(m, p) \div 256 = Xor8(m \div 256, p \div 256)
             /\ Xor(m, p) % 256 = Xor8(m % 256, p % 256)
  <2>1. /\ Xor8(m \div 256, p \div 256) \in Bits8 /\ Xor8(m % 256, p % 256) \in Bits8
    BY Halves16, Xor8Laws
  <2>2. QED
    BY <2>1, Whole16 DEF Xor
<1>2. Xor(m, n) = Xor(n, m)
  BY Halves16, Xor8Laws DEF Xor
<1>3. Xor(m, 0) = m
  BY Halves16, Zero16, Xor8Laws DEF Xor
<1>4. Xor(m, m) = 0
  BY Halves16, Zero16, Xor8Laws DEF Xor
<1>5. ASSUME NEW k \in Bits16, Xor(m, n) = Xor(m, k) PROVE n = k
  <2>1. /\ Xor8(m \div 256, n \div 256) = Xor8(m \div 256, k \div 256)
        /\ Xor8(m % 256, n % 256) = Xor8(m % 256, k % 256)
    BY <1>1, <1>5
  <2>2. n \div 256 = k \div 256 /\ n % 256 = k % 256
    BY <2>1, Xor8Laws, Halves16
  <2>3. QED
    BY <2>2, Halves16
<1>6. QED
  BY <1>1, <1>2, <1>3, <1>4, <1>5
(* The numbers in 40961 = 256 * 160 + 1. *)
LEMMA Polynomial ==
  /\ 1 \in Bits1 /\ 1 \in Bits2 /\ 2 \in Bits2 /\ 1 \in Bits4 /\ 10 \in Bits4
  /\ 1 \in Bits8 /\ 160 \in Bits8 /\ 40961 \in Bits16
  /\ 1 \div 2 = 0 /\ 1 % 2 = 1 /\ 2 \div 2 = 1 /\ 2 % 2 = 0
  /\ 1 \div 4 = 0 /\ 1 % 4 = 1 /\ 10 \div 4 = 2 /\ 10 % 4 = 2
  /\ 1 \div 16 = 0 /\ 1 % 16 = 1 /\ 160 \div 16 = 10 /\ 160 % 16 = 0
  /\ 40961 \div 256 = 160 /\ 40961 % 256 = 1
BY DEF Bits1, Bits2, Bits4, Bits8, Bits16

(* A bit that is turned over. *)
LEMMA TurnBit ==
  ASSUME NEW b \in Bits1
  PROVE  Xor1(b, 1) = 1 - b
BY DEF Xor1, Bits1

(* Its low byte turns bit 0 over. *)
LEMMA TurnBit0 ==
  ASSUME NEW m \in Bits8
  PROVE  Xor8(m, 1) = IF m % 2 = 1 THEN m - 1 ELSE m + 1
<1>1. ASSUME NEW r \in Bits2 PROVE Xor2(r, 1) = 2 * (r \div 2) + (1 - (r % 2))
  <2>1. Xor1(r % 2, 1) = 1 - (r % 2)
    BY Halves2, TurnBit
  <2>2. QED
    BY <2>1, Halves2, Polynomial, Xor1Laws DEF Xor2
<1>2. ASSUME NEW q \in Bits4 PROVE Xor4(q, 1) = 4 * (q \div 4) + Xor2(q % 4, 1)
  BY Halves4, Polynomial, Xor2Laws DEF Xor4
<1>3. Xor8(m, 1) = 16 * (m \div 16) + Xor4(m % 16, 1)
  BY Halves8, Polynomial, Xor4Laws DEF Xor8
<1>4. m % 16 \in Bits4 /\ (m % 16) % 4 \in Bits2
  BY Halves8, Halves4
<1>5. Xor8(m, 1) = 16 * (m \div 16) + (4 * ((m % 16) \div 4)
                     + (2 * (((m % 16) % 4) \div 2) + (1 - (((m % 16) % 4) % 2))))
  BY <1>1, <1>2, <1>3, <1>4
<1>6. m \in Nat
  BY DEF Bits8
<1>7. QED
  BY <1>5, <1>6

(* Its high byte turns bits 7 and 5 over, and bit 7 is none of what is shifted. *)
LEMMA TurnBits7And5 ==
  ASSUME NEW m \in Bits8, m < 128
  PROVE  Xor8(m, 160) = IF (m \div 32) % 2 = 1 THEN 128 + m - 32 ELSE 128 + m + 32
<1>1. ASSUME NEW r \in Bits2 PROVE Xor2(r, 2) = 2 * (1 - (r \div 2)) + (r % 2)
  <2>1. Xor1(r \div 2, 1) = 1 - (r \div 2)
    BY Halves2, TurnBit
  <2>2. QED
    BY <2>1, Halves2, Polynomial, Xor1Laws DEF Xor2
<1>2. ASSUME NEW q \in Bits4 PROVE Xor4(q, 10) = 4 * Xor2(q \div 4, 2) + Xor2(q % 4, 2)
  BY Polynomial DEF Xor4
<1>3. Xor8(m, 160) = 16 * Xor4(m \div 16, 10) + (m % 16)
  BY Halves8, Polynomial, Xor4Laws DEF Xor8
<1>4. /\ m \div 16 \in Bits4 /\ (m \div 16) \div 4 \in Bits2 /\ (m \div 16) % 4 \in Bits2
  BY Halves8, Halves4
<1>5. Xor8(m, 160) =
        16 * (4 * (2 * (1 - (((m \div 16) \div 4) \div 2)) + (((m \div 16) \div 4) % 2))
              + (2 * (1 - (((m \div 16) % 4) \div 2)) + (((m \div 16) % 4) % 2))) + (m % 16)
  BY <1>1, <1>2, <1>3, <1>4
<1>6. m \in Nat
  BY DEF Bits8
<1>7. QED
  BY <1>5, <1>6
(* A shift of an even number. *)
LEMMA EvenShift ==
  ASSUME NEW crc \in Bits16, crc % 2 # 1
  PROVE  /\ ShiftedOut(crc) = crc \div 2 /\ ShiftedOut(crc) \in Bits16
         /\ ShiftedOut(crc) \div 256 < 128
BY DEF ShiftedOut, Bits16

(* ... and of an odd one, byte by byte. *)
LEMMA OddShift ==
  ASSUME NEW crc \in Bits16, crc % 2 = 1
  PROVE  LET half == crc \div 2
         IN /\ half \in Bits16 /\ half \div 256 \in Bits8 /\ half \div 256 < 128
            /\ half % 256 \in Bits8 /\ half = 256 * (half \div 256) + (half % 256)
            /\ ShiftedOut(crc) \in Bits16
            /\ ShiftedOut(crc) \div 256 = Xor8(half \div 256, 160)
            /\ ShiftedOut(crc) % 256 = Xor8(half % 256, 1)
<1> DEFINE half == crc \div 2
<1>1. half \in Bits16 /\ half \div 256 < 128
  BY DEF Bits16
<1>2. ShiftedOut(crc) = Xor(half, 40961)
  BY DEF ShiftedOut
<1> HIDE DEF half
<1>3. QED
  BY <1>1, <1>2, Halves16, Polynomial, XorLaws DEF half

(* A shift of a number of 16 bits is one. *)
LEMMA ShiftIsWord ==
  ASSUME NEW crc \in Bits16
  PROVE  ShiftedOut(crc) \in Bits16
BY EvenShift, OddShift

Powers == {1, 2, 4, 8, 16, 32, 64, 128}

(* Turning bits over and dropping low bits: in the high byte, *)
LEMMA TurnedTops ==
  ASSUME NEW h \in Nat, h < 128, NEW g \in Nat, g < 128, NEW d \in Powers,
         NEW x, x = (IF (h \div 32) % 2 = 1 THEN 128 + h - 32 ELSE 128 + h + 32),
         NEW y, y = (IF (g \div 32) % 2 = 1 THEN 128 + g - 32 ELSE 128 + g + 32),
         x \div d = y \div d
  PROVE  h \div d = g \div d
BY DEF Powers

(* ... in the low byte, *)
LEMMA TurnedEnds ==
  ASSUME NEW h \in Nat, NEW u \in Nat, u < 256, NEW v \in Nat, v < 256, NEW d \in Powers,
         NEW x, x = 256 * h + (IF u % 2 = 1 THEN u - 1 ELSE u + 1),
         NEW y, y = 256 * h + (IF v % 2 = 1 THEN v - 1 ELSE v + 1),
         u \div d = v \div d
  PROVE  x \div d = y \div d
<1>1. CASE d = 1
  BY <1>1
<1>2. CASE d \in {2, 4, 8}
  BY <1>2
<1>3. CASE d \in {16, 32}
  BY <1>3
<1>4. CASE d \in {64, 128}
  BY <1>4
<1>5. QED
  BY <1>1, <1>2, <1>3, <1>4 DEF Powers

(* ... and in a number as it is. *)
LEMMA HalvedTops ==
  ASSUME NEW a \in Nat, NEW b \in Nat, NEW d \in Powers
  PROVE  /\ a \div (2 * d) = b \div (2 * d) <=> (a \div 2) \div d = (b \div 2) \div d
         /\ ((a \div 2) \div 256) \div d = ((b \div 2) \div 256) \div d
              => (a \div 256) \div (2 * d) = (b \div 256) \div (2 * d)
         /\ a \div d = b \div d =>
              a \div 256 = b \div 256 /\ (a % 256) \div d = (b % 256) \div d
<1>1. a \div (2 * d) = b \div (2 * d) <=> (a \div 2) \div d = (b \div 2) \div d
  BY DEF Powers
<1>2. ((a \div 2) \div 256) \div d = ((b \div 2) \div 256) \div d
        => (a \div 256) \div (2 * d) = (b \div 256) \div (2 * d)
  BY DEF Powers
<1>3. a \div d = b \div d => a \div 256 = b \div 256 /\ (a % 256) \div d = (b % 256) \div d
  BY DEF Powers
<1>4. QED
  BY <1>1, <1>2, <1>3

(* Equal tops after a shift give away the bits that were shifted out and the tops before it. *)
LEMMA ShiftBack ==
  ASSUME NEW a \in Bits16, NEW b \in Bits16, NEW d \in Powers,
         (ShiftedOut(a) \div 256) \div d = (ShiftedOut(b) \div 256) \div d
  PROVE  a % 2 = b % 2 /\ (a \div 256) \div (2 * d) = (b \div 256) \div (2 * d)
<1> DEFINE c == ShiftedOut(a) \div 256
           e == ShiftedOut(b) \div 256
           h == (a \div 2) \div 256
           g == (b \div 2) \div 256
<1>1. h \in Nat /\ h < 128 /\ g \in Nat /\ g < 128 /\ a \in Nat /\ b \in Nat
  BY DEF Bits16
<1>2. a % 2 # 1 => c = h
  BY EvenShift
<1>3. a % 2 = 1 => c = (IF (h \div 32) % 2 = 1 THEN 128 + h - 32 ELSE 128 + h + 32)
  BY OddShift, TurnBits7And5
<1>4. b % 2 # 1 => e = g
  BY EvenShift
<1>5. b % 2 = 1 => e = (IF (g \div 32) % 2 = 1 THEN 128 + g - 32 ELSE 128 + g + 32)
  BY OddShift, TurnBits7And5
<1>6. a % 2 \in {0, 1} /\ b % 2 \in {0, 1}
  BY <1>1
<1>7. h \div d = g \div d => (a \div 256) \div (2 * d) = (b \div 256) \div (2 * d)
  BY <1>1, HalvedTops
<1>8. c \div d = e \div d
  OBVIOUS
<1> HIDE DEF c, e, h, g
<1>9. CASE a % 2 = 1 /\ b % 2 = 1
  BY <1>1, <1>3, <1>5, <1>7, <1>8, <1>9, TurnedTops
<1>10. CASE a % 2 # 1 /\ b % 2 # 1
  BY <1>2, <1>4, <1>6, <1>7, <1>8, <1>10
<1>11. CASE a % 2 = 1 /\ b % 2 # 1
  <2>1. c \in Nat /\ c >= 128 /\ c < 256 /\ e \in Nat /\ e < 128
    BY <1>1, <1>3, <1>4, <1>11
  <2>2. QED
    BY <1>8, <2>1 DEF Powers
<1>12. CASE a % 2 # 1 /\ b % 2 = 1
  <2>1. e \in Nat /\ e >= 128 /\ e < 256 /\ c \in Nat /\ c < 128
    BY <1>1, <1>2, <1>5, <1>12
  <2>2. QED
    BY <1>8, <2>1 DEF Powers
<1>13. QED
  BY <1>9, <1>10, <1>11, <1>12

(* Numbers that differ in their low bits come closer with every shift that takes the same *)
(* bit from both.                                                                          *)
LEMMA ShiftForward ==
  ASSUME NEW a \in Bits16, NEW b \in Bits16, NEW d \in Powers, a % 2 = b % 2,
         a \div (2 * d) = b \div (2 * d)
  PROVE  ShiftedOut(a) \div d = ShiftedOut(b) \div d
<1> DEFINE u == a \div 2
           v == b \div 2
<1>1. u \in Nat /\ v \in Nat /\ a \in Nat /\ b \in Nat
  BY DEF Bits16
<1>2. u \div d = v \div d
  BY <1>1, HalvedTops
<1>3. CASE a % 2 # 1
  BY <1>2, <1>3, EvenShift
<1>4. CASE a % 2 = 1
  <2> DEFINE h == Xor8(u \div 256, 160)
  <2>1. /\ u \in Bits16 /\ u % 256 \in Bits8 /\ ShiftedOut(a) \in Bits16
        /\ ShiftedOut(a) \div 256 = h /\ ShiftedOut(a) % 256 = Xor8(u % 256, 1)
    BY <1>4, OddShift
  <2>2. /\ v \in Bits16 /\ v % 256 \in Bits8 /\ ShiftedOut(b) \in Bits16
        /\ ShiftedOut(b) \div 256 = Xor8(v \div 256, 160)
        /\ ShiftedOut(b) % 256 = Xor8(v % 256, 1)
    BY <1>4, OddShift
  <2> HIDE DEF u, v
  <2>3. u \div 256 = v \div 256 /\ (u % 256) \div d = (v % 256) \div d
    BY <1>1, <1>2, HalvedTops
  <2>4. ShiftedOut(b) \div 256 = h
    BY <2>2, <2>3
  <2> HIDE DEF h
  <2>5. ShiftedOut(a) = 256 * h + (IF (u % 256) % 2 = 1 THEN (u % 256) - 1 ELSE (u % 256) + 1)
    BY <2>1, Halves16, TurnBit0
  <2>6. ShiftedOut(b) = 256 * h + (IF (v % 256) % 2 = 1 THEN (v % 256) - 1 ELSE (v % 256) + 1)
    BY <2>2, <2>4, Halves16, TurnBit0
  <2>7. /\ h \in Nat /\ u % 256 \in Nat /\ u % 256 < 256 /\ v % 256 \in Nat /\ v % 256 < 256
    <3>1. h \in Bits8
      BY <2>1, Halves16
    <3>2. QED
      BY <2>1, <2>2, <3>1 DEF Bits8
  <2>8. QED
    BY <2>3, <2>5, <2>6, <2>7, TurnedEnds
<1>5. QED
  BY <1>3, <1>4

(* A shift loses nothing: what it shifts out is the top of the result. *)
LEMMA ShiftIsOneToOne ==
  ASSUME NEW a \in Bits16, NEW b \in Bits16, ShiftedOut(a) = ShiftedOut(b)
  PROVE  a = b
<1>1. a % 2 = b % 2
  <2>1. 1 \in Powers
    BY DEF Powers
  <2>2. QED
    BY <2>1, ShiftBack
<1>2. a \div 2 = b \div 2
  <2>1. CASE a % 2 # 1
    BY <1>1, <2>1, EvenShift
  <2>2. CASE a % 2 = 1
    <3>1. Xor(a \div 2, 40961) = Xor(b \div 2, 40961)
      BY <1>1, <2>2 DEF ShiftedOut
    <3>2. a \div 2 \in Bits16 /\ b \div 2 \in Bits16
      BY <1>1, <2>2, OddShift
    <3>3. QED
      BY <3>1, <3>2, Polynomial, XorLaws
  <2>3. QED
    BY <2>1, <2>2
<1>3. a \in Nat /\ b \in Nat
  BY DEF Bits16
<1>4. QED
  BY <1>1, <1>2, <1>3

(* ... and so do eight of them. *)
LEMMA EightShiftsOneToOne ==
  ASSUME NEW a \in Bits16, NEW b \in Bits16, EightShifts(a) = EightShifts(b)
  PROVE  a = b
<1>1. ASSUME NEW x \in Bits16, NEW y \in Bits16
      PROVE  /\ TwoShifts(x) \in Bits16
             /\ TwoShifts(x) = TwoShifts(y) => x = y
  <2>1. ShiftedOut(x) \in Bits16 /\ ShiftedOut(y) \in Bits16
    BY ShiftIsWord
  <2>2. TwoShifts(x) \in Bits16
    BY <2>1, ShiftIsWord DEF TwoShifts
  <2>3. ASSUME TwoShifts(x) = TwoShifts(y) PROVE x = y
    <3>1. ShiftedOut(x) = ShiftedOut(y)
      BY <2>1, <2>3, ShiftIsOneToOne DEF TwoShifts
    <3>2. QED
      BY <3>1, ShiftIsOneToOne
  <2>4. QED
    BY <2>2, <2>3
<1>2. ASSUME NEW x \in Bits16, NEW y \in Bits16
      PROVE  /\ FourShifts(x) \in Bits16
             /\ FourShifts(x) = FourShifts(y) => x = y
  BY <1>1 DEF FourShifts
<1>3. QED
  BY <1>2 DEF EightShifts

(* What eight shifts do, one by one. *)
LEMMA ShiftByShift ==
  ASSUME NEW crc \in Bits16
  PROVE  \E x1, x2, x3, x4, x5, x6, x7 \in Bits16 :
           /\ x1 = ShiftedOut(crc) /\ x2 = ShiftedOut(x1) /\ x3 = ShiftedOut(x2)
           /\ x4 = ShiftedOut(x3) /\ x5 = ShiftedOut(x4) /\ x6 = ShiftedOut(x5)
           /\ x7 = ShiftedOut(x6) /\ EightShifts(crc) = ShiftedOut(x7)
           /\ EightShifts(crc) \in Bits16
<1> DEFINE x1 == ShiftedOut(crc)
           x2 == ShiftedOut(x1)
           x3 == ShiftedOut(x2)
           x4 == ShiftedOut(x3)
           x5 == ShiftedOut(x4)
           x6 == ShiftedOut(x5)
           x7 == ShiftedOut(x6)
           x8 == ShiftedOut(x7)
<1>1. EightShifts(crc) = x8
  BY DEF EightShifts, FourShifts, TwoShifts
<1>2. x1 \in Bits16
  BY ShiftIsWord
<1> HIDE DEF x1
<1>3. x2 \in Bits16
  BY <1>2, ShiftIsWord
<1> HIDE DEF x2
<1>4. x3 \in Bits16
  BY <1>3, ShiftIsWord
<1> HIDE DEF x3
<1>5. x4 \in Bits16
  BY <1>4, ShiftIsWord
<1> HIDE DEF x4
<1>6. x5 \in Bits16
  BY <1>5, ShiftIsWord
<1> HIDE DEF x5
<1>7. x6 \in Bits16
  BY <1>6, ShiftIsWord
<1> HIDE DEF x6
<1>8. x7 \in Bits16
  BY <1>7, ShiftIsWord
<1> HIDE DEF x7
<1>9. x8 \in Bits16
  BY <1>8, ShiftIsWord
<1> HIDE DEF x8
<1>10. /\ x1 = ShiftedOut(crc) /\ x2 = ShiftedOut(x1) /\ x3 = ShiftedOut(x2)
       /\ x4 = ShiftedOut(x3) /\ x5 = ShiftedOut(x4) /\ x6 = ShiftedOut(x5)
       /\ x7 = ShiftedOut(x6) /\ EightShifts(crc) = ShiftedOut(x7)
  BY <1>1 DEF x1, x2, x3, x4, x5, x6, x7, x8
<1>11. QED
  BY <1>1, <1>2, <1>3, <1>4, <1>5, <1>6, <1>7, <1>8, <1>9, <1>10

(* Eight shifts lose nothing; and numbers with the same high byte, whose low bytes are  *)
(* shifted out, have the same high byte afterwards only when they are equal.            *)
LEMMA EightShiftsTell ==
  ASSUME NEW a \in Bits16, NEW b \in Bits16
  PROVE  /\ EightShifts(a) = EightShifts(b) => a = b
         /\ /\ a \div 256 = b \div 256
            /\ EightShifts(a) \div 256 = EightShifts(b) \div 256
            => a = b
<1>1. PICK a1, a2, a3, a4, a5, a6, a7 \in Bits16 :
        /\ a1 = ShiftedOut(a) /\ a2 = ShiftedOut(a1) /\ a3 = ShiftedOut(a2)
        /\ a4 = ShiftedOut(a3) /\ a5 = ShiftedOut(a4) /\ a6 = ShiftedOut(a5)
        /\ a7 = ShiftedOut(a6) /\ EightShifts(a) = ShiftedOut(a7)
        /\ EightShifts(a) \in Bits16
  BY ShiftByShift
<1>2. PICK b1, b2, b3, b4, b5, b6, b7 \in Bits16 :
        /\ b1 = ShiftedOut(b) /\ b2 = ShiftedOut(b1) /\ b3 = ShiftedOut(b2)
        /\ b4 = ShiftedOut(b3) /\ b5 = ShiftedOut(b4) /\ b6 = ShiftedOut(b5)
        /\ b7 = ShiftedOut(b6) /\ EightShifts(b) = ShiftedOut(b7)
        /\ EightShifts(b) \in Bits16
  BY ShiftByShift
<1>3. ASSUME EightShifts(a) = EightShifts(b) PROVE a = b
  BY <1>3, EightShiftsOneToOne
<1>4. ASSUME a \div 256 = b \div 256,
             EightShifts(a) \div 256 = EightShifts(b) \div 256
      PROVE  a = b
  <2>1. /\ 1 \in Powers /\ 2 \in Powers /\ 4 \in Powers /\ 8 \in Powers /\ 16 \in Powers
        /\ 32 \in Powers /\ 64 \in Powers /\ 128 \in Powers
        /\ 2 * 1 = 2 /\ 2 * 2 = 4 /\ 2 * 4 = 8 /\ 2 * 8 = 16 /\ 2 * 16 = 32 /\ 2 * 32 = 64
        /\ 2 * 64 = 128 /\ 2 * 128 = 256
    BY DEF Powers
  <2>2. \A x \in Bits16 : x \div 1 = x /\ (x \div 256) \div 1 = x \div 256
    BY DEF Bits16
  <2>3. a7 % 2 = b7 % 2 /\ (a7 \div 256) \div 2 = (b7 \div 256) \div 2
    <3>1. (ShiftedOut(a7) \div 256) \div 1 = (ShiftedOut(b7) \div 256) \div 1
      BY <1>1, <1>2, <1>4
    <3>2. QED
      BY <3>1, <2>1, ShiftBack
  <2>4. a6 % 2 = b6 % 2 /\ (a6 \div 256) \div 4 = (b6 \div 256) \div 4
    BY <1>1, <1>2, <2>1, <2>3, ShiftBack
  <2>5. a5 % 2 = b5 % 2 /\ (a5 \div 256) \div 8 = (b5 \div 256) \div 8
    BY <1>1, <1>2, <2>1, <2>4, ShiftBack
  <2>6. a4 % 2 = b4 % 2 /\ (a4 \div 256) \div 16 = (b4 \div 256) \div 16
    BY <1>1, <1>2, <2>1, <2>5, ShiftBack
  <2>7. a3 % 2 = b3 % 2 /\ (a3 \div 256) \div 32 = (b3 \div 256) \div 32
    BY <1>1, <1>2, <2>1, <2>6, ShiftBack
  <2>8. a2 % 2 = b2 % 2 /\ (a2 \div 256) \div 64 = (b2 \div 256) \div 64
    BY <1>1, <1>2, <2>1, <2>7, ShiftBack
  <2>9. a1 % 2 = b1 % 2 /\ (a1 \div 256) \div 128 = (b1 \div 256) \div 128
    BY <1>1, <1>2, <2>1, <2>8, ShiftBack
  <2>10. a % 2 = b % 2
    BY <1>1, <1>2, <2>1, <2>9, ShiftBack
  <2>11. a1 \div 128 = b1 \div 128
    BY <1>1, <1>2, <1>4, <2>1, <2>10, ShiftForward
  <2>12. a2 \div 64 = b2 \div 64
    BY <1>1, <1>2, <2>1, <2>9, <2>11, ShiftForward
  <2>13. a3 \div 32 = b3 \div 32
    BY <1>1, <1>2, <2>1, <2>8, <2>12, ShiftForward
  <2>14. a4 \div 16 = b4 \div 16
    BY <1>1, <1>2, <2>1, <2>7, <2>13, ShiftForward
  <2>15. a5 \div 8 = b5 \div 8
    BY <1>1, <1>2, <2>1, <2>6, <2>14, ShiftForward
  <2>16. a6 \div 4 = b6 \div 4
    BY <1>1, <1>2, <2>1, <2>5, <2>15, ShiftForward
  <2>17. a7 \div 2 = b7 \div 2
    BY <1>1, <1>2, <2>1, <2>4, <2>16, ShiftForward
  <2>18. a7 = b7
    <3>1. a7 \in Nat /\ b7 \in Nat
      BY DEF Bits16
    <3>2. QED
      BY <2>3, <2>17, <3>1
  <2>19. QED
    BY <1>1, <1>2, <1>3, <2>18
<1>5. QED
  BY <1>3, <1>4

(* A byte is a number of eight bits. *)
LEMMA ByteBits == Byte = Bits8
<1>1. ASSUME NEW n \in Bits8 PROVE n \in Byte
  BY DEF Bits8, Byte
<1>2. ASSUME NEW n \in Byte PROVE n \in Bits8
  BY DEF Bits8, Byte
<1>3. QED
  BY <1>1, <1>2

(* What a byte does to a checksum: it goes into the low byte, and is shifted out. *)
LEMMA ByteGoesLow ==
  ASSUME NEW crc \in Bits16, NEW byte \in Bits8
  PROVE  /\ byte \in Bits16 /\ Xor(crc, byte) \in Bits16
         /\ Xor(crc, byte) \div 256 = crc \div 256
         /\ Xor(crc, byte) % 256 = Xor8(crc % 256, byte)
<1>1. byte \in Bits16 /\ byte \div 256 = 0 /\ byte % 256 = byte
  BY DEF Bits8, Bits16
<1>2. QED
  BY <1>1, Halves16, XorLaws, Xor8Laws

(* A checksum is one of 16 bits; nothing of what was there, nor of the byte, is lost. *)
LEMMA WithByteTells ==
  ASSUME NEW c \in Bits16, NEW d \in Bits16, NEW x \in Bits8, NEW y \in Bits8
  PROVE  /\ WithByte(c, x) \in Bits16
         /\ WithByte(c, x) = WithByte(d, x) => c = d
         /\ WithByte(c, x) = WithByte(c, y) => x = y
<1>1. /\ x \in Bits16 /\ y \in Bits16
      /\ Xor(c, x) \in Bits16 /\ Xor(d, x) \in Bits16 /\ Xor(c, y) \in Bits16
  BY ByteGoesLow
<1>2. EightShifts(Xor(c, x)) \in Bits16
  BY <1>1, ShiftByShift
<1>3. ASSUME WithByte(c, x) = WithByte(d, x) PROVE c = d
  <2>1. Xor(c, x) = Xor(d, x)
    BY <1>1, <1>3, EightShiftsTell DEF WithByte
  <2>2. Xor(x, c) = Xor(x, d)
    BY <1>1, <2>1, XorLaws
  <2>3. QED
    BY <1>1, <2>2, XorLaws
<1>4. ASSUME WithByte(c, x) = WithByte(c, y) PROVE x = y
  <2>1. Xor(c, x) = Xor(c, y)
    BY <1>1, <1>4, EightShiftsTell DEF WithByte
  <2>2. QED
    BY <1>1, <2>1, XorLaws
<1>5. QED
  BY <1>2, <1>3, <1>4 DEF WithByte

(* Two bytes fill all of a checksum: no other two do the same to it. *)
LEMMA TwoBytesTell ==
  ASSUME NEW c \in Bits16, NEW x1 \in Bits8, NEW x2 \in Bits8, NEW y1 \in Bits8, NEW y2 \in Bits8,
         WithByte(WithByte(c, x1), x2) = WithByte(WithByte(c, y1), y2)
  PROVE  x1 = y1 /\ x2 = y2
<1> DEFINE p == WithByte(c, x1)
           q == WithByte(c, y1)
<1>1. p \in Bits16 /\ q \in Bits16 /\ WithByte(p, x2) = WithByte(q, y2)
  BY WithByteTells
<1>2. p \div 256 = q \div 256
  <2> HIDE DEF p, q
  <2>1. Xor(p, x2) = Xor(q, y2)
    BY <1>1, ByteGoesLow, EightShiftsTell DEF WithByte
  <2>2. QED
    BY <1>1, <2>1, ByteGoesLow
<1>3. Xor(c, x1) = Xor(c, y1)
  <2>1. /\ Xor(c, x1) \in Bits16 /\ Xor(c, y1) \in Bits16
        /\ Xor(c, x1) \div 256 = Xor(c, y1) \div 256
    BY ByteGoesLow
  <2>2. EightShifts(Xor(c, x1)) \div 256 = EightShifts(Xor(c, y1)) \div 256
    BY <1>2 DEF WithByte
  <2>3. QED
    BY <2>1, <2>2, EightShiftsTell
<1>4. x1 = y1
  BY <1>3, ByteGoesLow, XorLaws
<1> HIDE DEF p, q
<1>5. p = q
  BY <1>4 DEF p, q
<1>6. x2 = y2
  BY <1>1, <1>5, WithByteTells
<1>7. QED
  BY <1>4, <1>6

(* A number whose low byte is zero is its high byte after eight shifts. *)
LEMMA ZeroByteShifted ==
  ASSUME NEW h \in Bits8
  PROVE  256 * h \in Bits16 /\ EightShifts(256 * h) = h
<1>1. ASSUME NEW n \in Nat PROVE ShiftedOut(2 * n) = n
  <2>1. (2 * n) % 2 # 1 /\ (2 * n) \div 2 = n
    OBVIOUS
  <2>2. QED
    BY <2>1 DEF ShiftedOut
<1>2. /\ h \in Nat /\ 2 * h \in Nat /\ 4 * h \in Nat /\ 8 * h \in Nat /\ 16 * h \in Nat
      /\ 32 * h \in Nat /\ 64 * h \in Nat /\ 128 * h \in Nat /\ 256 * h \in Bits16
  BY DEF Bits8, Bits16
<1>3. /\ 256 * h = 2 * (128 * h) /\ 128 * h = 2 * (64 * h) /\ 64 * h = 2 * (32 * h)
      /\ 32 * h = 2 * (16 * h) /\ 16 * h = 2 * (8 * h) /\ 8 * h = 2 * (4 * h)
      /\ 4 * h = 2 * (2 * h)
  BY <1>2
<1>4. /\ ShiftedOut(256 * h) = 128 * h /\ ShiftedOut(128 * h) = 64 * h
      /\ ShiftedOut(64 * h) = 32 * h /\ ShiftedOut(32 * h) = 16 * h
      /\ ShiftedOut(16 * h) = 8 * h /\ ShiftedOut(8 * h) = 4 * h
      /\ ShiftedOut(4 * h) = 2 * h /\ ShiftedOut(2 * h) = h
  BY <1>1, <1>2, <1>3
<1>5. EightShifts(256 * h) = h
  BY <1>4 DEF EightShifts, FourShifts, TwoShifts
<1>6. QED
  BY <1>2, <1>5

(* The checksum of what a checksum was taken of and of the checksum itself is zero. *)
LEMMA ResidueIsZero ==
  ASSUME NEW c \in Bits16
  PROVE  WithByte(WithByte(c, c % 256), c \div 256) = 0
<1> DEFINE h == c \div 256
           l == c % 256
<1>1. h \in Bits8 /\ l \in Bits8 /\ h \in Bits16
  BY Halves16, ByteGoesLow
<1>2. Xor(c, l) = 256 * h
  <2>1. Xor(c, l) \in Bits16 /\ Xor(c, l) \div 256 = h /\ Xor(c, l) % 256 = 0
    BY <1>1, ByteGoesLow, Xor8Laws
  <2>2. Xor(c, l) = 256 * (Xor(c, l) \div 256) + (Xor(c, l) % 256)
    BY <2>1, Halves16
  <2>3. h \in Nat
    BY <1>1 DEF Bits8
  <2>4. QED
    BY <2>1, <2>2, <2>3
<1> HIDE DEF h, l
<1>3. WithByte(c, l) = h
  BY <1>1, <1>2, ZeroByteShifted DEF WithByte
<1>4. Xor(h, h) = 0
  BY <1>1, XorLaws
<1>5. EightShifts(0) = 0
  <2>1. 0 \in Bits8 /\ 256 * 0 = 0
    BY DEF Bits8
  <2>2. QED
    BY <2>1, ZeroByteShifted
<1>6. QED
  BY <1>3, <1>4, <1>5 DEF WithByte, h, l

(* A set of numbers that is not empty has a least member. *)
LEMMA Least ==
  ASSUME NEW T, T \subseteq Nat, T # {}
  PROVE  \E x \in T : \A y \in T : x <= y
<1> DEFINE Less == {p \in Nat \X Nat : p[1] < p[2]}
<1>1. IsWellFoundedOn(Less, Nat)
  BY NatLessThanWellFounded DEF OpToRel
<1>2. PICK x \in T : \A y \in T : ~ (<<y, x>> \in Less)
  BY <1>1, WFMin
<1>3. ASSUME NEW y \in T PROVE x <= y
  <2>1. x \in Nat /\ y \in Nat /\ ~ (<<y, x>> \in Less)
    BY <1>2
  <2>2. ~ (y < x)
    BY <2>1, Zenon
  <2>3. QED
    BY <2>1, <2>2
<1>4. QED
  BY <1>3

(* What holds of 0, and of a number when it holds of the one before, holds of all up to n. *)
LEMMA UpTo ==
  ASSUME NEW n \in Nat, NEW T, 0 \in T, \A k \in 1..n : k - 1 \in T => k \in T
  PROVE  0..n \subseteq T
<1> SUFFICES ASSUME (0..n) \ T # {} PROVE FALSE
  OBVIOUS
<1>1. (0..n) \ T \subseteq Nat
  OBVIOUS
<1>2. PICK k \in (0..n) \ T : \A m \in (0..n) \ T : k <= m
  BY <1>1, Least
<1>3. k # 0
  BY <1>2
<1>4. k \in 1..n /\ k - 1 \in 0..n /\ ~ (k <= k - 1)
  BY <1>2, <1>3
<1>5. k - 1 \in T
  BY <1>2, <1>4
<1>6. QED
  BY <1>2, <1>4, <1>5

(* c is how the checksum of the first n of these bytes comes about. *)
IsRun(c, data, n) ==
  /\ c \in [0..n -> Bits16] /\ c[0] = 65535
  /\ \A k \in 1..n : c[k] = WithByte(c[k - 1], data[k])

(* Every sequence of bytes has such a run. *)
LEMMA RunExists ==
  ASSUME NEW data \in Seq(Byte)
  PROVE  \E c : IsRun(c, data, Len(data))
<1> DEFINE T == {n \in 0..Len(data) : \E c : IsRun(c, data, n)}
<1>1. Len(data) \in Nat /\ \A k \in 1..Len(data) : data[k] \in Bits8
  BY LenProperties, ByteBits
<1>2. 0 \in T
  <2>1. [k \in 0..0 |-> 65535] \in [0..0 -> Bits16] /\ 0 \in 0..Len(data) /\ 0 \in 0..0
    BY <1>1 DEF Bits16
  <2>2. IsRun([k \in 0..0 |-> 65535], data, 0)
    BY <2>1 DEF IsRun
  <2>3. QED
    BY <2>1, <2>2
<1>3. ASSUME NEW n \in 1..Len(data), n - 1 \in T PROVE n \in T
  <2>1. PICK c : IsRun(c, data, n - 1)
    BY <1>3
  <2> DEFINE next == WithByte(c[n - 1], data[n])
             longer == [k \in 0..n |-> IF k = n THEN next ELSE c[k]]
  <2>2. n \in Nat /\ n > 0 /\ n \in 0..Len(data) /\ n - 1 \in 0..n - 1
    BY <1>1
  <2>3. next \in Bits16
    BY <1>1, <2>1, <2>2, WithByteTells DEF IsRun
  <2>4. c \in [0..n - 1 -> Bits16] /\ c[0] = 65535
        /\ \A k \in 1..n - 1 : c[k] = WithByte(c[k - 1], data[k])
    BY <2>1 DEF IsRun
  <2>5. longer \in [0..n -> Bits16]
    <3> HIDE DEF next
    <3>1. QED
      BY <2>2, <2>3, <2>4
  <2>6. longer[0] = 65535
    BY <2>2, <2>4
  <2>7. ASSUME NEW k \in 1..n PROVE longer[k] = WithByte(longer[k - 1], data[k])
    <3>1. k \in 0..n /\ k - 1 \in 0..n /\ k - 1 # n
      BY <2>2
    <3>2. longer[k - 1] = c[k - 1]
      BY <3>1
    <3>3. CASE k = n
      BY <3>1, <3>2, <3>3
    <3>4. CASE k # n
      <4>1. k \in 1..n - 1 /\ longer[k] = c[k]
        BY <2>2, <3>1, <3>4
      <4>2. QED
        BY <2>4, <3>2, <4>1
    <3>5. QED
      BY <3>3, <3>4
  <2> HIDE DEF longer
  <2>8. IsRun(longer, data, n)
    BY <2>5, <2>6, <2>7 DEF IsRun
  <2>9. QED
    BY <2>2, <2>8
<1> HIDE DEF T
<1>4. 0..Len(data) \subseteq T
  BY <1>1, <1>2, <1>3, UpTo
<1>5. Len(data) \in T
  BY <1>1, <1>4
<1>6. QED
  BY <1>5 DEF T

(* A function that is defined by the steps of a run is that run. *)
LEMMA StepsAreRun ==
  ASSUME NEW n \in Nat, NEW data, NEW c, IsRun(c, data, n)
  PROVE  LET f == CHOOSE f : f = [k \in 0..n |-> IF k = 0 THEN 65535
                                                 ELSE WithByte(f[k - 1], data[k])]
         IN f[n] = c[n]
<1> DEFINE value(f, k) == IF k = 0 THEN 65535 ELSE WithByte(f[k - 1], data[k])
           f == CHOOSE f : f = [k \in 0..n |-> value(f, k)]
           T == {k \in 0..n : f[k] = c[k]}
<1>1. c \in [0..n -> Bits16]
  BY DEF IsRun
<1>2. \A k \in 0..n : c[k] = value(c, k)
  <2>1. c[0] = value(c, 0)
    BY DEF IsRun
  <2>2. ASSUME NEW k \in 0..n, k # 0 PROVE c[k] = value(c, k)
    <3>1. k \in 1..n
      BY <2>2
    <3>2. QED
      BY <2>2, <3>1 DEF IsRun
  <2> HIDE DEF value
  <2>3. QED
    BY <2>1, <2>2
<1> HIDE DEF value
<1>3. c = [k \in 0..n |-> value(c, k)]
  BY <1>1, <1>2
<1>4. f = [k \in 0..n |-> value(f, k)]
  BY <1>3
<1> HIDE DEF f
<1>5. \A k \in 0..n : f[k] = value(f, k)
  BY <1>4
<1>6. 0 \in T
  <2>1. 0 \in 0..n /\ f[0] = 65535 /\ c[0] = 65535
    BY <1>2, <1>5 DEF value
  <2>2. QED
    BY <2>1
<1>7. ASSUME NEW k \in 1..n, k - 1 \in T PROVE k \in T
  <2>1. k \in 0..n /\ k # 0
    OBVIOUS
  <2>2. f[k] = WithByte(f[k - 1], data[k]) /\ c[k] = WithByte(c[k - 1], data[k])
    BY <1>2, <1>5, <2>1 DEF value
  <2>3. QED
    BY <1>7, <2>1, <2>2
<1> HIDE DEF T
<1>8. 0..n \subseteq T
  BY <1>6, <1>7, UpTo
<1>9. n \in 0..n
  OBVIOUS
<1>10. f[n] = c[n]
  BY <1>8, <1>9 DEF T
<1>11. QED
  BY <1>10 DEF f, value

(* As long as the bytes are the same, so are the runs. *)
LEMMA RunsAgree ==
  ASSUME NEW f, NEW g, NEW b, NEW c, NEW m \in Nat, NEW n \in Nat,
         IsRun(b, f, m), IsRun(c, g, n),
         NEW k \in Nat, k <= m, k <= n, \A i \in 1..k : f[i] = g[i]
  PROVE  b[k] = c[k]
<1> DEFINE S == {i \in 0..k : b[i] = c[i]}
<1>1. 0 \in S
  BY DEF IsRun
<1>2. ASSUME NEW i \in 1..k, i - 1 \in S PROVE i \in S
  <2>1. i \in 1..m /\ i \in 1..n /\ i \in 0..k
    OBVIOUS
  <2>2. b[i] = WithByte(b[i - 1], f[i]) /\ c[i] = WithByte(c[i - 1], g[i])
    BY <2>1 DEF IsRun
  <2>3. QED
    BY <1>2, <2>1, <2>2
<1> HIDE DEF S
<1>3. k \in S
  BY <1>1, <1>2, UpTo
<1>4. QED
  BY <1>3 DEF S

(* modbus_crc16 is where the run ends. *)
LEMMA CrcIsRun ==
  ASSUME NEW data \in Seq(Byte), NEW c, IsRun(c, data, Len(data))
  PROVE  ModbusCrc16(data) = c[Len(data)]
<1>1. Len(data) \in Nat
  BY LenProperties
<1>2. LET f == CHOOSE f : f = [k \in 0..Len(data) |-> IF k = 0 THEN 65535
                                                      ELSE WithByte(f[k - 1], data[k])]
      IN f[Len(data)] = c[Len(data)]
  BY <1>1, StepsAreRun
<1>3. QED
  BY <1>2 DEF ModbusCrc16

(* A frame whose checksum holds has a run over all of it that ends in zero. *)
LEMMA ChecksumIsResidue ==
  ASSUME NEW f \in Seq(Byte), Len(f) >= 2, ChecksumOk(f), NEW c, IsRun(c, f, Len(f))
  PROVE  c[Len(f)] = 0
<1> DEFINE n == Len(f)
           body == SubSeq(f, 1, n - 2)
<1>1. n \in Nat /\ n >= 2 /\ n - 2 \in 0..n /\ \A k \in 1..n : f[k] \in Bits8
  BY LenProperties, ByteBits
<1>2. body \in Seq(Byte) /\ Len(body) = n - 2 /\ \A k \in 1..n - 2 : body[k] = f[k]
  BY <1>1, Beginning
<1>3. PICK b : IsRun(b, body, n - 2)
  BY <1>2, RunExists
<1>4. ModbusCrc16(body) = b[n - 2]
  BY <1>2, <1>3, CrcIsRun
<1>5. ModbusCrc16(body) = f[n - 1] + 256 * f[n]
  BY DEF ChecksumOk
<1>6. IsRun(c, f, n)
  OBVIOUS
<1> HIDE DEF n, body
<1>7. b[n - 2] = c[n - 2]
  <2>1. n - 2 \in Nat /\ n - 2 <= n
    BY <1>1
  <2>2. QED
    BY <1>1, <1>2, <1>3, <1>6, <2>1, RunsAgree
<1>8. c[n - 2] \in Bits16
  BY <1>1, <1>6 DEF IsRun
<1>9. f[n - 1] = c[n - 2] % 256 /\ f[n] = c[n - 2] \div 256
  <2> DEFINE low == f[n - 1]
             high == f[n]
             crc == c[n - 2]
  <2>1. low \in Bits8 /\ high \in Bits8 /\ crc = low + 256 * high
    <3>1. n - 1 \in 1..n /\ n \in 1..n
      BY <1>1
    <3>2. QED
      BY <1>1, <1>4, <1>5, <1>7, <3>1
  <2> HIDE DEF low, high, crc
  <2>2. low + 256 * high = 256 * high + low
    BY <2>1 DEF Bits8
  <2>3. low = crc % 256 /\ high = crc \div 256
    BY <2>1, <2>2, Whole16
  <2>4. QED
    BY <2>3 DEF low, high, crc
<1>10. c[n] = WithByte(WithByte(c[n - 2], f[n - 1]), f[n])
  <2>1. n - 1 \in 1..n /\ n \in 1..n /\ (n - 1) - 1 = n - 2
    BY <1>1
  <2>2. QED
    BY <1>6, <2>1 DEF IsRun
<1>11. QED
  BY <1>8, <1>9, <1>10, ResidueIsZero DEF n

(* f and g are as long, and wherever they differ is at i or one behind it. *)
DifferWithin(f, g, i) ==
  /\ Len(f) = Len(g) /\ i \in 1..Len(f)
  /\ \A j \in 1..Len(f) : j # i /\ j # i + 1 => f[j] = g[j]

(* Checksums do not hold for two frames that differ in two neighbouring bytes only. *)
LEMMA BurstIsNoticed ==
  ASSUME NEW f \in Seq(Byte), NEW g \in Seq(Byte), Len(f) >= 2,
         ChecksumOk(f), ChecksumOk(g), NEW at \in Nat, DifferWithin(f, g, at)
  PROVE  f = g
<1> DEFINE n == Len(f)
<1>1. n \in Nat /\ n >= 2 /\ Len(g) = n /\ DOMAIN f = 1..n /\ DOMAIN g = 1..n
      /\ \A k \in 1..n : f[k] \in Bits8 /\ g[k] \in Bits8
  BY LenProperties, ByteBits DEF DifferWithin
<1>2. PICK c : IsRun(c, f, n)
  BY RunExists
<1>3. PICK d : IsRun(d, g, n)
  BY <1>1, RunExists
<1>4. c[n] = 0 /\ d[n] = 0
  BY <1>1, <1>2, <1>3, ChecksumIsResidue
<1>5. PICK i \in 1..n - 1 : \A j \in 1..n : j # i /\ j # i + 1 => f[j] = g[j]
  <2>1. at \in 1..n /\ \A j \in 1..n : j # at /\ j # at + 1 => f[j] = g[j]
    BY DEF DifferWithin
  <2> HIDE DEF n
  <2>2. CASE at < n
    <3>1. at \in 1..n - 1
      BY <1>1, <2>1, <2>2
    <3>2. QED
      BY <2>1, <3>1
  <2>3. CASE at = n
    <3>1. n - 1 \in 1..n - 1 /\ \A j \in 1..n : j # n - 1 /\ j # (n - 1) + 1 => f[j] = g[j]
      BY <1>1, <2>1, <2>3
    <3>2. QED
      BY <3>1
  <2>4. at < n \/ at = n
    BY <1>1, <2>1
  <2>5. QED
    BY <2>2, <2>3, <2>4
<1>6. f \in Seq(Byte) /\ g \in Seq(Byte)
  OBVIOUS
<1> HIDE DEF n
<1>7. i \in Nat /\ i > 0 /\ i + 1 \in 1..n /\ i - 1 \in 0..n /\ i \in 1..n
  BY <1>1
(* Up to there the runs are the same, *)
<1>8. c[i - 1] = d[i - 1]
  <2>1. i - 1 \in Nat /\ i - 1 <= n /\ \A k \in 1..i - 1 : k \in 1..n /\ k # i /\ k # i + 1
    BY <1>1, <1>7
  <2>2. \A k \in 1..i - 1 : f[k] = g[k]
    BY <1>5, <2>1
  <2>3. QED
    BY <1>1, <1>2, <1>3, <2>1, <2>2, RunsAgree
(* ... and so they are from behind it on, for they end in the same. *)
<1>9. c[i + 1] = d[i + 1]
  <2> DEFINE m == n - (i + 1)
             S == {k \in 0..m : c[n - k] = d[n - k]}
  <2>1. m \in Nat /\ 0 \in 0..m /\ n - 0 = n /\ m \in 0..m /\ n - m = i + 1
    BY <1>1, <1>7
  <2>2. 0 \in S
    BY <1>4, <2>1
  <2>3. ASSUME NEW k \in 1..m, k - 1 \in S PROVE k \in S
    <3> DEFINE p == n - (k - 1)
    <3>1. /\ k \in 0..m /\ p \in 1..n /\ p # i /\ p # i + 1 /\ p - 1 = n - k /\ p - 1 \in 0..n
      BY <1>1, <1>7, <2>1
    <3>2. c[p] = d[p]
      BY <2>3
    <3> HIDE DEF p
    <3>3. /\ f[p] = g[p] /\ f[p] \in Bits8
          /\ c[p] = WithByte(c[p - 1], f[p]) /\ d[p] = WithByte(d[p - 1], g[p])
      BY <1>1, <1>2, <1>3, <1>5, <3>1 DEF IsRun
    <3>4. c[p - 1] \in Bits16 /\ d[p - 1] \in Bits16
      <4>1. c \in [0..n -> Bits16] /\ d \in [0..n -> Bits16]
        BY <1>2, <1>3 DEF IsRun
      <4>2. QED
        BY <3>1, <4>1
    <3>5. c[p - 1] = d[p - 1]
      <4> DEFINE x == f[p]
                 u == c[p - 1]
                 v == d[p - 1]
      <4>1. WithByte(u, x) = WithByte(v, x) /\ x \in Bits8 /\ u \in Bits16 /\ v \in Bits16
        BY <3>2, <3>3, <3>4
      <4> HIDE DEF x, u, v
      <4>2. u = v
        BY <4>1, WithByteTells
      <4>3. QED
        BY <4>2 DEF u, v
    <3>6. QED
      BY <3>1, <3>5
  <2> HIDE DEF m, S
  <2>4. 0..m \subseteq S
    BY <2>1, <2>2, <2>3, UpTo
  <2>5. m \in S
    BY <2>1, <2>4
  <2>6. QED
    BY <2>1, <2>5 DEF S
(* ... between which only the same two bytes fit. *)
<1>10. f[i] = g[i] /\ f[i + 1] = g[i + 1]
  <2>1. (i + 1) - 1 = i
    BY <1>7
  <2>2. c[i] = WithByte(c[i - 1], f[i]) /\ d[i] = WithByte(d[i - 1], g[i])
    BY <1>2, <1>3, <1>7 DEF IsRun
  <2>3. c[i + 1] = WithByte(c[i], f[i + 1]) /\ d[i + 1] = WithByte(d[i], g[i + 1])
    BY <1>2, <1>3, <1>7, <2>1 DEF IsRun
  <2>4. c[i - 1] \in Bits16
    <3>1. c \in [0..n -> Bits16]
      BY <1>2 DEF IsRun
    <3>2. QED
      BY <1>7, <3>1
  <2>5. /\ f[i] \in Bits8 /\ f[i + 1] \in Bits8 /\ g[i] \in Bits8 /\ g[i + 1] \in Bits8
    BY <1>1, <1>7
  <2> DEFINE x1 == f[i]
             x2 == f[i + 1]
             y1 == g[i]
             y2 == g[i + 1]
             crc == c[i - 1]
  <2>6. WithByte(WithByte(crc, x1), x2) = WithByte(WithByte(crc, y1), y2)
    BY <1>8, <1>9, <2>2, <2>3, Zenon
  <2>7. crc \in Bits16 /\ x1 \in Bits8 /\ x2 \in Bits8 /\ y1 \in Bits8 /\ y2 \in Bits8
    BY <2>4, <2>5
  <2> HIDE DEF x1, x2, y1, y2, crc
  <2>8. x1 = y1 /\ x2 = y2
    BY <2>6, <2>7, TwoBytesTell
  <2>9. QED
    BY <2>8 DEF x1, x2, y1, y2
<1>11. \A j \in 1..n : f[j] = g[j]
  BY <1>5, <1>10
<1>12. QED
  BY <1>1, <1>6, <1>11, SeqEqual

(* What comes along behind a frame and leaves its checksum right is zero, if it is no *)
(* more than two bytes.                                                              *)
LEMMA TailIsZero ==
  ASSUME NEW f \in Seq(Byte), NEW g \in Seq(Byte), Len(f) >= 2, ChecksumOk(f), ChecksumOk(g),
         IsPrefix(f, g), Len(g) <= Len(f) + 2
  PROVE  \A i \in Len(f) + 1..Len(g) : g[i] = 0
<1> DEFINE m == Len(f)
           n == Len(g)
<1>1. /\ m \in Nat /\ n \in Nat /\ m >= 2 /\ m <= n /\ n <= m + 2
      /\ \A i \in 1..n : g[i] \in Bits8
  BY LenProperties, ByteBits, PrefixByElements
<1>2. \A i \in 1..m : f[i] = g[i]
  BY PrefixByElements
<1>3. PICK b : IsRun(b, f, m)
  BY RunExists
<1>4. PICK c : IsRun(c, g, n)
  BY RunExists
<1>5. b[m] = 0 /\ c[n] = 0
  BY <1>1, <1>3, <1>4, ChecksumIsResidue
<1> HIDE DEF m, n
<1>6. c[m] = 0
  BY <1>1, <1>2, <1>3, <1>4, <1>5, RunsAgree
<1>7. \A k \in 1..n : c[k] = WithByte(c[k - 1], g[k])
  BY <1>4 DEF IsRun
<1>8. 0 \in Bits8 /\ 0 \in Bits16 /\ WithByte(0, 0) = 0
  <2>1. 0 \in Bits8 /\ 0 \in Bits16 /\ 256 * 0 = 0
    BY DEF Bits8, Bits16
  <2>2. Xor(0, 0) = 0 /\ EightShifts(0) = 0
    BY <2>1, XorLaws, ZeroByteShifted
  <2>3. QED
    BY <2>1, <2>2 DEF WithByte
<1>9. CASE n = m
  BY <1>1, <1>9 DEF m, n
<1>10. CASE n = m + 1
  <2> DEFINE x == g[m + 1]
  <2>1. m + 1 \in 1..n /\ (m + 1) - 1 = m
    BY <1>1, <1>10
  <2>2. x \in Bits8 /\ WithByte(0, x) = 0
    BY <1>1, <1>5, <1>6, <1>7, <1>10, <2>1
  <2> HIDE DEF x
  <2>3. x = 0
    BY <1>8, <2>2, WithByteTells
  <2>4. \A i \in m + 1..n : i = m + 1
    BY <1>1, <1>10
  <2>5. QED
    BY <2>3, <2>4 DEF x, m, n
<1>11. CASE n = m + 2
  <2> DEFINE x == g[m + 1]
             y == g[m + 2]
  <2>1. /\ m + 1 \in 1..n /\ (m + 1) - 1 = m
        /\ m + 2 \in 1..n /\ (m + 2) - 1 = m + 1
    BY <1>1, <1>11
  <2>2. x \in Bits8 /\ y \in Bits8
    BY <1>1, <2>1
  <2>3. c[m + 1] = WithByte(0, x)
    BY <1>6, <1>7, <2>1
  <2>4. c[m + 2] = WithByte(c[m + 1], y)
    BY <1>7, <2>1
  <2>5. WithByte(WithByte(0, x), y) = 0
    BY <1>5, <1>11, <2>3, <2>4
  <2> HIDE DEF x, y
  <2>6. WithByte(WithByte(0, x), y) = WithByte(WithByte(0, 0), 0)
    BY <1>8, <2>5
  <2>7. x = 0 /\ y = 0
    BY <1>8, <2>2, <2>6, TwoBytesTell
  <2>8. \A i \in m + 1..n : i = m + 1 \/ i = m + 2
    BY <1>1, <1>11
  <2>9. QED
    BY <2>7, <2>8 DEF x, y, m, n
<1>12. QED
  <2>1. n = m \/ n = m + 1 \/ n = m + 2
    BY <1>1
  <2>2. QED
    BY <1>9, <1>10, <1>11, <2>1

-----------------------------------------------------------------------------
(* The frame *)

FrameTyped ==
  /\ sent \in Replies /\ wire \in Seq(Byte) /\ arrived \in 0..Len(wire)
  /\ rx \in Seq(Byte)
  /\ outcome \in {"waiting", "ok", "Response timeout", "Response too short",
                  "Invalid CRC in response"}

(* What was received is the beginning of what came, and is not a frame yet while *)
(* the line waits.                                                               *)
ReceivedSoFar ==
  /\ Len(rx) <= arrived /\ \A i \in 1..Len(rx) : rx[i] = wire[i]
  /\ outcome = "waiting" =>
       modbus = <<>> /\ (Len(rx) >= 3 /\ ExpectedLength(rx) > 0 => Len(rx) < ExpectedLength(rx))

(* What is passed on is checked, and as long as expected, or all there was. *)
PassedOn ==
  outcome = "ok" =>
    /\ modbus = BytesToHex(rx) /\ Len(rx) >= 3 /\ ChecksumOk(rx)
    /\ ExpectedLength(rx) = Len(rx) \/ (ExpectedLength(rx) = 0 /\ Len(rx) = Len(wire))

FrameInv == FrameTyped /\ ReceivedSoFar /\ PassedOn /\ IntactIsTaken

(* While nothing of an intact reply is damaged, its header tells the length. *)
LEMMA IntactHeader ==
  ASSUME FrameTyped, ~Damaged, NEW f \in Seq(Byte), Len(f) >= 3, Len(f) <= Len(wire),
         \A i \in 1..Len(f) : f[i] = wire[i]
  PROVE  /\ ExpectedLength(f) = ExpectedLength(sent)
         /\ Len(f) = Len(sent) => f = sent
<1>1. /\ sent \in Seq(Byte) /\ Len(sent) \in Nat /\ Len(sent) >= 5 /\ wire \in Seq(Byte)
  BY RepliesAreWellFormed DEF FrameTyped
<1>2. Len(sent) <= Len(wire) /\ \A i \in 1..Len(sent) : wire[i] = sent[i]
  BY <1>1, PrefixByElements DEF Damaged
<1>3. Len(f) \in Nat /\ Len(wire) \in Nat
  BY <1>1, LenProperties
<1>4. f[2] = sent[2] /\ f[3] = sent[3]
  BY <1>1, <1>2, <1>3
<1>5. ExpectedLength(f) = ExpectedLength(sent)
  BY <1>1, <1>4, HeaderSaysLength
<1>6. ASSUME Len(f) = Len(sent) PROVE f = sent
  <2>1. \A i \in 1..Len(f) : f[i] = sent[i]
    BY <1>2, <1>6
  <2>2. QED
    BY <1>1, <1>6, <2>1, SeqEqual
<1>7. QED
  BY <1>5, <1>6

(* What the UART has. *)
LEMMA BufferedBytes ==
  ASSUME FrameTyped
  PROVE  /\ arrived \in Nat /\ Len(wire) \in Nat /\ arrived <= Len(wire)
         /\ Buffered \in Seq(Byte) /\ Len(Buffered) = arrived
         /\ \A i \in 1..arrived : Buffered[i] = wire[i]
<1>1. wire \in Seq(Byte) /\ arrived \in 0..Len(wire) /\ Len(wire) \in Nat
  BY LenProperties DEF FrameTyped
<1>2. QED
  BY <1>1, Beginning DEF Buffered

(* A frame that is complete ends the line, well or badly; an intact one well. *)
LEMMA FinishKeeps ==
  ASSUME FrameInv, outcome = "waiting", NEW f \in Seq(Byte), FinishLine(f),
         UNCHANGED <<sent, wire, arrived>>,
         Len(f) >= 3, Len(f) <= arrived, \A i \in 1..Len(f) : f[i] = wire[i],
         ExpectedLength(f) = Len(f) \/ (ExpectedLength(f) = 0 /\ Len(f) = Len(wire))
  PROVE  FrameInv'
<1>1. FrameTyped /\ modbus = <<>>
  BY DEF FrameInv, ReceivedSoFar
<1>2. /\ rx' = f
      /\ modbus' = IF outcome' = "ok" THEN BytesToHex(f) ELSE modbus
  BY DEF FinishLine
<1>3. Len(f) \in Nat /\ arrived \in Nat /\ Len(wire) \in Nat /\ arrived <= Len(wire)
  BY <1>1, BufferedBytes, LenProperties
<1>4. /\ outcome' \in {"ok", "Response too short", "Invalid CRC in response"}
      /\ outcome' = "ok" => Len(f) >= 4 /\ ChecksumOk(f)
      /\ Len(f) >= 4 /\ ChecksumOk(f) => outcome' = "ok"
  <2> DEFINE long == Len(f) >= 4
             sound == ChecksumOk(f)
  <2>1. outcome' = CASE Len(f) < 4 -> "Response too short"
                     [] long /\ ~sound -> "Invalid CRC in response"
                     [] long /\ sound -> "ok"
    BY DEF FinishLine
  <2>2. Len(f) < 4 <=> ~long
    BY <1>3
  <2>3. long \in BOOLEAN /\ sound \in BOOLEAN
    BY DEF ChecksumOk
  <2> HIDE DEF long, sound
  <2>4. ~long => outcome' = "Response too short"
    BY <2>1, <2>2
  <2>5. long /\ sound => outcome' = "ok"
    BY <2>1, <2>2
  <2>6. long /\ ~sound => outcome' = "Invalid CRC in response"
    BY <2>1, <2>2
  <2>7. /\ outcome' \in {"ok", "Response too short", "Invalid CRC in response"}
        /\ outcome' = "ok" => long /\ sound
        /\ long /\ sound => outcome' = "ok"
    BY <2>3, <2>4, <2>5, <2>6
  <2>8. QED
    BY <2>7 DEF long, sound
<1>5. FrameTyped'
  BY <1>1, <1>2, <1>4 DEF FrameTyped
<1>6. ReceivedSoFar'
  BY <1>2, <1>4 DEF ReceivedSoFar
<1>7. PassedOn'
  BY <1>2, <1>4 DEF PassedOn
<1>8. IntactIsTaken'
  <2>1. Damaged' = Damaged /\ Known' = Known
    BY DEF Damaged, Known
  <2>2. CASE Damaged
    BY <2>1, <2>2 DEF IntactIsTaken
  <2>3. CASE ~Damaged
    <3>1. /\ ExpectedLength(f) = ExpectedLength(sent)
          /\ Len(f) = Len(sent) => f = sent
      BY <1>1, <1>3, <2>3, IntactHeader
    <3>2. /\ Len(sent) \in Nat /\ Len(sent) >= 5 /\ ExpectedLength(sent) \in {0, Len(sent)}
          /\ ChecksumOk(sent)
      BY <1>1, RepliesAreWellFormed DEF FrameTyped
    <3>3. Known \/ wire = sent => Len(f) = Len(sent)
      BY <3>1, <3>2, <1>3 DEF Known
    <3> HIDE DEF Known
    <3>4. Known \/ wire = sent => outcome' = "ok"
      <4>1. ASSUME Len(f) = Len(sent) PROVE outcome' = "ok"
        <5>1. f = sent /\ Len(f) >= 4
          BY <3>1, <3>2, <4>1
        <5>2. QED
          BY <5>1, <3>2, <1>4
      <4>2. QED
        BY <3>3, <4>1
    <3>5. QED
      BY <3>4, <2>1, <1>4 DEF IntactIsTaken
  <2>4. QED
    BY <2>2, <2>3
<1>9. QED
  BY <1>5, <1>6, <1>7, <1>8 DEF FrameInv

(* A run of handle_rx_ finds a frame, or keeps what there is of it. *)
LEMMA HandleRxKeeps == FrameInv /\ HandleRx => FrameInv'
<1> SUFFICES ASSUME FrameInv, HandleRx PROVE FrameInv'
  OBVIOUS
<1>1. FrameTyped /\ outcome = "waiting" /\ UNCHANGED <<sent, wire, arrived>>
  BY DEF FrameInv, HandleRx
<1>2. /\ arrived \in Nat /\ Len(wire) \in Nat /\ arrived <= Len(wire)
      /\ Buffered \in Seq(Byte) /\ Len(Buffered) = arrived
      /\ \A i \in 1..arrived : Buffered[i] = wire[i]
  BY <1>1, BufferedBytes
<1>3. CASE Framed
  <2> DEFINE n == ExpectedLength(Buffered)
             f == SubSeq(Buffered, 1, n)
  <2>1. /\ FinishLine(f) /\ arrived >= 3 /\ n > 0 /\ arrived >= n
    BY <1>3 DEF HandleRx, Framed, KnownLength
  <2>2. n \in Nat /\ n >= 5
    BY <2>1, <1>2, HeaderSaysLength
  <2> HIDE DEF n
  <2>3. /\ f \in Seq(Byte) /\ Len(f) = n /\ \A i \in 1..n : f[i] = Buffered[i]
    BY <2>1, <2>2, <1>2, Beginning
  <2> HIDE DEF f
  <2>4. f[2] = Buffered[2] /\ f[3] = Buffered[3]
    BY <2>2, <2>3
  <2>5. ExpectedLength(f) = n
    BY <2>1, <2>3, <2>4, <1>2, HeaderSaysLength DEF n
  <2>6. \A i \in 1..Len(f) : f[i] = wire[i]
    BY <2>1, <2>2, <2>3, <1>2
  <2>7. QED
    BY <1>1, <2>1, <2>2, <2>3, <2>5, <2>6, FinishKeeps
<1>4. CASE ~Framed
  <2>1. rx' = Buffered /\ UNCHANGED <<modbus, outcome>>
    BY <1>4 DEF HandleRx
  <2>2. ~ (arrived >= 3 /\ ExpectedLength(Buffered) > 0 /\ arrived >= ExpectedLength(Buffered))
    BY <1>4 DEF Framed, KnownLength
  <2>3. FrameTyped'
    BY <1>1, <1>2, <2>1 DEF FrameTyped
  <2>4. ReceivedSoFar'
    <3>1. arrived >= 3 => ExpectedLength(Buffered) \in Nat
      BY <1>2, HeaderSaysLength
    <3>2. modbus = <<>>
      BY <1>1 DEF FrameInv, ReceivedSoFar
    <3>3. QED
      BY <1>1, <1>2, <2>1, <2>2, <3>1, <3>2 DEF ReceivedSoFar
  <2>5. PassedOn'
    BY <1>1, <2>1 DEF PassedOn
  <2>6. IntactIsTaken'
    <3>1. Damaged' = Damaged /\ Known' = Known
      BY <1>1 DEF Damaged, Known
    <3>2. ASSUME ~Damaged, Known, arrived >= Len(sent) PROVE FALSE
      <4>1. /\ Len(sent) \in Nat /\ Len(sent) >= 5 /\ ExpectedLength(sent) = Len(sent)
        BY <1>1, <3>2, RepliesAreWellFormed DEF FrameTyped, Known
      <4>2. ExpectedLength(Buffered) = ExpectedLength(sent)
        BY <1>1, <1>2, <3>2, <4>1, IntactHeader
      <4>3. QED
        BY <2>2, <4>1, <4>2, <1>2, <3>2
    <3>3. QED
      BY <1>1, <1>2, <2>1, <3>1, <3>2 DEF IntactIsTaken
  <2>7. QED
    BY <2>3, <2>4, <2>5, <2>6 DEF FrameInv
<1>5. QED
  BY <1>3, <1>4

(* Every step keeps the invariant of the frame. *)
LEMMA FrameKept == FrameInv /\ [FrameNext]_frameVars => FrameInv'
<1> SUFFICES ASSUME FrameInv, [FrameNext]_frameVars PROVE FrameInv'
  OBVIOUS
<1>1. FrameTyped /\ ReceivedSoFar /\ PassedOn /\ IntactIsTaken
  BY DEF FrameInv
<1>2. /\ arrived \in Nat /\ Len(wire) \in Nat /\ arrived <= Len(wire)
      /\ Buffered \in Seq(Byte) /\ Len(Buffered) = arrived
      /\ \A i \in 1..arrived : Buffered[i] = wire[i]
      /\ rx \in Seq(Byte) /\ Len(rx) \in Nat
  BY <1>1, BufferedBytes, LenProperties DEF FrameTyped
<1>3. CASE HandleRx
  BY <1>3, HandleRxKeeps
<1>4. CASE HandleSilence
  <2>1. /\ outcome = "waiting" /\ Len(rx) = arrived /\ arrived = Len(wire) /\ arrived >= 3
        /\ FinishLine(rx) /\ UNCHANGED <<sent, wire, arrived>>
        /\ ~ (ExpectedLength(Buffered) > 0)
    BY <1>4 DEF HandleSilence, KnownLength
  <2>2. \A i \in 1..Len(rx) : rx[i] = wire[i]
    BY <1>1 DEF ReceivedSoFar
  <2>3. Buffered = rx
    BY <1>2, <2>1, <2>2, SeqEqual
  <2>4. ExpectedLength(rx) = 0
    BY <1>2, <2>1, <2>3, HeaderSaysLength
  <2>5. QED
    BY <1>2, <2>1, <2>2, <2>4, FinishKeeps
<1>5. CASE HandleTimeout
  <2>1. /\ outcome = "waiting" /\ outcome' = "Response timeout"
        /\ UNCHANGED <<sent, wire, arrived, rx, modbus>>
    BY <1>5 DEF HandleTimeout
  <2>2. Damaged' = Damaged /\ Known' = Known
    BY <2>1 DEF Damaged, Known
  <2>3. FrameTyped' /\ ReceivedSoFar' /\ PassedOn'
    BY <1>1, <2>1 DEF FrameTyped, ReceivedSoFar, PassedOn
  <2>4. IntactIsTaken'
    BY <1>1, <2>1, <2>2 DEF IntactIsTaken
  <2>5. QED
    BY <2>3, <2>4 DEF FrameInv
<1>6. CASE Arrive
  <2>1. /\ arrived < Len(wire) /\ arrived' = arrived + 1
        /\ UNCHANGED <<sent, wire, rx, modbus, outcome>>
    BY <1>6 DEF Arrive
  <2>2. Damaged' = Damaged /\ Known' = Known
    BY <2>1 DEF Damaged, Known
  <2>3. FrameTyped'
    <3>1. arrived' \in 0..Len(wire)
      BY <1>2, <2>1
    <3>2. QED
      BY <1>1, <2>1, <3>1 DEF FrameTyped
  <2>4. ReceivedSoFar'
    BY <1>1, <1>2, <2>1 DEF ReceivedSoFar
  <2>5. PassedOn' /\ IntactIsTaken'
    BY <1>1, <2>1, <2>2 DEF PassedOn, IntactIsTaken
  <2>6. QED
    BY <2>3, <2>4, <2>5 DEF FrameInv
<1>7. CASE UNCHANGED frameVars
  BY <1>1, <1>7 DEF frameVars, FrameInv, FrameTyped, ReceivedSoFar, PassedOn,
                    IntactIsTaken, Damaged, Known
<1>8. QED
  BY <1>3, <1>4, <1>5, <1>6, <1>7 DEF FrameNext

(* What a disturbance leaves of a reply is bytes, too. *)
LEMMA DisturbedBytes ==
  ASSUME NEW r \in Seq(Byte), NEW reply \in Disturbed(r)
  PROVE  reply \in Seq(Byte)
<1>1. PICK at \in DOMAIN r, burst \in Bursts : reply = TurnedOver(r, at, burst)
  BY DEF Disturbed
<1>2. burst[1] \in Bits8 /\ burst[2] \in Bits8
  BY FrameAssumption, ByteBits
<1>3. Len(r) \in Nat /\ DOMAIN r = 1..Len(r) /\ \A i \in 1..Len(r) : r[i] \in Bits8
  BY LenProperties, ByteBits
<1>4. ASSUME NEW i \in DOMAIN r PROVE reply[i] \in Byte
  <2>1. r[i] \in Bits8 /\ Xor8(r[i], burst[1]) \in Bits8 /\ Xor8(r[i], burst[2]) \in Bits8
    BY <1>2, <1>3, Xor8Laws
  <2>2. reply[i] \in {r[i], Xor8(r[i], burst[1]), Xor8(r[i], burst[2])}
    BY <1>1 DEF TurnedOver
  <2>3. QED
    BY <2>1, <2>2, ByteBits
<1>5. reply \in [1..Len(r) -> Byte]
  <2>1. reply = [i \in 1..Len(r) |-> reply[i]]
    BY <1>1, <1>3 DEF TurnedOver
  <2>2. QED
    BY <1>3, <1>4, <2>1
<1>6. QED
  BY <1>3, <1>5, FunctionIsSeq

(* A line starts with nothing received. *)
LEMMA FrameStarts == FrameInit => FrameInv
<1> SUFFICES ASSUME FrameInit PROVE FrameInv
  OBVIOUS
<1>1. /\ sent \in Replies /\ arrived = 0 /\ rx = <<>> /\ modbus = <<>> /\ outcome = "waiting"
      /\ Len(rx) = 0 /\ rx \in Seq(Byte)
  BY EmptySeq DEF FrameInit
<1>2. /\ sent \in Seq(Byte) /\ Len(sent) \in Nat /\ Len(sent) >= 5
  BY <1>1, RepliesAreWellFormed
<1>3. wire \in Seq(Byte)
  <2>1. ASSUME NEW reply \in {sent} \cup Disturbed(sent) \cup BrokenOff(sent),
               NEW stray \in Strays
        PROVE  reply \o stray \in Seq(Byte)
    <3>1. stray \in Seq(Byte)
      BY FrameAssumption
    <3>2. ASSUME reply \in Disturbed(sent) PROVE reply \in Seq(Byte)
      BY <1>2, <3>2, DisturbedBytes
    <3>3. ASSUME reply \in BrokenOff(sent) PROVE reply \in Seq(Byte)
      <4>1. PICK n \in 0..Len(sent) - 1 : reply = SubSeq(sent, 1, n)
        BY <3>3 DEF BrokenOff
      <4>2. n \in 0..Len(sent)
        BY <1>2
      <4>3. QED
        BY <1>2, <4>1, <4>2, Beginning
    <3>4. reply \in Seq(Byte)
      BY <1>2, <3>2, <3>3
    <3>5. QED
      BY <3>1, <3>4, ConcatProperties
  <2>2. QED
    BY <2>1 DEF FrameInit
<1>4. arrived \in 0..Len(wire)
  BY <1>1, <1>3, LenProperties
<1>5. FrameTyped
  BY <1>1, <1>3, <1>4 DEF FrameTyped
<1>6. ReceivedSoFar /\ PassedOn
  BY <1>1 DEF ReceivedSoFar, PassedOn
<1>7. IntactIsTaken
  BY <1>1, <1>2 DEF IntactIsTaken
<1>8. QED
  BY <1>5, <1>6, <1>7 DEF FrameInv

(* The invariant of the frame holds in every reachable state. *)
LEMMA FrameInvariance == FrameSpec => []FrameInv
<1>1. QED
  BY FrameStarts, FrameKept, PTL DEF FrameSpec

(* What was written as text is hex. *)
LEMMA WrittenIsHex ==
  ASSUME NEW data \in Seq(Byte)
  PROVE  IsHex(BytesToHex(data))
<1> DEFINE text == BytesToHex(data)
           n == Len(data)
<1>1. n \in Nat /\ DOMAIN data = 1..n /\ \A i \in 1..n : data[i] \in 0..255
  BY LenProperties DEF Byte
<1>2. Len(text) = 2 * n /\ DOMAIN text = 1..2 * n
  <2>1. text \in [1..2 * n -> {text[i] : i \in 1..2 * n}]
    BY DEF BytesToHex
  <2> HIDE DEF text, n
  <2>2. QED
    BY <1>1, <2>1, FunctionIsSeq
<1>3. ASSUME NEW i \in 1..2 * n PROVE HexNibble(text[i]) < 16
  <2>1. (i + 1) \div 2 \in 1..n
    BY <1>1
  <2>2. data[(i + 1) \div 2] \in 0..255
    BY <1>1, <2>1
  <2>3. PICK d \in 0..15 : text[i] = Digits[d + 1]
    <3> DEFINE byte == data[(i + 1) \div 2]
    <3>1. text[i] = Digits[1 + (IF i % 2 = 1 THEN byte \div 16 ELSE byte % 16)]
      BY DEF BytesToHex
    <3> HIDE DEF text, n
    <3>2. /\ byte \div 16 \in 0..15 /\ byte % 16 \in 0..15
          /\ 1 + (byte \div 16) = (byte \div 16) + 1 /\ 1 + (byte % 16) = (byte % 16) + 1
      BY <2>2, TwoDigits
    <3> HIDE DEF byte
    <3>3. CASE i % 2 = 1
      BY <3>1, <3>2, <3>3
    <3>4. CASE i % 2 # 1
      BY <3>1, <3>2, <3>4
    <3>5. QED
      BY <3>3, <3>4
  <2> HIDE DEF text, n
  <2>4. HexNibble(text[i]) = d
    BY <2>3, NibbleThereAndBack
  <2>5. QED
    BY <2>4
<1>4. Len(text) % 2 = 0
  <2> HIDE DEF text, n
  <2>1. QED
    BY <1>1, <1>2
<1>5. QED
  BY <1>2, <1>3, <1>4 DEF IsHex

(* The types of ModbusFrame, for any replies and any bytes behind them: what is     *)
(* passed on, if anything, is hex text.                                             *)
THEOREM FrameTypeCorrect == FrameSpec => []FrameTypeOK
<1>1. FrameInit => modbus = <<>>
  BY DEF FrameInit
<1>2. FrameInv /\ IsHex(modbus) /\ [FrameNext]_frameVars => IsHex(modbus)'
  <2> SUFFICES ASSUME FrameInv, IsHex(modbus), [FrameNext]_frameVars,
                      modbus' # modbus
               PROVE  IsHex(modbus)'
    BY DEF IsHex
  <2>1. FrameInv'
    BY FrameKept
  <2>2. \E f : FinishLine(f)
    BY DEF FrameNext, HandleRx, HandleSilence, HandleTimeout, Arrive, frameVars
  <2>3. outcome' = "ok"
    BY <2>2 DEF FinishLine
  <2>4. modbus' = BytesToHex(rx') /\ rx' \in Seq(Byte)
    BY <2>1, <2>3 DEF FrameInv, PassedOn, FrameTyped, BytesToHex
  <2>5. QED
    BY <2>4, WrittenIsHex
<1>3. IsHex(<<>>)
  BY EmptySeq DEF IsHex
<1>4. FrameInv /\ IsHex(modbus) => FrameTypeOK
  BY DEF FrameInv, FrameTyped, FrameTypeOK
<1>5. QED
  <2>1. FrameInit => IsHex(modbus)
    BY <1>1, <1>3
  <2>2. QED
    BY <1>2, <1>4, <2>1, FrameInvariance, PTL DEF FrameSpec

(* An intact reply is never refused, nor left to time out once it is there,    *)
(* whatever the reply, what follows it and how the bytes are spread over the    *)
(* runs of loop(); unless its length is not known and something follows it      *)
(* (modbus_executor.cpp:142-161).                                               *)
THEOREM IntactIsNotRefused == FrameSpec => []IntactIsTaken
<1>1. FrameInv => IntactIsTaken
  BY DEF FrameInv
<1>2. QED
  BY <1>1, FrameInvariance, PTL

(* What the cloud gets is what was received: it has the length that it announces *)
(* and a checksum that holds.                                                    *)
PassedOnIsChecked ==
  outcome = "ok" =>
    LET reply == HexToBytes(modbus)
    IN /\ reply \in Seq(Byte) /\ ChecksumOk(reply)
       /\ ExpectedLength(reply) \in {0, Len(reply)}
       /\ \A i \in 1..Len(reply) : reply[i] = wire[i]
       /\ ~Damaged => IsPrefix(sent, reply)
       /\ ~Damaged /\ Known => reply = sent

(* Whatever comes over the bus, the text that the cloud gets reads as bytes that  *)
(* were received, that are as many as they say and whose checksum holds; and if    *)
(* the reply came intact, as that reply, with nothing behind it if its length is    *)
(* known (modbus_executor.cpp:142-161,184-199; gbb_protocol.cpp:158-192).          *)
THEOREM OnlyCheckedIsPassedOn == FrameSpec => []PassedOnIsChecked
<1>1. FrameInv => PassedOnIsChecked
  <2> SUFFICES ASSUME FrameInv, outcome = "ok" PROVE PassedOnIsChecked
    BY DEF PassedOnIsChecked
  <2>1. FrameTyped /\ ReceivedSoFar /\ PassedOn
    BY DEF FrameInv
  <2>2. /\ rx \in Seq(Byte) /\ sent \in Replies /\ sent \in Seq(Byte)
        /\ Len(sent) \in Nat /\ Len(sent) >= 5 /\ ExpectedLength(sent) \in {0, Len(sent)}
    BY <2>1, RepliesAreWellFormed DEF FrameTyped
  <2>3. /\ arrived \in Nat /\ Len(wire) \in Nat /\ arrived <= Len(wire) /\ Len(rx) \in Nat
    BY <2>1, <2>2, BufferedBytes, LenProperties
  <2>4. /\ modbus = BytesToHex(rx) /\ Len(rx) >= 3 /\ ChecksumOk(rx)
        /\ ExpectedLength(rx) = Len(rx) \/ (ExpectedLength(rx) = 0 /\ Len(rx) = Len(wire))
    BY <2>1 DEF PassedOn
  <2>5. Len(rx) <= Len(wire) /\ \A i \in 1..Len(rx) : rx[i] = wire[i]
    BY <2>1, <2>3 DEF ReceivedSoFar
  <2>6. HexToBytes(modbus) = rx
    BY <2>2, <2>4, HexThereAndBack
  <2>7. ASSUME ~Damaged PROVE IsPrefix(sent, rx) /\ (Known => rx = sent)
    <3>1. /\ ExpectedLength(rx) = ExpectedLength(sent)
          /\ Len(rx) = Len(sent) => rx = sent
      BY <2>1, <2>2, <2>4, <2>5, <2>7, IntactHeader
    <3>2. Len(sent) <= Len(wire) /\ \A i \in 1..Len(sent) : wire[i] = sent[i]
      BY <2>1, <2>2, <2>7, PrefixByElements DEF Damaged, FrameTyped
    <3>3. Known => rx = sent
      BY <2>2, <2>3, <2>4, <3>1 DEF Known
    <3>4. Len(sent) <= Len(rx)
      BY <2>2, <2>3, <2>4, <3>1, <3>2
    <3>5. \A i \in 1..Len(sent) : rx[i] = sent[i]
      BY <2>2, <2>3, <2>5, <3>2, <3>4
    <3>6. IsPrefix(sent, rx)
      BY <2>2, <3>4, <3>5, PrefixByElements
    <3>7. QED
      BY <3>3, <3>6
  <2>8. QED
    BY <2>2, <2>4, <2>5, <2>6, <2>7 DEF PassedOnIsChecked
<1>2. QED
  BY <1>1, FrameInvariance, PTL

(* The length of the reply is known and what came in its place still says it, but *)
(* it was disturbed, in a byte or in two neighbouring ones.                       *)
BurstOnWire ==
  /\ Damaged /\ Known
  /\ Len(wire) >= Len(sent) /\ ExpectedLength(wire) = ExpectedLength(sent)
  /\ \E i \in 1..Len(sent) : \A j \in 1..Len(sent) : j # i /\ j # i + 1 => wire[j] = sent[j]

(* No reply that is as long as the one that was sent differs from it in a byte or in *)
(* two neighbouring ones only; and such a disturbance of the frame is no reply.      *)
BurstIsRefused ==
  outcome = "ok" =>
    /\ LET reply == HexToBytes(modbus)
       IN \A i \in 1..Len(sent) : DifferWithin(sent, reply, i) => reply = sent
    /\ ~BurstOnWire

(* Whatever an inverter sends, and whichever bits of one byte or of two neighbouring *)
(* ones are turned over on the way: the cloud gets no reply of it while the length is *)
(* still announced right, and never one that differs so from what was sent            *)
(* (modbus_executor.cpp:142-161,184-199; gbb_protocol.cpp:194-207).                   *)
THEOREM BurstsAreRefused == FrameSpec => []BurstIsRefused
<1>1. FrameInv => BurstIsRefused
  <2> SUFFICES ASSUME FrameInv, outcome = "ok" PROVE BurstIsRefused
    BY DEF BurstIsRefused
  <2>1. FrameTyped /\ ReceivedSoFar /\ PassedOn
    BY DEF FrameInv
  <2>2. /\ rx \in Seq(Byte) /\ sent \in Seq(Byte) /\ wire \in Seq(Byte)
        /\ Len(sent) \in Nat /\ Len(sent) >= 5 /\ ChecksumOk(sent)
        /\ ExpectedLength(sent) \in {0, Len(sent)}
    BY <2>1, RepliesAreWellFormed DEF FrameTyped
  <2>3. /\ modbus = BytesToHex(rx) /\ Len(rx) >= 3 /\ ChecksumOk(rx)
        /\ ExpectedLength(rx) = Len(rx) \/ ExpectedLength(rx) = 0
    BY <2>1 DEF PassedOn
  <2>4. /\ arrived \in Nat /\ Len(wire) \in Nat /\ Len(rx) \in Nat
        /\ Len(rx) <= Len(wire) /\ \A j \in 1..Len(rx) : rx[j] = wire[j]
    BY <2>1, <2>2, BufferedBytes, LenProperties DEF ReceivedSoFar
  <2>5. HexToBytes(modbus) = rx
    BY <2>2, <2>3, HexThereAndBack
  <2>6. ASSUME NEW i \in 1..Len(sent), DifferWithin(sent, rx, i) PROVE rx = sent
    BY <2>2, <2>3, <2>6, BurstIsNoticed
  <2>7. ASSUME BurstOnWire PROVE FALSE
    <3>1. /\ Damaged /\ Known /\ Len(wire) >= Len(sent)
          /\ ExpectedLength(wire) = ExpectedLength(sent)
      BY <2>7 DEF BurstOnWire
    <3>2. PICK i \in 1..Len(sent) :
            \A j \in 1..Len(sent) : j # i /\ j # i + 1 => wire[j] = sent[j]
      BY <2>7 DEF BurstOnWire
    <3>3. ExpectedLength(rx) = ExpectedLength(wire)
      <4>1. wire[2] = rx[2] /\ wire[3] = rx[3]
        BY <2>3, <2>4
      <4>2. QED
        BY <2>2, <2>3, <4>1, HeaderSaysLength
    <3>4. Len(rx) = Len(sent)
      BY <2>2, <2>3, <3>1, <3>3 DEF Known
    <3>5. DifferWithin(sent, rx, i)
      BY <2>4, <3>2, <3>4 DEF DifferWithin
    <3>6. rx = sent
      BY <2>6, <3>5
    <3>7. IsPrefix(sent, wire)
      BY <2>2, <2>4, <3>1, <3>6, PrefixByElements
    <3>8. QED
      BY <3>1, <3>7 DEF Damaged
  <2>8. QED
    BY <2>5, <2>6, <2>7 DEF BurstIsRefused
<1>2. QED
  BY <1>1, FrameInvariance, PTL

(* What comes along behind an intact reply, when that is one byte or two, is zeros. *)
OnlyZerosBehind ==
  outcome = "ok" /\ ~Damaged =>
    LET reply == HexToBytes(modbus)
    IN Len(reply) <= Len(sent) + 2 => \A i \in Len(sent) + 1..Len(reply) : reply[i] = 0

(* Whatever an inverter replies, no byte or two from behind it come along unless they *)
(* are zeros: only after those does a checksum still hold                            *)
(* (modbus_executor.cpp:152-161,184-199; gbb_protocol.cpp:194-207).                  *)
THEOREM OnlyZerosComeAlong == FrameSpec => []OnlyZerosBehind
<1>1. FrameInv /\ PassedOnIsChecked => OnlyZerosBehind
  <2> SUFFICES ASSUME FrameInv, PassedOnIsChecked, outcome = "ok", ~Damaged,
                      Len(HexToBytes(modbus)) <= Len(sent) + 2
               PROVE  \A i \in Len(sent) + 1..Len(HexToBytes(modbus)) :
                        HexToBytes(modbus)[i] = 0
    BY Zenon DEF OnlyZerosBehind
  <2> DEFINE reply == HexToBytes(modbus)
  <2>1. reply \in Seq(Byte) /\ ChecksumOk(reply) /\ IsPrefix(sent, reply)
    BY Zenon DEF PassedOnIsChecked
  <2>2. sent \in Seq(Byte) /\ Len(sent) >= 2 /\ ChecksumOk(sent)
    BY RepliesAreWellFormed DEF FrameInv, FrameTyped
  <2> HIDE DEF reply
  <2>3. Len(reply) <= Len(sent) + 2
    BY DEF reply
  <2>4. \A i \in Len(sent) + 1..Len(reply) : reply[i] = 0
    BY <2>1, <2>2, <2>3, TailIsZero
  <2>5. QED
    BY <2>4 DEF reply
<1>2. QED
  BY <1>1, FrameInvariance, OnlyCheckedIsPassedOn, PTL
=============================================================================
