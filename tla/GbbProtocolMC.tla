--------------------------- MODULE GbbProtocolMC ---------------------------
(***************************************************************************)
(* Small documents for GbbProtocol: every header field absent, right, empty   *)
(* or of a wrong type, and every array of up to one element too many; and      *)
(* replies for ModbusFrame.                                                    *)
(***************************************************************************)
EXTENDS GbbProtocol, ModbusFrame

FullLine == [LineNo |-> Number(1), Tag |-> Text(1), Timestamp |-> Number(1),
             Modbus |-> Text(1), Error |-> Absent]
EmptyTexts == [LineNo |-> Number(1), Tag |-> Text(0), Timestamp |-> Absent,
               Modbus |-> Text(1), Error |-> Text(0)]
WrongTypes == [LineNo |-> Text(1), Tag |-> Number(1), Timestamp |-> Text(1),
               Modbus |-> Number(1), Error |-> Number(1)]
FailedLine == [FullLine EXCEPT !.Error = Text(1)]
NoObject == [key \in {"LineNo", "Tag", "Timestamp", "Modbus", "Error"} |-> Absent]

ArraysOf(elements, n) ==
  {NoArray} \cup
  {[present |-> TRUE, elements |-> s] : s \in UNION {[1..m -> elements] : m \in 0..n}}

Fields(error, id, sn) ==
  [key \in HeaderKeys |->
     CASE key = "Error" -> error
       [] key \in {"OrderId", "LogLevel", "SendLastLog"} -> id
       [] key = "SubInverterSN" -> sn]

MCPayloads ==
  {[fields |-> Fields(e, i, sn), lines |-> NoArray, onNoInvSetup |-> NoArray] :
     e \in {Absent, Text(0), Text(1)}, i \in {Absent, Text(1), Number(1)},
     sn \in {Absent, Text(0), Text(1), Number(1)}}
  \cup
  {[fields |-> Fields(Absent, Absent, Absent), lines |-> a, onNoInvSetup |-> NoArray] :
     a \in ArraysOf({FullLine, EmptyTexts, WrongTypes}, MaxLines + 1)}
  \cup
  {[fields |-> Fields(Absent, Absent, sn), lines |-> NoArray, onNoInvSetup |-> a] :
     sn \in {Absent, Text(1)},
     a \in ArraysOf({EmptyTexts, FailedLine, NoObject}, MaxLines + 1)}

(* Replies of every framing: reads of functions 3 and 4, write echoes, an        *)
(* exception, and function 23, whose reply is framed by silence.  Their           *)
(* checksums are those of the Modbus standard.                                    *)
MCReplies ==
  {<<1, 3, 2, 18, 52, 181, 51>>,
   <<1, 4, 4, 0, 1, 255, 254, 106, 52>>,
   <<1, 6, 0, 7, 0, 60, 56, 26>>,
   <<1, 16, 0, 7, 0, 2, 240, 9>>,
   <<1, 131, 2, 192, 241>>,
   <<1, 23, 2, 18, 52, 176, 195>>,
   <<1, 3, 0, 32, 240>>}

MCStrays == {<<>>, <<0>>, <<1, 3>>}

(* Any one bit; a bit of each byte, next to each other on the line (lowest bit first), *)
(* eight apart and as far as can be; all sixteen.                                      *)
MCBursts ==
  {<<bit, 0>> : bit \in {1, 2, 4, 8, 16, 32, 64, 128}} \cup
  {<<1, 1>>, <<128, 1>>, <<1, 128>>, <<255, 255>>}

(* The frame that docs/protocol.md:36 shows as an example. *)
ASSUME DocumentedFrame ==
  /\ ModbusCrc16(<<1, 3, 2, 4, 0, 3>>) = 69 + 256 * 178
  /\ BytesToHex(<<1, 3, 2, 4, 0, 3, 69, 178>>) =
       <<"0", "1", "0", "3", "0", "2", "0", "4", "0", "0", "0", "3", "4", "5", "B", "2">>

-----------------------------------------------------------------------------
(* The documents and the frames share no variable, so nothing of one can depend   *)
(* on the other.  `part` names the one that moves in a behaviour: TLC explores    *)
(* the sum of their states and not the product.                                   *)
VARIABLE part

MCInit ==
  /\ Init
  /\ \/ part = "documents" /\ sent = (CHOOSE reply \in Replies : TRUE)
                           /\ wire = <<>> /\ FrameInit
     \/ part = "frames" /\ FrameInit

MCNext ==
  /\ UNCHANGED part
  /\ \/ part = "documents" /\ Next /\ UNCHANGED frameVars
     \/ part = "frames" /\ FrameNext /\ UNCHANGED vars

MCSpec == MCInit /\ [][MCNext]_<<vars, frameVars, part>>

=============================================================================
