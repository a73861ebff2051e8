----------------------------- MODULE ModbusFrame -----------------------------
(***************************************************************************)
(* A reply byte by byte: how ModbusExecutor::handle_rx_ frames it            *)
(* (components/gbb_dongle/modbus_executor.cpp) and how the helpers of        *)
(* gbb_protocol.cpp check it and turn it into text.  ModbusExecutor has the   *)
(* timers and the lines around it.                                           *)
(***************************************************************************)
EXTENDS Naturals, Sequences, SequencesExt

CONSTANTS
  Replies,    \* the frames that inverters send, checksums included
  Strays,     \* what else there may be on the bus behind a reply
  Bursts      \* the bits of two neighbouring bytes that a disturbance turns over

Byte == 0..255

VARIABLES
  sent,      \* the reply
  wire,      \* what comes over the bus
  arrived,   \* how much of it the UART has
  rx,        \* rx_frame_
  modbus,    \* the text of the reply, once there is one
  outcome    \* "waiting", "ok" or the error of the line

frameVars == <<sent, wire, arrived, rx, modbus, outcome>>

-----------------------------------------------------------------------------
(* gbb_protocol.cpp *)

Digits == <<"0", "1", "2", "3", "4", "5", "6", "7",
            "8", "9", "A", "B", "C", "D", "E", "F">>
LowerDigits == <<"a", "b", "c", "d", "e", "f">>

(* bytes_to_hex *)
BytesToHex(data) ==
  [i \in 1..2 * Len(data) |->
     LET byte == data[(i + 1) \div 2]
     IN Digits[1 + (IF i % 2 = 1 THEN byte \div 16 ELSE byte % 16)]]

(* hex_nibble: either case, and 16 for anything else. *)
HexNibble(c) ==
  CASE Contains(Digits, c)      -> CHOOSE n \in 0..15 : Digits[n + 1] = c
    [] Contains(LowerDigits, c) -> CHOOSE n \in 10..15 : LowerDigits[n - 9] = c
    [] OTHER                    -> 16

IsHex(text) == Len(text) % 2 = 0 /\ \A i \in DOMAIN text : HexNibble(text[i]) < 16

(* hex_to_bytes, of a text that is hex. *)
HexToBytes(text) ==
  [i \in 1..Len(text) \div 2 |-> 16 * HexNibble(text[2 * i - 1]) + HexNibble(text[2 * i])]

(* Exclusive or of numbers of 1, 2, 4, 8 and 16 bits: that of their halves. *)
Xor1(m, n) == (m + n) % 2
Xor2(m, n) == 2 * Xor1(m \div 2, n \div 2) + Xor1(m % 2, n % 2)
Xor4(m, n) == 4 * Xor2(m \div 4, n \div 4) + Xor2(m % 4, n % 4)
Xor8(m, n) == 16 * Xor4(m \div 16, n \div 16) + Xor4(m % 16, n % 16)
Xor(m, n) == 256 * Xor8(m \div 256, n \div 256) + Xor8(m % 256, n % 256)

(* modbus_crc16: a bit is shifted out, and then all eight of a byte, *)
ShiftedOut(crc) == IF crc % 2 = 1 THEN Xor(crc \div 2, 40961) ELSE crc \div 2
TwoShifts(crc) == ShiftedOut(ShiftedOut(crc))
FourShifts(crc) == TwoShifts(TwoShifts(crc))
EightShifts(crc) == FourShifts(FourShifts(crc))

(* ... and so for one byte after the other. *)
WithByte(crc, byte) == EightShifts(Xor(crc, byte))
ModbusCrc16(data) ==
  LET crc[n \in 0..Len(data)] ==
        IF n = 0 THEN 65535 ELSE WithByte(crc[n - 1], data[n])
  IN crc[Len(data)]

(* What an inverter may reply (the Modbus standard): address, function and what   *)
(* the function says, as long as it says, and the checksum.  A function that the   *)
(* executor does not know has a length that it does not know, either.             *)
WellFormed(reply) ==
  /\ reply[2] >= 128 => Len(reply) = 5
  /\ reply[2] \in 1..4 => Len(reply) = reply[3] + 5
  /\ reply[2] \in {5, 6, 15, 16} => Len(reply) = 8
  /\ ModbusCrc16(SubSeq(reply, 1, Len(reply) - 2)) =
       reply[Len(reply) - 1] + 256 * reply[Len(reply)]

ASSUME FrameAssumption ==
  /\ Replies \subseteq Seq(Byte)
  /\ \A r \in Replies : Len(r) >= 5 /\ WellFormed(r)
  /\ Strays \subseteq Seq(Byte)
  /\ Bursts \subseteq Byte \X Byte

-----------------------------------------------------------------------------
(* handle_rx_ *)

(* Mutant of ExpectedLength: the checksum of a read reply is not counted. *)
ExpectedWithoutCrc(frame) ==
  CASE frame[2] >= 128             -> 5
    [] frame[2] \in 1..4           -> 3 + frame[3]
    [] frame[2] \in {5, 6, 15, 16} -> 8
    [] OTHER                       -> 0

(* The length of a reply by its function, or 0 when it is not known. *)
ExpectedLength(frame) ==
  CASE frame[2] >= 128             -> 5
    [] frame[2] \in 1..4           -> 3 + frame[3] + 2
    [] frame[2] \in {5, 6, 15, 16} -> 8
    [] OTHER                       -> 0

(* Mutant of ChecksumOk: only its low byte is compared. *)
LowChecksumOk(frame) ==
  LET n == Len(frame) IN ModbusCrc16(SubSeq(frame, 1, n - 2)) % 256 = frame[n - 1]

ChecksumOk(frame) ==
  LET n == Len(frame)
  IN ModbusCrc16(SubSeq(frame, 1, n - 2)) = frame[n - 1] + 256 * frame[n]

(* finish_line_ok_ *)
FinishLine(frame) ==
  /\ rx' = frame
  /\ outcome' = CASE Len(frame) < 4 -> "Response too short"
                  [] Len(frame) >= 4 /\ ~ChecksumOk(frame) -> "Invalid CRC in response"
                  [] Len(frame) >= 4 /\ ChecksumOk(frame) -> "ok"
  /\ modbus' = IF outcome' = "ok" THEN BytesToHex(frame) ELSE modbus

Buffered == SubSeq(wire, 1, arrived)
KnownLength == arrived >= 3 /\ ExpectedLength(Buffered) > 0
Framed == KnownLength /\ arrived >= ExpectedLength(Buffered)

HandleRx ==
  /\ outcome = "waiting" /\ Len(rx) < arrived
  /\ IF Framed THEN FinishLine(SubSeq(Buffered, 1, ExpectedLength(Buffered)))
     ELSE rx' = Buffered /\ UNCHANGED <<modbus, outcome>>
  /\ UNCHANGED <<sent, wire, arrived>>

(* ... with no new byte for silence_gap_ms_: the bytes of a reply follow each   *)
(* other, so it is over.                                                        *)
HandleSilence ==
  /\ outcome = "waiting" /\ Len(rx) = arrived /\ arrived = Len(wire)
  /\ arrived >= 3 /\ ~KnownLength
  /\ FinishLine(rx)
  /\ UNCHANGED <<sent, wire, arrived>>

(* ... or for as long as response_timeout. *)
HandleTimeout ==
  /\ outcome = "waiting" /\ Len(rx) = arrived /\ arrived = Len(wire)
  /\ arrived < 3 \/ KnownLength
  /\ outcome' = "Response timeout"
  /\ UNCHANGED <<sent, wire, arrived, rx, modbus>>

Arrive ==
  /\ outcome = "waiting" /\ arrived < Len(wire)
  /\ arrived' = arrived + 1
  /\ UNCHANGED <<sent, wire, rx, modbus, outcome>>

-----------------------------------------------------------------------------
(* A reply with a burst of wrong bits in a byte and the one behind it, or of which *)
(* the end is lost.                                                               *)
TurnedOver(reply, at, burst) ==
  [i \in DOMAIN reply |-> CASE i = at     -> Xor8(reply[i], burst[1])
                            [] i = at + 1 -> Xor8(reply[i], burst[2])
                            [] OTHER      -> reply[i]]
Disturbed(reply) == {TurnedOver(reply, at, burst) : at \in DOMAIN reply, burst \in Bursts}
BrokenOff(reply) == {SubSeq(reply, 1, n) : n \in 0..Len(reply) - 1}

FrameInit ==
  /\ sent \in Replies
  /\ \E reply \in {sent} \cup Disturbed(sent) \cup BrokenOff(sent), stray \in Strays :
       wire = reply \o stray
  /\ arrived = 0 /\ rx = <<>> /\ modbus = <<>> /\ outcome = "waiting"

FrameNext == HandleRx \/ HandleSilence \/ HandleTimeout \/ Arrive

FrameSpec == FrameInit /\ [][FrameNext]_frameVars

-----------------------------------------------------------------------------
FrameTypeOK ==
  /\ sent \in Replies /\ wire \in Seq(Byte) /\ arrived \in 0..Len(wire)
  /\ rx \in Seq(Byte) /\ IsHex(modbus)
  /\ outcome \in {"waiting", "ok", "Response timeout", "Response too short",
                  "Invalid CRC in response"}

Damaged == ~IsPrefix(sent, wire)
Known == ExpectedLength(sent) > 0

(* What the cloud gets as the reply is the frame the inverter sent, whole; a burst *)
(* of wrong bits anywhere, in the function or the length too, and there is no      *)
(* reply.                                                                          *)
(* Nothing from behind it comes along, except after a reply whose length is not    *)
(* known, and then only zeros: a checksum still holds after one                    *)
(* (modbus_executor.cpp:142-161,184-199).                                          *)
OnlyTheSentFrame ==
  outcome = "ok" =>
    LET reply == HexToBytes(modbus)
    IN /\ IsPrefix(sent, reply)
       /\ \A i \in Len(sent) + 1..Len(reply) : reply[i] = 0
       /\ Known => reply = sent

(* An intact reply is never refused, however its bytes are spread over the runs   *)
(* of loop() and whatever follows it, unless its length is not known and          *)
(* something does follow it; nor is it left to time out once it is all there.     *)
IntactIsTaken ==
  /\ ~Damaged /\ outcome \in {"Response too short", "Invalid CRC in response"}
       => ~Known /\ wire # sent
  /\ ~Damaged /\ Known /\ Len(rx) >= Len(sent) => outcome = "ok"
=============================================================================
