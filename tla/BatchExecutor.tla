--------------------------- MODULE BatchExecutor ---------------------------
(***************************************************************************)
(* What ModbusExecutor (components/gbb_dongle/modbus_executor.cpp) promises *)
(* to GbbDongle::loop: it takes one batch of lines while it is not busy,    *)
(* the inverter answers the lines one after the other, the first line that  *)
(* goes wrong ends the batch, and the result waits until it is taken.       *)
(* Time, gaps and bytes are left to module ModbusExecutor.                  *)
(***************************************************************************)
EXTENDS CommandSets

VARIABLES
  exState,     \* state_, with GAP, TRANSMIT and RX_WAIT folded into "BUSY"
  exBatch,     \* header_: whose batch it is and the lines it was started with
  exAnswered   \* lines of the batch whose response frame has been stored

exVars == <<exState, exBatch, exAnswered>>

(* The part of GbbHeader the executor's owner looks at. *)
Batches == [emergency : BOOLEAN, lines : LineVectors]

ExTypeOK ==
  /\ exState \in {"IDLE", "BUSY", "DONE"}
  /\ exBatch \in Batches
  /\ exAnswered \in Nat

ExInit ==
  /\ exState = "IDLE"
  /\ exBatch = [emergency |-> FALSE, lines |-> NoLines]
  /\ exAnswered = 0

Busy == exState = "BUSY"
HasResult == exState = "DONE"

(* The state after `answered` lines: start_next_line_ skips the lines without *)
(* a Modbus payload; it ends the batch when none is left or when the next     *)
(* one is no valid frame.                                                     *)
AfterLine(batch, answered) ==
  IF answered < ValidLines[batch.lines] THEN "BUSY" ELSE "DONE"

Start(batch) ==
  /\ exBatch' = batch
  /\ exAnswered' = 0
  /\ exState' = AfterLine(batch, 0)

(* finish_line_ok_: the reply is complete and its CRC is right. *)
LineAnswered ==
  /\ Busy
  /\ exAnswered' = exAnswered + 1
  /\ exState' = AfterLine(exBatch, exAnswered')
  /\ UNCHANGED exBatch

(* fail_line_ on a timeout, a short reply or a bad CRC: this line and all the *)
(* later ones lose their Modbus payload, the batch is over.                   *)
LineFailed ==
  /\ Busy
  /\ exState' = "DONE"
  /\ UNCHANGED <<exBatch, exAnswered>>

(* "Delivered" as EmergencyManager::handle_result reads it off the result: at *)
(* least one line came back without an error and with a Modbus payload.       *)
Delivered == exAnswered > 0

TakeResult ==
  /\ HasResult
  /\ exState' = "IDLE"
  /\ UNCHANGED <<exBatch, exAnswered>>

ExNext ==
  \/ ~Busy /\ ~HasResult /\ \E batch \in Batches : Start(batch)
  \/ LineAnswered
  \/ LineFailed
  \/ TakeResult

ExSpec == ExInit /\ [][ExNext]_exVars
=============================================================================
