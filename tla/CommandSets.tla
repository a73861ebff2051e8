---------------------------- MODULE CommandSets ----------------------------
(***************************************************************************)
(* The data the components of GbbDongle pass around: vectors of Modbus      *)
(* command lines (std::vector<GbbLine>, components/gbb_dongle/gbb_protocol.h)*)
(* seen as opaque values, of which only the number of lines that carry a    *)
(* frame matters.                                                           *)
(***************************************************************************)
EXTENDS Naturals

CONSTANTS
  Contents,   \* the non-empty line vectors, up to same_execution_content
  NoLines,    \* the empty line vector
  ValidLines  \* number of lines of a vector that carry a Modbus frame, up to
              \* the first payload that is none (bad hex, less than 4 bytes)

LineVectors == Contents \cup {NoLines}

ASSUME LineAssumption ==
  /\ NoLines \notin Contents
  /\ ValidLines \in [LineVectors -> Nat]
  /\ ValidLines[NoLines] = 0
=============================================================================
