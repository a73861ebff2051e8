---------------------------- MODULE GbbDongleMC ----------------------------
(***************************************************************************)
(* Small instances of GbbDongle: a set of two lines, a set of one line, and *)
(* a set whose first payload is no Modbus frame.                            *)
(***************************************************************************)
EXTENDS GbbDongle

CONSTANTS two, one, bad

MCValidLines ==
  [l \in LineVectors |-> CASE l = two -> 2 [] l = one -> 1 [] OTHER -> 0]
=============================================================================
