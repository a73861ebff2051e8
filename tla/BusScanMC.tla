----------------------------- MODULE BusScanMC -----------------------------
(***************************************************************************)
(* Small instances of BusScan: each client has a Plant Id of its own.       *)
(***************************************************************************)
EXTENDS BusScan

CONSTANTS d, x

MCPlantOf == [c \in Clients |-> <<c>>]
=============================================================================
