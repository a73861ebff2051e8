------------------------------ MODULE CloudMC ------------------------------
(* CloudSession and CloudRequests share no variable, so nothing of one can      *)
(* depend on the other: what a run can find in both together it finds in each    *)
(* alone.  `part` names the one that moves in a behaviour, so that TLC explores  *)
(* the sum of their states and not the product.                                  *)
EXTENDS CloudSession, CloudRequests

CONSTANTS a1, a2

VARIABLE part

MCInit == SessionInit /\ Init /\ part \in {"session", "requests"}

MCNext ==
  /\ UNCHANGED part
  /\ \/ part = "session" /\ SessionNext /\ UNCHANGED vars
     \/ part = "requests" /\ Next /\ UNCHANGED sessionVars

MCSpec ==
  /\ MCInit /\ [][MCNext]_<<vars, sessionVars, part>>
  /\ part = "session" => SessionFairness
=============================================================================
