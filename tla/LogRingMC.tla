----------------------------- MODULE LogRingMC -----------------------------
(***************************************************************************)
(* A small instance of LogRing: plain and colored messages at two levels,    *)
(* one that is cut within its color sequence, and the empty one.             *)
(***************************************************************************)
EXTENDS LogRing

MCMessages ==
  {[level |-> 1, text |-> <<>>],
   [level |-> 1, text |-> <<"sign", "esc", "sign">>],
   [level |-> 1, text |-> <<"letter", "sign", "sign">>],
   [level |-> 2, text |-> <<"esc", "letter", "sign">>]}
=============================================================================
