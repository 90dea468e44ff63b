-------------------------- MODULE MCSignalCapture --------------------------
(***************************************************************************)
(* Small instances of SignalCapture for TLC.                               *)
(***************************************************************************)
EXTENDS SignalCapture, TLC

Symmetry == Permutations(Contents) \cup Permutations(Names) \cup Permutations(Sessions)
=============================================================================
