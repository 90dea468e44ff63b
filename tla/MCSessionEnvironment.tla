------------------------ MODULE MCSessionEnvironment ------------------------
(***************************************************************************)
(* Small instances of SessionEnvironment for TLC.                          *)
(***************************************************************************)
EXTENDS SessionEnvironment, TLC

Symmetry == Permutations(Processes) \cup Permutations(Declarations) \cup Permutations(Sessions)
=============================================================================
