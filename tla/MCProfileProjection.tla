------------------------ MODULE MCProfileProjection ------------------------
(***************************************************************************)
(* Small instances of ProfileProjection for TLC.                           *)
(***************************************************************************)
EXTENDS ProfileProjection, TLC

Symmetry == Permutations(Contents) \cup Permutations(Sources) \cup Permutations(Routes)
=============================================================================
