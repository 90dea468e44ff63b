---------------------------- MODULE MCUsageStore ----------------------------
(***************************************************************************)
(* Small instances of UsageStore for TLC.                                  *)
(***************************************************************************)
EXTENDS UsageStore, TLC

Symmetry == Permutations(Processes) \cup Permutations(Workspaces) \cup Permutations(Runs)
=============================================================================
