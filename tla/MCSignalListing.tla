-------------------------- MODULE MCSignalListing --------------------------
(***************************************************************************)
(* Small instances of SignalListing for TLC.                               *)
(***************************************************************************)
EXTENDS SignalListing

CONSTANTS shared, project, n1, n2, own, other, bad

ProjectFirst == [b \in Buckets |-> IF b = project THEN 1 ELSE 2]
NumberedNames == [n \in Names |-> IF n = n1 THEN 1 ELSE 2]

\* bytes of a signal of this workspace, of another one, and of none
KindOf == [x \in {own, other, bad} \cap Contents |->
             CASE x = own -> "own" [] x = other -> "foreign" [] x = bad -> "malformed"]

SharedOnly == {{shared}}
WithShared == {{project}, {project, shared}}
=============================================================================
