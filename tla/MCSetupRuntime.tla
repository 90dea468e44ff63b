--------------------------- MODULE MCSetupRuntime ---------------------------
(***************************************************************************)
(* Small instances of SetupRuntime for TLC.                                *)
(***************************************************************************)
EXTENDS SetupRuntime, TLC

Symmetry == Permutations(Processes) \cup Permutations(Declarations)

Both == {"claude", "copilot"}

Managed(v, q, targets) ==
    [mode |-> "managed", existing |-> FALSE, portable |-> FALSE, venv |-> v,
     package |-> "k1", profile |-> q, targets |-> targets]

\* A first installation, one for fewer harnesses into another virtual environment,
\* a portable rebinding over an existing runtime, and the preparation of the same
\* environment for another profile.
SomeRequests ==
    {Managed("v1", "q1", Both), Managed("v2", "q2", {"copilot"}),
     [Managed("v1", "q1", {"claude"}) EXCEPT !.mode = "bind", !.existing = TRUE, !.portable = TRUE],
     [Managed("v1", "q2", Both) EXCEPT !.mode = "prepare"]}
=============================================================================
