\* Activations of one session that overlap, fail and are repeated.
CONSTANTS
    Processes = {a1, a2}
    Sessions = {s1}
    Declarations = {d1, d2}
    None = None
    MaxRuns = 2
    MaxEdits = 2
    MaxForeign = 1
    MaxFaults = 2
SYMMETRY Symmetry
SPECIFICATION Spec
INVARIANTS SessionTypeOK OneDeclaration ActivationSettled
CHECK_DEADLOCK FALSE
