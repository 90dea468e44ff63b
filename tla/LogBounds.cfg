\* Rollover from the second line, late workers, a clock set back, torn writes, triggers that change.
CONSTANTS
    Runs = {r1, r2}
    Signals = {}
    Contents = {}
    Workers = {h1, h2}
    Workspaces = {w}
    Triggers <- PromptOrManual
    Sizes = {1}
    Modes = {FALSE}
    Batches <- NoInputs
    Reports <- Completed
    Quarter = 2
    Spaces = 1
    None = None
    Absent = Absent
    MaxClock = 1
    MaxLines = 4
    MaxDrains = 0
    MaxEdits = 1
    MaxFaults = 1
    MaxRegress = 1
SYMMETRY Symmetry
SPECIFICATION Spec
INVARIANTS TypeOK LogReadable OneActiveRun IdentityRepairable ActiveRunOperable LogBackedByEvidence
PROPERTIES AgreementStableWhileActive
CHECK_DEADLOCK FALSE
