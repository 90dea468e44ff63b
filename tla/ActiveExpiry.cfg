\* Evidence of a run the log still calls active is expired.
CONSTANTS
    Runs = {r1}
    Signals = {s1}
    Contents = {c1}
    Workers = {}
    Workspaces = {w}
    Triggers <- NoTriggers
    Sizes = {1}
    Modes = {FALSE}
    Batches <- NoInputs
    Reports <- Completed
    Quarter = 20
    Spaces = 1
    None = None
    Absent = Absent
    MaxClock = 1
    MaxLines = 2
    MaxDrains = 0
    MaxEdits = 0
    MaxFaults = 1
    MaxRegress = 0
    RetentionTime = 0
    MaxReceipts = 1
SYMMETRY Symmetry
SPECIFICATION RetentionSpec
INVARIANTS ActiveEvidenceKept
CHECK_DEADLOCK FALSE
