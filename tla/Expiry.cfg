\* Expiry of finished runs against the lifecycle, receipts and failures.
CONSTANTS
    Runs = {r1, r2}
    Signals = {s1}
    Contents = {c1}
    Workers = {}
    Workspaces = {w}
    Triggers <- NoTriggers
    Sizes = {1}
    Modes = {FALSE}
    Batches <- AnyInputs
    Reports <- Completed
    Quarter = 2
    Spaces = 1
    None = None
    Absent = Absent
    MaxClock = 1
    MaxLines = 4
    MaxDrains = 1
    MaxEdits = 0
    MaxFaults = 1
    MaxRegress = 0
    RetentionTime = 0
    MaxReceipts = 1
SPECIFICATION RetentionFairSpec
INVARIANTS UnresolvedKept LossExplained
PROPERTIES ImplementsExclusiveRuns LockReleased
CHECK_DEADLOCK FALSE
