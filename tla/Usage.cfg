\* Receipts, daily maintenance and an export of a directory that two workspaces share.
CONSTANTS
    Workspaces = {w1, w2}
    Runs = {r1}
    Processes = {p1, p2}
    None = None
    RetentionTime = 0
    Since = {1}
    MaxClock = 1
    MaxEvents = 3
    MaxReceipts = 2
    MaxFaults = 1
SYMMETRY Symmetry
SPECIFICATION Spec
INVARIANTS UsageTypeOK ExportAccounted
PROPERTIES ReceiptsKept
CHECK_DEADLOCK FALSE
