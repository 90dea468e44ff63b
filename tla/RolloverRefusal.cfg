\* Two finished runs, each event below a quarter of the bound, fill half of it.
CONSTANTS
    Runs = {r1, r2, r3}
    Signals = {s1}
    Contents = {c1}
    Workers = {}
    Workspaces = {w}
    Triggers <- NoTriggers
    Sizes = {1, 2}
    Modes = {FALSE}
    Batches <- NoInputs
    Reports <- Classified
    Quarter = 3
    Spaces = 1
    None = None
    Absent = Absent
    MaxClock = 0
    MaxLines = 5
    MaxDrains = 0
    MaxEdits = 0
    MaxFaults = 0
    MaxRegress = 0
SYMMETRY Symmetry
SPECIFICATION Spec
INVARIANTS RefusalMeansUnresolved
CHECK_DEADLOCK FALSE
