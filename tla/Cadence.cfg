\* Rollover and automatic starts: three runs, a log that rolls over from its third line.
CONSTANTS
    Runs = {r1, r2, r3}
    Signals = {s1}
    Contents = {c1}
    Workers = {}
    Workspaces = {w}
    Triggers <- OnePrompt
    Sizes = {1}
    Modes = {TRUE, FALSE}
    Batches <- NoInputs
    Reports <- Classified
    Quarter = 3
    Spaces = 1
    None = None
    Absent = Absent
    MaxClock = 2
    MaxLines = 6
    MaxDrains = 0
    MaxEdits = 0
    MaxFaults = 0
    MaxRegress = 0
SYMMETRY Symmetry
SPECIFICATION Spec
INVARIANTS RolloverTransparent CadenceKept
CHECK_DEADLOCK FALSE
