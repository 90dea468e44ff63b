\* Removal of selected inputs: one run, two inputs, edits of files and configuration, two failures.
CONSTANTS
    Runs = {r1}
    Signals = {s1, s2}
    Contents = {c1, c2}
    Workers = {}
    Workspaces = {w}
    Triggers <- OnePrompt
    Sizes = {1}
    Modes = {FALSE}
    Batches <- AnyInputs
    Reports <- Completed
    Quarter = 20
    Spaces = 1
    None = None
    Absent = Absent
    MaxClock = 0
    MaxLines = 3
    MaxDrains = 2
    MaxEdits = 2
    MaxFaults = 2
    MaxRegress = 0
SYMMETRY Symmetry
SPECIFICATION Spec
INVARIANTS DrainageTruthful RemovalRecoverable
PROPERTIES NoLateRemoval
CHECK_DEADLOCK FALSE
