\* Runs that overlap, stop and are repeated with other arguments.
CONSTANTS
    Processes = {w1, w2}
    Requests <- SomeRequests
    Venvs = {"v1", "v2"}
    Packages = {"k1"}
    Profiles = {"q1", "q2"}
    Declarations = {d1, d2}
    Consumer <- Both
    Instructable <- Both
    OnPath = "v1"
    None = None
    Torn = Torn
    MaxRuns = 2
    MaxStops = 1
    MaxEdits = 1
    MaxLaunches = 1
SYMMETRY Symmetry
SPECIFICATION Spec
INVARIANTS SetupTypeOK SoloReady RefusalExplained UserHooksKept LaunchHonest
CHECK_DEADLOCK FALSE
