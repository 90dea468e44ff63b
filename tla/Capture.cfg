\* Two captures, another writer of the bucket, an I/O failure or a killed capture, a power loss.
CONSTANTS
    Buckets = {shared}
    InitialBuckets = {shared}
    Names = {n1, n2}
    Sessions = {s1, s2}
    Contents = {x1}
    Partial = Partial
    MaxEdits = 1
    MaxFaults = 1
    MaxCrashes = 1
SYMMETRY Symmetry
SPECIFICATION CaptureSpec
INVARIANTS CaptureTypeOK VisibleComplete FailedUnpublished
PROPERTIES NothingOverwritten SurvivesInDurableBucket
CHECK_DEADLOCK FALSE
