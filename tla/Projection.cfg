\* Prepare, refresh and remove with kills, failures, rotations and another writer of the copy.
CONSTANTS
    Contents = {x1, x2}
    Malformed = Malformed
    Sources = {f1, f2}
    Routes = {d1}
    None = None
    MaxFiles = 3
    MaxEdits = 1
    MaxForeign = 1
    MaxFaults = 2
SYMMETRY Symmetry
SPECIFICATION Spec
INVARIANTS ProjectionTypeOK SecretsJournaled NoSelfLockout CredentialsCleared
CHECK_DEADLOCK FALSE
