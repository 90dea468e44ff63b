\* Two buckets listed together or alone, row by row, while they are edited.
CONSTANTS
    shared = shared
    project = project
    n1 = n1
    n2 = n2
    own = own
    other = other
    bad = bad
    Buckets = {project, shared}
    InitialBuckets = {project, shared}
    Names = {n1}
    Sessions = {}
    Contents = {own, bad}
    Partial = Partial
    MaxEdits = 3
    MaxFaults = 0
    MaxCrashes = 0
    BucketOrder <- ProjectFirst
    NameOrder <- NumberedNames
    Kind <- KindOf
    Queries <- WithShared
    Limit = 1
    None = None
SPECIFICATION InboxSpec
INVARIANTS ListingTypeOK PageTrue ChainTrue
