CONSTANTS
    first = first
    twin = twin
    broken = broken
    early = early
    huge = huge
    None = None
    Events <- MCEvents
    Id <- MCId
    Malformed = {broken}
    Late = {early}
    Unwritable = {huge}
    BATCH = 2
    MaxLog = 3
SPECIFICATION Spec
CHECK_DEADLOCK FALSE
INVARIANT NothingIsLost
