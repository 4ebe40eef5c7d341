CONSTANTS
    first = first
    twin = twin
    broken = broken
    early = early
    huge = huge
    None = None
    Events <- MCEvents
    Id <- MCId
    Malformed = {broken}
    Late = {early}
    Unwritable = {huge}
    BATCH = 2
    MaxLog = 3
SPECIFICATION FairSpec
\* The log has a bound here: when it is full and read, nothing is left to do.
CHECK_DEADLOCK FALSE
INVARIANTS OffsetIsSettled ConflictsAreTrue
PROPERTIES KeepsRecords MessagesAreRead
