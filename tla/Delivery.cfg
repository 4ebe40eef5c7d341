CONSTANTS
    a = a
    b = b
    None = None
    Devices = {a, b}
    Events <- TwoSites
    Id <- TwoIds
    Malformed = {}
    Late <- LateSite
    Unwritable = {}
    WINDOW = 1
    EdgeQuota = 1
    INFLIGHT = 1
    MaxCopies = 1
    GatewayQuota = 1
    BATCH = 1
    MaxLog = 2
SPECIFICATION DeliverySpec
CHECK_DEADLOCK FALSE
INVARIANTS NothingVanishes ConflictsAreTrue OffsetIsSettled
