CONSTANTS
    a = a
    b = b
    None = None
    Devices = {a}
    Events <- OneSite
    Id <- OneSiteIds
    Malformed = {}
    Late = {}
    Unwritable = {}
    WINDOW = 1
    EdgeQuota = 2
    INFLIGHT = 1
    MaxCopies = 1
    GatewayQuota = 1
    BATCH = 1
    MaxLog = 3
SPECIFICATION DeliverySpec
CHECK_DEADLOCK FALSE
INVARIANTS TopicOrder NothingVanishes
