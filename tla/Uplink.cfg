CONSTANTS
    a = a
    b = b
    Devices = {a, b}
    Events <- OneSite
    Id <- OneIds
    Malformed = {}
    WINDOW = 2
    EdgeQuota = 2
    INFLIGHT = 2
    MaxCopies = 2
    GatewayQuota = 1
SPECIFICATION FairSpec
INVARIANT AckedIsInKafka AckedInOrder
PROPERTY StoredUntilConfirmed AcknowledgedIsStored ToldOrStalled
