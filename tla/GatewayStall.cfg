CONSTANTS
    a = a
    b = b
    Devices = {a, b}
    Events <- TwoSites
    Id <- TwoIds
    Malformed = {}
    WINDOW = 2
    EdgeQuota = 1
    INFLIGHT = 2
    MaxCopies = 2
    GatewayQuota = 1
SPECIFICATION FairSpec
PROPERTY SiteIsTold
