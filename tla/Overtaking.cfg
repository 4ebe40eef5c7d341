CONSTANTS
    a = a
    b = b
    Devices = {a}
    Events <- ThreeEvents
    Id <- ThreeIds
    Malformed = {}
    WINDOW = 2
    EdgeQuota = 3
    INFLIGHT = 2
    MaxCopies = 1
    GatewayQuota = 1
SPECIFICATION Spec
INVARIANT OvertakesWithinWindow
