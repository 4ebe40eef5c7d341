CONSTANTS
    bob = bob
    dan = dan
    edge = edge
    postgres = postgres
    opa = opa
    rollback = rollback
    restart = restart
    reboot = reboot
    failover = failover
    None = None
    w1 = w1
    w2 = w2
    RoleOf <- MCRoleOf
    Playbook <- MCPlaybook
    Autonomy <- MCAutonomy
    ActionLimit <- MCLimit
    MAX_ATTEMPTS_PER_INCIDENT = 4
    Workers = {w1, w2}
    People = {}
    Incidents = {edge}
    Actions = {restart}
    MaxRequests = 3
    MaxReopens = 1
    MaxMisapprovals = 0
    MaxCrashes = 1
    Tries = 2
SPECIFICATION Spec
SYMMETRY WorkerSymmetry
INVARIANTS
    RunIsCounted
    AutoWithinLimit
PROPERTIES
    NoSecondRun
    KeepsOneSlot
