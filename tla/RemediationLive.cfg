CONSTANTS
    bob = bob
    dan = dan
    edge = edge
    postgres = postgres
    opa = opa
    rollback = rollback
    restart = restart
    reboot = reboot
    failover = failover
    None = None
    w = w
    RoleOf <- MCRoleOf
    Playbook <- MCPlaybook
    Autonomy <- MCAutonomy
    ActionLimit <- MCLimit
    MAX_ATTEMPTS_PER_INCIDENT = 2
    Workers = {w}
    People = {bob}
    Incidents = {edge, postgres}
    Actions = {restart, reboot}
    MaxRequests = 1
    MaxReopens = 0
    MaxMisapprovals = 1
    MaxCrashes = 0
    Tries = 1
SPECIFICATION FairSpec
INVARIANTS
    OneInFlight
PROPERTIES
    SlotIsFreed
    IncidentsAreHandled
