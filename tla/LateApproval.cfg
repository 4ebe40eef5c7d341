CONSTANTS
    bob = bob
    dan = dan
    edge = edge
    postgres = postgres
    opa = opa
    rollback = rollback
    restart = restart
    reboot = reboot
    failover = failover
    None = None
    w = w
    RoleOf <- MCRoleOf
    Playbook <- MCPlaybook
    Autonomy <- MCAutonomy
    ActionLimit <- MCLimit
    MAX_ATTEMPTS_PER_INCIDENT = 4
    Workers = {w}
    People = {bob}
    Incidents = {postgres}
    Actions = {reboot}
    MaxRequests = 2
    MaxReopens = 0
    MaxMisapprovals = 0
    MaxCrashes = 1
    Tries = 1
SPECIFICATION Spec
INVARIANTS
    AbandonedMeansAWorkerDied
