CONSTANTS
    bob = bob
    dan = dan
    edge = edge
    postgres = postgres
    opa = opa
    rollback = rollback
    restart = restart
    reboot = reboot
    failover = failover
    None = None
    w1 = w1
    RoleOf <- MCRoleOf
    Playbook <- MCPlaybook
    Autonomy <- MCAutonomy
    ActionLimit <- MCLimit
    MAX_ATTEMPTS_PER_INCIDENT = 2
    Workers = {w1}
    People = {bob, dan}
    Incidents = {postgres, opa}
    Actions = {reboot, failover}
    MaxRequests = 3
    MaxReopens = 0
    MaxMisapprovals = 1
    MaxCrashes = 1
    Tries = 3
SPECIFICATION Spec
INVARIANTS
    RunHadConsent
    OneAtATime
