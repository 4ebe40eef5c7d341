SPECIFICATION Spec
CONSTANTS
    Calls = {c}
    Units = {ambulance, engine}
    Assignments = {a1, a2}
    Requests = {r1, r2}
CHECK_DEADLOCK FALSE
INVARIANT ClearsWhenAllClear
