CONSTANTS
    NoOne = NoOne
    ActionsAsked = {"variable_message_sign", "signal_plan_change", "emergency_preemption"}
    RolesSeen = {"operator", "supervisor", "dispatcher", "incident_commander"}
SPECIFICATION Spec
INVARIANTS
    EngineAgreesWithReference
    GateKeepsApproval
CHECK_DEADLOCK FALSE
