--------------------------- MODULE CommandPolicy ---------------------------
(***************************************************************************)
(* The command policy that decides at run time: the Rego package           *)
(* policy/aiops/command/command.rego over the role tables of               *)
(* backend/roles.py.  Two questions are answered: AUTHORITY (may one of    *)
(* these roles request, review or override an action of this class?) and   *)
(* DECISION (may this command be approved, or executed, now?).             *)
(*                                                                         *)
(* Facts the platform gathers about the target, its evidence and the clock *)
(* arrive as the fields of a context; identifiers are opaque.              *)
(***************************************************************************)
EXTENDS Naturals

CONSTANT NoOne          \* the null identity, also the null role

Actions ==
    {"variable_message_sign", "signal_plan_change", "diversion",
     "transit_priority", "emergency_preemption", "other"}

Roles == {"operator", "supervisor", "dispatcher", "incident_commander",
          "field_responder", "auditor", "demo_operator"}

SafetyClasses == {"SC-0", "SC-1", "SC-2"}

EXECUTOR == "system:command-executor"
OUTCOME_VERIFIER == "system:outcome-verifier"

SAFETY_CLASS_OF_ACTION ==
    [a \in Actions |-> IF a = "variable_message_sign" THEN "SC-0"
                       ELSE IF a = "emergency_preemption" THEN "SC-2"
                       ELSE "SC-1"]

REQUEST_ROLES == [sc \in SafetyClasses |->
    IF sc = "SC-2" THEN {"operator", "dispatcher"} ELSE {"operator"}]

APPROVE_ROLES == [sc \in SafetyClasses |->
    IF sc = "SC-0" THEN {"operator", "supervisor"}
    ELSE IF sc = "SC-1" THEN {"supervisor"}
    ELSE {"supervisor", "incident_commander"}]

OVERRIDE_ROLES == [sc \in SafetyClasses |->
    IF sc = "SC-2" THEN {"incident_commander"} ELSE {}]

FOUR_EYES_CLASSES == {"SC-1", "SC-2"}

\* An active critical incident on the target raises any action to SC-2.
safety_class(action, critical) ==
    IF critical THEN "SC-2" ELSE SAFETY_CLASS_OF_ACTION[action]

----------------------------------------------------------------------------
(* Authority: the role, among the caller's, that holds it.                 *)

RolesFor(kind, sc) ==
    IF kind = "request" THEN REQUEST_ROLES[sc]
    ELSE IF kind = "review" THEN APPROVE_ROLES[sc]
    ELSE OVERRIDE_ROLES[sc]

\* Place of a role in the alphabetical order the engine sorts by.
RoleOrder ==
    [auditor |-> 1, demo_operator |-> 2, dispatcher |-> 3,
     field_responder |-> 4, incident_commander |-> 5, operator |-> 6,
     supervisor |-> 7]

\* The first authorised role in that order is the one recorded; none: NoOne.
authorised_role(kind, sc, roles) ==
    LET held == roles \cap RolesFor(kind, sc)
    IN  IF held = {} THEN NoOne
        ELSE CHOOSE r \in held : \A s \in held : RoleOrder[r] <= RoleOrder[s]

----------------------------------------------------------------------------
(* Decision: every broken rule has a rank and the lowest rank decides.     *)

ClassOf(ctx) == safety_class(ctx.action_type, ctx.critical)

Approval(ctx) == ctx.phase = "approval"
Execution(ctx) == ctx.phase = "execution"

RecommendationStatuses == {"proposed", "requested", "superseded", "expired"}
ActionableStatuses == {"proposed", "requested"}

\* The command cites a recommendation and it was found ("none": it cites none,
\* "missing": there is no such recommendation).  Only an approval looks at it.
Recommended(ctx) == Approval(ctx) /\ ctx.rec_status \in RecommendationStatuses

\* Rank 1 guards the others: in the approval phase somebody must approve.
ValidInput(ctx) == Approval(ctx) => ctx.approver # NoOne

BrokenRules(ctx) ==
    {rank \in {3, 4, 15, 20, 30, 40, 50, 60, 70, 80, 90, 100, 110} :
        \/ rank = 3 /\ Execution(ctx) /\ ctx.actor # EXECUTOR
        \/ rank = 4 /\ Execution(ctx) /\ ctx.command_status # "approved"
        \/ rank = 15 /\ Execution(ctx) /\ ctx.approver = NoOne
        \/ rank = 20 /\ ctx.overdue
        \/ rank = 30 /\ ClassOf(ctx) \in FOUR_EYES_CLASSES
                     /\ ctx.approver = ctx.requested_by
        \/ rank = 40 /\ ctx.approver_role \notin APPROVE_ROLES[ClassOf(ctx)]
        \/ rank = 50 /\ ctx.requester_role # NoOne
                     /\ ctx.requester_role \notin REQUEST_ROLES[ClassOf(ctx)]
        \/ rank = 60 /\ ~ctx.adapter_known
        \/ rank = 70 /\ ~ctx.target_exists
        \/ rank = 80 /\ Approval(ctx) /\ ctx.rec_status = "missing"
        \/ rank = 90 /\ Recommended(ctx) /\ ~ctx.rec_same_action
        \/ rank = 100 /\ Recommended(ctx)
                      /\ ctx.rec_status \notin ActionableStatuses
        \/ rank = 110 /\ ~ctx.evidence_fresh}

\* Faulty: an approval does not ask how old the evidence is.
ViolationsStaleApproval(ctx) ==
    BrokenRules(ctx) \ (IF Approval(ctx) THEN {110} ELSE {})

violations(ctx) == IF ValidInput(ctx) THEN BrokenRules(ctx) ELSE {1}

\* What a refusal by the rule of this rank tells the caller.
Refusal(rank) ==
    [decision   |-> IF rank = 20 THEN "expired" ELSE "denied",
     error_code |-> IF rank = 20 THEN "expired"
                    ELSE IF rank \in {60, 70, 80} THEN "invalid_target"
                    ELSE IF rank = 110 THEN "stale_evidence"
                    ELSE "policy_denied"]

Permit == [decision |-> "approved", error_code |-> "none"]

\* Faulty: the highest rank decides.
DecisionByLastRule(ctx) ==
    IF violations(ctx) = {} THEN Permit
    ELSE Refusal(CHOOSE r \in violations(ctx) : \A s \in violations(ctx) : r >= s)

decision(ctx) ==
    IF violations(ctx) = {} THEN Permit
    ELSE Refusal(CHOOSE r \in violations(ctx) : \A s \in violations(ctx) : r <= s)

\* What the caller is given when the engine or the facts cannot be reached.
PolicyUnavailable == [decision |-> "policy_unavailable", error_code |-> "internal"]

NoVerdict == [decision |-> "none", error_code |-> "none"]

ErrorCodes == {"none", "policy_denied", "expired", "stale_evidence",
               "adapter_unreachable", "invalid_target", "internal"}

Verdicts == [decision : {"none", "approved", "denied", "expired",
                         "policy_unavailable"},
             error_code : ErrorCodes]
=============================================================================
