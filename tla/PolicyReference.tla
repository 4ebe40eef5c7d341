-------------------------- MODULE PolicyReference --------------------------
(***************************************************************************)
(* The reference decision of backend/control/policy.py (`evaluate`, an     *)
(* ordered ladder of early returns) beside the engine that answers at run  *)
(* time (`decision` of CommandPolicy).  The platform keeps both; whoever   *)
(* reads evaluate() to learn why a command was refused relies on their     *)
(* agreement.                                                              *)
(*                                                                         *)
(* One question about one command is asked: Init gathers any facts         *)
(* build_context can produce, Ask gets the engine's answer.                *)
(***************************************************************************)
EXTENDS CommandPolicy, Sequences, SequencesExt

CONSTANTS ActionsAsked,      \* the action types of the commands asked about
          RolesSeen          \* the roles recorded on them

VARIABLES ctx, answer

vars == <<ctx, answer>>

REQUESTER == "requester"
COLLEAGUE == "colleague"

\* A person recorded on a command is somebody.
ASSUME ReferenceAssumption == NoOne \notin {REQUESTER, COLLEAGUE}

Facts(phases, approvers, statuses, actors, commandStatuses) ==
    [phase : phases, action_type : ActionsAsked, critical : BOOLEAN,
     overdue : BOOLEAN, adapter_known : BOOLEAN, target_exists : BOOLEAN,
     evidence_fresh : BOOLEAN, requested_by : {REQUESTER},
     requester_role : RolesSeen \cup {NoOne}, approver : approvers,
     approver_role : RolesSeen \cup {NoOne}, rec_status : statuses,
     rec_same_action : BOOLEAN, actor : actors,
     command_status : commandStatuses]

\* What build_context and context_to_input can send: an approval has an
\* approver, and only an execution carries the caller and the status.
Contexts ==
    {c \in Facts({"approval"}, {REQUESTER, COLLEAGUE},
                 RecommendationStatuses \cup {"none", "missing"}, {NoOne}, {"none"})
           \cup Facts({"execution"}, {REQUESTER, COLLEAGUE, NoOne}, {"none"},
                      {EXECUTOR, COLLEAGUE}, {"approved", "denied"}) :
        /\ c.target_exists => c.adapter_known
        /\ c.evidence_fresh => c.target_exists
        /\ c.rec_status \notin RecommendationStatuses => ~c.rec_same_action}

\* evaluate(): the refusals in the order the code returns them.
Ladder(c) ==
    LET sc == safety_class(c.action_type, c.critical)
        execution == c.phase = "execution"
    IN  << <<execution /\ c.actor # EXECUTOR, "denied", "policy_denied">>,
           <<execution /\ c.command_status # "approved", "denied", "policy_denied">>,
           <<execution /\ c.approver = NoOne, "denied", "policy_denied">>,
           <<c.overdue, "expired", "expired">>,
           <<sc \in FOUR_EYES_CLASSES /\ c.approver = c.requested_by,
             "denied", "policy_denied">>,
           <<c.approver_role \notin APPROVE_ROLES[sc], "denied", "policy_denied">>,
           <<c.requester_role # NoOne /\ c.requester_role \notin REQUEST_ROLES[sc],
             "denied", "policy_denied">>,
           <<~c.adapter_known, "denied", "invalid_target">>,
           <<~c.target_exists, "denied", "invalid_target">>,
           <<~execution /\ c.rec_status = "missing", "denied", "invalid_target">>,
           <<~execution /\ c.rec_status # "none" /\ ~c.rec_same_action,
             "denied", "policy_denied">>,
           <<~execution /\ c.rec_status # "none"
                 /\ c.rec_status \notin ActionableStatuses,
             "denied", "policy_denied">>,
           <<~c.evidence_fresh, "denied", "stale_evidence">> >>

evaluate(c) ==
    LET first == SelectInSeq(Ladder(c), LAMBDA refusal : refusal[1])
    IN  IF first = 0 THEN Permit
        ELSE [decision |-> Ladder(c)[first][2], error_code |-> Ladder(c)[first][3]]

Init == ctx \in Contexts /\ answer = NoVerdict

Ask == /\ answer = NoVerdict
       /\ answer' = decision(ctx)
       /\ UNCHANGED ctx

Next == Ask

Spec == Init /\ [][Next]_vars

----------------------------------------------------------------------------
Asked == answer # NoVerdict

\* The engine's answer is the one the reference ladder gives, down to the
\* error code a person is shown: the rank order of command.rego and the order
\* of the early returns of policy.py never drift apart.
EngineAgreesWithReference == Asked => answer = evaluate(ctx)

\* The same facts, one phase later: approved, handed to the executor.
AtTheGate(c) == [c EXCEPT !.phase = "execution", !.actor = EXECUTOR,
                          !.command_status = "approved", !.rec_status = "none",
                          !.rec_same_action = FALSE]

\* An approval is never refused at the gate unless a fact has changed: what
\* review_command just allowed, execution_gate allows on the same facts.
GateKeepsApproval ==
    (Asked /\ ctx.phase = "approval" /\ answer.decision = "approved") =>
        decision(AtTheGate(ctx)).decision = "approved"

\* The gate does not take the approval on trust: it lets nothing through that
\* a review of a command without recommendation would have refused.
GateTrustsNoApproval ==
    (Asked /\ ctx.phase = "execution" /\ answer.decision = "approved") =>
        decision([ctx EXCEPT !.phase = "approval"]).decision = "approved"
=============================================================================
