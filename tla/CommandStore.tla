---------------------------- MODULE CommandStore ----------------------------
(***************************************************************************)
(* backend/repositories/commands.py: the command table, its row-locked     *)
(* transitions and the command_transitions audit trail.                    *)
(*                                                                         *)
(* A command is named by its idempotency key, which is UNIQUE, so the      *)
(* table is a function from keys to rows.  Each operation below is one     *)
(* committed transaction.  An operation that the code refuses by raising   *)
(* (InvalidTransition, MissingAuditReference) is not enabled: what the     *)
(* caller does with the exception belongs to the caller.  Times are kept   *)
(* only as the order of approvals.                                         *)
(***************************************************************************)
EXTENDS CommandPolicy, FiniteSets

CONSTANTS Commands,         \* idempotency keys
          People            \* user names

ASSUME CommandsAssumption == IsFiniteSet(Commands)
ASSUME PeopleAssumption ==
    /\ NoOne \notin People /\ EXECUTOR \notin People /\ OUTCOME_VERIFIER \notin People
    /\ NoOne \notin Roles /\ NoOne # EXECUTOR /\ NoOne # OUTCOME_VERIFIER

VARIABLES cmd,              \* commands: the rows
          trail             \* command_transitions: the moves recorded

storeVars == <<cmd, trail>>

Actors == People \cup {EXECUTOR, OUTCOME_VERIFIER}

Statuses == {"absent", "requested", "approved", "denied", "expired",
             "executing", "executed", "failed", "rolled_back"}

\* Faulty: a command under way may still be denied.
AllowedDenyExecuting ==
    [s \in Statuses |->
        IF s = "requested" THEN {"approved", "denied", "expired"}
        ELSE IF s = "approved" THEN {"executing", "expired", "denied"}
        ELSE IF s = "executing" THEN {"executed", "failed", "denied"}
        ELSE IF s = "executed" THEN {"rolled_back"}
        ELSE {}]

ALLOWED_TRANSITIONS ==
    [s \in Statuses |->
        IF s = "requested" THEN {"approved", "denied", "expired"}
        ELSE IF s = "approved" THEN {"executing", "expired", "denied"}
        ELSE IF s = "executing" THEN {"executed", "failed"}
        ELSE IF s = "executed" THEN {"rolled_back"}
        ELSE {}]

ERROR_REQUIRED_STATUSES == {"denied", "failed"}

Rows == [status : Statuses,
         requested_by : People \cup {NoOne},
         requested_by_role : Roles \cup {NoOne},
         approved_by : Actors \cup {NoOne},
         approved_by_role : Roles \cup {NoOne},
         approved_at : Nat,             \* rank among approvals, 0: never
         policy_decision : {"pending", "approved", "denied", "policy_unavailable"},
         error_code : ErrorCodes, error_retryable : BOOLEAN,
         acknowledged : BOOLEAN]

NoRow == [status |-> "absent", requested_by |-> NoOne, requested_by_role |-> NoOne,
          approved_by |-> NoOne, approved_by_role |-> NoOne, approved_at |-> 0,
          policy_decision |-> "pending", error_code |-> "none",
          error_retryable |-> FALSE, acknowledged |-> FALSE]

Moves == [from : Statuses, to : Statuses, by : Actors]

StoreTypeOK == /\ cmd \in [Commands -> Rows]
               /\ trail \in [Commands -> SUBSET Moves]

StoreInit == /\ cmd = [c \in Commands |-> NoRow]
             /\ trail = [c \in Commands |-> {}]

WithStatus(statuses) == {c \in Commands : cmd[c].status \in statuses}

----------------------------------------------------------------------------
\* INSERT of a key not seen before.  A key already in the table (found by the
\* SELECT, or by the UNIQUE constraint when the SELECT lost the race) returns
\* the existing command and changes nothing.
create_command(c, by, role) ==
    /\ cmd[c].status = "absent"
    /\ cmd' = [cmd EXCEPT ![c] = [NoRow EXCEPT !.status = "requested",
                                               !.requested_by = by,
                                               !.requested_by_role = role]]
    /\ trail' = [trail EXCEPT ![c] = @ \cup
                    {[from |-> "absent", to |-> "requested", by |-> by]}]

CanMove(c, to) == to \in ALLOWED_TRANSITIONS[cmd[c].status]

\* The fields the caller passes are already in `row`.  Legality is read under
\* the row lock, so it is judged on the state the move starts from.
transition_command(c, to, by, row) ==
    /\ CanMove(c, to)
    /\ to = "approved" => row.approved_by # NoOne
    /\ to \in ERROR_REQUIRED_STATUSES => row.error_code # "none"
    /\ cmd' = [cmd EXCEPT ![c] = [row EXCEPT !.status = to]]
    /\ trail' = [trail EXCEPT ![c] = @ \cup
                    {[from |-> cmd[c].status, to |-> to, by |-> by]}]

\* Faulty: an approval keeps the error of an earlier outage.
ApprovedWithError(c, by, role) ==
    [cmd[c] EXCEPT !.approved_by = by, !.approved_by_role = role,
                   !.approved_at = 1 + Cardinality({d \in Commands :
                                                    cmd[d].approved_at > 0}),
                   !.policy_decision = "approved"]

\* An approval takes the next place in approved_at order and clears the error
\* an earlier policy outage left on the row.
ApprovedRow(c, by, role) ==
    [cmd[c] EXCEPT !.approved_by = by, !.approved_by_role = role,
                   !.approved_at = 1 + Cardinality({d \in Commands :
                                                    cmd[d].approved_at > 0}),
                   !.policy_decision = "approved",
                   !.error_code = "none", !.error_retryable = FALSE]

ErrorRow(c, code, retryable) ==
    [cmd[c] EXCEPT !.error_code = code, !.error_retryable = retryable]

DeniedRow(c, code, retryable) ==
    [ErrorRow(c, code, retryable) EXCEPT !.policy_decision = "denied"]

\* Records an outage on a command that is still waiting; its status stays.
apply_policy_unavailable(c) ==
    /\ cmd[c].status = "requested"
    /\ cmd' = [cmd EXCEPT ![c] = [ErrorRow(c, "internal", TRUE) EXCEPT
                                    !.policy_decision = "policy_unavailable"]]
    /\ UNCHANGED trail

\* Faulty: approvals do not expire.
ExpireRequestedOnly(late) ==
    /\ cmd' = [c \in Commands |->
                 IF c \in late /\ cmd[c].status = "requested"
                 THEN [cmd[c] EXCEPT !.status = "expired"]
                 ELSE cmd[c]]
    /\ UNCHANGED trail

\* One UPDATE over every waiting command whose deadline has passed.  It writes
\* no command_transitions row.
expire_stale(late) ==
    /\ cmd' = [c \in Commands |->
                 IF c \in late /\ cmd[c].status \in {"requested", "approved"}
                 THEN [cmd[c] EXCEPT !.status = "expired"]
                 ELSE cmd[c]]
    /\ UNCHANGED trail
=============================================================================
