------------------------- MODULE CommandPathProofs -------------------------
(***************************************************************************)
(* Proofs about CommandPath, for any set of commands and people and any    *)
(* assignment of roles: the invariant IInv is inductive, and the safety    *)
(* properties follow from it.  A step is taken apart by what it does to    *)
(* the command table: the lemmas of the first part say what each operation *)
(* of the store changes.                                                   *)
(***************************************************************************)
EXTENDS CommandPath, FiniteSetTheorems, TLAPS

USE PeopleAssumption, PathAssumption

----------------------------------------------------------------------------
(* The policy.                                                             *)

\* The role an authority question answers with is one the caller holds.
LEMMA AuthorisedRoleHeld ==
    ASSUME NEW kind, NEW sc, NEW roles \in SUBSET Roles,
           authorised_role(kind, sc, roles) # NoOne
    PROVE  authorised_role(kind, sc, roles) \in roles
<1> DEFINE mine == roles \cap RolesFor(kind, sc)
<1>1. mine \subseteq Roles /\ mine # {}
  BY DEF authorised_role
<1>2. \E r \in mine : \A s \in mine : RoleOrder[r] <= RoleOrder[s]
  <2>1. CASE "auditor" \in mine
    BY <2>1, <1>1 DEF Roles, RoleOrder
  <2>2. CASE "auditor" \notin mine /\ "demo_operator" \in mine
    BY <2>2, <1>1 DEF Roles, RoleOrder
  <2>3. CASE mine \cap {"auditor", "demo_operator"} = {} /\ "dispatcher" \in mine
    BY <2>3, <1>1 DEF Roles, RoleOrder
  <2>4. CASE /\ mine \cap {"auditor", "demo_operator", "dispatcher"} = {}
             /\ "field_responder" \in mine
    BY <2>4, <1>1 DEF Roles, RoleOrder
  <2>5. CASE /\ mine \subseteq {"incident_commander", "operator", "supervisor"}
             /\ "incident_commander" \in mine
    BY <2>5, <1>1 DEF Roles, RoleOrder
  <2>6. CASE mine \subseteq {"operator", "supervisor"}
    BY <2>6, <1>1 DEF Roles, RoleOrder
  <2> QED
    <3>1. \A r \in mine : r \in {"operator", "supervisor", "dispatcher",
             "incident_commander", "field_responder", "auditor", "demo_operator"}
      BY <1>1 DEF Roles
    <3> HIDE DEF mine
    <3> QED BY <3>1, <2>1, <2>2, <2>3, <2>4, <2>5, <2>6
<1>3. authorised_role(kind, sc, roles) \in mine
  BY <1>1, <1>2 DEF authorised_role
<1> QED BY <1>3

\* Any answer a caller of the policy gets is a verdict.
LEMMA AnswersAreVerdicts ==
    ASSUME NEW phase, NEW c, NEW approver, NEW role, NEW actor, NEW status,
           NEW verdict \in Answers(phase, c, approver, role, actor, status)
    PROVE  verdict \in Verdicts
<1>1. \A rank : Refusal(rank) \in Verdicts
  BY DEF Refusal, Verdicts, ErrorCodes
<1>2. Permit \in Verdicts /\ PolicyUnavailable \in Verdicts
  BY DEF Permit, PolicyUnavailable, Verdicts, ErrorCodes
<1>3. \A ctx : decision(ctx) \in Verdicts
  BY <1>1, <1>2 DEF decision
<1> QED BY <1>2, <1>3 DEF Answers

----------------------------------------------------------------------------
(* The store.                                                              *)

LEMMA ApprovalCount ==
    Cardinality({d \in Commands : cmd[d].approved_at > 0}) \in Nat
<1>1. IsFiniteSet({d \in Commands : cmd[d].approved_at > 0})
  BY CommandsAssumption, FS_Subset
<1> QED BY <1>1, FS_CardinalityType

\* Each row the callers hand to the store is a row, and names the requester
\* the command already had.
LEMMA RowsTyped ==
    ASSUME StoreTypeOK, NEW c \in Commands, NEW by \in Actors, NEW role \in Roles,
           NEW code \in ErrorCodes, NEW retryable \in BOOLEAN
    PROVE  /\ cmd[c] \in Rows
           /\ ApprovedRow(c, by, role) \in Rows
           /\ ErrorRow(c, code, retryable) \in Rows
           /\ DeniedRow(c, code, retryable) \in Rows
<1>1. cmd[c] \in Rows
  BY DEF StoreTypeOK
<1>2. ApprovedRow(c, by, role) \in Rows
  <2> DEFINE rank == 1 + Cardinality({d \in Commands : cmd[d].approved_at > 0})
  <2>1. rank \in Nat
    BY ApprovalCount
  <2>2. ApprovedRow(c, by, role) =
          [cmd[c] EXCEPT !.approved_by = by, !.approved_by_role = role,
                         !.approved_at = rank, !.policy_decision = "approved",
                         !.error_code = "none", !.error_retryable = FALSE]
    BY DEF ApprovedRow
  <2>3. PICK row, n : row = cmd[c] /\ n = rank
    OBVIOUS
  <2>4. row \in Rows /\ n \in Nat
    BY <1>1, <2>1, <2>3
  <2>5. [row EXCEPT !.approved_by = by, !.approved_by_role = role,
                    !.approved_at = n, !.policy_decision = "approved",
                    !.error_code = "none", !.error_retryable = FALSE] \in Rows
    BY <2>4 DEF Rows, ErrorCodes
  <2> HIDE DEF rank
  <2> QED BY <2>2, <2>3, <2>5
<1>3. ErrorRow(c, code, retryable) \in Rows
  BY <1>1 DEF ErrorRow, Rows
<1> QED BY <1>1, <1>2, <1>3 DEF DeniedRow, Rows

LEMMA ErrorRowKeeps ==
    ASSUME StoreTypeOK, NEW c \in Commands,
           NEW code \in ErrorCodes, NEW retryable \in BOOLEAN
    PROVE  LET row == ErrorRow(c, code, retryable) IN
           /\ row \in Rows /\ row.status = cmd[c].status
           /\ row.requested_by = cmd[c].requested_by
           /\ row.approved_by = cmd[c].approved_by
           /\ row.approved_by_role = cmd[c].approved_by_role
           /\ row.policy_decision = cmd[c].policy_decision
           /\ row.error_code = code
<1>1. cmd[c] \in Rows
  BY DEF StoreTypeOK
<1> QED BY <1>1 DEF ErrorRow, Rows

LEMMA DeniedRowKeeps ==
    ASSUME StoreTypeOK, NEW c \in Commands,
           NEW code \in ErrorCodes, NEW retryable \in BOOLEAN
    PROVE  LET row == DeniedRow(c, code, retryable) IN
           /\ row \in Rows /\ row.requested_by = cmd[c].requested_by
           /\ row.approved_by = cmd[c].approved_by
           /\ row.approved_by_role = cmd[c].approved_by_role
           /\ row.policy_decision = "denied"
<1> DEFINE row == ErrorRow(c, code, retryable)
<1>1. /\ row \in Rows /\ row.requested_by = cmd[c].requested_by
      /\ row.approved_by = cmd[c].approved_by
      /\ row.approved_by_role = cmd[c].approved_by_role
  BY ErrorRowKeeps
<1>2. DeniedRow(c, code, retryable) = [row EXCEPT !.policy_decision = "denied"]
  BY DEF DeniedRow
<1> HIDE DEF row
<1> QED BY <1>1, <1>2 DEF Rows

\* What a locked transition does.
LEMMA TransitionEffect ==
    ASSUME StoreTypeOK, NEW c \in Commands, NEW to \in Statuses, NEW by \in Actors,
           NEW row \in Rows, transition_command(c, to, by, row)
    PROVE  /\ StoreTypeOK'
           /\ cmd'[c] = [row EXCEPT !.status = to]
           /\ trail'[c] = trail[c] \cup {[from |-> cmd[c].status, to |-> to, by |-> by]}
           /\ \A d \in Commands : d # c => cmd'[d] = cmd[d] /\ trail'[d] = trail[d]
           /\ to \in ALLOWED_TRANSITIONS[cmd[c].status]
<1>1. [row EXCEPT !.status = to] \in Rows
  BY DEF Rows
<1>2. [from |-> cmd[c].status, to |-> to, by |-> by] \in Moves
  BY DEF StoreTypeOK, Rows, Moves
<1> QED BY <1>1, <1>2 DEF StoreTypeOK, transition_command, CanMove

\* What every operation of the store keeps of a row: its trail grows, who asked
\* stays, its status moves along ALLOWED_TRANSITIONS.
StoreKept ==
    \A d \in Commands :
        /\ trail[d] \subseteq trail'[d]
        /\ cmd[d].status # "absent" => cmd'[d].requested_by = cmd[d].requested_by
        /\ \/ cmd'[d].status = cmd[d].status
           \/ cmd[d].status = "absent" /\ cmd'[d].status = "requested"
           \/ cmd'[d].status \in ALLOWED_TRANSITIONS[cmd[d].status]

LEMMA KeptUntouched == UNCHANGED storeVars => StoreKept
BY DEF storeVars, StoreKept

LEMMA KeptByTransition ==
    ASSUME StoreTypeOK, NEW c \in Commands, NEW to \in Statuses, NEW by \in Actors,
           NEW row \in Rows, transition_command(c, to, by, row),
           row.requested_by = cmd[c].requested_by
    PROVE  StoreKept
<1>1. /\ cmd'[c] = [row EXCEPT !.status = to]
      /\ trail[c] \subseteq trail'[c]
      /\ \A d \in Commands : d # c => cmd'[d] = cmd[d] /\ trail'[d] = trail[d]
      /\ to \in ALLOWED_TRANSITIONS[cmd[c].status]
  <2>1. /\ cmd'[c] = [row EXCEPT !.status = to]
        /\ trail'[c] = trail[c] \cup {[from |-> cmd[c].status, to |-> to, by |-> by]}
        /\ \A d \in Commands : d # c => cmd'[d] = cmd[d] /\ trail'[d] = trail[d]
        /\ to \in ALLOWED_TRANSITIONS[cmd[c].status]
    BY TransitionEffect
  <2> QED BY <2>1
<1>2. cmd'[c].status = to /\ cmd'[c].requested_by = cmd[c].requested_by
  BY <1>1 DEF Rows
<1> QED BY <1>1, <1>2 DEF StoreKept

\* Requests, approvals and the rest of the people's side survive an operation
\* of the store that opens no handler.
LEMMA PeopleKept ==
    ASSUME TypeOK, TypeOK', PeopleSound, StoreKept,
           \A p \in People : desk'[p] = desk[p] \/ desk'[p] = IdleDesk
    PROVE  PeopleSound'
<1>1. ASSUME NEW p \in People, desk'[p] = desk[p], desk[p].step # "idle"
      PROVE  /\ desk[p].cmd \in WithStatus(Statuses \ {"absent"})'
             /\ cmd'[desk[p].cmd].requested_by = cmd[desk[p].cmd].requested_by
  <2>1. /\ desk[p].cmd \in Commands /\ cmd[desk[p].cmd].status # "absent"
    BY <1>1 DEF PeopleSound, DeskInOrder, WithStatus
  <2>2. "absent" \notin ALLOWED_TRANSITIONS[cmd[desk[p].cmd].status]
    BY <2>1 DEF TypeOK, StoreTypeOK, Rows, ALLOWED_TRANSITIONS, Statuses
  <2>3. cmd'[desk[p].cmd].status # "absent"
    BY <2>1, <2>2 DEF StoreKept
  <2>4. cmd'[desk[p].cmd] \in Rows
    BY <2>1 DEF TypeOK, StoreTypeOK
  <2>5. cmd'[desk[p].cmd].status \in Statuses
    BY <2>4 DEF Rows
  <2> QED BY <2>1, <2>3, <2>5 DEF StoreKept, WithStatus
<1>2. ASSUME NEW p \in People, desk'[p].step # "idle"
      PROVE  desk'[p] = desk[p]
  BY <1>2 DEF IdleDesk
<1>3. DeskInOrder'
  BY <1>1, <1>2 DEF PeopleSound, DeskInOrder
<1>4. ReviewerIsAnother'
  BY <1>1, <1>2 DEF PeopleSound, ReviewerIsAnother
<1> QED BY <1>3, <1>4 DEF PeopleSound

\* Recorded outcomes, and what the verifier has in hand, survive a step of
\* anybody else.
LEMMA OutcomesKept ==
    ASSUME TypeOK, OutcomeSound, StoreKept, UNCHANGED <<ver, outcomes>>,
           \A d \in Commands : field[d] = "applied" => field'[d] = "applied"
    PROVE  OutcomeSound'
<1>1. \A d \in Commands : cmd[d].status \in Statuses
  BY DEF TypeOK, StoreTypeOK, Rows
<1>2. \A d \in Commands : cmd[d].status = "rolled_back" => cmd'[d].status = "rolled_back"
  BY <1>1 DEF StoreKept, ALLOWED_TRANSITIONS
<1>3. \A d \in Commands : cmd[d].status \in VERIFIABLE_STATUSES =>
                            cmd'[d].status \in VERIFIABLE_STATUSES
  BY <1>1 DEF StoreKept, ALLOWED_TRANSITIONS, VERIFIABLE_STATUSES
<1>4. VerifierTruthful'
  BY <1>2 DEF OutcomeSound, VerifierTruthful, StoreKept
<1>5. OutcomeMatchesRecord'
  BY <1>2, <1>3 DEF OutcomeSound, OutcomeMatchesRecord, StoreKept
<1> QED BY <1>4, <1>5 DEF OutcomeSound

\* A move that touches no command the executor or the field has to do with.
Aside ==
    \A d \in Commands :
        \/ cmd'[d].status = cmd[d].status
        \/ cmd[d].status \notin Acting /\ cmd'[d].status \notin Acting
        \/ cmd[d].status = "executed" /\ cmd'[d].status = "rolled_back"

LEMMA EffectKeptAside ==
    ASSUME TypeOK, EffectSound, Aside, UNCHANGED <<exec, field>>
    PROVE  EffectSound'
<1>1. EffectFitsStatus'
  BY DEF EffectSound, EffectFitsStatus, Aside, Acting
<1>2. JobInHand'
  BY DEF EffectSound, JobInHand, Aside, Acting
<1>3. ExecutingIsInHand'
  BY DEF EffectSound, ExecutingIsInHand, Aside, Acting, WithStatus
<1> QED BY <1>1, <1>2, <1>3 DEF EffectSound

\* What a transition's caller must put in the row for the record to stay sound.
LEMMA RecordKeptByTransition ==
    ASSUME StoreTypeOK, RecordSound,
           NEW c \in Commands, NEW to \in Statuses, NEW by \in Actors,
           NEW row \in Rows, transition_command(c, to, by, row),
           row.requested_by = cmd[c].requested_by,
           to = "executing" => by = EXECUTOR,
           IF to = "approved"
           THEN /\ row.approved_by \in People \ {cmd[c].requested_by}
                /\ row.approved_by_role \in RolesOf[row.approved_by]
                /\ row.policy_decision = "approved" /\ row.error_code = "none"
           ELSE /\ row.approved_by = cmd[c].approved_by
                /\ row.approved_by_role = cmd[c].approved_by_role
                /\ to \in Acting => row.policy_decision = cmd[c].policy_decision
                /\ row.error_code # "none" =>
                      \/ to = "failed"
                      \/ row.error_code = cmd[c].error_code
                         /\ row.policy_decision = cmd[c].policy_decision
                      \/ row.policy_decision = "denied"
    PROVE  RecordSound'
<1>1. /\ cmd'[c] = [row EXCEPT !.status = to]
      /\ trail'[c] = trail[c] \cup {[from |-> cmd[c].status, to |-> to, by |-> by]}
      /\ \A d \in Commands : d # c => cmd'[d] = cmd[d] /\ trail'[d] = trail[d]
      /\ to \in ALLOWED_TRANSITIONS[cmd[c].status]
  BY TransitionEffect
<1>2. /\ cmd'[c].status = to /\ cmd'[c].requested_by = cmd[c].requested_by
      /\ cmd'[c].approved_by = row.approved_by
      /\ cmd'[c].approved_by_role = row.approved_by_role
      /\ cmd'[c].policy_decision = row.policy_decision
      /\ cmd'[c].error_code = row.error_code
  BY <1>1 DEF Rows
<1>3. cmd[c].status \in Statuses
  BY DEF StoreTypeOK, Rows
<1>4. /\ cmd[c].status # "absent"
      /\ to \in Acting /\ to # "executing" => cmd[c].status \in Acting
      /\ to = "executing" => cmd[c].status = "approved"
      /\ cmd[c].status # "failed"
  BY <1>1, <1>3 DEF ALLOWED_TRANSITIONS, Acting
<1>5. ApprovedByAnother'
  <2> SUFFICES ASSUME NEW d \in Commands
               PROVE  /\ cmd'[d].status # "absent" => cmd'[d].requested_by \in People
                      /\ cmd'[d].status \in {"approved"} \cup Acting =>
                            /\ cmd'[d].approved_by \in People \ {cmd'[d].requested_by}
                            /\ cmd'[d].approved_by_role \in RolesOf[cmd'[d].approved_by]
    BY DEF ApprovedByAnother
  <2>1. CASE d # c
    BY <1>1, <2>1 DEF RecordSound, ApprovedByAnother
  <2>2. CASE d = c /\ to = "approved"
    BY <1>2, <1>4, <2>2 DEF RecordSound, ApprovedByAnother
  <2>3. CASE d = c /\ to # "approved"
    BY <1>2, <1>4, <2>3 DEF RecordSound, ApprovedByAnother, Acting
  <2> QED BY <2>1, <2>2, <2>3
<1>6. OnlyExecutorDispatches'
  <2>1. \A m \in trail'[c] : m.to = "executing" => m.by = EXECUTOR
    BY <1>1 DEF RecordSound, OnlyExecutorDispatches
  <2>2. cmd'[c].status \in Acting => \E m \in trail'[c] : m.to = "executing"
    <3>1. CASE to = "executing"
      <4>1. /\ [from |-> cmd[c].status, to |-> to, by |-> by] \in trail'[c]
            /\ [from |-> cmd[c].status, to |-> to, by |-> by].to = "executing"
        BY <3>1, <1>1
      <4> QED BY <4>1
    <3>2. CASE to # "executing"
      BY <3>2, <1>1, <1>2, <1>4 DEF RecordSound, OnlyExecutorDispatches
    <3> QED BY <3>1, <3>2
  <2> QED BY <1>1, <2>1, <2>2 DEF RecordSound, OnlyExecutorDispatches
<1>7. ErrorAndDecisionAgree'
  <2> SUFFICES ASSUME NEW d \in Commands
               PROVE  /\ cmd'[d].error_code # "none" =>
                            \/ cmd'[d].status = "failed"
                            \/ cmd'[d].policy_decision \in {"denied", "policy_unavailable"}
                      /\ cmd'[d].status \in {"approved"} \cup Acting =>
                            cmd'[d].policy_decision = "approved"
    BY DEF ErrorAndDecisionAgree
  <2>1. CASE d # c
    BY <1>1, <2>1 DEF RecordSound, ErrorAndDecisionAgree
  <2>2. CASE d = c /\ to = "approved"
    BY <1>2, <2>2
  <2>3. CASE d = c /\ to # "approved"
    BY <1>2, <1>4, <2>3 DEF RecordSound, ErrorAndDecisionAgree, Acting
  <2> QED BY <2>1, <2>2, <2>3
<1> QED BY <1>5, <1>6, <1>7 DEF RecordSound

\* A review, a refusal, an expiry or a rollback by anybody.
LEMMA MoveAside ==
    ASSUME IInv, NEW c \in Commands,
           NEW to \in {"approved", "denied", "expired", "rolled_back"},
           NEW by \in Actors, NEW row \in Rows, transition_command(c, to, by, row),
           row.requested_by = cmd[c].requested_by,
           IF to = "approved"
           THEN /\ row.approved_by \in People \ {cmd[c].requested_by}
                /\ row.approved_by_role \in RolesOf[row.approved_by]
                /\ row.policy_decision = "approved" /\ row.error_code = "none"
           ELSE /\ row.approved_by = cmd[c].approved_by
                /\ row.approved_by_role = cmd[c].approved_by_role
                /\ \/ /\ row.policy_decision = cmd[c].policy_decision
                      /\ row.error_code = cmd[c].error_code
                   \/ to # "rolled_back" /\ row.policy_decision = "denied"
    PROVE  StoreTypeOK' /\ StoreKept /\ Aside /\ RecordSound'
<1>1. to \in Statuses /\ StoreTypeOK /\ RecordSound
  BY DEF Statuses, IInv, TypeOK
<1>2. StoreTypeOK' /\ StoreKept
  BY <1>1, TransitionEffect, KeptByTransition
<1>3. /\ cmd'[c] = [row EXCEPT !.status = to]
      /\ \A d \in Commands : d # c => cmd'[d] = cmd[d]
      /\ to \in ALLOWED_TRANSITIONS[cmd[c].status]
  BY <1>1, TransitionEffect
<1>4. cmd'[c].status = to /\ cmd[c].status \in Statuses
  BY <1>1, <1>3 DEF StoreTypeOK, Rows
<1>5. Aside
  BY <1>3, <1>4 DEF Aside, Acting, ALLOWED_TRANSITIONS
<1>6. RecordSound'
  <2>1. CASE to = "approved"
    BY <2>1, <1>1, RecordKeptByTransition
  <2>2. CASE to # "approved"
    <3>1. /\ to # "executing" /\ row.approved_by = cmd[c].approved_by
          /\ row.approved_by_role = cmd[c].approved_by_role
          /\ to \in Acting => row.policy_decision = cmd[c].policy_decision
          /\ \/ row.error_code = cmd[c].error_code
                /\ row.policy_decision = cmd[c].policy_decision
             \/ row.policy_decision = "denied"
      BY <2>2 DEF Acting
    <3> QED BY <2>2, <3>1, <1>1, RecordKeptByTransition
  <2> QED BY <2>1, <2>2
<1> QED BY <1>2, <1>5, <1>6

LEMMA RecordKeptUntouched == RecordSound /\ UNCHANGED storeVars => RecordSound'
BY DEF RecordSound, ApprovedByAnother, OnlyExecutorDispatches,
       ErrorAndDecisionAgree, storeVars

----------------------------------------------------------------------------
(* People.                                                                 *)

LEMMA RequestStep ==
    ASSUME IInv, NEW p \in People, NEW c \in Commands, RequestCommand(p, c)
    PROVE  IInv'
<1>1. PICK role \in Roles : create_command(c, p, role)
  <2>1. PICK critical \in BOOLEAN :
           /\ Authority("request", c, p, critical) # NoOne
           /\ create_command(c, p, Authority("request", c, p, critical))
    BY DEF RequestCommand
  <2>2. Authority("request", c, p, critical) \in Roles
    BY <2>1, AuthorisedRoleHeld DEF Authority
  <2> QED BY <2>1, <2>2
<1> DEFINE row == [NoRow EXCEPT !.status = "requested", !.requested_by = p,
                                !.requested_by_role = role]
           move == [from |-> "absent", to |-> "requested", by |-> p]
<1>2. /\ row \in Rows /\ row.status = "requested" /\ row.requested_by = p
      /\ row.error_code = "none" /\ move \in Moves /\ move.to = "requested"
  BY DEF NoRow, Rows, Statuses, Actors, ErrorCodes, Moves
<1>3. /\ cmd[c].status = "absent"
      /\ cmd' = [cmd EXCEPT ![c] = row]
      /\ trail' = [trail EXCEPT ![c] = @ \cup {move}]
      /\ UNCHANGED <<overdue, desk, exec, held, field, ver, outcomes>>
  BY <1>1 DEF create_command, RequestCommand, envVars
<1> HIDE DEF row, move
<1>4. TypeOK'
  BY <1>2, <1>3 DEF IInv, TypeOK, StoreTypeOK
<1>5. /\ cmd'[c] = row /\ trail'[c] = trail[c] \cup {move}
      /\ \A d \in Commands : d # c => cmd'[d] = cmd[d] /\ trail'[d] = trail[d]
  BY <1>3 DEF IInv, TypeOK, StoreTypeOK
<1>6. StoreKept /\ Aside
  BY <1>2, <1>3, <1>5 DEF StoreKept, Aside, Acting
<1>7. RecordSound'
  <2>1. ApprovedByAnother'
    BY <1>2, <1>5 DEF IInv, RecordSound, ApprovedByAnother, Acting
  <2>2. OnlyExecutorDispatches'
    BY <1>2, <1>5 DEF IInv, RecordSound, OnlyExecutorDispatches, Acting
  <2>3. ErrorAndDecisionAgree'
    BY <1>2, <1>5 DEF IInv, RecordSound, ErrorAndDecisionAgree, Acting
  <2> QED BY <2>1, <2>2, <2>3 DEF RecordSound
<1>8. PeopleSound'
  BY <1>3, <1>4, <1>6, PeopleKept DEF IInv
<1>9. EffectSound'
  BY <1>3, <1>6, EffectKeptAside DEF IInv
<1>10. OutcomeSound'
  BY <1>3, <1>6, OutcomesKept DEF IInv
<1> QED BY <1>4, <1>7, <1>8, <1>9, <1>10 DEF IInv

\* What holds of the table and of the other processes survives a step that
\* only moves a person's desk.
LEMMA DeskStep ==
    ASSUME IInv, UNCHANGED <<storeVars, overdue, exec, held, field, ver, outcomes>>,
           desk' \in [People -> Desks], PeopleSound'
    PROVE  IInv'
<1>1. StoreKept /\ RecordSound'
  BY KeptUntouched, RecordKeptUntouched DEF IInv
<1>2. TypeOK'
  BY DEF IInv, TypeOK, StoreTypeOK, storeVars
<1>3. Aside
  BY DEF Aside, storeVars
<1>4. EffectSound'
  BY <1>3, EffectKeptAside DEF IInv
<1>5. OutcomeSound'
  BY <1>1, OutcomesKept DEF IInv
<1> QED BY <1>1, <1>2, <1>4, <1>5 DEF IInv

LEMMA OpenStep ==
    ASSUME IInv, NEW p \in People, NEW c \in Commands,
           OpenReview(p, c) \/ OpenDenial(p, c) \/ OpenOverride(p, c)
    PROVE  IInv'
<1>1. cmd[c].status # "absent" /\ cmd[c].status \in Statuses
  BY DEF OpenReview, OpenDenial, OpenOverride, IInv, TypeOK, StoreTypeOK, Rows
<1>2. PICK kind \in {"review", "override"}, critical \in BOOLEAN,
              step \in {"reviewing", "denying", "overriding"} :
         /\ step = "reviewing" => cmd[c].requested_by # p
         /\ OpenDesk(p, step, c, Authority(kind, c, p, critical))
  <2>1. CASE OpenReview(p, c)
    <3>1. PICK critical \in BOOLEAN :
             OpenDesk(p, "reviewing", c, Authority("review", c, p, critical))
      BY <2>1 DEF OpenReview
    <3> QED BY <2>1, <3>1 DEF OpenReview
  <2>2. CASE OpenDenial(p, c)
    <3>1. PICK critical \in BOOLEAN :
             OpenDesk(p, "denying", c, Authority("review", c, p, critical))
      BY <2>2 DEF OpenDenial
    <3> QED BY <2>2, <3>1 DEF OpenDenial
  <2>3. CASE OpenOverride(p, c)
    <3>1. PICK critical \in BOOLEAN :
             OpenDesk(p, "overriding", c, Authority("override", c, p, critical))
      BY <2>3 DEF OpenOverride
    <3> QED BY <2>3, <3>1 DEF OpenOverride
  <2> QED BY <2>1, <2>2, <2>3
<1> DEFINE role == Authority(kind, c, p, critical)
<1>3. role \in RolesOf[p] /\ role \in Roles
  <2>1. role # NoOne
    BY <1>2 DEF OpenDesk
  <2>2. RolesOf[p] \in SUBSET Roles
    OBVIOUS
  <2> QED BY <2>1, <2>2, AuthorisedRoleHeld DEF Authority
<1> HIDE DEF role
<1> DEFINE opened == [IdleDesk EXCEPT !.step = step, !.cmd = c, !.role = role]
<1>4. /\ opened \in Desks /\ opened.cmd = c /\ opened.role = role /\ opened.step = step
  BY <1>3 DEF IdleDesk, Desks, Verdicts, NoVerdict, ErrorCodes
<1>5. /\ desk' = [desk EXCEPT ![p] = opened]
      /\ UNCHANGED <<storeVars, overdue, exec, held, field, ver, outcomes>>
  BY <1>2 DEF OpenDesk, role
<1> HIDE DEF opened
<1>6. desk' \in [People -> Desks]
  BY <1>4, <1>5 DEF IInv, TypeOK
<1>7. desk'[p] = opened /\ \A q \in People : q # p => desk'[q] = desk[q]
  BY <1>5 DEF IInv, TypeOK
<1>8. DeskInOrder'
  BY <1>1, <1>3, <1>4, <1>5, <1>7 DEF IInv, PeopleSound, DeskInOrder, WithStatus, storeVars
<1>9. ReviewerIsAnother'
  BY <1>2, <1>4, <1>5, <1>7 DEF IInv, PeopleSound, ReviewerIsAnother, storeVars
<1> QED BY <1>5, <1>6, <1>8, <1>9, DeskStep DEF PeopleSound

LEMMA EvaluateStep ==
    ASSUME IInv, NEW p \in People, EvaluateReview(p)
    PROVE  IInv'
<1>1. PICK verdict \in Verdicts :
         /\ desk[p].step = "reviewing"
         /\ desk' = [desk EXCEPT ![p] = [desk[p] EXCEPT !.step = "decided",
                                                        !.verdict = verdict]]
         /\ UNCHANGED <<storeVars, overdue, exec, held, field, ver, outcomes>>
  BY AnswersAreVerdicts DEF EvaluateReview
<1> DEFINE decided == [desk[p] EXCEPT !.step = "decided", !.verdict = verdict]
<1>2. /\ decided \in Desks /\ decided.cmd = desk[p].cmd
      /\ decided.role = desk[p].role
  <2>1. desk[p] \in Desks
    BY DEF IInv, TypeOK
  <2> QED BY <1>1, <2>1 DEF Desks
<1>3. desk' = [desk EXCEPT ![p] = decided]
  BY <1>1
<1> HIDE DEF decided
<1>4. desk' \in [People -> Desks]
  BY <1>2, <1>3 DEF IInv, TypeOK
<1>5. desk'[p] = decided /\ \A q \in People : q # p => desk'[q] = desk[q]
  BY <1>3 DEF IInv, TypeOK
<1>6. DeskInOrder'
  BY <1>1, <1>2, <1>5 DEF IInv, PeopleSound, DeskInOrder, WithStatus, storeVars
<1>7. ReviewerIsAnother'
  BY <1>1, <1>2, <1>5 DEF IInv, PeopleSound, ReviewerIsAnother, storeVars
<1> QED BY <1>1, <1>4, <1>6, <1>7, DeskStep DEF PeopleSound

\* A person's handler writes, or not, and closes.
LEMMA CloseStep ==
    ASSUME IInv, NEW p \in People, CloseDesk(p),
           StoreTypeOK', StoreKept, Aside, RecordSound'
    PROVE  IInv'
<1>1. /\ desk' = [desk EXCEPT ![p] = IdleDesk]
      /\ UNCHANGED <<overdue, exec, held, field, ver, outcomes>>
  BY DEF CloseDesk
<1>2. IdleDesk \in Desks
  BY DEF IdleDesk, Desks, Verdicts, NoVerdict, ErrorCodes
<1>3. TypeOK'
  BY <1>1, <1>2 DEF IInv, TypeOK
<1>4. \A q \in People : desk'[q] = desk[q] \/ desk'[q] = IdleDesk
  BY <1>1 DEF IInv, TypeOK
<1>5. PeopleSound'
  BY <1>3, <1>4, PeopleKept DEF IInv
<1>6. EffectSound'
  BY <1>1, EffectKeptAside DEF IInv
<1>7. OutcomeSound'
  BY <1>1, OutcomesKept DEF IInv
<1> QED BY <1>3, <1>5, <1>6, <1>7 DEF IInv

LEMMA CloseUnwritten ==
    ASSUME IInv, NEW p \in People, CloseDesk(p), UNCHANGED storeVars
    PROVE  IInv'
<1>1. StoreTypeOK' /\ Aside
  BY DEF IInv, TypeOK, StoreTypeOK, Aside, storeVars
<1> QED BY <1>1, KeptUntouched, RecordKeptUntouched, CloseStep DEF IInv

LEMMA ReviewStep ==
    ASSUME IInv, NEW p \in People, ApplyReview(p)
    PROVE  IInv'
<1> DEFINE c == desk[p].cmd
           to == desk[p].verdict.decision
           code == desk[p].verdict.error_code
<1>1. /\ desk[p].step = "decided" /\ CloseDesk(p)
      /\ c \in Commands /\ code \in ErrorCodes /\ p \in Actors
      /\ desk[p].role \in RolesOf[p] /\ desk[p].role \in Roles
      /\ cmd[c].requested_by # p
      /\ StoreTypeOK
  BY DEF ApplyReview, IInv, PeopleSound, DeskInOrder, ReviewerIsAnother, WithStatus,
         TypeOK, Desks, Verdicts, Actors
<1>2. \/ to = "policy_unavailable" /\ apply_policy_unavailable(c)
      \/ to = "approved"
         /\ transition_command(c, to, p, ApprovedRow(c, p, desk[p].role))
      \/ to \in {"denied", "expired"}
         /\ transition_command(c, to, p, DeniedRow(c, code, code = "stale_evidence"))
      \/ UNCHANGED storeVars
  BY DEF ApplyReview
<1> HIDE DEF c, to, code
<1>3. ApprovedRow(c, p, desk[p].role) \in Rows
  BY <1>1, RowsTyped
<1>4. CASE to = "policy_unavailable" /\ apply_policy_unavailable(c)
  <2> DEFINE row == [ErrorRow(c, "internal", TRUE) EXCEPT
                        !.policy_decision = "policy_unavailable"]
  <2>1. /\ row \in Rows /\ row.status = cmd[c].status
        /\ row.requested_by = cmd[c].requested_by
        /\ row.policy_decision = "policy_unavailable"
    <3> DEFINE failing == ErrorRow(c, "internal", TRUE)
    <3>1. /\ failing \in Rows /\ failing.status = cmd[c].status
          /\ failing.requested_by = cmd[c].requested_by
      BY <1>1, ErrorRowKeeps DEF ErrorCodes
    <3>2. row = [failing EXCEPT !.policy_decision = "policy_unavailable"]
      OBVIOUS
    <3> HIDE DEF row, failing
    <3> QED BY <3>1, <3>2 DEF Rows
  <2>2. /\ cmd[c].status = "requested"
        /\ cmd' = [cmd EXCEPT ![c] = row] /\ trail' = trail
    BY <1>4 DEF apply_policy_unavailable
  <2> HIDE DEF row
  <2>3. cmd'[c] = row /\ \A d \in Commands : d # c => cmd'[d] = cmd[d]
    BY <1>1, <2>2 DEF StoreTypeOK
  <2>4. StoreTypeOK' /\ StoreKept /\ Aside
    BY <1>1, <2>1, <2>2, <2>3 DEF StoreTypeOK, StoreKept, Aside
  <2>5. ApprovedByAnother'
    BY <2>1, <2>2, <2>3 DEF IInv, RecordSound, ApprovedByAnother, Acting
  <2>6. OnlyExecutorDispatches'
    BY <2>1, <2>2, <2>3 DEF IInv, RecordSound, OnlyExecutorDispatches
  <2>7. ErrorAndDecisionAgree'
    BY <2>1, <2>2, <2>3 DEF IInv, RecordSound, ErrorAndDecisionAgree, Acting
  <2> QED BY <1>1, <2>4, <2>5, <2>6, <2>7, CloseStep DEF RecordSound
<1>5. CASE /\ to = "approved"
           /\ transition_command(c, "approved", p, ApprovedRow(c, p, desk[p].role))
  <2> DEFINE row == ApprovedRow(c, p, desk[p].role)
  <2>1. /\ row \in Rows /\ row.requested_by = cmd[c].requested_by
        /\ row.approved_by \in People \ {cmd[c].requested_by}
        /\ row.approved_by_role \in RolesOf[row.approved_by]
        /\ row.policy_decision = "approved" /\ row.error_code = "none"
    BY <1>1, <1>3 DEF ApprovedRow, StoreTypeOK, Rows
  <2>2. transition_command(c, "approved", p, row)
    BY <1>5
  <2> HIDE DEF row
  <2>3. StoreTypeOK' /\ StoreKept /\ Aside /\ RecordSound'
    BY <1>1, <2>1, <2>2, MoveAside
  <2> QED BY <1>1, <2>3, CloseStep
<1>6. CASE /\ to \in {"denied", "expired"}
           /\ transition_command(c, to, p, DeniedRow(c, code, code = "stale_evidence"))
  <2> DEFINE row == DeniedRow(c, code, code = "stale_evidence")
  <2>1. /\ row \in Rows /\ row.requested_by = cmd[c].requested_by
        /\ row.approved_by = cmd[c].approved_by
        /\ row.approved_by_role = cmd[c].approved_by_role
        /\ row.policy_decision = "denied"
    BY <1>1, DeniedRowKeeps
  <2>2. transition_command(c, to, p, row) /\ to \in {"denied", "expired"}
    BY <1>6
  <2> HIDE DEF row
  <2>3. StoreTypeOK' /\ StoreKept /\ Aside /\ RecordSound'
    BY <1>1, <2>1, <2>2, MoveAside
  <2> QED BY <1>1, <2>3, CloseStep
<1>7. CASE UNCHANGED storeVars
  BY <1>1, <1>7, CloseUnwritten
<1> QED BY <1>2, <1>4, <1>5, <1>6, <1>7

LEMMA DenialStep ==
    ASSUME IInv, NEW p \in People, ApplyDenial(p)
    PROVE  IInv'
<1> DEFINE c == desk[p].cmd
           row == DeniedRow(c, "policy_denied", FALSE)
<1>1. /\ CloseDesk(p) /\ c \in Commands /\ p \in Actors /\ StoreTypeOK
  BY DEF ApplyDenial, IInv, PeopleSound, DeskInOrder, WithStatus, TypeOK, Actors
<1>2. transition_command(c, "denied", p, row) \/ UNCHANGED storeVars
  BY DEF ApplyDenial
<1>3. /\ row \in Rows /\ row.requested_by = cmd[c].requested_by
      /\ row.approved_by = cmd[c].approved_by
      /\ row.approved_by_role = cmd[c].approved_by_role
      /\ row.policy_decision = "denied"
  BY <1>1, DeniedRowKeeps DEF ErrorCodes
<1> HIDE DEF c, row
<1>4. CASE transition_command(c, "denied", p, row)
  <2>1. StoreTypeOK' /\ StoreKept /\ Aside /\ RecordSound'
    BY <1>1, <1>3, <1>4, MoveAside
  <2> QED BY <1>1, <2>1, CloseStep
<1>5. CASE UNCHANGED storeVars
  BY <1>1, <1>5, CloseUnwritten
<1> QED BY <1>2, <1>4, <1>5

LEMMA OverrideStep ==
    ASSUME IInv, NEW p \in People, ApplyOverride(p)
    PROVE  IInv'
<1> DEFINE c == desk[p].cmd
<1>1. /\ CloseDesk(p) /\ c \in Commands /\ p \in Actors /\ cmd[c] \in Rows
  BY DEF ApplyOverride, IInv, PeopleSound, DeskInOrder, WithStatus, TypeOK, StoreTypeOK,
         Actors
<1>2. transition_command(c, "rolled_back", p, cmd[c]) \/ UNCHANGED storeVars
  BY DEF ApplyOverride
<1> HIDE DEF c
<1>3. CASE transition_command(c, "rolled_back", p, cmd[c])
  <2>1. StoreTypeOK' /\ StoreKept /\ Aside /\ RecordSound'
    <3> DEFINE row == cmd[c]
    <3>1. transition_command(c, "rolled_back", p, row) /\ row = cmd[c] /\ row \in Rows
      BY <1>1, <1>3
    <3>2. /\ row.requested_by = cmd[c].requested_by
          /\ row.approved_by = cmd[c].approved_by
          /\ row.approved_by_role = cmd[c].approved_by_role
          /\ row.policy_decision = cmd[c].policy_decision
          /\ row.error_code = cmd[c].error_code
      OBVIOUS
    <3> HIDE DEF row
    <3> QED BY <1>1, <3>1, <3>2, MoveAside, SMTT(30)
  <2> QED BY <1>1, <2>1, CloseStep
<1>4. CASE UNCHANGED storeVars
  BY <1>1, <1>4, CloseUnwritten
<1> QED BY <1>2, <1>3, <1>4

LEMMA PeopleStep ==
    ASSUME IInv, People_Next
    PROVE  IInv'
<1>1. PICK p \in People :
        \/ \E c \in Commands : \/ RequestCommand(p, c) \/ OpenReview(p, c)
                               \/ OpenDenial(p, c) \/ OpenOverride(p, c)
        \/ EvaluateReview(p) \/ ApplyReview(p) \/ ApplyDenial(p)
        \/ ApplyOverride(p) \/ HandlerLost(p)
  BY DEF People_Next
<1>2. CASE HandlerLost(p)
  BY <1>2, CloseUnwritten DEF HandlerLost
<1> QED BY <1>1, <1>2, RequestStep, OpenStep, EvaluateStep, ReviewStep, DenialStep,
           OverrideStep

----------------------------------------------------------------------------
(* The executor.                                                           *)

LEMMA ExecutorAtTyped ==
    ASSUME NEW pc \in {"down", "sweep", "pick", "gate", "act", "launch", "await", "record"},
           NEW job \in Commands \cup {NoCommand}
    PROVE  ExecutorAt(pc, job) \in Executors
BY DEF ExecutorAt, Executors, Verdicts, NoVerdict, ErrorCodes, Reports

\* A pass that has no command in hand leaves none executing, whatever it does
\* to the table on the way.
LEMMA EmptyHandedStep ==
    ASSUME IInv, StoreTypeOK', StoreKept, Aside, RecordSound',
           UNCHANGED <<overdue, desk, field, ver, outcomes>>,
           held' \subseteq Commands, exec' \in Executors,
           exec.pc \in {"sweep", "pick", "gate", "act"},
           exec'.pc \notin {"launch", "await", "record"},
           exec'.pc \in {"gate", "act"} => exec'.job \in Commands
    PROVE  IInv'
<1>1. TypeOK'
  BY DEF IInv, TypeOK
<1>2. PeopleSound'
  BY <1>1, PeopleKept DEF IInv
<1>3. OutcomeSound'
  BY OutcomesKept DEF IInv
<1>4. EffectFitsStatus'
  BY DEF IInv, EffectSound, EffectFitsStatus, Aside, Acting
<1>5. JobInHand'
  BY DEF JobInHand
<1>6. \A d \in Commands : cmd[d].status # "executing"
  BY DEF IInv, EffectSound, ExecutingIsInHand, WithStatus
<1>7. ExecutingIsInHand'
  BY <1>6 DEF ExecutingIsInHand, Aside, WithStatus, Acting
<1> QED BY <1>1, <1>2, <1>3, <1>4, <1>5, <1>7 DEF IInv, EffectSound

LEMMA EmptyHandedUnwritten ==
    ASSUME IInv, UNCHANGED <<storeVars, overdue, desk, field, ver, outcomes>>,
           held' \subseteq Commands, exec' \in Executors,
           exec.pc \in {"sweep", "pick", "gate", "act"},
           exec'.pc \notin {"launch", "await", "record"},
           exec'.pc \in {"gate", "act"} => exec'.job \in Commands
    PROVE  IInv'
<1>1. StoreTypeOK' /\ StoreKept /\ Aside /\ RecordSound'
  BY KeptUntouched, RecordKeptUntouched
  DEF IInv, TypeOK, StoreTypeOK, Aside, storeVars
<1> QED BY <1>1, EmptyHandedStep

LEMMA ExpiryAside ==
    ASSUME IInv, NEW late, expire_stale(late)
    PROVE  StoreTypeOK' /\ StoreKept /\ Aside /\ RecordSound'
<1> DEFINE gone(d) == d \in late /\ cmd[d].status \in {"requested", "approved"}
<1>1. \A d \in Commands : cmd[d] \in Rows /\ [cmd[d] EXCEPT !.status = "expired"] \in Rows
  <2>1. \A row \in Rows : [row EXCEPT !.status = "expired"] \in Rows
    BY DEF Rows, Statuses
  <2> QED BY <2>1 DEF IInv, TypeOK, StoreTypeOK
<1>2. /\ \A d \in Commands : cmd'[d] = IF gone(d) THEN [cmd[d] EXCEPT !.status = "expired"]
                                       ELSE cmd[d]
      /\ trail' = trail
  BY DEF expire_stale
<1>3. StoreTypeOK'
  <2>1. cmd' = [d \in Commands |-> IF gone(d) THEN [cmd[d] EXCEPT !.status = "expired"]
                                   ELSE cmd[d]]
    BY DEF expire_stale
  <2> QED BY <1>1, <1>2, <2>1 DEF IInv, TypeOK, StoreTypeOK
<1>4. \A d \in Commands :
        \/ cmd'[d] = cmd[d]
        \/ /\ cmd[d].status \in {"requested", "approved"} /\ cmd'[d].status = "expired"
           /\ cmd'[d].requested_by = cmd[d].requested_by
           /\ cmd'[d].error_code = cmd[d].error_code
           /\ cmd'[d].policy_decision = cmd[d].policy_decision
  <2> TAKE d \in Commands
  <2>1. CASE gone(d)
    <3>1. cmd'[d] = [cmd[d] EXCEPT !.status = "expired"] /\ cmd[d] \in Rows
      BY <1>1, <1>2, <2>1
    <3> QED BY <2>1, <3>1 DEF Rows
  <2>2. CASE ~gone(d)
    BY <1>2, <2>2
  <2> QED BY <2>1, <2>2
<1>5. StoreKept /\ Aside
  BY <1>2, <1>4 DEF StoreKept, Aside, Acting, ALLOWED_TRANSITIONS, Statuses
<1>6. ApprovedByAnother'
  BY <1>2, <1>4 DEF IInv, RecordSound, ApprovedByAnother, Acting
<1>7. OnlyExecutorDispatches'
  BY <1>2, <1>4 DEF IInv, RecordSound, OnlyExecutorDispatches, Acting
<1>8. ErrorAndDecisionAgree'
  BY <1>2, <1>4 DEF IInv, RecordSound, ErrorAndDecisionAgree, Acting
<1> QED BY <1>3, <1>5, <1>6, <1>7, <1>8 DEF RecordSound

LEMMA SweepStep == ASSUME IInv, ExecutorSweep PROVE IInv'
<1>1. /\ exec.pc = "sweep" /\ expire_stale(overdue)
      /\ exec' = ExecutorAt("pick", NoCommand)
      /\ UNCHANGED <<overdue, desk, held, field, ver, outcomes>>
  BY DEF ExecutorSweep
<1>2. exec' \in Executors /\ exec'.pc = "pick"
  BY <1>1, ExecutorAtTyped DEF ExecutorAt
<1>3. held' \subseteq Commands
  BY <1>1 DEF IInv, TypeOK
<1> QED BY <1>1, <1>2, <1>3, ExpiryAside, EmptyHandedStep

LEMMA PickStep == ASSUME IInv, ExecutorPick PROVE IInv'
<1>1. WithStatus({"executing"}) = {}
  BY DEF IInv, EffectSound, ExecutingIsInHand, ExecutorPick
<1>2. FailOrphans({})
  BY <1>1 DEF ExecutorPick
<1>3. UNCHANGED storeVars
  BY <1>2 DEF FailOrphans, storeVars, IInv, TypeOK, StoreTypeOK
<1>4. /\ exec.pc = "pick" /\ UNCHANGED <<overdue, desk, held, field, ver, outcomes>>
      /\ held' \subseteq Commands
  BY DEF ExecutorPick, IInv, TypeOK
<1>5. /\ exec' \in Executors /\ exec'.pc \in {"sweep", "gate"}
      /\ exec'.pc = "gate" => exec'.job \in Commands
  <2>1. CASE exec' = ExecutorAt("sweep", NoCommand)
    BY <2>1, ExecutorAtTyped DEF ExecutorAt
  <2>2. ASSUME NEW c \in Commands, exec' = ExecutorAt("gate", c)
        PROVE  exec' \in Executors /\ exec'.pc = "gate" /\ exec'.job \in Commands
    BY <2>2, ExecutorAtTyped DEF ExecutorAt
  <2> QED BY <2>1, <2>2 DEF ExecutorPick
<1> QED BY <1>3, <1>4, <1>5, EmptyHandedUnwritten

LEMMA GateStep == ASSUME IInv, ExecutorGate PROVE IInv'
<1>1. PICK verdict \in Verdicts : exec' = [exec EXCEPT !.pc = "act", !.verdict = verdict]
  BY AnswersAreVerdicts DEF ExecutorGate
<1>2. /\ exec.pc = "gate" /\ exec.job \in Commands
      /\ UNCHANGED <<storeVars, overdue, desk, held, field, ver, outcomes>>
      /\ held' \subseteq Commands
  BY DEF ExecutorGate, IInv, TypeOK, EffectSound, JobInHand
<1>3. exec' \in Executors /\ exec'.pc = "act" /\ exec'.job \in Commands
  BY <1>1, <1>2 DEF IInv, TypeOK, Executors
<1> QED BY <1>2, <1>3, EmptyHandedUnwritten

LEMMA HoldStep == ASSUME IInv, ExecutorHold PROVE IInv'
<1>1. /\ exec.pc = "act" /\ exec.job \in Commands
      /\ exec' = ExecutorAt("sweep", NoCommand)
      /\ UNCHANGED <<storeVars, overdue, desk, field, ver, outcomes>>
      /\ held' \subseteq Commands
  BY DEF ExecutorHold, IInv, TypeOK, EffectSound, JobInHand
<1>2. exec' \in Executors /\ exec'.pc = "sweep"
  BY <1>1, ExecutorAtTyped DEF ExecutorAt
<1> QED BY <1>1, <1>2, EmptyHandedUnwritten

LEMMA RefuseStep == ASSUME IInv, ExecutorRefuse PROVE IInv'
<1> DEFINE c == exec.job
           to == exec.verdict.decision
           code == exec.verdict.error_code
           row == IF to = "denied" THEN DeniedRow(c, code, code = "stale_evidence")
                  ELSE cmd[c]
<1>1. /\ exec.pc = "act" /\ c \in Commands /\ to \in {"denied", "expired"}
      /\ code \in ErrorCodes /\ EXECUTOR \in Actors /\ StoreTypeOK
      /\ UNCHANGED <<overdue, desk, held, field, ver, outcomes>>
      /\ held' \subseteq Commands
  BY DEF ExecutorRefuse, IInv, TypeOK, EffectSound, JobInHand, Executors, Verdicts, Actors
<1>2. exec' \in Executors /\ exec'.pc \in {"sweep", "down"}
  <2>1. exec' = ExecutorAt("sweep", NoCommand) \/ exec' = ExecutorAt("down", NoCommand)
    BY DEF ExecutorRefuse
  <2> QED BY <2>1, ExecutorAtTyped DEF ExecutorAt
<1>3. transition_command(c, to, EXECUTOR, row) \/ UNCHANGED storeVars
  BY DEF ExecutorRefuse
<1>4. /\ row \in Rows /\ row.requested_by = cmd[c].requested_by
      /\ row.approved_by = cmd[c].approved_by
      /\ row.approved_by_role = cmd[c].approved_by_role
      /\ \/ /\ row.policy_decision = cmd[c].policy_decision
            /\ row.error_code = cmd[c].error_code
         \/ row.policy_decision = "denied"
  <2>1. CASE to = "denied"
    <3>1. row = DeniedRow(c, code, code = "stale_evidence")
      BY <2>1
    <3> HIDE DEF row, c, code
    <3> QED BY <3>1, <1>1, DeniedRowKeeps
  <2>2. CASE to # "denied"
    BY <2>2, <1>1 DEF StoreTypeOK
  <2> QED BY <2>1, <2>2
<1> HIDE DEF c, to, code, row
<1>5. CASE transition_command(c, to, EXECUTOR, row)
  <2>1. StoreTypeOK' /\ StoreKept /\ Aside /\ RecordSound'
    BY <1>1, <1>4, <1>5, MoveAside
  <2> QED BY <1>1, <1>2, <2>1, EmptyHandedStep
<1>6. CASE UNCHANGED storeVars
  BY <1>1, <1>2, <1>6, EmptyHandedUnwritten
<1> QED BY <1>3, <1>5, <1>6

LEMMA BeginStep == ASSUME IInv, ExecutorBegin PROVE IInv'
<1> DEFINE c == exec.job
           row == cmd[c]
<1>1. /\ exec.pc = "act" /\ c \in Commands /\ row \in Rows /\ EXECUTOR \in Actors
      /\ StoreTypeOK /\ "executing" \in Statuses
      /\ UNCHANGED <<overdue, desk, held, field, ver, outcomes>>
      /\ held' \subseteq Commands
  BY DEF ExecutorBegin, IInv, TypeOK, StoreTypeOK, EffectSound, JobInHand, Actors, Statuses
<1>2. \/ /\ transition_command(c, "executing", EXECUTOR, row)
         /\ exec' = ExecutorAt("launch", c)
      \/ /\ UNCHANGED storeVars
         /\ \/ exec' = ExecutorAt("sweep", NoCommand)
            \/ exec' = ExecutorAt("down", NoCommand)
  BY DEF ExecutorBegin
<1>3. CASE UNCHANGED storeVars /\ \/ exec' = ExecutorAt("sweep", NoCommand)
                                  \/ exec' = ExecutorAt("down", NoCommand)
  <2>1. exec' \in Executors /\ exec'.pc \in {"sweep", "down"}
    BY <1>3, ExecutorAtTyped DEF ExecutorAt
  <2> QED BY <1>1, <1>3, <2>1, EmptyHandedUnwritten
<1>4. CASE /\ transition_command(c, "executing", EXECUTOR, row)
           /\ exec' = ExecutorAt("launch", c)
  <2>1. /\ exec' \in Executors /\ exec'.pc = "launch" /\ exec'.job = c
    BY <1>1, <1>4, ExecutorAtTyped DEF ExecutorAt
  <2>2. /\ row.requested_by = cmd[c].requested_by
        /\ row.approved_by = cmd[c].approved_by
        /\ row.approved_by_role = cmd[c].approved_by_role
        /\ row.policy_decision = cmd[c].policy_decision
        /\ row.error_code = cmd[c].error_code
    OBVIOUS
  <2> HIDE DEF c, row
  <2>3. /\ StoreTypeOK'
        /\ cmd'[c] = [row EXCEPT !.status = "executing"]
        /\ \A d \in Commands : d # c => cmd'[d] = cmd[d]
        /\ "executing" \in ALLOWED_TRANSITIONS[cmd[c].status]
    BY <1>1, <1>4, TransitionEffect
  <2>4. cmd'[c].status = "executing" /\ cmd[c].status \in Statuses
    BY <1>1, <2>3 DEF Rows, StoreTypeOK
  <2>5. cmd[c].status = "approved"
    BY <2>3, <2>4 DEF ALLOWED_TRANSITIONS
  <2>6. StoreKept
    BY <1>1, <1>4, <2>2, KeptByTransition
  <2>7. RecordSound'
    BY <1>1, <1>4, <2>2, RecordKeptByTransition DEF IInv
  <2>8. TypeOK'
    BY <1>1, <2>1, <2>3 DEF IInv, TypeOK
  <2>9. PeopleSound'
    BY <1>1, <2>6, <2>8, PeopleKept DEF IInv
  <2>10. OutcomeSound'
    BY <1>1, <2>6, OutcomesKept DEF IInv
  <2>11. EffectFitsStatus'
    BY <1>1, <2>3, <2>4, <2>5 DEF IInv, EffectSound, EffectFitsStatus, Acting
  <2>12. field[c] = "untouched"
    BY <1>1, <2>5 DEF IInv, EffectSound, EffectFitsStatus, Acting
  <2>13. JobInHand'
    BY <1>1, <2>1, <2>4, <2>12 DEF JobInHand
  <2>14. \A d \in Commands : cmd[d].status # "executing"
    BY <1>1 DEF IInv, EffectSound, ExecutingIsInHand, WithStatus
  <2>15. ExecutingIsInHand'
    BY <2>1, <2>3, <2>14 DEF ExecutingIsInHand, WithStatus
  <2> QED BY <2>7, <2>8, <2>9, <2>10, <2>11, <2>13, <2>15 DEF IInv, EffectSound
<1> QED BY <1>2, <1>3, <1>4

\* The executor, or the container, goes on with what it has in hand; the table
\* is not written.
LEMMA UnwrittenStep ==
    ASSUME IInv, UNCHANGED <<storeVars, overdue, desk, ver, outcomes>>,
           held' \subseteq Commands, exec' \in Executors,
           field' \in [Commands -> {"untouched", "running", "applied", "refused", "lost"}],
           \A d \in Commands : field[d] = "applied" => field'[d] = "applied",
           EffectSound'
    PROVE  IInv'
<1>1. StoreKept /\ RecordSound'
  BY KeptUntouched, RecordKeptUntouched DEF IInv
<1>2. TypeOK'
  BY DEF IInv, TypeOK, StoreTypeOK, storeVars
<1>3. PeopleSound'
  BY <1>1, <1>2, PeopleKept DEF IInv
<1>4. OutcomeSound'
  BY <1>1, OutcomesKept DEF IInv
<1> QED BY <1>1, <1>2, <1>3, <1>4 DEF IInv

LEMMA LaunchStep == ASSUME IInv, ExecutorLaunch PROVE IInv'
<1> DEFINE c == exec.job
<1>1. /\ exec.pc = "launch" /\ c \in Commands /\ cmd[c].status = "executing"
      /\ field[c] = "untouched" /\ exec \in Executors
      /\ UNCHANGED <<storeVars, overdue, desk, held, ver, outcomes>>
      /\ cmd' = cmd /\ held' \subseteq Commands
      /\ field \in [Commands -> {"untouched", "running", "applied", "refused", "lost"}]
  BY DEF ExecutorLaunch, IInv, TypeOK, EffectSound, JobInHand, storeVars
<1>2. CASE /\ field' = [field EXCEPT ![c] = "running"]
           /\ exec' = ExecutorAt("await", c)
  <2>1. exec' \in Executors /\ exec'.pc = "await" /\ exec'.job = c
    BY <1>1, <1>2, ExecutorAtTyped DEF ExecutorAt
  <2>2. /\ field' \in [Commands -> {"untouched", "running", "applied", "refused", "lost"}]
        /\ field'[c] = "running" /\ \A d \in Commands : d # c => field'[d] = field[d]
    BY <1>1, <1>2
  <2>3. \A d \in Commands : field[d] = "applied" => field'[d] = "applied"
    BY <1>1, <2>2
  <2>4. EffectFitsStatus'
    BY <1>1, <2>2 DEF IInv, EffectSound, EffectFitsStatus, Acting
  <2>5. JobInHand' /\ ExecutingIsInHand'
    BY <1>1, <2>1 DEF IInv, EffectSound, JobInHand, ExecutingIsInHand, WithStatus
  <2> QED BY <1>1, <2>1, <2>2, <2>3, <2>4, <2>5, UnwrittenStep DEF EffectSound
<1>3. CASE /\ exec' = [exec EXCEPT !.pc = "record", !.report = "os_error"]
           /\ UNCHANGED field
  <2>1. /\ exec' \in Executors /\ exec'.pc = "record" /\ exec'.job = c
        /\ exec'.report = "os_error"
    BY <1>1, <1>3 DEF Executors, Reports
  <2>2. EffectFitsStatus'
    BY <1>1, <1>3 DEF IInv, EffectSound, EffectFitsStatus
  <2>3. JobInHand' /\ ExecutingIsInHand'
    BY <1>1, <2>1 DEF IInv, EffectSound, JobInHand, ExecutingIsInHand, WithStatus
  <2> QED BY <1>1, <1>3, <2>1, <2>2, <2>3, UnwrittenStep DEF EffectSound
<1> QED BY <1>2, <1>3 DEF ExecutorLaunch

LEMMA HearStep == ASSUME IInv, ExecutorHear PROVE IInv'
<1> DEFINE c == exec.job
<1>1. /\ exec.pc = "await" /\ c \in Commands /\ cmd[c].status = "executing"
      /\ exec \in Executors
      /\ UNCHANGED <<storeVars, overdue, desk, held, field, ver, outcomes>>
      /\ cmd' = cmd /\ held' \subseteq Commands
      /\ field \in [Commands -> {"untouched", "running", "applied", "refused", "lost"}]
  BY DEF ExecutorHear, IInv, TypeOK, EffectSound, JobInHand, storeVars
<1>2. PICK report \in Heard(c) : exec' = [exec EXCEPT !.pc = "record", !.report = report]
  BY DEF ExecutorHear
<1>3. report \in Reports /\ (report = "acknowledged" => field[c] = "applied")
  BY <1>2 DEF Heard, Reports
<1>4. /\ exec' \in Executors /\ exec'.pc = "record" /\ exec'.job = c
      /\ exec'.report = report
  BY <1>1, <1>2, <1>3 DEF Executors
<1>5. EffectFitsStatus'
  BY <1>1 DEF IInv, EffectSound, EffectFitsStatus
<1>6. JobInHand' /\ ExecutingIsInHand'
  BY <1>1, <1>3, <1>4 DEF IInv, EffectSound, JobInHand, ExecutingIsInHand, WithStatus
<1> QED BY <1>1, <1>4, <1>5, <1>6, UnwrittenStep DEF EffectSound

\* What the adapter's report makes of the command in hand.
LEMMA RecordStep == ASSUME IInv, ExecutorRecord PROVE IInv'
<1> DEFINE c == exec.job
<1>1. /\ exec.pc = "record" /\ c \in Commands /\ cmd[c].status = "executing"
      /\ exec.report = "acknowledged" => field[c] = "applied"
      /\ cmd[c] \in Rows /\ EXECUTOR \in Actors /\ StoreTypeOK
      /\ UNCHANGED <<overdue, desk, held, field, ver, outcomes>>
      /\ held' \subseteq Commands
      /\ \A d \in Commands : cmd[d].status = "executing" => d = c
  BY DEF ExecutorRecord, IInv, TypeOK, StoreTypeOK, EffectSound, JobInHand, Actors,
         ExecutingIsInHand, WithStatus
<1>2. exec' \in Executors /\ exec'.pc = "sweep"
  <2>1. exec' = ExecutorAt("sweep", NoCommand)
    BY DEF ExecutorRecord
  <2> QED BY <2>1, ExecutorAtTyped DEF ExecutorAt
<1>3. PICK to \in {"executed", "failed"}, row \in Rows :
         /\ transition_command(c, to, EXECUTOR, row)
         /\ to = "executed" => field[c] = "applied"
         /\ row.requested_by = cmd[c].requested_by
         /\ row.approved_by = cmd[c].approved_by
         /\ row.approved_by_role = cmd[c].approved_by_role
         /\ row.policy_decision = cmd[c].policy_decision
         /\ row.error_code # "none" => to = "failed" \/ row.error_code = cmd[c].error_code
  <2>1. CASE /\ exec.report = "acknowledged"
             /\ transition_command(c, "executed", EXECUTOR,
                                   [cmd[c] EXCEPT !.acknowledged = TRUE])
    <3> DEFINE row == [cmd[c] EXCEPT !.acknowledged = TRUE]
    <3>1. /\ row \in Rows /\ row.requested_by = cmd[c].requested_by
          /\ row.approved_by = cmd[c].approved_by
          /\ row.approved_by_role = cmd[c].approved_by_role
          /\ row.policy_decision = cmd[c].policy_decision
          /\ row.error_code = cmd[c].error_code
      BY <1>1 DEF Rows
    <3>2. transition_command(c, "executed", EXECUTOR, row)
      BY <2>1
    <3> HIDE DEF row
    <3> QED BY <2>1, <3>1, <3>2, <1>1
  <2>2. ASSUME NEW code \in ErrorCodes, NEW retryable \in BOOLEAN,
               transition_command(c, "failed", EXECUTOR, ErrorRow(c, code, retryable))
        PROVE  \E to \in {"executed", "failed"}, row \in Rows :
                 /\ transition_command(c, to, EXECUTOR, row)
                 /\ to = "executed" => field[c] = "applied"
                 /\ row.requested_by = cmd[c].requested_by
                 /\ row.approved_by = cmd[c].approved_by
                 /\ row.approved_by_role = cmd[c].approved_by_role
                 /\ row.policy_decision = cmd[c].policy_decision
                 /\ row.error_code # "none" =>
                       to = "failed" \/ row.error_code = cmd[c].error_code
    <3> DEFINE row == ErrorRow(c, code, retryable)
    <3>1. /\ row \in Rows /\ row.requested_by = cmd[c].requested_by
          /\ row.approved_by = cmd[c].approved_by
          /\ row.approved_by_role = cmd[c].approved_by_role
          /\ row.policy_decision = cmd[c].policy_decision
      BY <1>1, ErrorRowKeeps
    <3>2. transition_command(c, "failed", EXECUTOR, row)
      BY <2>2
    <3> HIDE DEF row
    <3> QED BY <3>1, <3>2
  <2>3. \/ /\ exec.report = "acknowledged"
           /\ transition_command(c, "executed", EXECUTOR,
                                 [cmd[c] EXCEPT !.acknowledged = TRUE])
        \/ \E code \in ErrorCodes, retryable \in BOOLEAN :
             transition_command(c, "failed", EXECUTOR, ErrorRow(c, code, retryable))
    BY DEF ExecutorRecord, ErrorCodes
  <2> QED BY <2>1, <2>2, <2>3
<1> HIDE DEF c
<1>4. /\ StoreTypeOK'
      /\ cmd'[c] = [row EXCEPT !.status = to]
      /\ \A d \in Commands : d # c => cmd'[d] = cmd[d]
  BY <1>1, <1>3, TransitionEffect DEF Statuses
<1>5. cmd'[c].status = to
  BY <1>3, <1>4 DEF Rows
<1>6. StoreKept
  BY <1>1, <1>3, KeptByTransition DEF Statuses
<1>7. RecordSound'
  BY <1>1, <1>3, RecordKeptByTransition DEF IInv, Statuses
<1>8. TypeOK'
  BY <1>1, <1>2, <1>4 DEF IInv, TypeOK
<1>9. PeopleSound'
  BY <1>1, <1>6, <1>8, PeopleKept DEF IInv
<1>10. OutcomeSound'
  BY <1>1, <1>6, OutcomesKept DEF IInv
<1>11. EffectFitsStatus'
  BY <1>1, <1>3, <1>4, <1>5 DEF IInv, EffectSound, EffectFitsStatus, Acting
<1>12. JobInHand'
  BY <1>2 DEF JobInHand
<1>13. ExecutingIsInHand'
  BY <1>1, <1>3, <1>4, <1>5 DEF ExecutingIsInHand, WithStatus
<1> QED BY <1>7, <1>8, <1>9, <1>10, <1>11, <1>12, <1>13 DEF IInv, EffectSound

\* Restarted, the executor closes what it finds executing.
LEMMA StartStep == ASSUME IInv, ExecutorStart PROVE IInv'
<1> DEFINE orphan(d) == cmd[d].status = "executing"
           closed(d) == [ErrorRow(d, "internal", FALSE) EXCEPT !.status = "failed"]
           move == [from |-> "executing", to |-> "failed", by |-> EXECUTOR]
<1>1. /\ cmd' = [d \in Commands |-> IF orphan(d) THEN closed(d) ELSE cmd[d]]
      /\ trail' = [d \in Commands |-> IF orphan(d) THEN trail[d] \cup {move} ELSE trail[d]]
      /\ UNCHANGED <<overdue, desk, held, field, ver, outcomes>>
      /\ held' \subseteq Commands
  BY DEF ExecutorStart, FailOrphans, WithStatus, IInv, TypeOK
<1>2. exec' \in Executors /\ exec'.pc = "sweep"
  <2>1. exec' = ExecutorAt("sweep", NoCommand)
    BY DEF ExecutorStart
  <2> QED BY <2>1, ExecutorAtTyped DEF ExecutorAt
<1>3. \A d \in Commands :
        /\ cmd[d] \in Rows /\ closed(d) \in Rows /\ closed(d).status = "failed"
        /\ closed(d).requested_by = cmd[d].requested_by
        /\ closed(d).approved_by = cmd[d].approved_by
        /\ closed(d).approved_by_role = cmd[d].approved_by_role
        /\ closed(d).policy_decision = cmd[d].policy_decision
  <2> TAKE d \in Commands
  <2> DEFINE row == ErrorRow(d, "internal", FALSE)
  <2>1. /\ row \in Rows /\ row.requested_by = cmd[d].requested_by
        /\ row.approved_by = cmd[d].approved_by
        /\ row.approved_by_role = cmd[d].approved_by_role
        /\ row.policy_decision = cmd[d].policy_decision
    BY ErrorRowKeeps DEF IInv, TypeOK, ErrorCodes
  <2>2. closed(d) = [row EXCEPT !.status = "failed"]
    OBVIOUS
  <2>3. cmd[d] \in Rows
    BY DEF IInv, TypeOK, StoreTypeOK
  <2> HIDE DEF row, closed
  <2> QED BY <2>1, <2>2, <2>3 DEF Rows, Statuses
<1>4. move \in Moves /\ move.to = "failed"
  BY DEF Moves, Statuses, Actors
<1> HIDE DEF closed, move
<1>5. TypeOK'
  <2>1. cmd' \in [Commands -> Rows]
    BY <1>1, <1>3
  <2>2. trail' \in [Commands -> SUBSET Moves]
    BY <1>1, <1>4 DEF IInv, TypeOK, StoreTypeOK
  <2> QED BY <1>1, <1>2, <2>1, <2>2 DEF IInv, TypeOK, StoreTypeOK
<1>6. \A d \in Commands :
        IF orphan(d)
        THEN cmd'[d] = closed(d) /\ trail'[d] = trail[d] \cup {move}
        ELSE cmd'[d] = cmd[d] /\ trail'[d] = trail[d]
  BY <1>1
<1>7. StoreKept
  BY <1>3, <1>6 DEF StoreKept, ALLOWED_TRANSITIONS, Statuses
<1>8. ApprovedByAnother'
  BY <1>3, <1>6 DEF IInv, RecordSound, ApprovedByAnother, Acting
<1>9. OnlyExecutorDispatches'
  BY <1>3, <1>4, <1>6 DEF IInv, RecordSound, OnlyExecutorDispatches, Acting
<1>10. ErrorAndDecisionAgree'
  BY <1>3, <1>6 DEF IInv, RecordSound, ErrorAndDecisionAgree, Acting
<1>11. PeopleSound'
  BY <1>1, <1>5, <1>7, PeopleKept DEF IInv
<1>12. OutcomeSound'
  BY <1>1, <1>7, OutcomesKept DEF IInv
<1>13. EffectFitsStatus'
  BY <1>1, <1>3, <1>6 DEF IInv, EffectSound, EffectFitsStatus, Acting
<1>14. JobInHand' /\ ExecutingIsInHand'
  BY <1>2, <1>3, <1>6 DEF JobInHand, ExecutingIsInHand, WithStatus
<1> QED BY <1>5, <1>8, <1>9, <1>10, <1>11, <1>12, <1>13, <1>14
        DEF IInv, RecordSound, EffectSound

LEMMA CrashStep == ASSUME IInv, ExecutorCrash PROVE IInv'
<1>1. /\ UNCHANGED <<storeVars, overdue, desk, field, ver, outcomes>>
      /\ held' \subseteq Commands /\ cmd' = cmd /\ field' = field
      /\ field \in [Commands -> {"untouched", "running", "applied", "refused", "lost"}]
  BY DEF ExecutorCrash, IInv, TypeOK, storeVars
<1>2. exec' \in Executors /\ exec'.pc = "down"
  <2>1. exec' = ExecutorAt("down", NoCommand)
    BY DEF ExecutorCrash
  <2> QED BY <2>1, ExecutorAtTyped DEF ExecutorAt
<1>3. EffectSound'
  BY <1>1, <1>2 DEF IInv, EffectSound, EffectFitsStatus, JobInHand, ExecutingIsInHand
<1> QED BY <1>1, <1>2, <1>3, UnwrittenStep

LEMMA ExecutorStep == ASSUME IInv, Executor_Next PROVE IInv'
BY StartStep, SweepStep, PickStep, GateStep, HoldStep, RefuseStep, BeginStep, LaunchStep,
   HearStep, RecordStep DEF Executor_Next

----------------------------------------------------------------------------
(* The verifier, the field and the clock.                                  *)

LEMMA IdleVerifierTyped == IdleVerifier \in Verifiers
BY DEF IdleVerifier, Verifiers, Classifications

\* A step of the verifier that writes neither table nor outcomes.
LEMMA VerifierUnwritten ==
    ASSUME IInv, UNCHANGED <<storeVars, overdue, desk, exec, held, field, outcomes>>,
           ver' \in Verifiers, VerifierTruthful'
    PROVE  IInv'
<1>1. TypeOK' /\ StoreKept /\ RecordSound'
  BY KeptUntouched, RecordKeptUntouched DEF IInv, TypeOK, StoreTypeOK, storeVars
<1>2. PeopleSound'
  BY <1>1, PeopleKept DEF IInv
<1>3. EffectSound'
  BY EffectKeptAside DEF IInv, Aside, storeVars
<1>4. OutcomeMatchesRecord'
  BY DEF IInv, OutcomeSound, OutcomeMatchesRecord, storeVars
<1> QED BY <1>1, <1>2, <1>3, <1>4 DEF IInv, OutcomeSound

LEMMA VerifierLooks ==
    ASSUME IInv, VerifierJudge \/ VerifierCrash \/ \E c \in Commands : VerifierPick(c)
    PROVE  IInv'
<1>1. /\ UNCHANGED <<storeVars, overdue, desk, exec, held, field, outcomes>>
      /\ outcomes' = outcomes
  BY DEF VerifierJudge, VerifierCrash, VerifierPick
<1>2. ASSUME ver' = IdleVerifier PROVE ver' \in Verifiers /\ VerifierTruthful'
  BY <1>2, IdleVerifierTyped DEF IdleVerifier, VerifierTruthful
<1>3. ASSUME NEW c \in Commands, VerifierPick(c)
      PROVE  ver' \in Verifiers /\ VerifierTruthful'
  <2> DEFINE picked == [IdleVerifier EXCEPT !.pc = "picked", !.cmd = c]
  <2>1. /\ picked \in Verifiers /\ picked.cmd = c /\ picked.rolled = FALSE
        /\ picked.pc = "picked"
    BY DEF IdleVerifier, Verifiers, Classifications
  <2>2. ver' = picked /\ outcomes[c] = {}
    BY <1>3 DEF VerifierPick
  <2> HIDE DEF picked
  <2> QED BY <1>1, <2>1, <2>2 DEF VerifierTruthful
<1>4. ASSUME VerifierJudge PROVE ver' \in Verifiers /\ VerifierTruthful'
  <2>1. CASE ver' = IdleVerifier
    BY <2>1, <1>2
  <2>2. CASE \E found \in Classifications, pc \in {"rollback", "record"} :
               ver' = [ver EXCEPT !.pc = pc, !.found = found]
    <3>1. PICK found \in Classifications, pc \in {"rollback", "record"} :
             ver' = [ver EXCEPT !.pc = pc, !.found = found]
      BY <2>2
    <3>2. /\ ver.pc = "picked" /\ ver \in Verifiers /\ ver.cmd \in Commands
          /\ outcomes[ver.cmd] = {} /\ ~ver.rolled
      BY <1>4 DEF VerifierJudge, IInv, TypeOK, OutcomeSound, VerifierTruthful
    <3>3. /\ ver' \in Verifiers /\ ver'.cmd = ver.cmd /\ ~ver'.rolled
          /\ ver'.found \in Classifications
      BY <3>1, <3>2 DEF Verifiers
    <3> QED BY <1>1, <3>2, <3>3 DEF VerifierTruthful
  <2> QED
    <3>1. CASE cmd[ver.cmd].status = "executed" /\ Independent(ver.cmd)
      <4>1. PICK found \in Classifications :
              ver' = [ver EXCEPT
                        !.pc = IF found = "unsafe" /\ ActionOf[ver.cmd] \in NothingToUndo
                               THEN "rollback" ELSE "record",
                        !.found = found]
        BY <1>4, <3>1 DEF VerifierJudge
      <4> QED BY <4>1, <2>2
    <3>2. CASE ~(cmd[ver.cmd].status = "executed" /\ Independent(ver.cmd))
      BY <1>4, <3>2, <2>1 DEF VerifierJudge
    <3> QED BY <3>1, <3>2
<1>5. ver' \in Verifiers /\ VerifierTruthful'
  BY <1>2, <1>3, <1>4 DEF VerifierCrash
<1> QED BY <1>1, <1>5, VerifierUnwritten

LEMMA RollBackStep == ASSUME IInv, VerifierRollBack PROVE IInv'
<1> DEFINE c == ver.cmd
           row == cmd[c]
<1>1. /\ ver.pc = "rollback" /\ c \in Commands /\ ver \in Verifiers
      /\ outcomes[c] = {} /\ row \in Rows /\ OUTCOME_VERIFIER \in Actors
      /\ StoreTypeOK /\ "rolled_back" \in Statuses
      /\ UNCHANGED <<overdue, desk, exec, held, field, outcomes>>
  BY DEF VerifierRollBack, IInv, TypeOK, StoreTypeOK, OutcomeSound, VerifierTruthful,
         Actors, Statuses
<1>2. CASE UNCHANGED storeVars /\ ver' = IdleVerifier
  <2>1. ver' \in Verifiers /\ VerifierTruthful'
    BY <1>2, IdleVerifierTyped DEF IdleVerifier, VerifierTruthful
  <2> QED BY <1>1, <1>2, <2>1, VerifierUnwritten
<1>3. CASE /\ transition_command(c, "rolled_back", OUTCOME_VERIFIER, row)
           /\ ver' = [ver EXCEPT !.pc = "record", !.rolled = TRUE]
  <2>1. /\ ver' \in Verifiers /\ ver'.cmd = c /\ ver'.pc = "record"
        /\ ver'.found \in Classifications
    BY <1>1, <1>3 DEF Verifiers, IInv, OutcomeSound, VerifierTruthful
  <2>2. /\ row.requested_by = cmd[c].requested_by
        /\ row.approved_by = cmd[c].approved_by
        /\ row.approved_by_role = cmd[c].approved_by_role
        /\ row.policy_decision = cmd[c].policy_decision
        /\ row.error_code = cmd[c].error_code
    OBVIOUS
  <2> DEFINE move == [from |-> cmd[c].status, to |-> "rolled_back",
                      by |-> OUTCOME_VERIFIER]
  <2> HIDE DEF c, row
  <2>3. StoreTypeOK' /\ StoreKept /\ Aside /\ RecordSound'
    BY <1>1, <1>3, <2>2, MoveAside, SMTT(30)
  <2>4. /\ cmd'[c] = [row EXCEPT !.status = "rolled_back"]
        /\ trail'[c] = trail[c] \cup {move}
    BY <1>1, <1>3, TransitionEffect
  <2>5. cmd'[c].status = "rolled_back"
    BY <1>1, <2>4 DEF Rows
  <2>6. move \in trail'[c] /\ move.to = "rolled_back" /\ move.by = OUTCOME_VERIFIER
    BY <2>4
  <2>7. TypeOK'
    BY <1>1, <2>1, <2>3 DEF IInv, TypeOK
  <2>8. PeopleSound'
    BY <1>1, <2>3, <2>7, PeopleKept DEF IInv
  <2>9. EffectSound'
    BY <1>1, <2>3, EffectKeptAside DEF IInv
  <2> HIDE DEF move
  <2>10. VerifierTruthful'
    BY <1>1, <2>1, <2>5, <2>6 DEF VerifierTruthful
  <2>11. \A d \in Commands : cmd[d].status \in Statuses
    BY <1>1 DEF StoreTypeOK, Rows
  <2>12. \A d \in Commands :
            /\ cmd[d].status = "rolled_back" => cmd'[d].status = "rolled_back"
            /\ cmd[d].status \in VERIFIABLE_STATUSES =>
                  cmd'[d].status \in VERIFIABLE_STATUSES
    BY <2>3, <2>11 DEF StoreKept, ALLOWED_TRANSITIONS, VERIFIABLE_STATUSES
  <2>13. OutcomeMatchesRecord'
    BY <1>1, <2>3, <2>12 DEF IInv, OutcomeSound, OutcomeMatchesRecord, StoreKept
  <2> QED BY <2>3, <2>7, <2>8, <2>9, <2>10, <2>13 DEF IInv, OutcomeSound
<1> QED BY <1>2, <1>3 DEF VerifierRollBack

LEMMA OutcomeStep == ASSUME IInv, VerifierRecord PROVE IInv'
<1> DEFINE c == ver.cmd
           outcome == [classification |-> ver.found, rollback_triggered |-> ver.rolled]
<1>1. /\ ver.pc = "record" /\ c \in Commands /\ ver \in Verifiers /\ outcomes[c] = {}
      /\ ver' = IdleVerifier /\ ver' \in Verifiers
      /\ UNCHANGED <<storeVars, overdue, desk, exec, held, field>>
      /\ cmd' = cmd /\ trail' = trail /\ field' = field
  BY IdleVerifierTyped DEF VerifierRecord, IInv, TypeOK, OutcomeSound, VerifierTruthful,
                           storeVars
<1>2. VerifierTruthful'
  BY <1>1 DEF VerifierTruthful, IdleVerifier
<1>3. CASE UNCHANGED outcomes
  BY <1>1, <1>2, <1>3, VerifierUnwritten
<1>4. CASE /\ cmd[c].status \in VERIFIABLE_STATUSES
           /\ outcomes' = [outcomes EXCEPT ![c] = @ \cup {outcome}]
  <2>1. outcome \in Outcomes /\ outcome.rollback_triggered = ver.rolled
    BY <1>1 DEF Verifiers, Outcomes, IInv, OutcomeSound, VerifierTruthful
  <2>2. ver.rolled => /\ cmd[c].status = "rolled_back"
                      /\ \E m \in trail[c] : m.to = "rolled_back" /\ m.by = OUTCOME_VERIFIER
    BY DEF IInv, OutcomeSound, VerifierTruthful
  <2> HIDE DEF outcome, c
  <2>3. /\ outcomes'[c] = {outcome}
        /\ \A d \in Commands : d # c => outcomes'[d] = outcomes[d]
        /\ outcomes' \in [Commands -> SUBSET Outcomes]
    BY <1>1, <1>4, <2>1 DEF IInv, TypeOK
  <2>4. TypeOK' /\ StoreKept /\ RecordSound'
    BY <1>1, <2>3, KeptUntouched, RecordKeptUntouched DEF IInv, TypeOK, StoreTypeOK
  <2>5. PeopleSound'
    BY <1>1, <2>4, PeopleKept DEF IInv
  <2>6. EffectSound'
    BY <1>1, EffectKeptAside DEF IInv, Aside
  <2>7. field[c] = "applied"
    BY <1>1, <1>4 DEF IInv, EffectSound, EffectFitsStatus, VERIFIABLE_STATUSES
  <2>8. OutcomeMatchesRecord'
    BY <1>1, <1>4, <2>1, <2>2, <2>3, <2>7 DEF IInv, OutcomeSound, OutcomeMatchesRecord
  <2> QED BY <1>2, <2>4, <2>5, <2>6, <2>8 DEF IInv, OutcomeSound
<1> QED BY <1>3, <1>4 DEF VerifierRecord

LEMMA VerifierStep == ASSUME IInv, Verifier_Next PROVE IInv'
BY VerifierLooks, RollBackStep, OutcomeStep DEF Verifier_Next

LEMMA FieldStep ==
    ASSUME IInv, NEW c \in Commands, FieldApply(c) \/ FieldRefuse(c) \/ FieldLose(c)
    PROVE  IInv'
<1>1. PICK effect \in {"applied", "refused", "lost"} : FieldDoes(c, effect)
  BY DEF FieldApply, FieldRefuse, FieldLose
<1>2. /\ field[c] = "running" /\ field' = [field EXCEPT ![c] = effect]
      /\ UNCHANGED <<storeVars, overdue, desk, exec, held, ver, outcomes>>
      /\ cmd' = cmd /\ exec' \in Executors /\ held' \subseteq Commands
      /\ field \in [Commands -> {"untouched", "running", "applied", "refused", "lost"}]
  BY <1>1 DEF FieldDoes, IInv, TypeOK, storeVars
<1>3. /\ field'[c] = effect /\ \A d \in Commands : d # c => field'[d] = field[d]
      /\ field' \in [Commands -> {"untouched", "running", "applied", "refused", "lost"}]
  BY <1>2
<1>4. EffectFitsStatus'
  BY <1>2, <1>3 DEF IInv, EffectSound, EffectFitsStatus, Acting
<1>5. JobInHand'
  BY <1>2, <1>3 DEF IInv, EffectSound, JobInHand
<1>6. ExecutingIsInHand'
  BY <1>2 DEF IInv, EffectSound, ExecutingIsInHand, WithStatus
<1> QED BY <1>2, <1>3, <1>4, <1>5, <1>6, UnwrittenStep DEF EffectSound

LEMMA ClockStep ==
    ASSUME IInv, NEW c \in Commands, Deadline(c) \/ HoldOver(c)
    PROVE  IInv'
<1>1. /\ UNCHANGED <<storeVars, desk, exec, field, ver, outcomes>>
      /\ overdue' \subseteq Commands /\ held' \subseteq Commands
  BY DEF Deadline, HoldOver, IInv, TypeOK
<1>2. TypeOK' /\ StoreKept /\ RecordSound'
  BY <1>1, KeptUntouched, RecordKeptUntouched DEF IInv, TypeOK, StoreTypeOK, storeVars
<1>3. PeopleSound'
  BY <1>1, <1>2, PeopleKept DEF IInv
<1>4. EffectSound'
  BY <1>1, EffectKeptAside DEF IInv, Aside, storeVars
<1>5. OutcomeSound'
  BY <1>1, <1>2, OutcomesKept DEF IInv
<1> QED BY <1>2, <1>3, <1>4, <1>5 DEF IInv

----------------------------------------------------------------------------
(* The invariant, and what follows from it.                                *)

LEMMA InitEstablishes == Init => IInv
<1> SUFFICES ASSUME Init PROVE IInv
  OBVIOUS
<1>1. NoRow \in Rows
  BY DEF NoRow, Rows, Statuses, ErrorCodes
<1>2. IdleDesk \in Desks
  BY DEF IdleDesk, Desks, Verdicts, NoVerdict, ErrorCodes
<1>3. exec \in Executors /\ exec.pc = "down"
  BY ExecutorAtTyped DEF Init, ExecutorAt
<1>4. TypeOK
  BY <1>1, <1>2, <1>3, IdleVerifierTyped DEF Init, StoreInit, TypeOK, StoreTypeOK
<1>5. \A c \in Commands : cmd[c] = NoRow /\ trail[c] = {} /\ field[c] = "untouched"
                          /\ outcomes[c] = {}
  BY DEF Init, StoreInit
<1>6. RecordSound
  BY <1>5 DEF NoRow, RecordSound, ApprovedByAnother, OnlyExecutorDispatches,
              ErrorAndDecisionAgree, Acting
<1>7. PeopleSound
  BY DEF Init, IdleDesk, PeopleSound, DeskInOrder, ReviewerIsAnother
<1>8. EffectSound
  BY <1>3, <1>5 DEF EffectSound, EffectFitsStatus, JobInHand, ExecutingIsInHand,
                    NoRow, Acting
<1>9. OutcomeSound
  BY <1>5 DEF Init, IdleVerifier, OutcomeSound, VerifierTruthful, OutcomeMatchesRecord
<1> QED BY <1>4, <1>6, <1>7, <1>8, <1>9 DEF IInv

LEMMA StepPreserves == IInv /\ [Next]_vars => IInv'
<1> SUFFICES ASSUME IInv, [Next]_vars PROVE IInv'
  OBVIOUS
<1>1. CASE People_Next
  BY <1>1, PeopleStep
<1>2. CASE Executor_Next
  BY <1>2, ExecutorStep
<1>3. CASE Verifier_Next
  BY <1>3, VerifierStep
<1>4. CASE Environment_Next
  BY <1>4, ClockStep, FieldStep, CrashStep, VerifierLooks DEF Environment_Next
<1>5. CASE UNCHANGED vars
  BY <1>5 DEF vars, IInv, TypeOK, StoreTypeOK, RecordSound, ApprovedByAnother,
              OnlyExecutorDispatches, ErrorAndDecisionAgree, PeopleSound, DeskInOrder,
              ReviewerIsAnother, EffectSound, EffectFitsStatus, JobInHand,
              ExecutingIsInHand, OutcomeSound, VerifierTruthful, OutcomeMatchesRecord,
              WithStatus
<1> QED BY <1>1, <1>2, <1>3, <1>4, <1>5 DEF Next

\* The invariant holds in every state of every behaviour.
THEOREM InvariantHolds == Spec => []IInv
<1>1. Init => IInv
  BY InitEstablishes
<1>2. IInv /\ [Next]_vars => IInv'
  BY StepPreserves
<1> QED BY <1>1, <1>2, PTL DEF Spec

\* Every variable of the command path keeps its type.
THEOREM TypeCorrect == Spec => []TypeOK
<1>1. IInv => TypeOK
  BY DEF IInv
<1> QED BY <1>1, InvariantHolds, PTL

\* Nothing reaches the field on one person's word, for any number of people and
\* commands and whatever roles they hold (command_service.py, executor_worker.py).
THEOREM AuthorisationHolds == Spec => []EffectIsAuthorised
<1>1. IInv => EffectIsAuthorised
  <2> SUFFICES ASSUME IInv, NEW c \in Commands, field[c] # "untouched"
               PROVE  /\ cmd[c].status \in Acting
                      /\ cmd[c].requested_by \in People
                      /\ cmd[c].approved_by \in People \ {cmd[c].requested_by}
                      /\ cmd[c].approved_by_role \in RolesOf[cmd[c].approved_by]
                      /\ {m.by : m \in {n \in trail[c] : n.to = "executing"}} = {EXECUTOR}
    BY DEF EffectIsAuthorised
  <2>1. cmd[c].status \in Acting
    BY DEF IInv, EffectSound, EffectFitsStatus
  <2>2. cmd[c].status # "absent"
    BY <2>1 DEF Acting
  <2>3. /\ \A m \in trail[c] : m.to = "executing" => m.by = EXECUTOR
        /\ \E m \in trail[c] : m.to = "executing"
    BY <2>1 DEF IInv, RecordSound, OnlyExecutorDispatches
  <2>4. {m.by : m \in {n \in trail[c] : n.to = "executing"}} = {EXECUTOR}
    BY <2>3
  <2> QED BY <2>1, <2>2, <2>4 DEF IInv, RecordSound, ApprovedByAnother
<1> QED BY <1>1, InvariantHolds, PTL

\* An executing command is the one executor's job, or the executor is down:
\* what reconcile() in executor_worker.py relies on.
THEOREM JobHolds == Spec => []ExecutingIsInHand
<1>1. IInv => ExecutingIsInHand
  BY DEF IInv, EffectSound
<1> QED BY <1>1, InvariantHolds, PTL

\* Error, decision and status of a command never contradict one another
\* (contracts/command/v1).
THEOREM ErrorHolds == Spec => []ErrorAndDecisionAgree
<1>1. IInv => ErrorAndDecisionAgree
  BY DEF IInv, RecordSound
<1> QED BY <1>1, InvariantHolds, PTL

\* A recorded outcome is of an action that took effect and agrees with the
\* command's record, whatever a person overrides meanwhile
\* (outcome_verification.py).
THEOREM OutcomeHolds == Spec => []OutcomeMatchesRecord
<1>1. IInv => OutcomeMatchesRecord
  BY DEF IInv, OutcomeSound
<1> QED BY <1>1, InvariantHolds, PTL

\* No step starts a container for a command that has had one
\* (executor_worker.py, simulator_adapters.py).
THEOREM NothingRepeats == Spec => NeverRepeated
<1> DEFINE Once == \A c \in Commands :
              field[c] # "untouched" => (field'[c] = "running" => field[c] = "running")
<1>1. IInv /\ [Next]_vars => Once
  <2> SUFFICES ASSUME IInv, [Next]_vars, NEW c \in Commands, field[c] # "untouched",
                      field'[c] = "running"
               PROVE  field[c] = "running"
    OBVIOUS
  <2>1. CASE ExecutorLaunch
    BY <2>1 DEF ExecutorLaunch, IInv, TypeOK, EffectSound, JobInHand
  <2>2. CASE \E d \in Commands : FieldApply(d) \/ FieldRefuse(d) \/ FieldLose(d)
    BY <2>2 DEF FieldApply, FieldRefuse, FieldLose, FieldDoes, IInv, TypeOK
  <2>3. CASE UNCHANGED field
    BY <2>3
  <2> QED
    <3>1. People_Next => UNCHANGED field
      <4>1. ASSUME NEW p \in People, NEW d \in Commands,
                   RequestCommand(p, d) \/ OpenReview(p, d) \/ OpenDenial(p, d)
                   \/ OpenOverride(p, d)
            PROVE  UNCHANGED field
        BY <4>1 DEF RequestCommand, envVars, OpenReview, OpenDenial, OpenOverride, OpenDesk
      <4>2. ASSUME NEW p \in People,
                   EvaluateReview(p) \/ ApplyReview(p) \/ ApplyDenial(p)
                   \/ ApplyOverride(p) \/ HandlerLost(p)
            PROVE  UNCHANGED field
        BY <4>2 DEF EvaluateReview, ApplyReview, ApplyDenial, ApplyOverride, HandlerLost,
                    CloseDesk
      <4> QED BY <4>1, <4>2 DEF People_Next
    <3>2. Executor_Next => ExecutorLaunch \/ UNCHANGED field
      BY DEF Executor_Next, ExecutorStart, ExecutorSweep, ExecutorPick, ExecutorGate,
             ExecutorHold, ExecutorRefuse, ExecutorBegin, ExecutorHear, ExecutorRecord
    <3>3. Verifier_Next => UNCHANGED field
      BY DEF Verifier_Next, VerifierPick, VerifierJudge, VerifierRollBack, VerifierRecord
    <3>4. Environment_Next =>
             \/ \E d \in Commands : FieldApply(d) \/ FieldRefuse(d) \/ FieldLose(d)
             \/ UNCHANGED field
      BY DEF Environment_Next, Deadline, HoldOver, ExecutorCrash, VerifierCrash
    <3> QED BY <2>1, <2>2, <2>3, <3>1, <3>2, <3>3, <3>4 DEF Next, vars
<1>2. Spec => [][Once]_vars
  BY <1>1, InvariantHolds, PTL DEF Spec
<1> QED BY <1>2 DEF NeverRepeated

----------------------------------------------------------------------------
(* The command path implements ProtectedAction: every step of CommandPath  *)
(* is, seen through the refinement mapping of `Promise`, a step of the     *)
(* promise or a stutter.                                                   *)

stageOf == [c \in Commands |-> StageOf[cmd[c].status]]
effectOf == [c \in Commands |-> field[c] = "applied"]

Stutter == UNCHANGED <<stageOf, effectOf>>

LEMMA StutterWhenUnwritten == UNCHANGED storeVars /\ UNCHANGED effectOf => Stutter
BY DEF storeVars, Stutter, stageOf

\* Several commands move from stages in `from` to the stage `to`.
LEMMA StagesMove ==
    ASSUME NEW S \in SUBSET Commands, S # {}, NEW from, NEW to,
           \A d \in S : StageOf[cmd[d].status] \in from /\ StageOf[cmd'[d].status] = to,
           \A d \in Commands \ S : cmd'[d].status = cmd[d].status,
           UNCHANGED field
    PROVE  Promise!Move(S, from, to)
BY DEF Promise!Move, stageOf, effectOf

\* Every legal move of one command is a step of the promise; only an effect
\* makes it done.
LEMMA TransitionPromised ==
    ASSUME StoreTypeOK, NEW c \in Commands, NEW to \in Statuses, NEW by \in Actors,
           NEW row \in Rows, transition_command(c, to, by, row), UNCHANGED field,
           to = "executed" => field[c] = "applied"
    PROVE  Promise!Next
<1>1. /\ cmd'[c] = [row EXCEPT !.status = to]
      /\ \A d \in Commands : d # c => cmd'[d] = cmd[d]
      /\ to \in ALLOWED_TRANSITIONS[cmd[c].status]
  BY TransitionEffect
<1>2. cmd'[c].status = to /\ cmd[c].status \in Statuses
  BY <1>1 DEF Rows, StoreTypeOK
<1> DEFINE from == cmd[c].status
<1>3. ASSUME NEW froms, NEW stage, StageOf[from] \in froms, StageOf[to] = stage
      PROVE  Promise!Move({c}, froms, stage)
  BY <1>1, <1>2, <1>3, StagesMove
<1>4. /\ StageOf["requested"] = "asked" /\ StageOf["approved"] = "granted"
      /\ StageOf["denied"] = "withdrawn" /\ StageOf["expired"] = "withdrawn"
      /\ StageOf["executing"] = "started" /\ StageOf["executed"] = "done"
      /\ StageOf["failed"] = "closed" /\ StageOf["rolled_back"] = "undone"
  BY DEF StageOf, Statuses
<1> HIDE DEF from
<1>5. CASE from = "requested" /\ to = "approved"
  <2>0. StageOf[from] \in {"asked"} /\ StageOf[to] = "granted"
    BY <1>4, <1>5
  <2>1. Promise!Move({c}, {"asked"}, "granted")
    BY ONLY <1>3, <2>0
  <2>2. Promise!Grant(c)
    BY <2>1 DEF Promise!Grant
  <2> QED BY <2>2 DEF Promise!Next
<1>6. CASE from \in {"requested", "approved"} /\ to \in {"denied", "expired"}
  <2>0. StageOf[from] \in {"asked", "granted"} /\ StageOf[to] = "withdrawn"
    BY <1>4, <1>6
  <2>1. Promise!Move({c}, {"asked", "granted"}, "withdrawn")
    BY ONLY <1>3, <2>0
  <2>2. Promise!Withdraw({c})
    BY <2>1 DEF Promise!Withdraw
  <2> QED BY <2>2 DEF Promise!Next
<1>7. CASE from = "approved" /\ to = "executing"
  <2>0. StageOf[from] \in {"granted"} /\ StageOf[to] = "started"
    BY <1>4, <1>7
  <2>1. Promise!Move({c}, {"granted"}, "started")
    BY ONLY <1>3, <2>0
  <2>2. Promise!Start(c)
    BY <2>1 DEF Promise!Start
  <2> QED BY <2>2 DEF Promise!Next
<1>8. CASE from = "executing" /\ to = "executed"
  <2>0. StageOf[from] \in {"started"} /\ StageOf[to] = "done"
    BY <1>4, <1>8
  <2>1. Promise!Move({c}, {"started"}, "done")
    BY ONLY <1>3, <2>0
  <2>2. Promise!Finish(c)
    BY <2>1, <1>8 DEF Promise!Finish, effectOf
  <2> QED BY <2>2 DEF Promise!Next
<1>9. CASE from = "executing" /\ to = "failed"
  <2>0. StageOf[from] \in {"started"} /\ StageOf[to] = "closed"
    BY <1>4, <1>9
  <2>1. Promise!Move({c}, {"started"}, "closed")
    BY ONLY <1>3, <2>0
  <2>2. Promise!Close({c})
    BY <2>1 DEF Promise!Close
  <2> QED BY <2>2 DEF Promise!Next
<1>10. CASE from = "executed" /\ to = "rolled_back"
  <2>0. StageOf[from] \in {"done"} /\ StageOf[to] = "undone"
    BY <1>4, <1>10
  <2>1. Promise!Move({c}, {"done"}, "undone")
    BY ONLY <1>3, <2>0
  <2>2. Promise!Undo(c)
    BY <2>1 DEF Promise!Undo
  <2> QED BY <2>2 DEF Promise!Next
<1> QED BY <1>1, <1>2, <1>5, <1>6, <1>7, <1>8, <1>9, <1>10 DEF ALLOWED_TRANSITIONS, from

Promised == Promise!Next \/ Stutter

LEMMA RequestPromised ==
    ASSUME IInv, NEW p \in People, NEW c \in Commands, RequestCommand(p, c)
    PROVE  Promised
<1>1. PICK role : create_command(c, p, role)
  BY DEF RequestCommand
<1> DEFINE row == [NoRow EXCEPT !.status = "requested", !.requested_by = p,
                                !.requested_by_role = role]
<1>2. row.status = "requested"
  BY DEF NoRow
<1>3. cmd[c].status = "absent" /\ cmd' = [cmd EXCEPT ![c] = row] /\ UNCHANGED field
  BY <1>1 DEF create_command, RequestCommand, envVars
<1> HIDE DEF row
<1>4. /\ cmd'[c].status = "requested"
      /\ \A d \in Commands : d # c => cmd'[d] = cmd[d]
  BY <1>2, <1>3 DEF IInv, TypeOK, StoreTypeOK
<1>5. StageOf["absent"] = "none" /\ StageOf["requested"] = "asked"
  BY DEF StageOf, Statuses
<1>6. Promise!Move({c}, {"none"}, "asked")
  BY <1>3, <1>4, <1>5, StagesMove
<1>7. Promise!Ask(c)
  BY <1>6 DEF Promise!Ask
<1> QED BY <1>7 DEF Promise!Next, Promised

LEMMA PeoplePromised == ASSUME IInv, People_Next PROVE Promised
<1>1. PICK p \in People :
        \/ \E c \in Commands : \/ RequestCommand(p, c) \/ OpenReview(p, c)
                               \/ OpenDenial(p, c) \/ OpenOverride(p, c)
        \/ EvaluateReview(p) \/ ApplyReview(p) \/ ApplyDenial(p)
        \/ ApplyOverride(p) \/ HandlerLost(p)
  BY DEF People_Next
<1> DEFINE c == desk[p].cmd
<1>2. /\ desk[p].step # "idle" => /\ c \in Commands /\ desk[p].role \in Roles
                                  /\ cmd[c] \in Rows
      /\ p \in Actors /\ StoreTypeOK /\ desk[p].verdict.error_code \in ErrorCodes
  <2>1. desk[p].step # "idle" => c \in Commands /\ desk[p].role \in Roles
    <3>1. desk[p].step # "idle" => c \in Commands /\ desk[p].role \in RolesOf[p]
      BY DEF IInv, PeopleSound, DeskInOrder, WithStatus
    <3>2. RolesOf[p] \in SUBSET Roles
      BY PathAssumption
    <3> QED BY <3>1, <3>2
  <2>2. StoreTypeOK /\ desk[p].verdict.error_code \in ErrorCodes
    BY DEF IInv, TypeOK, Desks, Verdicts
  <2> QED BY <2>1, <2>2 DEF StoreTypeOK, Actors
<1>3. CASE UNCHANGED <<storeVars, field>>
  BY <1>3, StutterWhenUnwritten DEF Promised, effectOf
<1>4. CASE ApplyReview(p)
  <2> DEFINE to == desk[p].verdict.decision
             code == desk[p].verdict.error_code
  <2>1. UNCHANGED field /\ desk[p].step = "decided"
    BY <1>4 DEF ApplyReview, CloseDesk
  <2>2. \/ to = "policy_unavailable" /\ apply_policy_unavailable(c)
        \/ to = "approved"
           /\ transition_command(c, to, p, ApprovedRow(c, p, desk[p].role))
        \/ to \in {"denied", "expired"}
           /\ transition_command(c, to, p, DeniedRow(c, code, code = "stale_evidence"))
        \/ UNCHANGED storeVars
    BY <1>4 DEF ApplyReview
  <2> HIDE DEF c, to, code
  <2>3. CASE apply_policy_unavailable(c)
    <3> DEFINE failing == ErrorRow(c, "internal", TRUE)
               row == [failing EXCEPT !.policy_decision = "policy_unavailable"]
    <3>1. failing \in Rows /\ failing.status = cmd[c].status
      BY <1>2, <2>1, ErrorRowKeeps DEF ErrorCodes, c
    <3>2. cmd' = [cmd EXCEPT ![c] = row]
      BY <2>3 DEF apply_policy_unavailable
    <3> HIDE DEF failing
    <3>3. row.status = cmd[c].status
      BY <3>1 DEF Rows
    <3> HIDE DEF row
    <3>4. \A d \in Commands : cmd'[d].status = cmd[d].status
      BY <3>2, <3>3, <1>2 DEF StoreTypeOK
    <3> QED BY <2>1, <3>4 DEF Promised, Stutter, stageOf, effectOf
  <2>4. CASE /\ to = "approved"
             /\ transition_command(c, to, p, ApprovedRow(c, p, desk[p].role))
    <3>1. ApprovedRow(c, p, desk[p].role) \in Rows
      BY <1>2, <2>1, RowsTyped DEF c
    <3>2. c \in Commands /\ to \in Statuses /\ to # "executed"
      BY <1>2, <2>1, <2>4 DEF Statuses, c
    <3> QED BY <1>2, <2>1, <2>4, <3>1, <3>2, TransitionPromised DEF Promised
  <2>5. CASE /\ to \in {"denied", "expired"}
             /\ transition_command(c, to, p, DeniedRow(c, code, code = "stale_evidence"))
    <3>1. c \in Commands /\ to \in Statuses /\ to # "executed"
      BY <1>2, <2>1, <2>5 DEF Statuses, c
    <3>2. DeniedRow(c, code, code = "stale_evidence") \in Rows
      BY <1>2, <3>1, DeniedRowKeeps DEF code
    <3> QED BY <1>2, <2>1, <2>5, <3>1, <3>2, TransitionPromised DEF Promised
  <2> QED BY <2>1, <2>2, <2>3, <2>4, <2>5, <1>3
<1>5. CASE ApplyDenial(p)
  <2>1. /\ UNCHANGED field /\ desk[p].step = "denying"
        /\ \/ transition_command(c, "denied", p, DeniedRow(c, "policy_denied", FALSE))
           \/ UNCHANGED storeVars
    BY <1>5 DEF ApplyDenial, CloseDesk
  <2>2. DeniedRow(c, "policy_denied", FALSE) \in Rows
    BY <1>2, <2>1, DeniedRowKeeps DEF ErrorCodes
  <2> QED BY <1>2, <1>3, <2>1, <2>2, TransitionPromised DEF Promised, Statuses
<1>6. CASE ApplyOverride(p)
  <2>1. /\ UNCHANGED field /\ desk[p].step = "overriding"
        /\ transition_command(c, "rolled_back", p, cmd[c]) \/ UNCHANGED storeVars
    BY <1>6 DEF ApplyOverride, CloseDesk
  <2> QED BY <1>2, <1>3, <2>1, TransitionPromised DEF Promised, Statuses
<1>7. CASE \/ \E d \in Commands : OpenReview(p, d) \/ OpenDenial(p, d) \/ OpenOverride(p, d)
           \/ EvaluateReview(p) \/ HandlerLost(p)
  <2>1. UNCHANGED <<storeVars, field>>
    BY <1>7 DEF OpenReview, OpenDenial, OpenOverride, OpenDesk, EvaluateReview,
                HandlerLost, CloseDesk
  <2> QED BY <1>3, <2>1
<1> QED BY <1>1, <1>4, <1>5, <1>6, <1>7, RequestPromised

\* Several orphans, or several late commands, are one step of the promise.
LEMMA OrphansPromised ==
    ASSUME IInv, NEW S \in SUBSET WithStatus({"executing"}), FailOrphans(S), UNCHANGED field
    PROVE  Promised
<1>1. S \in SUBSET Commands /\ \A d \in S : cmd[d].status = "executing"
  BY DEF WithStatus
<1>2. \A d \in Commands \ S : cmd'[d].status = cmd[d].status
  BY DEF FailOrphans
<1>3. ASSUME NEW d \in S PROVE cmd'[d].status = "failed"
  <2> DEFINE row == ErrorRow(d, "internal", FALSE)
  <2>1. row \in Rows
    BY <1>1, ErrorRowKeeps DEF IInv, TypeOK, ErrorCodes
  <2>2. cmd'[d] = [row EXCEPT !.status = "failed"]
    BY <1>1 DEF FailOrphans
  <2> HIDE DEF row
  <2> QED BY <2>1, <2>2 DEF Rows
<1>4. StageOf["executing"] = "started" /\ StageOf["failed"] = "closed"
  BY DEF StageOf, Statuses
<1>5. CASE S = {}
  BY <1>2, <1>5 DEF Promised, Stutter, stageOf, effectOf
<1>6. CASE S # {}
  <2>1. Promise!Move(S, {"started"}, "closed")
    BY <1>1, <1>2, <1>3, <1>4, <1>6, StagesMove
  <2> QED BY <1>1, <2>1 DEF Promise!Close, Promise!Next, Promised
<1> QED BY <1>5, <1>6

LEMMA SweepPromised == ASSUME IInv, ExecutorSweep PROVE Promised
<1> DEFINE S == {d \in Commands : d \in overdue /\ cmd[d].status \in {"requested", "approved"}}
<1>1. /\ \A d \in Commands : cmd'[d] = IF d \in S THEN [cmd[d] EXCEPT !.status = "expired"]
                                       ELSE cmd[d]
      /\ UNCHANGED field
  BY DEF ExecutorSweep, expire_stale
<1>2. \A d \in Commands \ S : cmd'[d].status = cmd[d].status
  BY <1>1
<1>3. \A d \in S : /\ cmd[d].status \in {"requested", "approved"}
                   /\ cmd'[d].status = "expired"
  BY <1>1 DEF IInv, TypeOK, StoreTypeOK, Rows
<1>4. /\ StageOf["requested"] = "asked" /\ StageOf["approved"] = "granted"
      /\ StageOf["expired"] = "withdrawn"
  BY DEF StageOf, Statuses
<1>5. S \in SUBSET Commands
  OBVIOUS
<1> HIDE DEF S
<1>6. CASE S = {}
  BY <1>1, <1>2, <1>6 DEF Promised, Stutter, stageOf, effectOf
<1>7. CASE S # {}
  <2>1. Promise!Move(S, {"asked", "granted"}, "withdrawn")
    <3>1. \A d \in S : /\ StageOf[cmd[d].status] \in {"asked", "granted"}
                       /\ StageOf[cmd'[d].status] = "withdrawn"
      BY <1>3, <1>4
    <3> QED BY <1>1, <1>2, <1>5, <1>7, <3>1, StagesMove
  <2> QED BY <1>5, <2>1 DEF Promise!Withdraw, Promise!Next, Promised
<1> QED BY <1>6, <1>7

LEMMA RefusePromised == ASSUME IInv, ExecutorRefuse PROVE Promised
<1> DEFINE c == exec.job
           to == exec.verdict.decision
           code == exec.verdict.error_code
           row == IF to = "denied" THEN DeniedRow(c, code, code = "stale_evidence")
                  ELSE cmd[c]
<1>1. /\ c \in Commands /\ to \in {"denied", "expired"} /\ code \in ErrorCodes
      /\ cmd[c] \in Rows /\ StoreTypeOK /\ EXECUTOR \in Actors /\ UNCHANGED field
  BY DEF ExecutorRefuse, IInv, TypeOK, StoreTypeOK, EffectSound, JobInHand, Executors,
         Verdicts, Actors
<1>2. transition_command(c, to, EXECUTOR, row) \/ UNCHANGED storeVars
  BY DEF ExecutorRefuse
<1>3. row \in Rows
  <2> HIDE DEF c, code
  <2> QED BY <1>1, DeniedRowKeeps
<1> HIDE DEF c, to, row
<1>4. to \in Statuses /\ to # "executed"
  BY <1>1 DEF Statuses
<1>5. CASE UNCHANGED storeVars
  BY <1>1, <1>5, StutterWhenUnwritten DEF Promised, effectOf
<1> QED BY <1>1, <1>2, <1>3, <1>4, <1>5, TransitionPromised DEF Promised

LEMMA BeginPromised == ASSUME IInv, ExecutorBegin PROVE Promised
<1> DEFINE c == exec.job
<1>1. /\ c \in Commands /\ cmd[c] \in Rows /\ StoreTypeOK /\ EXECUTOR \in Actors
      /\ UNCHANGED field
      /\ transition_command(c, "executing", EXECUTOR, cmd[c]) \/ UNCHANGED storeVars
  BY DEF ExecutorBegin, IInv, TypeOK, StoreTypeOK, EffectSound, JobInHand, Actors
<1>2. CASE UNCHANGED storeVars
  BY <1>1, <1>2, StutterWhenUnwritten DEF Promised, effectOf
<1> HIDE DEF c
<1> QED BY <1>1, <1>2, TransitionPromised DEF Promised, Statuses

\* The executor calls an action done only on the report of its effect.
LEMMA RecordPromised == ASSUME IInv, ExecutorRecord PROVE Promised
<1> DEFINE c == exec.job
<1>1. /\ c \in Commands /\ cmd[c] \in Rows /\ StoreTypeOK /\ EXECUTOR \in Actors
      /\ UNCHANGED field
      /\ exec.report = "acknowledged" => field[c] = "applied"
  BY DEF ExecutorRecord, IInv, TypeOK, StoreTypeOK, EffectSound, JobInHand, Actors
<1>2. CASE /\ exec.report = "acknowledged"
           /\ transition_command(c, "executed", EXECUTOR,
                                 [cmd[c] EXCEPT !.acknowledged = TRUE])
  <2>1. [cmd[c] EXCEPT !.acknowledged = TRUE] \in Rows
    BY <1>1 DEF Rows
  <2> HIDE DEF c
  <2> QED BY <1>1, <1>2, <2>1, TransitionPromised DEF Promised, Statuses
<1>3. ASSUME NEW code \in ErrorCodes, NEW retryable \in BOOLEAN,
             transition_command(c, "failed", EXECUTOR, ErrorRow(c, code, retryable))
      PROVE  Promised
  <2>1. ErrorRow(c, code, retryable) \in Rows
    BY <1>1, ErrorRowKeeps
  <2> HIDE DEF c
  <2> QED BY <1>1, <1>3, <2>1, TransitionPromised DEF Promised, Statuses
<1>4. \/ /\ exec.report = "acknowledged"
         /\ transition_command(c, "executed", EXECUTOR,
                               [cmd[c] EXCEPT !.acknowledged = TRUE])
      \/ \E code \in ErrorCodes, retryable \in BOOLEAN :
           transition_command(c, "failed", EXECUTOR, ErrorRow(c, code, retryable))
  BY DEF ExecutorRecord, ErrorCodes
<1> QED BY <1>2, <1>3, <1>4

\* A container that is started, or refuses, or is lost, has no effect yet.
LEMMA LaunchPromised == ASSUME IInv, ExecutorLaunch PROVE Promised
<1>1. /\ UNCHANGED storeVars /\ field[exec.job] = "untouched"
      /\ field' = [field EXCEPT ![exec.job] = "running"] \/ UNCHANGED field
  BY DEF ExecutorLaunch, IInv, EffectSound, JobInHand
<1>2. UNCHANGED effectOf
  BY <1>1 DEF effectOf, IInv, TypeOK
<1> QED BY <1>1, <1>2, StutterWhenUnwritten DEF Promised

LEMMA ExecutorPromised == ASSUME IInv, Executor_Next PROVE Promised
<1>1. CASE ExecutorStart
  BY <1>1, OrphansPromised DEF ExecutorStart
<1>2. CASE ExecutorPick
  BY <1>2, OrphansPromised DEF ExecutorPick
<1>3. CASE ExecutorGate \/ ExecutorHold \/ ExecutorHear
  BY <1>3, StutterWhenUnwritten DEF ExecutorGate, ExecutorHold, ExecutorHear, Promised,
                                    effectOf
<1> QED BY <1>1, <1>2, <1>3, SweepPromised, RefusePromised, BeginPromised, LaunchPromised,
           RecordPromised DEF Executor_Next

LEMMA VerifierPromised ==
    ASSUME IInv, Verifier_Next \/ VerifierCrash
    PROVE  Promised
<1>1. CASE UNCHANGED <<storeVars, field>>
  BY <1>1, StutterWhenUnwritten DEF Promised, effectOf
<1>2. CASE VerifierRollBack
  <2> DEFINE c == ver.cmd
  <2>1. /\ c \in Commands /\ cmd[c] \in Rows /\ StoreTypeOK
        /\ OUTCOME_VERIFIER \in Actors /\ UNCHANGED field
        /\ transition_command(c, "rolled_back", OUTCOME_VERIFIER, cmd[c])
           \/ UNCHANGED storeVars
    BY <1>2 DEF VerifierRollBack, IInv, TypeOK, StoreTypeOK, OutcomeSound,
                VerifierTruthful, Actors
  <2> HIDE DEF c
  <2> QED BY <1>1, <2>1, TransitionPromised DEF Promised, Statuses
<1>3. CASE VerifierJudge \/ VerifierRecord \/ VerifierCrash
           \/ \E c \in Commands : VerifierPick(c)
  <2>1. UNCHANGED <<storeVars, field>>
    BY <1>3 DEF VerifierJudge, VerifierRecord, VerifierCrash, VerifierPick
  <2> QED BY <1>1, <2>1
<1> QED BY <1>2, <1>3 DEF Verifier_Next

LEMMA FieldPromised ==
    ASSUME IInv, NEW c \in Commands, FieldApply(c) \/ FieldRefuse(c) \/ FieldLose(c)
    PROVE  Promised
<1>1. PICK effect \in {"applied", "refused", "lost"} : FieldDoes(c, effect)
  BY DEF FieldApply, FieldRefuse, FieldLose
<1>2. /\ field[c] = "running" /\ field' = [field EXCEPT ![c] = effect]
      /\ UNCHANGED storeVars /\ cmd' = cmd
      /\ field \in [Commands -> {"untouched", "running", "applied", "refused", "lost"}]
      /\ cmd[c].status \in {"executing", "failed"}
  BY <1>1 DEF FieldDoes, IInv, TypeOK, EffectSound, EffectFitsStatus, storeVars
<1>3. CASE effect = "applied"
  <2>1. StageOf["executing"] = "started" /\ StageOf["failed"] = "closed"
    BY DEF StageOf, Statuses
  <2>2. stageOf[c] \in {"started", "closed"} /\ UNCHANGED stageOf
    BY <1>2, <2>1 DEF stageOf
  <2>3. ~effectOf[c] /\ effectOf' = [effectOf EXCEPT ![c] = TRUE]
    BY <1>2, <1>3 DEF effectOf
  <2>4. Promise!TakeEffect(c)
    BY <2>2, <2>3 DEF Promise!TakeEffect, stageOf, effectOf
  <2> QED BY <2>4 DEF Promise!Next, Promised
<1>4. CASE effect # "applied"
  <2>1. UNCHANGED effectOf
    BY <1>2, <1>4 DEF effectOf
  <2> QED BY <1>2, <2>1, StutterWhenUnwritten DEF Promised
<1> QED BY <1>3, <1>4

LEMMA StepPromised == IInv /\ [Next]_vars => [Promise!Next]_Promise!vars
<1> SUFFICES ASSUME IInv, [Next]_vars PROVE Promised
  BY DEF Promised, Stutter, Promise!vars, stageOf, effectOf
<1>1. CASE UNCHANGED <<storeVars, field>>
  BY <1>1, StutterWhenUnwritten DEF Promised, effectOf
<1>2. CASE Environment_Next
  <2>1. CASE \E c \in Commands : Deadline(c) \/ HoldOver(c)
    BY <2>1, <1>1 DEF Deadline, HoldOver
  <2>2. CASE ExecutorCrash
    BY <2>2, <1>1 DEF ExecutorCrash
  <2> QED BY <1>2, <2>1, <2>2, FieldPromised, VerifierPromised DEF Environment_Next
<1>3. CASE UNCHANGED vars
  BY <1>1, <1>3 DEF vars, storeVars
<1> QED BY <1>2, <1>3, PeoplePromised, ExecutorPromised, VerifierPromised DEF Next

\* The command path keeps the promise of ProtectedAction: no action takes
\* effect that was not granted and started, each at most once, and only one
\* that took effect is called done (the four modules of the command path).
THEOREM PromiseKept == Spec => KeepsPromise
<1>1. Init => Promise!Init
  <2> SUFFICES ASSUME Init PROVE Promise!Init
    OBVIOUS
  <2>1. \A c \in Commands : cmd[c].status = "absent" /\ field[c] = "untouched"
    BY DEF Init, StoreInit, NoRow
  <2>2. StageOf["absent"] = "none"
    BY DEF StageOf, Statuses
  <2> QED BY <2>1, <2>2 DEF Promise!Init
<1>2. Spec => [][Promise!Next]_Promise!vars
  BY StepPromised, InvariantHolds, PTL DEF Spec
<1> QED BY <1>1, <1>2, PTL DEF Spec, KeepsPromise, Promise!Spec
=============================================================================
