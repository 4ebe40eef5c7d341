---------------------------- MODULE CommandPath ----------------------------
(***************************************************************************)
(* The path of a protected action from a person's request to its verified  *)
(* outcome, as the processes that share the command table:                 *)
(*                                                                         *)
(*   people     API handlers (backend/api/routes_commands.py,              *)
(*              control/command_service.py): request, review, deny,        *)
(*              override.  A handler reads without a lock, asks the policy  *)
(*              engine, and only then moves the command.                   *)
(*   executor   control/executor_worker.py driving                         *)
(*              control/simulator_adapters.py: one process, polling.       *)
(*   field      the adapter container a dispatch starts; it may outlive    *)
(*              the call that started it.                                  *)
(*   verifier   control/verifier_worker.py and outcome_verification.py.    *)
(*                                                                         *)
(* Facts about the network (a critical incident on the target, fresh       *)
(* evidence) and the engine's availability may differ at every reading.    *)
(***************************************************************************)
EXTENDS CommandStore

CONSTANTS RolesOf,          \* the token roles of each person
          ActionOf,         \* the action type of each command
          OnCorridor,       \* commands whose target corridor_of can locate
          NoCommand

ASSUME PathAssumption == /\ RolesOf \in [People -> SUBSET Roles]
                         /\ ActionOf \in [Commands -> Actions]
                         /\ OnCorridor \subseteq Commands
                         /\ NoCommand \notin Commands

VARIABLES overdue,          \* commands whose expires_at has passed
          desk,             \* the handler each person has open
          exec,             \* the executor process
          held,             \* its _gate_retry_after, as the commands on hold
          field,            \* what each dispatched action did out there
          ver,              \* the verifier process
          outcomes          \* command_outcomes

envVars == <<overdue, desk, exec, held, field, ver, outcomes>>
vars == <<cmd, trail, overdue, desk, exec, held, field, ver, outcomes>>

Classifications == {"effective", "ineffective", "unsafe", "unknown"}

Desks == [step : {"idle", "reviewing", "decided", "denying", "overriding"},
          cmd : Commands \cup {NoCommand}, role : Roles \cup {NoOne},
          verdict : Verdicts]
IdleDesk == [step |-> "idle", cmd |-> NoCommand, role |-> NoOne,
             verdict |-> NoVerdict]

Reports == {"none", "acknowledged", "refused", "no_result", "timeout", "os_error"}
Executors == [pc : {"down", "sweep", "pick", "gate", "act", "launch", "await",
                    "record"},
              job : Commands \cup {NoCommand}, verdict : Verdicts,
              report : Reports]
ExecutorAt(pc, job) == [pc |-> pc, job |-> job, verdict |-> NoVerdict,
                        report |-> "none"]

Verifiers == [pc : {"idle", "picked", "rollback", "record"},
              cmd : Commands \cup {NoCommand},
              found : Classifications \cup {"none"}, rolled : BOOLEAN]
IdleVerifier == [pc |-> "idle", cmd |-> NoCommand, found |-> "none",
                 rolled |-> FALSE]

Outcomes == [classification : Classifications, rollback_triggered : BOOLEAN]

TypeOK == /\ StoreTypeOK
          /\ overdue \subseteq Commands
          /\ desk \in [People -> Desks]
          /\ exec \in Executors
          /\ held \subseteq Commands
          /\ field \in [Commands -> {"untouched", "running", "applied",
                                     "refused", "lost"}]
          /\ ver \in Verifiers
          /\ outcomes \in [Commands -> SUBSET Outcomes]

Init == /\ StoreInit
        /\ overdue = {}
        /\ desk = [p \in People |-> IdleDesk]
        /\ exec = ExecutorAt("down", NoCommand)
        /\ held = {}
        /\ field = [c \in Commands |-> "untouched"]
        /\ ver = IdleVerifier
        /\ outcomes = [c \in Commands |-> {}]

----------------------------------------------------------------------------
(* Time.                                                                   *)

\* expires_at passes.  It is read only while the command waits.
Deadline(c) ==
    /\ cmd[c].status \in {"requested", "approved"} /\ c \notin overdue
    /\ overdue' = overdue \cup {c}
    /\ UNCHANGED <<storeVars, desk, exec, held, field, ver, outcomes>>

----------------------------------------------------------------------------
(* People.                                                                 *)

Authority(kind, c, p, critical) ==
    authorised_role(kind, safety_class(ActionOf[c], critical), RolesOf[p])

\* The engine names the role; request_command checks it once more against the
\* class derived a moment later.
RequestCommand(p, c) ==
    /\ desk[p].step = "idle"
    /\ \E critical, later \in BOOLEAN :
         LET role == Authority("request", c, p, critical) IN
         /\ role # NoOne
         /\ role \in REQUEST_ROLES[safety_class(ActionOf[c], later)]
         /\ create_command(c, p, role)
    /\ UNCHANGED envVars

OpenDesk(p, step, c, role) ==
    /\ desk[p].step = "idle"
    /\ role # NoOne
    /\ desk' = [desk EXCEPT ![p] = [IdleDesk EXCEPT !.step = step, !.cmd = c,
                                                    !.role = role]]
    /\ UNCHANGED <<storeVars, overdue, exec, held, field, ver, outcomes>>

\* Faulty: the requester may approve.
OpenReviewAlone(p, c) ==
    /\ cmd[c].status = "requested"
    /\ \E critical \in BOOLEAN :
         OpenDesk(p, "reviewing", c, Authority("review", c, p, critical))

\* review(), approving: an unlocked read of the status, the reviewer's
\* authority, and four eyes for every class before any policy is asked.
OpenReview(p, c) ==
    /\ cmd[c].status = "requested"
    /\ cmd[c].requested_by # p
    /\ \E critical \in BOOLEAN :
         OpenDesk(p, "reviewing", c, Authority("review", c, p, critical))

\* review(), denying: the same, but the requester may refuse too.
OpenDenial(p, c) ==
    /\ cmd[c].status = "requested"
    /\ \E critical \in BOOLEAN :
         OpenDesk(p, "denying", c, Authority("review", c, p, critical))

\* override(): only an executed command, only where the class has an override.
OpenOverride(p, c) ==
    /\ cmd[c].status = "executed"
    /\ \E critical \in BOOLEAN :
         OpenDesk(p, "overriding", c, Authority("override", c, p, critical))

PolicyContext(phase, c, approver, role, critical, fresh, actor, status) ==
    [phase |-> phase, action_type |-> ActionOf[c], critical |-> critical,
     overdue |-> c \in overdue, adapter_known |-> TRUE, target_exists |-> TRUE,
     evidence_fresh |-> fresh, requested_by |-> cmd[c].requested_by,
     requester_role |-> cmd[c].requested_by_role, approver |-> approver,
     approver_role |-> role, rec_status |-> "none", rec_same_action |-> FALSE,
     actor |-> actor, command_status |-> status]

\* Every answer a caller can get about facts as they are at this moment: the
\* engine's decision, or its absence.
Answers(phase, c, approver, role, actor, status) ==
    {PolicyUnavailable} \cup
    {decision(PolicyContext(phase, c, approver, role, critical, fresh, actor,
                            status)) : critical \in BOOLEAN, fresh \in BOOLEAN}

\* _review_command asks: nothing is written yet.
EvaluateReview(p) ==
    LET d == desk[p] IN
    /\ d.step = "reviewing"
    /\ \E verdict \in Answers("approval", d.cmd, p, d.role, NoOne, "none") :
         desk' = [desk EXCEPT ![p] = [d EXCEPT !.step = "decided",
                                               !.verdict = verdict]]
    /\ UNCHANGED <<storeVars, overdue, exec, held, field, ver, outcomes>>

CloseDesk(p) == /\ desk' = [desk EXCEPT ![p] = IdleDesk]
                /\ UNCHANGED <<overdue, exec, held, field, ver, outcomes>>

\* ... and applies the verdict, whatever happened to the command meanwhile: a
\* move the row's present status forbids is answered 409.
ApplyReview(p) ==
    LET d == desk[p]
        c == d.cmd
        to == d.verdict.decision
        code == d.verdict.error_code
    IN  /\ d.step = "decided"
        /\ CloseDesk(p)
        /\ \/ to = "policy_unavailable" /\ apply_policy_unavailable(c)
           \/ to = "approved"
              /\ transition_command(c, to, p, ApprovedRow(c, p, d.role))
           \/ to \in {"denied", "expired"}
              /\ transition_command(c, to, p, DeniedRow(c, code, code = "stale_evidence"))
           \/ /\ IF to = "policy_unavailable" THEN cmd[c].status # "requested"
                 ELSE ~CanMove(c, to)
              /\ UNCHANGED storeVars

\* deny_command: authority against the class of now, then the locked move.
ApplyDenial(p) ==
    LET d == desk[p]
        c == d.cmd
    IN  /\ d.step = "denying"
        /\ CloseDesk(p)
        /\ \/ /\ \E critical \in BOOLEAN :
                   d.role \in APPROVE_ROLES[safety_class(ActionOf[c], critical)]
              /\ transition_command(c, "denied", p, DeniedRow(c, "policy_denied", FALSE))
           \/ /\ \/ ~CanMove(c, "denied")
                 \/ \E critical \in BOOLEAN :
                      d.role \notin APPROVE_ROLES[safety_class(ActionOf[c], critical)]
              /\ UNCHANGED storeVars

\* The countermand moves the record only; nothing is undone in the field.
ApplyOverride(p) ==
    LET c == desk[p].cmd IN
    /\ desk[p].step = "overriding"
    /\ CloseDesk(p)
    /\ IF CanMove(c, "rolled_back")
       THEN transition_command(c, "rolled_back", p, cmd[c])
       ELSE UNCHANGED storeVars

\* The handler dies with its API process before it wrote anything.
HandlerLost(p) == /\ desk[p].step # "idle"
                  /\ CloseDesk(p)
                  /\ UNCHANGED storeVars

----------------------------------------------------------------------------
(* The executor.                                                           *)

\* Faulty: an orphan is put back in the queue.
RequeueOrphans(orphans) ==
    /\ cmd' = [c \in Commands |-> IF c \in orphans
                                   THEN [cmd[c] EXCEPT !.status = "approved"]
                                   ELSE cmd[c]]
    /\ UNCHANGED trail

\* reconcile(): each orphan is failed, its effect said to be unknown.
FailOrphans(orphans) ==
    /\ cmd' = [c \in Commands |->
                 IF c \in orphans
                 THEN [ErrorRow(c, "internal", FALSE) EXCEPT !.status = "failed"]
                 ELSE cmd[c]]
    /\ trail' = [c \in Commands |->
                   IF c \in orphans
                   THEN trail[c] \cup {[from |-> "executing", to |-> "failed",
                                        by |-> EXECUTOR]}
                   ELSE trail[c]]

\* Faulty: the executor starts without looking for orphans.
StartBlind ==
    /\ exec.pc = "down"
    /\ exec' = ExecutorAt("sweep", NoCommand)
    /\ UNCHANGED <<storeVars, overdue, desk, held, field, ver, outcomes>>

\* main(): (re)connect; whatever is still executing has no executor behind it.
ExecutorStart ==
    /\ exec.pc = "down"
    /\ FailOrphans(WithStatus({"executing"}))
    /\ exec' = ExecutorAt("sweep", NoCommand)
    /\ UNCHANGED <<overdue, desk, held, field, ver, outcomes>>

ExecutorSweep ==
    /\ exec.pc = "sweep"
    /\ expire_stale(overdue)
    /\ exec' = ExecutorAt("pick", NoCommand)
    /\ UNCHANGED <<overdue, desk, held, field, ver, outcomes>>

\* next_approved: the oldest approval.
NextApproved(c) ==
    /\ cmd[c].status = "approved"
    /\ \A d \in WithStatus({"approved"}) : cmd[c].approved_at <= cmd[d].approved_at

\* reconcile() of what has been executing for longer than ORPHAN_AFTER_S, then
\* the head of the queue, unless it is on hold.
ExecutorPick ==
    /\ exec.pc = "pick"
    /\ \E aged \in SUBSET WithStatus({"executing"}) : FailOrphans(aged)
    /\ \/ /\ \A c \in Commands : NextApproved(c) => c \in held
          /\ exec' = ExecutorAt("sweep", NoCommand)
       \/ \E c \in Commands \ held :
            /\ NextApproved(c)
            /\ exec' = ExecutorAt("gate", c)
    /\ UNCHANGED <<overdue, desk, held, field, ver, outcomes>>

\* execution_gate, on the row and the facts as they are now.
ExecutorGate ==
    LET c == exec.job IN
    /\ exec.pc = "gate"
    /\ \E verdict \in Answers("execution", c, cmd[c].approved_by,
                              cmd[c].approved_by_role, EXECUTOR, cmd[c].status) :
         exec' = [exec EXCEPT !.pc = "act", !.verdict = verdict]
    /\ UNCHANGED <<storeVars, overdue, desk, held, field, ver, outcomes>>

\* The engine cannot answer: the command stays approved, asked again later.
ExecutorHold ==
    /\ exec.pc = "act" /\ exec.verdict.decision = "policy_unavailable"
    /\ held' = held \cup {exec.job}
    /\ exec' = ExecutorAt("sweep", NoCommand)
    /\ UNCHANGED <<storeVars, overdue, desk, field, ver, outcomes>>

\* GATE_RETRY_S has passed.
HoldOver(c) ==
    /\ c \in held
    /\ held' = held \ {c}
    /\ UNCHANGED <<storeVars, overdue, desk, exec, field, ver, outcomes>>

\* The gate refuses.  InvalidTransition is caught by nobody: a command denied
\* by a person meanwhile takes the process down.
ExecutorRefuse ==
    LET c == exec.job
        to == exec.verdict.decision
        code == exec.verdict.error_code
        row == IF to = "denied" THEN DeniedRow(c, code, code = "stale_evidence")
               ELSE cmd[c]
    IN  /\ exec.pc = "act" /\ to \in {"denied", "expired"}
        /\ \/ /\ transition_command(c, to, EXECUTOR, row)
              /\ exec' = ExecutorAt("sweep", NoCommand)
           \/ /\ ~CanMove(c, to)
              /\ UNCHANGED storeVars
              /\ exec' = ExecutorAt("down", NoCommand)
        /\ UNCHANGED <<overdue, desk, held, field, ver, outcomes>>

\* execute_command: the status is read again, then moved under the lock.  If
\* it changed before the read the job is dropped, if between the read and the
\* lock the process goes down.
ExecutorBegin ==
    LET c == exec.job IN
    /\ exec.pc = "act" /\ exec.verdict.decision = "approved"
    /\ \/ /\ transition_command(c, "executing", EXECUTOR, cmd[c])
          /\ exec' = ExecutorAt("launch", c)
       \/ /\ ~CanMove(c, "executing")
          /\ UNCHANGED storeVars
          /\ exec' \in {ExecutorAt("sweep", NoCommand), ExecutorAt("down", NoCommand)}
    /\ UNCHANGED <<overdue, desk, held, field, ver, outcomes>>

\* action.json is written and the container started, or the system refuses.
ExecutorLaunch ==
    LET c == exec.job IN
    /\ exec.pc = "launch"
    /\ \/ /\ field' = [field EXCEPT ![c] = "running"]
          /\ exec' = ExecutorAt("await", c)
       \/ /\ exec' = [exec EXCEPT !.pc = "record", !.report = "os_error"]
          /\ UNCHANGED field
    /\ UNCHANGED <<storeVars, overdue, desk, held, ver, outcomes>>

\* What the executor may learn of the container: its result, that it ended
\* without one, or that EXECUTION_TIMEOUT_S has passed.
Heard(c) ==
    IF field[c] = "running" THEN {"timeout"}
    ELSE IF field[c] = "lost" THEN {"no_result"}
    ELSE {IF field[c] = "applied" THEN "acknowledged" ELSE "refused",
          "no_result", "timeout"}

ExecutorHear ==
    /\ exec.pc = "await"
    /\ \E report \in Heard(exec.job) :
         exec' = [exec EXCEPT !.pc = "record", !.report = report]
    /\ UNCHANGED <<storeVars, overdue, desk, held, field, ver, outcomes>>

ExecutorRecord ==
    LET c == exec.job IN
    /\ exec.pc = "record"
    /\ \/ /\ exec.report = "acknowledged"
          /\ transition_command(c, "executed", EXECUTOR,
                                [cmd[c] EXCEPT !.acknowledged = TRUE])
       \/ /\ exec.report = "refused"
          /\ transition_command(c, "failed", EXECUTOR,
                                ErrorRow(c, "invalid_target", FALSE))
       \/ /\ exec.report \in {"no_result", "timeout"}
          /\ transition_command(c, "failed", EXECUTOR,
                                ErrorRow(c, "adapter_unreachable", TRUE))
       \/ /\ exec.report = "os_error"
          /\ transition_command(c, "failed", EXECUTOR, ErrorRow(c, "internal", TRUE))
    /\ exec' = ExecutorAt("sweep", NoCommand)
    /\ UNCHANGED <<overdue, desk, held, field, ver, outcomes>>

\* The process is killed, or loses the database and reconnects (the holds
\* survive only the latter).
ExecutorCrash ==
    /\ exec.pc # "down"
    /\ exec' = ExecutorAt("down", NoCommand)
    /\ held' \in {held, {}}
    /\ UNCHANGED <<storeVars, overdue, desk, field, ver, outcomes>>

----------------------------------------------------------------------------
(* The field: run_action.py in the container the dispatch started.         *)

FieldDoes(c, effect) ==
    /\ field[c] = "running"
    /\ field' = [field EXCEPT ![c] = effect]
    /\ UNCHANGED <<storeVars, overdue, desk, exec, held, ver, outcomes>>

FieldApply(c) == FieldDoes(c, "applied")
FieldRefuse(c) == FieldDoes(c, "refused")
FieldLose(c) == FieldDoes(c, "lost")

----------------------------------------------------------------------------
(* The outcome verifier.  A raised error ends the process; it keeps no     *)
(* state, so a restarted one is an idle one.                               *)

VERIFIABLE_STATUSES == {"executed", "rolled_back"}

\* Adapters with nothing to reverse; every other undo is unavailable here.
NothingToUndo == {"variable_message_sign", "transit_priority",
                  "emergency_preemption"}

Independent(c) ==
    OUTCOME_VERIFIER \notin
        {cmd[c].requested_by, cmd[c].approved_by} \cup
        {m.by : m \in {n \in trail[c] : n.to \in {"executing", "executed"}}}

VerifierPick(c) ==
    /\ ver.pc = "idle"
    /\ cmd[c].status = "executed" /\ cmd[c].acknowledged
    /\ outcomes[c] = {} /\ c \in OnCorridor
    /\ ver' = [IdleVerifier EXCEPT !.pc = "picked", !.cmd = c]
    /\ UNCHANGED <<storeVars, overdue, desk, exec, held, field, outcomes>>

\* Faulty: an outcome that cannot be told is left for another time.
JudgeKnownOnly ==
    /\ ver.pc = "picked"
    /\ \/ ver' = IdleVerifier
       \/ /\ cmd[ver.cmd].status = "executed" /\ Independent(ver.cmd)
          /\ \E found \in {"effective", "ineffective"} :
               ver' = [ver EXCEPT !.pc = "record", !.found = found]
    /\ UNCHANGED <<storeVars, overdue, desk, exec, held, field, outcomes>>

VerifierJudge ==
    LET c == ver.cmd IN
    /\ ver.pc = "picked"
    /\ IF cmd[c].status = "executed" /\ Independent(c)
       THEN \E found \in Classifications :
              ver' = [ver EXCEPT
                        !.pc = IF found = "unsafe" /\ ActionOf[c] \in NothingToUndo
                               THEN "rollback" ELSE "record",
                        !.found = found]
       ELSE ver' = IdleVerifier
    /\ UNCHANGED <<storeVars, overdue, desk, exec, held, field, outcomes>>

\* Faulty: a rollback that lost its race is still reported as one.
RollBackRegardless ==
    LET c == ver.cmd IN
    /\ ver.pc = "rollback"
    /\ \/ transition_command(c, "rolled_back", OUTCOME_VERIFIER, cmd[c])
       \/ ~CanMove(c, "rolled_back") /\ UNCHANGED storeVars
    /\ ver' = [ver EXCEPT !.pc = "record", !.rolled = TRUE]
    /\ UNCHANGED <<overdue, desk, exec, held, field, outcomes>>

VerifierRollBack ==
    LET c == ver.cmd IN
    /\ ver.pc = "rollback"
    /\ \/ /\ transition_command(c, "rolled_back", OUTCOME_VERIFIER, cmd[c])
          /\ ver' = [ver EXCEPT !.pc = "record", !.rolled = TRUE]
       \/ /\ ~CanMove(c, "rolled_back")
          /\ UNCHANGED storeVars
          /\ ver' = IdleVerifier
    /\ UNCHANGED <<overdue, desk, exec, held, field, outcomes>>

\* record_outcome, a transaction of its own.
VerifierRecord ==
    LET c == ver.cmd IN
    /\ ver.pc = "record"
    /\ IF cmd[c].status \in VERIFIABLE_STATUSES /\ Independent(c)
       THEN outcomes' = [outcomes EXCEPT ![c] = @ \cup
                           {[classification |-> ver.found,
                             rollback_triggered |-> ver.rolled]}]
       ELSE UNCHANGED outcomes
    /\ ver' = IdleVerifier
    /\ UNCHANGED <<storeVars, overdue, desk, exec, held, field>>

VerifierCrash == /\ ver.pc # "idle"
                 /\ ver' = IdleVerifier
                 /\ UNCHANGED <<storeVars, overdue, desk, exec, held, field,
                                outcomes>>
----------------------------------------------------------------------------
People_Next ==
    \E p \in People :
        \/ \E c \in Commands : \/ RequestCommand(p, c)
                               \/ OpenReview(p, c)
                               \/ OpenDenial(p, c)
                               \/ OpenOverride(p, c)
        \/ EvaluateReview(p)
        \/ ApplyReview(p)
        \/ ApplyDenial(p)
        \/ ApplyOverride(p)
        \/ HandlerLost(p)

Executor_Next ==
    \/ ExecutorStart \/ ExecutorSweep \/ ExecutorPick \/ ExecutorGate
    \/ ExecutorHold \/ ExecutorRefuse \/ ExecutorBegin \/ ExecutorLaunch
    \/ ExecutorHear \/ ExecutorRecord

Verifier_Next ==
    \/ \E c \in Commands : VerifierPick(c)
    \/ VerifierJudge \/ VerifierRollBack \/ VerifierRecord

Environment_Next ==
    \/ \E c \in Commands : \/ Deadline(c)
                           \/ HoldOver(c)
                           \/ FieldApply(c)
                           \/ FieldRefuse(c)
                           \/ FieldLose(c)
    \/ ExecutorCrash
    \/ VerifierCrash

Next == People_Next \/ Executor_Next \/ Verifier_Next \/ Environment_Next

Spec == Init /\ [][Next]_vars

\* The executor and the verifier poll for ever and are restarted when they
\* die, so each keeps taking the step it is at; strong fairness says that a
\* crash does not hit every pass at the same point.  Deadlines are clock time.
\* People, and the adapter's container, owe nobody a step.
Fairness ==
    /\ WF_vars(ExecutorStart)
    /\ SF_vars(ExecutorSweep)
    /\ WF_vars(Executor_Next)
    /\ WF_vars(\E c \in Commands : Deadline(c))
    /\ \A c \in OnCorridor : SF_vars(VerifierPick(c))
    /\ SF_vars(VerifierJudge) /\ SF_vars(VerifierRollBack \/ VerifierRecord)

FairSpec == Spec /\ Fairness

----------------------------------------------------------------------------
(* Safety.                                                                 *)

Acting == {"executing", "executed", "failed", "rolled_back"}

\* No action reaches the field on one person's word: whatever a container was
\* started for has been requested by one person, approved by another who held
\* the role recorded, and moved to executing by the executor alone - although
\* every handler judged it on an unlocked read.
EffectIsAuthorised ==
    \A c \in Commands : field[c] # "untouched" =>
        /\ cmd[c].status \in Acting
        /\ cmd[c].requested_by \in People
        /\ cmd[c].approved_by \in People \ {cmd[c].requested_by}
        /\ cmd[c].approved_by_role \in RolesOf[cmd[c].approved_by]
        /\ {m.by : m \in {n \in trail[c] : n.to = "executing"}} = {EXECUTOR}

\* What is executing is the job the one executor has in hand, or the executor
\* is down: reconcile() at start finds exactly the orphans, and reconcile()
\* while running finds none.
ExecutingIsInHand ==
    \A c \in WithStatus({"executing"}) :
        \/ exec.pc = "down"
        \/ exec.pc \in {"launch", "await", "record"} /\ exec.job = c

\* contracts/command/v1: `error` is present only when the status is failed or
\* the policy decision is denied or policy_unavailable; and a command past its
\* approval carries the approval's decision, whatever outage was recorded by a
\* slower reviewer.
ErrorAndDecisionAgree ==
    \A c \in Commands :
        /\ cmd[c].error_code # "none" =>
              \/ cmd[c].status = "failed"
              \/ cmd[c].policy_decision \in {"denied", "policy_unavailable"}
        /\ cmd[c].status \in {"approved"} \cup Acting =>
              cmd[c].policy_decision = "approved"

\* An outcome is recorded only for an action that took effect, once, and says
\* "rolled back" only of a command that is: an override that overtakes the
\* verifier never leaves a claim the record contradicts.
OutcomeMatchesRecord ==
    \A c \in Commands : \A o \in outcomes[c] :
        /\ field[c] = "applied" /\ outcomes[c] = {o}
        /\ cmd[c].status \in VERIFIABLE_STATUSES
        /\ o.rollback_triggered =>
              /\ cmd[c].status = "rolled_back"
              /\ \E m \in trail[c] : m.to = "rolled_back" /\ m.by = OUTCOME_VERIFIER

----------------------------------------------------------------------------
(* Why the safety properties hold: what is true of the processes between   *)
(* their reads and their writes, proved inductive in CommandPathProofs.    *)

\* Whoever has a handler open acts on a real command in a role they hold ...
DeskInOrder ==
    \A p \in People : desk[p].step # "idle" =>
        /\ desk[p].cmd \in WithStatus(Statuses \ {"absent"})
        /\ desk[p].role \in RolesOf[p]

\* ... a reviewer is not the requester ...
ReviewerIsAnother ==
    \A p \in People : desk[p].step \in {"reviewing", "decided"} =>
        cmd[desk[p].cmd].requested_by # p

\* ... and whoever approved was not.
ApprovedByAnother ==
    \A c \in Commands :
        /\ cmd[c].status # "absent" => cmd[c].requested_by \in People
        /\ cmd[c].status \in {"approved"} \cup Acting =>
              /\ cmd[c].approved_by \in People \ {cmd[c].requested_by}
              /\ cmd[c].approved_by_role \in RolesOf[cmd[c].approved_by]

OnlyExecutorDispatches ==
    \A c \in Commands :
        /\ \A m \in trail[c] : m.to = "executing" => m.by = EXECUTOR
        /\ cmd[c].status \in Acting => \E m \in trail[c] : m.to = "executing"

EffectFitsStatus ==
    \A c \in Commands :
        /\ field[c] # "untouched" => cmd[c].status \in Acting
        /\ field[c] = "running" => cmd[c].status \in {"executing", "failed"}
        /\ cmd[c].status \in {"executed", "rolled_back"} => field[c] = "applied"

JobInHand ==
    /\ exec.pc \in {"gate", "act", "launch", "await", "record"} => exec.job \in Commands
    /\ exec.pc \in {"launch", "await", "record"} => cmd[exec.job].status = "executing"
    /\ exec.pc = "launch" => field[exec.job] = "untouched"
    /\ exec.pc = "record" /\ exec.report = "acknowledged" => field[exec.job] = "applied"

VerifierTruthful ==
    /\ ver.pc # "idle" => ver.cmd \in Commands /\ outcomes[ver.cmd] = {}
    /\ ver.pc \in {"rollback", "record"} => ver.found \in Classifications
    /\ ver.rolled => /\ ver.pc = "record" /\ cmd[ver.cmd].status = "rolled_back"
                     /\ \E m \in trail[ver.cmd] :
                          m.to = "rolled_back" /\ m.by = OUTCOME_VERIFIER

\* What the table alone shows, and what the table and the processes show.
RecordSound == ApprovedByAnother /\ OnlyExecutorDispatches /\ ErrorAndDecisionAgree
PeopleSound == DeskInOrder /\ ReviewerIsAnother
EffectSound == EffectFitsStatus /\ JobInHand /\ ExecutingIsInHand
OutcomeSound == VerifierTruthful /\ OutcomeMatchesRecord

\* The inductive invariant: each process tells the truth about what it is doing,
\* and the table, the field and the outcomes fit together.
IInv == TypeOK /\ RecordSound /\ PeopleSound /\ EffectSound /\ OutcomeSound

----------------------------------------------------------------------------
(* What a step may never do.                                               *)

\* A container is started at most once per command: no retry, restart, late
\* approval or stale handler sends an action into the field again, also when
\* the first attempt was refused, lost or never heard of.
NeverRepeated ==
    [][\A c \in Commands :
         field[c] # "untouched" => (field'[c] = "running" => field[c] = "running")]_vars

----------------------------------------------------------------------------
(* Liveness.                                                               *)

\* Nothing waits or executes for ever: whoever does not answer, whatever is
\* down and however often the executor dies, a command is acted on or expires,
\* and what was begun ends.  (A command waits once, so that all of them end
\* is that again and again none is left.)
EveryCommandEnds ==
    []<>(WithStatus({"requested", "approved", "executing"}) = {})

\* An executed command whose corridor is known gets its outcome, unless it has
\* been rolled back: again and again all of them have one.
ExecutedIsVerified ==
    []<>(\A c \in OnCorridor \cap WithStatus({"executed"}) : outcomes[c] # {})

----------------------------------------------------------------------------
(* The promise kept.                                                       *)

StageOf == [s \in Statuses |->
    IF s = "absent" THEN "none"
    ELSE IF s = "requested" THEN "asked"
    ELSE IF s = "approved" THEN "granted"
    ELSE IF s \in {"denied", "expired"} THEN "withdrawn"
    ELSE IF s = "executing" THEN "started"
    ELSE IF s = "executed" THEN "done"
    ELSE IF s = "failed" THEN "closed"
    ELSE "undone"]

Promise == INSTANCE ProtectedAction WITH
    stage  <- [c \in Commands |-> StageOf[cmd[c].status]],
    effect <- [c \in Commands |-> field[c] = "applied"]

\* The command path implements the promise of ProtectedAction.
KeepsPromise == Promise!Spec

----------------------------------------------------------------------------
(* What the code's own documentation says of it.                           *)

\* executor_worker.py: when it is not known whether an action took effect the
\* command is failed and not retryable.
UnknownEffectIsNotRetryable ==
    \A c \in Commands :
        cmd[c].status = "failed" /\ cmd[c].error_retryable =>
            field[c] \notin {"running", "applied"}

\* verifier_worker.py: what the verifier found is recorded, a rollback of its
\* own included.
VerifierRollbackIsRecorded ==
    \A c \in Commands :
        (\E m \in trail[c] : m.to = "rolled_back" /\ m.by = OUTCOME_VERIFIER)
            => outcomes[c] # {} \/ (ver.pc = "record" /\ ver.cmd = c)
=============================================================================
