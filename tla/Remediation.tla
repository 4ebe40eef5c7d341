---------------------------- MODULE Remediation ----------------------------
(***************************************************************************)
(* The remediation of platform incidents: the request table                *)
(* (backend/repositories/remediation.py, migration 0030), the worker       *)
(* (backend/aiops/remediation_worker.py), the policy it asks               *)
(* (policy/aiops/remediation/remediation.rego), the people who approve,    *)
(* and the correlator that opens and resolves incidents.                   *)
(*                                                                         *)
(* A request is named by its idempotency key: incident, action (each has   *)
(* one target in the playbook) and the number of the request.  Every step  *)
(* is one transaction, one question to the policy engine or one call of an *)
(* adapter, so anything may happen between two of them.  What an adapter   *)
(* (or the undo of its action) does to the platform is left out.           *)
(***************************************************************************)
EXTENDS Naturals, Sequences, FiniteSets

CONSTANTS Workers, People, Incidents, Actions,
          None,               \* no request, no incident
          RoleOf,             \* the role of each person
          Playbook,           \* PLAYBOOK: the actions to try, by incident
          Autonomy,           \* of each action on its target
          ActionLimit,        \* max_attempts_per_incident of each action
          MAX_ATTEMPTS_PER_INCIDENT,
          MaxRequests,        \* bound: requests of one action for one incident
          MaxReopens,         \* bound: reopenings of one incident
          MaxMisapprovals,    \* bound: approvals by a role the policy refuses
          MaxCrashes          \* bound: no crash after so many stops

APPROVER_ROLES == {"operator", "supervisor"}

Keys == Incidents \X Actions \X (1..MaxRequests)

ASSUME RemediationAssumption ==
    /\ None \notin Keys /\ None \notin Incidents
    /\ RoleOf \in [People -> {"operator", "supervisor", "dispatcher"}]
    /\ Playbook \in [Incidents -> Seq(Actions)]
    /\ Autonomy \in [Actions -> {"auto", "approval", "plan_only"}]
    /\ ActionLimit \in [Actions -> Nat]
    /\ MAX_ATTEMPTS_PER_INCIDENT \in Nat
    /\ MaxRequests \in Nat /\ MaxReopens \in Nat /\ MaxCrashes \in Nat

VARIABLES incident,           \* platform_incidents
          request,            \* remediation_requests, by key
          planned,            \* the plan-only requests on record
          worker,             \* where each worker is in its cycle
          desk,               \* the request a person is about to approve
          stops,              \* history: how often a worker stopped
          called              \* history: the requests whose adapter was called

vars == <<incident, request, planned, worker, desk, stops, called>>

Statuses == {"none", "awaiting_approval", "approved", "executing", "executed",
             "verified", "failed", "abandoned", "expired"}

\* Faulty: an abandoned request is no attempt.
COUNTED_KNOWN == {"executing", "executed", "verified", "failed"}

COUNTED == {"executing", "executed", "verified", "failed", "abandoned"}
IN_FLIGHT == {"approved", "executing", "executed"}

\* Faulty: what is executing can still expire.
ExpiringTransitions ==
    [s \in Statuses |->
       CASE s = "awaiting_approval" -> {"approved", "expired"}
         [] s = "approved"          -> {"executing", "abandoned", "expired"}
         [] s = "executing"         -> {"executed", "failed", "abandoned", "expired"}
         [] s = "executed"          -> {"verified", "failed"}
         [] OTHER                   -> {}]

\* Faulty: what is executing can be started again.
RestartingTransitions ==
    [s \in Statuses |->
       CASE s = "awaiting_approval" -> {"approved", "expired"}
         [] s = "approved"          -> {"executing", "abandoned", "expired"}
         [] s = "executing"         -> {"executing", "executed", "failed", "abandoned"}
         [] s = "executed"          -> {"verified", "failed"}
         [] OTHER                   -> {}]

ALLOWED_TRANSITIONS ==
    [s \in Statuses |->
       CASE s = "awaiting_approval" -> {"approved", "expired"}
         [] s = "approved"          -> {"executing", "abandoned", "expired"}
         [] s = "executing"         -> {"executed", "failed", "abandoned"}
         [] s = "executed"          -> {"verified", "failed"}
         [] OTHER                   -> {}]

Live == {"open", "reopened"}
HELD_BY_PERSON == {"acknowledged", "escalated"}

\* age counts the limits a request has outlived in its status.
\*   awaiting, approved:  1 execute timeout and grace, 2 APPROVAL_TTL_S,
\*                        both since requested_at
\*   executing: 1 execute timeout and grace; executed: 1 verify_timeout_s;
\*   verified:  1 RECOVERY_GRACE_S
Requests == [status : Statuses, age : {0, 1, 2}, by : People \cup {None}]

NoRequest == [status |-> "none", age |-> 0, by |-> None]

Places == {"idle", "expire", "abandon", "verify", "run", "judge", "withdraw",
           "start", "call", "worked", "broke", "incidents", "ask",
           "plan", "create", "escalate"}

TypeOK ==
    /\ incident \in [Incidents -> [status : Live \cup HELD_BY_PERSON \cup {"resolved"},
                                   active : BOOLEAN, old : BOOLEAN,
                                   reopens : 0..MaxReopens]]
    /\ request \in [Keys -> Requests]
    /\ planned \subseteq Incidents \X Actions
    /\ worker \in [Workers -> [pc : Places, rows : SUBSET Keys,
                               incs : SUBSET Incidents,
                               inc : Incidents \cup {None},
                               tried : Nat, spent : Nat,
                               key : Keys \cup {None}]]
    /\ desk \in [People -> Keys \cup {None}]
    /\ stops \in 0..MaxCrashes
    /\ called \subseteq Keys

Idle == [pc |-> "idle", rows |-> {}, incs |-> {}, inc |-> None,
         tried |-> 0, spent |-> 0, key |-> None]

Init ==
    /\ incident = [i \in Incidents |-> [status |-> "open", active |-> TRUE,
                                        old |-> FALSE, reopens |-> 0]]
    /\ request = [k \in Keys |-> NoRequest]
    /\ planned = {}
    /\ worker = [w \in Workers |-> Idle]
    /\ desk = [p \in People |-> None]
    /\ stops = 0
    /\ called = {}

----------------------------------------------------------------------------
(* The request table.                                                      *)

In(statuses) == {k \in Keys : request[k].status \in statuses}

\* Faulty: the index leaves out what is being judged.
BusyRunning == In({"approved", "executing"}) # {}

\* remediation_one_in_flight refuses another row.
Busy == In(IN_FLIGHT) # {}

\* history_facts: the counts the policy decides over.
Counted(i) == {k \in In(COUNTED) : k[1] = i}
Attempts(i, a) == Cardinality({k \in Counted(i) : k[2] = a})
RequestsFor(i, a) ==
    Cardinality({n \in 1..MaxRequests : request[<<i, a, n>>].status # "none"})
AttemptedOn(a) == \E k \in In(COUNTED) : k[2] = a

\* A worker that raises stops; its supervisor starts it again.
Stop(w) ==
    /\ worker' = [worker EXCEPT ![w] = Idle]
    /\ stops' = IF stops < MaxCrashes THEN stops + 1 ELSE stops
    /\ UNCHANGED request

\* transition(): along ALLOWED_TRANSITIONS or InvalidTransition.
Transition(w, k, to, next) ==
    IF to \in ALLOWED_TRANSITIONS[request[k].status]
    THEN /\ request' = [request EXCEPT ![k].status = to, ![k].age = 0]
         /\ worker' = [worker EXCEPT ![w] = next]
         /\ UNCHANGED stops
    ELSE Stop(w)

----------------------------------------------------------------------------
(* A cycle of the worker: housekeeping, judging, running what was approved.*)

Goes(w, rec) == worker' = [worker EXCEPT ![w] = rec]

StartCycle(w) ==
    /\ worker[w].pc = "idle"
    /\ Goes(w, [Idle EXCEPT !.pc = "expire",
                            !.rows = {k \in In({"awaiting_approval"}) : request[k].age = 2}])
    /\ UNCHANGED <<incident, request, planned, desk, stops, called>>

\* Faulty: only what is executing is looked at.
InterruptedRuns == {k \in In({"executing"}) : request[k].age > 0}

\* abandon_interrupted: of an approved row the time since requested_at counts.
Interrupted == {k \in In({"approved", "executing"}) : request[k].age > 0}

\* The rows of one phase are dealt with: the rows of the next are read.
NextPhase(w) ==
    /\ worker[w].rows = {}
    /\ \/ /\ worker[w].pc = "expire"
          /\ Goes(w, [Idle EXCEPT !.pc = "abandon",
                        !.rows = Interrupted])
       \/ /\ worker[w].pc = "abandon"
          /\ Goes(w, [Idle EXCEPT !.pc = "verify", !.rows = In({"executed"})])
       \/ /\ worker[w].pc = "verify"
          /\ Goes(w, [Idle EXCEPT !.pc = "run", !.rows = In({"approved"})])
       \/ /\ worker[w].pc = "run"
          /\ Goes(w, [Idle EXCEPT !.pc = "incidents",
                        !.incs = {i \in Incidents : incident[i].status \in Live}])
       \/ /\ worker[w].pc = "incidents" /\ worker[w].incs = {}
          /\ Goes(w, Idle)
    /\ UNCHANGED <<incident, request, planned, desk, stops, called>>

Without(w, k) == [worker[w] EXCEPT !.rows = @ \ {k}]

ExpireStale(w) ==
    /\ worker[w].pc = "expire"
    /\ \E k \in worker[w].rows : Transition(w, k, "expired", Without(w, k))
    /\ UNCHANGED <<incident, planned, desk, called>>

AbandonInterrupted(w) ==
    /\ worker[w].pc = "abandon"
    /\ \E k \in worker[w].rows : Transition(w, k, "abandoned", Without(w, k))
    /\ UNCHANGED <<incident, planned, desk, called>>

\* The alerts stayed clear; or they did not, or could not be read, until the
\* verification timeout; or it is too early to tell.
VerifyExecuted(w) ==
    /\ worker[w].pc = "verify"
    /\ \E k \in worker[w].rows :
         \/ Transition(w, k, "verified", Without(w, k))
         \/ /\ request[k].status = "executed" => request[k].age > 0
            /\ Transition(w, k, "failed", Without(w, k))
         \/ /\ request[k].status = "executed" => request[k].age = 0
            /\ Goes(w, Without(w, k))
            /\ UNCHANGED <<request, stops>>
    /\ UNCHANGED <<incident, planned, desk, called>>

RunApproved(w) ==
    /\ worker[w].pc = "run"
    /\ \E k \in worker[w].rows :
         Goes(w, [Without(w, k) EXCEPT !.pc = "judge", !.key = k])
    /\ UNCHANGED <<incident, request, planned, desk, stops, called>>

\* Where _execute returns to: _run_approved, or _act_on_incidents.
Return(w) == [worker[w] EXCEPT !.pc = IF worker[w].inc = None THEN "run" ELSE "incidents",
                               !.inc = None, !.tried = 0, !.spent = 0, !.key = None]

\* Faulty: any role may approve.
MayExecuteForAnyone(k) ==
    /\ incident[k[1]].status \notin HELD_BY_PERSON \cup {"resolved"}
    /\ Cardinality(In(IN_FLIGHT)) <= 1
    /\ Autonomy[k[2]] # "plan_only"
    /\ Autonomy[k[2]] = "approval" => request[k].by # None

\* remediation.rego, phase execute.
MayExecute(k) ==
    /\ incident[k[1]].status \notin HELD_BY_PERSON \cup {"resolved"}
    /\ Cardinality(In(IN_FLIGHT)) <= 1
    /\ Autonomy[k[2]] # "plan_only"
    /\ Autonomy[k[2]] = "approval" => /\ request[k].by # None
                                      /\ RoleOf[request[k].by] \in APPROVER_ROLES

\* _execute asks the policy about the incident as it is now.  No answer ends
\* the cycle when the request is new, the worker when it waited for its turn.
Judge(w) ==
    /\ worker[w].pc = "judge"
    /\ \/ /\ Goes(w, [worker[w] EXCEPT !.pc = IF MayExecute(worker[w].key)
                                              THEN "start" ELSE "withdraw"])
          /\ UNCHANGED <<request, stops>>
       \/ /\ worker[w].inc # None
          /\ Goes(w, Idle)
          /\ UNCHANGED <<request, stops>>
       \/ worker[w].inc = None /\ Stop(w)
    /\ UNCHANGED <<incident, planned, desk, called>>

Withdraw(w) ==
    /\ worker[w].pc = "withdraw"
    /\ Transition(w, worker[w].key, "expired", Return(w))
    /\ UNCHANGED <<incident, planned, desk, called>>

Start(w) ==
    /\ worker[w].pc = "start"
    /\ Transition(w, worker[w].key, "executing", [worker[w] EXCEPT !.pc = "call"])
    /\ UNCHANGED <<incident, planned, desk, called>>

\* From here on the adapter works: it does what is asked, or refuses, fails
\* or raises.
CallAdapter(w) ==
    /\ worker[w].pc = "call"
    /\ \E to \in {"worked", "broke"} : Goes(w, [worker[w] EXCEPT !.pc = to])
    /\ called' = called \cup {worker[w].key}
    /\ UNCHANGED <<incident, request, planned, desk, stops>>

Record(w) ==
    /\ \/ /\ worker[w].pc = "worked"
          /\ Transition(w, worker[w].key, "executed", Return(w))
       \/ /\ worker[w].pc = "broke"
          /\ Transition(w, worker[w].key, "failed", Return(w))
    /\ UNCHANGED <<incident, planned, desk, called>>

----------------------------------------------------------------------------
(* Acting on the incidents that were live when the list was read.          *)

\* Faulty: a request that waits for approval does not count as pending.
PendingInFlight(i) == \E k \in In(IN_FLIGHT) : k[1] = i

Pending(i) ==
    \E k \in In(IN_FLIGHT \cup {"awaiting_approval"}) : k[1] = i
JustVerified(i) ==
    \E k \in In({"verified"}) : k[1] = i /\ request[k].age = 0

\* Faulty: no incident is too old for automation.
ConsiderForEver(w) ==
    /\ worker[w].pc = "incidents"
    /\ \E i \in worker[w].incs :
         LET rest == [worker[w] EXCEPT !.incs = @ \ {i}]
         IN IF Pending(i) \/ JustVerified(i) \/ ~incident[i].active \/ Playbook[i] = <<>>
            THEN Goes(w, rest)
            ELSE Goes(w, [rest EXCEPT !.pc = "ask", !.inc = i])
    /\ UNCHANGED <<incident, request, planned, desk, stops, called>>

Consider(w) ==
    /\ worker[w].pc = "incidents"
    /\ \E i \in worker[w].incs :
         LET rest == [worker[w] EXCEPT !.incs = @ \ {i}]
             handOver == [rest EXCEPT !.pc = "escalate", !.inc = i]
         IN \/ /\ Pending(i) \/ JustVerified(i) \/ ~incident[i].active
               /\ Goes(w, rest)
            \/ /\ ~(Pending(i) \/ JustVerified(i)) /\ incident[i].active
               /\ IF incident[i].old THEN Goes(w, handOver)
                  ELSE IF Playbook[i] = <<>> THEN Goes(w, handOver) \/ Goes(w, rest)
                  ELSE Goes(w, [rest EXCEPT !.pc = "ask", !.inc = i])
    /\ UNCHANGED <<incident, request, planned, desk, stops, called>>

\* The next playbook line; after the last, hand over if all are spent.
TryNext(w, spent) ==
    LET n == worker[w].tried + 1
    IN IF n < Len(Playbook[worker[w].inc])
       THEN Goes(w, [worker[w] EXCEPT !.tried = n, !.spent = spent])
       ELSE IF spent = Len(Playbook[worker[w].inc])
       THEN Goes(w, [worker[w] EXCEPT !.pc = "escalate"])
       ELSE Goes(w, Return(w))

\* _try_candidates asks about one line: remediation.rego, phase request, the
\* lowest rank first.  The incident's status is the one of the list, live.
\* Cooldown and rate depend on times: either may bind once there was an attempt.
Ask(w) ==
    LET i == worker[w].inc
        a == Playbook[i][worker[w].tried + 1]
        budgetSpent == Cardinality(Counted(i)) >= MAX_ATTEMPTS_PER_INCIDENT
        actionSpent == Attempts(i, a) >= ActionLimit[a]
    IN /\ worker[w].pc = "ask"
       /\ \/ Goes(w, Idle)                                \* PolicyUnavailable
          \/ /\ budgetSpent
             /\ Goes(w, [worker[w] EXCEPT !.pc = "escalate"])
          \/ /\ ~budgetSpent /\ actionSpent
             /\ TryNext(w, worker[w].spent + 1)
          \/ /\ ~budgetSpent /\ ~actionSpent /\ AttemptedOn(a)
             /\ TryNext(w, worker[w].spent)
          \/ /\ ~budgetSpent /\ ~actionSpent /\ Busy
             /\ Goes(w, Return(w))
          \/ /\ ~budgetSpent /\ ~actionSpent /\ ~Busy
             /\ \/ /\ Autonomy[a] = "plan_only"
                   /\ Goes(w, [worker[w] EXCEPT !.pc = "plan"])
                \/ /\ Autonomy[a] # "plan_only"
                   /\ RequestsFor(i, a) < MaxRequests
                   /\ Goes(w, [worker[w] EXCEPT !.pc = "create",
                                 !.key = <<i, a, RequestsFor(i, a) + 1>>])
       /\ UNCHANGED <<incident, request, planned, desk, stops, called>>

\* A plan is recorded once; recording it hands the incident over.
Plan(w) ==
    LET line == <<worker[w].inc, Playbook[worker[w].inc][worker[w].tried + 1]>>
    IN /\ worker[w].pc = "plan"
       /\ planned' = planned \cup {line}
       /\ Goes(w, IF line \in planned THEN Return(w)
                  ELSE [worker[w] EXCEPT !.pc = "escalate"])
       /\ UNCHANGED <<incident, request, desk, stops, called>>

\* create_request: an existing key is left alone, a second approved row is Busy.
Create(w) ==
    LET k == worker[w].key
        auto == Autonomy[k[2]] = "auto"
    IN /\ worker[w].pc = "create"
       /\ IF request[k].status # "none" \/ (auto /\ Busy)
          THEN /\ Goes(w, Return(w))
               /\ UNCHANGED request
          ELSE /\ request' = [request EXCEPT ![k].status =
                                IF auto THEN "approved" ELSE "awaiting_approval"]
               /\ Goes(w, IF auto THEN [worker[w] EXCEPT !.pc = "judge"] ELSE Return(w))
       /\ UNCHANGED <<incident, planned, desk, stops, called>>

Escalate(w) ==
    /\ worker[w].pc = "escalate"
    /\ incident' = [incident EXCEPT ![worker[w].inc].status =
                      IF @ \in Live THEN "escalated" ELSE @]
    /\ Goes(w, Return(w))
    /\ UNCHANGED <<request, planned, desk, stops, called>>

Crash(w) ==
    /\ worker[w].pc # "idle"
    /\ stops < MaxCrashes
    /\ Stop(w)
    /\ UNCHANGED <<incident, planned, desk, called>>

Cycle(w) ==
    \/ StartCycle(w) \/ NextPhase(w) \/ ExpireStale(w) \/ AbandonInterrupted(w)
    \/ VerifyExecuted(w) \/ RunApproved(w) \/ Judge(w) \/ Withdraw(w) \/ Start(w)
    \/ CallAdapter(w) \/ Record(w) \/ Consider(w) \/ Ask(w)
    \/ Plan(w) \/ Create(w) \/ Escalate(w)

----------------------------------------------------------------------------
(* People, the correlator, the clock.                                      *)

\* approve() is called with the time it was asked for ...
AskToApprove(p, k) ==
    /\ desk[p] = None
    /\ request[k].status = "awaiting_approval" /\ request[k].age < 2
    /\ RoleOf[p] \in APPROVER_ROLES
         \/ Cardinality({m \in Keys : /\ request[m].by # None
                                      /\ RoleOf[request[m].by] \notin APPROVER_ROLES})
            < MaxMisapprovals
    /\ desk' = [desk EXCEPT ![p] = k]
    /\ UNCHANGED <<incident, request, planned, worker, stops, called>>

\* ... and then waits for the row.  InvalidTransition and Busy change nothing.
Approve(p) ==
    LET k == desk[p]
    IN /\ k # None
       /\ request' = IF request[k].status = "awaiting_approval" /\ ~Busy
                     THEN [request EXCEPT ![k].status = "approved", ![k].by = p]
                     ELSE request
       /\ desk' = [desk EXCEPT ![p] = None]
       /\ UNCHANGED <<incident, planned, worker, stops, called>>

SetIncident(i, rec) ==
    /\ incident' = [incident EXCEPT ![i] = rec]
    /\ UNCHANGED <<request, planned, worker, desk, stops, called>>

\* A person acknowledges it; escalating it by hand is the same to the worker.
TakeOver(i) ==
    /\ incident[i].status \in Live
    /\ SetIncident(i, [incident[i] EXCEPT !.status = "acknowledged"])

\* sync(): signals clear and come back; a quiet incident resolves; signals
\* that come back soon reopen it, with the opened_at it had.
SignalsChange(i) ==
    /\ incident[i].status # "resolved"
    /\ SetIncident(i, [incident[i] EXCEPT !.active = ~@])

Resolve(i) ==
    /\ incident[i].status # "resolved" /\ ~incident[i].active
    /\ SetIncident(i, [incident[i] EXCEPT !.status = "resolved"])

Reopen(i) ==
    /\ incident[i].status = "resolved" /\ incident[i].reopens < MaxReopens
    /\ SetIncident(i, [incident[i] EXCEPT !.status = "reopened", !.active = TRUE,
                                          !.reopens = @ + 1])

\* ESCALATE_AFTER_S after opened_at, which nobody reads of an incident in
\* somebody's hands.
IncidentAges(i) ==
    /\ incident[i].status \in Live /\ ~incident[i].old
    /\ SetIncident(i, [incident[i] EXCEPT !.old = TRUE])

AgeLimit(status) == CASE status = "awaiting_approval" -> 2
                      [] status \in IN_FLIGHT \cup {"verified"} -> 1
                      [] OTHER -> 0

\* A request older than APPROVAL_TTL_S is for an incident at least as old as
\* ESCALATE_AFTER_S: the two are equal.
RequestAges(k) ==
    /\ request[k].age < AgeLimit(request[k].status)
    /\ request' = [request EXCEPT ![k].age = @ + 1]
    /\ incident' = [incident EXCEPT ![k[1]].old =
                      @ \/ (request[k].age = 1 /\ incident[k[1]].status \in Live)]
    /\ UNCHANGED <<planned, worker, desk, stops, called>>

TimePasses ==
    \/ \E i \in Incidents : IncidentAges(i)
    \/ \E k \in Keys : RequestAges(k)

Next ==
    \/ \E w \in Workers : Cycle(w) \/ Crash(w)
    \/ \E p \in People : Approve(p) \/ \E k \in Keys : AskToApprove(p, k)
    \/ \E i \in Incidents : TakeOver(i) \/ SignalsChange(i) \/ Resolve(i) \/ Reopen(i)
    \/ TimePasses

Spec == Init /\ [][Next]_vars

\* A worker polls for ever and is started again when it stops; ages are clock
\* time.  People and the correlator owe nobody a step.
FairSpec == Spec /\ WF_vars(TimePasses) /\ \A w \in Workers : WF_vars(Cycle(w))

----------------------------------------------------------------------------
\* Whatever two workers and a person do at once, at most one request is
\* approved, executing or executed (remediation_one_in_flight, 0030).
OneInFlight == \A k, m \in In(IN_FLIGHT) : k = m

\* Once its adapter was called a request counts as an attempt for good: no
\* withdrawal, expiry or crash makes a run disappear from the budgets.
RunIsCounted == called \subseteq In(COUNTED)

\* An adapter is called for an automatic action, or for one that a person in
\* an approving role approved; never for a plan.
RunHadConsent ==
    \A k \in called :
      \/ Autonomy[k[2]] = "auto"
      \/ /\ Autonomy[k[2]] = "approval"
         /\ request[k].by # None /\ RoleOf[request[k].by] \in APPROVER_ROLES

CalledFor(i, a) == Cardinality({k \in called : k[1] = i /\ k[2] = a})

\* An automatic action runs no more often than its limit on one incident, even
\* if two workers read the counts at the same time and one of them dies.
AutoWithinLimit ==
    \A i \in Incidents, a \in Actions :
      Autonomy[a] = "auto" => CalledFor(i, a) <= ActionLimit[a]

\* 0030: a retry after a crash cannot run the action of a request twice.
NoSecondRun ==
    [][\A w \in Workers : CallAdapter(w) => worker[w].key \notin called]_vars

\* With one worker an incident has at most one request waiting, running or
\* being judged, and the limits hold for what people approve too.
OneAtATime ==
    \A i \in Incidents :
      /\ \A k, m \in In(IN_FLIGHT \cup {"awaiting_approval"}) :
           k[1] = i /\ m[1] = i => k = m
      /\ Cardinality({k \in called : k[1] = i}) <= MAX_ATTEMPTS_PER_INCIDENT
      /\ \A a \in Actions : CalledFor(i, a) <= ActionLimit[a]

\* The stage of a request in the promise of OneSlot.tla.
StageOf ==
    [s \in Statuses |->
       CASE s = "none" -> "none" [] s = "awaiting_approval" -> "waiting"
         [] s = "approved" -> "granted" [] s = "executing" -> "running"
         [] s = "executed" -> "judged" [] s = "verified" -> "repaired"
         [] s = "expired" -> "withdrawn" [] OTHER -> "spent"]

Slot == INSTANCE OneSlot WITH
    Repairs <- Keys, acted <- called,
    stage <- [k \in Keys |-> StageOf[request[k].status]]

\* Requests, workers that die and overlap, people and the clock together keep
\* the promise of one repair at a time that acts once (0030, remediation.py).
KeepsOneSlot == Slot!Spec

\* The one slot of the platform is always freed again: by a verdict, a
\* failure, a withdrawal or as interrupted, even if the policy engine never
\* answers again.
SlotIsFreed == Busy ~> ~Busy

\* remediation_worker.py: the worker never leaves an unresolved incident
\* silently unattended.
IncidentsAreHandled ==
    \A i \in Incidents :
      incident[i].status \in Live /\ incident[i].active
        ~> incident[i].status \notin Live \/ ~incident[i].active

\* remediation.py: abandoned means that the worker died in mid-action.
AbandonedMeansAWorkerDied == stops = 0 => In({"abandoned"}) = {}
=============================================================================
