# Verification of the protected-action platform

TLA+ models of the platform under `src/source-code`: a traffic-operations system
in which people ask for actions on the road network (signal plans, diversions,
signs, preemption), other people approve them, a service executes them and
another one verifies what came of them; events from roadside devices arrive at
the other end, become records and, where they show trouble, incidents; and units
are sent to emergency calls. The modules are read beside the code; `PROJECT.json`
maps every definition to the lines it stands for.

## 1. The system and its parts

| Part | State it keeps | Operations | Talks to |
|---|---|---|---|
| Command store (`backend/repositories/commands.py`) | `commands`, `command_transitions`, `command_params` | create, row-locked transition, outage record, expiry sweep | everything below, through the database |
| Command path API (`api/routes_commands.py`, `control/command_service.py`) | none | request, review (approve/deny), override | policy engine, store |
| Command policy (`policy/aiops/command/command.rego`, `control/policy.py`, `backend/roles.py`) | `policy_decisions` (evidence) | authority, approval decision, execution gate | facts read from the database |
| Executor (`control/executor_worker.py`) | `_gate_retry_after` in memory | sweep, reconcile, pick, gate, execute | store, policy, adapter |
| Adapter run (`control/simulator_adapters.py`, `simulator/control_adapters/run_action.py`) | `action.json`, `result.json`, `ledger.jsonl` | start a container, time out, read its result | the field (SUMO) |
| Outcome verifier (`control/verifier_worker.py`, `control/outcome_verification.py`, `repositories/outcomes.py`) | `command_outcomes` | pick, classify, roll back, record | store, corridor KPIs |
| Recommendations (`control/recommendation_service.py`, `repositories/recommendations.py`) | `recommendations` | propose, supersede, expire, mark requested | incidents, command path API |
| Preemption, transit priority (`control/preemption_service.py`, `control/transit_priority_service.py`, `control/emergency_flow.py`) | the same command table | request, run a corridor, abort | store, a live simulator session |
| Emergency dispatch (`emergency/*`, `repositories/emergency.py`) | calls, unit assignments and their histories | create, advance, assign, choose a route | routing, recommendations |
| Platform remediation (`aiops/remediation*.py`, `repositories/remediation.py`, `remediation.rego`) | `remediation_requests`, `remediation_transitions` | decide, approve, run, verify, retry, escalate, abandon | policy, platform incidents, containers |
| Platform incidents (`aiops/correlation.py`, `platform_correlator.py`, `repositories/platform_incidents.py`) | `platform_incidents`, their signals and events | correlate alerts, sync, transition | alert source, remediation |
| Traffic incidents (`analytics/incident_service.py`, `repositories/incidents.py`) | `incidents`, `incident_transitions` | detect, merge, review | recommendations, policy facts |
| Edge runtime (`edge/*`) | SQLite outbox, active model version | validate, infer, append, drain, ack, activate, roll back | gateway over MQTT |
| Gateway (`backend/gateway/gateway.py`) | SQLite outbox, intake queue | intake, produce, confirm, acknowledge | MQTT broker, Kafka |
| Ingestion (`backend/ingestion/ingest.py`) | `observation_events`, rejections, Kafka offsets | batch write, retry one by one, commit offsets | Kafka, database |
| Audit chain (`backend/audit_chain.py`, migrations 0008 and 0026) | hash of the previous row in eight histories | link on insert, verify | every history table |
| Network state, routing, analytics, forecasts | derived tables | pure computations over stored events | map and KPI screens |
| Scenario control, demo feeder, auth, hardening, observability, frontend, training, simulator, infrastructure, security and acceptance tooling | - | - | - |

How they interact. There is no message bus between the control processes: the
command table is the shared memory. An API handler reads a row without a lock,
asks the policy engine over HTTP, and only then takes the row lock and moves the
command; the executor and the verifier poll. Each locked transition is atomic,
and everything between two of them is a place where somebody else may act. The
executor and the adapter container share three files and no lock.

Events flow through four processes that may each die: the site keeps a row until
the platform says Kafka has it, the gateway keeps a row until Kafka confirms it,
the broker keeps a message until the gateway acknowledges it, and ingestion keeps
its offset until the database has committed. The correlator of traffic incidents
and the dispatch of units work like the command path: each transition locks its
row, but a tick or a request is several of them, computed from earlier reads.

What makes it hard, and the properties that answer it:

* *Decisions on stale reads.* A review verdict, a denial and the gate's verdict
  are computed on a row that may have moved: `EffectIsAuthorised`,
  `ErrorAndDecisionAgree`, `IInv`. The correlator decides on the status it read
  (`EvidenceIsWatched`, `TakenIsForPeople`), a unit's report on the call it read
  (`CallMovesForward`, `InStepUnlessCut`).
* *Crashes between two transactions.* The executor dies with a command
  executing, the verifier between rollback and outcome, the correlator between
  the two commits of a merge, the gateway between Kafka and its own file:
  `ExecutingIsInHand`, `NeverRepeated`, `OutcomeMatchesRecord`, `EvidenceIsLive`,
  `StoredUntilConfirmed`.
* *Lost, late and repeated answers.* `AckedIsInKafka`, `AckedInOrder`,
  `AcknowledgedIsStored`, `ConflictsAreTrue`, `KeepsRecords`.
* *A timeout racing a late effect.* `KeepsPromise`.
* *Files shared by runs that overlap.* `AppliedOnceUnlessLate`,
  `KeepsPromiseUnlessLate`, `LedgerIsTrue`.
* *Full queues and quotas.* `AcknowledgedIsStored`, `ToldOrStalled`.
* *Everything must end.* `EveryCommandEnds`, `ExecutedIsVerified`, `SlotIsFreed`,
  `IncidentsAreHandled`, `ToldOrStalled`, `MessagesAreRead`, `EvidenceIsWatched`.
* *Budgets counted before the act they bound.* The remediation worker reads the
  attempts, asks the policy engine, inserts a request and calls an adapter, with
  a second worker, a person and the correlator in between: `AutoWithinLimit`,
  `OneAtATime`, `RunIsCounted`, `NoSecondRun`, `OneInFlight`, `RunHadConsent`,
  `KeepsOneSlot`.
* *One decision written twice.* `EngineAgreesWithReference`, `GateKeepsApproval`.
* *Long histories.* Incidents merge, come apart and merge again:
  `DuplicatesLeadToOlder`, `TidyUnlessDied`; replays after restarts:
  `OffsetIsSettled`.

Every hazard met in the code, with its line, is listed in `PROJECT.json`.

## 2. Modules

    ProtectedAction            what is promised of an action (abstract)
          ^  refinements (KeepsPromise; KeepsPromiseUnlessLate)
    CommandPath                people, executor, field, verifier
      EXTENDS CommandStore     the command table
        EXTENDS CommandPolicy  authority and decision rules
    AdapterRun                 one level below: the files and the containers
    PolicyReference            EXTENDS CommandPolicy; evaluate() beside the engine
    MCCommandPath              instances of CommandPath for TLC

    OneSlot                    what is promised of repairs (abstract)
          ^  refinement (KeepsOneSlot)
    Remediation                platform incidents and what is done about them
    MCRemediation              instances of Remediation for TLC

    Telemetry                  what is promised of events (abstract)
          ^  refinement (KeepsRecords)
    Ingestion                  Kafka to the database
      EXTENDED by Delivery     Uplink and Ingestion over one topic
    Uplink                     edge site, broker and gateway to Kafka
    Dispatch                   emergency calls and the units on them
    Incidents                  the correlator of traffic incidents
    MCIngestion, MCUplink, MCDelivery, MCIncidents
                               their instances for TLC (Dispatch needs none)

    CommandPathProofs, AdapterProofs, PolicyProofs, RemediationProofs,
    IngestionProofs (Delivery too), UplinkProofs, DispatchProofs, IncidentsProofs
                               the inductive invariants and what follows

**CommandPolicy** is the Rego package over the role tables: `authorised_role`
answers an authority question with the first authorised role in alphabetical
order, `decision` collects the ranks of all broken rules and answers with the
lowest. A context is a record of facts; adapters, targets and evidence are
booleans in it. Rank 1 (malformed input) is the one shape the callers can
produce it in: an approval without an approver.

**PolicyReference** holds `evaluate()` of `policy.py` as the ladder of early
returns it is, and asks the engine one question about any context
`build_context` can gather. Its one assumption is that the people on a command are
not the value that stands for nobody.

**CommandStore** is the table as a function from idempotency keys to rows and
the trail as a set of moves per command. One operator per repository function,
each one committed transaction. A refusal by exception is a disabled operator;
the caller's action says what becomes of it. Times are kept as the order of
approvals, which is what `next_approved` sorts by.

**CommandPath** has one action per step between two reads or writes.

| Variable | Code |
|---|---|
| `cmd`, `trail` | `commands`, `command_transitions` |
| `overdue` | commands whose `expires_at` has passed |
| `desk[p]` | the handler person `p` has open: what it read, the verdict it got |
| `exec` | program counter of `executor_worker`, the job, the verdict, the report |
| `held` | `_gate_retry_after` |
| `field[c]` | what the container started for `c` did |
| `ver` | program counter of the verifier |
| `outcomes` | `command_outcomes` |

| Code | Actions |
|---|---|
| `request_from_recommendation`, `create_direct`, `_request_command` | `RequestCommand` |
| `review`, `_review_command` | `OpenReview`, `EvaluateReview`, `ApplyReview` |
| `review` (deny), `_deny_command` | `OpenDenial`, `ApplyDenial` |
| `override` | `OpenOverride`, `ApplyOverride` |
| the API process dies | `HandlerLost` |
| `main`, `reconcile(at_start)` | `ExecutorStart`, `ExecutorCrash` |
| `run_once` | `ExecutorSweep`, `ExecutorPick`, `ExecutorGate`, `ExecutorHold`, `HoldOver`, `ExecutorRefuse`, `ExecutorBegin` |
| `execute_command` | `ExecutorBegin`, `ExecutorLaunch`, `ExecutorHear`, `ExecutorRecord` |
| `run_action.py` | `FieldApply`, `FieldRefuse`, `FieldLose` |
| `verify_ready`, `_verify_and_rollback`, `record_outcome` | `VerifierPick`, `VerifierJudge`, `VerifierRollBack`, `VerifierRecord`, `VerifierCrash` |
| the clock | `Deadline` |

**AdapterRun** opens the step `ExecutorLaunch .. ExecutorRecord`: writing
`action.json`, removing `result.json`, starting the container, its reads and
writes in their order, and the ledger. `late` remembers whether a container
ever outlived its caller.

**ProtectedAction** is the promise: an action is granted before it is started,
started once, takes effect at most once and only after it was started, is called
done only if it took effect, and once withdrawn never happens. Two models are held
against it: `CommandPath`, which takes a container at its word, and `AdapterRun`,
which opens that word and keeps the promise until a container outlives its caller.

**Remediation** is the second half of the platform's automation: it acts on the
platform itself, not on roads. Nothing connects it with the command path but the
policy engine, so it is a specification of its own. A request is named by its
idempotency key (incident, action, number); a worker is a program counter over
`cycle`, with the rows or incidents of the phase it is in, read once at the start
of the phase as the code reads them.

| Variable | Code |
|---|---|
| `request[k]` | `remediation_requests`: status, how many limits its age has passed, approver |
| `planned` | the plan-only rows, which are never run |
| `incident[i]` | `platform_incidents`: status, any active signal, older than `ESCALATE_AFTER_S` |
| `worker[w]` | place in `Worker.cycle`, the list read for the phase, the candidate loop's counters |
| `desk[p]` | the approval person `p` is about to commit |
| `stops`, `called` | history: workers that stopped, requests whose adapter was called |

| Code | Actions |
|---|---|
| `main`, `cycle` | `StartCycle`, `NextPhase`, `Crash` |
| `expire_stale`, `abandon_interrupted` | `ExpireStale`, `AbandonInterrupted` |
| `_verify_executed`, `_fail` | `VerifyExecuted` |
| `_run_approved`, `_execute` | `RunApproved`, `Judge`, `Withdraw`, `Start`, `CallAdapter`, `Record` |
| `_act_on_incidents`, `_try_candidates` | `Consider`, `Ask`, `Create` |
| `_plan`, `_escalate` | `Plan`, `Escalate` |
| `approve` | `AskToApprove`, `Approve` |
| `sync`, `transition` of platform incidents | `SignalsChange`, `Resolve`, `Reopen`, `TakeOver` |
| the clock | `IncidentAges`, `RequestAges` |

**OneSlot** is the promise of all that: one repair at a time is granted, running or
being judged; a repair acts once, and only after it was granted, though perhaps
after it was given up; it is judged, and called a repair, only if it acted; and what
is closed stays closed. Requests, rows, workers and people are not in it.

**Telemetry** is the promise about events: the first content recorded under an
`event_id` stays, and an event is refused as a conflict only when other content
is recorded.

**Ingestion** is the consumer loop: a batch in one transaction, its events one at
a time when that fails, then the offsets; a restart reads again from the
committed offset.

| Variable | Code |
|---|---|
| `log` | the messages of the topic, in order |
| `registered` | whether the loader has registered the devices of `Late` |
| `offset`, `done`, `upto` | the committed offset; up to where the batch is written; its end |
| `mode` | place in the loop of `run` |
| `table`, `rejections` | `observation_events`, `ingestion_rejections` |
| `skipped` | events given up with a log line |

| Code | Actions |
|---|---|
| `consumer.consume` | `Consume` |
| `write`: the batch; its failure; one event at a time | `WriteBatch`, `BatchFails`, `WriteOne`, `SkipOne`, `SinglesDone` |
| `consumer.commit` | `CommitOffsets` |
| the process ends and is restarted | `IngestionStops` |
| the gateway produces, the loader registers | `Arrive`, `Register` |

**Uplink** is the way there: `outbox` and `heard` at the site, the broker's
session (`queued`, `unacked`), the gateway (`step`, `intake`, `acking`,
`backlog`, `delivered`) and the producer with Kafka (`producing`, `reports`,
`log`). What a process keeps in memory is lost when it stops; its file is not.
A site sends a pending event again at every pass, each time as a message of its
own with an id of its own: the four variables between the two files hold a number
of copies of each event, the limit of messages in flight counts copies, and an
acknowledgement frees the place of its copy only.

| Code | Actions |
|---|---|
| `Outbox.append` at the site; `uplink`: send, mark | `Buffer`, `Publish`, `AckRow` |
| the site process ends | `SiteStops` |
| `_on_message` | `OnMessage` |
| `_intake_once`: store, acknowledge | `IntakeOnce`, `AckBroker` |
| `drain_once`: produce, flush and mark | `Produce`, `Confirm` |
| `_confirm_delivered`: tell the devices; prune | `Tell` |
| the gateway ends; its connection breaks and is made again | `GatewayStops`, `GatewayReconnects` |
| librdkafka and Kafka (external) | `KafkaAppends`, `KafkaFails` |

**Delivery** puts the two together over the one topic they share: `Uplink` sees
what the topic holds, `Ingestion` reads its messages in order, copies included, and
only the gateway writes to it. `Upstream` is a step of the sites, the gateway or the
producer that leaves the topic alone, `Downstream` one of the consumer or the
loader, and `Appends` is the one step of both: Kafka appends what the gateway sent,
with or without the gateway hearing of it.

**Dispatch** has a call, the assignments to it and the requests being handled
(`req`), each of which is several committed transitions; `refused` and `died`
remember the calls on which a request was cut short after its first write.

| Code | Actions |
|---|---|
| `create_call`, `transition_call` at the API | `CreateCall`, `Cancel` |
| `assign_unit` | `AskAssign`, `CheckUnit`, `CreateAssignment` |
| `advance_assignment` | `Report`, `CountClosed` |
| `advance_call_to`, `transition_call` | `AdvanceRead`, `MoveCall`, `MoveRefused` |
| no route, no position, or the process ends | `Dies` |

**Incidents** has the detection candidates (`seen`, `bond`), the incidents
(`status`, `dup`, `link`, `before`) and the tick under way, which carries the
links it read at its start from commit to commit.

| Code | Actions |
|---|---|
| the detectors | `Detect`, `SeenAgain`, `Settle` |
| `transition_incident` by a person | `PersonMoves` |
| `correlate`, `sync` | `Start`, `Watch`, `Open`, `Choose` |
| `_merge` | `Merge`, `Close` |
| `_link`, `_refresh` | `Link` |
| `_lifecycle` | `Reopen`, `Forget`, `Resolve`, `Escalate`, `Leave` |
| `InvalidTransition` ends the tick; the process dies | `Refused`, `Dies` |

### What is abstracted

* Facts about the network (critical incident on the target, fresh evidence, the
  engine answering at all) are chosen anew at every reading: no two readings
  are assumed to agree. In `CommandPath` the registry facts hold (the adapter is
  known, the target exists) and there is no recommendation: missing evidence
  stands for every refusal by fact, since they all take the same path.
* `overdue` is followed only while a command waits; nobody reads it later.
* `reconcile` is one step although it moves its orphans one by one. At most one
  command is executing (`ExecutingIsInHand`), so there is at most one.
* Handlers of one person are sequential. Two handlers of one person racing are
  covered by two people with the same roles.
* In `CommandPath` a container touches its own command only. That runs can
  disturb one another is what `AdapterRun` is about, and the finding `DoubleApply`
  says exactly when this abstraction fails: when a container outlives its caller
  and the next command is dispatched before it has read its action file.
* `classify` and the noise threshold are arithmetic over KPIs: any of the four
  answers may come.
* `policy_decisions` and `operator_audit` rows are evidence nobody reads back.
* In `Remediation`, an age is the number of limits it has passed, since only
  comparisons with limits are read; `RequestAges` keeps the one relation between
  two clocks that matters (the approval window is as long as the time after
  which an incident is handed over). Cooldowns and rate limits depend on times
  and may bind whenever there was an attempt on the action. The alerts behind a
  verdict are free: recovered, not recovered, unreadable. Denied requests are
  evidence and left out, since no count reads them. What an adapter and its
  `undo` do to a container is left out; `NotExecutable` is raised by the
  plan-only adapter alone, which `RunHadConsent` shows is never called.
* In `Ingestion` the content of an event is the event; its hash tells contents
  apart. The topic is one partition; with more, the offsets of each move by
  themselves.
* In `Uplink` bytes are counted as events, the soft quota only logs and is left
  out, and every place an event passes through is a set or a number of copies: within
  its window a site's events may leave, be stored and be produced in any order. The
  copies of one event in one batch of the intake are all stored or all refused, as in
  `append_many`: once full it stays full to the end of the batch. `INTAKE_BATCH` is as
  large as the limit in flight, so the worker takes all there is. After a broken connection the broker delivers the copies in
  flight again under their old ids, and they stand for those still on the intake
  queue. A broker whose own queue (`max_queued_messages`, 100000) overflows drops
  messages; the site sends them again, and the model's queue does not overflow. The code keeps more of
  the order than that while nothing is refused, lost or given up, so what is shown of
  the order (`OvertakesWithinWindow`) is a bound and no prediction. `Tell` may prune at any turn,
  where the code prunes every minute. The file of the site is that of
  `acceptance/edge_site.py`, the one caller of the edge outbox that drains it.
* In `Dispatch` the geometry of positions and routes only decides whether a
  request fails, which any may. Histories are left out, and so are the
  replays and scripts that write the same tables beside the API: the demo feeder
  (`demo/feeder.py`), the import of dispatch records (`emergency/cad_avl_adapter.py`)
  and the scenario flows (`control/emergency_flow.py`, `emergency/cross_agency.py`).
  What is said of calls and assignments is said of the requests of the API.
* In `Incidents` time is what the code compares: live, clear, clear for the
  hysteresis; which candidates were detected before an incident was last
  resolved. Scores decide only whether an incident escalates, which it may
  whenever the code considers it. The numbers of incidents stand for the order of
  `(opened_at, id)`, by which the one that is kept is chosen; the others are merged in
  any order. `resolved_at` is in the model as what was detected `before` it: nothing
  counts as detected after a `resolved_at` of null.

## 3. Runs

| Run | Instance | Shows |
|---|---|---|
| `PolicyReference` | three action types (one per class), four roles, all facts | both copies of the decision agree to the error code; the gate refuses nothing a review of the same facts allowed |
| `CommandPath` | 2 commands (SC-0 sign on a corridor, SC-1 signal), 2 people who can decide about one another, `FairSpec` | the inductive invariant; authority, errors, orphans, outcomes; no second dispatch; refinement of `ProtectedAction`; every command ends and every executed one is verified |
| `AdapterRun` | 3 commands | what the shared files guarantee with crashes at every point; refinement of `ProtectedAction` until a container is late |
| `RemediationRace` | 2 workers, 1 incident, an automatic action with limit 2 | nothing is run twice, uncounted, or beyond its limit; refinement of `OneSlot` with two workers |
| `RemediationPeople` | 1 worker, 2 incidents, an action to approve and one to plan, a supervisor and a dispatcher | consent; one request at a time per incident |
| `RemediationLive` | 1 worker, 2 incidents, an automatic action and one to approve, `FairSpec` | one slot, which is always freed; no incident is left unattended |
| `Uplink` | 1 site, 2 events, room for one at the gateway, `FairSpec` | nothing deleted before Kafka has it or out of order, nothing acknowledged that is not stored, no event waits for ever unless refused copies hold every slot at the broker |
| `Ingestion` | 5 events of every kind, 3 messages, batches of 2, `FairSpec` | offsets, conflicts and replays; refinement of `Telemetry`; no message blocks the log |
| `Dispatch` | 1 call, 2 units, 2 assignments, 2 requests | calls move forward, are cleared by attending units, and keep in step |
| `Incidents` | 2 candidates (one weak), 3 incidents, 2 moves of people, 1 death, `FairSpec` | evidence is never stranded; duplicates lead to older incidents; live evidence is watched |
| `DoubleApply` | 2 commands | violation: an action applied twice |
| `TakenIsResolved` | 2 candidates, 3 incidents | violation: an incident a person took is resolved automatically |

Further configurations stand beside the runs for readers who want the traces of
section 4; each checks one statement, which TLC refutes: `UnknownEffect`,
`VerifierRollback` (module `MCCommandPath`), `LateApproval` (`MCRemediation`),
`GatewayStall` (`MCUplink`), `PoisonEvent` (`MCIngestion`), `NeverCleared`
(`Dispatch`).

Three more hold, and are no runs because of their size (1 to 5 million states, up
to four minutes each); theorems say the same for every instance.
`Delivery` (`MCDelivery`) is the whole way from device to database with
`NothingVanishes`, `ConflictsAreTrue` and `OffsetIsSettled`; `TopicOrder`
(`MCDelivery`) is one site with two events and a window of one, whose order in the
topic is kept; `Overtaking` (`MCUplink`) is one site with three events and a window of
two, of which one may overtake one.

Bounds. Two commands compete for the executor, the hold of the head of the queue
and the order of approvals. Two people suffice to request and decide about one
another in every role that matters: the operator is also an incident commander,
so either can review and one can override. Three people with two commands exceed
four million states and are left to the proofs, which hold for any number of
both. `AdapterRun` has three commands because the third shows a container that
skips a command. No counter needs a cap there: each command is dispatched at most
once.

`Remediation` names five bounds. `MaxRequests` caps the requests of one action for
one incident: 3 in `RemediationRace` and `RemediationPeople`, so that the action's
limit (2) in the one and the incident's budget (2) in the other, and not the cap,
end the attempts. `MaxReopens` (1) lets an incident come back after its remedy was
verified. `MaxMisapprovals` (1) lets a role the policy refuses approve once.
`MaxCrashes` (1) allows a crash in every place of the cycle. `Tries` is the limit
per action. Two workers are interchangeable, hence symmetry in `RemediationRace`;
there is none in a run with liveness.

`Uplink` has the code's own limits as constants, made small: `WINDOW` (2) lets a
pass send both events, `EdgeQuota` (2) lets the site hold both and `GatewayQuota`
(1) makes the gateway refuse one; `INFLIGHT` (2) leaves room beside one refused
copy. Crashes and losses are not counted; `MaxCopies` (2) bounds the copies of one
event at the broker, beyond which the site pauses. It is as large as `INFLIGHT`, so
copies of one event can fill every place in flight, and a site that pauses for ever
because of refused copies is one whose gateway is stalled anyway. The three larger
configurations above have `MaxCopies` 1: there a message is sent again only when the
broker has none of its event, and what several copies change is left to `Uplink` and
to the theorems, which hold for any number. `Ingestion` caps the log (`MaxLog` = 3): two copies of one event, or two
contents under one id, on either side of a batch border (`BATCH` = 2) or within
one; restarts and failures are not counted. `Dispatch` needs no bound but its
sets: statuses only move forward. `Delivery` has two sites with one event each under one
`event_id`, one device registered late, and two messages in the topic, so that a
conflict, a late device, a repetition and a full gateway occur; every window, batch
and quota is 1. `Overtaking` has room for three events at the site and a window of
two, since with room for two the quota alone would bound what is overtaken.
`Incidents` caps what would otherwise grow: `MaxIncidents` (3), so that two merge
and a third can open, `MaxMoves` (2) of people, and `MaxDeaths` (1). With two
candidates at most one merge happens in a behaviour, so merges of merges are left
to the theorems of `IncidentsProofs`, which hold for any number.

Fairness. The executor and the verifier are loops that poll for ever and are
restarted by their supervisor (one replica, `Recreate` strategy in
`infra/k8s/workloads.yaml`): weak fairness of starting and of the executor's
steps together. Crashes may be frequent but not always at the same point: strong
fairness of the sweep and of the verifier's steps. Deadlines are clock time.
People and containers are given no fairness: nobody has to answer, and no
container has to end. The remediation worker polls for ever and is restarted in
the same way: weak fairness of its steps together, and of the clock. The policy
engine may stay silent for ever in every run. The correlator is ticked for ever
by the feeder, which catches what a tick raises: weak fairness of the tick. In
`Uplink` and `Ingestion` anything may fail as often as it likes, but one day
nothing does (`<>[][~Trouble]_vars`, `<>[][~IngestionStops]_vars`): nobody can be
told anything while Kafka is down for ever. Broken connections are among these
troubles, since nothing in the gateway breaks its own. After that the loops go on by
weak fairness; what needs the others to come round (a message that finds room, a row
that finds the quota free, the answer with the pruning after it) has strong
fairness, since the site sends again every pass and the gateway prunes every
minute.

Deadlock is checked everywhere except where the system may stop:
`PolicyReference` asks one question and ends, `Ingestion` ends with its capped
log read, and `Dispatch` with a closed call and no assignment left to report on.

## 4. Findings

Two are runs:

* `DoubleApply`: the ledger is read before and appended after the action, and
  all commands share one action file. A container that outlived its caller and
  had not yet read the file applies the next command's action beside that
  command's own container. In the same way its result may be read as that
  command's: `execute_command` does not compare the key in `result.json`
  (`KeepsPromiseUnlessLate` holds only until a container is late).
* `TakenIsResolved`: the correlator reads the status of an incident, finds it open
  with its evidence cleared, and resolves it by a transition that checks only that
  "resolved" is legal from the status found then. A person who acknowledged it in
  between sees it resolved all the same, where `incident_service.py:17-20` resolves
  "automatically only for incidents nobody has taken".

The others can be seen with the further configurations:

* `UnknownEffect`: the executor's orphans are failed as not retryable because
  their effect is unknown; a timeout leaves the same doubt and is recorded as
  retryable.
* `VerifierRollback`: the rollback and its outcome are two transactions, and the
  verifier only ever looks at executed commands.
* `LateApproval`: an approval is accepted for 900 s after the request, but a
  request that has been approved is abandoned once the request, not the approval,
  is older than its execute timeout and 30 s, and that check comes before
  approved requests are run. An approval given after a few minutes is never run,
  and the attempt counts.
* `GatewayStall`: a refused copy is not acknowledged to the broker, so it occupies
  one of the messages the broker keeps in flight (`infra/k8s/target/mosquitto.conf`,
  500 of them) until the gateway reconnects. The site sends another copy at every
  pass (`edge_site.py:118-127`), which takes another place if it is refused too, and
  when the event is stored at last only the copy stored is acknowledged
  (`gateway.py:219-225`). So any limit is used up, by one event refused often enough:
  then nothing more is delivered, also when the outbox has room again, and nothing in
  the gateway makes it connect anew. The comment (`gateway.py:207-209`) counts on that:
  the broker "redelivers when the gateway next connects". The configuration shows it
  with a limit of 2 (and so it is with 3). `ToldOrStalled`, of the run `Uplink`, is
  what remains: this is the only way an event waits for ever.
* `PoisonEvent`: an event that fails by itself is passed over with a log line and
  its offset committed; `ingest.py:23` says "nothing is lost".
* `NeverCleared`: a request refused after its unit was marked clear is not repeated
  by anybody, and the call stays behind although all its units are clear; so with
  two units that report at once. `dispatch_service.py:5-6` says "the call clears
  when every assignment has cleared".

Other places where a comment and the code differ, or that surprise, seen while
modelling and kept out of the runs.

*Command path.* A denial opened before a colleague's approval still denies the
approved command (`command_service.py:202`, against the comment at
`commands.py:38`); expiry leaves no row in the trail (`commands.py:248`); an
override is possible after verification (`routes_commands.py:542`, against line
528); the deadline is not read again when the move to executing takes the lock
(`simulator_adapters.py:76`); commands off every corridor are never verified
(`verifier_worker.py:93`), which is why `ExecutedIsVerified` quantifies over
`OnCorridor`.

*Remediation.* A silent policy engine ends the worker rather than the cycle when an
approved request is judged (`remediation_worker.py:103`, against line 20); an
approval given in time can still be followed by expiry of the row that was read as
stale, since an approved request may expire (`repositories/remediation.py:36`);
with two workers, a run that exceeds its timeout is abandoned by the other one and
the slot freed while its adapter still works, and two requests of one attempt may
wait for approval; a person who takes an incident over between the policy's answer
and the start does not stop that run (`remediation_worker.py:21`).

*Events.* A malformed event is acknowledged to the broker and answered "rejected",
but the site waits for the answer that it was stored: its row stays the oldest, and
the rows behind it are sent again and again and never marked (hence the condition
in `Waiting`). A duplicate of an event the gateway has marked and not yet pruned
is answered only when it is sent again after the pruning. The key of the partitioner
keeps "per-device ordering" (`gateway.py:24`) of what is produced, but a row that
was refused at the quota, or that the producer gave up, is produced after later rows
of its device: the order kept is that of `OvertakesWithinWindow`.

*Dispatch.* When one unit clears and the last other one becomes unavailable, nobody
counts: the call stays on scene, and from there the API can neither clear nor
cancel it. The checks of `assign_unit` precede its insert without a lock, so a unit
may be assigned to a call that was cancelled or cleared meanwhile, and twice to
one. When advancing the call is refused, the caller is answered 409 although the
unit's report was stored.

*Incidents.* A death between creating an incident and linking its candidates leaves
an open incident without evidence, and one within a merge an open duplicate (hence
`TidyUnlessDied`). A group that came apart leaves two groups with one incident,
which in one tick the first may resolve and the second reopen. An incident that a
person resolved while its evidence is live is reopened at the next tick.
`expected_status` is compared with an unlocked read (`routes_incidents.py:88`), so
two people who saw the same status may both succeed, against the header of that
file.

## 5. Proofs

`CommandPathProofs` proves, for any finite set of commands, any people, any
roles and any actions, under the named assumptions of `CommandPolicy`,
`CommandStore` and `CommandPath` (null identities differ from people and roles;
service identities are not people; roles and actions are well typed):

* `InvariantHolds`: `Spec => []IInv`. None of the safety properties is inductive
  by itself: each speaks of the table and the field, while what protects it lies
  in what the processes remember between a read and a write. `IInv` adds that:
  a reviewer's desk names a real command, a role the reviewer holds and a
  requester who is somebody else (`PeopleSound`); every row approved or beyond
  names an approver other than its requester (`RecordSound`); a job being
  launched, awaited or recorded is executing and untouched, running or done
  accordingly (`EffectSound`); a verifier holding a command holds one without
  outcome, and claims a rollback only of what it rolled back (`OutcomeSound`).
  The proof has one lemma per action and part.
* `TypeCorrect`, `AuthorisationHolds`, `JobHolds`, `ErrorHolds`, `OutcomeHolds`:
  the invariants of the runs, from `IInv`.
* `NothingRepeats`: the action property, from `IInv` and one step.
* `PromiseKept`: the refinement of `ProtectedAction`, each action mapped to an
  abstract action or a stutter.

`PolicyProofs`, for any roles and actions that keep `CommandPolicy`'s assumptions:
in every context the engine and the Python fallback decide alike (`EngineAgrees`),
the gate approves what a review of the same facts approved (`GateKeeps`), and lets
nothing through that a review of a command without recommendation would have
refused (`GateTrustsNone`). The engine
collects the ranks of all broken rules and answers with the lowest; `evaluate()`
returns at its first rung that fires. So the argument puts rung and rule side by
side (`RulesAreRungs`) and shows the ranks ascend along the ladder. They differ in
one place: the rungs on another action or a closed recommendation also fire when the
recommendation does not exist at all, the rules do not; by then both have refused. The
run lists three action types and four roles; the theorem leaves them open.

`RemediationProofs` proves, for any number of workers, people, incidents and
actions, any playbook, any limits and any bounds:

* `RemediationInvariant`: `Spec => []IInv`. What has to be added to the properties
  is what a worker may still rely on at its place although the rows it read have
  moved since (`PlaceSound`): a request it judges, starts or records has been
  decided; one about to be started or called has consent; one about to be called
  counts already and has not been called; a candidate lies within the playbook;
  and that no two workers are about to call for one request (`CallsDiffer`). The
  argument turns on the life of a row (`RowStep`): whatever moves, a row is
  inserted, approved, or moved along the table, and the table leads neither back
  to a decision nor out of the budget (`MovesGoForward`). So each action owes
  `TableStep` and `WorkerStep` only, and `WorkerStepKeeps` concludes once for all.
* `RemediationTyped`, `SlotIsSingle`, `RunsAreCounted`, `RunsHadConsent`,
  `NoRunTwice`: the properties of the runs, for every instance.
* `AutoLimitHolds`, for any number of workers. The worker that is to insert read the
  counts some time ago, so the counts alone protect nothing; what does is the number
  in its key. `LimitInv` says that the requests of an action for an incident are
  numbered without a gap (`Preceded`), and that a worker about to insert under a free
  key has room for one more (`RoomFor`). If two workers mean to insert for one action
  and incident they hold the same key, or one of the two keys is taken, or not
  preceded (`InsertLimit`); whatever is not an insertion only shrinks what is taken
  (`QuietLimit`).
* `ExecutedWasCalled`: a request is executed or verified only after its adapter was
  called. It is no consequence of the table, since a worker records what it was told
  when it was last at that row; it needs `PlaceSound`.
* `RemediationKeepsOneSlot`: with it and `OneInFlight`, every step of workers,
  people, crashes and the clock is a step of `OneSlot` or a stutter, for any number
  of each. A row that moves by an expiry or an abandonment under a worker's feet maps
  to a withdrawal or a loss there, and the late call of its adapter to the one step in
  which what was given up may still act.
* `OneWorkerOneAtATime`, for one worker, which is how it is deployed. Nobody else
  inserts between its question and its insertion, so what the policy saw still holds
  then (`Unhindered`): nothing pending for the incident, and both counts below their
  limits, for actions that a person approves too.

`AdapterProofs`, for any set of commands. The invariant has a part that always
holds - the ledger, the result and every container's answer are true of what was
applied - and a part that holds until a container outlives its caller (`InStep`):
only the container waited for is alive, it works on the job, and nothing else has
been applied. From it `LedgerNeverLies`, `AppliedOnce`, `ExecutedWasApplied` (executed
means applied, until then), and the refinement of `ProtectedAction` up to that moment
(`AdapterKeepsPromise`): each step in the files is a start, an effect, a settlement or
a stutter, and the restart that fails an orphan is a `Close`.

`IngestionProofs`, for any events, batch size and log. `WriteEffect` says once what
a transaction does to the tables (of the acceptable messages under a free id the
first is recorded, nothing is overwritten, verdicts are about what is recorded
afterwards); the existence of that first message is the only well-founded argument.
The invariant adds where the loop is (`LoopSound`) and that what is recorded was in
the log. From it `OffsetSettled`, `ConflictsTrue`, `FirstIsKept`, and the
refinement of `Telemetry` (`IngestionKeepsRecords`).

The same module proves the composition. `DeliveryIsUplink` and `DeliveryIsIngestion`:
projected to its variables, with the topic read as a set or as a sequence, `Delivery`
behaves as each of its parts, so all that is proved of either holds of the whole.
`NothingIsLostOnTheWay` is the statement neither part can make: an event its site has
deleted is still to be read, or recorded, or refused for a reason that holds, or
given up with a line in the log. It joins three facts, each proved of one part: what
is deleted is in the topic (`AckedIsInKafka`), what is malformed never gets there
(`RefusedStaysOut`), and a committed offset leaves only settled messages behind
(`OffsetIsSettled`). It is stated under the assumption of `Uplink` about its
constants, which an instance does not inherit. So is `TopicKeepsOrder`, which carries
the bound on overtaking from what Kafka holds at a moment to the sequence the consumer
reads: when a message was appended it had passed fewer than `WINDOW` older events of
its site, and what came before it in the topic never changes.

`UplinkProofs`, for any sites, events, quotas and windows. What makes the answers
safe is that every place an answer can be in - told, about to be told, reported -
holds only what Kafka has (`AnswersTrue`); what makes the acknowledgements safe is
that they are drawn up after the commit (`AckingStored`) and that every copy the
gateway works on has its place at the broker (`HeldByBroker`), so that counting down
never passes zero; the order of the marks
needs that a site stores in order (`BufferedInOrder`). From it `AckedInKafka`,
`MarkedInOrder`, `StoredTillConfirmed`, `ForgottenStored`, and `RefusedStayOut`: no
malformed event passes the gateway's file into the topic. `OvertakingIsBounded` needs
that whatever has left its site, wherever it is now, had fewer than `WINDOW` pending
rows before it and has not more of them since (`SentWithinWindow`): nothing is sent but
by `Publish` (`SentByPublish`), and no older row becomes pending later
(`PendingBehind`, from `BufferedInOrder`).

`DispatchProofs`, for any number of calls, units, assignments and requests. A plan
in the hand of a request may be old, but it is a piece of the calls' order, and a
request that means to clear a call knows a unit that has cleared, which no
transition takes back (`Grounded`). From it `DispatchTyped`, `ClearedAttended`,
`CallsMoveForward`. `InStepWithUnits` adds what the requests under way still owe a
call none of whose requests was cut short (`CallsInHand`): the call has the rank of
each unit on it, or some request holds a plan that takes it there; and once all are
clear it is cleared, or a plan clears it, or a request is yet to count the units and
will find them all clear.

`IncidentsProofs`, for any candidates, links and bounds. The incident a tick keeps
is opened and no duplicate, and those it will merge into it are younger
(`TickSound`): so a merge leads to an older incident, and no later merge of the
tick makes the kept one a duplicate. From it `EvidenceLive`, `DuplicatesEnd`.
`TidyBetweenTicks` needs more (`TidyInv`): the groups of a tick are disjoint
(`GroupsDisjoint`), a link the tick does not know of was made by an earlier group of
it, every incident but the one just opened has evidence, and every duplicate but the
one just merged is closed (`Orderly`), all of it until a tick dies.

Only model-checked: liveness, which is outside the prover (`EveryCommandEnds`,
`ExecutedIsVerified`, `SlotIsFreed`, `IncidentsAreHandled`, `ToldOrStalled`,
`MessagesAreRead`, `EvidenceIsWatched`). Every invariant and every safety property
of the passing runs is also a theorem; the finite runs remain what shows that the
models do what they should and that a plausible bug in them is seen.

## 6. Not modelled

* *Recommendations.* One thread proposes, and skips an incident that has a live
  recommendation; the rest is choosing an action by score. What the policy asks
  about a recommendation is in `CommandPolicy`.
* *Preemption, transit priority.* Scripts run by hand that drive the same command
  table with the same transitions; their content is geometry and SUMO's timing.
* *Audit chain, retention.* Hashes and deletions in SQL triggers and migrations;
  no interleavings of their own beyond the insert they are part of.
* *Model activation at the edge.* Copying and renaming files, by one operator on
  one device.
* *Network state, routing, analytics, forecasts, edge inference, models and
  training.* Numerical functions of stored data, with tests of their own.
* *Authentication and API hardening, observability, scenario control, frontend,
  infrastructure, simulator.* In front of, beside or below what is modelled; what
  the models take from them is named where it is used (roles of a token, one
  replica, the container's files).
* *Acceptance, security and `verify_*` tooling.* The largest part of the Python in
  the repository by lines: programs that drive or inspect the system and print a
  verdict. They keep no state of the system; a model of them would be a model of a
  test. Together with the numerical parts they are the reason why a small share of
  the repository's lines is mapped.

## 7. Plan

Done: the command path, the adapter run, remediation, the way of events from edge
to database, dispatch, and traffic incidents, each with proofs of all their safety
properties. Left, in order:

1. The liveness of the whole way (`MessagesAreRead` after `ToldOrStalled`), on a small
   instance of `Delivery`.
2. `PlatformIncidents`: the correlator of alerts, of which `Remediation` has the
   transitions only.
3. Abstract specifications of a call's life and of the incidents' merging, with
   `Dispatch` and `Incidents` held against them.
