------------------------- MODULE RemediationProofs -------------------------
(***************************************************************************)
(* Proofs about Remediation, for any workers, people, incidents, actions,  *)
(* playbooks and limits.  The invariant adds to the properties what each   *)
(* worker may rely on at its place in the cycle although the row it read   *)
(* may have moved since.                                                   *)
(***************************************************************************)
EXTENDS Remediation, FiniteSetTheorems, TLAPS

USE RemediationAssumption

----------------------------------------------------------------------------
(* The invariant.                                                          *)

\* Past the point where a person can still decide about it.
Decided(k) == request[k].status \notin {"none", "awaiting_approval"}

Consented(k) ==
    \/ Autonomy[k[2]] = "auto"
    \/ /\ Autonomy[k[2]] = "approval"
       /\ request[k].by # None /\ RoleOf[request[k].by] \in APPROVER_ROLES

\* What the place of a worker says of the requests and the incident it holds.
PlaceSound(rec) ==
    /\ rec.pc \notin {"expire", "abandon", "verify"} => \A k \in rec.rows : Decided(k)
    /\ rec.pc = "create" => rec.key \in Keys
    /\ rec.pc = "incidents" => rec.tried = 0
    /\ rec.pc \in {"judge", "withdraw", "start", "call", "worked", "broke"} =>
         rec.key \in Keys /\ Decided(rec.key)
    /\ rec.pc \in {"start", "call"} => Consented(rec.key)
    /\ rec.pc = "call" => rec.key \in In(COUNTED) /\ rec.key \notin called
    /\ rec.pc \in {"ask", "plan"} =>
         rec.inc \in Incidents /\ rec.tried < Len(Playbook[rec.inc])

\* No two workers are about to call the adapter for one request.
CallsDiffer ==
    \A v, w \in Workers :
      worker[v].pc = "call" /\ worker[w].pc = "call" /\ worker[v].key = worker[w].key
        => v = w

IInv ==
    /\ TypeOK
    /\ OneInFlight
    /\ RunIsCounted
    /\ RunHadConsent
    /\ CallsDiffer
    /\ \A w \in Workers : PlaceSound(worker[w])

----------------------------------------------------------------------------
(* The life of a row.                                                      *)

\* What one step may do to a row: nothing but age, a move of the table, the
\* insertion, or the approval.
RowStep(k) ==
    \/ request'[k].status = request[k].status /\ request'[k].by = request[k].by
    \/ /\ request'[k].status \in ALLOWED_TRANSITIONS[request[k].status]
       /\ request[k].status = "awaiting_approval" \/ request'[k].by = request[k].by
    \/ /\ request[k].status = "none"
       /\ request'[k].status \in {"approved", "awaiting_approval"}

\* ALLOWED_TRANSITIONS never leads back to a decision, nor out of the budget.
LEMMA MovesGoForward ==
    ASSUME NEW s \in Statuses, NEW t \in ALLOWED_TRANSITIONS[s]
    PROVE  /\ t \in Statuses \ {"none", "awaiting_approval"}
           /\ s \in COUNTED => t \in COUNTED
           /\ s # "none"
           /\ t = "executing" => s = "approved"
           /\ t \in IN_FLIGHT => s \in IN_FLIGHT \cup {"awaiting_approval"}
           /\ t = "approved" => s = "awaiting_approval"
BY DEF ALLOWED_TRANSITIONS, Statuses, COUNTED, IN_FLIGHT

\* A decided row stays decided and keeps its approver; a counted one counts
\* for good.
LEMMA RowStepKeeps ==
    ASSUME TypeOK, NEW k \in Keys, RowStep(k)
    PROVE  /\ Decided(k) => Decided(k)' /\ (Consented(k) => Consented(k)')
           /\ request[k].status \in COUNTED => request'[k].status \in COUNTED
<1>1. request[k].status \in Statuses
  BY DEF TypeOK, Requests
<1>2. CASE request'[k].status = request[k].status /\ request'[k].by = request[k].by
  BY <1>2 DEF Decided, Consented
<1>3. CASE /\ request'[k].status \in ALLOWED_TRANSITIONS[request[k].status]
           /\ request[k].status = "awaiting_approval" \/ request'[k].by = request[k].by
  BY <1>1, <1>3, MovesGoForward DEF Decided, Consented, COUNTED
<1>4. CASE request[k].status = "none"
  BY <1>4 DEF Decided, COUNTED
<1> QED BY <1>2, <1>3, <1>4 DEF RowStep

Records == [pc : Places, rows : SUBSET Keys, incs : SUBSET Incidents,
            inc : Incidents \cup {None}, tried : Nat, spent : Nat,
            key : Keys \cup {None}]

\* What a worker is entitled to at its place stays so whatever happens to the
\* table; only the call of an adapter could take it away.
LEMMA PlaceKept ==
    ASSUME TypeOK, \A k \in Keys : RowStep(k),
           NEW rec \in Records, PlaceSound(rec),
           rec.pc = "call" => rec.key \notin called'
    PROVE  PlaceSound(rec)'
<1>1. \A k \in Keys : /\ Decided(k) => Decided(k)' /\ (Consented(k) => Consented(k)')
                      /\ request[k].status \in COUNTED => request'[k].status \in COUNTED
  BY RowStepKeeps
<1>2. rec.rows \subseteq Keys
  BY DEF Records
<1>3. rec.pc \notin {"expire", "abandon", "verify"} => \A k \in rec.rows : Decided(k)'
  BY <1>1, <1>2 DEF PlaceSound
<1>4. rec.pc \in {"judge", "withdraw", "start", "call", "worked", "broke"} =>
         rec.key \in Keys /\ Decided(rec.key)'
  BY <1>1 DEF PlaceSound
<1>5. rec.pc \in {"start", "call"} => Consented(rec.key)'
  BY <1>1 DEF PlaceSound
<1>6. rec.pc = "call" => rec.key \in In(COUNTED)'
  BY <1>1 DEF PlaceSound, In
<1> QED
  BY <1>3, <1>4, <1>5, <1>6 DEF PlaceSound

----------------------------------------------------------------------------
(* What every step owes the invariant.                                     *)

\* The slot is taken only when it is free.
SlotStep ==
    \/ In(IN_FLIGHT)' \subseteq In(IN_FLIGHT)
    \/ ~Busy /\ \E k \in Keys : In(IN_FLIGHT)' \subseteq {k}

TableStep == TypeOK' /\ SlotStep /\ \A k \in Keys : RowStep(k)

WorkerStep(w) ==
    /\ PlaceSound(worker[w])'
    /\ \A v \in Workers \ {w} : worker'[v] = worker[v]
    /\ \/ called' = called
       \/ /\ worker[w].pc = "call" /\ worker'[w].pc # "call"
          /\ called' = called \cup {worker[w].key}
    /\ worker'[w].pc = "call" =>
         called' = called /\ request[worker'[w].key].status = "approved"

\* Nobody works for the others.
LEMMA SafetyKept ==
    ASSUME IInv, TableStep, called' = called
    PROVE  (OneInFlight /\ RunIsCounted /\ RunHadConsent)'
<1>1. \A k \in Keys : /\ Decided(k) => Decided(k)' /\ (Consented(k) => Consented(k)')
                      /\ request[k].status \in COUNTED => request'[k].status \in COUNTED
  BY RowStepKeeps DEF IInv, TableStep
<1>2. OneInFlight'
  BY DEF IInv, TableStep, SlotStep, OneInFlight, Busy
<1>3. RunIsCounted'
  BY <1>1 DEF IInv, RunIsCounted, In
<1>4. \A k \in called : Consented(k) /\ Decided(k) /\ k \in Keys
  BY DEF IInv, RunHadConsent, RunIsCounted, In, Consented, Decided, COUNTED
<1>5. \A k \in called' : Consented(k)'
  BY <1>1, <1>4
<1> QED BY <1>2, <1>3, <1>5 DEF RunHadConsent, Consented

\* A step of one worker that does what it owes keeps the invariant.
LEMMA WorkerStepKeeps ==
    ASSUME IInv, NEW w \in Workers, TableStep, WorkerStep(w)
    PROVE  IInv'
<1>1. \A k \in Keys : /\ Decided(k) => Decided(k)' /\ (Consented(k) => Consented(k)')
                      /\ request[k].status \in COUNTED => request'[k].status \in COUNTED
  BY RowStepKeeps DEF IInv, TableStep
<1>2. \A v \in Workers : worker[v] \in Records /\ PlaceSound(worker[v])
  BY DEF IInv, TypeOK, Records
<1>3. CASE called' = called
  <2>1. (OneInFlight /\ RunIsCounted /\ RunHadConsent)'
    BY <1>3, SafetyKept
  <2>2. \A v \in Workers : PlaceSound(worker[v])'
    <3> TAKE v \in Workers
    <3>1. CASE v = w
      BY <3>1 DEF WorkerStep
    <3>2. CASE v # w
      <4> DEFINE rec == worker[v]
      <4>1. rec \in Records /\ PlaceSound(rec) /\ worker'[v] = rec
        BY <1>2, <3>2 DEF WorkerStep
      <4>2. rec.pc = "call" => rec.key \notin called'
        BY <1>2, <1>3 DEF PlaceSound
      <4>3. \A r \in Records : PlaceSound(r) /\ (r.pc = "call" => r.key \notin called')
                => PlaceSound(r)'
        BY PlaceKept DEF IInv, TableStep
      <4> QED BY <4>1, <4>2, <4>3 DEF PlaceSound, Decided, Consented, In
    <3> QED BY <3>1, <3>2
  <2>3. CallsDiffer'
    <3> SUFFICES ASSUME NEW u \in Workers, NEW v \in Workers, u # v,
                        worker'[u].pc = "call", worker'[v].pc = "call",
                        worker'[u].key = worker'[v].key
                 PROVE  FALSE
      BY DEF CallsDiffer
    <3>1. \A x \in Workers \ {w} : worker'[x].pc = "call" =>
             request[worker'[x].key].status \in COUNTED
      BY <1>2 DEF WorkerStep, PlaceSound, In
    <3>2. worker'[w].pc = "call" => request[worker'[w].key].status \notin COUNTED
      BY DEF WorkerStep, COUNTED
    <3>3. u # w /\ v # w
      BY <3>1, <3>2
    <3> QED BY <3>3 DEF WorkerStep, IInv, CallsDiffer
  <2> QED BY <2>1, <2>2, <2>3 DEF IInv, TableStep
<1>4. CASE /\ worker[w].pc = "call" /\ worker'[w].pc # "call"
           /\ called' = called \cup {worker[w].key}
  <2> DEFINE k == worker[w].key
  <2>1. k \in Keys /\ Decided(k) /\ Consented(k) /\ request[k].status \in COUNTED
    BY <1>2, <1>4 DEF PlaceSound, In
  <2>2. OneInFlight'
    BY DEF IInv, TableStep, SlotStep, OneInFlight, Busy
  <2>3. RunIsCounted'
    BY <1>1, <1>4, <2>1 DEF IInv, RunIsCounted, In
  <2>4. \A m \in called' : m \in Keys /\ Decided(m) /\ Consented(m)
    BY <1>4, <2>1 DEF IInv, RunHadConsent, RunIsCounted, In, Consented, Decided, COUNTED
  <2>5. RunHadConsent'
    BY <1>1, <2>4 DEF RunHadConsent, Consented
  <2>6. \A v \in Workers \ {w} : worker[v].pc = "call" => worker[v].key \notin called'
    BY <1>2, <1>4 DEF IInv, CallsDiffer, PlaceSound
  <2>7. \A v \in Workers : PlaceSound(worker[v])'
    <3> TAKE v \in Workers
    <3>1. CASE v = w
      BY <3>1 DEF WorkerStep
    <3>2. CASE v # w
      <4> DEFINE rec == worker[v]
      <4>1. rec \in Records /\ PlaceSound(rec) /\ worker'[v] = rec
        BY <1>2, <3>2 DEF WorkerStep
      <4>2. rec.pc = "call" => rec.key \notin called'
        BY <2>6, <3>2
      <4>3. \A r \in Records : PlaceSound(r) /\ (r.pc = "call" => r.key \notin called')
                => PlaceSound(r)'
        BY PlaceKept DEF IInv, TableStep
      <4> QED BY <4>1, <4>2, <4>3 DEF PlaceSound, Decided, Consented, In
    <3> QED BY <3>1, <3>2
  <2>8. CallsDiffer'
    BY <1>4 DEF WorkerStep, IInv, CallsDiffer
  <2> QED BY <2>2, <2>3, <2>5, <2>7, <2>8 DEF IInv, TableStep
<1> QED BY <1>3, <1>4 DEF WorkerStep

\* A step of a person, the correlator or the clock that does what it owes.
LEMMA OthersStepKeeps ==
    ASSUME IInv, TableStep, worker' = worker, called' = called
    PROVE  IInv'
<1>1. (OneInFlight /\ RunIsCounted /\ RunHadConsent)'
  BY SafetyKept
<1>2. \A r \in Records : PlaceSound(r) => PlaceSound(r)'
  <2> TAKE r \in Records
  <2> HAVE PlaceSound(r)
  <2>1. r.pc = "call" => r.key \notin called'
    BY DEF PlaceSound
  <2> QED BY <2>1, PlaceKept DEF IInv, TableStep
<1>3. \A v \in Workers : worker[v] \in Records /\ PlaceSound(worker[v])
  BY DEF IInv, TypeOK, Records
<1>4. \A v \in Workers : PlaceSound(worker[v])'
  BY <1>2, <1>3 DEF PlaceSound, Decided, Consented, In
<1>5. CallsDiffer'
  BY DEF IInv, CallsDiffer
<1> QED BY <1>1, <1>4, <1>5 DEF IInv, TableStep

----------------------------------------------------------------------------
(* The worker's steps.                                                     *)

\* A step that only moves a worker on.
LEMMA GoesSteps ==
    ASSUME IInv, NEW w \in Workers, NEW rec \in Records,
           Goes(w, rec), PlaceSound(rec), rec.pc # "call",
           UNCHANGED <<request, planned, desk, stops, called>>,
           incident' = incident
    PROVE  TableStep /\ WorkerStep(w)
<1>1. worker \in [Workers -> Records]
  BY DEF IInv, TypeOK, Records
<1>2. worker' \in [Workers -> Records] /\ worker'[w] = rec
      /\ \A v \in Workers \ {w} : worker'[v] = worker[v]
  BY <1>1 DEF Goes
<1>3. TypeOK'
  BY <1>2 DEF IInv, TypeOK, Records
<1>4. SlotStep /\ \A k \in Keys : RowStep(k)
  BY DEF SlotStep, In, RowStep
<1>5. PlaceSound(worker[w])'
  BY <1>2 DEF PlaceSound, Decided, Consented, In
<1> QED BY <1>2, <1>3, <1>4, <1>5 DEF TableStep, WorkerStep

\* A worker that stops takes nothing with it but its place.
LEMMA StopSteps ==
    ASSUME IInv, NEW w \in Workers, Stop(w),
           UNCHANGED <<incident, planned, desk, called>>
    PROVE  TableStep /\ WorkerStep(w)
<1>1. worker \in [Workers -> Records]
  BY DEF IInv, TypeOK, Records
<1>2. Idle \in Records /\ Idle.pc # "call"
  BY DEF Records, Idle, Places
<1>3. worker' \in [Workers -> Records] /\ worker'[w] = Idle
      /\ \A v \in Workers \ {w} : worker'[v] = worker[v]
  BY <1>1, <1>2 DEF Stop
<1>4. request' = request /\ stops' \in 0..MaxCrashes
  BY DEF Stop, IInv, TypeOK
<1>5. TypeOK'
  BY <1>3, <1>4 DEF IInv, TypeOK, Records
<1>6. SlotStep /\ \A m \in Keys : RowStep(m)
  BY <1>4 DEF SlotStep, In, RowStep
<1>7. PlaceSound(worker[w])'
  BY <1>3 DEF PlaceSound, Idle
<1> QED BY <1>2, <1>3, <1>5, <1>6, <1>7 DEF TableStep, WorkerStep

\* The records a step writes to the table are rows.
LEMMA RowMoved ==
    ASSUME NEW k \in Keys, request \in [Keys -> Requests], NEW to \in Statuses,
           request' = [request EXCEPT ![k].status = to, ![k].age = 0]
    PROVE  request' \in [Keys -> Requests]
<1>1. PICK r \in Requests : r = request[k]
  OBVIOUS
<1>2. [r EXCEPT !.status = to] \in Requests
  BY DEF Requests
<1>3. [[r EXCEPT !.status = to] EXCEPT !.age = 0] \in Requests
  BY <1>2 DEF Requests
<1>4. request' = [request EXCEPT ![k] = [[r EXCEPT !.status = to] EXCEPT !.age = 0]]
  BY <1>1 DEF Requests
<1> QED BY <1>3, <1>4

\* A transition: the row moves along the table and the worker goes on, or
\* nothing moves and the worker stops.
LEMMA TransitionSteps ==
    ASSUME IInv, NEW w \in Workers, NEW k \in Keys, NEW to \in Statuses \ {"approved"},
           NEW rec \in Records, Transition(w, k, to, rec),
           PlaceSound(rec), rec.pc = "call" => to = "executing" /\ rec.key = k,
           UNCHANGED <<incident, planned, desk, called>>
    PROVE  TableStep /\ WorkerStep(w)
<1>1. worker \in [Workers -> Records] /\ request \in [Keys -> Requests]
  BY DEF IInv, TypeOK, Records
<1>2. CASE to \in ALLOWED_TRANSITIONS[request[k].status]
  <2>1. /\ request' = [request EXCEPT ![k].status = to, ![k].age = 0]
        /\ worker' = [worker EXCEPT ![w] = rec] /\ stops' = stops
    BY <1>2 DEF Transition
  <2>2. request' \in [Keys -> Requests]
    BY <1>1, <2>1, RowMoved
  <2>3. worker' \in [Workers -> Records] /\ worker'[w] = rec
        /\ \A v \in Workers \ {w} : worker'[v] = worker[v]
    BY <1>1, <2>1
  <2>4. TypeOK'
    BY <2>1, <2>2, <2>3 DEF IInv, TypeOK, Records
  <2>5. /\ request'[k].status = to /\ request'[k].by = request[k].by
        /\ \A m \in Keys \ {k} : request'[m] = request[m]
    BY <1>1, <2>1 DEF Requests
  <2>6. \A m \in Keys : RowStep(m)
    BY <1>2, <2>5 DEF RowStep
  <2>7. request[k].status \in Statuses
    BY <1>1 DEF Requests
  <2>8. to \in IN_FLIGHT => request[k].status \in IN_FLIGHT
    BY <1>2, <2>7 DEF ALLOWED_TRANSITIONS, Statuses, IN_FLIGHT
  <2>9. SlotStep
    BY <2>5, <2>8 DEF SlotStep, In
  <2>10. PlaceSound(rec)'
    <3>1. rec.pc = "call" => rec.key \notin called'
      BY DEF PlaceSound
    <3> QED BY <2>6, <3>1, PlaceKept DEF IInv
  <2>11. PlaceSound(worker[w])'
    BY <2>3, <2>10 DEF PlaceSound, Decided, Consented, In
  <2>12. to = "executing" => request[k].status = "approved"
    BY <1>2, <2>7, MovesGoForward
  <2> QED BY <2>3, <2>4, <2>6, <2>9, <2>11, <2>12 DEF TableStep, WorkerStep
<1>3. CASE Stop(w)
  BY <1>3, StopSteps
<1> QED BY <1>2, <1>3 DEF Transition

\* The record of a worker, and where it goes when a request is dealt with.
LEMMA RecordTyped ==
    ASSUME IInv, NEW w \in Workers
    PROVE  /\ worker[w] \in Records /\ PlaceSound(worker[w])
           /\ Idle \in Records /\ Idle.pc = "idle" /\ PlaceSound(Idle)
BY DEF IInv, TypeOK, Records, Idle, Places, PlaceSound

LEMMA RowDone ==
    ASSUME IInv, NEW w \in Workers, NEW k
    PROVE  /\ Without(w, k) \in Records /\ Without(w, k).pc = worker[w].pc
           /\ worker[w].pc \in {"expire", "abandon", "verify", "run"} =>
                PlaceSound(Without(w, k))
<1>1. worker[w] \in Records /\ PlaceSound(worker[w])
  BY RecordTyped
<1> QED BY <1>1 DEF Without, Records, PlaceSound

LEMMA ReturnSound ==
    ASSUME IInv, NEW w \in Workers, worker[w].pc \notin {"expire", "abandon", "verify"}
    PROVE  Return(w) \in Records /\ Return(w).pc # "call" /\ PlaceSound(Return(w))
<1>1. worker[w] \in Records /\ PlaceSound(worker[w])
  BY RecordTyped
<1>2. /\ Return(w) \in Records /\ Return(w).pc \in {"run", "incidents"}
      /\ Return(w).rows = worker[w].rows /\ Return(w).tried = 0
  BY <1>1 DEF Return, Records, Places
<1> QED BY <1>1, <1>2 DEF PlaceSound

LEMMA StartCycleSteps ==
    ASSUME IInv, NEW w \in Workers, StartCycle(w)
    PROVE  TableStep /\ WorkerStep(w)
<1> DEFINE stale == {k \in In({"awaiting_approval"}) : request[k].age = 2}
           rec == [Idle EXCEPT !.pc = "expire", !.rows = stale]
<1>1. stale \subseteq Keys
  BY DEF In
<1>2. rec \in Records /\ rec.pc = "expire"
  BY <1>1 DEF Idle, Records, Places
<1>3. PlaceSound(rec)
  BY <1>2 DEF PlaceSound
<1>4. Goes(w, rec) /\ UNCHANGED <<incident, request, planned, desk, stops, called>>
  BY DEF StartCycle
<1> HIDE DEF rec
<1> QED BY <1>2, <1>3, <1>4, GoesSteps

LEMMA NextPhaseSteps ==
    ASSUME IInv, NEW w \in Workers, NextPhase(w)
    PROVE  TableStep /\ WorkerStep(w)
<1>1. \E rec \in Records : Goes(w, rec) /\ PlaceSound(rec) /\ rec.pc # "call"
  <2>1. ASSUME NEW rows \in SUBSET Keys, NEW pc \in {"abandon", "verify"},
               Goes(w, [Idle EXCEPT !.pc = pc, !.rows = rows])
        PROVE  \E rec \in Records : Goes(w, rec) /\ PlaceSound(rec) /\ rec.pc # "call"
    <3> DEFINE rec == [Idle EXCEPT !.pc = pc, !.rows = rows]
    <3>1. rec \in Records /\ rec.pc = pc
      BY DEF Idle, Records, Places
    <3>2. PlaceSound(rec)
      BY <3>1 DEF PlaceSound
    <3> QED BY <2>1, <3>1, <3>2
  <2>2. CASE worker[w].pc = "expire"
    <3>1. Interrupted \in SUBSET Keys
      BY DEF Interrupted, In
    <3>2. Goes(w, [Idle EXCEPT !.pc = "abandon", !.rows = Interrupted])
      BY <2>2 DEF NextPhase
    <3> QED BY <2>1, <3>1, <3>2
  <2>3. CASE worker[w].pc = "abandon"
    <3>1. In({"executed"}) \in SUBSET Keys
      BY DEF In
    <3>2. Goes(w, [Idle EXCEPT !.pc = "verify", !.rows = In({"executed"})])
      BY <2>3 DEF NextPhase
    <3> QED BY <2>1, <3>1, <3>2
  <2>4. CASE worker[w].pc = "verify"
    <3> DEFINE rows == In({"approved"})
               rec == [Idle EXCEPT !.pc = "run", !.rows = rows]
    <3>1. rows \in SUBSET Keys /\ \A k \in rows : Decided(k)
      BY DEF In, Decided
    <3>2. Goes(w, rec)
      BY <2>4 DEF NextPhase
    <3> HIDE DEF rows
    <3>3. rec \in Records /\ rec.pc = "run" /\ rec.rows = rows
      BY <3>1 DEF Idle, Records, Places
    <3>4. PlaceSound(rec)
      BY <3>1, <3>3 DEF PlaceSound
    <3> QED BY <3>2, <3>3, <3>4
  <2>5. CASE worker[w].pc = "run"
    <3> DEFINE live == {i \in Incidents : incident[i].status \in Live}
               rec == [Idle EXCEPT !.pc = "incidents", !.incs = live]
    <3>1. rec \in Records /\ rec.pc = "incidents" /\ rec.rows = {} /\ rec.tried = 0
      BY DEF Idle, Records, Places
    <3>2. PlaceSound(rec)
      BY <3>1 DEF PlaceSound
    <3>3. Goes(w, rec)
      BY <2>5 DEF NextPhase
    <3> QED BY <3>1, <3>2, <3>3
  <2>6. CASE worker[w].pc = "incidents"
    BY <2>6, RecordTyped DEF NextPhase
  <2> QED BY <2>2, <2>3, <2>4, <2>5, <2>6 DEF NextPhase
<1> QED BY <1>1, GoesSteps DEF NextPhase

LEMMA HousekeepingSteps ==
    ASSUME IInv, NEW w \in Workers,
           ExpireStale(w) \/ AbandonInterrupted(w) \/ VerifyExecuted(w)
    PROVE  TableStep /\ WorkerStep(w)
<1>1. worker[w].rows \subseteq Keys
  BY RecordTyped DEF Records
<1>2. PICK k \in worker[w].rows :
        \/ \E to \in {"expired", "abandoned", "verified", "failed"} :
             Transition(w, k, to, Without(w, k))
        \/ Goes(w, Without(w, k)) /\ UNCHANGED <<request, stops>>
  BY DEF ExpireStale, AbandonInterrupted, VerifyExecuted
<1>3. worker[w].pc \in {"expire", "abandon", "verify"}
  BY DEF ExpireStale, AbandonInterrupted, VerifyExecuted
<1>4. Without(w, k) \in Records /\ PlaceSound(Without(w, k)) /\ Without(w, k).pc # "call"
  BY <1>3, RowDone
<1>5. UNCHANGED <<incident, planned, desk, called>>
  BY DEF ExpireStale, AbandonInterrupted, VerifyExecuted
<1>6. CASE Goes(w, Without(w, k)) /\ UNCHANGED <<request, stops>>
  BY <1>4, <1>5, <1>6, GoesSteps
<1>7. ASSUME NEW to \in {"expired", "abandoned", "verified", "failed"},
             Transition(w, k, to, Without(w, k))
      PROVE  TableStep /\ WorkerStep(w)
  <2>1. to \in Statuses \ {"approved"} /\ k \in Keys
    BY <1>1 DEF Statuses
  <2> QED BY <2>1, <1>4, <1>5, <1>7, TransitionSteps
<1> QED BY <1>2, <1>6, <1>7

LEMMA RunApprovedSteps ==
    ASSUME IInv, NEW w \in Workers, RunApproved(w)
    PROVE  TableStep /\ WorkerStep(w)
<1>1. PICK k \in worker[w].rows :
        Goes(w, [Without(w, k) EXCEPT !.pc = "judge", !.key = k])
  BY DEF RunApproved
<1> DEFINE rec == [Without(w, k) EXCEPT !.pc = "judge", !.key = k]
<1>2. k \in Keys /\ Decided(k) /\ \A m \in worker[w].rows : Decided(m)
  BY RecordTyped DEF Records, PlaceSound, RunApproved
<1>3. /\ rec \in Records /\ rec.pc = "judge" /\ rec.key = k
      /\ rec.rows \subseteq worker[w].rows
  BY <1>2, RecordTyped DEF Without, Records, Places
<1> HIDE DEF rec
<1>4. PlaceSound(rec)
  BY <1>2, <1>3 DEF PlaceSound
<1>5. Goes(w, rec)
  BY <1>1 DEF rec
<1> QED BY <1>3, <1>4, <1>5, GoesSteps DEF RunApproved

\* Moving on to another place with the same request and incident in hand.
LEMMA PlaceChanged ==
    ASSUME IInv, NEW w \in Workers, NEW pc \in Places
    PROVE  LET rec == [worker[w] EXCEPT !.pc = pc]
           IN /\ rec \in Records /\ rec.pc = pc /\ rec.rows = worker[w].rows
              /\ rec.key = worker[w].key /\ rec.inc = worker[w].inc
              /\ rec.tried = worker[w].tried
BY RecordTyped DEF Records

LEMMA JudgeSteps ==
    ASSUME IInv, NEW w \in Workers, Judge(w)
    PROVE  TableStep /\ WorkerStep(w)
<1>1. PlaceSound(worker[w]) /\ worker[w].pc = "judge" /\ worker[w].key \in Keys
  BY RecordTyped DEF Judge, PlaceSound
<1>2. UNCHANGED <<incident, planned, desk, called>>
  BY DEF Judge
<1>3. ASSUME NEW pc \in {"start", "withdraw"}, Goes(w, [worker[w] EXCEPT !.pc = pc]),
             pc = "start" => Consented(worker[w].key), UNCHANGED <<request, stops>>
      PROVE  TableStep /\ WorkerStep(w)
  <2> DEFINE rec == [worker[w] EXCEPT !.pc = pc]
  <2>1. /\ rec \in Records /\ rec.pc = pc /\ rec.rows = worker[w].rows
        /\ rec.key = worker[w].key
    <3>1. pc \in Places
      BY DEF Places
    <3> QED BY <3>1, PlaceChanged
  <2>2. PlaceSound(rec)
    <3> HIDE DEF rec
    <3> QED BY <1>1, <1>3, <2>1 DEF PlaceSound
  <2> QED BY <1>2, <1>3, <2>1, <2>2, GoesSteps
<1>4. MayExecute(worker[w].key) => Consented(worker[w].key)
  <2>1. worker[w].key[2] \in Actions
    BY <1>1 DEF Keys
  <2>2. Autonomy[worker[w].key[2]] \in {"auto", "approval", "plan_only"}
    BY <2>1
  <2> QED BY <2>2 DEF MayExecute, Consented
<1>5. CASE /\ Goes(w, [worker[w] EXCEPT !.pc = IF MayExecute(worker[w].key)
                                               THEN "start" ELSE "withdraw"])
           /\ UNCHANGED <<request, stops>>
  <2>1. CASE MayExecute(worker[w].key)
    BY <1>3, <1>4, <1>5, <2>1
  <2>2. CASE ~MayExecute(worker[w].key)
    BY <1>3, <1>5, <2>2
  <2> QED BY <2>1, <2>2
<1>6. CASE Goes(w, Idle) /\ UNCHANGED <<request, stops>>
  BY <1>2, <1>6, RecordTyped, GoesSteps
<1>7. CASE Stop(w)
  BY <1>2, <1>7, StopSteps
<1> QED BY <1>5, <1>6, <1>7 DEF Judge

LEMMA WithdrawSteps ==
    ASSUME IInv, NEW w \in Workers, Withdraw(w)
    PROVE  TableStep /\ WorkerStep(w)
<1>1. worker[w].key \in Keys /\ worker[w].pc = "withdraw"
  BY RecordTyped DEF Withdraw, PlaceSound
<1>2. "expired" \in Statuses \ {"approved"}
  BY DEF Statuses
<1> QED BY <1>1, <1>2, ReturnSound, TransitionSteps DEF Withdraw

LEMMA RecordSteps ==
    ASSUME IInv, NEW w \in Workers, Record(w)
    PROVE  TableStep /\ WorkerStep(w)
<1>1. worker[w].key \in Keys /\ worker[w].pc \in {"worked", "broke"}
  BY RecordTyped DEF Record, PlaceSound
<1>2. PICK to \in {"executed", "failed"} : Transition(w, worker[w].key, to, Return(w))
  BY DEF Record
<1>3. to \in Statuses \ {"approved"}
  BY DEF Statuses
<1> QED BY <1>1, <1>2, <1>3, ReturnSound, TransitionSteps DEF Record

\* The one step that leads to an adapter: only an approved request is started,
\* so nobody else is about to call for it and nobody has.
LEMMA StartSteps ==
    ASSUME IInv, NEW w \in Workers, Start(w)
    PROVE  TableStep /\ WorkerStep(w)
<1> DEFINE k == worker[w].key
           rec == [worker[w] EXCEPT !.pc = "call"]
<1>1. /\ worker[w] \in Records /\ PlaceSound(worker[w]) /\ worker[w].pc = "start"
      /\ k \in Keys /\ Decided(k) /\ Consented(k)
  BY RecordTyped DEF Start, PlaceSound
<1>2. /\ Transition(w, k, "executing", rec)
      /\ UNCHANGED <<incident, planned, desk, called>>
  BY DEF Start
<1>3. CASE Stop(w)
  BY <1>2, <1>3, StopSteps
<1>4. CASE "executing" \in ALLOWED_TRANSITIONS[request[k].status]
  <2>1. /\ request' = [request EXCEPT ![k].status = "executing", ![k].age = 0]
        /\ worker' = [worker EXCEPT ![w] = rec] /\ stops' = stops
    BY <1>2, <1>4 DEF Transition
  <2>2. request \in [Keys -> Requests] /\ worker \in [Workers -> Records]
    BY DEF IInv, TypeOK, Records
  <2>3. request' \in [Keys -> Requests]
    BY <1>1, <2>1, <2>2, RowMoved DEF Statuses
  <2>4. PICK r \in Records : r = rec /\ r.pc = "call" /\ r.rows = worker[w].rows /\ r.key = k
    <3>1. "call" \in Places
      BY DEF Places
    <3>2. /\ rec \in Records /\ rec.pc = "call" /\ rec.rows = worker[w].rows
          /\ rec.key = k
      BY <3>1, PlaceChanged
    <3> QED BY <3>2
  <2>5. worker' \in [Workers -> Records] /\ worker'[w] = r
        /\ \A v \in Workers \ {w} : worker'[v] = worker[v]
    BY <2>1, <2>2, <2>4
  <2>6. TypeOK'
    BY <1>2, <2>1, <2>3, <2>5 DEF IInv, TypeOK, Records
  <2>7. /\ request'[k].status = "executing" /\ request'[k].by = request[k].by
        /\ \A m \in Keys \ {k} : request'[m] = request[m]
    BY <1>1, <2>1, <2>2 DEF Requests
  <2>8. \A m \in Keys : RowStep(m)
    BY <1>4, <2>7 DEF RowStep
  <2>9. request[k].status = "approved"
    <3>1. request[k].status \in Statuses
      BY <1>1, <2>2 DEF Requests
    <3> QED BY <1>4, <3>1, MovesGoForward
  <2>10. SlotStep
    BY <2>7, <2>9 DEF SlotStep, In, IN_FLIGHT
  <2>11. k \notin called
    BY <2>9 DEF IInv, RunIsCounted, In, COUNTED
  <2>12. PlaceSound(r)'
    <3>1. \A m \in worker[w].rows : m \in Keys /\ Decided(m)
      BY <1>1 DEF Records, PlaceSound
    <3>2. \A m \in Keys : Decided(m) => Decided(m)' /\ (Consented(m) => Consented(m)')
      BY <2>8, RowStepKeeps DEF IInv
    <3>3. r.key \in Keys /\ request'[r.key].status \in COUNTED
      BY <1>1, <2>4, <2>7 DEF COUNTED
    <3>4. r.key \in In(COUNTED)'
      BY <3>3 DEF In
    <3>5. r.key \notin called'
      BY <1>2, <2>4, <2>11
    <3>6. \A m \in r.rows : Decided(m)'
      BY <2>4, <3>1, <3>2
    <3>7. Decided(r.key)' /\ Consented(r.key)'
      BY <1>1, <2>4, <3>2
    <3> QED BY <2>4, <3>3, <3>4, <3>5, <3>6, <3>7 DEF PlaceSound
  <2>13. PlaceSound(worker[w])'
    BY <2>5, <2>12 DEF PlaceSound, Decided, Consented, In
  <2> QED
    BY <1>2, <2>4, <2>5, <2>6, <2>8, <2>9, <2>10, <2>13 DEF TableStep, WorkerStep
<1> QED BY <1>2, <1>3, <1>4 DEF Transition

LEMMA CallAdapterSteps ==
    ASSUME IInv, NEW w \in Workers, CallAdapter(w)
    PROVE  TableStep /\ WorkerStep(w)
<1>1. PICK to \in {"worked", "broke"} : Goes(w, [worker[w] EXCEPT !.pc = to])
  BY DEF CallAdapter
<1> DEFINE rec == [worker[w] EXCEPT !.pc = to]
<1>2. /\ worker[w].pc = "call" /\ called' = called \cup {worker[w].key}
      /\ UNCHANGED <<incident, request, planned, desk, stops>>
  BY DEF CallAdapter
<1>3. worker[w].key \in Keys /\ PlaceSound(worker[w])
  BY <1>2, RecordTyped DEF PlaceSound
<1>4. /\ rec \in Records /\ rec.pc = to /\ rec.rows = worker[w].rows
      /\ rec.key = worker[w].key
  <2>1. to \in Places
    BY DEF Places
  <2> QED BY <2>1, PlaceChanged
<1>5. Goes(w, rec)
  BY <1>1
<1> HIDE DEF rec
<1>6. PlaceSound(rec)
  BY <1>2, <1>3, <1>4 DEF PlaceSound
<1>7. worker \in [Workers -> Records]
  BY DEF IInv, TypeOK, Records
<1>8. worker' \in [Workers -> Records] /\ worker'[w] = rec
      /\ \A v \in Workers \ {w} : worker'[v] = worker[v]
  BY <1>4, <1>5, <1>7 DEF Goes
<1>9. TypeOK'
  BY <1>2, <1>3, <1>8 DEF IInv, TypeOK, Records
<1>10. SlotStep /\ \A m \in Keys : RowStep(m)
  BY <1>2 DEF SlotStep, In, RowStep
<1>11. PlaceSound(worker[w])'
  BY <1>2, <1>4, <1>6, <1>8 DEF PlaceSound, Decided, Consented, In
<1> QED BY <1>2, <1>4, <1>8, <1>9, <1>10, <1>11 DEF TableStep, WorkerStep

LEMMA ConsiderSteps ==
    ASSUME IInv, NEW w \in Workers, Consider(w)
    PROVE  TableStep /\ WorkerStep(w)
<1>1. PICK i \in worker[w].incs :
        LET rest == [worker[w] EXCEPT !.incs = @ \ {i}]
        IN \/ Goes(w, rest)
           \/ \E pc \in {"escalate", "ask"} :
                /\ pc = "ask" => Playbook[i] # <<>>
                /\ Goes(w, [rest EXCEPT !.pc = pc, !.inc = i])
  BY DEF Consider
<1> DEFINE rest == [worker[w] EXCEPT !.incs = @ \ {i}]
<1>2. worker[w] \in Records /\ PlaceSound(worker[w]) /\ worker[w].pc = "incidents"
  BY RecordTyped DEF Consider
<1>3. /\ i \in Incidents /\ rest \in Records /\ rest.pc = "incidents"
      /\ rest.rows = worker[w].rows /\ rest.tried = 0
  BY <1>2 DEF Records, PlaceSound
<1>4. \/ Goes(w, rest)
      \/ \E pc \in {"escalate", "ask"} :
           /\ pc = "ask" => Playbook[i] # <<>>
           /\ Goes(w, [rest EXCEPT !.pc = pc, !.inc = i])
  BY <1>1, Zenon
<1>5. UNCHANGED <<incident, request, planned, desk, stops, called>>
  BY DEF Consider
<1> HIDE DEF rest
<1>6. CASE Goes(w, rest)
  <2>1. PlaceSound(rest)
    BY <1>2, <1>3 DEF PlaceSound
  <2> QED BY <1>3, <1>5, <1>6, <2>1, GoesSteps
<1>7. ASSUME NEW pc \in {"escalate", "ask"}, pc = "ask" => Playbook[i] # <<>>,
             Goes(w, [rest EXCEPT !.pc = pc, !.inc = i])
      PROVE  TableStep /\ WorkerStep(w)
  <2> DEFINE rec == [rest EXCEPT !.pc = pc, !.inc = i]
  <2>1. /\ rec \in Records /\ rec.pc = pc /\ rec.inc = i /\ rec.tried = 0
        /\ rec.rows = worker[w].rows
    BY <1>3 DEF Records, Places
  <2>2. Playbook[i] # <<>> => 0 < Len(Playbook[i])
    <3>1. Playbook[i] \in Seq(Actions)
      BY <1>3
    <3> QED BY <3>1
  <2>3. Goes(w, rec)
    BY <1>7
  <2> HIDE DEF rec
  <2>4. PlaceSound(rec)
    BY <1>2, <1>3, <1>7, <2>1, <2>2 DEF PlaceSound
  <2> QED BY <1>5, <2>1, <2>3, <2>4, GoesSteps
<1> QED BY <1>4, <1>6, <1>7

\* A request is numbered within the bound.
LEMMA RequestsAreCounted ==
    ASSUME NEW i \in Incidents, NEW a \in Actions
    PROVE  RequestsFor(i, a) \in Nat
<1> DEFINE made == {n \in 1..MaxRequests : request[<<i, a, n>>].status # "none"}
<1>1. IsFiniteSet(made)
  <2>1. IsFiniteSet(1..MaxRequests)
    BY FS_Interval
  <2> QED BY <2>1, FS_Subset
<1>2. Cardinality(made) \in Nat
  BY <1>1, FS_CardinalityType
<1> QED BY <1>2 DEF RequestsFor

LEMMA NumberTyped ==
    ASSUME NEW i \in Incidents, NEW a \in Actions, RequestsFor(i, a) < MaxRequests
    PROVE  <<i, a, RequestsFor(i, a) + 1>> \in Keys
BY RequestsAreCounted DEF Keys

LEMMA AskSteps ==
    ASSUME IInv, NEW w \in Workers, Ask(w)
    PROVE  TableStep /\ WorkerStep(w)
<1> DEFINE i == worker[w].inc
           a == Playbook[i][worker[w].tried + 1]
<1>1. /\ worker[w] \in Records /\ PlaceSound(worker[w]) /\ worker[w].pc = "ask"
      /\ i \in Incidents /\ worker[w].tried < Len(Playbook[i]) /\ worker[w].tried \in Nat
  BY RecordTyped DEF Ask, PlaceSound, Records
<1>2. a \in Actions
  <2>1. Playbook[i] \in Seq(Actions)
    BY <1>1
  <2>2. worker[w].tried + 1 \in 1..Len(Playbook[i])
    BY <1>1, <2>1
  <2> QED BY <2>1, <2>2
<1>3. UNCHANGED <<incident, request, planned, desk, stops, called>>
  BY DEF Ask
<1>4. ASSUME NEW pc \in {"escalate", "plan"}, Goes(w, [worker[w] EXCEPT !.pc = pc])
      PROVE  TableStep /\ WorkerStep(w)
  <2> DEFINE rec == [worker[w] EXCEPT !.pc = pc]
  <2>1. /\ rec \in Records /\ rec.pc = pc /\ rec.rows = worker[w].rows
        /\ rec.inc = i /\ rec.tried = worker[w].tried
    <3>1. pc \in Places
      BY DEF Places
    <3> QED BY <3>1, PlaceChanged
  <2>2. Goes(w, rec)
    BY <1>4
  <2> HIDE DEF rec
  <2>3. PlaceSound(rec)
    BY <1>1, <2>1 DEF PlaceSound
  <2> QED BY <1>3, <2>1, <2>2, <2>3, GoesSteps
<1>5. CASE Goes(w, Idle)
  BY <1>3, <1>5, RecordTyped, GoesSteps
<1>6. CASE Goes(w, Return(w))
  BY <1>1, <1>3, <1>6, ReturnSound, GoesSteps
<1>7. ASSUME NEW spent \in Nat, TryNext(w, spent)
      PROVE  TableStep /\ WorkerStep(w)
  <2> DEFINE n == worker[w].tried + 1
             rec == [worker[w] EXCEPT !.tried = n, !.spent = spent]
  <2>1. CASE n < Len(Playbook[i]) /\ Goes(w, rec)
    <3>1. /\ rec \in Records /\ rec.pc = "ask" /\ rec.rows = worker[w].rows
          /\ rec.inc = i /\ rec.tried = n
      <4>1. n \in Nat
        BY <1>1
      <4> HIDE DEF n
      <4> QED BY <1>1, <4>1 DEF Records
    <3>2. Goes(w, rec) /\ n < Len(Playbook[i])
      BY <2>1
    <3> HIDE DEF rec
    <3>3. PlaceSound(rec)
      BY <1>1, <3>1, <3>2 DEF PlaceSound
    <3> QED BY <1>3, <3>1, <3>2, <3>3, GoesSteps
  <2>2. CASE Goes(w, [worker[w] EXCEPT !.pc = "escalate"])
    BY <1>4, <2>2
  <2> QED BY <1>6, <1>7, <2>1, <2>2 DEF TryNext
<1>8. CASE /\ RequestsFor(i, a) < MaxRequests
           /\ Goes(w, [worker[w] EXCEPT !.pc = "create",
                         !.key = <<i, a, RequestsFor(i, a) + 1>>])
  <2> DEFINE k == <<i, a, RequestsFor(i, a) + 1>>
             rec == [worker[w] EXCEPT !.pc = "create", !.key = k]
  <2>1. k \in Keys
    BY <1>1, <1>2, <1>8, NumberTyped
  <2>2. Goes(w, rec)
    BY <1>8
  <2> HIDE DEF k
  <2>3. /\ rec \in Records /\ rec.pc = "create" /\ rec.rows = worker[w].rows
        /\ rec.key = k
    BY <1>1, <2>1 DEF Records, Places
  <2> HIDE DEF rec
  <2>4. PlaceSound(rec)
    BY <1>1, <2>1, <2>3 DEF PlaceSound
  <2> QED BY <1>3, <2>2, <2>3, <2>4, GoesSteps
<1>9. worker[w].spent \in Nat /\ worker[w].spent + 1 \in Nat
  BY <1>1 DEF Records
<1> QED BY <1>4, <1>5, <1>6, <1>7, <1>8, <1>9 DEF Ask

LEMMA PlanSteps ==
    ASSUME IInv, NEW w \in Workers, Plan(w)
    PROVE  TableStep /\ WorkerStep(w)
<1> DEFINE i == worker[w].inc
           line == <<i, Playbook[i][worker[w].tried + 1]>>
<1>1. /\ worker[w] \in Records /\ PlaceSound(worker[w]) /\ worker[w].pc = "plan"
      /\ i \in Incidents /\ worker[w].tried < Len(Playbook[i]) /\ worker[w].tried \in Nat
  BY RecordTyped DEF Plan, PlaceSound, Records
<1>2. line \in Incidents \X Actions
  <2>1. Playbook[i] \in Seq(Actions)
    BY <1>1
  <2>2. worker[w].tried + 1 \in 1..Len(Playbook[i])
    BY <1>1, <2>1
  <2> QED BY <1>1, <2>1, <2>2
<1>3. /\ planned' = planned \cup {line}
      /\ UNCHANGED <<incident, request, desk, stops, called>>
  BY DEF Plan
<1>4. \E rec \in Records : Goes(w, rec) /\ PlaceSound(rec) /\ rec.pc # "call"
  <2>1. CASE Goes(w, Return(w))
    BY <1>1, <2>1, ReturnSound
  <2>2. CASE Goes(w, [worker[w] EXCEPT !.pc = "escalate"])
    <3> DEFINE rec == [worker[w] EXCEPT !.pc = "escalate"]
    <3>1. "escalate" \in Places
      BY DEF Places
    <3>2. rec \in Records /\ rec.pc = "escalate" /\ rec.rows = worker[w].rows
      BY <3>1, PlaceChanged
    <3>3. Goes(w, rec)
      BY <2>2
    <3> HIDE DEF rec
    <3>4. PlaceSound(rec)
      BY <1>1, <3>2 DEF PlaceSound
    <3> QED BY <3>2, <3>3, <3>4
  <2> QED BY <2>1, <2>2 DEF Plan
<1>5. PICK rec \in Records : Goes(w, rec) /\ PlaceSound(rec) /\ rec.pc # "call"
  BY <1>4
<1>6. worker \in [Workers -> Records]
  BY DEF IInv, TypeOK, Records
<1>7. worker' \in [Workers -> Records] /\ worker'[w] = rec
      /\ \A v \in Workers \ {w} : worker'[v] = worker[v]
  BY <1>5, <1>6 DEF Goes
<1>8. TypeOK'
  BY <1>2, <1>3, <1>7 DEF IInv, TypeOK, Records
<1>9. SlotStep /\ \A m \in Keys : RowStep(m)
  BY <1>3 DEF SlotStep, In, RowStep
<1>10. PlaceSound(worker[w])'
  BY <1>3, <1>5, <1>7 DEF PlaceSound, Decided, Consented, In
<1> QED BY <1>3, <1>5, <1>7, <1>8, <1>9, <1>10 DEF TableStep, WorkerStep

\* The insertion takes the slot only if it is free.
LEMMA CreateSteps ==
    ASSUME IInv, NEW w \in Workers, Create(w)
    PROVE  TableStep /\ WorkerStep(w)
<1>0. PICK k \in Keys : k = worker[w].key
  BY RecordTyped DEF Create, PlaceSound
<1> DEFINE auto == Autonomy[k[2]] = "auto"
           to == IF auto THEN "approved" ELSE "awaiting_approval"
           next == [worker[w] EXCEPT !.pc = "judge"]
<1>1. /\ worker[w] \in Records /\ PlaceSound(worker[w]) /\ worker[w].pc = "create"
      /\ UNCHANGED <<incident, planned, desk, stops, called>>
  BY RecordTyped DEF Create
<1>2. CASE Goes(w, Return(w)) /\ UNCHANGED request
  BY <1>1, <1>2, ReturnSound, GoesSteps
<1>3. CASE /\ request[k].status = "none" /\ ~(auto /\ Busy)
           /\ request' = [request EXCEPT ![k].status = to]
           /\ Goes(w, IF auto THEN next ELSE Return(w))
  <2>1. request \in [Keys -> Requests] /\ worker \in [Workers -> Records]
    BY DEF IInv, TypeOK, Records
  <2>2. to \in Statuses /\ to \in {"approved", "awaiting_approval"}
    BY DEF Statuses
  <2>3. request' \in [Keys -> Requests]
    <3> HIDE DEF to
    <3>1. PICK r \in Requests : r = request[k]
      BY <2>1
    <3>2. [r EXCEPT !.status = to] \in Requests
      BY <2>2 DEF Requests
    <3>3. request' = [request EXCEPT ![k] = [r EXCEPT !.status = to]]
      BY <1>3, <3>1 DEF to
    <3> QED BY <2>1, <3>2, <3>3
  <2>4. request'[k].status = to /\ \A m \in Keys \ {k} : request'[m] = request[m]
    BY <1>1, <1>3, <2>1 DEF Requests
  <2>5. \A m \in Keys : RowStep(m)
    BY <1>3, <2>2, <2>4 DEF RowStep
  <2>6. SlotStep
    <3>1. CASE auto
      <4>1. ~Busy
        BY <1>3, <3>1
      <4>2. In(IN_FLIGHT)' \subseteq {k}
        BY <2>4, <4>1 DEF Busy, In
      <4> QED BY <1>1, <4>1, <4>2 DEF SlotStep
    <3>2. CASE ~auto
      <4>1. request'[k].status \notin IN_FLIGHT
        BY <2>4, <3>2 DEF IN_FLIGHT
      <4>2. In(IN_FLIGHT)' \subseteq In(IN_FLIGHT)
        BY <2>4, <4>1 DEF In
      <4> QED BY <4>2 DEF SlotStep
    <3> QED BY <3>1, <3>2
  <2>7. PICK rec \in Records :
          /\ Goes(w, rec) /\ PlaceSound(rec)' /\ rec.pc # "call"
    <3>1. CASE auto
      <4>1. "judge" \in Places
        BY DEF Places
      <4>2. PICK r \in Records : /\ r = next /\ r.pc = "judge" /\ r.key = k
                                 /\ r.rows = worker[w].rows
        <5>1. next \in Records /\ next.pc = "judge" /\ next.key = k /\ next.rows = worker[w].rows
          BY <1>0, <4>1, PlaceChanged
        <5> QED BY <5>1
      <4>3. Decided(k)'
        BY <2>4, <3>1 DEF Decided
      <4>4. \A m \in r.rows : m \in Keys /\ Decided(m)
        BY <1>1, <4>2 DEF Records, PlaceSound
      <4>5. \A m \in r.rows : Decided(m)'
        BY <2>5, <4>4, RowStepKeeps DEF IInv
      <4>6. PlaceSound(r)'
        <5>1. r.key \in Keys /\ Decided(r.key)'
          BY <1>1, <4>2, <2>4, <3>1 DEF Decided
        <5> QED BY <4>2, <4>5, <5>1 DEF PlaceSound
      <4>7. Goes(w, r)
        BY <1>3, <3>1, <4>2
      <4> QED BY <4>2, <4>6, <4>7
    <3>2. CASE ~auto
      <4>1. PICK r \in Records : r = Return(w) /\ PlaceSound(r) /\ r.pc # "call"
        BY <1>1, ReturnSound
      <4>2. PlaceSound(r)'
        BY <2>5, <4>1, PlaceKept DEF IInv
      <4>3. Goes(w, r)
        BY <1>3, <3>2, <4>1
      <4> QED BY <4>1, <4>2, <4>3
    <3> QED BY <3>1, <3>2
  <2>8. worker' \in [Workers -> Records] /\ worker'[w] = rec
        /\ \A v \in Workers \ {w} : worker'[v] = worker[v]
    BY <2>1, <2>7 DEF Goes
  <2>9. TypeOK'
    BY <1>1, <2>3, <2>8 DEF IInv, TypeOK, Records
  <2>10. PlaceSound(worker[w])'
    BY <2>7, <2>8 DEF PlaceSound, Decided, Consented, In
  <2> QED BY <1>1, <2>5, <2>6, <2>7, <2>8, <2>9, <2>10 DEF TableStep, WorkerStep
<1> QED BY <1>0, <1>2, <1>3 DEF Create

LEMMA EscalateSteps ==
    ASSUME IInv, NEW w \in Workers, Escalate(w)
    PROVE  TableStep /\ WorkerStep(w)
<1>1. PICK rec \in Records : rec = Return(w) /\ PlaceSound(rec) /\ rec.pc # "call"
  BY ReturnSound DEF Escalate
<1>2. /\ Goes(w, rec) /\ UNCHANGED <<request, planned, desk, stops, called>>
      /\ incident' = [incident EXCEPT ![worker[w].inc].status =
                         IF @ \in Live THEN "escalated" ELSE @]
  BY <1>1 DEF Escalate
<1>3. worker \in [Workers -> Records]
  BY DEF IInv, TypeOK, Records
<1>4. worker' \in [Workers -> Records] /\ worker'[w] = rec
      /\ \A v \in Workers \ {w} : worker'[v] = worker[v]
  BY <1>2, <1>3 DEF Goes
<1>5. incident' \in [Incidents -> [status : Live \cup HELD_BY_PERSON \cup {"resolved"},
                                   active : BOOLEAN, old : BOOLEAN,
                                   reopens : 0..MaxReopens]]
  <2>1. incident \in [Incidents -> [status : Live \cup HELD_BY_PERSON \cup {"resolved"},
                                    active : BOOLEAN, old : BOOLEAN,
                                    reopens : 0..MaxReopens]]
    BY DEF IInv, TypeOK
  <2>2. "escalated" \in Live \cup HELD_BY_PERSON \cup {"resolved"}
    BY DEF HELD_BY_PERSON
  <2> DEFINE S == Live \cup HELD_BY_PERSON \cup {"resolved"}
             I == [status : S, active : BOOLEAN, old : BOOLEAN, reopens : 0..MaxReopens]
             i == worker[w].inc
             to == IF incident[i].status \in Live THEN "escalated" ELSE incident[i].status
  <2>3. CASE i \in Incidents
    <3>1. PICK x \in I : x = incident[i]
      BY <2>1, <2>3
    <3>2. to \in S
      <4>1. x.status \in S
        OBVIOUS
      <4> QED BY <2>2, <3>1, <4>1
    <3> HIDE DEF S, to
    <3>3. [x EXCEPT !.status = to] \in I
      BY <3>2
    <3>4. incident' = [incident EXCEPT ![i] = [x EXCEPT !.status = to]]
      BY <1>2, <3>1 DEF to
    <3> QED BY <2>1, <2>3, <3>3, <3>4 DEF S
  <2>4. CASE i \notin Incidents
    <3>1. incident' = incident
      BY <1>2, <2>1, <2>4
    <3> QED BY <2>1, <3>1
  <2> QED BY <2>3, <2>4
<1>6. TypeOK'
  BY <1>2, <1>4, <1>5 DEF IInv, TypeOK, Records
<1>7. SlotStep /\ \A m \in Keys : RowStep(m)
  BY <1>2 DEF SlotStep, In, RowStep
<1>8. PlaceSound(worker[w])'
  BY <1>1, <1>2, <1>4 DEF PlaceSound, Decided, Consented, In
<1> QED BY <1>1, <1>2, <1>4, <1>6, <1>7, <1>8 DEF TableStep, WorkerStep

----------------------------------------------------------------------------
(* People, the correlator, the clock.                                      *)

LEMMA AskToApproveSteps ==
    ASSUME IInv, NEW p \in People, NEW k \in Keys, AskToApprove(p, k)
    PROVE  IInv'
<1>1. UNCHANGED <<incident, request, planned, worker, stops, called>>
      /\ desk' \in [People -> Keys \cup {None}]
  BY DEF AskToApprove, IInv, TypeOK
<1>2. TypeOK'
  BY <1>1 DEF IInv, TypeOK
<1>3. SlotStep /\ \A m \in Keys : RowStep(m)
  BY <1>1 DEF SlotStep, In, RowStep
<1> QED BY <1>1, <1>2, <1>3, OthersStepKeeps DEF TableStep

\* The approval looks at the row again, whatever it was when it was asked for.
LEMMA ApproveSteps ==
    ASSUME IInv, NEW p \in People, Approve(p)
    PROVE  IInv'
<1>1. PICK k \in Keys : k = desk[p]
  BY DEF Approve, IInv, TypeOK
<1>2. UNCHANGED <<incident, planned, worker, stops, called>>
      /\ desk' \in [People -> Keys \cup {None}]
  BY DEF Approve, IInv, TypeOK
<1>3. request \in [Keys -> Requests]
  BY DEF IInv, TypeOK
<1>4. CASE request' = request
  <2>1. TypeOK'
    BY <1>2, <1>4 DEF IInv, TypeOK
  <2>2. SlotStep /\ \A m \in Keys : RowStep(m)
    BY <1>4 DEF SlotStep, In, RowStep
  <2> QED BY <1>2, <2>1, <2>2, OthersStepKeeps DEF TableStep
<1>5. CASE /\ request[k].status = "awaiting_approval" /\ ~Busy
           /\ request' = [request EXCEPT ![k].status = "approved", ![k].by = p]
  <2>1. PICK r \in Requests : r = request[k]
    BY <1>3
  <2>2. [r EXCEPT !.status = "approved", !.by = p] \in Requests
    BY DEF Requests, Statuses
  <2>3. request' = [request EXCEPT ![k] = [r EXCEPT !.status = "approved", !.by = p]]
    BY <1>5, <2>1 DEF Requests
  <2>4. request' \in [Keys -> Requests]
    BY <1>3, <2>2, <2>3
  <2>5. request'[k].status = "approved"
        /\ \A m \in Keys \ {k} : request'[m] = request[m]
    BY <1>3, <2>3 DEF Requests
  <2>6. TypeOK'
    BY <1>2, <2>4 DEF IInv, TypeOK
  <2>7. "approved" \in ALLOWED_TRANSITIONS["awaiting_approval"]
    BY DEF ALLOWED_TRANSITIONS, Statuses
  <2>8. \A m \in Keys : RowStep(m)
    BY <1>5, <2>5, <2>7 DEF RowStep
  <2>9. SlotStep
    <3>1. In(IN_FLIGHT)' \subseteq {k}
      BY <1>5, <2>5 DEF Busy, In
    <3> QED BY <1>5, <3>1 DEF SlotStep
  <2> QED BY <1>2, <2>6, <2>8, <2>9, OthersStepKeeps DEF TableStep
<1> QED BY <1>1, <1>4, <1>5 DEF Approve

IncidentRecords == [status : Live \cup HELD_BY_PERSON \cup {"resolved"},
                    active : BOOLEAN, old : BOOLEAN, reopens : 0..MaxReopens]

LEMMA IncidentStepKeeps ==
    ASSUME IInv, NEW i \in Incidents, NEW rec \in IncidentRecords, SetIncident(i, rec)
    PROVE  IInv'
<1>1. UNCHANGED <<request, planned, worker, desk, stops, called>>
      /\ incident' \in [Incidents -> IncidentRecords]
  BY DEF SetIncident, IInv, TypeOK, IncidentRecords
<1>2. TypeOK'
  BY <1>1 DEF IInv, TypeOK, IncidentRecords
<1>3. SlotStep /\ \A m \in Keys : RowStep(m)
  BY <1>1 DEF SlotStep, In, RowStep
<1> QED BY <1>1, <1>2, <1>3, OthersStepKeeps DEF TableStep

LEMMA IncidentSteps ==
    ASSUME IInv, NEW i \in Incidents,
           TakeOver(i) \/ SignalsChange(i) \/ Resolve(i) \/ Reopen(i) \/ IncidentAges(i)
    PROVE  IInv'
<1>1. PICK x \in IncidentRecords : x = incident[i]
  BY DEF IInv, TypeOK, IncidentRecords
<1>2. CASE TakeOver(i)
  <2>1. [x EXCEPT !.status = "acknowledged"] \in IncidentRecords
    BY DEF IncidentRecords, HELD_BY_PERSON
  <2> QED BY <1>1, <1>2, <2>1, IncidentStepKeeps DEF TakeOver
<1>3. CASE SignalsChange(i)
  <2>1. [x EXCEPT !.active = ~@] \in IncidentRecords
    BY DEF IncidentRecords
  <2> QED BY <1>1, <1>3, <2>1, IncidentStepKeeps DEF SignalsChange
<1>4. CASE Resolve(i)
  <2>1. [x EXCEPT !.status = "resolved"] \in IncidentRecords
    BY DEF IncidentRecords
  <2> QED BY <1>1, <1>4, <2>1, IncidentStepKeeps DEF Resolve
<1>5. CASE Reopen(i)
  <2>1. x.reopens + 1 \in 0..MaxReopens
    BY <1>1, <1>5 DEF Reopen, IncidentRecords
  <2> DEFINE n == x.reopens + 1
  <2>2. [x EXCEPT !.status = "reopened", !.active = TRUE, !.reopens = n] \in IncidentRecords
    <3> HIDE DEF n
    <3> QED BY <2>1 DEF IncidentRecords, Live, n
  <2> QED BY <1>1, <1>5, <2>2, IncidentStepKeeps DEF Reopen
<1>6. CASE IncidentAges(i)
  <2>1. [x EXCEPT !.old = TRUE] \in IncidentRecords
    BY DEF IncidentRecords
  <2> QED BY <1>1, <1>6, <2>1, IncidentStepKeeps DEF IncidentAges
<1> QED BY <1>2, <1>3, <1>4, <1>5, <1>6

LEMMA RequestAgesSteps ==
    ASSUME IInv, NEW k \in Keys, RequestAges(k)
    PROVE  IInv'
<1>1. PICK r \in Requests : r = request[k]
  BY DEF IInv, TypeOK
<1>2. UNCHANGED <<planned, worker, desk, stops, called>>
  BY DEF RequestAges
<1>3. r.age + 1 \in {0, 1, 2}
  <2>1. r.age \in {0, 1, 2} /\ r.age < AgeLimit(r.status)
    BY <1>1 DEF Requests, RequestAges
  <2>2. AgeLimit(r.status) \in {0, 1, 2}
    BY DEF AgeLimit
  <2> QED BY <2>1, <2>2
<1> DEFINE n == r.age + 1
<1>4. [r EXCEPT !.age = n] \in Requests
  <2> HIDE DEF n
  <2> QED BY <1>3 DEF Requests, n
<1>5. request' = [request EXCEPT ![k] = [r EXCEPT !.age = n]]
  BY <1>1 DEF RequestAges
<1>6. request \in [Keys -> Requests]
  BY DEF IInv, TypeOK
<1>7. request' \in [Keys -> Requests]
  BY <1>4, <1>5, <1>6
<1>8. \A m \in Keys : request'[m].status = request[m].status /\ request'[m].by = request[m].by
  BY <1>1, <1>5, <1>6 DEF Requests
<1>9. incident' \in [Incidents -> IncidentRecords]
  <2>1. k[1] \in Incidents
    BY DEF Keys
  <2>2. PICK x \in IncidentRecords : x = incident[k[1]]
    BY <2>1 DEF IInv, TypeOK, IncidentRecords
  <2> DEFINE b == x.old \/ (request[k].age = 1 /\ incident[k[1]].status \in Live)
  <2>3. b \in BOOLEAN
    OBVIOUS
  <2>4. incident' = [incident EXCEPT ![k[1]] = [x EXCEPT !.old = b]]
    BY <2>2 DEF RequestAges
  <2> HIDE DEF b
  <2>5. [x EXCEPT !.old = b] \in IncidentRecords
    BY <2>3 DEF IncidentRecords
  <2> QED BY <2>1, <2>4, <2>5 DEF IInv, TypeOK, IncidentRecords
<1>10. TypeOK'
  BY <1>2, <1>7, <1>9 DEF IInv, TypeOK, IncidentRecords
<1>11. SlotStep /\ \A m \in Keys : RowStep(m)
  BY <1>8 DEF SlotStep, In, RowStep
<1> QED BY <1>2, <1>10, <1>11, OthersStepKeeps DEF TableStep

----------------------------------------------------------------------------
(* The theorems.                                                           *)

LEMMA InitialState == Init => IInv
<1> SUFFICES ASSUME Init PROVE IInv
  OBVIOUS
<1>1. \A k \in Keys : request[k] = NoRequest
  BY DEF Init
<1>2. NoRequest \in Requests /\ NoRequest.status = "none"
  BY DEF NoRequest, Requests, Statuses
<1>3. \A w \in Workers : worker[w] = Idle
  BY DEF Init
<1>4. Idle \in Records /\ Idle.pc = "idle" /\ Idle.rows = {}
  BY DEF Idle, Records, Places
<1>5. TypeOK
  <2>1. incident \in [Incidents -> IncidentRecords]
    BY DEF Init, IncidentRecords, Live
  <2>2. request \in [Keys -> Requests] /\ worker \in [Workers -> Records]
    BY <1>2, <1>4 DEF Init
  <2>3. stops \in 0..MaxCrashes
    BY DEF Init
  <2> QED BY <2>1, <2>2, <2>3 DEF Init, TypeOK, IncidentRecords, Records
<1>6. OneInFlight
  BY <1>1, <1>2 DEF OneInFlight, In, IN_FLIGHT
<1>7. RunIsCounted /\ RunHadConsent
  BY DEF Init, RunIsCounted, RunHadConsent
<1>8. CallsDiffer
  BY <1>3, <1>4 DEF CallsDiffer
<1>9. \A w \in Workers : PlaceSound(worker[w])
  BY <1>3, <1>4 DEF PlaceSound
<1> QED BY <1>5, <1>6, <1>7, <1>8, <1>9 DEF IInv

LEMMA InvariantKept == IInv /\ [Next]_vars => IInv'
<1> SUFFICES ASSUME IInv, [Next]_vars PROVE IInv'
  OBVIOUS
<1>1. ASSUME NEW w \in Workers, Cycle(w) PROVE IInv'
  <2>1. TableStep /\ WorkerStep(w)
    BY <1>1, StartCycleSteps, NextPhaseSteps, HousekeepingSteps, RunApprovedSteps,
       JudgeSteps, WithdrawSteps, StartSteps, CallAdapterSteps, RecordSteps,
       ConsiderSteps, AskSteps, PlanSteps, CreateSteps, EscalateSteps DEF Cycle
  <2> QED BY <2>1, WorkerStepKeeps
<1>2. ASSUME NEW w \in Workers, Crash(w) PROVE IInv'
  <2>1. TableStep /\ WorkerStep(w)
    BY <1>2, StopSteps DEF Crash
  <2> QED BY <2>1, WorkerStepKeeps
<1>3. ASSUME NEW p \in People, Approve(p) PROVE IInv'
  BY <1>3, ApproveSteps
<1>4. ASSUME NEW p \in People, NEW k \in Keys, AskToApprove(p, k) PROVE IInv'
  BY <1>4, AskToApproveSteps
<1>5. ASSUME NEW i \in Incidents,
             TakeOver(i) \/ SignalsChange(i) \/ Resolve(i) \/ Reopen(i) \/ IncidentAges(i)
      PROVE  IInv'
  BY <1>5, IncidentSteps
<1>6. ASSUME NEW k \in Keys, RequestAges(k) PROVE IInv'
  BY <1>6, RequestAgesSteps
<1>7. CASE UNCHANGED vars
  <2>1. UNCHANGED <<incident, request, planned, worker, desk, stops, called>>
    BY <1>7 DEF vars
  <2>2. TypeOK'
    BY <2>1 DEF IInv, TypeOK
  <2>3. SlotStep /\ \A m \in Keys : RowStep(m)
    BY <2>1 DEF SlotStep, In, RowStep
  <2> QED BY <2>1, <2>2, <2>3, OthersStepKeeps DEF TableStep
<1> QED BY <1>1, <1>2, <1>3, <1>4, <1>5, <1>6, <1>7 DEF Next, TimePasses

\* The invariant holds in every reachable state.
THEOREM RemediationInvariant == Spec => []IInv
BY InitialState, InvariantKept, PTL DEF Spec

\* Every variable keeps its type.
THEOREM RemediationTyped == Spec => []TypeOK
<1>1. IInv => TypeOK
  BY DEF IInv
<1> QED BY <1>1, RemediationInvariant, PTL

\* The platform's one slot: at most one request approved, executing or
\* executed, for any number of workers and people.
THEOREM SlotIsSingle == Spec => []OneInFlight
<1>1. IInv => OneInFlight
  BY DEF IInv
<1> QED BY <1>1, RemediationInvariant, PTL

\* What an adapter was called for counts against the budgets for good.
THEOREM RunsAreCounted == Spec => []RunIsCounted
<1>1. IInv => RunIsCounted
  BY DEF IInv
<1> QED BY <1>1, RemediationInvariant, PTL

\* No adapter is called without the consent the policy asks for.
THEOREM RunsHadConsent == Spec => []RunHadConsent
<1>1. IInv => RunHadConsent
  BY DEF IInv
<1> QED BY <1>1, RemediationInvariant, PTL

\* No request's adapter is called twice, whoever dies and whoever retries.
THEOREM NoRunTwice == Spec => NoSecondRun
<1>1. IInv /\ [Next]_vars =>
        [\A w \in Workers : CallAdapter(w) => worker[w].key \notin called]_vars
  <2> SUFFICES ASSUME IInv, NEW w \in Workers, CallAdapter(w)
               PROVE  worker[w].key \notin called
    OBVIOUS
  <2> QED BY RecordTyped DEF CallAdapter, PlaceSound
<1> QED BY <1>1, RemediationInvariant, PTL DEF Spec, NoSecondRun

----------------------------------------------------------------------------
(* The limits.  A worker that is to insert a request has read the counts   *)
(* some time ago; but the number it gave the request is free only as long  *)
(* as nobody inserted another request of that action for that incident.    *)

\* What still may be run, was run, or gave up running.
TAKEN == COUNTED \cup {"approved"}

Taken(i, a) == {k \in In(TAKEN) : k[1] = i /\ k[2] = a}

\* The requests numbered before k are there.
Preceded(k) ==
    \A n \in 1..MaxRequests :
      n < k[3] => request[<<k[1], k[2], n>>].status # "none"

\* The limit of an automatic action leaves room for one more request.
RoomFor(k) ==
    /\ IsFiniteSet(Taken(k[1], k[2]))
    /\ Cardinality(Taken(k[1], k[2])) < ActionLimit[k[2]]

Automatic(k) == Autonomy[k[2]] = "auto"

MayInsert(rec) ==
    rec.pc = "create" =>
      /\ Preceded(rec.key)
      /\ Automatic(rec.key) /\ request[rec.key].status = "none" => RoomFor(rec.key)

TakenWithinLimit ==
    \A i \in Incidents, a \in Actions : Autonomy[a] = "auto" =>
      IsFiniteSet(Taken(i, a)) /\ Cardinality(Taken(i, a)) <= ActionLimit[a]

LimitInv ==
    /\ \A k \in Keys : /\ request[k].status # "none" => Preceded(k)
                       /\ Automatic(k) => request[k].status # "awaiting_approval"
    /\ TakenWithinLimit
    /\ \A w \in Workers : MayInsert(worker[w])

\* A row stays, or moves along the table: none is inserted.
StatusStep(k) ==
    \/ request'[k].status = request[k].status
    \/ request'[k].status \in ALLOWED_TRANSITIONS[request[k].status]

\* A step that inserts nothing, and after which the worker is not about to.
QuietStep(w) ==
    /\ \A k \in Keys : StatusStep(k)
    /\ worker'[w].pc \notin {"ask", "create"}
    /\ \A v \in Workers \ {w} : worker'[v] = worker[v]

LEMMA GoesQuiet ==
    ASSUME IInv, NEW w \in Workers, NEW rec, Goes(w, rec), rec.pc \notin {"ask", "create"},
           request' = request
    PROVE  QuietStep(w)
BY DEF IInv, TypeOK, Goes, QuietStep, StatusStep

LEMMA StopQuiet ==
    ASSUME IInv, NEW w \in Workers, Stop(w)
    PROVE  QuietStep(w)
BY DEF IInv, TypeOK, Stop, Idle, QuietStep, StatusStep

LEMMA TransitionQuiet ==
    ASSUME IInv, NEW w \in Workers, NEW k \in Keys, NEW to, NEW rec,
           Transition(w, k, to, rec), rec.pc \notin {"ask", "create"}
    PROVE  QuietStep(w)
<1>1. CASE to \in ALLOWED_TRANSITIONS[request[k].status]
  <2>1. /\ request' = [request EXCEPT ![k].status = to, ![k].age = 0]
        /\ worker' = [worker EXCEPT ![w] = rec]
    BY <1>1 DEF Transition
  <2>2. \A m \in Keys : StatusStep(m)
    BY <1>1, <2>1 DEF IInv, TypeOK, Requests, StatusStep
  <2>3. worker'[w] = rec /\ \A v \in Workers \ {w} : worker'[v] = worker[v]
    BY <2>1 DEF IInv, TypeOK
  <2> QED BY <2>2, <2>3 DEF QuietStep
<1>2. CASE to \notin ALLOWED_TRANSITIONS[request[k].status]
  BY <1>2, StopQuiet DEF Transition
<1> QED BY <1>1, <1>2

LEMMA ReturnQuiet ==
    ASSUME IInv, NEW w \in Workers
    PROVE  Return(w).pc \notin {"ask", "create"} /\ Idle.pc \notin {"ask", "create"}
BY RecordTyped DEF Return, Records, Idle

\* Only _try_candidates, and what leads to it, ends before an insertion.
LEMMA CycleQuiet ==
    ASSUME IInv, NEW w \in Workers, Cycle(w) \/ Crash(w),
           ~Consider(w), ~Ask(w), ~Create(w)
    PROVE  QuietStep(w)
<1>1. CASE StartCycle(w) \/ NextPhase(w)
  <2>1. request' = request
    BY <1>1 DEF StartCycle, NextPhase
  <2>2. ASSUME NEW pc \in {"expire", "abandon", "verify", "run"}, NEW rows,
               Goes(w, [Idle EXCEPT !.pc = pc, !.rows = rows])
        PROVE  QuietStep(w)
    <3>1. [Idle EXCEPT !.pc = pc, !.rows = rows].pc = pc
      BY DEF Idle
    <3> QED BY <2>1, <2>2, <3>1, GoesQuiet
  <2>3. ASSUME NEW incs, Goes(w, [Idle EXCEPT !.pc = "incidents", !.incs = incs])
        PROVE  QuietStep(w)
    <3>1. [Idle EXCEPT !.pc = "incidents", !.incs = incs].pc = "incidents"
      BY DEF Idle
    <3> QED BY <2>1, <2>3, <3>1, GoesQuiet
  <2>4. CASE Goes(w, Idle)
    BY <2>1, <2>4, GoesQuiet DEF Idle
  <2> QED BY <1>1, <2>2, <2>3, <2>4 DEF StartCycle, NextPhase
<1>2. CASE ExpireStale(w) \/ AbandonInterrupted(w) \/ VerifyExecuted(w)
  <2>1. PICK k \in worker[w].rows :
          \/ \E to : Transition(w, k, to, Without(w, k))
          \/ Goes(w, Without(w, k)) /\ request' = request
    BY <1>2 DEF ExpireStale, AbandonInterrupted, VerifyExecuted
  <2>2. k \in Keys
    BY RecordTyped DEF Records
  <2>3. Without(w, k).pc \notin {"ask", "create"}
    BY <1>2, RowDone DEF ExpireStale, AbandonInterrupted, VerifyExecuted
  <2> QED BY <2>1, <2>2, <2>3, TransitionQuiet, GoesQuiet
<1>3. CASE RunApproved(w)
  <2>1. PICK k \in worker[w].rows :
          Goes(w, [Without(w, k) EXCEPT !.pc = "judge", !.key = k]) /\ request' = request
    BY <1>3 DEF RunApproved
  <2>2. Without(w, k) \in Records
    BY RowDone
  <2>3. [Without(w, k) EXCEPT !.pc = "judge", !.key = k].pc = "judge"
    BY <2>2 DEF Records
  <2> QED BY <2>1, <2>3, GoesQuiet
<1>4. CASE Judge(w)
  <2>1. ASSUME NEW pc \in {"start", "withdraw"}
        PROVE  [worker[w] EXCEPT !.pc = pc].pc = pc
    BY RecordTyped DEF Records
  <2>2. \/ \E pc \in {"start", "withdraw"} :
              Goes(w, [worker[w] EXCEPT !.pc = pc]) /\ request' = request
        \/ Goes(w, Idle) /\ request' = request
        \/ Stop(w)
    BY <1>4 DEF Judge
  <2> QED BY <2>1, <2>2, GoesQuiet, StopQuiet, ReturnQuiet
<1>5. CASE Withdraw(w) \/ Record(w)
  <2>1. worker[w].key \in Keys
    BY <1>5, RecordTyped DEF Withdraw, Record, PlaceSound
  <2>2. \E to : Transition(w, worker[w].key, to, Return(w))
    BY <1>5 DEF Withdraw, Record
  <2> QED BY <2>1, <2>2, TransitionQuiet, ReturnQuiet
<1>6. CASE Start(w)
  <2>1. worker[w].key \in Keys
    BY <1>6, RecordTyped DEF Start, PlaceSound
  <2>2. [worker[w] EXCEPT !.pc = "call"].pc = "call"
    BY RecordTyped DEF Records
  <2> QED BY <1>6, <2>1, <2>2, TransitionQuiet DEF Start
<1>7. CASE CallAdapter(w)
  <2>1. PICK to \in {"worked", "broke"} : Goes(w, [worker[w] EXCEPT !.pc = to])
    BY <1>7 DEF CallAdapter
  <2>2. [worker[w] EXCEPT !.pc = to].pc = to
    BY RecordTyped DEF Records
  <2> QED BY <1>7, <2>1, <2>2, GoesQuiet DEF CallAdapter
<1>8. CASE Plan(w) \/ Escalate(w)
  <2>1. [worker[w] EXCEPT !.pc = "escalate"].pc = "escalate"
    BY RecordTyped DEF Records
  <2>2. \/ Goes(w, Return(w))
        \/ Goes(w, [worker[w] EXCEPT !.pc = "escalate"])
    BY <1>8 DEF Plan, Escalate
  <2>3. request' = request
    BY <1>8 DEF Plan, Escalate
  <2> QED BY <2>1, <2>2, <2>3, GoesQuiet, ReturnQuiet
<1> QED BY <1>1, <1>2, <1>3, <1>4, <1>5, <1>6, <1>7, <1>8, StopQuiet DEF Cycle, Crash

\* People, the correlator and the clock insert nothing and leave workers alone.
OthersStep ==
    \/ \E p \in People : Approve(p) \/ \E k \in Keys : AskToApprove(p, k)
    \/ \E i \in Incidents : TakeOver(i) \/ SignalsChange(i) \/ Resolve(i) \/ Reopen(i)
    \/ TimePasses
    \/ UNCHANGED vars

LEMMA OthersQuiet ==
    ASSUME IInv, OthersStep
    PROVE  worker' = worker /\ called' = called /\ \A k \in Keys : StatusStep(k)
<1>1. worker' = worker /\ called' = called
  BY DEF OthersStep, Approve, AskToApprove, TakeOver, SignalsChange, Resolve, Reopen,
         TimePasses, IncidentAges, RequestAges, SetIncident, vars
<1>2. CASE request' = request
  BY <1>1, <1>2 DEF StatusStep
<1>3. ASSUME NEW p \in People, Approve(p)
      PROVE  \A k \in Keys : StatusStep(k)
  <2>1. PICK m \in Keys : m = desk[p]
    BY <1>3 DEF Approve, IInv, TypeOK
  <2>2. CASE /\ request[m].status = "awaiting_approval"
             /\ request' = [request EXCEPT ![m].status = "approved", ![m].by = p]
    <3>1. "approved" \in ALLOWED_TRANSITIONS["awaiting_approval"]
      BY DEF ALLOWED_TRANSITIONS, Statuses
    <3>2. /\ request'[m].status = "approved"
          /\ \A k \in Keys \ {m} : request'[k] = request[k]
      BY <2>2 DEF IInv, TypeOK, Requests
    <3> QED BY <2>2, <3>1, <3>2 DEF StatusStep
  <2> QED BY <1>3, <2>1, <2>2 DEF Approve, StatusStep
<1>4. ASSUME NEW m \in Keys, RequestAges(m)
      PROVE  \A k \in Keys : StatusStep(k)
  BY <1>4 DEF RequestAges, IInv, TypeOK, Requests, StatusStep
<1> QED BY <1>1, <1>2, <1>3, <1>4
        DEF OthersStep, AskToApprove, TakeOver, SignalsChange, Resolve, Reopen, TimePasses,
            IncidentAges, SetIncident, vars

LEMMA StatusKept ==
    ASSUME TypeOK, NEW k \in Keys, StatusStep(k)
    PROVE  /\ request'[k].status = "none" <=> request[k].status = "none"
           /\ request'[k].status = "awaiting_approval" =>
                request[k].status = "awaiting_approval"
           /\ request'[k].status \in TAKEN =>
                request[k].status \in TAKEN \cup {"awaiting_approval"}
<1>1. request[k].status \in Statuses
  BY DEF TypeOK, Requests
<1>2. CASE request'[k].status \in ALLOWED_TRANSITIONS[request[k].status]
  BY <1>1, <1>2, MovesGoForward DEF TAKEN, COUNTED, ALLOWED_TRANSITIONS, Statuses
<1> QED BY <1>2 DEF StatusStep

LEMMA KeyParts ==
    ASSUME NEW k \in Keys
    PROVE  /\ k[1] \in Incidents /\ k[2] \in Actions /\ k[3] \in 1..MaxRequests
           /\ k = <<k[1], k[2], k[3]>>
           /\ \A n \in 1..MaxRequests : <<k[1], k[2], n>> \in Keys
BY DEF Keys

\* A step that inserts nothing takes nothing that was not taken.
LEMMA QuietLimit ==
    ASSUME IInv, LimitInv, \A k \in Keys : StatusStep(k),
           \A v \in Workers : worker'[v] = worker[v] \/ worker'[v].pc # "create"
    PROVE  LimitInv'
<1>1. TypeOK
  BY DEF IInv
<1>2. \A k \in Keys : Preceded(k) => Preceded(k)'
  <2> SUFFICES ASSUME NEW k \in Keys, Preceded(k), NEW n \in 1..MaxRequests, n < k[3]
               PROVE  request'[<<k[1], k[2], n>>].status # "none"
    BY DEF Preceded
  <2> QED BY <1>1, StatusKept, KeyParts DEF Preceded
<1>3. \A i \in Incidents, a \in Actions : Autonomy[a] = "auto" =>
         Taken(i, a)' \subseteq Taken(i, a)
  <2> SUFFICES ASSUME NEW i \in Incidents, NEW a \in Actions, Autonomy[a] = "auto",
                      NEW k \in Keys, request'[k].status \in TAKEN, k[1] = i, k[2] = a
               PROVE  request[k].status \in TAKEN
    BY DEF Taken, In
  <2> QED BY <1>1, StatusKept DEF LimitInv, Automatic
<1>4. \A i \in Incidents, a \in Actions :
         Autonomy[a] = "auto" /\ IsFiniteSet(Taken(i, a)) =>
           /\ IsFiniteSet(Taken(i, a)')
           /\ Cardinality(Taken(i, a)') <= Cardinality(Taken(i, a))
           /\ Cardinality(Taken(i, a)) \in Nat /\ Cardinality(Taken(i, a)') \in Nat
  BY <1>3, FS_Subset, FS_CardinalityType
<1>5. TakenWithinLimit'
  BY <1>4 DEF LimitInv, TakenWithinLimit
<1>6. ASSUME NEW w \in Workers, worker'[w].pc = "create"
      PROVE  MayInsert(worker[w])'
  <2>1. PICK k \in Keys : k = worker[w].key /\ k = worker'[w].key
    BY <1>6, RecordTyped DEF PlaceSound
  <2>2. Preceded(k) /\ (Automatic(k) /\ request[k].status = "none" => RoomFor(k))
    BY <1>6, <2>1 DEF LimitInv, MayInsert
  <2>3. Preceded(k)'
    BY <1>2, <2>2
  <2>4. ASSUME Automatic(k), request'[k].status = "none"
        PROVE  RoomFor(k)'
    <3>1. RoomFor(k)
      BY <1>1, <2>2, <2>4, StatusKept
    <3>2. /\ IsFiniteSet(Taken(k[1], k[2])')
          /\ Cardinality(Taken(k[1], k[2])') <= Cardinality(Taken(k[1], k[2]))
          /\ Cardinality(Taken(k[1], k[2])) \in Nat /\ Cardinality(Taken(k[1], k[2])') \in Nat
      BY <1>4, <2>4, <3>1, KeyParts DEF RoomFor, Automatic
    <3>3. ActionLimit[k[2]] \in Nat
      BY KeyParts
    <3> QED BY <3>1, <3>2, <3>3 DEF RoomFor
  <2> QED BY <2>1, <2>3, <2>4 DEF MayInsert, Automatic
<1>7. \A k \in Keys : /\ request'[k].status # "none" => Preceded(k)'
                      /\ Automatic(k) => request'[k].status # "awaiting_approval"
  BY <1>1, <1>2, StatusKept DEF LimitInv
<1> QED BY <1>5, <1>6, <1>7 DEF LimitInv, MayInsert, Automatic

\* The requests made are numbered without a gap, so that the next is preceded.
LEMMA NumberPreceded ==
    ASSUME \A k \in Keys : request[k].status # "none" => Preceded(k),
           NEW i \in Incidents, NEW a \in Actions, NEW n \in 1..MaxRequests,
           n <= RequestsFor(i, a)
    PROVE  request[<<i, a, n>>].status # "none"
<1> DEFINE made == {m \in 1..MaxRequests : request[<<i, a, m>>].status # "none"}
<1> SUFFICES ASSUME n \notin made PROVE FALSE
  OBVIOUS
<1>1. \A m \in made : m < n
  <2> TAKE m \in made
  <2>1. <<i, a, m>> \in Keys
    BY DEF Keys
  <2>2. ~(n < m)
    BY <2>1 DEF Preceded
  <2>3. n # m
    OBVIOUS
  <2> QED BY <2>2, <2>3
<1>2. made \in SUBSET (1..(n - 1))
  BY <1>1
<1>3. IsFiniteSet(1..(n - 1)) /\ Cardinality(1..(n - 1)) = n - 1
  <2>1. PICK m \in Nat : m = n - 1
    OBVIOUS
  <2> HIDE DEF made
  <2>2. 1 \in Int /\ m \in Int
    OBVIOUS
  <2>3. IsFiniteSet(1..m) /\ Cardinality(1..m) = IF 1 > m THEN 0 ELSE m - 1 + 1
    BY <2>2, FS_Interval
  <2> QED BY <2>1, <2>3
<1>4. Cardinality(made) <= n - 1 /\ Cardinality(made) \in Nat
  BY <1>2, <1>3, FS_Subset, FS_CardinalityType
<1> QED BY <1>4 DEF RequestsFor

\* What the policy allowed when a worker is sent to insert; the next line of
\* the playbook is for the same incident.
LEMMA AskOutcome ==
    ASSUME IInv, NEW w \in Workers, Ask(w), NEW i, NEW a,
           i = worker[w].inc, a = Playbook[i][worker[w].tried + 1]
    PROVE  /\ i \in Incidents /\ a \in Actions
           /\ request' = request /\ \A v \in Workers \ {w} : worker'[v] = worker[v]
           /\ worker'[w].pc = "ask" => worker'[w].inc = i
           /\ worker'[w].pc = "create" =>
                /\ ~(Cardinality(Counted(i)) >= MAX_ATTEMPTS_PER_INCIDENT)
                /\ ~(Attempts(i, a) >= ActionLimit[a]) /\ ~Busy
                /\ worker'[w].key = <<i, a, RequestsFor(i, a) + 1>>
                /\ RequestsFor(i, a) < MaxRequests
<1>2. i \in Incidents /\ a \in Actions
  <2>1. /\ i \in Incidents /\ worker[w].tried < Len(Playbook[i])
        /\ worker[w].tried \in Nat
    BY RecordTyped DEF Ask, PlaceSound, Records
  <2>2. Playbook[i] \in Seq(Actions)
    BY <2>1
  <2>3. worker[w].tried + 1 \in 1..Len(Playbook[i])
    BY <2>1, <2>2
  <2> QED BY <2>1, <2>2, <2>3
<1>3. request' = request /\ \A v \in Workers \ {w} : worker'[v] = worker[v]
  BY DEF Ask, Goes, TryNext, IInv, TypeOK
<1>4. \A rec : Goes(w, rec) => worker'[w] = rec
  BY DEF Goes, IInv, TypeOK
<1>5. ASSUME worker'[w].pc \in {"ask", "create"}
      PROVE  /\ ~Goes(w, Idle) /\ ~Goes(w, Return(w))
             /\ \A pc \in {"escalate", "plan"} : ~Goes(w, [worker[w] EXCEPT !.pc = pc])
  <2>1. Idle.pc \notin {"ask", "create"} /\ Return(w).pc \notin {"ask", "create"}
    BY ReturnQuiet
  <2>2. ASSUME NEW pc \in {"escalate", "plan"}
        PROVE  [worker[w] EXCEPT !.pc = pc].pc \notin {"ask", "create"}
    BY RecordTyped DEF Records
  <2>3. \A rec : Goes(w, rec) => rec.pc \in {"ask", "create"}
    BY <1>4, <1>5
  <2> QED BY <2>1, <2>2, <2>3
<1>6. ASSUME NEW n, NEW spent, Goes(w, [worker[w] EXCEPT !.tried = n, !.spent = spent])
      PROVE  worker'[w].pc = "ask" /\ worker'[w].inc = i
  <2>1. /\ [worker[w] EXCEPT !.tried = n, !.spent = spent].pc = "ask"
        /\ [worker[w] EXCEPT !.tried = n, !.spent = spent].inc = i
    BY RecordTyped DEF Records, Ask
  <2> QED BY <1>4, <1>6, <2>1
<1>7. \A k : /\ [worker[w] EXCEPT !.pc = "create", !.key = k].key = k
             /\ [worker[w] EXCEPT !.pc = "create", !.key = k].pc = "create"
  BY RecordTyped DEF Records
<1>8. ASSUME NEW spent, worker'[w].pc \in {"ask", "create"}, TryNext(w, spent)
      PROVE  worker'[w].pc = "ask" /\ worker'[w].inc = i
  BY <1>5, <1>6, <1>8 DEF TryNext
<1>9. ASSUME worker'[w].pc = "create"
      PROVE  /\ ~(Cardinality(Counted(i)) >= MAX_ATTEMPTS_PER_INCIDENT)
             /\ ~(Attempts(i, a) >= ActionLimit[a]) /\ ~Busy
             /\ worker'[w].key = <<i, a, RequestsFor(i, a) + 1>>
             /\ RequestsFor(i, a) < MaxRequests
  <2>1. \A spent : ~TryNext(w, spent)
    BY <1>8, <1>9
  <2>2. /\ ~(Cardinality(Counted(i)) >= MAX_ATTEMPTS_PER_INCIDENT)
        /\ ~(Attempts(i, a) >= ActionLimit[a]) /\ ~Busy
        /\ RequestsFor(i, a) < MaxRequests
        /\ Goes(w, [worker[w] EXCEPT !.pc = "create",
                      !.key = <<i, a, RequestsFor(i, a) + 1>>])
    BY <1>5, <1>9, <2>1 DEF Ask
  <2> QED BY <1>4, <1>7, <2>2
<1>10. ASSUME worker'[w].pc = "ask" PROVE worker'[w].inc = i
  <2>1. \A k : ~Goes(w, [worker[w] EXCEPT !.pc = "create", !.key = k])
    BY <1>4, <1>7, <1>10
  <2>2. \E spent : TryNext(w, spent)
    BY <1>5, <1>10, <2>1 DEF Ask
  <2> QED BY <1>8, <1>10, <2>2
<1> QED BY <1>2, <1>3, <1>9, <1>10

LEMMA AskLimit ==
    ASSUME IInv, LimitInv, NEW w \in Workers, Ask(w)
    PROVE  LimitInv'
<1>1. PICK i, a : i = worker[w].inc /\ a = Playbook[i][worker[w].tried + 1]
  OBVIOUS
<1>2. i \in Incidents /\ a \in Actions
  BY <1>1, AskOutcome
<1>3. request' = request /\ \A v \in Workers \ {w} : worker'[v] = worker[v]
  BY <1>1, AskOutcome
<1>4. ASSUME worker'[w].pc = "create"
      PROVE  /\ ~(Attempts(i, a) >= ActionLimit[a]) /\ ~Busy
             /\ worker'[w].key = <<i, a, RequestsFor(i, a) + 1>>
             /\ RequestsFor(i, a) < MaxRequests
  BY <1>1, <1>4, AskOutcome
<1>5. ASSUME worker'[w].pc = "create"
      PROVE  MayInsert(worker[w])'
  <2>1. PICK k \in Keys : k = <<i, a, RequestsFor(i, a) + 1>>
    BY <1>2, <1>4, <1>5, NumberTyped
  <2>2. worker'[w].key = k /\ k[1] = i /\ k[2] = a /\ k[3] = RequestsFor(i, a) + 1
    BY <1>4, <1>5, <2>1
  <2>3. Preceded(k)
    <3>1. RequestsFor(i, a) \in Int
      BY <1>2, RequestsAreCounted DEF IInv
    <3> QED BY <1>2, <2>2, <3>1, NumberPreceded DEF Preceded, LimitInv
  <2>4. ASSUME Automatic(k)
        PROVE  RoomFor(k)
    <3>1. IsFiniteSet(Taken(i, a))
      BY <1>2, <2>2, <2>4 DEF LimitInv, TakenWithinLimit, Automatic
    <3>2. Taken(i, a) = {m \in Counted(i) : m[2] = a}
      <4>1. In({"approved"}) = {}
        BY <1>4, <1>5 DEF Busy, In, IN_FLIGHT
      <4> QED BY <4>1 DEF Taken, TAKEN, In, Counted
    <3>3. Cardinality(Taken(i, a)) \in Nat /\ ActionLimit[a] \in Nat
      BY <1>2, <3>1, FS_CardinalityType
    <3>4. ~(Cardinality(Taken(i, a)) >= ActionLimit[a])
      BY <1>4, <1>5, <3>2 DEF Attempts
    <3> QED BY <2>2, <3>1, <3>3, <3>4 DEF RoomFor
  <2>5. Preceded(k)' /\ (Automatic(k) => RoomFor(k)')
    BY <1>3, <2>3, <2>4 DEF Preceded, RoomFor, Taken, In
  <2> QED BY <2>2, <2>5 DEF MayInsert, Automatic
<1>6. /\ TakenWithinLimit'
      /\ \A k \in Keys : /\ request'[k].status # "none" => Preceded(k)'
                         /\ Automatic(k) => request'[k].status # "awaiting_approval"
  BY <1>3 DEF LimitInv, TakenWithinLimit, Taken, In, Preceded
<1>7. ASSUME NEW v \in Workers \ {w} PROVE MayInsert(worker[v])'
  <2>1. PICK rec : rec = worker[v] /\ rec = worker'[v]
    BY <1>3
  <2>2. MayInsert(rec)
    BY <2>1 DEF LimitInv
  <2>3. MayInsert(rec)'
    BY <1>3, <2>2 DEF MayInsert, Preceded, Automatic, RoomFor, Taken, In
  <2> QED BY <2>1, <2>3 DEF MayInsert
<1> QED BY <1>5, <1>6, <1>7 DEF LimitInv, MayInsert, Automatic

\* An insertion takes one place of its own action for its own incident, and
\* nobody else who is about to insert can count on that place: the key such a
\* worker holds is the one just used, or it is not free, or it is not preceded.
LEMMA InsertLimit ==
    ASSUME IInv, LimitInv, NEW w \in Workers, NEW k \in Keys, NEW rec,
           worker[w].pc = "create", worker[w].key = k, request[k].status = "none",
           request' = [request EXCEPT ![k].status =
                         IF Automatic(k) THEN "approved" ELSE "awaiting_approval"],
           Goes(w, rec), rec.pc # "create"
    PROVE  LimitInv'
<1>1. /\ Preceded(k)
      /\ Automatic(k) => RoomFor(k)
  BY DEF LimitInv, MayInsert
<1>2. /\ request'[k].status = IF Automatic(k) THEN "approved" ELSE "awaiting_approval"
      /\ \A m \in Keys \ {k} : request'[m] = request[m]
  BY DEF IInv, TypeOK, Requests
<1>3. worker'[w] = rec /\ \A v \in Workers \ {w} : worker'[v] = worker[v]
  BY DEF Goes, IInv, TypeOK
<1>4. \A m \in Keys : Preceded(m) => Preceded(m)'
  <2> SUFFICES ASSUME NEW m \in Keys, Preceded(m), NEW n \in 1..MaxRequests, n < m[3]
               PROVE  request'[<<m[1], m[2], n>>].status # "none"
    BY DEF Preceded
  <2> QED BY <1>2, KeyParts DEF Preceded
<1>5. \A m \in Keys : /\ request'[m].status # "none" => Preceded(m)'
                      /\ Automatic(m) => request'[m].status # "awaiting_approval"
  BY <1>1, <1>2, <1>4 DEF LimitInv
<1>6. ASSUME NEW i \in Incidents, NEW a \in Actions, <<i, a>> # <<k[1], k[2]>>
      PROVE  Taken(i, a)' = Taken(i, a)
  BY <1>2, <1>6 DEF Taken, In
<1>7. Automatic(k) => Taken(k[1], k[2])' = Taken(k[1], k[2]) \cup {k}
  <2> SUFFICES ASSUME Automatic(k)
               PROVE  Taken(k[1], k[2])' = Taken(k[1], k[2]) \cup {k}
    OBVIOUS
  <2>1. request'[k].status \in TAKEN
    BY <1>2 DEF TAKEN
  <2> QED BY <1>2, <2>1 DEF Taken, In
<1>8. TakenWithinLimit'
  <2> SUFFICES ASSUME NEW i \in Incidents, NEW a \in Actions, Autonomy[a] = "auto"
               PROVE  IsFiniteSet(Taken(i, a)') /\ Cardinality(Taken(i, a)') <= ActionLimit[a]
    BY DEF TakenWithinLimit
  <2>1. CASE <<i, a>> # <<k[1], k[2]>>
    BY <1>6, <2>1 DEF LimitInv, TakenWithinLimit
  <2>2. CASE i = k[1] /\ a = k[2]
    <3>1. RoomFor(k) /\ Automatic(k)
      BY <1>1, <2>2 DEF Automatic
    <3>2. k \notin Taken(i, a)
      BY DEF Taken, In, TAKEN, COUNTED
    <3>3. /\ IsFiniteSet(Taken(i, a) \cup {k})
          /\ Cardinality(Taken(i, a) \cup {k}) = Cardinality(Taken(i, a)) + 1
      BY <2>2, <3>1, <3>2, FS_AddElement DEF RoomFor
    <3>4. Cardinality(Taken(i, a)) \in Nat /\ ActionLimit[a] \in Nat
      BY <2>2, <3>1, FS_CardinalityType DEF RoomFor
    <3>5. Cardinality(Taken(i, a)) < ActionLimit[a]
      BY <2>2, <3>1 DEF RoomFor
    <3>6. Taken(i, a)' = Taken(i, a) \cup {k}
      BY <1>7, <2>2, <3>1
    <3> QED BY <3>3, <3>4, <3>5, <3>6
  <2> QED BY <2>1, <2>2
<1>9. ASSUME NEW v \in Workers, worker'[v].pc = "create"
      PROVE  MayInsert(worker[v])'
  <2>1. v # w /\ worker'[v] = worker[v]
    BY <1>3, <1>9
  <2>2. PICK m \in Keys : m = worker[v].key /\ m = worker'[v].key
    BY <1>9, <2>1, RecordTyped DEF PlaceSound
  <2>3. Preceded(m) /\ (Automatic(m) /\ request[m].status = "none" => RoomFor(m))
    BY <1>9, <2>1, <2>2 DEF LimitInv, MayInsert
  <2>4. ASSUME Automatic(m), request'[m].status = "none"
        PROVE  RoomFor(m)'
    <3>1. m # k /\ request[m].status = "none"
      BY <1>2, <2>4
    <3>2. <<m[1], m[2]>> # <<k[1], k[2]>>
      <4> SUFFICES ASSUME m[1] = k[1], m[2] = k[2] PROVE FALSE
        OBVIOUS
      <4>1. m[3] # k[3] /\ m[3] \in 1..MaxRequests /\ k[3] \in 1..MaxRequests
        <5>1. m = <<m[1], m[2], m[3]>> /\ k = <<k[1], k[2], k[3]>>
          BY KeyParts
        <5>2. m[3] # k[3]
          BY <3>1, <5>1
        <5> QED BY <5>2, KeyParts
      <4>2. ~(m[3] < k[3])
        <5>1. <<k[1], k[2], m[3]>> = m
          BY KeyParts
        <5> QED BY <1>1, <3>1, <4>1, <5>1 DEF Preceded
      <4>3. ~(k[3] < m[3])
        <5>1. <<m[1], m[2], k[3]>> = k
          BY KeyParts
        <5> QED BY <2>3, <4>1, <5>1 DEF Preceded
      <4> QED BY <4>1, <4>2, <4>3
    <3>3. Taken(m[1], m[2])' = Taken(m[1], m[2])
      BY <1>6, <3>2, KeyParts
    <3> QED BY <2>3, <2>4, <3>1, <3>3 DEF RoomFor
  <2>5. Preceded(m)'
    BY <1>4, <2>3
  <2> QED BY <2>2, <2>4, <2>5 DEF MayInsert, Automatic
<1> QED BY <1>5, <1>8, <1>9 DEF LimitInv, MayInsert, Automatic

LEMMA UnchangedLimit ==
    ASSUME IInv, LimitInv, NEW w \in Workers, NEW rec, Goes(w, rec),
           rec.pc # "create", request' = request
    PROVE  LimitInv'
<1>1. \A k \in Keys : StatusStep(k)
  BY DEF StatusStep
<1>2. \A v \in Workers : worker'[v] = worker[v] \/ worker'[v].pc # "create"
  BY DEF Goes, IInv, TypeOK
<1> QED BY <1>1, <1>2, QuietLimit

LEMMA CreateLimit ==
    ASSUME IInv, LimitInv, NEW w \in Workers, Create(w)
    PROVE  LimitInv'
<1>1. PICK k \in Keys : k = worker[w].key
  BY RecordTyped DEF Create, PlaceSound
<1>2. Return(w).pc # "create" /\ [worker[w] EXCEPT !.pc = "judge"].pc # "create"
  BY ReturnQuiet, RecordTyped DEF Records
<1>3. CASE Goes(w, Return(w)) /\ request' = request
  BY <1>2, <1>3, UnchangedLimit
<1>4. CASE /\ request[k].status = "none"
           /\ request' = [request EXCEPT ![k].status =
                            IF Automatic(k) THEN "approved" ELSE "awaiting_approval"]
           /\ Goes(w, IF Automatic(k) THEN [worker[w] EXCEPT !.pc = "judge"] ELSE Return(w))
  <2>1. PICK rec : /\ rec = IF Automatic(k) THEN [worker[w] EXCEPT !.pc = "judge"]
                                            ELSE Return(w)
                   /\ rec.pc # "create"
    BY <1>2
  <2>2. worker[w].pc = "create"
    BY DEF Create
  <2> QED BY <1>1, <1>4, <2>1, <2>2, InsertLimit
<1> QED BY <1>1, <1>3, <1>4 DEF Create, Automatic

LEMMA ConsiderLimit ==
    ASSUME IInv, LimitInv, NEW w \in Workers, Consider(w)
    PROVE  LimitInv'
<1>1. PICK i \in worker[w].incs :
        LET rest == [worker[w] EXCEPT !.incs = @ \ {i}]
        IN \/ Goes(w, rest)
           \/ \E pc \in {"escalate", "ask"} : Goes(w, [rest EXCEPT !.pc = pc, !.inc = i])
  BY DEF Consider
<1> DEFINE rest == [worker[w] EXCEPT !.incs = @ \ {i}]
<1>2. rest.pc # "create"
  BY RecordTyped DEF Consider, Records
<1>3. \A pc \in {"escalate", "ask"} : [rest EXCEPT !.pc = pc, !.inc = i].pc # "create"
  BY RecordTyped DEF Records
<1>4. request' = request
  BY DEF Consider
<1>5. CASE Goes(w, rest)
  <2> HIDE DEF rest
  <2> QED BY <1>2, <1>4, <1>5, UnchangedLimit
<1>6. ASSUME NEW pc \in {"escalate", "ask"}, Goes(w, [rest EXCEPT !.pc = pc, !.inc = i])
      PROVE  LimitInv'
  <2>1. PICK rec : rec = [rest EXCEPT !.pc = pc, !.inc = i]
    OBVIOUS
  <2>2. Goes(w, rec) /\ rec.pc # "create"
    BY <1>3, <1>6, <2>1
  <2> QED BY <1>4, <2>2, UnchangedLimit
<1> QED BY <1>1, <1>5, <1>6

LEMMA LimitKept == IInv /\ LimitInv /\ [Next]_vars => LimitInv'
<1> SUFFICES ASSUME IInv, LimitInv, [Next]_vars PROVE LimitInv'
  OBVIOUS
<1>1. ASSUME NEW w \in Workers, Cycle(w) \/ Crash(w),
             ~Consider(w), ~Ask(w), ~Create(w)
      PROVE  LimitInv'
  <2>1. QuietStep(w)
    BY <1>1, CycleQuiet
  <2>2. \A v \in Workers : worker'[v] = worker[v] \/ worker'[v].pc # "create"
    BY <2>1 DEF QuietStep
  <2> QED BY <2>1, <2>2, QuietLimit DEF QuietStep
<1>2. ASSUME NEW w \in Workers, Consider(w) \/ Ask(w) \/ Create(w)
      PROVE  LimitInv'
  BY <1>2, ConsiderLimit, AskLimit, CreateLimit
<1>3. CASE OthersStep
  BY <1>3, OthersQuiet, QuietLimit
<1> QED BY <1>1, <1>2, <1>3 DEF Next, OthersStep

LEMMA LimitAtStart == Init => LimitInv
<1> SUFFICES ASSUME Init PROVE LimitInv
  OBVIOUS
<1>1. \A k \in Keys : request[k].status = "none"
  BY DEF Init, NoRequest
<1>2. \A i, a : Taken(i, a) = {}
  BY <1>1 DEF Taken, In, TAKEN, COUNTED
<1>3. TakenWithinLimit
  <2>1. \A a \in Actions : ActionLimit[a] >= 0
    OBVIOUS
  <2>2. \A i \in Incidents, a \in Actions :
           IsFiniteSet(Taken(i, a)) /\ Cardinality(Taken(i, a)) = 0
    BY <1>2, FS_EmptySet
  <2> QED BY <2>1, <2>2 DEF TakenWithinLimit
<1>4. \A w \in Workers : worker[w].pc # "create"
  BY DEF Init, Idle
<1> QED BY <1>1, <1>3, <1>4 DEF LimitInv, MayInsert

\* An automatic action runs no more often than its limit on one incident, for
\* any number of workers that read the counts at the same time.
THEOREM AutoLimitHolds == Spec => []AutoWithinLimit
<1>1. IInv /\ LimitInv => AutoWithinLimit
  <2> SUFFICES ASSUME IInv, LimitInv, NEW i \in Incidents, NEW a \in Actions,
                      Autonomy[a] = "auto"
               PROVE  CalledFor(i, a) <= ActionLimit[a]
    BY DEF AutoWithinLimit
  <2> DEFINE mine == {k \in called : k[1] = i /\ k[2] = a}
  <2>1. mine \subseteq Taken(i, a)
    BY DEF IInv, RunIsCounted, Taken, In, TAKEN
  <2>2. IsFiniteSet(Taken(i, a)) /\ Cardinality(Taken(i, a)) <= ActionLimit[a]
    BY DEF LimitInv, TakenWithinLimit
  <2>3. /\ Cardinality(mine) <= Cardinality(Taken(i, a))
        /\ Cardinality(mine) \in Nat /\ Cardinality(Taken(i, a)) \in Nat
    BY <2>1, <2>2, FS_Subset, FS_CardinalityType
  <2>4. ActionLimit[a] \in Nat
    OBVIOUS
  <2> QED BY <2>2, <2>3, <2>4 DEF CalledFor
<1> QED BY <1>1, LimitAtStart, LimitKept, RemediationInvariant, PTL DEF Spec

----------------------------------------------------------------------------
(* One worker.  Between its question and its insertion nobody else inserts *)
(* a request, so the incident still has none pending and the counts are    *)
(* those the policy decided over: the limits hold for every action.        *)

PENDING == IN_FLIGHT \cup {"awaiting_approval"}

Waiting(i) == {k \in In(PENDING) : k[1] = i}

\* What may still be run, was run, or gave up running.
Charged(i) == {k \in In(TAKEN \cup {"awaiting_approval"}) : k[1] = i}
ChargedFor(i, a) == {k \in Charged(i) : k[2] = a}

WithinLimits(i) ==
    /\ \A k, m \in Waiting(i) : k = m
    /\ IsFiniteSet(Charged(i)) /\ Cardinality(Charged(i)) <= MAX_ATTEMPTS_PER_INCIDENT
    /\ \A a \in Actions : Cardinality(ChargedFor(i, a)) <= ActionLimit[a]

Unhindered(rec) ==
    /\ rec.pc = "ask" => Waiting(rec.inc) = {}
    /\ rec.pc = "create" =>
         /\ Waiting(rec.key[1]) = {}
         /\ Cardinality(Charged(rec.key[1])) < MAX_ATTEMPTS_PER_INCIDENT
         /\ Cardinality(ChargedFor(rec.key[1], rec.key[2])) < ActionLimit[rec.key[2]]

OneInv ==
    /\ \A i \in Incidents : WithinLimits(i)
    /\ \A w \in Workers : Unhindered(worker[w])

LEMMA ChargedShrinks ==
    ASSUME TypeOK, NEW i \in Incidents, IsFiniteSet(Charged(i)),
           \A k \in Keys : StatusStep(k)
    PROVE  /\ Waiting(i)' \subseteq Waiting(i)
           /\ IsFiniteSet(Charged(i)')
           /\ Cardinality(Charged(i)') <= Cardinality(Charged(i))
           /\ Cardinality(Charged(i)) \in Nat /\ Cardinality(Charged(i)') \in Nat
           /\ \A a \in Actions :
                /\ Cardinality(ChargedFor(i, a)') <= Cardinality(ChargedFor(i, a))
                /\ Cardinality(ChargedFor(i, a)) \in Nat
                /\ Cardinality(ChargedFor(i, a)') \in Nat
<1>1. ASSUME NEW k \in Keys
      PROVE  /\ request'[k].status \in PENDING => request[k].status \in PENDING
             /\ request'[k].status \in TAKEN \cup {"awaiting_approval"} =>
                  request[k].status \in TAKEN \cup {"awaiting_approval"}
  <2>1. request[k].status \in Statuses /\ StatusStep(k)
    BY DEF TypeOK, Requests
  <2>2. CASE request'[k].status \in ALLOWED_TRANSITIONS[request[k].status]
    BY <2>1, <2>2 DEF PENDING, IN_FLIGHT, TAKEN, COUNTED, ALLOWED_TRANSITIONS, Statuses
  <2> QED BY <2>1, <2>2 DEF StatusStep
<1>2. Waiting(i)' \subseteq Waiting(i)
  BY <1>1 DEF Waiting, In
<1>3. Charged(i)' \subseteq Charged(i)
  BY <1>1 DEF Charged, In
<1>4. \A a \in Actions :
         /\ ChargedFor(i, a)' \subseteq ChargedFor(i, a)
         /\ ChargedFor(i, a) \subseteq Charged(i)
  BY <1>3 DEF ChargedFor
<1>5. \A a \in Actions : IsFiniteSet(ChargedFor(i, a)) /\ IsFiniteSet(ChargedFor(i, a)')
  BY <1>4, FS_Subset
<1> QED BY <1>2, <1>3, <1>4, <1>5, FS_Subset, FS_CardinalityType

\* A step that inserts nothing, and after which no worker newly asks.
LEMMA QuietOne ==
    ASSUME IInv, OneInv, \A k \in Keys : StatusStep(k),
           \A v \in Workers : worker'[v] = worker[v] \/ worker'[v].pc \notin {"ask", "create"}
    PROVE  OneInv'
<1>1. ASSUME NEW i \in Incidents
      PROVE  /\ Waiting(i)' \subseteq Waiting(i)
             /\ IsFiniteSet(Charged(i)')
             /\ Cardinality(Charged(i)') <= Cardinality(Charged(i))
             /\ Cardinality(Charged(i)) \in Nat /\ Cardinality(Charged(i)') \in Nat
             /\ \A a \in Actions :
                  /\ Cardinality(ChargedFor(i, a)') <= Cardinality(ChargedFor(i, a))
                  /\ Cardinality(ChargedFor(i, a)) \in Nat
                  /\ Cardinality(ChargedFor(i, a)') \in Nat
  BY ChargedShrinks DEF IInv, OneInv, WithinLimits
<1>2. \A a \in Actions : ActionLimit[a] \in Nat
  OBVIOUS
<1>3. ASSUME NEW i \in Incidents PROVE WithinLimits(i)'
  <2>1. WithinLimits(i)
    BY DEF OneInv
  <2> QED BY <1>1, <1>2, <2>1 DEF WithinLimits
<1>4. ASSUME NEW v \in Workers, worker'[v].pc \in {"ask", "create"}
      PROVE  Unhindered(worker[v])'
  <2>1. PICK rec : rec = worker[v] /\ rec = worker'[v]
    BY <1>4
  <2>2. Unhindered(rec)
    BY <2>1 DEF OneInv
  <2>3. /\ rec.pc = "ask" => rec.inc \in Incidents
        /\ rec.pc = "create" => rec.key[1] \in Incidents /\ rec.key[2] \in Actions
    BY <2>1, RecordTyped, KeyParts DEF PlaceSound
  <2>4. Unhindered(rec)'
    <3>1. CASE rec.pc = "ask"
      BY <1>1, <2>2, <2>3, <3>1 DEF Unhindered
    <3>2. CASE rec.pc = "create"
      <4>1. PICK i \in Incidents, a \in Actions : i = rec.key[1] /\ a = rec.key[2]
        BY <2>3, <3>2
      <4>2. /\ Waiting(i)' = {}
            /\ Cardinality(Charged(i)') < MAX_ATTEMPTS_PER_INCIDENT
            /\ Cardinality(ChargedFor(i, a)') < ActionLimit[a]
        <5>1. /\ Waiting(i) = {}
              /\ Cardinality(Charged(i)) < MAX_ATTEMPTS_PER_INCIDENT
              /\ Cardinality(ChargedFor(i, a)) < ActionLimit[a]
          BY <2>2, <3>2, <4>1 DEF Unhindered
        <5> QED BY <1>1, <1>2, <5>1
      <4> QED BY <3>2, <4>1, <4>2 DEF Unhindered
    <3> QED BY <3>1, <3>2 DEF Unhindered
  <2> QED BY <2>1, <2>4 DEF Unhindered
<1> QED BY <1>3, <1>4 DEF OneInv, Unhindered

LEMMA TableSame ==
    ASSUME OneInv, request' = request
    PROVE  \A i \in Incidents : WithinLimits(i)'
<1> SUFFICES ASSUME NEW i \in Incidents PROVE WithinLimits(i)'
  OBVIOUS
<1>1. Waiting(i)' = Waiting(i) /\ Charged(i)' = Charged(i)
  BY DEF Waiting, Charged, In
<1>2. \A a \in Actions : ChargedFor(i, a)' = ChargedFor(i, a)
  BY <1>1 DEF ChargedFor
<1>3. WithinLimits(i)
  BY DEF OneInv
<1> QED BY <1>1, <1>2, <1>3 DEF WithinLimits

LEMMA ConsiderOne ==
    ASSUME IInv, OneInv, NEW w \in Workers, Consider(w)
    PROVE  OneInv'
<1>1. PICK i \in worker[w].incs :
        LET rest == [worker[w] EXCEPT !.incs = @ \ {i}]
        IN \/ Goes(w, rest)
           \/ Goes(w, [rest EXCEPT !.pc = "escalate", !.inc = i])
           \/ ~Pending(i) /\ Goes(w, [rest EXCEPT !.pc = "ask", !.inc = i])
  BY DEF Consider
<1> DEFINE rest == [worker[w] EXCEPT !.incs = @ \ {i}]
<1>2. /\ rest.pc = "incidents"
      /\ [rest EXCEPT !.pc = "escalate", !.inc = i].pc = "escalate"
      /\ [rest EXCEPT !.pc = "ask", !.inc = i].pc = "ask"
      /\ [rest EXCEPT !.pc = "ask", !.inc = i].inc = i
  BY RecordTyped DEF Consider, Records
<1>3. request' = request
  BY DEF Consider
<1>4. \A k \in Keys : StatusStep(k)
  BY <1>3 DEF StatusStep
<1> HIDE DEF rest
<1>5. \A rec : Goes(w, rec) =>
         worker'[w] = rec /\ \A v \in Workers \ {w} : worker'[v] = worker[v]
  BY DEF Goes, IInv, TypeOK
<1>6. CASE worker'[w].pc \notin {"ask", "create"}
           /\ \A v \in Workers \ {w} : worker'[v] = worker[v]
  BY <1>4, <1>6, QuietOne
<1>7. CASE ~Pending(i) /\ Goes(w, [rest EXCEPT !.pc = "ask", !.inc = i])
  <2>1. PICK rec : rec = [rest EXCEPT !.pc = "ask", !.inc = i]
    OBVIOUS
  <2>2. rec.pc = "ask" /\ rec.inc = i /\ Waiting(i) = {}
    BY <1>2, <1>7, <2>1 DEF Pending, Waiting, PENDING
  <2>3. \A j \in Incidents : WithinLimits(j)'
    BY <1>3, TableSame
  <2>4. ASSUME NEW v \in Workers PROVE Unhindered(worker[v])'
    <3>1. PICK new : new = worker'[v]
      OBVIOUS
    <3>2. Unhindered(new)
      <4>1. CASE v = w
        BY <1>5, <1>7, <2>1, <2>2, <3>1, <4>1 DEF Unhindered
      <4>2. CASE v # w
        BY <1>5, <1>7, <3>1, <4>2 DEF OneInv
      <4> QED BY <4>1, <4>2
    <3>3. Unhindered(new)'
      BY <1>3, <3>2 DEF Unhindered, Waiting, Charged, ChargedFor, In
    <3> QED BY <3>1, <3>3 DEF Unhindered
  <2> QED BY <2>3, <2>4 DEF OneInv
<1> QED BY <1>1, <1>2, <1>5, <1>6, <1>7 DEF rest

LEMMA AskOne ==
    ASSUME IInv, OneInv, NEW w \in Workers, Ask(w)
    PROVE  OneInv'
<1>1. PICK i, a : i = worker[w].inc /\ a = Playbook[i][worker[w].tried + 1]
  OBVIOUS
<1>2. /\ i \in Incidents /\ a \in Actions
      /\ request' = request /\ \A v \in Workers \ {w} : worker'[v] = worker[v]
      /\ worker'[w].pc = "ask" => worker'[w].inc = i
      /\ worker'[w].pc = "create" =>
           /\ ~(Cardinality(Counted(i)) >= MAX_ATTEMPTS_PER_INCIDENT)
           /\ ~(Attempts(i, a) >= ActionLimit[a])
           /\ worker'[w].key = <<i, a, RequestsFor(i, a) + 1>>
  BY <1>1, AskOutcome
<1>3. Waiting(i) = {}
  BY <1>1 DEF Ask, OneInv, Unhindered
<1>4. Charged(i) = Counted(i)
  BY <1>3 DEF Charged, Counted, Waiting, In, TAKEN, COUNTED, PENDING, IN_FLIGHT
<1>5. ChargedFor(i, a) = {k \in Counted(i) : k[2] = a}
  BY <1>4 DEF ChargedFor
<1>6. /\ Cardinality(Charged(i)) \in Nat /\ Cardinality(ChargedFor(i, a)) \in Nat
      /\ MAX_ATTEMPTS_PER_INCIDENT \in Nat /\ ActionLimit[a] \in Nat
  <2>1. IsFiniteSet(Charged(i)) /\ ChargedFor(i, a) \subseteq Charged(i)
    BY <1>2 DEF OneInv, WithinLimits, ChargedFor
  <2> QED BY <1>2, <2>1, FS_Subset, FS_CardinalityType
<1>7. worker'[w].pc = "create" =>
        /\ worker'[w].key[1] = i /\ worker'[w].key[2] = a
        /\ Cardinality(Charged(i)) < MAX_ATTEMPTS_PER_INCIDENT
        /\ Cardinality(ChargedFor(i, a)) < ActionLimit[a]
  BY <1>2, <1>4, <1>5, <1>6 DEF Attempts
<1>8. \A j \in Incidents : WithinLimits(j)'
  BY <1>2, TableSame
<1>9. ASSUME NEW v \in Workers PROVE Unhindered(worker[v])'
  <2>1. PICK new : new = worker'[v]
    OBVIOUS
  <2>2. Unhindered(new)
    <3>1. CASE v = w
      BY <1>2, <1>3, <1>7, <2>1, <3>1 DEF Unhindered
    <3>2. CASE v # w
      BY <1>2, <2>1, <3>2 DEF OneInv
    <3> QED BY <3>1, <3>2
  <2>3. Unhindered(new)'
    BY <1>2, <2>2 DEF Unhindered, Waiting, Charged, ChargedFor, In
  <2> QED BY <2>1, <2>3 DEF Unhindered
<1> QED BY <1>8, <1>9 DEF OneInv

\* Nobody else can insert in between: there is nobody else.
LEMMA CreateOne ==
    ASSUME IInv, OneInv, NEW w, Workers = {w}, Create(w)
    PROVE  OneInv'
<1>1. PICK k \in Keys : k = worker[w].key
  BY RecordTyped DEF Create, PlaceSound
<1>2. PICK i \in Incidents, a \in Actions : i = k[1] /\ a = k[2]
  BY KeyParts
<1>3. \A rec : Goes(w, rec) => worker'[w] = rec
  BY DEF Goes, IInv, TypeOK
<1>4. /\ Return(w).pc \notin {"ask", "create"}
      /\ [worker[w] EXCEPT !.pc = "judge"].pc = "judge"
  BY ReturnQuiet, RecordTyped DEF Records
<1>5. worker'[w].pc \notin {"ask", "create"}
  <2>1. Goes(w, Return(w)) \/ Goes(w, [worker[w] EXCEPT !.pc = "judge"])
    BY DEF Create
  <2> QED BY <1>3, <1>4, <2>1
<1>6. CASE request' = request
  <2>1. \A m \in Keys : StatusStep(m)
    BY <1>6 DEF StatusStep
  <2> QED BY <1>5, <2>1, QuietOne
<1>7. CASE /\ request[k].status = "none"
           /\ request' = [request EXCEPT ![k].status =
                            IF Automatic(k) THEN "approved" ELSE "awaiting_approval"]
  <2>1. /\ request'[k].status \in {"approved", "awaiting_approval"}
        /\ \A m \in Keys \ {k} : request'[m] = request[m]
    BY <1>7 DEF IInv, TypeOK, Requests
  <2>2. /\ Waiting(i) = {}
        /\ Cardinality(Charged(i)) < MAX_ATTEMPTS_PER_INCIDENT
        /\ Cardinality(ChargedFor(i, a)) < ActionLimit[a]
    BY <1>1, <1>2 DEF Create, OneInv, Unhindered
  <2>3. Waiting(i)' \subseteq {k}
    BY <2>1, <2>2 DEF Waiting, In
  <2>4. Charged(i)' = Charged(i) \cup {k} /\ k \notin Charged(i)
    <3>1. request'[k].status \in TAKEN \cup {"awaiting_approval"}
      BY <2>1 DEF TAKEN
    <3>2. request[k].status \notin TAKEN \cup {"awaiting_approval"}
      BY <1>7 DEF TAKEN, COUNTED
    <3> QED BY <1>2, <2>1, <3>1, <3>2 DEF Charged, In
  <2>5. /\ ChargedFor(i, a)' = ChargedFor(i, a) \cup {k}
        /\ \A b \in Actions \ {a} : ChargedFor(i, b)' = ChargedFor(i, b)
    BY <1>2, <2>4 DEF ChargedFor
  <2>6. ASSUME NEW j \in Incidents \ {i}
        PROVE  /\ Waiting(j)' = Waiting(j) /\ Charged(j)' = Charged(j)
               /\ \A b \in Actions : ChargedFor(j, b)' = ChargedFor(j, b)
    <3>1. Waiting(j)' = Waiting(j)
      BY <1>2, <2>1, <2>6 DEF Waiting, In
    <3>2. Charged(j)' = Charged(j)
      BY <1>2, <2>1, <2>6 DEF Charged, In
    <3> QED BY <3>1, <3>2 DEF ChargedFor
  <2>7. WithinLimits(i)'
    <3>1. IsFiniteSet(Charged(i)) /\ IsFiniteSet(ChargedFor(i, a))
      BY FS_Subset DEF OneInv, WithinLimits, ChargedFor
    <3>2. /\ IsFiniteSet(Charged(i)')
          /\ Cardinality(Charged(i)') = Cardinality(Charged(i)) + 1
      <4>1. /\ IsFiniteSet(Charged(i) \cup {k})
            /\ Cardinality(Charged(i) \cup {k}) = Cardinality(Charged(i)) + 1
        BY <2>4, <3>1, FS_AddElement
      <4> QED BY <2>4, <4>1
    <3>3. Cardinality(ChargedFor(i, a)') = Cardinality(ChargedFor(i, a)) + 1
      BY <2>4, <2>5, <3>1, FS_AddElement DEF ChargedFor
    <3>4. /\ Cardinality(Charged(i)) \in Nat /\ Cardinality(ChargedFor(i, a)) \in Nat
          /\ MAX_ATTEMPTS_PER_INCIDENT \in Nat /\ ActionLimit[a] \in Nat
      BY <3>1, FS_CardinalityType
    <3>5. /\ Cardinality(Charged(i)') <= MAX_ATTEMPTS_PER_INCIDENT
          /\ Cardinality(ChargedFor(i, a)') <= ActionLimit[a]
      BY <2>2, <3>2, <3>3, <3>4
    <3>6. \A b \in Actions \ {a} : Cardinality(ChargedFor(i, b)') <= ActionLimit[b]
      BY <2>5 DEF OneInv, WithinLimits
    <3>7. \A m, n \in Waiting(i)' : m = n
      BY <2>3
    <3> QED BY <3>2, <3>5, <3>6, <3>7 DEF WithinLimits
  <2>8. \A j \in Incidents \ {i} : WithinLimits(j)'
    BY <2>6 DEF OneInv, WithinLimits
  <2>9. \A v \in Workers : Unhindered(worker[v])'
    BY <1>5 DEF Unhindered
  <2> QED BY <2>7, <2>8, <2>9 DEF OneInv
<1> QED BY <1>1, <1>6, <1>7 DEF Create, Automatic

LEMMA OneKept ==
    ASSUME NEW w, Workers = {w}
    PROVE  IInv /\ OneInv /\ [Next]_vars => OneInv'
<1> SUFFICES ASSUME IInv, OneInv, [Next]_vars PROVE OneInv'
  OBVIOUS
<1>1. ASSUME Cycle(w) \/ Crash(w), ~Consider(w), ~Ask(w), ~Create(w)
      PROVE  OneInv'
  <2>1. QuietStep(w)
    BY <1>1, CycleQuiet
  <2> QED BY <2>1, QuietOne DEF QuietStep
<1>2. CASE Consider(w) \/ Ask(w) \/ Create(w)
  BY <1>2, ConsiderOne, AskOne, CreateOne
<1>3. CASE OthersStep
  BY <1>3, OthersQuiet, QuietOne
<1> QED BY <1>1, <1>2, <1>3 DEF Next, OthersStep

LEMMA OneAtStart == Init => OneInv
<1> SUFFICES ASSUME Init PROVE OneInv
  OBVIOUS
<1>1. \A k \in Keys : request[k].status = "none"
  BY DEF Init, NoRequest
<1>2. \A i : Waiting(i) = {} /\ Charged(i) = {}
  BY <1>1 DEF Waiting, Charged, In, PENDING, IN_FLIGHT, TAKEN, COUNTED
<1>3. \A i, a : ChargedFor(i, a) = {}
  BY <1>2 DEF ChargedFor
<1>4. IsFiniteSet({}) /\ Cardinality({}) = 0
  BY FS_EmptySet
<1>5. MAX_ATTEMPTS_PER_INCIDENT >= 0 /\ \A a \in Actions : ActionLimit[a] >= 0
  OBVIOUS
<1>6. \A i \in Incidents : WithinLimits(i)
  BY <1>2, <1>3, <1>4, <1>5 DEF WithinLimits
<1>7. \A w \in Workers : worker[w].pc \notin {"ask", "create"}
  BY DEF Init, Idle
<1> QED BY <1>6, <1>7 DEF OneInv, Unhindered

\* With one worker, as deployed, an incident has at most one request pending,
\* and both limits hold for automatic and for approved actions.
THEOREM OneWorkerOneAtATime ==
    ASSUME NEW w, Workers = {w}
    PROVE  Spec => []OneAtATime
<1>1. IInv /\ OneInv => OneAtATime
  <2> SUFFICES ASSUME IInv, OneInv, NEW i \in Incidents
               PROVE  /\ \A k, m \in Waiting(i) : k = m
                      /\ Cardinality({k \in called : k[1] = i}) <= MAX_ATTEMPTS_PER_INCIDENT
                      /\ \A a \in Actions : CalledFor(i, a) <= ActionLimit[a]
    BY DEF OneAtATime, Waiting, In, PENDING
  <2> DEFINE mine == {k \in called : k[1] = i}
             mineFor(a) == {k \in called : k[1] = i /\ k[2] = a}
  <2>1. WithinLimits(i)
    BY DEF OneInv
  <2>2. mine \subseteq Charged(i) /\ \A a \in Actions : mineFor(a) \subseteq ChargedFor(i, a)
    BY DEF IInv, RunIsCounted, Charged, ChargedFor, In, TAKEN
  <2>3. IsFiniteSet(Charged(i)) /\ \A a \in Actions : IsFiniteSet(ChargedFor(i, a))
    BY <2>1, FS_Subset DEF WithinLimits, ChargedFor
  <2>4. /\ Cardinality(mine) <= Cardinality(Charged(i))
        /\ Cardinality(mine) \in Nat /\ Cardinality(Charged(i)) \in Nat
    BY <2>2, <2>3, FS_Subset, FS_CardinalityType
  <2>5. \A a \in Actions : /\ Cardinality(mineFor(a)) <= Cardinality(ChargedFor(i, a))
                           /\ Cardinality(mineFor(a)) \in Nat
                           /\ Cardinality(ChargedFor(i, a)) \in Nat
    BY <2>2, <2>3, FS_Subset, FS_CardinalityType
  <2>6. MAX_ATTEMPTS_PER_INCIDENT \in Nat /\ \A a \in Actions : ActionLimit[a] \in Nat
    OBVIOUS
  <2>7. Cardinality(mine) <= MAX_ATTEMPTS_PER_INCIDENT
    BY <2>1, <2>4, <2>6 DEF WithinLimits
  <2>8. \A a \in Actions : Cardinality(mineFor(a)) <= ActionLimit[a]
    BY <2>1, <2>5, <2>6 DEF WithinLimits
  <2> QED BY <2>1, <2>7, <2>8 DEF WithinLimits, CalledFor
<1>2. IInv /\ OneInv /\ [Next]_vars => OneInv'
  BY OneKept
<1> QED BY <1>1, <1>2, OneAtStart, RemediationInvariant, PTL DEF Spec
----------------------------------------------------------------------------
(* The refinement of OneSlot.  Beyond the invariant it needs to know that  *)
(* a request is executed only when its adapter was called.                 *)

DoneWasCalled ==
    /\ \A k \in Keys : request[k].status \in {"executed", "verified"} => k \in called
    /\ \A w \in Workers : worker[w].pc \in {"worked", "broke"} => worker[w].key \in called

SlotVars == <<[k \in Keys |-> StageOf[request[k].status]], called>>

\* A row that moves is a move of the promise, made by that request alone.
LEMMA RowMoves ==
    ASSUME NEW k \in Keys, NEW from, NEW to,
           StageOf[request[k].status] \in from, StageOf[request'[k].status] = to,
           \A m \in Keys \ {k} : request'[m].status = request[m].status,
           called' = called
    PROVE  Slot!Move(k, from, to)
BY DEF Slot!Move

LEMMA StagesNamed ==
    /\ StageOf["none"] = "none" /\ StageOf["awaiting_approval"] = "waiting"
    /\ StageOf["approved"] = "granted" /\ StageOf["executing"] = "running"
    /\ StageOf["executed"] = "judged" /\ StageOf["verified"] = "repaired"
    /\ StageOf["expired"] = "withdrawn" /\ StageOf["failed"] = "spent"
    /\ StageOf["abandoned"] = "spent"
BY DEF StageOf, Statuses

\* A slot that is free to the code is free to the promise.
LEMMA SlotIsFree ==
    ASSUME TypeOK
    PROVE  ~Busy => Slot!Holders = {}
<1>1. ASSUME NEW k \in Keys, StageOf[request[k].status] \in {"granted", "running", "judged"}
      PROVE  request[k].status \in IN_FLIGHT
  <2>1. request[k].status \in Statuses
    BY DEF TypeOK, Requests
  <2> QED BY <1>1, <2>1, StagesNamed DEF Statuses, IN_FLIGHT
<1> QED BY <1>1 DEF Busy, In, Slot!Holders

\* A request that is inserted or approved waits, or takes the free slot.
LEMMA RowGranted ==
    ASSUME TypeOK, NEW k \in Keys, ~Busy,
           request[k].status \in {"none", "awaiting_approval"},
           request'[k].status = "approved",
           \A m \in Keys \ {k} : request'[m].status = request[m].status,
           called' = called
    PROVE  Slot!Next
<1>1. StageOf[request[k].status] \in {"none", "waiting"}
  BY StagesNamed
<1>2. StageOf[request'[k].status] = "granted"
  BY StagesNamed
<1>3. Slot!Move(k, {"none", "waiting"}, "granted")
  BY <1>1, <1>2 DEF Slot!Move
<1>4. Slot!Grant(k)
  BY <1>3, SlotIsFree DEF Slot!Grant
<1> QED BY <1>4 DEF Slot!Next

LEMMA RowWaits ==
    ASSUME NEW k \in Keys, request[k].status = "none",
           request'[k].status = "awaiting_approval",
           \A m \in Keys \ {k} : request'[m].status = request[m].status,
           called' = called
    PROVE  Slot!Next
<1>1. StageOf[request[k].status] \in {"none"}
  BY StagesNamed
<1>2. StageOf[request'[k].status] = "waiting"
  BY StagesNamed
<1>3. Slot!Move(k, {"none"}, "waiting")
  BY <1>1, <1>2 DEF Slot!Move
<1>4. Slot!Wait(k)
  BY <1>3 DEF Slot!Wait
<1> QED BY <1>4 DEF Slot!Next

\* What a step that leaves the requests and the calls alone looks like.
LEMMA SlotAlone ==
    ASSUME \A k \in Keys : request'[k].status = request[k].status, called' = called
    PROVE  UNCHANGED SlotVars
BY DEF SlotVars

\* A transition along the table is a step of the promise.
LEMMA TransitionSlot ==
    ASSUME TypeOK, NEW w \in Workers, NEW k \in Keys, NEW to \in Statuses \ {"approved"},
           NEW rec, Transition(w, k, to, rec), called' = called,
           to = "executed" => k \in called
    PROVE  Slot!Next \/ UNCHANGED SlotVars
<1>1. CASE to \in ALLOWED_TRANSITIONS[request[k].status]
  <2>1. request' = [request EXCEPT ![k].status = to, ![k].age = 0]
    BY <1>1 DEF Transition
  <2>2. /\ request'[k].status = to
        /\ \A m \in Keys \ {k} : request'[m].status = request[m].status
    BY <2>1 DEF TypeOK, Requests
  <2>3. PICK s \in Statuses : s = request[k].status
    BY DEF TypeOK, Requests
  <2>4. ASSUME NEW from, NEW stage, StageOf[s] \in from, StageOf[to] = stage
        PROVE  Slot!Move(k, from, stage)
    BY <2>2, <2>3, <2>4, RowMoves
  <2>5. CASE s \in {"awaiting_approval", "approved"} /\ to = "expired"
    <3>1. StageOf[s] \in {"waiting", "granted"} /\ StageOf[to] = "withdrawn"
      BY <2>5, StagesNamed
    <3>2. Slot!Withdraw(k)
      BY ONLY <2>4, <3>1 DEF Slot!Withdraw
    <3> QED BY <3>2 DEF Slot!Next
  <2>6. CASE s = "approved" /\ to = "executing"
    <3>1. StageOf[s] \in {"granted"} /\ StageOf[to] = "running"
      BY <2>6, StagesNamed
    <3>2. Slot!Run(k)
      BY ONLY <2>4, <3>1 DEF Slot!Run
    <3> QED BY <3>2 DEF Slot!Next
  <2>7. CASE s = "executing" /\ to = "executed"
    <3>1. StageOf[s] \in {"running"} /\ StageOf[to] = "judged"
      BY <2>7, StagesNamed
    <3>2. Slot!Move(k, {"running"}, "judged")
      BY ONLY <2>4, <3>1
    <3>3. Slot!Judge(k)
      BY <2>7, <3>2 DEF Slot!Judge
    <3> QED BY <3>3 DEF Slot!Next
  <2>8. CASE s = "executed" /\ to = "verified"
    <3>1. StageOf[s] \in {"judged"} /\ StageOf[to] = "repaired"
      BY <2>8, StagesNamed
    <3>2. Slot!Approve(k)
      BY ONLY <2>4, <3>1 DEF Slot!Approve
    <3> QED BY <3>2 DEF Slot!Next
  <2>9. CASE s \in {"approved", "executing", "executed"} /\ to \in {"failed", "abandoned"}
    <3>1. StageOf[s] \in {"granted", "running", "judged"} /\ StageOf[to] = "spent"
      BY <2>9, StagesNamed
    <3>2. Slot!Spend(k)
      BY ONLY <2>4, <3>1 DEF Slot!Spend
    <3> QED BY <3>2 DEF Slot!Next
  <2> QED BY <1>1, <2>3, <2>5, <2>6, <2>7, <2>8, <2>9 DEF ALLOWED_TRANSITIONS
<1>2. CASE to \notin ALLOWED_TRANSITIONS[request[k].status]
  BY <1>2, SlotAlone DEF Transition, Stop
<1> QED BY <1>1, <1>2

\* Every step of a worker keeps the promise.
LEMMA CycleSlot ==
    ASSUME IInv, DoneWasCalled, NEW w \in Workers, Cycle(w) \/ Crash(w)
    PROVE  Slot!Next \/ UNCHANGED SlotVars
<1>1. TypeOK /\ worker[w] \in Records /\ PlaceSound(worker[w])
  BY RecordTyped DEF IInv
<1>2. CASE StartCycle(w) \/ NextPhase(w) \/ RunApproved(w) \/ Judge(w) \/ Consider(w)
           \/ Ask(w) \/ Plan(w) \/ Escalate(w) \/ Crash(w)
  <2>1. request' = request /\ called' = called
    BY <1>2 DEF StartCycle, NextPhase, RunApproved, Judge, Consider, Ask, Plan, Escalate,
                Crash, Stop
  <2> QED BY <2>1, SlotAlone
<1>3. CASE ExpireStale(w) \/ AbandonInterrupted(w) \/ VerifyExecuted(w)
  <2>1. PICK k \in worker[w].rows :
          \/ \E to \in {"expired", "abandoned", "verified", "failed"} :
               Transition(w, k, to, Without(w, k))
          \/ request' = request
    BY <1>3 DEF ExpireStale, AbandonInterrupted, VerifyExecuted
  <2>2. called' = called
    BY <1>3 DEF ExpireStale, AbandonInterrupted, VerifyExecuted
  <2>3. k \in Keys
    BY <1>1 DEF Records
  <2>4. ASSUME NEW to \in {"expired", "abandoned", "verified", "failed"},
               Transition(w, k, to, Without(w, k))
        PROVE  Slot!Next \/ UNCHANGED SlotVars
    <3>1. to \in Statuses \ {"approved"} /\ to # "executed"
      BY DEF Statuses
    <3> QED BY <1>1, <2>2, <2>3, <2>4, <3>1, TransitionSlot
  <2>5. CASE request' = request
    BY <2>2, <2>5, SlotAlone
  <2> QED BY <2>1, <2>4, <2>5
<1>4. CASE Withdraw(w) \/ Start(w) \/ Record(w)
  <2>1. worker[w].key \in Keys /\ called' = called
    BY <1>1, <1>4 DEF Withdraw, Start, Record, PlaceSound
  <2>2. PICK to \in {"expired", "executing", "executed", "failed"} :
          /\ \E rec : Transition(w, worker[w].key, to, rec)
          /\ to = "executed" => worker[w].pc = "worked"
    BY <1>4 DEF Withdraw, Start, Record
  <2>3. to \in Statuses \ {"approved"}
    BY DEF Statuses
  <2>4. to = "executed" => worker[w].key \in called
    BY <2>2 DEF DoneWasCalled
  <2> QED BY <1>1, <2>1, <2>2, <2>3, <2>4, TransitionSlot
<1>5. CASE CallAdapter(w)
  <2> DEFINE k == worker[w].key
  <2>1. /\ k \in Keys /\ k \notin called /\ request[k].status \in COUNTED
        /\ called' = called \cup {k} /\ request' = request
    BY <1>1, <1>5 DEF CallAdapter, PlaceSound, In
  <2>2. request[k].status \in {"executing", "failed", "abandoned"}
    BY <2>1 DEF DoneWasCalled, COUNTED
  <2>3. StageOf[request[k].status] \in {"running", "spent"}
    BY <2>2, StagesNamed
  <2>4. Slot!Act(k)
    BY <2>1, <2>3 DEF Slot!Act
  <2> QED BY <2>1, <2>4 DEF Slot!Next
<1>6. CASE Create(w)
  <2>1. PICK k \in Keys : k = worker[w].key
    BY <1>1, <1>6 DEF Create, PlaceSound
  <2>2. called' = called
    BY <1>6 DEF Create
  <2>3. CASE request' = request
    BY <2>2, <2>3, SlotAlone
  <2>4. CASE request' # request
    <3>1. /\ request[k].status = "none"
          /\ \/ ~Busy /\ request' = [request EXCEPT ![k].status = "approved"]
             \/ request' = [request EXCEPT ![k].status = "awaiting_approval"]
      BY <1>6, <2>1, <2>4 DEF Create
    <3>2. \A m \in Keys \ {k} : request'[m].status = request[m].status
      BY <1>1, <3>1 DEF TypeOK, Requests
    <3>3. CASE ~Busy /\ request' = [request EXCEPT ![k].status = "approved"]
      <4>1. request'[k].status = "approved"
        BY <1>1, <3>3 DEF TypeOK, Requests
      <4> QED BY <1>1, <2>2, <3>1, <3>2, <3>3, <4>1, RowGranted
    <3>4. CASE request' = [request EXCEPT ![k].status = "awaiting_approval"]
      <4>1. request'[k].status = "awaiting_approval"
        BY <1>1, <3>4 DEF TypeOK, Requests
      <4> QED BY <2>2, <3>1, <3>2, <4>1, RowWaits
    <3> QED BY <3>1, <3>3, <3>4
  <2> QED BY <2>3, <2>4
<1> QED BY <1>2, <1>3, <1>4, <1>5, <1>6 DEF Cycle

\* An approval takes the slot if it is free; nothing else outside touches it.
LEMMA OthersSlot ==
    ASSUME IInv, OthersStep
    PROVE  Slot!Next \/ UNCHANGED SlotVars
<1>1. called' = called /\ TypeOK
  BY OthersQuiet DEF IInv
<1>2. CASE request' = request
  BY <1>1, <1>2, SlotAlone
<1>3. ASSUME NEW p \in People, Approve(p)
      PROVE  Slot!Next \/ UNCHANGED SlotVars
  <2>1. PICK k \in Keys : k = desk[p]
    BY <1>1, <1>3 DEF Approve, TypeOK
  <2>2. CASE /\ request[k].status = "awaiting_approval" /\ ~Busy
             /\ request' = [request EXCEPT ![k].status = "approved", ![k].by = p]
    <3>1. /\ request'[k].status = "approved"
          /\ \A m \in Keys \ {k} : request'[m].status = request[m].status
      BY <1>1, <2>2 DEF TypeOK, Requests
    <3> QED BY <1>1, <2>2, <3>1, RowGranted
  <2> QED BY <1>2, <1>3, <2>1, <2>2 DEF Approve
<1>4. ASSUME NEW k \in Keys, RequestAges(k)
      PROVE  Slot!Next \/ UNCHANGED SlotVars
  <2>1. \A m \in Keys : request'[m].status = request[m].status
    BY <1>1, <1>4 DEF RequestAges, TypeOK, Requests
  <2> QED BY <1>1, <2>1, SlotAlone
<1> QED BY <1>2, <1>3, <1>4
        DEF OthersStep, AskToApprove, TakeOver, SignalsChange, Resolve, Reopen, TimePasses,
            IncidentAges, SetIncident, vars

\* Where a worker goes when it does not come from the call of an adapter.
LEMMA NotFromTheCall ==
    ASSUME IInv, NEW w \in Workers, Cycle(w) \/ Crash(w), ~CallAdapter(w)
    PROVE  worker'[w].pc \notin {"worked", "broke"}
<1> DEFINE Quiet(rec) == rec.pc \notin {"worked", "broke"}
<1>1. worker[w] \in Records
  BY RecordTyped
<1>2. \A rec : Goes(w, rec) => worker'[w] = rec
  BY DEF Goes, IInv, TypeOK
<1>3. Stop(w) => worker'[w] = Idle
  BY DEF Stop, IInv, TypeOK
<1>4. \A k, to, rec : Transition(w, k, to, rec) => worker'[w] \in {rec, Idle}
  BY <1>3 DEF Transition, IInv, TypeOK
<1>5. /\ Quiet(Idle) /\ Quiet(Return(w))
      /\ \A k : Without(w, k).pc = worker[w].pc
      /\ \A pc : [worker[w] EXCEPT !.pc = pc].pc = pc
  BY <1>1 DEF Idle, Return, Without, Records
<1>6. CASE StartCycle(w) \/ NextPhase(w)
  <2>1. ASSUME NEW pc \in {"expire", "abandon", "verify", "run"}, NEW rows,
               Goes(w, [Idle EXCEPT !.pc = pc, !.rows = rows])
        PROVE  Quiet(worker'[w])
    <3>1. [Idle EXCEPT !.pc = pc, !.rows = rows].pc = pc
      BY DEF Idle
    <3> QED BY <1>2, <2>1, <3>1
  <2>2. ASSUME NEW incs, Goes(w, [Idle EXCEPT !.pc = "incidents", !.incs = incs])
        PROVE  Quiet(worker'[w])
    <3>1. [Idle EXCEPT !.pc = "incidents", !.incs = incs].pc = "incidents"
      BY DEF Idle
    <3> QED BY <1>2, <2>2, <3>1
  <2> QED BY <1>2, <1>5, <1>6, <2>1, <2>2 DEF StartCycle, NextPhase
<1>7. CASE ExpireStale(w) \/ AbandonInterrupted(w) \/ VerifyExecuted(w)
  <2>1. \E k : \/ \E to : Transition(w, k, to, Without(w, k))
               \/ Goes(w, Without(w, k))
    BY <1>7 DEF ExpireStale, AbandonInterrupted, VerifyExecuted
  <2>2. worker[w].pc \in {"expire", "abandon", "verify"}
    BY <1>7 DEF ExpireStale, AbandonInterrupted, VerifyExecuted
  <2> QED BY <1>2, <1>4, <1>5, <2>1, <2>2
<1>8. CASE RunApproved(w)
  <2>1. PICK k : Goes(w, [Without(w, k) EXCEPT !.pc = "judge", !.key = k])
    BY <1>8 DEF RunApproved
  <2>2. [Without(w, k) EXCEPT !.pc = "judge", !.key = k].pc = "judge"
    BY RowDone DEF Records
  <2> QED BY <1>2, <2>1, <2>2
<1>9. CASE Judge(w)
  <2>1. \/ \E pc \in {"start", "withdraw"} : Goes(w, [worker[w] EXCEPT !.pc = pc])
        \/ Goes(w, Idle) \/ Stop(w)
    BY <1>9 DEF Judge
  <2> QED BY <1>2, <1>3, <1>5, <2>1
<1>10. CASE Withdraw(w) \/ Record(w)
  <2>1. PICK k, to : Transition(w, k, to, Return(w))
    BY <1>10 DEF Withdraw, Record
  <2>2. worker'[w] \in {Return(w), Idle}
    BY <1>4, <2>1
  <2>3. CASE worker'[w] = Return(w)
    BY <1>5, <2>3
  <2>4. CASE worker'[w] = Idle
    BY <1>5, <2>4
  <2> QED BY <2>2, <2>3, <2>4
<1>11. CASE Start(w)
  <2>1. PICK rec : rec = [worker[w] EXCEPT !.pc = "call"]
    OBVIOUS
  <2>2. PICK k, to : Transition(w, k, to, rec)
    BY <1>11, <2>1 DEF Start
  <2>3. worker'[w] \in {rec, Idle} /\ rec.pc = "call"
    BY <1>4, <1>5, <2>1, <2>2
  <2> QED BY <1>5, <2>3
<1>12. CASE Consider(w)
  <2>1. PICK i : LET rest == [worker[w] EXCEPT !.incs = @ \ {i}]
                 IN \/ Goes(w, rest)
                    \/ \E pc \in {"escalate", "ask"} :
                         Goes(w, [rest EXCEPT !.pc = pc, !.inc = i])
    BY <1>12 DEF Consider
  <2> DEFINE rest == [worker[w] EXCEPT !.incs = @ \ {i}]
  <2>2. worker[w].pc = "incidents" /\ rest.pc = worker[w].pc
    BY <1>1, <1>12 DEF Consider, Records
  <2>3. \A pc : [rest EXCEPT !.pc = pc, !.inc = i].pc = pc
    BY <1>1 DEF Records
  <2>4. \/ Goes(w, rest)
        \/ \E pc \in {"escalate", "ask"} : Goes(w, [rest EXCEPT !.pc = pc, !.inc = i])
    BY <2>1, Zenon
  <2> HIDE DEF rest
  <2> QED BY <1>2, <2>2, <2>3, <2>4
<1>13. CASE Ask(w)
  <2>1. worker[w].pc = "ask"
    BY <1>13 DEF Ask
  <2>2. /\ \A n, spent : [worker[w] EXCEPT !.tried = n, !.spent = spent].pc = worker[w].pc
        /\ \A k : [worker[w] EXCEPT !.pc = "create", !.key = k].pc = "create"
    BY <1>1 DEF Records
  <2>3. \/ Goes(w, Idle) \/ Goes(w, Return(w))
        \/ \E pc \in {"escalate", "plan"} : Goes(w, [worker[w] EXCEPT !.pc = pc])
        \/ \E n, spent : Goes(w, [worker[w] EXCEPT !.tried = n, !.spent = spent])
        \/ \E k : Goes(w, [worker[w] EXCEPT !.pc = "create", !.key = k])
    BY <1>13 DEF Ask, TryNext
  <2>4. ASSUME NEW n, NEW spent,
               Goes(w, [worker[w] EXCEPT !.tried = n, !.spent = spent])
        PROVE  Quiet(worker'[w])
    <3>1. worker'[w] = [worker[w] EXCEPT !.tried = n, !.spent = spent]
      BY <1>2, <2>4
    <3> QED BY <2>1, <2>2, <3>1
  <2>5. \A k : Goes(w, [worker[w] EXCEPT !.pc = "create", !.key = k])
          => Quiet(worker'[w])
    BY <1>2, <2>2
  <2>6. \A pc \in {"escalate", "plan"} : Goes(w, [worker[w] EXCEPT !.pc = pc])
          => Quiet(worker'[w])
    BY <1>2, <1>5
  <2>7. Goes(w, Idle) \/ Goes(w, Return(w)) => Quiet(worker'[w])
    BY <1>2, <1>5
  <2> HIDE DEF Quiet
  <2>8. Quiet(worker'[w])
    BY <2>3, <2>4, <2>5, <2>6, <2>7
  <2> QED BY <2>8 DEF Quiet
<1>14. CASE Plan(w) \/ Create(w) \/ Escalate(w)
  <2>1. \/ Goes(w, Return(w))
        \/ \E pc \in {"escalate", "judge"} : Goes(w, [worker[w] EXCEPT !.pc = pc])
    BY <1>14 DEF Plan, Create, Escalate
  <2> QED BY <1>2, <1>5, <2>1
<1> QED BY <1>3, <1>5, <1>6, <1>7, <1>8, <1>9, <1>10, <1>11, <1>12, <1>13, <1>14
        DEF Cycle, Crash

\* A worker that is to record a result has called for it, and only such a
\* worker makes a row executed.
LEMMA DoneKept == IInv /\ DoneWasCalled /\ [Next]_vars => DoneWasCalled'
<1> SUFFICES ASSUME IInv, DoneWasCalled, [Next]_vars PROVE DoneWasCalled'
  OBVIOUS
<1>0. TypeOK
  BY DEF IInv
<1>1. ASSUME NEW w \in Workers, NEW k \in Keys, NEW to \in Statuses, NEW rec,
             Transition(w, k, to, rec), called' = called, to = "executed" => k \in called
      PROVE  \A m \in Keys : request'[m].status \in {"executed", "verified"} => m \in called'
  <2>1. CASE to \in ALLOWED_TRANSITIONS[request[k].status]
    <3>1. request' = [request EXCEPT ![k].status = to, ![k].age = 0]
      BY <1>1, <2>1 DEF Transition
    <3>2. /\ request'[k].status = to
          /\ \A m \in Keys \ {k} : request'[m].status = request[m].status
      BY <1>0, <3>1 DEF TypeOK, Requests
    <3>3. to = "verified" => request[k].status = "executed"
      BY <1>0, <2>1 DEF TypeOK, Requests, ALLOWED_TRANSITIONS
    <3> QED BY <1>1, <3>2, <3>3 DEF DoneWasCalled
  <2>2. CASE to \notin ALLOWED_TRANSITIONS[request[k].status]
    BY <1>1, <2>2 DEF Transition, Stop, DoneWasCalled
  <2> QED BY <2>1, <2>2
<1>2. ASSUME NEW w \in Workers, Cycle(w) \/ Crash(w) PROVE DoneWasCalled'
  <2>1. /\ \A v \in Workers \ {w} : worker'[v] = worker[v]
        /\ called \subseteq called'
    <3>1. WorkerStep(w)
      BY <1>2, StartCycleSteps, NextPhaseSteps, HousekeepingSteps, RunApprovedSteps,
         JudgeSteps, WithdrawSteps, StartSteps, CallAdapterSteps, RecordSteps,
         ConsiderSteps, AskSteps, PlanSteps, CreateSteps, EscalateSteps, StopSteps
         DEF Cycle, Crash
    <3> QED BY <3>1 DEF WorkerStep
  <2>2. worker'[w].pc \in {"worked", "broke"} => worker'[w].key \in called'
    <3>1. CASE CallAdapter(w)
      <4>1. PICK to : Goes(w, [worker[w] EXCEPT !.pc = to])
        BY <3>1 DEF CallAdapter
      <4>2. [worker[w] EXCEPT !.pc = to].key = worker[w].key
        BY RecordTyped DEF Records
      <4>3. worker'[w] = [worker[w] EXCEPT !.pc = to]
        BY <1>0, <4>1 DEF Goes, TypeOK
      <4> QED BY <3>1, <4>2, <4>3 DEF CallAdapter
    <3> QED BY <1>2, <3>1, NotFromTheCall
  <2>3. \A m \in Keys : request'[m].status \in {"executed", "verified"} => m \in called'
    <3>1. CASE request' = request
      BY <2>1, <3>1 DEF DoneWasCalled
    <3>2. CASE ExpireStale(w) \/ AbandonInterrupted(w) \/ VerifyExecuted(w)
      <4>1. PICK k \in worker[w].rows :
              \/ \E to \in {"expired", "abandoned", "verified", "failed"} :
                   Transition(w, k, to, Without(w, k))
              \/ request' = request
        BY <3>2 DEF ExpireStale, AbandonInterrupted, VerifyExecuted
      <4>2. k \in Keys /\ called' = called
        BY <3>2, RecordTyped DEF Records, ExpireStale, AbandonInterrupted, VerifyExecuted
      <4>3. {"expired", "abandoned", "verified", "failed"} \subseteq Statuses \ {"executed"}
        BY DEF Statuses
      <4> QED BY <1>1, <3>1, <4>1, <4>2, <4>3
    <3>3. CASE Withdraw(w) \/ Start(w) \/ Record(w)
      <4>1. worker[w].key \in Keys /\ called' = called
        BY <3>3, RecordTyped DEF Withdraw, Start, Record, PlaceSound
      <4>2. PICK to \in {"expired", "executing", "executed", "failed"} :
              /\ \E rec : Transition(w, worker[w].key, to, rec)
              /\ to = "executed" => worker[w].pc = "worked"
        BY <3>3 DEF Withdraw, Start, Record
      <4>3. to \in Statuses /\ (to = "executed" => worker[w].key \in called)
        BY <4>2 DEF Statuses, DoneWasCalled
      <4> QED BY <1>1, <4>1, <4>2, <4>3
    <3>4. CASE Create(w)
      <4>1. PICK k \in Keys : k = worker[w].key
        BY <3>4, RecordTyped DEF Create, PlaceSound
      <4>2. \/ request' = request
            \/ \E to \in {"approved", "awaiting_approval"} :
                 request' = [request EXCEPT ![k].status = to]
        BY <3>4, <4>1 DEF Create
      <4>3. ASSUME NEW to \in {"approved", "awaiting_approval"},
                   request' = [request EXCEPT ![k].status = to]
            PROVE  \A m \in Keys : request'[m].status \in {"executed", "verified"}
                                     => request[m].status = request'[m].status
        BY <1>0, <4>3 DEF TypeOK, Requests
      <4> QED BY <2>1, <3>1, <4>2, <4>3 DEF DoneWasCalled
    <3> QED BY <1>2, <3>1, <3>2, <3>3, <3>4
            DEF Cycle, Crash, StartCycle, NextPhase, RunApproved, Judge, CallAdapter,
                Consider, Ask, Plan, Escalate, Stop
  <2> QED BY <2>1, <2>2, <2>3 DEF DoneWasCalled
<1>3. ASSUME OthersStep PROVE DoneWasCalled'
  <2>1. worker' = worker /\ called' = called
    BY <1>3, OthersQuiet
  <2>2. \A k \in Keys : request'[k].status \in {"executed", "verified"} =>
          request[k].status \in {"executed", "verified"}
    <3>1. ASSUME NEW p \in People, Approve(p), NEW k \in Keys,
                 request'[k].status \in {"executed", "verified"}
          PROVE  request[k].status \in {"executed", "verified"}
      <4>1. PICK m \in Keys : m = desk[p]
        BY <1>0, <3>1 DEF Approve, TypeOK
      <4> QED BY <1>0, <3>1, <4>1 DEF Approve, TypeOK, Requests
    <3>2. ASSUME NEW m \in Keys, RequestAges(m), NEW k \in Keys
          PROVE  request'[k].status = request[k].status
      BY <1>0, <3>2 DEF RequestAges, TypeOK, Requests
    <3> QED BY <1>3, <3>1, <3>2
            DEF OthersStep, AskToApprove, TakeOver, SignalsChange, Resolve, Reopen,
                TimePasses, IncidentAges, SetIncident, vars
  <2> QED BY <2>1, <2>2 DEF DoneWasCalled
<1> QED BY <1>2, <1>3 DEF Next, OthersStep

LEMMA DoneAtStart == Init => DoneWasCalled
BY DEF Init, DoneWasCalled, NoRequest, Idle

\* A request is executed, and so judged and verified, only if its adapter was
\* called.
THEOREM ExecutedWasCalled == Spec => []DoneWasCalled
BY DoneAtStart, DoneKept, RemediationInvariant, PTL DEF Spec

\* Remediation implements OneSlot: whatever workers, people, crashes and the
\* clock do, one repair at a time has the slot, acts once, and is judged and
\* called a repair only after it acted.
THEOREM RemediationKeepsOneSlot == Spec => KeepsOneSlot
<1>1. Init => Slot!Init
  <2> SUFFICES ASSUME Init PROVE Slot!Init
    OBVIOUS
  <2>1. \A k \in Keys : request[k].status = "none"
    BY DEF Init, NoRequest
  <2> QED BY <2>1, StagesNamed DEF Init, Slot!Init
<1>2. IInv /\ DoneWasCalled /\ [Next]_vars => [Slot!Next]_SlotVars
  <2> SUFFICES ASSUME IInv, DoneWasCalled, [Next]_vars
               PROVE  Slot!Next \/ UNCHANGED SlotVars
    OBVIOUS
  <2>1. CASE \E w \in Workers : Cycle(w) \/ Crash(w)
    BY <2>1, CycleSlot
  <2>2. CASE OthersStep
    BY <2>2, OthersSlot
  <2> QED BY <2>1, <2>2 DEF Next, OthersStep
<1> QED BY <1>1, <1>2, RemediationInvariant, ExecutedWasCalled, PTL
        DEF Spec, KeepsOneSlot, Slot!Spec, SlotVars
=============================================================================
