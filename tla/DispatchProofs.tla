--------------------------- MODULE DispatchProofs ---------------------------
(***************************************************************************)
(* Proofs about Dispatch for any number of calls, units, assignments and   *)
(* requests.                                                               *)
(***************************************************************************)
EXTENDS Dispatch, SequenceTheorems, TLAPS

CallStatuses == {"received", "dispatched", "unit_assigned", "en_route",
                 "on_scene", "cleared", "cancelled"}
RowStatuses == {"assigned", "acknowledged", "en_route", "staged", "on_scene",
                "clear", "unavailable"}
-----------------------------------------------------------------------------
\* The two state machines.

LEMMA CallOrderIs ==
    /\ CallOrder \in Seq(CallStatuses) /\ Len(CallOrder) = 6
    /\ CallOrder[1] = "received" /\ CallOrder[2] = "dispatched"
    /\ CallOrder[3] = "unit_assigned" /\ CallOrder[4] = "en_route"
    /\ CallOrder[5] = "on_scene" /\ CallOrder[6] = "cleared"
BY DEF CallOrder, CallStatuses

LEMMA RankIs ==
    /\ Rank("received") = 1 /\ Rank("dispatched") = 2 /\ Rank("unit_assigned") = 3
    /\ Rank("en_route") = 4 /\ Rank("on_scene") = 5 /\ Rank("cleared") = 6
<1>1. \A i \in 1..6 : Rank(CallOrder[i]) = i
  <2> TAKE i \in 1..6
  <2>1. \A j \in 1..6 : CallOrder[j] = CallOrder[i] => j = i
    BY CallOrderIs
  <2> QED BY <2>1 DEF Rank
<1> QED BY <1>1, CallOrderIs

LEMMA CallMachine ==
    /\ DOMAIN CallTransitions = CallStatuses
    /\ CallTransitions["received"] = {"dispatched", "cancelled"}
    /\ CallTransitions["dispatched"] = {"unit_assigned", "cancelled"}
    /\ CallTransitions["unit_assigned"] = {"en_route", "cancelled"}
    /\ CallTransitions["en_route"] = {"on_scene", "cancelled"}
    /\ CallTransitions["on_scene"] = {"cleared"}
    /\ CallTransitions["cleared"] = {} /\ CallTransitions["cancelled"] = {}
<1>1. {CallOrder[i] : i \in 1..6} \cup {"cancelled"} = CallStatuses
  <2>1. \A i \in 1..6 : i = 1 \/ i = 2 \/ i = 3 \/ i = 4 \/ i = 5 \/ i = 6
    OBVIOUS
  <2>2. {CallOrder[i] : i \in 1..6} \subseteq CallStatuses
    BY <2>1, CallOrderIs DEF CallStatuses
  <2>3. CallStatuses \subseteq {CallOrder[i] : i \in 1..6} \cup {"cancelled"}
    <3>1. /\ 1 \in 1..6 /\ 2 \in 1..6 /\ 3 \in 1..6
          /\ 4 \in 1..6 /\ 5 \in 1..6 /\ 6 \in 1..6
      OBVIOUS
    <3> QED BY <3>1, CallOrderIs DEF CallStatuses
  <2> QED BY <2>2, <2>3 DEF CallStatuses
<1>2. DOMAIN CallTransitions = CallStatuses
  BY <1>1 DEF CallTransitions
<1> QED BY <1>1, <1>2 DEF CallTransitions, CallStatuses

LEMMA CallSteps ==
    ASSUME NEW s \in CallStatuses, NEW t \in CallTransitions[s]
    PROVE  /\ t \in CallStatuses
           /\ s \notin {"cleared", "cancelled"}
           /\ t = "cancelled" \/ Rank(t) = Rank(s) + 1
           /\ t = "cleared" => s = "on_scene"
BY CallMachine, RankIs DEF CallStatuses

LEMMA RowMachine ==
    /\ DOMAIN AssignmentTransitions = RowStatuses
    /\ AssignmentTransitions["clear"] = {}
    /\ \A s \in RowStatuses : AssignmentTransitions[s] \subseteq RowStatuses
BY DEF AssignmentTransitions, RowStatuses
-----------------------------------------------------------------------------
\* The invariant.

Attended(c) == \E a \in OnCall(c) : row[a].status = "clear"

Typed(q) ==
    \/ q = Idle
    \/ q \in [pc : {"check", "create"}, call : Calls, unit : Units]
    \/ q \in [pc : {"count"}, call : Calls]
    \/ q \in [pc : {"read"}, call : Calls, target : {CallOrder[i] : i \in 3..6}]
    \/ /\ DOMAIN q = {"pc", "call", "todo"}
       /\ q.pc = "step" /\ q.call \in Calls
       /\ \E i, j \in 2..6 : i <= j /\ q.todo = SubSeq(CallOrder, i, j)

\* A request is about a call that exists, and one that may clear it has seen
\* a unit clear it.
Grounded(q) ==
    /\ call[q.call] # "absent"
    /\ q.pc = "count" => Attended(q.call)
    /\ q.pc = "read" => (q.target = "cleared" => Attended(q.call))
    /\ q.pc = "step" =>
          \E i, j \in 2..6 : /\ i <= j /\ q.todo = SubSeq(CallOrder, i, j)
                             /\ j = 6 => Attended(q.call)

RequestsGrounded == \A r \in Requests : req[r] # Idle => Grounded(req[r])

\* An assignment is to a call that exists.
RowsGrounded == \A a \in Rows : call[row[a].call] # "absent"

RowsTyped == row \in [Assignments -> {Absent} \cup
                        [call : Calls, unit : Units, status : RowStatuses]]

IInv ==
    /\ TypeOK
    /\ RequestsGrounded
    /\ RowsGrounded
    /\ ClearedWasAttended

LEMMA Types ==
    /\ TypeOK <=> /\ call \in [Calls -> {"absent"} \cup CallStatuses]
                  /\ RowsTyped
                  /\ DOMAIN req = Requests /\ \A r \in Requests : Typed(req[r])
                  /\ refused \subseteq Calls /\ died \subseteq Calls
BY CallMachine, RowMachine DEF TypeOK, RowsTyped, Typed
-----------------------------------------------------------------------------
\* What the steps have in common.

\* Rows stay, on their call, and what is clear stays clear.
RowsGrow ==
    \A a \in Rows : /\ a \in Rows' /\ row'[a].call = row[a].call
                    /\ row[a].status = "clear" => row'[a].status = "clear"

CallsStay ==
    \A c \in Calls : call[c] # "absent" => call'[c] # "absent"

LEMMA AttendedStays ==
    ASSUME RowsGrow, NEW c, Attended(c)
    PROVE  Attended(c)'
BY DEF RowsGrow, Attended, OnCall

LEMMA GroundedStays ==
    ASSUME RowsGrow, CallsStay, NEW q, q.call \in Calls, Grounded(q)
    PROVE  Grounded(q)'
<1>1. Attended(q.call) => Attended(q.call)'
  BY AttendedStays
<1> QED BY <1>1 DEF Grounded, CallsStay

LEMMA TypedHasCall ==
    ASSUME NEW q, Typed(q), q # Idle
    PROVE  q.call \in Calls
BY DEF Typed

\* A request goes on as q, or ends.
LEMMA RequestGoesOn ==
    ASSUME IInv, RowsGrow, CallsStay, NEW r \in Requests, NEW q,
           req' = [req EXCEPT ![r] = q], q # Idle => Grounded(q)'
    PROVE  RequestsGrounded'
<1> SUFFICES ASSUME NEW s \in Requests, req'[s] # Idle
             PROVE  Grounded(req[s])'
  BY DEF RequestsGrounded
<1>1. PICK k : k = req'[s]
  OBVIOUS
<1>2. Grounded(k)'
  <2>1. CASE s = r
    <3>1. k = q
      BY <1>1, <2>1, Types DEF IInv
    <3> QED BY <1>1, <3>1
  <2>2. CASE s # r
    <3>1. k = req[s]
      BY <1>1, <2>2, Types
    <3>2. Grounded(k) /\ k.call \in Calls
      BY <1>1, <3>1, Types, TypedHasCall DEF IInv, RequestsGrounded
    <3> QED BY <3>2, GroundedStays
  <2> QED BY <2>1, <2>2
<1> QED BY <1>1, <1>2

LEMMA TypesAfter ==
    ASSUME call' \in [Calls -> {"absent"} \cup CallStatuses], RowsTyped',
           DOMAIN req' = Requests, \A s \in Requests : Typed(req'[s]),
           refused' \subseteq Calls, died' \subseteq Calls
    PROVE  TypeOK'
BY CallMachine, RowMachine DEF TypeOK, RowsTyped, Typed

LEMMA RequestTyped ==
    ASSUME IInv, NEW r \in Requests, NEW q, req' = [req EXCEPT ![r] = q], Typed(q)
    PROVE  DOMAIN req' = Requests /\ \A s \in Requests : Typed(req'[s])
BY Types DEF IInv

LEMMA RowsUnchanged ==
    ASSUME row' = row
    PROVE  RowsGrow
BY DEF RowsGrow, Rows

LEMMA RowTyped ==
    ASSUME IInv, NEW a \in Rows
    PROVE  row[a] \in [call : Calls, unit : Units, status : RowStatuses]
BY Types DEF IInv, RowsTyped, Rows

LEMMA RowsStayGrounded ==
    ASSUME IInv, row' = row, CallsStay
    PROVE  RowsGrounded'
BY RowTyped DEF IInv, RowsGrounded, CallsStay, Rows

\* A step that moves no call to cleared keeps what is said of cleared ones.
LEMMA ClearedStays ==
    ASSUME IInv, RowsGrow,
           \A c \in Calls : call'[c] = "cleared" => call[c] = "cleared" \/ Attended(c)
    PROVE  ClearedWasAttended'
<1> SUFFICES ASSUME NEW c \in Calls, call'[c] = "cleared"
             PROVE  Attended(c)'
  BY DEF ClearedWasAttended, Attended
<1>1. Attended(c)
  BY DEF IInv, ClearedWasAttended, Attended
<1> QED BY <1>1, AttendedStays

\* A step of request r that leaves the calls and the assignments alone.
LEMMA RequestStep ==
    ASSUME IInv, NEW r \in Requests, NEW q, req' = [req EXCEPT ![r] = q],
           UNCHANGED <<call, row>>, refused' \subseteq Calls, died' \subseteq Calls,
           Typed(q), q # Idle => Grounded(q)
    PROVE  IInv'
<1>1. RowsGrow /\ CallsStay
  BY RowsUnchanged DEF CallsStay
<1>2. q # Idle => Grounded(q)'
  BY <1>1, GroundedStays, TypedHasCall
<1>3. RequestsGrounded'
  BY <1>1, <1>2, RequestGoesOn
<1>4. TypeOK'
  <2>1. /\ call' \in [Calls -> {"absent"} \cup CallStatuses] /\ RowsTyped'
        /\ DOMAIN req' = Requests /\ \A s \in Requests : Typed(req'[s])
    BY Types, RequestTyped DEF IInv, RowsTyped
  <2> QED BY <2>1, TypesAfter
<1>5. RowsGrounded' /\ ClearedWasAttended'
  BY <1>1, ClearedStays, RowsStayGrounded
<1> QED BY <1>3, <1>4, <1>5 DEF IInv

LEMMA CreateCallStep ==
    ASSUME IInv, NEW c \in Calls, CreateCall(c)
    PROVE  IInv'
<1>1. RowsGrow /\ CallsStay
  BY RowsUnchanged, Types DEF CreateCall, CallsStay
<1>2. RequestsGrounded'
  <2> SUFFICES ASSUME NEW s \in Requests, req[s] # Idle
               PROVE  Grounded(req[s])'
    BY DEF RequestsGrounded, CreateCall
  <2>1. PICK k : k = req[s]
    OBVIOUS
  <2>2. Grounded(k)'
    BY <1>1, <2>1, GroundedStays, TypedHasCall, Types DEF IInv, RequestsGrounded
  <2>3. req' = req
    BY DEF CreateCall
  <2> QED BY <2>1, <2>2, <2>3
<1>3. TypeOK'
  <2>1. call' \in [Calls -> {"absent"} \cup CallStatuses]
    BY Types DEF IInv, CreateCall, CallStatuses
  <2>2. RowsTyped'
    BY Types DEF IInv, CreateCall, RowsTyped
  <2> QED BY <2>1, <2>2, Types, TypesAfter DEF IInv, CreateCall
<1>4. ClearedWasAttended'
  BY <1>1, ClearedStays, Types DEF CreateCall
<1>5. RowsGrounded'
  BY <1>1, RowsStayGrounded DEF CreateCall
<1> QED BY <1>2, <1>3, <1>4, <1>5 DEF IInv

LEMMA CancelStep ==
    ASSUME IInv, NEW c \in Calls, Cancel(c)
    PROVE  IInv'
<1>1. RowsGrow /\ CallsStay
  BY RowsUnchanged, Types DEF Cancel, CallsStay
<1>2. RequestsGrounded'
  <2> SUFFICES ASSUME NEW s \in Requests, req[s] # Idle
               PROVE  Grounded(req[s])'
    BY DEF RequestsGrounded, Cancel
  <2>1. PICK k : k = req[s]
    OBVIOUS
  <2>2. Grounded(k)'
    BY <1>1, <2>1, GroundedStays, TypedHasCall, Types DEF IInv, RequestsGrounded
  <2>3. req' = req
    BY DEF Cancel
  <2> QED BY <2>1, <2>2, <2>3
<1>3. TypeOK'
  <2>1. call' \in [Calls -> {"absent"} \cup CallStatuses]
    BY Types DEF IInv, Cancel, CallStatuses
  <2>2. RowsTyped'
    BY Types DEF IInv, Cancel, RowsTyped
  <2> QED BY <2>1, <2>2, Types, TypesAfter DEF IInv, Cancel
<1>4. ClearedWasAttended'
  BY <1>1, ClearedStays, Types DEF Cancel
<1>5. RowsGrounded'
  BY <1>1, RowsStayGrounded DEF Cancel
<1> QED BY <1>2, <1>3, <1>4, <1>5 DEF IInv

LEMMA AskAssignStep ==
    ASSUME IInv, NEW r \in Requests, NEW c \in Calls, NEW u \in Units,
           AskAssign(r, c, u)
    PROVE  IInv'
<1> DEFINE q == [pc |-> "check", call |-> c, unit |-> u]
<1>1. Typed(q) /\ Grounded(q)
  BY DEF Typed, Grounded, AskAssign
<1>2. req' = [req EXCEPT ![r] = q] /\ UNCHANGED <<call, row, refused, died>>
  BY DEF AskAssign
<1> QED BY <1>1, <1>2, RequestStep, Types DEF IInv

LEMMA CheckUnitStep ==
    ASSUME IInv, NEW r \in Requests, CheckUnit(r)
    PROVE  IInv'
<1>1. req[r] \in [pc : {"check"}, call : Calls, unit : Units] /\ Grounded(req[r])
  BY Types DEF IInv, RequestsGrounded, Typed, CheckUnit, Idle
<1>2. PICK q : /\ q = Idle \/ q = [req[r] EXCEPT !.pc = "create"]
               /\ req' = [req EXCEPT ![r] = q]
  BY DEF CheckUnit
<1>3. Typed(q) /\ (q # Idle => Grounded(q))
  BY <1>1, <1>2 DEF Typed, Grounded
<1> QED BY <1>2, <1>3, RequestStep, Types DEF IInv, CheckUnit

LEMMA CountClosedStep ==
    ASSUME IInv, NEW r \in Requests, CountClosed(r)
    PROVE  IInv'
<1>1. req[r].call \in Calls /\ Grounded(req[r]) /\ Attended(req[r].call)
  BY Types, TypedHasCall DEF IInv, RequestsGrounded, Grounded, CountClosed, Idle
<1>2. PICK q : /\ q = Idle \/ q = [pc |-> "read", call |-> req[r].call,
                                  target |-> "cleared"]
               /\ req' = [req EXCEPT ![r] = q]
  BY DEF CountClosed
<1>3. Typed(q) /\ (q # Idle => Grounded(q))
  BY <1>1, <1>2, CallOrderIs DEF Typed, Grounded
<1> QED BY <1>2, <1>3, RequestStep, Types DEF IInv, CountClosed

LEMMA CreateAssignmentStep ==
    ASSUME IInv, NEW r \in Requests, CreateAssignment(r)
    PROVE  IInv'
<1> DEFINE q == [pc |-> "read", call |-> req[r].call, target |-> "unit_assigned"]
<1>1. req[r] \in [pc : {"create"}, call : Calls, unit : Units] /\ Grounded(req[r])
  BY Types DEF IInv, RequestsGrounded, Typed, CreateAssignment, Idle
<1>2. PICK a \in Assignments \ Rows :
        row' = [row EXCEPT ![a] = [call |-> req[r].call, unit |-> req[r].unit,
                                   status |-> "assigned"]]
  BY DEF CreateAssignment
<1>3. req' = [req EXCEPT ![r] = q] /\ UNCHANGED <<call, refused, died>>
  BY DEF CreateAssignment
<1>4. RowsTyped'
  BY <1>1, <1>2, Types DEF IInv, RowsTyped, RowStatuses
<1>5. RowsGrow /\ CallsStay
  BY <1>2, <1>3, Types DEF RowsGrow, Rows, CallsStay
<1>6. Typed(q) /\ Grounded(q)'
  BY <1>1, <1>3, CallOrderIs DEF Typed, Grounded
<1>7. PICK k : k = q
  OBVIOUS
<1>8. RequestsGrounded'
  BY <1>3, <1>5, <1>6, <1>7, RequestGoesOn DEF Grounded
<1>9. TypeOK'
  BY <1>3, <1>4, <1>6, <1>7, RequestTyped, Types, TypesAfter DEF IInv
<1>10. RowsGrounded'
  BY <1>1, <1>2, <1>3, Types DEF IInv, RowsGrounded, Rows, Grounded
<1>11. ClearedWasAttended'
  BY <1>3, <1>5, ClearedStays
<1> QED BY <1>8, <1>9, <1>10, <1>11 DEF IInv

LEMMA ReportStep ==
    ASSUME IInv, NEW r \in Requests, NEW a \in Assignments,
           NEW to \in DOMAIN AssignmentTransitions, Report(r, a, to)
    PROVE  IInv'
<1>0. PICK c : c = row[a].call
  OBVIOUS
<1>1. /\ row[a] \in [call : Calls, unit : Units, status : RowStatuses]
      /\ a \in Rows /\ to \in AssignmentTransitions[row[a].status] /\ to \in RowStatuses
  BY RowTyped, RowMachine DEF Report
<1>2. row[a].status # "clear"
  BY <1>1, RowMachine
<1>3. row' = [row EXCEPT ![a].status = to] /\ UNCHANGED <<call, refused, died>>
  BY DEF Report
<1>4. RowsTyped'
  BY <1>1, <1>3, Types DEF IInv, RowsTyped
<1>5. RowsGrow /\ CallsStay
  <2>1. row'[a] = [row[a] EXCEPT !.status = to] /\ row'[a] # Absent
    BY <1>1, <1>3, Types DEF IInv, RowsTyped, Absent
  <2>2. \A b \in Assignments \ {a} : row'[b] = row[b]
    BY <1>3, Types
  <2> QED BY <1>1, <1>2, <1>3, <2>1, <2>2 DEF RowsGrow, Rows, CallsStay
<1>6. PICK q : q = After(to, c) /\ req' = [req EXCEPT ![r] = q]
  BY <1>0 DEF Report
<1>7. Typed(q)
  BY <1>0, <1>1, <1>6, CallOrderIs DEF Typed, After
<1>8. q # Idle => Grounded(q)'
  <2> SUFFICES ASSUME q # Idle PROVE Grounded(q)'
    OBVIOUS
  <2>1. call'[c] # "absent"
    BY <1>0, <1>1, <1>3 DEF IInv, RowsGrounded
  <2>2. CASE to = "clear"
    <3>1. a \in Rows' /\ row'[a].call = c /\ row'[a].status = "clear"
      BY <1>0, <1>1, <1>3, <1>5, <2>2, Types DEF IInv, RowsTyped, RowsGrow
    <3>2. Attended(c)'
      BY <3>1 DEF Attended, OnCall
    <3> QED BY <1>6, <2>1, <2>2, <3>2 DEF Grounded, After
  <2>3. CASE to # "clear"
    BY <1>6, <2>1, <2>3 DEF Grounded, After
  <2> QED BY <2>2, <2>3
<1>9. RequestsGrounded'
  BY <1>5, <1>6, <1>8, RequestGoesOn
<1>10. TypeOK'
  BY <1>3, <1>4, <1>6, <1>7, RequestTyped, Types, TypesAfter DEF IInv
<1>11. RowsGrounded'
  BY <1>1, <1>3, Types DEF IInv, RowsGrounded, Rows
<1>12. ClearedWasAttended'
  BY <1>3, <1>5, ClearedStays
<1> QED BY <1>9, <1>10, <1>11, <1>12 DEF IInv

LEMMA AdvanceReadStep ==
    ASSUME IInv, NEW r \in Requests, AdvanceRead(r)
    PROVE  IInv'
<1> DEFINE now == call[req[r].call]
           target == req[r].target
<1>1. /\ req[r].call \in Calls /\ target \in {CallOrder[i] : i \in 3..6}
      /\ Grounded(req[r])
      /\ target = "cleared" => Attended(req[r].call)
  BY Types DEF IInv, RequestsGrounded, Grounded, Typed, AdvanceRead, Idle
<1>2. now \in CallStatuses
  BY <1>1, Types DEF IInv, Grounded
<1>3. Rank(target) \in 3..6 /\ (Rank(target) = 6 => target = "cleared")
  <2>1. target \in {"unit_assigned", "en_route", "on_scene", "cleared"}
    <3>1. \A i \in 3..6 : i = 3 \/ i = 4 \/ i = 5 \/ i = 6
      OBVIOUS
    <3> QED BY <1>1, <3>1, CallOrderIs
  <2> QED BY <2>1, RankIs
<1>4. now # "cancelled" => Rank(now) \in 1..6
  BY <1>2, RankIs DEF CallStatuses
<1>5. PICK q : /\ q = IF Plan(now, target) = <<>> THEN Idle
                     ELSE [pc |-> "step", call |-> req[r].call,
                           todo |-> Plan(now, target)]
               /\ req' = [req EXCEPT ![r] = q]
               /\ UNCHANGED <<call, row, refused, died>>
  BY DEF AdvanceRead
<1> HIDE DEF now, target
<1>6. CASE q = Idle
  BY <1>5, <1>6, RequestStep, Types DEF IInv, Typed
<1>7. CASE q # Idle
  <2>1. /\ now # "cancelled"
        /\ q = [pc |-> "step", call |-> req[r].call,
                todo |-> SubSeq(CallOrder, Rank(now) + 1, Rank(target))]
        /\ SubSeq(CallOrder, Rank(now) + 1, Rank(target)) # <<>>
    BY <1>5, <1>7 DEF Plan
  <2>2. Rank(now) + 1 <= Rank(target)
    BY <1>3, <1>4, <2>1, SubSeqEmpty
  <2>3. PICK i \in 2..6, j \in 2..6 : i = Rank(now) + 1 /\ j = Rank(target)
    BY <1>3, <1>4, <2>1, <2>2
  <2>4. i <= j /\ q.todo = SubSeq(CallOrder, i, j) /\ (j = 6 => Attended(q.call))
    BY <1>1, <1>3, <2>1, <2>2, <2>3
  <2>5. DOMAIN q = {"pc", "call", "todo"} /\ q.pc = "step" /\ q.call = req[r].call
    BY <2>1
  <2>6. Typed(q) /\ Grounded(q)
    BY <1>1, <2>4, <2>5 DEF Typed, Grounded
  <2> QED BY <1>5, <2>6, RequestStep, Types DEF IInv
<1> QED BY <1>6, <1>7

LEMMA StepTodo ==
    ASSUME IInv, NEW r \in Requests, req[r].pc = "step"
    PROVE  /\ req[r].call \in Calls /\ Grounded(req[r])
           /\ DOMAIN req[r] = {"pc", "call", "todo"}
           /\ \E i, j \in 2..6 :
                 /\ i <= j
                 /\ req[r].todo = SubSeq(CallOrder, i, j)
                 /\ j = 6 => Attended(req[r].call)
                 /\ Head(req[r].todo) = CallOrder[i]
                 /\ Len(req[r].todo) = j - i + 1
                 /\ Tail(req[r].todo) = SubSeq(CallOrder, i + 1, j)
<1>1. /\ req[r].call \in Calls /\ Grounded(req[r])
      /\ DOMAIN req[r] = {"pc", "call", "todo"}
  BY Types DEF IInv, RequestsGrounded, Typed, Idle
<1>2. PICK i, j \in 2..6 : /\ i <= j /\ req[r].todo = SubSeq(CallOrder, i, j)
                           /\ j = 6 => Attended(req[r].call)
  BY <1>1 DEF Grounded
<1>3. /\ Head(req[r].todo) = CallOrder[i]
      /\ Tail(req[r].todo) = SubSeq(CallOrder, i + 1, j)
  BY <1>2, CallOrderIs, HeadTailOfSubSeq
<1>4. Len(req[r].todo) = j - i + 1
  BY <1>2, CallOrderIs, SubSeqProperties
<1> QED BY <1>1, <1>2, <1>3, <1>4

LEMMA MoveCallStep ==
    ASSUME IInv, NEW r \in Requests, MoveCall(r)
    PROVE  IInv'
<1>1. PICK c \in Calls : c = req[r].call
  BY StepTodo DEF MoveCall
<1>2. PICK i \in 2..6, j \in 2..6 :
        /\ i <= j
        /\ j = 6 => Attended(c)
        /\ Head(req[r].todo) = CallOrder[i]
        /\ Len(req[r].todo) = j - i + 1
        /\ Tail(req[r].todo) = SubSeq(CallOrder, i + 1, j)
  BY <1>1, StepTodo DEF MoveCall
<1>3. /\ call[c] \in CallStatuses
      /\ CallOrder[i] \in CallTransitions[call[c]]
      /\ CallOrder[i] \in CallStatuses
  BY <1>1, <1>2, StepTodo, CallSteps, Types DEF IInv, MoveCall, Grounded
<1>4. call' = [call EXCEPT ![c] = CallOrder[i]] /\ UNCHANGED <<row, refused, died>>
  BY <1>1, <1>2 DEF MoveCall
<1>5. RowsGrow /\ CallsStay
  BY <1>3, <1>4, RowsUnchanged, Types DEF CallsStay, CallStatuses
<1>6. PICK q : /\ q = Rest(req[r]) /\ req' = [req EXCEPT ![r] = q]
  BY DEF MoveCall
<1>7. Typed(q) /\ (q # Idle => Grounded(q)')
  <2>1. CASE i = j
    BY <1>2, <1>6, <2>1 DEF Rest, Typed
  <2>2. CASE i # j
    <3>1. q = [req[r] EXCEPT !.todo = Tail(req[r].todo)]
      BY <1>2, <1>6, <2>2 DEF Rest
    <3>2. /\ DOMAIN q = {"pc", "call", "todo"} /\ q.pc = "step" /\ q.call = c
          /\ q.todo = SubSeq(CallOrder, i + 1, j)
      BY <1>1, <1>2, <3>1, StepTodo DEF MoveCall
    <3>3. i + 1 \in 2..6 /\ i + 1 <= j
      BY <1>2, <2>2
    <3>4. Typed(q)
      BY <3>2, <3>3 DEF Typed
    <3>5. Grounded(q)
      BY <1>2, <1>3, <3>2, <3>3 DEF Grounded, CallStatuses
    <3> QED BY <1>5, <3>2, <3>4, <3>5, GroundedStays
  <2> QED BY <2>1, <2>2
<1>8. RequestsGrounded'
  BY <1>5, <1>6, <1>7, RequestGoesOn
<1>9. TypeOK'
  <2>1. call' \in [Calls -> {"absent"} \cup CallStatuses]
    BY <1>3, <1>4, Types DEF IInv
  <2>2. RowsTyped'
    BY <1>4, Types DEF IInv, RowsTyped
  <2> QED BY <1>4, <1>6, <1>7, <2>1, <2>2, RequestTyped, Types, TypesAfter DEF IInv
<1>10. RowsGrounded'
  BY <1>4, <1>5, RowsStayGrounded
<1>11. ClearedWasAttended'
  <2>1. CallOrder[i] = "cleared" => i = 6
    BY CallOrderIs
  <2>2. CallOrder[i] = "cleared" => Attended(c)
    BY <1>2, <2>1
  <2> QED BY <1>4, <1>5, <2>2, ClearedStays, Types
<1> QED BY <1>8, <1>9, <1>10, <1>11 DEF IInv

LEMMA MoveRefusedStep ==
    ASSUME IInv, NEW r \in Requests, MoveRefused(r)
    PROVE  IInv'
<1>1. req[r].call \in Calls
  BY StepTodo DEF MoveRefused
<1>2. /\ req' = [req EXCEPT ![r] = Idle] /\ UNCHANGED <<call, row>>
      /\ refused' \subseteq Calls /\ died' \subseteq Calls
  BY <1>1, Types DEF IInv, MoveRefused
<1>3. Typed(Idle)
  BY DEF Typed
<1> QED BY <1>2, <1>3, RequestStep

LEMMA DiesStep ==
    ASSUME IInv, NEW r \in Requests, Dies(r)
    PROVE  IInv'
<1>1. req[r].call \in Calls
  BY Types, TypedHasCall DEF IInv, Dies
<1>2. /\ req' = [req EXCEPT ![r] = Idle] /\ UNCHANGED <<call, row>>
      /\ refused' \subseteq Calls /\ died' \subseteq Calls
  BY <1>1, Types DEF IInv, Dies
<1>3. Typed(Idle)
  BY DEF Typed
<1> QED BY <1>2, <1>3, RequestStep

LEMMA InitHolds == ASSUME Init PROVE IInv
<1>1. TypeOK
  BY Types DEF Init, RowsTyped, Typed
<1>2. Rows = {}
  BY DEF Init, Rows
<1> QED BY <1>1, <1>2 DEF Init, IInv, RequestsGrounded, RowsGrounded, ClearedWasAttended

LEMMA StutterStep ==
    ASSUME IInv, UNCHANGED vars
    PROVE  IInv'
<1>1. UNCHANGED <<call, row, req, refused, died>>
  BY DEF vars
<1>2. RowsGrow /\ CallsStay
  BY <1>1, RowsUnchanged DEF CallsStay
<1>3. RequestsGrounded'
  <2> SUFFICES ASSUME NEW s \in Requests, req[s] # Idle
               PROVE  Grounded(req[s])'
    BY <1>1 DEF RequestsGrounded
  <2>1. PICK k : k = req[s]
    OBVIOUS
  <2>2. Grounded(k)'
    BY <1>2, <2>1, GroundedStays, TypedHasCall, Types DEF IInv, RequestsGrounded
  <2> QED BY <1>1, <2>1, <2>2
<1>4. TypeOK'
  BY <1>1, Types, TypesAfter DEF IInv, RowsTyped
<1>5. RowsGrounded' /\ ClearedWasAttended'
  BY <1>1, <1>2, RowsStayGrounded, ClearedStays
<1> QED BY <1>3, <1>4, <1>5 DEF IInv

LEMMA NextHolds ==
    ASSUME IInv, [Next]_vars
    PROVE  IInv'
<1>1. CASE Ask
  BY <1>1, CreateCallStep, CancelStep, AskAssignStep, ReportStep DEF Ask
<1>2. ASSUME NEW r \in Requests, Handle(r)
      PROVE  IInv'
  BY <1>2, CheckUnitStep, CreateAssignmentStep, CountClosedStep, AdvanceReadStep,
     MoveCallStep, MoveRefusedStep, DiesStep DEF Handle
<1> QED BY <1>1, <1>2, StutterStep DEF Next

\* Calls, assignments and requests fit together in every reachable state, for
\* any overlap of requests (dispatch_service.py on the two state machines of
\* repositories/emergency.py).
THEOREM DispatchInvariant == Spec => []IInv
<1>1. Init => IInv
  BY InitHolds
<1>2. IInv /\ [Next]_vars => IInv'
  BY NextHolds
<1> QED BY <1>1, <1>2, PTL DEF Spec

\* Every variable of Dispatch keeps its type: a request in hand names a real
\* call, and what it still has to do is a piece of the calls' order.
THEOREM DispatchTyped == Spec => []TypeOK
<1>1. IInv => TypeOK
  BY DEF IInv
<1> QED BY <1>1, DispatchInvariant, PTL

\* A call is never cleared before a unit has cleared it.
THEOREM ClearedAttended == Spec => []ClearedWasAttended
<1>1. IInv => ClearedWasAttended
  BY DEF IInv
<1> QED BY <1>1, DispatchInvariant, PTL

LEMMA CallMoves ==
    ASSUME IInv, [Next]_vars, NEW c \in Calls, call[c] # "absent", call'[c] # call[c]
    PROVE  /\ call[c] \notin {"cleared", "cancelled"}
           /\ call'[c] = "cancelled" \/ Rank(call'[c]) = Rank(call[c]) + 1
<1>1. call[c] \in CallStatuses /\ DOMAIN call = Calls
  BY Types DEF IInv
<1>2. ASSUME NEW r \in Requests, MoveCall(r)
      PROVE  call'[c] \in CallTransitions[call[c]]
  BY <1>1, <1>2 DEF MoveCall
<1>3. ASSUME NEW d \in Calls, Cancel(d)
      PROVE  call'[c] \in CallTransitions[call[c]]
  BY <1>1, <1>3 DEF Cancel
<1>4. ASSUME NEW d \in Calls, CreateCall(d)
      PROVE  FALSE
  BY <1>1, <1>4 DEF CreateCall
<1>5. call'[c] \in CallTransitions[call[c]]
  BY <1>2, <1>3, <1>4
     DEF Next, Ask, Handle, vars, AskAssign, Report, CheckUnit, CreateAssignment,
         CountClosed, AdvanceRead, MoveRefused, Dies
<1> QED BY <1>1, <1>5, CallSteps

\* However many requests overlap, each with a plan of its own, no call ever
\* goes back, skips a status or leaves a closed one.
THEOREM CallsMoveForward == Spec => CallMovesForward
<1>1. IInv /\ [Next]_vars =>
        [\A c \in Calls :
          call[c] # "absent" /\ call'[c] # call[c] =>
             /\ call[c] \notin {"cleared", "cancelled"}
             /\ call'[c] = "cancelled" \/ Rank(call'[c]) = Rank(call[c]) + 1]_vars
  BY CallMoves
<1> QED BY <1>1, DispatchInvariant, PTL DEF Spec, CallMovesForward
-----------------------------------------------------------------------------
(* InStepUnlessCut: what a request still owes the call it is about.        *)

Level(s) == IF s \in {"en_route", "staged"} THEN 4
            ELSE IF s \in {"on_scene", "clear"} THEN 5 ELSE 3

\* Request q takes call c to rank n, unless it is cut short.
Owes(q, c, n) ==
    \/ q.pc = "read" /\ q.call = c /\ n <= Rank(q.target)
    \/ /\ q.pc = "step" /\ q.call = c
       /\ \E i, j \in 2..6 : i <= j /\ q.todo = SubSeq(CallOrder, i, j) /\ n <= j

Counts(q, c) == q.pc = "count" /\ q.call = c

Covered(c, n) == Rank(call[c]) >= n \/ \E r \in Requests : Owes(req[r], c, n)

InHand(c) ==
    /\ \A a \in OnCall(c) : Covered(c, Level(row[a].status))
    /\ AllCleared(c) => Covered(c, 6) \/ \E r \in Requests : Counts(req[r], c)

CallsInHand ==
    \A c \in Calls : ~Cut(c) /\ call[c] \notin {"absent", "cancelled"} => InHand(c)

LEMMA RankTyped ==
    /\ \A s \in CallStatuses \ {"cancelled"} :
          Rank(s) \in 1..6 /\ (Rank(s) = 6 => s = "cleared")
    /\ \A i \in 2..6 : Rank(CallOrder[i]) = i
<1>1. \A i \in 2..6 : i = 2 \/ i = 3 \/ i = 4 \/ i = 5 \/ i = 6
  OBVIOUS
<1> QED BY <1>1, RankIs, CallOrderIs DEF CallStatuses

LEMMA LevelTyped ==
    /\ \A s \in RowStatuses : Level(s) \in 3..6
    /\ \A s \in RowStatuses : \A t \in AssignmentTransitions[s] :
          \/ Level(t) <= Level(s)
          \/ t \in {"en_route", "on_scene"} /\ Level(t) = Rank(t)
<1>1. /\ AssignmentTransitions["assigned"] = {"acknowledged", "unavailable"}
      /\ AssignmentTransitions["acknowledged"] = {"en_route", "unavailable"}
      /\ AssignmentTransitions["en_route"] = {"staged", "on_scene", "unavailable"}
      /\ AssignmentTransitions["staged"] = {"on_scene", "unavailable"}
      /\ AssignmentTransitions["on_scene"] = {"clear", "unavailable"}
      /\ AssignmentTransitions["clear"] = {}
      /\ AssignmentTransitions["unavailable"] = {}
  BY DEF AssignmentTransitions
<1>2. /\ Level("assigned") = 3 /\ Level("acknowledged") = 3 /\ Level("unavailable") = 3
      /\ Level("en_route") = 4 /\ Level("staged") = 4
      /\ Level("on_scene") = 5 /\ Level("clear") = 5
  BY DEF Level
<1> QED BY <1>1, <1>2, RankIs DEF RowStatuses

\* Where the request that moves pays what it owed or owes it still, every
\* rank that was covered is.
LEMMA CoveredStays ==
    ASSUME IInv, NEW r \in Requests, NEW c, NEW k, req' = [req EXCEPT ![r] = k],
           Rank(call[c]) \in Nat, Rank(call'[c]) \in Nat, Rank(call'[c]) >= Rank(call[c]),
           NEW n \in Nat, Covered(c, n),
           Owes(req[r], c, n) => Rank(call'[c]) >= n \/ Owes(k, c, n)
    PROVE  Covered(c, n)'
<1>1. CASE Rank(call[c]) >= n
  BY <1>1 DEF Covered
<1>2. ASSUME NEW s \in Requests, Owes(req[s], c, n)
      PROVE  Covered(c, n)'
  <2>1. CASE s = r
    <3>1. req'[r] = k
      BY Types DEF IInv
    <3> QED BY <1>2, <2>1, <3>1 DEF Covered
  <2>2. CASE s # r
    <3>1. req'[s] = req[s]
      BY <2>2, Types DEF IInv
    <3> QED BY <1>2, <3>1 DEF Covered
  <2> QED BY <2>1, <2>2
<1> QED BY <1>1, <1>2 DEF Covered

\* ... and the call stays in hand, if the assignments stay.
LEMMA InHandStays ==
    ASSUME IInv, NEW r \in Requests, NEW c, NEW k, req' = [req EXCEPT ![r] = k],
           row' = row, InHand(c),
           Rank(call[c]) \in Nat, Rank(call'[c]) \in Nat, Rank(call'[c]) >= Rank(call[c]),
           \A n \in 3..6 : Owes(req[r], c, n) => Rank(call'[c]) >= n \/ Owes(k, c, n),
           Counts(req[r], c) /\ AllCleared(c) => Owes(k, c, 6)
    PROVE  InHand(c)'
<1>1. OnCall(c)' = OnCall(c) /\ AllCleared(c)' = AllCleared(c)
  BY DEF OnCall, AllCleared, Rows
<1>2. \A n \in 3..6 : Covered(c, n) => Covered(c, n)'
  <2> SUFFICES ASSUME NEW n \in 3..6, Covered(c, n) PROVE Covered(c, n)'
    OBVIOUS
  <2>1. n \in Nat /\ (Owes(req[r], c, n) => Rank(call'[c]) >= n \/ Owes(k, c, n))
    OBVIOUS
  <2> QED BY <2>1, CoveredStays
<1>3. ASSUME NEW a \in OnCall(c)
      PROVE  Covered(c, Level(row[a].status))'
  <2>1. Level(row[a].status) \in 3..6
    BY LevelTyped, RowTyped DEF OnCall
  <2>2. PICK n \in 3..6 : n = Level(row[a].status)
    BY <2>1
  <2>3. Covered(c, n)'
    BY <1>2, <2>2 DEF InHand
  <2>4. Level(row'[a].status) = n
    BY <2>2
  <2> QED BY <2>3, <2>4
<1>4. ASSUME AllCleared(c)
      PROVE  Covered(c, 6)' \/ \E s \in Requests : Counts(req'[s], c)
  <2>1. CASE Covered(c, 6)
    BY <1>2, <2>1
  <2>2. ASSUME NEW s \in Requests, Counts(req[s], c)
        PROVE  Covered(c, 6)' \/ \E t \in Requests : Counts(req'[t], c)
    <3>1. CASE s = r
      <4>1. Owes(k, c, 6) /\ req'[r] = k
        BY <1>4, <2>2, <3>1, Types DEF IInv
      <4> QED BY <4>1 DEF Covered
    <3>2. CASE s # r
      <4>1. req'[s] = req[s]
        BY <3>2, Types DEF IInv
      <4> QED BY <2>2, <4>1
    <3> QED BY <3>1, <3>2
  <2> QED BY <1>4, <2>1, <2>2 DEF InHand
<1>5. \A a \in OnCall(c)' : Covered(c, Level(row[a].status))'
  BY <1>1, <1>3
<1>6. AllCleared(c)' => Covered(c, 6)' \/ \E s \in Requests : Counts(req'[s], c)
  BY <1>1, <1>4
<1> QED BY <1>5, <1>6 DEF InHand

LEMMA CallRanked ==
    ASSUME IInv, NEW c \in Calls, call[c] \notin {"absent", "cancelled"}
    PROVE  /\ call[c] \in CallStatuses \ {"cancelled"}
           /\ Rank(call[c]) \in 1..6 /\ Rank(call[c]) \in Nat
           /\ Rank(call[c]) >= Rank(call[c])
BY RankTyped, Types DEF IInv

\* A request that owes nothing and counts nothing turns to something else.
LEMMA NothingOwed ==
    ASSUME NEW q, q.pc \notin {"read", "step", "count"}
    PROVE  \A c, n : ~Owes(q, c, n) /\ ~Counts(q, c)
BY DEF Owes, Counts

LEMMA AskOrCheckInHand ==
    ASSUME IInv, NEW r \in Requests, NEW c \in Calls, NEW k,
           call[c] \notin {"absent", "cancelled"}, InHand(c),
           req' = [req EXCEPT ![r] = k], UNCHANGED <<call, row>>,
           req[r].pc \notin {"read", "step", "count"}
    PROVE  InHand(c)'
BY NothingOwed, InHandStays, CallRanked

LEMMA CountInHand ==
    ASSUME IInv, NEW r \in Requests, NEW c \in Calls, CountClosed(r),
           call[c] \notin {"absent", "cancelled"}, InHand(c)
    PROVE  InHand(c)'
<1>1. PICK k : /\ req' = [req EXCEPT ![r] = k] /\ UNCHANGED <<call, row>>
               /\ k = IF AllClosed(req[r].call)
                      THEN [pc |-> "read", call |-> req[r].call, target |-> "cleared"]
                      ELSE Idle
  BY DEF CountClosed
<1>2. \A n : ~Owes(req[r], c, n)
  BY DEF CountClosed, Owes
<1>3. ASSUME Counts(req[r], c), AllCleared(c)
      PROVE  Owes(k, c, 6)
  <2>1. req[r].call = c /\ AllClosed(c)
    BY <1>3 DEF Counts, AllCleared, AllClosed, Closed
  <2>2. k = [pc |-> "read", call |-> c, target |-> "cleared"]
    BY <1>1, <2>1
  <2> QED BY <2>2, RankIs DEF Owes
<1> QED BY <1>1, <1>2, <1>3, InHandStays, CallRanked

LEMMA AdvanceReadInHand ==
    ASSUME IInv, NEW r \in Requests, NEW c \in Calls, AdvanceRead(r),
           call[c] \notin {"absent", "cancelled"}, InHand(c)
    PROVE  InHand(c)'
<1>1. PICK k, plan : /\ req' = [req EXCEPT ![r] = k] /\ UNCHANGED <<call, row>>
                     /\ plan = Plan(call[req[r].call], req[r].target)
                     /\ k = IF plan = <<>> THEN Idle
                            ELSE [pc |-> "step", call |-> req[r].call, todo |-> plan]
  BY DEF AdvanceRead
<1>2. ASSUME NEW n \in 3..6, Owes(req[r], c, n), ~(Rank(call[c]) >= n)
      PROVE  Owes(k, c, n)
  <2>1. req[r].call = c /\ n <= Rank(req[r].target)
    BY <1>2 DEF AdvanceRead, Owes
  <2>2. req[r].target \in {CallOrder[i] : i \in 3..6}
    BY Types DEF IInv, Typed, AdvanceRead, Idle
  <2>3. PICK j \in 3..6 : j = Rank(req[r].target)
    <3>1. PICK i \in 3..6 : req[r].target = CallOrder[i]
      BY <2>2
    <3> QED BY <3>1, RankTyped
  <2>4. PICK now \in 1..6 : now = Rank(call[c])
    BY CallRanked
  <2>5. plan = SubSeq(CallOrder, now + 1, j) /\ n <= j /\ now < n
    <3>1. plan = SubSeq(CallOrder, Rank(call[c]) + 1, Rank(req[r].target))
      BY <1>1, <2>1 DEF Plan
    <3> QED BY <1>2, <2>1, <2>3, <2>4, <3>1
  <2>6. now + 1 \in 2..6 /\ j \in 2..6 /\ now + 1 <= j
    BY <2>5
  <2>7. plan # <<>>
    <3>1. Len(plan) = j - (now + 1) + 1
      BY <2>5, <2>6, CallOrderIs, SubSeqProperties
    <3> QED BY <2>6, <3>1
  <2>8. k = [pc |-> "step", call |-> c, todo |-> SubSeq(CallOrder, now + 1, j)]
    BY <1>1, <2>1, <2>5, <2>7
  <2> QED BY <2>5, <2>6, <2>8 DEF Owes
<1>3. ~Counts(req[r], c)
  BY DEF AdvanceRead, Counts
<1>4. Rank(call[c]) \in Nat /\ Rank(call'[c]) \in Nat /\ Rank(call'[c]) >= Rank(call[c])
  BY <1>1, CallRanked
<1>5. \A n \in 3..6 : Owes(req[r], c, n) => Rank(call'[c]) >= n \/ Owes(k, c, n)
  BY <1>1, <1>2
<1> QED BY <1>1, <1>3, <1>4, <1>5, InHandStays

LEMMA MoveCallInHand ==
    ASSUME IInv, NEW r \in Requests, NEW c \in Calls, MoveCall(r),
           call[c] \notin {"absent", "cancelled"}, call'[c] # "cancelled", InHand(c)
    PROVE  InHand(c)'
<1>1. PICK k : req' = [req EXCEPT ![r] = k] /\ k = Rest(req[r]) /\ row' = row
  BY DEF MoveCall
<1>2. ~Counts(req[r], c)
  BY DEF MoveCall, Counts
<1>3. Rank(call[c]) \in Nat /\ call[c] \in CallStatuses
  BY CallRanked
<1>4. CASE req[r].call # c
  <2>1. call'[c] = call[c]
    BY <1>4, Types DEF IInv, MoveCall
  <2>2. \A n : ~Owes(req[r], c, n)
    BY <1>4 DEF Owes
  <2>3. Rank(call'[c]) \in Nat /\ Rank(call'[c]) >= Rank(call[c])
    BY <2>1, CallRanked
  <2> QED BY <1>1, <1>2, <1>3, <2>2, <2>3, InHandStays
<1>5. CASE req[r].call = c
  <2>1. call'[c] = Head(req[r].todo) /\ call'[c] \in CallTransitions[call[c]]
    BY <1>5, Types DEF IInv, MoveCall
  <2>2. Rank(call'[c]) = Rank(call[c]) + 1
    BY <1>3, <2>1, CallSteps
  <2>3. ASSUME NEW n \in 3..6, Owes(req[r], c, n)
        PROVE  Rank(call'[c]) >= n \/ Owes(k, c, n)
    <3>1. PICK i \in 2..6, j \in 2..6 :
            i <= j /\ req[r].todo = SubSeq(CallOrder, i, j) /\ n <= j
      BY <2>3 DEF MoveCall, Owes
    <3>2. /\ Head(req[r].todo) = CallOrder[i]
          /\ Tail(req[r].todo) = SubSeq(CallOrder, i + 1, j)
          /\ Len(req[r].todo) = j - i + 1
      BY <3>1, CallOrderIs, HeadTailOfSubSeq, SubSeqProperties
    <3>3. CASE i = j
      BY <2>1, <3>1, <3>2, <3>3, RankTyped
    <3>4. CASE i # j
      <4>1. k = [req[r] EXCEPT !.todo = Tail(req[r].todo)]
        BY <1>1, <3>1, <3>2, <3>4 DEF Rest
      <4>2. k.pc = "step" /\ k.call = c /\ k.todo = SubSeq(CallOrder, i + 1, j)
        BY <1>5, <3>2, <4>1, StepTodo DEF MoveCall
      <4>3. i + 1 \in 2..6 /\ i + 1 <= j
        BY <3>1, <3>4
      <4> QED BY <3>1, <4>2, <4>3 DEF Owes
    <3> QED BY <3>3, <3>4
  <2>4. Rank(call'[c]) \in Nat /\ Rank(call'[c]) >= Rank(call[c])
    BY <1>3, <2>2
  <2> QED BY <1>1, <1>2, <1>3, <2>3, <2>4, InHandStays
<1> QED BY <1>4, <1>5

\* A request that ends without paying cuts its call, and no other.
LEMMA EndsInHand ==
    ASSUME IInv, NEW r \in Requests, NEW c \in Calls, MoveRefused(r) \/ Dies(r),
           call[c] \notin {"absent", "cancelled"}, InHand(c), ~Cut(c)'
    PROVE  InHand(c)'
<1>1. req' = [req EXCEPT ![r] = Idle] /\ UNCHANGED <<call, row>>
  BY DEF MoveRefused, Dies
<1>2. req[r].call # c \/ req[r].pc \in {"check", "create"}
  BY DEF MoveRefused, Dies, Cut
<1>3. \A n : ~Owes(req[r], c, n) /\ ~Counts(req[r], c)
  BY <1>2 DEF Owes, Counts
<1> QED BY <1>1, <1>3, InHandStays, CallRanked

LEMMA CreateInHand ==
    ASSUME IInv, NEW r \in Requests, NEW c \in Calls, CreateAssignment(r),
           call[c] \notin {"absent", "cancelled"}, InHand(c)
    PROVE  InHand(c)'
<1>1. PICK k : /\ k = [pc |-> "read", call |-> req[r].call, target |-> "unit_assigned"]
               /\ req' = [req EXCEPT ![r] = k] /\ call' = call
  BY DEF CreateAssignment
<1>2. PICK a \in Assignments \ Rows :
        row' = [row EXCEPT ![a] = [call |-> req[r].call, unit |-> req[r].unit,
                                   status |-> "assigned"]]
  BY DEF CreateAssignment
<1>3. \A n : ~Owes(req[r], c, n) /\ ~Counts(req[r], c)
  BY DEF CreateAssignment, Owes, Counts
<1>4. \A b \in Rows : row'[b] = row[b] /\ b # a
  BY <1>2, Types DEF IInv, RowsTyped, Rows
<1>5. /\ Rows' = Rows \cup {a} /\ row'[a].call = req[r].call
      /\ row'[a].status = "assigned"
  <2>1. row'[a] = [call |-> req[r].call, unit |-> req[r].unit, status |-> "assigned"]
    BY <1>2, Types DEF IInv, RowsTyped
  <2>2. row'[a] # Absent
    BY <2>1 DEF Absent
  <2>3. \A b \in Assignments \ {a} : row'[b] = row[b]
    BY <1>2, Types DEF IInv, RowsTyped
  <2> QED BY <2>1, <2>2, <2>3 DEF Rows
<1>6. \A n \in Nat : Covered(c, n) => Covered(c, n)'
  BY <1>1, <1>3, CoveredStays, CallRanked
<1>7. ASSUME NEW b \in OnCall(c)'
      PROVE  Covered(c, Level(row[b].status))'
  <2>1. CASE b = a
    <3>1. Owes(k, c, 3) /\ req'[r] = k
      <4>1. req[r].call = c
        BY <1>5, <1>7, <2>1 DEF OnCall
      <4> QED BY <1>1, <4>1, RankIs, Types DEF IInv, Owes
    <3>2. Level(row'[b].status) = 3
      BY <1>5, <2>1 DEF Level
    <3> QED BY <3>1, <3>2 DEF Covered
  <2>2. CASE b # a
    <3>1. b \in OnCall(c) /\ row'[b] = row[b]
      BY <1>4, <1>5, <1>7, <2>2 DEF OnCall
    <3>2. PICK n \in 3..6 : n = Level(row[b].status)
      BY <3>1, LevelTyped, RowTyped DEF OnCall
    <3>3. Covered(c, n) /\ n \in Nat
      BY <3>1, <3>2 DEF InHand
    <3>4. Covered(c, n)' /\ Level(row'[b].status) = n
      BY <1>6, <3>1, <3>2, <3>3
    <3> QED BY <3>4
  <2> QED BY <2>1, <2>2
<1>8. ASSUME AllCleared(c)'
      PROVE  Covered(c, 6)' \/ \E s \in Requests : Counts(req'[s], c)
  <2>1. a \notin OnCall(c)'
    BY <1>5, <1>8 DEF AllCleared
  <2>2. OnCall(c)' = OnCall(c)
    BY <1>4, <1>5, <2>1 DEF OnCall
  <2>3. AllCleared(c)
    BY <1>4, <1>8, <2>2 DEF AllCleared, OnCall
  <2>4. ASSUME NEW s \in Requests, Counts(req[s], c)
        PROVE  Counts(req'[s], c)
    <3>1. s # r
      BY <1>3, <2>4
    <3> QED BY <1>1, <2>4, <3>1, Types DEF IInv
  <2> QED BY <1>6, <2>3, <2>4 DEF InHand
<1> QED BY <1>7, <1>8 DEF InHand

LEMMA CoveredBelow ==
    ASSUME IInv, NEW c \in Calls, call[c] \notin {"absent", "cancelled"},
           NEW m \in 3..6, NEW n \in 3..6, m <= n, Covered(c, n)
    PROVE  Covered(c, m)
<1>1. Rank(call[c]) \in Nat
  BY CallRanked
<1>2. ASSUME NEW q, Typed(q), Owes(q, c, n)
      PROVE  Owes(q, c, m)
  <2>1. CASE q.pc = "read"
    <3>1. PICK i \in 3..6 : q.target = CallOrder[i]
      BY <1>2, <2>1 DEF Typed, Idle
    <3>2. Rank(q.target) \in 3..6
      BY <3>1, RankTyped
    <3> QED BY <1>2, <2>1, <3>2 DEF Owes
  <2>2. CASE q.pc = "step"
    <3>1. PICK i \in 2..6, j \in 2..6 : i <= j /\ q.todo = SubSeq(CallOrder, i, j) /\ n <= j
      BY <1>2, <2>2 DEF Owes
    <3>2. m <= j /\ q.call = c
      BY <1>2, <2>2, <3>1 DEF Owes
    <3> QED BY <2>2, <3>1, <3>2 DEF Owes
  <2> QED BY <1>2, <2>1, <2>2 DEF Owes
<1> QED BY <1>1, <1>2, Types DEF IInv, Covered

LEMMA ReportInHand ==
    ASSUME IInv, NEW r \in Requests, NEW c \in Calls, NEW a \in Assignments,
           NEW to \in DOMAIN AssignmentTransitions, Report(r, a, to),
           call[c] \notin {"absent", "cancelled"}, InHand(c)
    PROVE  InHand(c)'
<1>1. PICK d, s, k : /\ d = row[a].call /\ s = row[a].status /\ k = After(to, d)
                     /\ req' = [req EXCEPT ![r] = k] /\ call' = call
  BY DEF Report
<1>2. a \in Rows /\ to \in AssignmentTransitions[s] /\ s \in RowStatuses
  BY <1>1, RowTyped DEF Report
<1>3. /\ row'[a].call = d /\ row'[a].status = to /\ row'[a] # Absent
      /\ \A b \in Assignments \ {a} : row'[b] = row[b]
  <2>1. row[a] \in [call : Calls, unit : Units, status : RowStatuses]
    BY <1>2, RowTyped
  <2>2. row'[a] = [row[a] EXCEPT !.status = to]
    BY Types DEF IInv, RowsTyped, Report
  <2> QED BY <1>1, <2>1, <2>2, Types DEF IInv, RowsTyped, Report, Absent
<1>4. Rows' = Rows /\ OnCall(c)' = OnCall(c) /\ (a \in OnCall(c) <=> d = c)
  BY <1>1, <1>2, <1>3 DEF Rows, OnCall
<1>5. req'[r] = k /\ \A t \in Requests \ {r} : req'[t] = req[t]
  BY <1>1, Types DEF IInv
<1>6. \A n : ~Owes(req[r], c, n) /\ ~Counts(req[r], c)
  BY NothingOwed DEF Report, Idle
<1>7. \A n \in Nat : Covered(c, n) => Covered(c, n)'
  BY <1>1, <1>6, CoveredStays, CallRanked
<1>8. ASSUME NEW b \in OnCall(c)
      PROVE  Covered(c, Level(row[b].status))'
  <2>1. PICK n \in 3..6 : n = Level(row[b].status)
    BY <1>8, LevelTyped, RowTyped DEF OnCall
  <2>2. Covered(c, n)
    BY <2>1 DEF InHand
  <2>3. CASE b # a
    <3>1. Level(row'[b].status) = n
      BY <1>3, <1>8, <2>1, <2>3 DEF OnCall, Rows
    <3>2. n \in Nat
      OBVIOUS
    <3> QED BY <1>7, <2>2, <3>1, <3>2
  <2>4. CASE b = a
    <3>1. to \in RowStatuses /\ Level(row'[b].status) = Level(to) /\ n = Level(s)
      BY <1>1, <1>2, <1>3, <2>1, <2>4, RowMachine
    <3>2. PICK m \in 3..6 : m = Level(to)
      BY <3>1, LevelTyped
    <3>3. CASE m <= n
      <4>1. Covered(c, m) /\ m \in Nat
        BY <2>2, <3>3, CoveredBelow
      <4> QED BY <1>7, <3>1, <3>2, <4>1
    <3>4. CASE ~(m <= n)
      <4>1. to \in {"en_route", "on_scene"} /\ m = Rank(to)
        BY <1>2, <3>1, <3>2, <3>4, LevelTyped
      <4>2. k = [pc |-> "read", call |-> c, target |-> to]
        BY <1>1, <1>4, <1>8, <2>4, <4>1 DEF After
      <4>3. Owes(k, c, m)
        BY <4>1, <4>2 DEF Owes
      <4> QED BY <1>5, <3>1, <3>2, <4>3 DEF Covered
    <3> QED BY <3>3, <3>4
  <2> QED BY <2>3, <2>4
<1>9. ASSUME AllCleared(c)'
      PROVE  Covered(c, 6)' \/ \E t \in Requests : Counts(req'[t], c)
  <2>1. CASE d = c
    <3>1. to = "clear"
      BY <1>3, <1>4, <1>9, <2>1 DEF AllCleared
    <3>2. Counts(k, c)
      BY <1>1, <2>1, <3>1 DEF After, Counts
    <3> QED BY <1>5, <3>2
  <2>2. CASE d # c
    <3>1. AllCleared(c)
      BY <1>3, <1>4, <1>9, <2>2 DEF AllCleared, OnCall, Rows
    <3>2. \A t \in Requests : Counts(req[t], c) => Counts(req'[t], c)
      BY <1>5, <1>6
    <3> QED BY <1>7, <3>1, <3>2 DEF InHand
  <2> QED BY <2>1, <2>2
<1> QED BY <1>4, <1>8, <1>9 DEF InHand

\* Nothing that the call depends on changes.
LEMMA CallUntouched ==
    ASSUME NEW c, UNCHANGED <<row, req>>, call'[c] = call[c], InHand(c)
    PROVE  InHand(c)'
BY DEF InHand, Covered, OnCall, Rows, AllCleared

LEMMA NextInHand ==
    ASSUME IInv, CallsInHand, [Next]_vars
    PROVE  CallsInHand'
<1> SUFFICES ASSUME NEW c \in Calls, ~Cut(c)', call'[c] \notin {"absent", "cancelled"}
             PROVE  InHand(c)'
  BY DEF CallsInHand
<1>1. CASE call[c] = "absent"
  <2>1. UNCHANGED <<row, req>>
    <3>1. \A r \in Requests : MoveCall(r) => call'[c] = call[c]
      <4> SUFFICES ASSUME NEW r \in Requests, MoveCall(r)
                   PROVE  call'[c] = call[c]
        OBVIOUS
      <4>1. req[r].call # c
        BY <1>1, StepTodo DEF MoveCall, Grounded
      <4> QED BY <4>1, StepTodo, Types DEF IInv, MoveCall
    <3>2. call' # call
      BY <1>1
    <3> QED BY <1>1, <3>1, <3>2
           DEF Next, Ask, Handle, CreateCall, Cancel, AskAssign, Report, CheckUnit,
               CreateAssignment, CountClosed, AdvanceRead, MoveRefused, Dies, vars
  <2>2. OnCall(c)' = {}
    BY <1>1, <2>1 DEF IInv, RowsGrounded, OnCall, Rows
  <2> QED BY <2>2 DEF InHand, AllCleared
<1>2. CASE call[c] # "absent"
  <2>1. /\ call[c] \notin {"absent", "cancelled"} /\ ~Cut(c)
    <3>1. ~Cut(c)
      BY DEF Next, Ask, Handle, CreateCall, Cancel, AskAssign, Report, CheckUnit, vars,
             CreateAssignment, CountClosed, AdvanceRead, MoveCall, MoveRefused, Dies, Cut
    <3>2. call[c] # "cancelled"
      BY <1>2, CallMoves
    <3> QED BY <1>2, <3>1, <3>2
  <2>2. InHand(c)
    BY <2>1 DEF CallsInHand
  <2>3. CASE UNCHANGED vars
    BY <2>2, <2>3, CallUntouched DEF vars
  <2>4. ASSUME NEW d \in Calls, CreateCall(d) \/ Cancel(d)
        PROVE  InHand(c)'
    <3>1. call'[c] = call[c] /\ UNCHANGED <<row, req>>
      BY <2>1, <2>4, Types DEF IInv, CreateCall, Cancel
    <3> QED BY <2>2, <3>1, CallUntouched
  <2>5. ASSUME NEW r \in Requests, NEW d \in Calls, NEW u \in Units, AskAssign(r, d, u)
        PROVE  InHand(c)'
    <3>1. PICK k : req' = [req EXCEPT ![r] = k] /\ UNCHANGED <<call, row>>
      BY <2>5 DEF AskAssign
    <3>2. req[r].pc \notin {"read", "step", "count"}
      BY <2>5 DEF AskAssign, Idle
    <3> QED BY <2>1, <2>2, <3>1, <3>2, AskOrCheckInHand
  <2>6. ASSUME NEW r \in Requests, CheckUnit(r)
        PROVE  InHand(c)'
    <3>1. PICK k : req' = [req EXCEPT ![r] = k] /\ UNCHANGED <<call, row>>
      <4> DEFINE k0 == IF \E a \in OnCall(req[r].call) :
                              row[a].unit = req[r].unit /\ row[a].status \notin Closed
                       THEN Idle ELSE [req[r] EXCEPT !.pc = "create"]
      <4>1. req' = [req EXCEPT ![r] = k0] /\ UNCHANGED <<call, row>>
        BY <2>6, Types DEF IInv, CheckUnit
      <4> QED BY <4>1
    <3>2. req[r].pc \notin {"read", "step", "count"}
      BY <2>6 DEF CheckUnit
    <3> QED BY <2>1, <2>2, <3>1, <3>2, AskOrCheckInHand
  <2>7. ASSUME NEW r \in Requests, Handle(r)
        PROVE  InHand(c)'
    BY <2>1, <2>2, <2>6, <2>7, CreateInHand, CountInHand, AdvanceReadInHand,
       MoveCallInHand, EndsInHand DEF Handle
  <2>8. ASSUME NEW r \in Requests, NEW a \in Assignments,
               NEW to \in DOMAIN AssignmentTransitions, Report(r, a, to)
        PROVE  InHand(c)'
    BY <2>1, <2>2, <2>8, ReportInHand
  <2> QED BY <2>3, <2>4, <2>5, <2>7, <2>8 DEF Next, Ask
<1> QED BY <1>1, <1>2

LEMMA InStep ==
    ASSUME IInv, CallsInHand
    PROVE  InStepUnlessCut
<1> SUFFICES ASSUME NEW c \in Calls, ~Cut(c), Handling(c) = {}, call[c] # "cancelled"
             PROVE  /\ \A a \in OnCall(c) :
                         Rank(call[c]) >= CASE row[a].status \in {"en_route", "staged"} -> 4
                                            [] row[a].status \in {"on_scene", "clear"} -> 5
                                            [] OTHER -> 3
                    /\ AllCleared(c) => call[c] = "cleared"
  BY DEF InStepUnlessCut
<1>1. CASE call[c] = "absent"
  <2>1. OnCall(c) = {}
    BY <1>1 DEF IInv, RowsGrounded, OnCall
  <2> QED BY <2>1 DEF AllCleared
<1>2. CASE call[c] # "absent"
  <2>1. \A r \in Requests : \A n : ~Owes(req[r], c, n) /\ ~Counts(req[r], c)
    BY DEF Handling, Owes, Counts, Idle
  <2>2. InHand(c)
    BY <1>2 DEF CallsInHand
  <2>3. \A a \in OnCall(c) : Rank(call[c]) >= Level(row[a].status)
    BY <2>1, <2>2 DEF InHand, Covered
  <2>4. \A s : Level(s) = CASE s \in {"en_route", "staged"} -> 4
                            [] s \in {"on_scene", "clear"} -> 5
                            [] OTHER -> 3
    BY Zenon DEF Level
  <2>5. AllCleared(c) => Rank(call[c]) >= 6
    BY <2>1, <2>2 DEF InHand, Covered
  <2>6. AllCleared(c) => call[c] = "cleared"
    BY <1>2, <2>5, CallRanked, RankTyped
  <2> QED BY <2>3, <2>4, <2>6, Zenon
<1> QED BY <1>1, <1>2

\* However requests overlap, a call on which none was cut short or is still
\* under way is as far as its furthest unit, and cleared with the last of them.
THEOREM InStepWithUnits == Spec => []InStepUnlessCut
<1>1. Init => IInv /\ CallsInHand
  <2>1. Init => CallsInHand
    BY DEF Init, CallsInHand
  <2> QED BY <2>1, InitHolds
<1>2. (IInv /\ CallsInHand) /\ [Next]_vars => (IInv /\ CallsInHand)'
  BY NextHolds, NextInHand
<1>3. IInv /\ CallsInHand => InStepUnlessCut
  BY InStep
<1> QED BY <1>1, <1>2, <1>3, PTL DEF Spec
=============================================================================
