------------------------------ MODULE Dispatch ------------------------------
(***************************************************************************)
(* A call and the units assigned to it (backend/emergency/                 *)
(* dispatch_service.py on backend/repositories/emergency.py).  Call and    *)
(* assignment have a state machine each; every transition locks its row,   *)
(* checks and commits.  A request of a dispatcher is several of them, read *)
(* and written one after another, so requests overlap and may stop half    *)
(* way: `refused' and `died' (not in the code) remember the calls for      *)
(* which that happened after the first write of the request.               *)
(*                                                                         *)
(* Units are those that fit the calls; their positions and routes only     *)
(* decide whether an assignment is refused, which may happen to any.       *)
(***************************************************************************)
EXTENDS Naturals, Sequences, FiniteSets

CONSTANTS Calls, Units, Assignments, Requests

VARIABLES call,             \* status of each call
          row,              \* the assignments
          req,              \* the requests being handled
          refused, died
vars == <<call, row, req, refused, died>>

CallOrder == <<"received", "dispatched", "unit_assigned", "en_route",
               "on_scene", "cleared">>

CallTransitions ==
    [s \in {CallOrder[i] : i \in 1..6} \cup {"cancelled"} |->
        CASE s = "received" -> {"dispatched", "cancelled"}
          [] s = "dispatched" -> {"unit_assigned", "cancelled"}
          [] s = "unit_assigned" -> {"en_route", "cancelled"}
          [] s = "en_route" -> {"on_scene", "cancelled"}
          [] s = "on_scene" -> {"cleared"}
          [] OTHER -> {}]

AssignmentTransitions ==
    [s \in {"assigned", "acknowledged", "en_route", "staged", "on_scene",
            "clear", "unavailable"} |->
        CASE s = "assigned" -> {"acknowledged", "unavailable"}
          [] s = "acknowledged" -> {"en_route", "unavailable"}
          [] s = "en_route" -> {"staged", "on_scene", "unavailable"}
          [] s = "staged" -> {"on_scene", "unavailable"}
          [] s = "on_scene" -> {"clear", "unavailable"}
          [] OTHER -> {}]

Closed == {"clear", "unavailable"}
Rank(s) == CHOOSE i \in 1..6 : CallOrder[i] = s

Absent == [status |-> "absent"]
Idle == [pc |-> "idle"]
Rows == {a \in Assignments : row[a] # Absent}
OnCall(c) == {a \in Rows : row[a].call = c}
Handling(c) == {r \in Requests : req[r] # Idle /\ req[r].call = c}

Init ==
    /\ call = [c \in Calls |-> "absent"]
    /\ row = [a \in Assignments |-> Absent]
    /\ req = [r \in Requests |-> Idle]
    /\ refused = {} /\ died = {}

CreateCall(c) ==
    /\ call[c] = "absent"
    /\ call' = [call EXCEPT ![c] = "received"]
    /\ UNCHANGED <<row, req, refused, died>>

\* The one transition of a call the API offers: it may cancel it.
Cancel(c) ==
    /\ call[c] \in DOMAIN CallTransitions /\ "cancelled" \in CallTransitions[call[c]]
    /\ call' = [call EXCEPT ![c] = "cancelled"]
    /\ UNCHANGED <<row, req, refused, died>>
-----------------------------------------------------------------------------
(* assign_unit: reads, an insert, and the call advanced.                   *)

AskAssign(r, c, u) ==
    /\ req[r] = Idle
    /\ call[c] \notin {"absent", "cleared", "cancelled"}
    /\ req' = [req EXCEPT ![r] = [pc |-> "check", call |-> c, unit |-> u]]
    /\ UNCHANGED <<call, row, refused, died>>

CheckUnit(r) ==
    /\ req[r].pc = "check"
    /\ req' = [req EXCEPT ![r] =
                 IF \E a \in OnCall(req[r].call) :
                        row[a].unit = req[r].unit /\ row[a].status \notin Closed
                 THEN Idle ELSE [@ EXCEPT !.pc = "create"]]
    /\ UNCHANGED <<call, row, refused, died>>

CreateAssignment(r) ==
    /\ req[r].pc = "create"
    /\ \E a \in Assignments \ Rows :
          row' = [row EXCEPT ![a] = [call |-> req[r].call, unit |-> req[r].unit,
                                     status |-> "assigned"]]
    /\ req' = [req EXCEPT ![r] = [pc |-> "read", call |-> req[r].call,
                                  target |-> "unit_assigned"]]
    /\ UNCHANGED <<call, refused, died>>
-----------------------------------------------------------------------------
(* advance_assignment: the assignment is moved, then the call.             *)

\* Mutant: a unit that is called off makes the call clear as well.
AfterAny(to, c) ==
    CASE to \in {"en_route", "on_scene"} -> [pc |-> "read", call |-> c, target |-> to]
      [] to \in Closed -> [pc |-> "count", call |-> c]
      [] OTHER -> Idle

After(to, c) ==
    CASE to \in {"en_route", "on_scene"} -> [pc |-> "read", call |-> c, target |-> to]
      [] to = "clear" -> [pc |-> "count", call |-> c]
      [] OTHER -> Idle

Report(r, a, to) ==
    /\ req[r] = Idle
    /\ a \in Rows /\ to \in AssignmentTransitions[row[a].status]
    /\ row' = [row EXCEPT ![a].status = to]
    /\ req' = [req EXCEPT ![r] = After(to, row[a].call)]
    /\ UNCHANGED <<call, refused, died>>

AllClosed(c) == \A a \in OnCall(c) : row[a].status \in Closed

CountClosed(r) ==
    /\ req[r].pc = "count"
    /\ req' = [req EXCEPT ![r] =
                 IF AllClosed(req[r].call)
                 THEN [pc |-> "read", call |-> req[r].call, target |-> "cleared"]
                 ELSE Idle]
    /\ UNCHANGED <<call, row, refused, died>>
-----------------------------------------------------------------------------
(* advance_call_to: the status is read once, the rest is planned from it,  *)
(* and each transition of the plan checks again.                           *)

\* Mutant: the plan ends one status short of the target.
PlanShort(now, target) ==
    IF now = "cancelled" THEN <<>>
    ELSE SubSeq(CallOrder, Rank(now) + 1, Rank(target) - 1)

Plan(now, target) ==
    IF now = "cancelled" THEN <<>>
    ELSE SubSeq(CallOrder, Rank(now) + 1, Rank(target))

\* Mutant: a request with nothing to do stays.
AdvanceReadStays(r) ==
    /\ req[r].pc = "read"
    /\ req' = [req EXCEPT ![r] =
                 [pc |-> "step", call |-> req[r].call,
                  todo |-> Plan(call[req[r].call], req[r].target)]]
    /\ UNCHANGED <<call, row, refused, died>>

AdvanceRead(r) ==
    /\ req[r].pc = "read"
    /\ LET plan == Plan(call[req[r].call], req[r].target)
       IN  req' = [req EXCEPT ![r] =
                     IF plan = <<>> THEN Idle
                     ELSE [pc |-> "step", call |-> req[r].call, todo |-> plan]]
    /\ UNCHANGED <<call, row, refused, died>>

Rest(q) == IF Len(q.todo) = 1 THEN Idle ELSE [q EXCEPT !.todo = Tail(@)]

\* Mutant: transition_call trusts the plan.
MoveCallBlindly(r) ==
    /\ req[r].pc = "step"
    /\ call' = [call EXCEPT ![req[r].call] = Head(req[r].todo)]
    /\ req' = [req EXCEPT ![r] = Rest(@)]
    /\ UNCHANGED <<row, refused, died>>

\* transition_call of the next status.
MoveCall(r) ==
    /\ req[r].pc = "step"
    /\ Head(req[r].todo) \in CallTransitions[call[req[r].call]]
    /\ call' = [call EXCEPT ![req[r].call] = Head(req[r].todo)]
    /\ req' = [req EXCEPT ![r] = Rest(@)]
    /\ UNCHANGED <<row, refused, died>>

\* ... InvalidTransition: the request ends with a 409.
MoveRefused(r) ==
    /\ req[r].pc = "step"
    /\ Head(req[r].todo) \notin CallTransitions[call[req[r].call]]
    /\ req' = [req EXCEPT ![r] = Idle]
    /\ refused' = refused \cup {req[r].call}
    /\ UNCHANGED <<call, row, died>>

\* The process dies, or the request fails: no route, no position.
Dies(r) ==
    /\ req[r] # Idle
    /\ died' = IF req[r].pc \in {"check", "create"} THEN died
               ELSE died \cup {req[r].call}
    /\ req' = [req EXCEPT ![r] = Idle]
    /\ UNCHANGED <<call, row, refused>>
-----------------------------------------------------------------------------
Ask == \/ \E c \in Calls : CreateCall(c) \/ Cancel(c)
       \/ \E r \in Requests, c \in Calls, u \in Units : AskAssign(r, c, u)
       \/ \E r \in Requests, a \in Assignments, to \in DOMAIN AssignmentTransitions :
             Report(r, a, to)

Handle(r) == \/ CheckUnit(r) \/ CreateAssignment(r)
             \/ CountClosed(r) \/ AdvanceRead(r)
             \/ MoveCall(r) \/ MoveRefused(r) \/ Dies(r)

Next == Ask \/ \E r \in Requests : Handle(r)

Spec == Init /\ [][Next]_vars
-----------------------------------------------------------------------------
TypeOK ==
    /\ call \in [Calls -> {"absent"} \cup DOMAIN CallTransitions]
    /\ row \in [Assignments ->
                  {Absent} \cup [call : Calls, unit : Units,
                                 status : DOMAIN AssignmentTransitions]]
    /\ DOMAIN req = Requests
    /\ \A r \in Requests :
          \/ req[r] = Idle
          \/ req[r] \in [pc : {"check", "create"}, call : Calls, unit : Units]
          \/ req[r] \in [pc : {"count"}, call : Calls]
          \/ req[r] \in [pc : {"read"}, call : Calls,
                         target : {CallOrder[i] : i \in 3..6}]
          \/ /\ DOMAIN req[r] = {"pc", "call", "todo"}
             /\ req[r].pc = "step" /\ req[r].call \in Calls
             /\ \E i, j \in 2..6 : i <= j /\ req[r].todo = SubSeq(CallOrder, i, j)
    /\ refused \subseteq Calls /\ died \subseteq Calls

\* However requests overlap, each working from its own plan, a call "never"
\* moves "backwards" (dispatch_service.py:6) and skips no status; a closed
\* one stays closed.
CallMovesForward ==
    [][\A c \in Calls :
          call[c] # "absent" /\ call'[c] # call[c] =>
             /\ call[c] \notin {"cleared", "cancelled"}
             /\ call'[c] = "cancelled" \/ Rank(call'[c]) = Rank(call[c]) + 1]_vars

\* A call is cleared only if a unit did clear it: units that were all called
\* off do not close a call that nobody has attended (dispatch_service.py:245).
ClearedWasAttended ==
    \A c \in Calls : call[c] = "cleared" => \E a \in OnCall(c) : row[a].status = "clear"

Cut(c) == c \in refused \/ c \in died

AllCleared(c) == OnCall(c) # {} /\ \A a \in OnCall(c) : row[a].status = "clear"

\* When no request on it was cut short, a call with no request under way is
\* as far as its furthest unit, whichever of them overtook which, and cleared
\* once all of them are, although each request counts the others at a moment
\* of its own.
InStepUnlessCut ==
    \A c \in Calls :
        ~Cut(c) /\ Handling(c) = {} /\ call[c] # "cancelled" =>
            /\ \A a \in OnCall(c) :
                  Rank(call[c]) >= CASE row[a].status \in {"en_route", "staged"} -> 4
                                     [] row[a].status \in {"on_scene", "clear"} -> 5
                                     [] OTHER -> 3
            /\ AllCleared(c) => call[c] = "cleared"

\* What dispatch_service.py:5-6 says, "the call clears when every assignment
\* has cleared": so it should when no process died.
ClearsWhenAllClear ==
    \A c \in Calls :
        c \notin died /\ Handling(c) = {} /\ AllCleared(c) =>
            call[c] \in {"cleared", "cancelled"}
=============================================================================
