------------------------------ MODULE OneSlot ------------------------------
(***************************************************************************)
(* What the platform promises of the repairs it makes to itself, whatever  *)
(* its workers, people and crashes do: one repair at a time has the slot,  *)
(* none acts twice, or while it waits or was withdrawn, none is judged or  *)
(* called a repair that did not act, and none that is closed comes back.   *)
(***************************************************************************)
CONSTANT Repairs

VARIABLES stage,       \* how far each repair has come
          acted        \* the repairs that have acted on the platform

Init == stage = [r \in Repairs |-> "none"] /\ acted = {}

\* Who has the slot.
Holders == {r \in Repairs : stage[r] \in {"granted", "running", "judged"}}

Move(r, from, to) ==
    /\ stage[r] \in from
    /\ stage' = [stage EXCEPT ![r] = to]
    /\ UNCHANGED acted

Wait(r) == Move(r, {"none"}, "waiting")
Grant(r) == Holders = {} /\ Move(r, {"none", "waiting"}, "granted")
Withdraw(r) == Move(r, {"waiting", "granted"}, "withdrawn")
Run(r) == Move(r, {"granted"}, "running")
Judge(r) == r \in acted /\ Move(r, {"running"}, "judged")
Approve(r) == Move(r, {"judged"}, "repaired")
\* It failed, or was interrupted and nobody knows.
Spend(r) == Move(r, {"granted", "running", "judged"}, "spent")

\* It may still act after it was given up for interrupted.
Act(r) == /\ r \notin acted /\ stage[r] \in {"running", "spent"}
          /\ acted' = acted \cup {r}
          /\ UNCHANGED stage

Next == \E r \in Repairs : \/ Wait(r) \/ Grant(r) \/ Withdraw(r) \/ Run(r)
                           \/ Judge(r) \/ Approve(r) \/ Spend(r) \/ Act(r)

Spec == Init /\ [][Next]_<<stage, acted>>
=============================================================================
