-------------------------- MODULE ProtectedAction --------------------------
(***************************************************************************)
(* What the platform promises about a protected action, whatever happens   *)
(* to the processes that carry it: nothing reaches the field that was not  *)
(* granted and started; a withdrawn action never does; an action is        *)
(* started once and takes effect at most once; it is called done only if   *)
(* it took effect; what could not be settled is closed and not repeated.   *)
(***************************************************************************)
CONSTANT Commands

VARIABLES stage,            \* how far each action has come
          effect            \* whether it has acted on the network

vars == <<stage, effect>>

Stages == {"none", "asked", "granted", "withdrawn", "started", "done",
           "closed", "undone"}

Init == /\ stage = [c \in Commands |-> "none"]
        /\ effect = [c \in Commands |-> FALSE]

Move(S, from, to) ==
    /\ S # {}
    /\ \A c \in S : stage[c] \in from
    /\ stage' = [c \in Commands |-> IF c \in S THEN to ELSE stage[c]]
    /\ UNCHANGED effect

Ask(c) == Move({c}, {"none"}, "asked")
Grant(c) == Move({c}, {"asked"}, "granted")
\* Denied by a person or the gate, or expired, several at once.
Withdraw(S) == Move(S, {"asked", "granted"}, "withdrawn")
Start(c) == Move({c}, {"granted"}, "started")
Finish(c) == effect[c] /\ Move({c}, {"started"}, "done")
\* The outcome is a failure or is not known; the action may still take effect.
Close(S) == Move(S, {"started"}, "closed")
Undo(c) == Move({c}, {"done"}, "undone")

TakeEffect(c) ==
    /\ stage[c] \in {"started", "closed"}
    /\ ~effect[c]
    /\ effect' = [effect EXCEPT ![c] = TRUE]
    /\ UNCHANGED stage

Next == \/ \E c \in Commands : \/ Ask(c) \/ Grant(c) \/ Start(c) \/ Finish(c)
                               \/ Undo(c) \/ TakeEffect(c)
        \/ \E S \in SUBSET Commands : Withdraw(S) \/ Close(S)

Spec == Init /\ [][Next]_vars
=============================================================================
