----------------------------- MODULE Telemetry -----------------------------
(***************************************************************************)
(* What the platform promises of the events it is sent, whatever brings    *)
(* them: the first content recorded under an event_id stays, and an event  *)
(* is refused as a conflict only when other content is recorded.           *)
(***************************************************************************)
CONSTANTS Events, Id, None

VARIABLES table,       \* per event_id, the event recorded or None
          conflicts    \* events refused because of what is recorded

Init == table = [i \in {Id[e] : e \in Events} |-> None] /\ conflicts = {}

\* Some events are recorded, each under an id that had none, and others are
\* found to conflict, at one moment.
Settle(recorded, conflicting) ==
    /\ \A e \in recorded : table[Id[e]] = None
    /\ \A e, f \in recorded : Id[e] = Id[f] => e = f
    /\ table' = [i \in DOMAIN table |->
                    IF \E e \in recorded : Id[e] = i
                    THEN CHOOSE e \in recorded : Id[e] = i
                    ELSE table[i]]
    /\ \A e \in conflicting : table'[Id[e]] \notin {None, e}
    /\ conflicts' = conflicts \cup conflicting

Next == \E recorded, conflicting \in SUBSET Events : Settle(recorded, conflicting)

Spec == Init /\ [][Next]_<<table, conflicts>>
=============================================================================
