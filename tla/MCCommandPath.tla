--------------------------- MODULE MCCommandPath ---------------------------
(***************************************************************************)
(* Small instances of CommandPath: an operator who is also an incident     *)
(* commander, a supervisor, and an incident commander where a third person *)
(* is wanted; a signal change (SC-1, undo unavailable) and a sign message  *)
(* (SC-0, nothing to undo).                                                *)
(***************************************************************************)
EXTENDS CommandPath, TLC

CONSTANTS op, sup, ic,      \* people
          signal, sign      \* commands

Staff == op :> {"operator", "incident_commander"} @@ sup :> {"supervisor"}
         @@ ic :> {"incident_commander"}

MCRolesOf == [p \in People |-> Staff[p]]

MCActionOf == [c \in Commands |-> IF c = sign THEN "variable_message_sign"
                                  ELSE "signal_plan_change"]
=============================================================================
