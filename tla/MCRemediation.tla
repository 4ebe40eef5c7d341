--------------------------- MODULE MCRemediation ---------------------------
(***************************************************************************)
(* Small instances of Remediation, with lines of the real playbook: the    *)
(* edge runtime (rollback, then restart), the database (a restart that     *)
(* needs approval, then a failover that is only planned), and an incident  *)
(* without any line.                                                       *)
(***************************************************************************)
EXTENDS Remediation, TLC

CONSTANTS bob, dan,                          \* a supervisor, a dispatcher
          edge, postgres, opa,               \* incidents
          rollback, restart, reboot, failover,
          Tries                              \* the limit of every action

Team == bob :> "supervisor" @@ dan :> "dispatcher"
Lines == edge :> <<rollback, restart>> @@ postgres :> <<reboot, failover>> @@ opa :> <<>>
Autonomies == rollback :> "auto" @@ restart :> "auto" @@ reboot :> "approval"
              @@ failover :> "plan_only"

MCRoleOf == [p \in People |-> Team[p]]
MCPlaybook == [i \in Incidents |-> SelectSeq(Lines[i], LAMBDA a : a \in Actions)]
MCAutonomy == [a \in Actions |-> Autonomies[a]]
WorkerSymmetry == Permutations(Workers)
MCLimit == [a \in Actions |-> Tries]
=============================================================================
