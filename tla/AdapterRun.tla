----------------------------- MODULE AdapterRun -----------------------------
(***************************************************************************)
(* One level below CommandPath: how execute_command                        *)
(* (backend/control/simulator_adapters.py) drives an action through the    *)
(* files it shares with the adapter container                              *)
(* (simulator/control_adapters/run_container.sh, run_action.py).  There is *)
(* one action.json, one result.json and one ledger.jsonl for all commands. *)
(*                                                                         *)
(* The container is a process of its own: when the call that started it    *)
(* times out or the executor is killed it may go on or end with it.        *)
(* `late` remembers whether one ever went on, which is what the guarantees *)
(* of these files turn on; reconcile() in executor_worker.py takes it that *)
(* one can.                                                                *)
(***************************************************************************)
EXTENDS Naturals

CONSTANTS Commands,
          Nothing           \* no file, no job

ASSUME AdapterAssumption ==
    Nothing \notin Commands \cup {"acknowledged", "refused"}

VARIABLES status,           \* of each command, from approved on
          exec,             \* the executor: its place in execute_command, its job
          action,           \* action.json: the key it names
          result,           \* result.json: whose result, acknowledged or not
          ledger,           \* ledger.jsonl: the stored answer per key
          box,              \* the container started for each command
          applied,          \* how often the action of each key was applied
          late              \* has a container outlived its caller?

vars == <<status, exec, action, result, ledger, box, applied, late>>

Answers == {"acknowledged", "refused"}

TypeOK ==
    /\ status \in [Commands -> {"approved", "executing", "executed", "failed"}]
    /\ exec \in [pc : {"down", "idle", "write", "clear", "start", "wait", "read"},
                 job : Commands \cup {Nothing}]
    /\ action \in Commands \cup {Nothing}
    /\ result \in [key : Commands, answer : Answers] \cup {Nothing}
    /\ ledger \in [Commands -> Answers \cup {Nothing}]
    /\ box \in [Commands -> [pc : {"none", "starting", "acting", "answering",
                                   "logging", "gone"},
                             key : Commands \cup {Nothing},
                             answer : Answers \cup {Nothing}]]
    /\ applied \in [Commands -> Nat]
    /\ late \in BOOLEAN

NoBox == [pc |-> "none", key |-> Nothing, answer |-> Nothing]

Init == /\ status = [c \in Commands |-> "approved"]
        /\ exec = [pc |-> "down", job |-> Nothing]
        /\ action = Nothing
        /\ result = Nothing
        /\ ledger = [c \in Commands |-> Nothing]
        /\ box = [c \in Commands |-> NoBox]
        /\ applied = [c \in Commands |-> 0]
        /\ late = FALSE

----------------------------------------------------------------------------
(* The executor, in execute_command.                                       *)

GoTo(pc) == exec' = [exec EXCEPT !.pc = pc]
Finish(c, to) == /\ status' = [status EXCEPT ![c] = to]
                 /\ exec' = [pc |-> "idle", job |-> Nothing]

Alive(b) == box[b].pc \notin {"none", "gone"}

\* What becomes of the container that was waited for when its caller goes away.
CallerGone ==
    IF exec.pc = "wait" /\ Alive(exec.job)
    THEN \/ box' = box /\ late' = TRUE
         \/ box' = [box EXCEPT ![exec.job].pc = "gone"] /\ late' = late
    ELSE UNCHANGED <<box, late>>

\* Faulty: what was executing is approved again.
RestartRetrying ==
    /\ exec.pc = "down"
    /\ status' = [c \in Commands |-> IF status[c] = "executing" THEN "approved"
                                     ELSE status[c]]
    /\ exec' = [pc |-> "idle", job |-> Nothing]
    /\ UNCHANGED <<action, result, ledger, box, applied, late>>

\* reconcile(at_start): what was executing has failed, effect unknown.
Restart ==
    /\ exec.pc = "down"
    /\ status' = [c \in Commands |-> IF status[c] = "executing" THEN "failed"
                                     ELSE status[c]]
    /\ exec' = [pc |-> "idle", job |-> Nothing]
    /\ UNCHANGED <<action, result, ledger, box, applied, late>>

Dispatch(c) ==
    /\ exec.pc = "idle" /\ status[c] = "approved"
    /\ status' = [status EXCEPT ![c] = "executing"]
    /\ exec' = [pc |-> "write", job |-> c]
    /\ UNCHANGED <<action, result, ledger, box, applied, late>>

WriteAction ==
    /\ exec.pc = "write"
    /\ action' = exec.job
    /\ GoTo("clear")
    /\ UNCHANGED <<status, result, ledger, box, applied, late>>

\* Faulty: the result of the last run is left in place.
KeepResult ==
    /\ exec.pc = "clear"
    /\ GoTo("start")
    /\ UNCHANGED <<status, action, result, ledger, box, applied, late>>

ClearResult ==
    /\ exec.pc = "clear"
    /\ result' = Nothing
    /\ GoTo("start")
    /\ UNCHANGED <<status, action, ledger, box, applied, late>>

StartContainer ==
    /\ exec.pc = "start"
    /\ box' = [box EXCEPT ![exec.job] = [NoBox EXCEPT !.pc = "starting"]]
    /\ GoTo("wait")
    /\ UNCHANGED <<status, action, result, ledger, applied, late>>

\* The container has ended; its exit code is not looked at.
Returned ==
    /\ exec.pc = "wait" /\ box[exec.job].pc = "gone"
    /\ GoTo("read")
    /\ UNCHANGED <<status, action, result, ledger, box, applied, late>>

\* EXECUTION_TIMEOUT_S: adapter_unreachable.
TimedOut ==
    /\ exec.pc = "wait" /\ box[exec.job].pc # "gone"
    /\ CallerGone
    /\ Finish(exec.job, "failed")
    /\ UNCHANGED <<action, result, ledger, applied>>

\* Whatever result.json holds is taken for this command's result.
ReadResult ==
    /\ exec.pc = "read"
    /\ Finish(exec.job, IF result # Nothing /\ result.answer = "acknowledged"
                        THEN "executed" ELSE "failed")
    /\ UNCHANGED <<action, result, ledger, box, applied, late>>

Crash ==
    /\ exec.pc # "down"
    /\ exec' = [pc |-> "down", job |-> Nothing]
    /\ CallerGone
    /\ UNCHANGED <<status, action, result, ledger, applied>>

----------------------------------------------------------------------------
(* A container, running run_action.py.                                     *)

\* It reads the action file and the ledger: a key already there is answered
\* from the ledger and nothing is run.
ReadAction(b) ==
    /\ box[b].pc = "starting"
    /\ IF ledger[action] # Nothing
       THEN /\ result' = [key |-> action, answer |-> ledger[action]]
            /\ box' = [box EXCEPT ![b].pc = "gone", ![b].key = action]
       ELSE /\ box' = [box EXCEPT ![b].pc = "acting", ![b].key = action]
            /\ UNCHANGED result
    /\ UNCHANGED <<status, exec, action, ledger, applied, late>>

\* Faulty: a refused action is acknowledged.
ActAcknowledging(b) ==
    /\ box[b].pc = "acting"
    /\ box' = [box EXCEPT ![b].pc = "answering", ![b].answer = "acknowledged"]
    /\ applied' \in {applied, [applied EXCEPT ![box[b].key] = @ + 1]}
    /\ UNCHANGED <<status, exec, action, result, ledger, late>>

\* The simulator applies the action, or refuses it (AdapterError).
Act(b) ==
    /\ box[b].pc = "acting"
    /\ \E answer \in Answers :
         /\ box' = [box EXCEPT ![b].pc = "answering", ![b].answer = answer]
         /\ applied' = IF answer = "acknowledged"
                       THEN [applied EXCEPT ![box[b].key] = @ + 1] ELSE applied
    /\ UNCHANGED <<status, exec, action, result, ledger, late>>

WriteResult(b) ==
    /\ box[b].pc = "answering"
    /\ result' = [key |-> box[b].key, answer |-> box[b].answer]
    /\ box' = [box EXCEPT ![b].pc = "logging"]
    /\ UNCHANGED <<status, exec, action, ledger, applied, late>>

AppendLedger(b) ==
    /\ box[b].pc = "logging"
    /\ ledger' = [ledger EXCEPT ![box[b].key] = box[b].answer]
    /\ box' = [box EXCEPT ![b].pc = "gone"]
    /\ UNCHANGED <<status, exec, action, result, applied, late>>

\* Any other error ends it where it is, with nothing more written.
Die(b) ==
    /\ Alive(b)
    /\ box' = [box EXCEPT ![b].pc = "gone"]
    /\ UNCHANGED <<status, exec, action, result, ledger, applied, late>>

Next ==
    \/ Restart \/ WriteAction \/ ClearResult \/ StartContainer \/ Returned
    \/ TimedOut \/ ReadResult \/ Crash
    \/ \E c \in Commands :
         \/ Dispatch(c) \/ ReadAction(c) \/ Act(c) \/ WriteResult(c)
         \/ AppendLedger(c) \/ Die(c)

Spec == Init /\ [][Next]_vars

----------------------------------------------------------------------------
\* Nothing is applied that was not dispatched, whichever container reads
\* whichever action file.
OnlyDispatchedApplied ==
    \A c \in Commands : applied[c] > 0 => status[c] # "approved"

\* The ledger answers for an action what happened to it: acknowledged only if
\* it was applied, so a replay never acknowledges what was not done.
LedgerIsTrue ==
    \A c \in Commands : ledger[c] = "acknowledged" => applied[c] > 0

\* As long as every container ended before its caller went on, no crash, no
\* restart and no timeout applies an action twice ...
AppliedOnceUnlessLate == ~late => \A c \in Commands : applied[c] <= 1

\* ... and what is called executed was applied, whatever files earlier runs
\* left behind.
ExecutedAppliedUnlessLate ==
    ~late => \A c \in Commands : status[c] = "executed" => applied[c] > 0

\* The stages of the promise in which the executor has an action in hand.
StageOf == [approved |-> "granted", executing |-> "started",
            executed |-> "done", failed |-> "closed"]

Promise == INSTANCE ProtectedAction WITH
    stage <- [c \in Commands |-> StageOf[status[c]]],
    effect <- [c \in Commands |-> applied[c] > 0]

\* Until a container outlives its caller, the files, containers and restarts
\* take no step that the promise does not know: an action takes effect only
\* after it was started, and is called executed only if it did.
KeepsPromiseUnlessLate ==
    [][~late' => Promise!Next \/ UNCHANGED Promise!vars]_vars

\* run_action.py: a second execution of the same command cannot double-apply a
\* real-world action.
AppliedAtMostOnce == \A c \in Commands : applied[c] <= 1
=============================================================================
