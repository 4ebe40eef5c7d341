--------------------------- MODULE AdapterProofs ---------------------------
(***************************************************************************)
(* Proofs about AdapterRun, for any set of commands.  The invariant has    *)
(* two parts: what the files and the containers say of each other          *)
(* whatever happens, and how closely they follow the executor as long as   *)
(* no container has outlived its caller.                                   *)
(***************************************************************************)
EXTENDS AdapterRun, TLAPS

USE AdapterAssumption

\* The job in hand is one that was dispatched, and the action file names it
\* from the moment it is written.
JobSound ==
    /\ exec.pc \notin {"down", "idle"} =>
          exec.job \in Commands /\ status[exec.job] = "executing"
    /\ exec.pc \in {"clear", "start", "wait", "read"} => action = exec.job
    /\ action # Nothing => status[action] # "approved"

\* A container has an action to read, holds one that was dispatched, and
\* answers what is true.
BoxSound ==
    \A b \in Commands :
        /\ box[b].pc # "none" => action # Nothing
        /\ box[b].pc \in {"acting", "answering", "logging"} =>
              box[b].key \in Commands /\ status[box[b].key] # "approved"
        /\ box[b].pc \in {"answering", "logging"} =>
              /\ box[b].answer \in Answers
              /\ box[b].answer = "acknowledged" => applied[box[b].key] > 0

ResultIsTrue ==
    result # Nothing /\ result.answer = "acknowledged" => applied[result.key] > 0

\* While no container has outlived its caller, at most the one waited for is
\* alive, it works on the job, and the result is its own.
InStep ==
    /\ \A b \in Commands : Alive(b) => exec.pc = "wait" /\ b = exec.job
    /\ exec.pc = "wait" /\ box[exec.job].pc \in {"acting", "answering", "logging"} =>
          box[exec.job].key = exec.job
    /\ \A c \in Commands :
          \/ status[c] = "approved"
          \/ exec.job = c /\ exec.pc \in {"write", "clear", "start"}
          \/ exec.job = c /\ exec.pc = "wait" /\ box[c].pc \in {"starting", "acting"}
          => applied[c] = 0
    /\ exec.pc = "start" => result = Nothing
    /\ exec.pc \in {"wait", "read"} /\ result # Nothing => result.key = exec.job

IInv ==
    /\ TypeOK
    /\ JobSound
    /\ BoxSound
    /\ ResultIsTrue
    /\ OnlyDispatchedApplied
    /\ LedgerIsTrue
    /\ ~late => InStep
    /\ AppliedOnceUnlessLate
    /\ ExecutedAppliedUnlessLate
----------------------------------------------------------------------------
Boxes == [Commands -> [pc : {"none", "starting", "acting", "answering",
                             "logging", "gone"},
                       key : Commands \cup {Nothing},
                       answer : Answers \cup {Nothing}]]

LEMMA AnswerTyped ==
    ASSUME NEW f \in Boxes, NEW b \in Commands, NEW a \in Answers
    PROVE  [f EXCEPT ![b].pc = "answering", ![b].answer = a] \in Boxes
<1>1. [f EXCEPT ![b].pc = "answering"] \in Boxes
  BY DEF Boxes
<1>2. \A g \in Boxes : [g EXCEPT ![b].answer = a] \in Boxes
  BY DEF Boxes
<1>3. [f EXCEPT ![b].pc = "answering", ![b].answer = a]
        = [[f EXCEPT ![b].pc = "answering"] EXCEPT ![b].answer = a]
  BY Zenon
<1> QED BY <1>1, <1>2, <1>3

LEMMA CallerGoneTyped ==
    ASSUME TypeOK, CallerGone, exec.pc = "wait" => exec.job \in Commands
    PROVE  box' \in Boxes /\ late' \in BOOLEAN
<1>1. box \in Boxes /\ late \in BOOLEAN
  BY DEF TypeOK, Boxes
<1>2. CASE box' = box
  BY <1>1, <1>2 DEF CallerGone
<1>3. CASE exec.pc = "wait" /\ box' = [box EXCEPT ![exec.job].pc = "gone"]
      /\ late' = late
  BY <1>1, <1>3 DEF Boxes
<1> QED BY <1>2, <1>3 DEF CallerGone

LEMMA RestartStep ==
    ASSUME IInv, Restart
    PROVE  IInv'
<1>1. TypeOK'
  BY DEF IInv, TypeOK, Restart
<1>2. JobSound'
  BY DEF IInv, TypeOK, JobSound, Restart
<1>3. (~late => InStep)'
  BY DEF IInv, InStep, Alive, Restart
<1>4. BoxSound' /\ ResultIsTrue' /\ OnlyDispatchedApplied' /\ LedgerIsTrue'
      /\ AppliedOnceUnlessLate' /\ ExecutedAppliedUnlessLate'
  BY DEF IInv, BoxSound, ResultIsTrue, OnlyDispatchedApplied, LedgerIsTrue,
         AppliedOnceUnlessLate, ExecutedAppliedUnlessLate, Restart
<1> QED BY <1>1, <1>2, <1>3, <1>4 DEF IInv

LEMMA DispatchStep ==
    ASSUME IInv, NEW c \in Commands, Dispatch(c)
    PROVE  IInv'
<1>1. TypeOK'
  BY DEF IInv, TypeOK, Dispatch
<1>2. JobSound'
  BY DEF IInv, TypeOK, JobSound, Dispatch, Finish
<1>3. (~late => InStep)'
  BY DEF IInv, InStep, Alive, Dispatch
<1>4. BoxSound' /\ ResultIsTrue' /\ OnlyDispatchedApplied' /\ LedgerIsTrue'
      /\ AppliedOnceUnlessLate' /\ ExecutedAppliedUnlessLate'
  BY DEF IInv, BoxSound, ResultIsTrue, OnlyDispatchedApplied, LedgerIsTrue,
         AppliedOnceUnlessLate, ExecutedAppliedUnlessLate, Dispatch
<1> QED BY <1>1, <1>2, <1>3, <1>4 DEF IInv

LEMMA WriteActionStep ==
    ASSUME IInv, WriteAction
    PROVE  IInv'
<1>1. TypeOK'
  BY DEF IInv, TypeOK, WriteAction, GoTo
<1>2. JobSound'
  BY DEF IInv, JobSound, WriteAction, GoTo
<1>3. BoxSound'
  BY DEF IInv, JobSound, BoxSound, WriteAction
<1>4. (~late => InStep)'
  BY DEF IInv, InStep, Alive, WriteAction, GoTo
<1>5. ResultIsTrue' /\ OnlyDispatchedApplied' /\ LedgerIsTrue'
      /\ AppliedOnceUnlessLate' /\ ExecutedAppliedUnlessLate'
  BY DEF IInv, ResultIsTrue, OnlyDispatchedApplied, LedgerIsTrue,
         AppliedOnceUnlessLate, ExecutedAppliedUnlessLate, WriteAction
<1> QED BY <1>1, <1>2, <1>3, <1>4, <1>5 DEF IInv

LEMMA ClearResultStep ==
    ASSUME IInv, ClearResult
    PROVE  IInv'
<1>1. TypeOK'
  BY DEF IInv, TypeOK, ClearResult, GoTo
<1>2. JobSound'
  BY DEF IInv, JobSound, ClearResult, GoTo
<1>3. (~late => InStep)'
  BY DEF IInv, InStep, Alive, ClearResult, GoTo
<1>4. BoxSound' /\ ResultIsTrue' /\ OnlyDispatchedApplied' /\ LedgerIsTrue'
      /\ AppliedOnceUnlessLate' /\ ExecutedAppliedUnlessLate'
  BY DEF IInv, BoxSound, ResultIsTrue, OnlyDispatchedApplied, LedgerIsTrue,
         AppliedOnceUnlessLate, ExecutedAppliedUnlessLate, ClearResult
<1> QED BY <1>1, <1>2, <1>3, <1>4 DEF IInv

LEMMA StartContainerStep ==
    ASSUME IInv, StartContainer
    PROVE  IInv'
<1>1. TypeOK'
  BY DEF IInv, TypeOK, JobSound, StartContainer, GoTo, NoBox
<1>2. JobSound'
  BY DEF IInv, JobSound, StartContainer, GoTo
<1>3. BoxSound'
  BY DEF IInv, JobSound, BoxSound, StartContainer
<1>4. (~late => InStep)'
  BY DEF IInv, JobSound, InStep, Alive, StartContainer, GoTo
<1>5. ResultIsTrue' /\ OnlyDispatchedApplied' /\ LedgerIsTrue'
      /\ AppliedOnceUnlessLate' /\ ExecutedAppliedUnlessLate'
  BY DEF IInv, ResultIsTrue, OnlyDispatchedApplied, LedgerIsTrue,
         AppliedOnceUnlessLate, ExecutedAppliedUnlessLate, StartContainer
<1> QED BY <1>1, <1>2, <1>3, <1>4, <1>5 DEF IInv

LEMMA ReturnedStep ==
    ASSUME IInv, Returned
    PROVE  IInv'
<1>1. TypeOK'
  BY DEF IInv, TypeOK, Returned, GoTo
<1>2. JobSound'
  BY DEF IInv, JobSound, Returned, GoTo
<1>3. (~late => InStep)'
  BY DEF IInv, InStep, Alive, Returned, GoTo
<1>4. BoxSound' /\ ResultIsTrue' /\ OnlyDispatchedApplied' /\ LedgerIsTrue'
      /\ AppliedOnceUnlessLate' /\ ExecutedAppliedUnlessLate'
  BY DEF IInv, BoxSound, ResultIsTrue, OnlyDispatchedApplied, LedgerIsTrue,
         AppliedOnceUnlessLate, ExecutedAppliedUnlessLate, Returned
<1> QED BY <1>1, <1>2, <1>3, <1>4 DEF IInv

LEMMA TimedOutStep ==
    ASSUME IInv, TimedOut
    PROVE  IInv'
<1>1. TypeOK'
  <2>1. box' \in Boxes /\ late' \in BOOLEAN
    BY CallerGoneTyped DEF IInv, TimedOut, JobSound
  <2> QED BY <2>1 DEF IInv, TypeOK, JobSound, Boxes, TimedOut, Finish
<1>2. JobSound'
  BY DEF IInv, JobSound, TimedOut, Finish
<1>3. BoxSound'
  BY DEF IInv, TypeOK, BoxSound, Alive, TimedOut, Finish, CallerGone
<1>4. OnlyDispatchedApplied'
  BY DEF IInv, OnlyDispatchedApplied, TimedOut, Finish
<1>5. (~late => InStep)'
  BY DEF IInv, TypeOK, InStep, Alive, TimedOut, Finish, CallerGone
<1>6. AppliedOnceUnlessLate'
  BY DEF IInv, AppliedOnceUnlessLate, TimedOut, CallerGone
<1>7. ExecutedAppliedUnlessLate'
  BY DEF IInv, ExecutedAppliedUnlessLate, TimedOut, Finish, CallerGone
<1>8. ResultIsTrue' /\ LedgerIsTrue'
  BY DEF IInv, ResultIsTrue, LedgerIsTrue, TimedOut
<1> QED BY <1>1, <1>2, <1>3, <1>4, <1>5, <1>6, <1>7, <1>8 DEF IInv

LEMMA ReadResultStep ==
    ASSUME IInv, ReadResult
    PROVE  IInv'
<1>1. TypeOK'
  BY DEF IInv, TypeOK, JobSound, ReadResult, Finish
<1>2. JobSound'
  BY DEF IInv, JobSound, ReadResult, Finish
<1>3. BoxSound'
  BY DEF IInv, BoxSound, ReadResult, Finish
<1>4. OnlyDispatchedApplied'
  BY DEF IInv, OnlyDispatchedApplied, ReadResult, Finish
<1>5. (~late => InStep)'
  BY DEF IInv, InStep, Alive, ReadResult, Finish
<1>6. ExecutedAppliedUnlessLate'
  BY DEF IInv, ResultIsTrue, InStep, ExecutedAppliedUnlessLate, ReadResult, Finish
<1>7. ResultIsTrue' /\ LedgerIsTrue' /\ AppliedOnceUnlessLate'
  BY DEF IInv, ResultIsTrue, LedgerIsTrue, AppliedOnceUnlessLate, ReadResult
<1> QED BY <1>1, <1>2, <1>3, <1>4, <1>5, <1>6, <1>7 DEF IInv

LEMMA CrashStep ==
    ASSUME IInv, Crash
    PROVE  IInv'
<1>1. TypeOK'
  <2>1. box' \in Boxes /\ late' \in BOOLEAN
    BY CallerGoneTyped DEF IInv, Crash, JobSound
  <2> QED BY <2>1 DEF IInv, TypeOK, Boxes, Crash
<1>2. BoxSound'
  BY DEF IInv, TypeOK, BoxSound, Alive, Crash, CallerGone
<1>3. (~late => InStep)'
  BY DEF IInv, TypeOK, InStep, Alive, Crash, CallerGone
<1>4. AppliedOnceUnlessLate'
  BY DEF IInv, AppliedOnceUnlessLate, Crash, CallerGone
<1>5. ExecutedAppliedUnlessLate'
  BY DEF IInv, ExecutedAppliedUnlessLate, Crash, CallerGone
<1>6. JobSound' /\ ResultIsTrue' /\ OnlyDispatchedApplied' /\ LedgerIsTrue'
  BY DEF IInv, JobSound, ResultIsTrue, OnlyDispatchedApplied, LedgerIsTrue, Crash
<1> QED BY <1>1, <1>2, <1>3, <1>4, <1>5, <1>6 DEF IInv

LEMMA ReadActionStep ==
    ASSUME IInv, NEW b \in Commands, ReadAction(b)
    PROVE  IInv'
<1>1. TypeOK'
  BY DEF IInv, TypeOK, BoxSound, ReadAction
<1>2. BoxSound'
  BY DEF IInv, TypeOK, JobSound, BoxSound, ReadAction
<1>3. ResultIsTrue'
  BY DEF IInv, TypeOK, BoxSound, ResultIsTrue, LedgerIsTrue, ReadAction
<1>4. (~late => InStep)'
  BY DEF IInv, TypeOK, JobSound, InStep, Alive, ReadAction
<1>5. JobSound' /\ OnlyDispatchedApplied' /\ LedgerIsTrue' /\ AppliedOnceUnlessLate'
      /\ ExecutedAppliedUnlessLate'
  BY DEF IInv, JobSound, OnlyDispatchedApplied, LedgerIsTrue, AppliedOnceUnlessLate,
         ExecutedAppliedUnlessLate, ReadAction
<1> QED BY <1>1, <1>2, <1>3, <1>4, <1>5 DEF IInv

LEMMA ActStep ==
    ASSUME IInv, NEW b \in Commands, Act(b)
    PROVE  IInv'
<1>1. TypeOK'
  <2>1. PICK answer \in Answers :
          /\ box' = [box EXCEPT ![b].pc = "answering", ![b].answer = answer]
          /\ applied' = IF answer = "acknowledged"
                        THEN [applied EXCEPT ![box[b].key] = @ + 1] ELSE applied
    BY DEF Act
  <2>2. box[b].key \in Commands
    BY DEF IInv, BoxSound, Act
  <2>3. applied' \in [Commands -> Nat]
    <3>1. applied \in [Commands -> Nat]
      BY DEF IInv, TypeOK
    <3>2. \A k \in Commands : [applied EXCEPT ![k] = @ + 1] \in [Commands -> Nat]
      BY <3>1
    <3> QED BY <2>1, <2>2, <3>1, <3>2
  <2>4. box' \in Boxes
    BY <2>1, AnswerTyped DEF IInv, TypeOK, Boxes
  <2>5. UNCHANGED <<status, exec, action, result, ledger, late>>
    BY DEF Act
  <2> QED BY <2>3, <2>4, <2>5 DEF IInv, TypeOK, Boxes
<1>2. JobSound'
  BY DEF IInv, JobSound, Act
<1>3. BoxSound'
  BY DEF IInv, TypeOK, BoxSound, Act
<1>4. ResultIsTrue'
  BY DEF IInv, TypeOK, BoxSound, ResultIsTrue, LedgerIsTrue, Answers, Act
<1>5. OnlyDispatchedApplied'
  BY DEF IInv, BoxSound, OnlyDispatchedApplied, Act
<1>6. LedgerIsTrue'
  BY DEF IInv, TypeOK, LedgerIsTrue, Act
<1>7. (~late => InStep)'
  BY DEF IInv, TypeOK, BoxSound, InStep, Alive, Act
<1>8. AppliedOnceUnlessLate'
  BY DEF IInv, InStep, Alive, AppliedOnceUnlessLate, Act
<1>9. ExecutedAppliedUnlessLate'
  BY DEF IInv, InStep, Alive, ExecutedAppliedUnlessLate, Act
<1> QED BY <1>1, <1>2, <1>3, <1>4, <1>5, <1>6, <1>7, <1>8, <1>9 DEF IInv

LEMMA WriteResultStep ==
    ASSUME IInv, NEW b \in Commands, WriteResult(b)
    PROVE  IInv'
<1>1. TypeOK'
  BY DEF IInv, TypeOK, BoxSound, WriteResult
<1>2. ResultIsTrue'
  BY DEF IInv, BoxSound, ResultIsTrue, WriteResult
<1>3. (~late => InStep)'
  BY DEF IInv, InStep, Alive, WriteResult
<1>4. JobSound' /\ BoxSound' /\ OnlyDispatchedApplied' /\ LedgerIsTrue'
      /\ AppliedOnceUnlessLate' /\ ExecutedAppliedUnlessLate'
  BY DEF IInv, JobSound, BoxSound, OnlyDispatchedApplied, LedgerIsTrue,
         AppliedOnceUnlessLate, ExecutedAppliedUnlessLate, WriteResult
<1> QED BY <1>1, <1>2, <1>3, <1>4 DEF IInv

LEMMA AppendLedgerStep ==
    ASSUME IInv, NEW b \in Commands, AppendLedger(b)
    PROVE  IInv'
<1>1. TypeOK'
  BY DEF IInv, TypeOK, BoxSound, AppendLedger
<1>2. LedgerIsTrue'
  BY DEF IInv, BoxSound, LedgerIsTrue, AppendLedger
<1>3. (~late => InStep)'
  BY DEF IInv, InStep, Alive, AppendLedger
<1>4. JobSound' /\ BoxSound' /\ ResultIsTrue' /\ OnlyDispatchedApplied'
      /\ AppliedOnceUnlessLate' /\ ExecutedAppliedUnlessLate'
  BY DEF IInv, JobSound, BoxSound, ResultIsTrue, OnlyDispatchedApplied,
         AppliedOnceUnlessLate, ExecutedAppliedUnlessLate, AppendLedger
<1> QED BY <1>1, <1>2, <1>3, <1>4 DEF IInv

LEMMA DieStep ==
    ASSUME IInv, NEW b \in Commands, Die(b)
    PROVE  IInv'
<1>1. TypeOK'
  BY DEF IInv, TypeOK, Die
<1>2. BoxSound'
  BY DEF IInv, BoxSound, Alive, Die
<1>3. (~late => InStep)'
  BY DEF IInv, InStep, Alive, Die
<1>4. JobSound' /\ ResultIsTrue' /\ OnlyDispatchedApplied' /\ LedgerIsTrue'
      /\ AppliedOnceUnlessLate' /\ ExecutedAppliedUnlessLate'
  BY DEF IInv, JobSound, ResultIsTrue, OnlyDispatchedApplied, LedgerIsTrue,
         AppliedOnceUnlessLate, ExecutedAppliedUnlessLate, Die
<1> QED BY <1>1, <1>2, <1>3, <1>4 DEF IInv

LEMMA InitHolds == ASSUME Init PROVE IInv
<1>1. TypeOK
  BY DEF Init, TypeOK, NoBox, Answers
<1> QED
  BY <1>1 DEF Init, IInv, JobSound, BoxSound, ResultIsTrue, OnlyDispatchedApplied,
              LedgerIsTrue, InStep, Alive, NoBox, AppliedOnceUnlessLate,
              ExecutedAppliedUnlessLate

LEMMA NextHolds ==
    ASSUME IInv, [Next]_vars
    PROVE  IInv'
<1>1. CASE Restart
  BY <1>1, RestartStep
<1>2. ASSUME NEW c \in Commands, Dispatch(c) PROVE IInv'
  BY <1>2, DispatchStep
<1>3. CASE WriteAction
  BY <1>3, WriteActionStep
<1>4. CASE ClearResult
  BY <1>4, ClearResultStep
<1>5. CASE StartContainer
  BY <1>5, StartContainerStep
<1>6. CASE Returned
  BY <1>6, ReturnedStep
<1>7. CASE TimedOut
  BY <1>7, TimedOutStep
<1>8. CASE ReadResult
  BY <1>8, ReadResultStep
<1>9. CASE Crash
  BY <1>9, CrashStep
<1>10. ASSUME NEW c \in Commands, ReadAction(c) PROVE IInv'
  BY <1>10, ReadActionStep
<1>11. ASSUME NEW c \in Commands, Act(c) PROVE IInv'
  BY <1>11, ActStep
<1>12. ASSUME NEW c \in Commands, WriteResult(c) PROVE IInv'
  BY <1>12, WriteResultStep
<1>13. ASSUME NEW c \in Commands, AppendLedger(c) PROVE IInv'
  BY <1>13, AppendLedgerStep
<1>14. ASSUME NEW c \in Commands, Die(c) PROVE IInv'
  BY <1>14, DieStep
<1>15. CASE UNCHANGED vars
  BY <1>15 DEF vars, IInv, TypeOK, JobSound, BoxSound, ResultIsTrue,
               OnlyDispatchedApplied, LedgerIsTrue, InStep, Alive,
               AppliedOnceUnlessLate, ExecutedAppliedUnlessLate
<1> QED
  BY <1>1, <1>2, <1>3, <1>4, <1>5, <1>6, <1>7, <1>8,
     <1>9, <1>10, <1>11, <1>12, <1>13, <1>14, <1>15 DEF Next


\* What the files, the containers and the executor hold fits together in every
\* reachable state (execute_command and run_action.py).
THEOREM AdapterInvariant == Spec => []IInv
<1>1. Init => IInv
  BY InitHolds
<1>2. IInv /\ [Next]_vars => IInv'
  BY NextHolds
<1> QED BY <1>1, <1>2, PTL DEF Spec

\* run_action.py's ledger acknowledges only what was applied, through every
\* crash and every late container: its replay is never a false acknowledgement.
THEOREM LedgerNeverLies == Spec => []LedgerIsTrue
<1>1. IInv => LedgerIsTrue
  BY DEF IInv
<1> QED BY <1>1, AdapterInvariant, PTL

\* No crash, restart or timeout applies an action twice as long as every
\* container ended before its caller went on.
THEOREM AppliedOnce == Spec => []AppliedOnceUnlessLate
<1>1. IInv => AppliedOnceUnlessLate
  BY DEF IInv
<1> QED BY <1>1, AdapterInvariant, PTL

\* Under the same condition, what execute_command records as executed was
\* applied, although it takes whatever result.json holds for its own result.
THEOREM ExecutedWasApplied == Spec => []ExecutedAppliedUnlessLate
<1>1. IInv => ExecutedAppliedUnlessLate
  BY DEF IInv
<1> QED BY <1>1, AdapterInvariant, PTL
-----------------------------------------------------------------------------
(* The promise, until a container is late.                                 *)

RowStatuses == {"approved", "executing", "executed", "failed"}

LEMMA StagesOf ==
    /\ StageOf["approved"] = "granted" /\ StageOf["executing"] = "started"
    /\ StageOf["executed"] = "done" /\ StageOf["failed"] = "closed"
BY DEF StageOf

\* A step that leaves the records and the network alone is no step of the
\* promise.
LEMMA PromiseRests ==
    ASSUME UNCHANGED <<status, applied>>
    PROVE  UNCHANGED Promise!vars
BY DEF Promise!vars

\* One that moves the records of some commands is a move of the promise.
LEMMA PromiseMoves ==
    ASSUME TypeOK, NEW S \in SUBSET Commands, S # {},
           NEW from \in RowStatuses, NEW to \in RowStatuses,
           \A c \in S : status[c] = from,
           \A c \in Commands : status'[c] = IF c \in S THEN to ELSE status[c],
           applied' = applied
    PROVE  Promise!Move(S, {StageOf[from]}, StageOf[to])
BY DEF Promise!Move, TypeOK

LEMMA OneMoves ==
    ASSUME TypeOK, NEW c \in Commands,
           NEW from \in RowStatuses, NEW to \in RowStatuses,
           status[c] = from, status' = [status EXCEPT ![c] = to],
           applied' = applied
    PROVE  Promise!Move({c}, {StageOf[from]}, StageOf[to])
<1>1. {c} \in SUBSET Commands /\ {c} # {} /\ \A d \in {c} : status[d] = from
  OBVIOUS
<1>2. \A d \in Commands : status'[d] = IF d \in {c} THEN to ELSE status[d]
  BY DEF TypeOK
<1> QED BY <1>1, <1>2, PromiseMoves

LEMMA DispatchKeeps ==
    ASSUME IInv, NEW c \in Commands, Dispatch(c)
    PROVE  Promise!Start(c)
<1>1. Promise!Move({c}, {StageOf["approved"]}, StageOf["executing"])
  BY OneMoves DEF IInv, RowStatuses, Dispatch
<1> QED BY <1>1, StagesOf DEF Promise!Start

\* Losing a run closes it, as a restart closes all that were executing.
LEMMA FailedKeeps ==
    ASSUME TypeOK, NEW S \in SUBSET Commands,
           \A c \in S : status[c] = "executing",
           \A c \in Commands : status'[c] = IF c \in S THEN "failed" ELSE status[c],
           status' \in [Commands -> RowStatuses], applied' = applied
    PROVE  Promise!Close(S) \/ UNCHANGED Promise!vars
<1>1. CASE S = {}
  <2>1. status' = status
    BY <1>1 DEF TypeOK
  <2> QED BY <2>1, PromiseRests
<1>2. CASE S # {}
  <2>1. Promise!Move(S, {StageOf["executing"]}, StageOf["failed"])
    BY <1>2, PromiseMoves DEF RowStatuses
  <2> QED BY <2>1, StagesOf DEF Promise!Close
<1> QED BY <1>1, <1>2

LEMMA OneFailedKeeps ==
    ASSUME TypeOK, NEW c \in Commands, status[c] = "executing",
           status' = [status EXCEPT ![c] = "failed"], applied' = applied
    PROVE  \/ \E S \in SUBSET Commands : Promise!Close(S)
           \/ UNCHANGED Promise!vars
<1>1. PICK S \in SUBSET Commands : S = {c}
  OBVIOUS
<1>2. /\ status' \in [Commands -> RowStatuses]
      /\ \A d \in Commands : status'[d] = IF d \in S THEN "failed" ELSE status[d]
  BY <1>1 DEF TypeOK, RowStatuses
<1>3. Promise!Close(S) \/ UNCHANGED Promise!vars
  BY <1>1, <1>2, FailedKeeps
<1> QED BY <1>3

LEMMA RestartKeeps ==
    ASSUME IInv, Restart
    PROVE  \/ \E S \in SUBSET Commands : Promise!Close(S)
           \/ UNCHANGED Promise!vars
<1>1. PICK S \in SUBSET Commands :
        \A c \in Commands : c \in S <=> status[c] = "executing"
  <2> WITNESS {c \in Commands : status[c] = "executing"} \in SUBSET Commands
  <2> QED OBVIOUS
<1>2. /\ TypeOK /\ applied' = applied
      /\ status' \in [Commands -> RowStatuses]
  BY DEF IInv, TypeOK, RowStatuses, Restart
<1>3. \A c \in Commands : status'[c] = IF c \in S THEN "failed" ELSE status[c]
  BY <1>1 DEF Restart
<1>4. Promise!Close(S) \/ UNCHANGED Promise!vars
  BY <1>1, <1>2, <1>3, FailedKeeps
<1> QED BY <1>4

LEMMA TimedOutKeeps ==
    ASSUME IInv, TimedOut
    PROVE  \/ \E S \in SUBSET Commands : Promise!Close(S)
           \/ UNCHANGED Promise!vars
<1>1. exec.job \in Commands /\ status[exec.job] = "executing"
  BY DEF IInv, JobSound, TimedOut
<1>2. status' = [status EXCEPT ![exec.job] = "failed"] /\ applied' = applied
  BY DEF TimedOut, Finish
<1> QED BY <1>1, <1>2, OneFailedKeeps DEF IInv

\* What is called executed took effect, or the result was another's.
LEMMA ReadResultKeeps ==
    ASSUME IInv, IInv', ReadResult, ~late'
    PROVE  \/ \E c \in Commands : Promise!Finish(c)
           \/ \E S \in SUBSET Commands : Promise!Close(S)
           \/ UNCHANGED Promise!vars
<1>1. PICK job \in Commands : job = exec.job /\ status[job] = "executing"
  BY DEF IInv, JobSound, ReadResult
<1>2. applied' = applied
  BY DEF ReadResult
<1>3. CASE status' = [status EXCEPT ![job] = "executed"]
  <2>1. status'[job] = "executed"
    BY <1>1, <1>3 DEF IInv, TypeOK
  <2>2. applied[job] > 0
    BY <1>1, <1>2, <2>1 DEF IInv, ExecutedAppliedUnlessLate
  <2>3. Promise!Move({job}, {StageOf["executing"]}, StageOf["executed"])
    BY <1>1, <1>2, <1>3, OneMoves DEF IInv, RowStatuses
  <2>4. Promise!Finish(job)
    BY <1>1, <2>2, <2>3, StagesOf DEF Promise!Finish
  <2> QED BY <1>1, <2>4
<1>4. CASE status' = [status EXCEPT ![job] = "failed"]
  BY <1>1, <1>2, <1>4, OneFailedKeeps DEF IInv
<1> QED
  <2>1. \/ status' = [status EXCEPT ![job] = "executed"]
        \/ status' = [status EXCEPT ![job] = "failed"]
    BY <1>1 DEF ReadResult, Finish
  <2> QED BY <2>1, <1>3, <1>4

\* Only the container that is waited for acts, on the job, for the first time.
LEMMA ActKeeps ==
    ASSUME IInv, NEW b \in Commands, Act(b), ~late
    PROVE  \/ \E c \in Commands : Promise!TakeEffect(c)
           \/ UNCHANGED Promise!vars
<1>1. exec.pc = "wait" /\ b = exec.job /\ box[b].key = b
  BY DEF IInv, InStep, Alive, Act
<1>2. status[b] = "executing" /\ applied[b] = 0
  BY <1>1 DEF IInv, JobSound, InStep, Act
<1>3. status' = status
  BY DEF Act
<1>4. CASE applied' = applied
  BY <1>3, <1>4, PromiseRests
<1>5. CASE applied' = [applied EXCEPT ![b] = @ + 1]
  <2>1. /\ applied'[b] > 0
        /\ \A c \in Commands \ {b} : applied'[c] = applied[c]
    BY <1>2, <1>5 DEF IInv, TypeOK
  <2>2. [c \in Commands |-> applied[c] > 0]'
          = [[c \in Commands |-> applied[c] > 0] EXCEPT ![b] = TRUE]
    BY <2>1, Zenon
  <2>3. ~[c \in Commands |-> applied[c] > 0][b]
    <3>1. ~(applied[b] > 0)
      BY <1>2
    <3> QED BY <3>1, Zenon
  <2>4. [c \in Commands |-> StageOf[status[c]]][b] = "started"
    BY <1>2, StagesOf
  <2>5. Promise!TakeEffect(b)
    BY <1>3, <2>2, <2>3, <2>4, Zenon DEF Promise!TakeEffect
  <2> QED BY <2>5
<1> QED BY <1>1, <1>4, <1>5 DEF Act

LEMMA LateStays ==
    ASSUME [Next]_vars, ~late'
    PROVE  ~late
BY DEF Next, vars, Restart, Dispatch, WriteAction, ClearResult, StartContainer,
       Returned, TimedOut, CallerGone, ReadResult, Crash, ReadAction, Act,
       WriteResult, AppendLedger, Die

LEMMA StepKeepsPromise ==
    ASSUME IInv, IInv', [Next]_vars, ~late'
    PROVE  Promise!Next \/ UNCHANGED Promise!vars
<1>1. ASSUME NEW c \in Commands, Dispatch(c)
      PROVE  Promise!Next
  BY <1>1, DispatchKeeps DEF Promise!Next
<1>2. CASE Restart \/ TimedOut
  BY <1>2, RestartKeeps, TimedOutKeeps DEF Promise!Next
<1>3. CASE ReadResult
  BY <1>3, ReadResultKeeps DEF Promise!Next
<1>4. ASSUME NEW b \in Commands, Act(b)
      PROVE  Promise!Next \/ UNCHANGED Promise!vars
  BY <1>4, ActKeeps, LateStays DEF Promise!Next
<1>5. CASE \/ WriteAction \/ ClearResult \/ StartContainer \/ Returned \/ Crash
           \/ UNCHANGED vars
           \/ \E c \in Commands : \/ ReadAction(c) \/ WriteResult(c)
                                  \/ AppendLedger(c) \/ Die(c)
  <2>1. UNCHANGED <<status, applied>>
    BY <1>5 DEF WriteAction, ClearResult, StartContainer, Returned, Crash, vars,
                ReadAction, WriteResult, AppendLedger, Die
  <2> QED BY <2>1, PromiseRests
<1> QED BY <1>1, <1>2, <1>3, <1>4, <1>5 DEF Next

\* Through files, containers, timeouts and restarts execute_command keeps the
\* promise of ProtectedAction, step by step, until a container is late.
THEOREM AdapterKeepsPromise == Spec => KeepsPromiseUnlessLate
<1>1. IInv /\ IInv' /\ [Next]_vars =>
         [~late' => Promise!Next \/ UNCHANGED Promise!vars]_vars
  BY StepKeepsPromise
<1> QED BY <1>1, AdapterInvariant, PTL DEF Spec, KeepsPromiseUnlessLate
=============================================================================
