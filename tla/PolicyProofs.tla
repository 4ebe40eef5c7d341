---------------------------- MODULE PolicyProofs ----------------------------
(***************************************************************************)
(* Proofs about PolicyReference, for any roles and any actions.  The two   *)
(* ladders differ in one rung: evaluate() finds that a recommendation that *)
(* is not there recommends another action, the engine does not ask.  They  *)
(* agree because both have refused by then.                                *)
(***************************************************************************)
EXTENDS PolicyReference, TLAPS

----------------------------------------------------------------------------
(* The rungs of the reference and the rules of the engine, side by side.   *)

Ranks == <<3, 4, 15, 20, 30, 40, 50, 60, 70, 80, 90, 100, 110>>

Fires(c, i) == Ladder(c)[i][1]

\* What a rung looks at, as the engine would put it.
Ground(c) ==
    << Execution(c) /\ c.actor # EXECUTOR,
       Execution(c) /\ c.command_status # "approved",
       Execution(c) /\ c.approver = NoOne,
       c.overdue,
       ClassOf(c) \in FOUR_EYES_CLASSES /\ c.approver = c.requested_by,
       c.approver_role \notin APPROVE_ROLES[ClassOf(c)],
       c.requester_role # NoOne /\ c.requester_role \notin REQUEST_ROLES[ClassOf(c)],
       ~c.adapter_known,
       ~c.target_exists,
       ~Execution(c) /\ c.rec_status = "missing",
       ~Execution(c) /\ c.rec_status # "none" /\ ~c.rec_same_action,
       ~Execution(c) /\ c.rec_status # "none" /\ c.rec_status \notin ActionableStatuses,
       ~c.evidence_fresh >>

LEMMA RungGround ==
    ASSUME NEW c, NEW i \in 1..13
    PROVE  Fires(c, i) <=> Ground(c)[i]
<1>1. \/ i = 1 \/ i = 2 \/ i = 3 \/ i = 4 \/ i = 5 \/ i = 6 \/ i = 7
      \/ i = 8 \/ i = 9 \/ i = 10 \/ i = 11 \/ i = 12 \/ i = 13
  OBVIOUS
<1> QED BY <1>1 DEF Fires, Ladder, Ground, Execution, ClassOf

LEMMA RungAnswer ==
    ASSUME NEW c, NEW i \in 1..13
    PROVE  [decision |-> Ladder(c)[i][2], error_code |-> Ladder(c)[i][3]]
              = Refusal(Ranks[i])
<1>1. \/ i = 1 \/ i = 2 \/ i = 3 \/ i = 4 \/ i = 5 \/ i = 6 \/ i = 7
      \/ i = 8 \/ i = 9 \/ i = 10 \/ i = 11 \/ i = 12 \/ i = 13
  OBVIOUS
<1> QED BY <1>1 DEF Ladder, Refusal, Ranks

\* Every rule has a rung, and every rung a rule or an earlier rung.
LEMMA RulesAreRungs ==
    ASSUME NEW c \in Contexts, NEW i \in 1..13
    PROVE  /\ Ranks[i] \in BrokenRules(c) => Fires(c, i)
           /\ Fires(c, i) => \/ Ranks[i] \in BrokenRules(c)
                             \/ i > 10 /\ Fires(c, 10)
<1>1. \/ i = 1 \/ i = 2 \/ i = 3 \/ i = 4 \/ i = 5 \/ i = 6 \/ i = 7
      \/ i = 8 \/ i = 9 \/ i = 10 \/ i = 11 \/ i = 12 \/ i = 13
  OBVIOUS
<1>2. Approval(c) <=> ~Execution(c)
  BY DEF Contexts, Facts, Approval, Execution
<1>3. Approval(c) => c.rec_status \in RecommendationStatuses \cup {"none", "missing"}
  BY DEF Contexts, Facts, Approval
<1>4. Fires(c, i) <=> Ground(c)[i]
  BY RungGround
<1>5. Fires(c, 10) <=> Approval(c) /\ c.rec_status = "missing"
  <2>1. Fires(c, 10) <=> Ground(c)[10]
    BY RungGround
  <2>2. Ground(c)[10] <=> ~Execution(c) /\ c.rec_status = "missing"
    BY DEF Ground
  <2> QED BY <1>2, <2>1, <2>2
<1>6. CASE i \notin {11, 12}
  <2>1. Ground(c)[1] <=> Execution(c) /\ c.actor # EXECUTOR
    BY DEF Ground
  <2>2. 3 \in BrokenRules(c) <=> Execution(c) /\ c.actor # EXECUTOR
    BY DEF BrokenRules
  <2>3. Ground(c)[2] <=> Execution(c) /\ c.command_status # "approved"
    BY DEF Ground
  <2>4. 4 \in BrokenRules(c) <=> Execution(c) /\ c.command_status # "approved"
    BY DEF BrokenRules
  <2>5. Ground(c)[3] <=> Execution(c) /\ c.approver = NoOne
    BY DEF Ground
  <2>6. 15 \in BrokenRules(c) <=> Execution(c) /\ c.approver = NoOne
    BY DEF BrokenRules
  <2>7. Ground(c)[4] <=> c.overdue
    BY DEF Ground
  <2>8. 20 \in BrokenRules(c) <=> c.overdue
    BY DEF BrokenRules
  <2>9. Ground(c)[5] <=> ClassOf(c) \in FOUR_EYES_CLASSES /\ c.approver = c.requested_by
    BY DEF Ground
  <2>10. 30 \in BrokenRules(c) <=> ClassOf(c) \in FOUR_EYES_CLASSES /\ c.approver = c.requested_by
    BY DEF BrokenRules
  <2>11. Ground(c)[6] <=> c.approver_role \notin APPROVE_ROLES[ClassOf(c)]
    BY DEF Ground
  <2>12. 40 \in BrokenRules(c) <=> c.approver_role \notin APPROVE_ROLES[ClassOf(c)]
    BY DEF BrokenRules
  <2>13. Ground(c)[7] <=> /\ c.requester_role # NoOne
                    /\ c.requester_role \notin REQUEST_ROLES[ClassOf(c)]
    BY DEF Ground
  <2>14. 50 \in BrokenRules(c) <=> /\ c.requester_role # NoOne
                    /\ c.requester_role \notin REQUEST_ROLES[ClassOf(c)]
    BY DEF BrokenRules
  <2>15. Ground(c)[8] <=> ~c.adapter_known
    BY DEF Ground
  <2>16. 60 \in BrokenRules(c) <=> ~c.adapter_known
    BY DEF BrokenRules
  <2>17. Ground(c)[9] <=> ~c.target_exists
    BY DEF Ground
  <2>18. 70 \in BrokenRules(c) <=> ~c.target_exists
    BY DEF BrokenRules
  <2>19. Ground(c)[10] <=> ~Execution(c) /\ c.rec_status = "missing"
    BY DEF Ground
  <2>20. 80 \in BrokenRules(c) <=> Approval(c) /\ c.rec_status = "missing"
    BY DEF BrokenRules
  <2>21. Ground(c)[13] <=> ~c.evidence_fresh
    BY DEF Ground
  <2>22. 110 \in BrokenRules(c) <=> ~c.evidence_fresh
    BY DEF BrokenRules
  <2>23. /\ Ranks[1] = 3 /\ Ranks[2] = 4 /\ Ranks[3] = 15 /\ Ranks[4] = 20
        /\ Ranks[5] = 30 /\ Ranks[6] = 40 /\ Ranks[7] = 50 /\ Ranks[8] = 60
        /\ Ranks[9] = 70 /\ Ranks[10] = 80 /\ Ranks[13] = 110
    BY DEF Ranks
  <2>24. Ranks[i] \in BrokenRules(c) <=> Ground(c)[i]
    BY <1>1, <1>2, <1>6, <2>1, <2>2, <2>3, <2>4, <2>5, <2>6, <2>7, <2>8, <2>9, <2>10, <2>11,
       <2>12, <2>13, <2>14, <2>15, <2>16, <2>17, <2>18, <2>19, <2>20, <2>21, <2>22, <2>23
  <2> QED BY <1>4, <2>24
<1>7. CASE i = 11
  <2>1. Ranks[11] = 90
    BY DEF Ranks
  <2>2. 90 \in BrokenRules(c) <=> Recommended(c) /\ ~c.rec_same_action
    BY DEF BrokenRules
  <2>3. Ground(c)[11] <=> ~Execution(c) /\ c.rec_status # "none" /\ ~c.rec_same_action
    BY DEF Ground
  <2> QED BY <1>2, <1>3, <1>4, <1>5, <1>7, <2>1, <2>2, <2>3
          DEF Recommended, RecommendationStatuses
<1>8. CASE i = 12
  <2>1. Ranks[12] = 100
    BY DEF Ranks
  <2>2. 100 \in BrokenRules(c) <=>
          Recommended(c) /\ c.rec_status \notin ActionableStatuses
    BY DEF BrokenRules
  <2>3. Ground(c)[12] <=> /\ ~Execution(c) /\ c.rec_status # "none"
                          /\ c.rec_status \notin ActionableStatuses
    BY DEF Ground
  <2> QED BY <1>2, <1>3, <1>4, <1>5, <1>8, <2>1, <2>2, <2>3
          DEF Recommended, RecommendationStatuses, ActionableStatuses
<1> QED BY <1>6, <1>7, <1>8

LEMMA RanksAscend ==
    /\ \A i, j \in 1..13 : i <= j <=> Ranks[i] <= Ranks[j]
    /\ \A i \in 1..13 : Ranks[i] \in Nat
<1>1. \A i \in 1..13 : \/ i = 1 \/ i = 2 \/ i = 3 \/ i = 4 \/ i = 5 \/ i = 6 \/ i = 7
                       \/ i = 8 \/ i = 9 \/ i = 10 \/ i = 11 \/ i = 12 \/ i = 13
  OBVIOUS
<1> QED BY <1>1 DEF Ranks

LEMMA RanksAreAll ==
    ASSUME NEW c, NEW r \in BrokenRules(c)
    PROVE  \E i \in 1..13 : r = Ranks[i]
<1>1. r \in {3, 4, 15, 20, 30, 40, 50, 60, 70, 80, 90, 100, 110}
  BY DEF BrokenRules
<1>2. /\ Ranks[1] = 3 /\ Ranks[2] = 4 /\ Ranks[3] = 15 /\ Ranks[4] = 20
      /\ Ranks[5] = 30 /\ Ranks[6] = 40 /\ Ranks[7] = 50 /\ Ranks[8] = 60
      /\ Ranks[9] = 70 /\ Ranks[10] = 80 /\ Ranks[11] = 90 /\ Ranks[12] = 100
      /\ Ranks[13] = 110
  BY DEF Ranks
<1> QED BY <1>1, <1>2

\* Of some rungs one is the first.
LEMMA FirstRung ==
    ASSUME NEW S \in SUBSET (1..13), S # {}
    PROVE  \E i \in S : \A j \in S : i <= j
<1> SUFFICES ASSUME \A i \in S : \E j \in S : j < i PROVE FALSE
  OBVIOUS
<1>0. \A i \in S : \E j \in 1..13 : j \in S /\ j < i
  OBVIOUS
<1>1. 1 \notin S
  BY <1>0
<1>2. 2 \notin S
  BY <1>0, <1>1
<1>3. 3 \notin S
  BY <1>0, <1>1, <1>2
<1>4. 4 \notin S
  BY <1>0, <1>1, <1>2, <1>3
<1>5. 5 \notin S
  BY <1>0, <1>1, <1>2, <1>3, <1>4
<1>6. 6 \notin S
  BY <1>0, <1>1, <1>2, <1>3, <1>4, <1>5
<1>7. 7 \notin S
  BY <1>0, <1>1, <1>2, <1>3, <1>4, <1>5, <1>6
<1>8. 8 \notin S
  BY <1>0, <1>1, <1>2, <1>3, <1>4, <1>5, <1>6, <1>7
<1>9. 9 \notin S
  BY <1>0, <1>1, <1>2, <1>3, <1>4, <1>5, <1>6, <1>7, <1>8
<1>10. 10 \notin S
  BY <1>0, <1>1, <1>2, <1>3, <1>4, <1>5, <1>6, <1>7, <1>8, <1>9
<1>11. 11 \notin S
  BY <1>0, <1>1, <1>2, <1>3, <1>4, <1>5, <1>6, <1>7, <1>8, <1>9, <1>10
<1>12. 12 \notin S
  BY <1>0, <1>1, <1>2, <1>3, <1>4, <1>5, <1>6, <1>7, <1>8, <1>9, <1>10, <1>11
<1>13. 13 \notin S
  BY <1>0, <1>1, <1>2, <1>3, <1>4, <1>5, <1>6, <1>7, <1>8, <1>9, <1>10, <1>11, <1>12
<1>14. PICK i \in S : TRUE
  OBVIOUS
<1>15. \/ i = 1 \/ i = 2 \/ i = 3 \/ i = 4 \/ i = 5 \/ i = 6 \/ i = 7
       \/ i = 8 \/ i = 9 \/ i = 10 \/ i = 11 \/ i = 12 \/ i = 13
  OBVIOUS
<1> QED BY <1>1, <1>2, <1>3, <1>4, <1>5, <1>6, <1>7, <1>8, <1>9, <1>10, <1>11,
           <1>12, <1>13, <1>14, <1>15

\* What stands in the ladder has thirteen rungs.
LEMMA LadderLength ==
    ASSUME NEW c
    PROVE  Len(Ladder(c)) = 13
BY DEF Ladder

\* No rule broken, no rung reached.
LEMMA PermitIsPermit ==
    ASSUME NEW c \in Contexts, BrokenRules(c) = {}
    PROVE  evaluate(c) = Permit
<1>1. \A i \in 1..13 : ~Ladder(c)[i][1]
  BY RulesAreRungs DEF Fires
<1>2. SelectInSeq(Ladder(c), LAMBDA refusal : refusal[1]) = 0
  BY <1>1, LadderLength DEF SelectInSeq
<1> QED BY <1>2 DEF evaluate

\* Otherwise the first rung reached stands for the rule of least rank.
LEMMA FirstRungIsLeastRank ==
    ASSUME NEW c \in Contexts, BrokenRules(c) # {}
    PROVE  \E i \in 1..13 :
              /\ SelectInSeq(Ladder(c), LAMBDA refusal : refusal[1]) = i
              /\ Ranks[i] \in BrokenRules(c)
              /\ \A r \in BrokenRules(c) : Ranks[i] <= r
<1> DEFINE S == {i \in 1..13 : Fires(c, i)}
<1>1. S # {}
  BY RanksAreAll, RulesAreRungs
<1>2. PICK i \in S : \A j \in S : i <= j
  BY <1>1, FirstRung
<1>3. Ranks[i] \in BrokenRules(c)
  <2>1. CASE i > 10 /\ Fires(c, 10)
    <3>1. 10 \in S
      BY <2>1
    <3> QED BY <1>2, <2>1, <3>1
  <2> QED BY <1>2, <2>1, RulesAreRungs
<1>4. ASSUME NEW r \in BrokenRules(c) PROVE Ranks[i] <= r
  <2>1. PICK j \in 1..13 : r = Ranks[j]
    BY RanksAreAll
  <2>2. j \in S
    BY <2>1, RulesAreRungs
  <2> QED BY <1>2, <2>1, <2>2, RanksAscend
<1>5. SelectInSeq(Ladder(c), LAMBDA refusal : refusal[1]) = i
  <2>1. {j \in 1..Len(Ladder(c)) : Ladder(c)[j][1]} = S
    BY LadderLength DEF Fires
  <2>2. SelectInSeq(Ladder(c), LAMBDA refusal : refusal[1])
          = IF S # {} THEN Min(S) ELSE 0
    BY <2>1 DEF SelectInSeq
  <2>3. Min(S) = i
    BY <1>2 DEF Min
  <2> QED BY <1>1, <2>2, <2>3
<1> QED BY <1>2, <1>3, <1>4, <1>5

\* The approval phase always names who approves, so nothing but the rules counts.
LEMMA InputIsValid ==
    ASSUME NEW c \in Contexts
    PROVE  violations(c) = BrokenRules(c)
BY ReferenceAssumption
   DEF Contexts, Facts, violations, ValidInput, Approval

\* The engine and the reference agree on every fact the platform can gather.
LEMMA SameDecision ==
    ASSUME NEW c \in Contexts
    PROVE  decision(c) = evaluate(c)
<1>1. CASE BrokenRules(c) = {}
  BY <1>1, InputIsValid, PermitIsPermit DEF decision
<1>2. CASE BrokenRules(c) # {}
  <2>1. PICK i \in 1..13 :
          /\ SelectInSeq(Ladder(c), LAMBDA refusal : refusal[1]) = i
          /\ Ranks[i] \in BrokenRules(c)
          /\ \A r \in BrokenRules(c) : Ranks[i] <= r
    BY <1>2, FirstRungIsLeastRank
  <2>2. evaluate(c) = [decision |-> Ladder(c)[i][2], error_code |-> Ladder(c)[i][3]]
    BY <2>1 DEF evaluate
  <2>3. (CHOOSE r \in BrokenRules(c) : \A s \in BrokenRules(c) : r <= s) = Ranks[i]
    <3>1. BrokenRules(c) \subseteq Nat
      BY DEF BrokenRules
    <3> QED BY <2>1, <3>1
  <2>4. decision(c) = Refusal(Ranks[i])
    BY <1>2, <2>3, InputIsValid DEF decision
  <2> QED BY <2>2, <2>4, RungAnswer
<1> QED BY <1>1, <1>2

----------------------------------------------------------------------------
(* What the two of them are asked, and what was answered.                  *)

Sound == /\ ctx \in Contexts
         /\ Asked => answer = decision(ctx)

LEMMA AnswersAreSound == Spec => []Sound
<1>1. Init => Sound
  BY DEF Init, Sound, Asked
<1>2. Sound /\ [Next]_vars => Sound'
  BY DEF Sound, Asked, Next, Ask, vars
<1> QED BY <1>1, <1>2, PTL DEF Spec

\* A rule broken is never an approval.
LEMMA ApprovedBreaksNothing ==
    ASSUME NEW c \in Contexts
    PROVE  decision(c).decision = "approved" <=> BrokenRules(c) = {}
BY InputIsValid DEF decision, Permit, Refusal

\* The rules that ask the same of an approval and of its execution.
LEMMA SameRulesAtTheGate ==
    ASSUME NEW c \in Contexts, Approval(c)
    PROVE  /\ violations(AtTheGate(c)) \subseteq violations(c)
BY ReferenceAssumption, InputIsValid
   DEF Contexts, Facts, Approval, AtTheGate, violations, ValidInput, BrokenRules,
       Execution, Recommended, ClassOf

(* evaluate(), the ladder in policy.py, and the Rego package that answers  *)
(* at run time give the same answer with the same error code to every      *)
(* question build_context can put, for any roles and any actions.          *)
THEOREM EngineAgrees == Spec => []EngineAgreesWithReference
<1>1. Sound => EngineAgreesWithReference
  BY SameDecision DEF Sound, EngineAgreesWithReference
<1> QED BY <1>1, AnswersAreSound, PTL

(* What review_command has just allowed, execution_gate allows on the same *)
(* facts: an approved command is refused at the gate only for what changed *)
(* since.                                                                  *)
THEOREM GateKeeps == Spec => []GateKeepsApproval
<1>1. Sound => GateKeepsApproval
  <2> SUFFICES ASSUME Sound, Asked, ctx.phase = "approval",
                      answer.decision = "approved"
               PROVE  decision(AtTheGate(ctx)).decision = "approved"
    BY DEF GateKeepsApproval
  <2>1. violations(ctx) = {}
    BY ApprovedBreaksNothing, InputIsValid DEF Sound
  <2>2. violations(AtTheGate(ctx)) = {}
    BY <2>1, SameRulesAtTheGate DEF Sound, Approval
  <2> QED BY <2>2 DEF decision, Permit
<1> QED BY <1>1, AnswersAreSound, PTL

(* The gate lets nothing through that a review of a command without        *)
(* recommendation would have refused: it does not trust the approval.      *)
THEOREM GateTrustsNone == Spec => []GateTrustsNoApproval
<1>1. Sound => GateTrustsNoApproval
  <2> SUFFICES ASSUME Sound, Asked, ctx.phase = "execution",
                      answer.decision = "approved"
               PROVE  decision([ctx EXCEPT !.phase = "approval"]).decision = "approved"
    BY DEF GateTrustsNoApproval
  <2> DEFINE back == [ctx EXCEPT !.phase = "approval"]
  <2>1. BrokenRules(ctx) = {}
    BY ApprovedBreaksNothing DEF Sound
  <2>2. ctx.approver # NoOne
    <3>1. 15 \in BrokenRules(ctx) <=> Execution(ctx) /\ ctx.approver = NoOne
      BY DEF BrokenRules
    <3> QED BY <2>1, <3>1 DEF Execution
  <2>3. violations(back) = {}
    BY <2>1, <2>2 DEF Sound, Contexts, Facts, violations, ValidInput, BrokenRules,
       Approval, Execution, Recommended, RecommendationStatuses, ClassOf
  <2> QED BY <2>3 DEF decision, Permit
<1> QED BY <1>1, AnswersAreSound, PTL
=============================================================================
