------------------------ MODULE RunLoopAuthorityProofs ------------------------
(***************************************************************************)
(* What a run may do on the user's authority only, for every value of the  *)
(* constants of RunLoop: implement a plan that deletes files, leave a      *)
(* block the Master declined to decide, and, as an implementation of       *)
(* RunPromise, end as the user did not say.  All three rest on the         *)
(* invariant of RunLoopProofs and on a small one of their own.             *)
(***************************************************************************)
EXTENDS RunLoopProofs

\* A run that has not left INIT, and one without a plan, has no risks to approve.
DeletionInv ==
  /\ NoUnapprovedDeletion
  /\ st.state = "INIT" => plan.risk = {}
  /\ plan.status = "none" => plan.risk = {}

\* The last commit of a block that is the user's says so, until a gate is bound.
OwnedInv ==
  userOwned /\ st.state = "USER_DECISION_REQUIRED" => st.last = "authority" \/ st.gate # NoGate

-----------------------------------------------------------------------------
\* Commits.

\* What commit_step_transition does to the fields the two are about.
LEMMA StepAuthority ==
  ASSUME NEW STATE base, NEW STATE sig, NEW STATE user, NEW STATE esc,
         base \in Committed, user \in BOOLEAN, user => sig = "ESCALATE",
         CommitStepTransition(base, sig, user, esc)
  PROVE  /\ st'.destructive = base.destructive
         /\ st'.state = "IMPLEMENT" =>
              \/ base.state = "IMPLEMENT"
              \/ /\ base.state = "PLAN_CONSENSUS_EVALUATE" /\ sig = "UNRESOLVED_ZERO"
                 /\ ~base.open /\ ~mode.planning
         /\ st'.state = "INIT" => base.state = "INIT"
         /\ userOwned' => st'.last = "authority"
         /\ base.state # "USER_DECISION_REQUIRED"
<1>1. PICK t \in LoopState :
        /\ IF mode.planning /\ base.state = "PLAN_CONSENSUS_EVALUATE" /\ sig = "UNRESOLVED_ZERO"
           THEN t = "FINISHED_PLAN" /\ ~base.open
           ELSE Transition(base.state, sig, View(base), base.counters, t)
        /\ st'.state = t /\ st'.last = LastOf(sig, user) /\ st'.destructive = base.destructive
        /\ userOwned' = (user /\ t = "USER_DECISION_REQUIRED")
  BY DEF CommitStepTransition, Committed
<1>2. base.state # "USER_DECISION_REQUIRED"
  BY <1>1 DEF Transition, TerminalStates
<1>3. t \in {"IMPLEMENT", "INIT"} =>
        \/ base.state = t
        \/ /\ t = "IMPLEMENT" /\ base.state = "PLAN_CONSENSUS_EVALUATE"
           /\ sig = "UNRESOLVED_ZERO" /\ ~base.open /\ ~mode.planning
  <2>1. CASE mode.planning /\ base.state = "PLAN_CONSENSUS_EVALUATE" /\ sig = "UNRESOLVED_ZERO"
    BY <1>1, <2>1
  <2>2. CASE ~(mode.planning /\ base.state = "PLAN_CONSENSUS_EVALUATE" /\ sig = "UNRESOLVED_ZERO")
    <3>1. Transition(base.state, sig, View(base), base.counters, t)
      BY <1>1, <2>2
    <3>2. QED
      BY <2>2, <3>1 DEF Transition, DirectEdges, View
  <2>3. QED
    BY <2>1, <2>2
<1>4. userOwned' => st'.last = "authority"
  BY <1>1 DEF LastOf
<1>5. QED
  BY <1>1, <1>2, <1>3, <1>4

\* What the other commits do to them.
LEMMA CommitAuthority ==
  ASSUME NEW STATE base, NEW STATE s, NEW STATE g, base \in Committed
  PROVE  /\ Commit(base, s, g).state = s
         /\ Commit(base, s, g).destructive = base.destructive
         /\ ClearBlocked(Commit(base, s, g)).state = s
         /\ ClearBlocked(Commit(base, s, g)).destructive = base.destructive
         /\ ClearGate(ClearBlocked(Commit(base, s, g))).state = s
         /\ ClearGate(ClearBlocked(Commit(base, s, g))).destructive = base.destructive
BY DEF Commit, ClearBlocked, ClearGate, Committed

LEMMA UnblockAuthority ==
  ASSUME NEW STATE base, NEW STATE t, base \in Committed, Unblock(base, t)
  PROVE  st'.state = t /\ st'.destructive = base.destructive /\ userOwned' = FALSE
BY CommitAuthority DEF Unblock

-----------------------------------------------------------------------------
\* Deletions.

\* A step changes the risks of the plan only while a planner works, never takes an
\* approval back, and reaches the implementer only with a plan that deletes nothing
\* or whose deletions are approved.
DeletionStep ==
  /\ plan'.risk = plan.risk \/ (st'.state = st.state /\ st.state \in PlannerStates)
  /\ plan'.status = "none" => plan.status = "none" /\ plan'.risk = plan.risk
  /\ st.destructive => st'.destructive
  /\ st'.state = "IMPLEMENT" =>
       st.state = "IMPLEMENT" \/ "destr" \notin plan'.risk \/ st'.destructive
  /\ st'.state = "INIT" => st.state = "INIT"

\* A commit_step_transition outside the evaluation of a plan.
LEMMA DeletionByTransition ==
  ASSUME NEW STATE base, NEW STATE sig, NEW STATE user, NEW STATE esc,
         base \in Committed, user \in BOOLEAN, user => sig = "ESCALATE",
         base.state = st.state, base.destructive = st.destructive,
         sig # "UNRESOLVED_ZERO" \/ st.state # "PLAN_CONSENSUS_EVALUATE",
         plan' = plan, CommitStepTransition(base, sig, user, esc)
  PROVE  DeletionStep
BY StepAuthority DEF DeletionStep

LEMMA DeletionSteps == IInv /\ DeletionInv /\ Next => DeletionStep
<1> SUFFICES ASSUME IInv, DeletionInv, Next PROVE DeletionStep
  OBVIOUS
<1>0. st \in Committed /\ plan \in Plans
  BY DEF IInv, TypeOK
<1>1. CASE RecordPool
  BY <1>0, <1>1 DEF RecordPool, Commit, Committed, DeletionStep, IInv, ProcessPlace
<1>2. CASE InitialRoute
  <2>1. st.state = "INIT" /\ plan' = plan
    BY <1>2 DEF InitialRoute, AtHead, IInv, ProcessPlace
  <2>2. CASE mode.master
    BY <1>0, <1>2, <2>1, <2>2, CommitAuthority DEF InitialRoute, DeletionStep, DeletionInv
  <2>3. CASE ~mode.master
    BY <1>0, <1>2, <2>1, <2>3, DeletionByTransition DEF InitialRoute
  <2>4. QED
    BY <2>2, <2>3
<1>3. CASE DispatchStep
  BY <1>0, <1>3, CommitAuthority DEF DispatchStep, DeletionStep
<1>4. CASE StepFails \/ ContractViolation \/ RouteByMachine \/ MasterRoutesCompletion
           \/ SettleSupervision \/ MasterLeavesSupervision
  <2>1. PICK sig \in {"ABORT", "ESCALATE", "OPERATIONAL_RETRY", "ARTIFACT_OK"}, user \in BOOLEAN,
             esc \in SUBSET (Codes \cup hand \cup carried) :
          /\ CommitStepTransition(st, sig, user, esc) /\ plan' = plan
          /\ user => sig = "ESCALATE"
    <3>1. Escalations \in SUBSET (Codes \cup hand \cup carried)
      BY <1>0 DEF Escalations, Committed
    <3>2. QED
      BY <1>4, <3>1 DEF StepFails, ContractViolation, RouteByMachine, MasterRoutesCompletion,
         SettleSupervision, MasterLeavesSupervision
  <2>2. QED
    BY <1>0, <2>1, DeletionByTransition
<1>5. CASE Promote
  BY <1>0, <1>5 DEF Promote, NewPlan, DeletionStep
<1>6. CASE Verify
  <2>1. st'.state = st.state /\ st'.destructive = st.destructive
    BY <1>0, <1>6 DEF Verify, Commit, Committed
  <2>2. plan'.risk = plan.risk /\ (plan'.status = "none" => plan.status = "none")
    BY <1>0, <1>6 DEF Verify, Plans
  <2>3. QED
    BY <2>1, <2>2 DEF DeletionStep
<1>7. CASE MasterSkipsPlanReview
  BY <1>0, <1>7, CommitAuthority DEF MasterSkipsPlanReview, LowRiskPlan, DeletionStep
<1>8. CASE MasterFinishesReview
  BY <1>0, <1>8, CommitAuthority DEF MasterFinishesReview, DeletionStep
<1>9. CASE MasterResolvesSupervision
  <2>1. PICK t \in SupervisionTargets(st.state, Escalations) :
          st' = [Commit(st, t, "TRANSITION_COMMITTED") EXCEPT !.pending = {}]
    BY <1>9 DEF MasterResolvesSupervision
  <2>2. t \notin {"IMPLEMENT", "INIT"}
    BY <2>1 DEF SupervisionTargets
  <2>3. st'.state = t /\ st'.destructive = st.destructive
    BY <1>0, <2>1 DEF Commit, Committed
  <2>4. QED
    BY <1>9, <2>2, <2>3 DEF MasterResolvesSupervision, DeletionStep
<1>10. CASE TestGate
  <2>1. PICK status \in TestStatus :
          LET base == [st EXCEPT !.test = status] IN
          \/ CommitStepTransition(base, status, FALSE, {})
          \/ CommitStepTransition(base, "ESCALATE", TRUE, {})
          \/ st' = ClearBlocked([Commit(base, "READY_FOR_MERGE", "TRANSITION_COMMITTED")
                                   EXCEPT !.counters.testFix = 0])
    BY <1>10 DEF TestGate
  <2> DEFINE base == [st EXCEPT !.test = status]
  <2>2. base \in Committed /\ base.state = st.state /\ base.destructive = st.destructive
    BY <1>0 DEF Committed
  <2>3. plan' = plan /\ st.state = "TEST_GATE"
    BY <1>10 DEF TestGate, AtHead
  <2>4. CASE st' = ClearBlocked([Commit(base, "READY_FOR_MERGE", "TRANSITION_COMMITTED")
                                   EXCEPT !.counters.testFix = 0])
    <3>1. st'.state = "READY_FOR_MERGE" /\ st'.destructive = st.destructive
      BY <1>0, <2>4 DEF ClearBlocked, Commit, Committed
    <3>2. QED
      BY <2>3, <3>1 DEF DeletionStep
  <2>5. CASE CommitStepTransition(base, status, FALSE, {})
             \/ CommitStepTransition(base, "ESCALATE", TRUE, {})
    <3> HIDE DEF base
    <3>1. QED
      BY <2>2, <2>3, <2>5, DeletionByTransition
  <2>6. QED
    BY <2>1, <2>4, <2>5
<1>11. CASE EvaluatePlan
  <2> DEFINE base == [st EXCEPT !.planRound = @ + 1]
  <2>1. base \in Committed /\ base.state = st.state /\ base.destructive = st.destructive
        /\ base.open = st.open
    BY <1>0 DEF Committed
  <2> HIDE DEF base
  <2>2. PICK sig \in {"ESCALATE", "UNRESOLVED_REMAIN", "UNRESOLVED_ZERO"},
             esc \in SUBSET Codes :
          /\ CommitStepTransition(base, sig, FALSE, esc)
          /\ sig = "UNRESOLVED_ZERO" =>
               ~(~st.open /\ ~mode.planning /\ "destr" \in plan.risk /\ ~st.destructive)
    <3> DEFINE approvable == ~st.open /\ ~mode.planning
               contract == IF approvable /\ "schema" \in plan.risk /\ ~plan.contract
                           THEN {"E03"} ELSE {}
               deletion == approvable /\ "destr" \in plan.risk /\ ~st.destructive
               signal(esc) == IF esc \cup contract # {} \/ deletion THEN "ESCALATE"
                              ELSE IF st.open THEN "UNRESOLVED_REMAIN" ELSE "UNRESOLVED_ZERO"
    <3>1. PICK esc \in RoundEscalations :
            CommitStepTransition(base, signal(esc), FALSE, esc \cup contract)
      BY <1>11 DEF EvaluatePlan, base
    <3>2. esc \cup contract \in SUBSET Codes
      BY RunLoopConstants DEF RoundEscalations, Codes
    <3>3. /\ signal(esc) \in {"ESCALATE", "UNRESOLVED_REMAIN", "UNRESOLVED_ZERO"}
          /\ signal(esc) = "UNRESOLVED_ZERO" => ~deletion
      OBVIOUS
    <3> HIDE DEF signal, contract
    <3>4. QED
      BY <3>1, <3>2, <3>3
  <2>3. /\ st'.destructive = base.destructive
        /\ st'.state = "IMPLEMENT" =>
             \/ base.state = "IMPLEMENT"
             \/ sig = "UNRESOLVED_ZERO" /\ ~base.open /\ ~mode.planning
        /\ st'.state = "INIT" => base.state = "INIT"
    BY <2>1, <2>2, StepAuthority
  <2>4. QED
    BY <1>0, <1>11, <2>1, <2>2, <2>3 DEF EvaluatePlan, DeletionStep, Committed
<1>12. CASE EvaluateCode
  <2> DEFINE base == [st EXCEPT !.codeRound = @ + 1]
  <2>1. base \in Committed /\ base.state = st.state /\ base.destructive = st.destructive
    BY <1>0 DEF Committed
  <2>2. plan' = plan /\ st.state = "CONSENSUS_EVALUATE"
    BY <1>12 DEF EvaluateCode, AtHead
  <2> HIDE DEF base
  <2>3. \/ \E sig \in {"ESCALATE", "UNRESOLVED_REMAIN", "UNRESOLVED_ZERO"},
              esc \in RoundEscalations : CommitStepTransition(base, sig, FALSE, esc)
        \/ CommitStepTransition(base, "ESCALATE", TRUE, {})
        \/ st' = ClearBlocked(Commit(base, "READY_FOR_MERGE", "TRANSITION_COMMITTED"))
    BY <1>12 DEF EvaluateCode, base
  <2>4. CASE st' = ClearBlocked(Commit(base, "READY_FOR_MERGE", "TRANSITION_COMMITTED"))
    BY <2>1, <2>2, <2>4, CommitAuthority DEF DeletionStep
  <2>5. QED
    BY <2>1, <2>2, <2>3, <2>4, DeletionByTransition
<1>13. CASE MasterRecovers
  <2>1. PICK t \in RecoveryTargets(st.blocked) :
          st' = ClearGate(ClearBlocked(Commit(st, t, "STEP_PENDING")))
    BY <1>13 DEF MasterRecovers
  <2>2. t \notin {"IMPLEMENT", "INIT"}
    BY <2>1 DEF RecoveryTargets
  <2>3. QED
    BY <1>0, <1>13, <2>1, <2>2, CommitAuthority DEF MasterRecovers, DeletionStep
<1>14. CASE MasterAborts
  BY <1>0, <1>14, CommitAuthority DEF MasterAborts, DeletionStep
<1>15. CASE MasterAsksUser
  BY <1>0, <1>15 DEF MasterAsksUser, Commit, Committed, DeletionStep
<1>16. CASE EnsureGate
  BY <1>0, <1>16 DEF EnsureGate, Commit, Committed, DeletionStep
<1>17. CASE ResumeFinalGate
  <2>1. CommitStepTransition(st, answer, FALSE, {}) /\ plan' = plan /\ st.state = "HUMAN_GATE"
    BY <1>17 DEF ResumeFinalGate, Answered, AtHead
  <2>2. QED
    BY <1>0, <2>1, DeletionByTransition
<1>18. CASE RecordFinalDecision
  BY <1>0, <1>18, CommitAuthority DEF RecordFinalDecision, DeletionStep
<1>19. CASE UserSendsBack
  <2>1. PICK t \in {"REJECTED", "PLAN_REVISE", "FIX"} : Unblock(st, t)
    BY <1>19 DEF UserSendsBack
  <2>2. QED
    BY <1>0, <1>19, <2>1, UnblockAuthority DEF UserSendsBack, DeletionStep
<1>20. CASE UserApprovesDeletion
  <2> DEFINE base == [st EXCEPT !.destructive = @ \/ "destr" \in plan.risk]
  <2>1. base \in Committed /\ base.destructive = (st.destructive \/ "destr" \in plan.risk)
    BY <1>0 DEF Committed
  <2>2. PICK t \in LoopState : <<st.blocked, t>> \in ApprovedTarget /\ Unblock(base, t)
    BY <1>20 DEF UserApprovesDeletion
  <2>3. t # "INIT"
    BY <2>2 DEF ApprovedTarget
  <2> HIDE DEF base
  <2>4. st'.state = t /\ st'.destructive = base.destructive
    BY <2>1, <2>2, UnblockAuthority
  <2>5. QED
    BY <1>20, <2>1, <2>3, <2>4 DEF UserApprovesDeletion, DeletionStep
<1>21. CASE UserApprovesEscalations
  <2> DEFINE base == [st EXCEPT !.keys = @ \cup st.pending]
  <2>1. base \in Committed /\ base.destructive = st.destructive
    BY <1>0 DEF Committed
  <2>2. plan'.risk = plan.risk /\ plan'.status = plan.status
    BY <1>0, <1>21 DEF UserApprovesEscalations, Plans
  <2>3. CASE st' = ClearGate([Commit(base, "USER_DECISION_REQUIRED", "TRANSITION_COMMITTED")
                                EXCEPT !.pending = {}])
    <3>1. st'.state = "USER_DECISION_REQUIRED" /\ st'.destructive = st.destructive
      BY <1>0, <2>3 DEF ClearGate, Commit, Committed
    <3>2. QED
      BY <2>2, <3>1 DEF DeletionStep
  <2>4. ASSUME NEW t \in LoopState, <<st.blocked, t>> \in ApprovedTarget, Unblock(base, t),
               ~(/\ st.blocked = "PLAN_CONSENSUS_EVALUATE" /\ ~st.destructive
                 /\ plan.status # "none" /\ "destr" \in plan.risk)
        PROVE  DeletionStep
    <3>1. t # "INIT" /\ (t = "IMPLEMENT" => st.blocked = "PLAN_CONSENSUS_EVALUATE")
      BY <2>4 DEF ApprovedTarget
    <3>2. st'.state = t /\ st'.destructive = st.destructive
      <4> HIDE DEF base
      <4>1. QED
        BY <2>1, <2>4, UnblockAuthority
    <3>3. QED
      BY <2>2, <2>4, <3>1, <3>2 DEF DeletionStep, DeletionInv
  <2>5. QED
    BY <1>21, <2>3, <2>4 DEF UserApprovesEscalations
<1>22. CASE BudgetSpent
  BY <1>0, <1>22, CommitAuthority DEF BudgetSpent, DeletionStep
<1>23. CASE Answer \/ WaitForAnswer \/ ReturnEndState \/ Refuse \/ Stop \/ Resume
  BY <1>0, <1>23 DEF Answer, WaitForAnswer, ReturnEndState, Refuse, Stop, Resume, DeletionStep
<1>24. QED
  BY <1>1, <1>2, <1>3, <1>4, <1>5, <1>6, <1>7, <1>8, <1>9, <1>10, <1>11, <1>12, <1>13, <1>14,
     <1>15, <1>16, <1>17, <1>18, <1>19, <1>20, <1>21, <1>22, <1>23 DEF Next, Step

\* No plan that deletes or renames files reaches IMPLEMENT before the user has
\* approved a deletion: by the table of transition(), by the first route of a Master,
\* by its short cut past the review, or by an approval given at a gate.
THEOREM DeletionsAreApproved == Spec => []NoUnapprovedDeletion
<1>1. Init => DeletionInv
  BY DEF Init, DeletionInv, NoUnapprovedDeletion, NewPlan
<1>2. IInv /\ DeletionInv /\ [Next]_vars => DeletionInv'
  <2> SUFFICES ASSUME IInv, DeletionInv, [Next]_vars PROVE DeletionInv'
    OBVIOUS
  <2>1. CASE Next
    <3>1. DeletionStep
      BY <2>1, DeletionSteps
    <3>2. QED
      BY <3>1 DEF DeletionStep, DeletionInv, NoUnapprovedDeletion, PlannerStates
  <2>2. CASE UNCHANGED vars
    BY <2>2 DEF vars, DeletionInv, NoUnapprovedDeletion
  <2>3. QED
    BY <2>1, <2>2
<1>3. DeletionInv => NoUnapprovedDeletion
  BY DEF DeletionInv
<1>4. QED
  BY <1>1, <1>2, <1>3, Invariance, PTL DEF Spec

-----------------------------------------------------------------------------
\* The user's blocks.

\* A step that enters a block, or stays in one, leaves it to the user only with a
\* commit that says so or with a gate; what leaves a block of the user's is an answer
\* or the limits.
OwnedStep ==
  /\ OwnedInv'
  /\ userOwned /\ st.state = "USER_DECISION_REQUIRED" /\ st'.state # st.state
       => \/ st.gate # NoGate /\ answer # "NONE"
          \/ st'.state = "FAILED" /\ pc' = "down"

\* A commit_step_transition: it never starts in a block.
LEMMA OwnedByTransition ==
  ASSUME NEW STATE base, NEW STATE sig, NEW STATE user, NEW STATE esc,
         base \in Committed, user \in BOOLEAN, user => sig = "ESCALATE",
         base.state = st.state, CommitStepTransition(base, sig, user, esc)
  PROVE  OwnedStep
BY StepAuthority DEF OwnedStep, OwnedInv

\* A commit outside a block, to a state that is none.
LEMMA OwnedElsewhere ==
  ASSUME st.state # "USER_DECISION_REQUIRED", st'.state # "USER_DECISION_REQUIRED"
  PROVE  OwnedStep
BY DEF OwnedStep, OwnedInv

LEMMA OwnedSteps == IInv /\ OwnedInv /\ Next => OwnedStep
<1> SUFFICES ASSUME IInv, OwnedInv, Next PROVE OwnedStep
  OBVIOUS
<1>0. st \in Committed /\ plan \in Plans
  BY DEF IInv, TypeOK
<1>1. CASE \/ RecordPool \/ InitialRoute \/ DispatchStep \/ Verify \/ MasterSkipsPlanReview
           \/ MasterFinishesReview \/ MasterResolvesSupervision \/ RecordFinalDecision
  <2>1. st.state # "USER_DECISION_REQUIRED"
    BY <1>1 DEF RecordPool, InitialRoute, DispatchStep, Verify, MasterSkipsPlanReview,
       MasterFinishesReview, MasterResolvesSupervision, RecordFinalDecision, Routing, AtHead,
       IInv, ProcessPlace, WorkerStates, PlannerStates, ImplementerStates, ReviewerStates
  <2>2. CASE InitialRoute
    <3>1. CASE mode.master
      BY <1>0, <2>1, <2>2, <3>1, CommitAuthority, OwnedElsewhere DEF InitialRoute
    <3>2. CASE ~mode.master
      BY <1>0, <2>2, <3>2, OwnedByTransition DEF InitialRoute
    <3>3. QED
      BY <3>1, <3>2
  <2>3. CASE MasterResolvesSupervision
    <3>1. PICK t \in SupervisionTargets(st.state, Escalations) :
            st' = [Commit(st, t, "TRANSITION_COMMITTED") EXCEPT !.pending = {}]
      BY <2>3 DEF MasterResolvesSupervision
    <3>2. t # "USER_DECISION_REQUIRED"
      BY <3>1 DEF SupervisionTargets
    <3>3. st'.state = t
      BY <1>0, <3>1 DEF Commit, Committed
    <3>4. QED
      BY <2>1, <3>2, <3>3, OwnedElsewhere
  <2>4. CASE RecordPool \/ Verify
    <3>1. st'.state = st.state
      <4>1. CASE RecordPool
        BY <1>0, <4>1 DEF RecordPool, Commit, Committed, IInv, ProcessPlace
      <4>2. CASE Verify
        BY <1>0, <4>2 DEF Verify, Commit, Committed
      <4>3. QED
        BY <2>4, <4>1, <4>2
    <3>2. QED
      BY <2>1, <3>1, OwnedElsewhere
  <2>5. CASE DispatchStep \/ MasterSkipsPlanReview \/ MasterFinishesReview
             \/ RecordFinalDecision
    <3>1. st'.state \in {st.state, "IMPLEMENT", "READY_FOR_MERGE"}
      BY <1>0, <2>5, CommitAuthority DEF DispatchStep, MasterSkipsPlanReview,
         MasterFinishesReview, RecordFinalDecision
    <3>2. QED
      BY <2>1, <3>1, OwnedElsewhere
  <2>6. QED
    BY <1>1, <2>2, <2>3, <2>4, <2>5
<1>2. CASE StepFails \/ ContractViolation \/ RouteByMachine \/ MasterRoutesCompletion
           \/ SettleSupervision \/ MasterLeavesSupervision \/ ResumeFinalGate
  <2>1. PICK sig \in {"ABORT", "ESCALATE", "OPERATIONAL_RETRY", "ARTIFACT_OK", answer},
             user \in BOOLEAN, esc \in SUBSET (Codes \cup hand \cup carried) :
          CommitStepTransition(st, sig, user, esc) /\ (user => sig = "ESCALATE")
    <3>1. Escalations \in SUBSET (Codes \cup hand \cup carried)
      BY <1>0 DEF Escalations, Committed
    <3>2. QED
      BY <1>2, <3>1 DEF StepFails, ContractViolation, RouteByMachine, MasterRoutesCompletion,
         SettleSupervision, MasterLeavesSupervision, ResumeFinalGate
  <2>2. QED
    BY <1>0, <2>1, OwnedByTransition
<1>3. CASE TestGate
  <2>1. PICK status \in TestStatus :
          LET base == [st EXCEPT !.test = status] IN
          \/ CommitStepTransition(base, status, FALSE, {})
          \/ CommitStepTransition(base, "ESCALATE", TRUE, {})
          \/ st' = ClearBlocked([Commit(base, "READY_FOR_MERGE", "TRANSITION_COMMITTED")
                                   EXCEPT !.counters.testFix = 0])
    BY <1>3 DEF TestGate
  <2> DEFINE base == [st EXCEPT !.test = status]
  <2>2. base \in Committed /\ base.state = st.state
    BY <1>0 DEF Committed
  <2>3. st.state = "TEST_GATE"
    BY <1>3 DEF TestGate, AtHead
  <2>4. CASE st' = ClearBlocked([Commit(base, "READY_FOR_MERGE", "TRANSITION_COMMITTED")
                                   EXCEPT !.counters.testFix = 0])
    <3>1. st'.state = "READY_FOR_MERGE"
      BY <1>0, <2>4 DEF ClearBlocked, Commit, Committed
    <3>2. QED
      BY <2>3, <3>1, OwnedElsewhere
  <2>5. CASE CommitStepTransition(base, status, FALSE, {})
             \/ CommitStepTransition(base, "ESCALATE", TRUE, {})
    <3> HIDE DEF base
    <3>1. QED
      BY <2>2, <2>5, OwnedByTransition
  <2>6. QED
    BY <2>1, <2>4, <2>5
<1>4. CASE EvaluatePlan
  <2> DEFINE base == [st EXCEPT !.planRound = @ + 1]
  <2>1. base \in Committed /\ base.state = st.state
    BY <1>0 DEF Committed
  <2> HIDE DEF base
  <2>2. PICK sig \in {"ESCALATE", "UNRESOLVED_REMAIN", "UNRESOLVED_ZERO"},
             esc \in SUBSET Codes : CommitStepTransition(base, sig, FALSE, esc)
    BY <1>4, RunLoopConstants DEF EvaluatePlan, base, RoundEscalations, Codes
  <2>3. QED
    BY <2>1, <2>2, OwnedByTransition
<1>5. CASE EvaluateCode
  <2> DEFINE base == [st EXCEPT !.codeRound = @ + 1]
  <2>1. base \in Committed /\ base.state = st.state /\ st.state = "CONSENSUS_EVALUATE"
    BY <1>0, <1>5 DEF Committed, EvaluateCode, AtHead
  <2> HIDE DEF base
  <2>2. \/ \E sig \in {"ESCALATE", "UNRESOLVED_REMAIN", "UNRESOLVED_ZERO"},
              esc \in RoundEscalations : CommitStepTransition(base, sig, FALSE, esc)
        \/ CommitStepTransition(base, "ESCALATE", TRUE, {})
        \/ st' = ClearBlocked(Commit(base, "READY_FOR_MERGE", "TRANSITION_COMMITTED"))
    BY <1>5 DEF EvaluateCode, base
  <2>3. CASE st' = ClearBlocked(Commit(base, "READY_FOR_MERGE", "TRANSITION_COMMITTED"))
    BY <2>1, <2>3, CommitAuthority, OwnedElsewhere
  <2>4. QED
    BY <2>1, <2>2, <2>3, OwnedByTransition
\* The Master does not decide a block whose last commit left it to the user, and
\* none that has a gate.
<1>6. CASE MasterRecovers \/ MasterAborts
  <2>1. ~userOwned
    BY <1>6 DEF MasterRecovers, MasterAborts, MasterMayRecover, OwnedInv
  <2>2. ~userOwned'
    BY <1>6, <2>1 DEF MasterRecovers, MasterAborts, history
  <2>3. QED
    BY <2>1, <2>2 DEF OwnedStep, OwnedInv
<1>7. CASE MasterAsksUser
  <2>1. st'.state = st.state /\ st'.last = "authority"
    BY <1>0, <1>7 DEF MasterAsksUser, AtHead, Commit, Committed
  <2>2. QED
    BY <2>1 DEF OwnedStep, OwnedInv
<1>8. CASE EnsureGate
  <2>1. st'.state = st.state /\ st'.gate = [kind |-> GateKind, options |-> GateOptions]
    BY <1>0, <1>8 DEF EnsureGate, Commit, Committed
  <2>2. GateKind # "NONE"
    BY DEF GateKind
  <2>3. st'.gate # NoGate
    BY <2>1, <2>2 DEF NoGate
  <2>4. QED
    BY <2>1, <2>3 DEF OwnedStep, OwnedInv
<1>9. CASE UserSendsBack \/ UserApprovesDeletion \/ UserApprovesEscalations
  <2>1. st.gate # NoGate /\ answer # "NONE" /\ userOwned' = FALSE
    BY <1>9 DEF UserSendsBack, UserApprovesDeletion, UserApprovesEscalations, Unblock, Answered
  <2>2. QED
    BY <2>1 DEF OwnedStep, OwnedInv
<1>10. CASE BudgetSpent
  <2>1. st'.state = "FAILED" /\ pc' = "down"
    BY <1>0, <1>10, CommitAuthority DEF BudgetSpent, Exit
  <2>2. QED
    BY <2>1 DEF OwnedStep, OwnedInv
<1>11. CASE Promote \/ Answer \/ WaitForAnswer \/ ReturnEndState \/ Refuse \/ Stop \/ Resume
  <2>1. st' = st /\ userOwned' = userOwned
    BY <1>11 DEF Promote, Answer, WaitForAnswer, ReturnEndState, Refuse, Stop, Resume, history
  <2>2. QED
    BY <2>1 DEF OwnedStep, OwnedInv
<1>12. QED
  BY <1>1, <1>2, <1>3, <1>4, <1>5, <1>6, <1>7, <1>8, <1>9, <1>10, <1>11 DEF Next, Step

\* The Master does not take back a block it left to the user, also after a restart
\* and between the commit that declines it and the one that binds the gate.
THEOREM UserDecidesOwnedBlocks == Spec => UserOwnedBlockWaitsForUser
<1> DEFINE Waits ==
             userOwned /\ st.state = "USER_DECISION_REQUIRED" /\ st'.state # st.state
               => \/ st.gate # NoGate /\ answer # "NONE"
                  \/ st'.state = "FAILED" /\ pc' = "down"
<1>1. Init => OwnedInv
  BY DEF Init, OwnedInv
<1>2. IInv /\ OwnedInv /\ [Next]_vars => OwnedInv'
  BY OwnedSteps DEF OwnedStep, OwnedInv, vars
<1>3. IInv /\ OwnedInv /\ [Next]_vars => [Waits]_vars
  BY OwnedSteps DEF OwnedStep
<1>4. QED
  BY <1>1, <1>2, <1>3, Invariance, PTL DEF Spec, UserOwnedBlockWaitsForUser

-----------------------------------------------------------------------------
\* What the user sees.

\* Only the final gate stays bound outside a block, and only while its decision
\* has not been recorded; a process that is about to ask has no gate yet.
GateInv ==
  /\ st.gate # NoGate =>
       st.gate.kind = "FINAL" \/ st.state \in {"USER_DECISION_REQUIRED", "FAILED"}
  /\ pc = "escalated" => st.gate = NoGate
  /\ pc = "recording" => st.gate # NoGate /\ answer # "NONE"

\* What a step owes the user.
PublicStep == GateInv' /\ [Promise!Next]_(Promise!vars)

\* How a run at work goes on by itself.
Onwards ==
  \/ Phase' \in {"working", "offered", "blocked", "failed"}
  \/ Phase' = "planned" /\ mode.planning
  \/ Phase' = "ready" /\ mode.master

LEMMA GateBound ==
  ASSUME NEW s \in Committed
  PROVE  s.gate = NoGate <=> s.gate.kind = "NONE"
BY DEF Committed, Gates, GateKinds, NoGate

\* A commit of a run at work keeps its gate, if it has one.
LEMMA WorkIsPublic ==
  ASSUME GateInv, Phase = "working", Onwards,
         st'.gate = st.gate, answer' = answer, mode' = mode,
         pc' \notin {"escalated", "recording"}
  PROVE  PublicStep
<1>1. st.state \notin {"USER_DECISION_REQUIRED", "FAILED"}
  BY DEF Phase
<1>2. GateInv'
  BY <1>1 DEF GateInv
<1>3. CASE Phase' = "working"
  BY <1>2, <1>3 DEF PublicStep, Promise!vars
<1>4. CASE Phase' # "working"
  <2>1. Promise!Work
    BY <1>4 DEF Onwards, Promise!Work, Promise!modes
  <2>2. QED
    BY <1>2, <2>1 DEF PublicStep, Promise!Next
<1>5. QED
  BY <1>3, <1>4

\* A commit_step_transition keeps the gate, and only the final gate and a planning
\* run lead to an end.
LEMMA StepGate ==
  ASSUME NEW STATE base, NEW STATE sig, NEW STATE user, NEW STATE esc,
         base \in Committed, CommitStepTransition(base, sig, user, esc)
  PROVE  /\ base.state \notin TerminalStates
         /\ st'.gate = base.gate
         /\ st'.state \in {"READY_FOR_MERGE", "REJECTED"} => base.state = "HUMAN_GATE"
         /\ st'.state = "FINISHED_PLAN" => mode.planning
<1>1. PICK t \in LoopState :
        /\ IF mode.planning /\ base.state = "PLAN_CONSENSUS_EVALUATE" /\ sig = "UNRESOLVED_ZERO"
           THEN t = "FINISHED_PLAN" /\ ~base.open
           ELSE Transition(base.state, sig, View(base), base.counters, t)
        /\ st'.state = t /\ st'.gate = base.gate
  BY DEF CommitStepTransition, Committed
<1>2. base.state \notin TerminalStates
  BY <1>1 DEF Transition, TerminalStates
<1>3. /\ t \in {"READY_FOR_MERGE", "REJECTED"} => base.state = "HUMAN_GATE"
      /\ t = "FINISHED_PLAN" => mode.planning
  <2>1. CASE mode.planning /\ base.state = "PLAN_CONSENSUS_EVALUATE" /\ sig = "UNRESOLVED_ZERO"
    BY <1>1, <2>1
  <2>2. CASE ~(mode.planning /\ base.state = "PLAN_CONSENSUS_EVALUATE" /\ sig = "UNRESOLVED_ZERO")
    <3>1. Transition(base.state, sig, View(base), base.counters, t)
      BY <1>1, <2>2
    <3>2. base.state \notin {"READY_FOR_MERGE", "REJECTED", "FINISHED_PLAN"}
      BY <1>2 DEF TerminalStates
    <3>3. QED
      BY <3>1, <3>2 DEF Transition, DirectEdges
  <2>3. QED
    BY <2>1, <2>2
<1>4. QED
  BY <1>1, <1>2, <1>3

\* One of a run at work.
LEMMA TransitionIsPublic ==
  ASSUME GateInv,
         NEW STATE base, NEW STATE sig, NEW STATE esc,
         base \in Committed, base.state = st.state, base.gate = st.gate,
         st.state # "HUMAN_GATE",
         CommitStepTransition(base, sig, FALSE, esc) \/ CommitStepTransition(base, sig, TRUE, esc),
         answer' = answer, mode' = mode, pc' \notin {"escalated", "recording"}
  PROVE  PublicStep
<1>1. PICK user \in BOOLEAN : CommitStepTransition(base, sig, user, esc)
  OBVIOUS
<1>2. /\ st.state \notin TerminalStates /\ st'.gate = st.gate
      /\ st'.state \notin {"READY_FOR_MERGE", "REJECTED"}
      /\ st'.state = "FINISHED_PLAN" => mode.planning
  BY <1>1, StepGate
<1>3. Phase = "working"
  BY <1>2 DEF Phase, TerminalStates
<1>4. Onwards
  BY <1>2 DEF Onwards, Phase
<1>5. QED
  BY <1>2, <1>3, <1>4, WorkIsPublic

\* Another commit of a run at work, to a state that is neither an end nor an offer,
LEMMA CommitIsPublic ==
  ASSUME GateInv, st.state \notin TerminalStates \cup {"HUMAN_GATE"},
         st'.state \notin TerminalStates \cup {"HUMAN_GATE"},
         st'.gate = st.gate, answer' = answer, mode' = mode,
         pc' \notin {"escalated", "recording"}
  PROVE  PublicStep
<1>1. Phase = "working" /\ Phase' = "working"
  BY DEF Phase, TerminalStates
<1>2. QED
  BY <1>1, WorkIsPublic DEF Onwards

\* and the short cut of a Master to an end.
LEMMA FinishIsPublic ==
  ASSUME GateInv, st.state \notin TerminalStates \cup {"HUMAN_GATE"},
         st'.state = "READY_FOR_MERGE", mode.master,
         st'.gate = st.gate, answer' = answer, mode' = mode,
         pc' \notin {"escalated", "recording"}
  PROVE  PublicStep
<1>1. Phase = "working" /\ Phase' = "ready"
  BY DEF Phase, TerminalStates
<1>2. QED
  BY <1>1, WorkIsPublic DEF Onwards

\* A step that commits nothing new and asks nobody.
LEMMA SilentIsPublic ==
  ASSUME GateInv, st'.state = st.state, st'.gate = st.gate, answer' = answer, mode' = mode,
         pc' = "escalated" => st.gate = NoGate,
         pc' # "recording"
  PROVE  PublicStep
BY DEF GateInv, PublicStep, Promise!vars, Phase

\* What the commits keep of a generation's gate.
LEMMA CommitGate ==
  ASSUME NEW STATE base, NEW STATE s, NEW STATE g, base \in Committed
  PROVE  /\ Commit(base, s, g).state = s
         /\ Commit(base, s, g).gate = base.gate
         /\ ClearBlocked(Commit(base, s, g)).state = s
         /\ ClearBlocked(Commit(base, s, g)).gate = base.gate
         /\ ClearGate(ClearBlocked(Commit(base, s, g))).state = s
         /\ ClearGate(ClearBlocked(Commit(base, s, g))).gate = NoGate
BY DEF Commit, ClearBlocked, ClearGate, Committed

\* The worker steps and what becomes of their results.
LEMMA WorkerIsPublic ==
  ASSUME IInv, GateInv,
         \/ RecordPool \/ InitialRoute
         \/ DispatchStep \/ StepFails \/ Promote \/ ContractViolation \/ Verify
         \/ RouteByMachine \/ MasterRoutesCompletion \/ MasterSkipsPlanReview
         \/ MasterFinishesReview \/ MasterLeavesSupervision \/ MasterResolvesSupervision
         \/ SettleSupervision
  PROVE  PublicStep
<1>1. st \in Committed
  BY DEF IInv, TypeOK
<1>2. st.state \notin TerminalStates \cup {"HUMAN_GATE"}
  BY DEF RecordPool, InitialRoute, DispatchStep, StepFails, Promote, ContractViolation, Verify,
     RouteByMachine, MasterRoutesCompletion, MasterSkipsPlanReview, MasterFinishesReview,
     MasterLeavesSupervision, MasterResolvesSupervision, SettleSupervision, Routing, AtHead,
     IInv, ProcessPlace, WorkerStates, PlannerStates, ImplementerStates, ReviewerStates,
     TerminalStates
<1>3. /\ answer' = answer /\ mode' = mode
      /\ pc' \notin {"escalated", "recording"}
  BY DEF RecordPool, InitialRoute, DispatchStep, StepFails, Promote, ContractViolation, Verify,
     RouteByMachine, MasterRoutesCompletion, MasterSkipsPlanReview, MasterFinishesReview,
     MasterLeavesSupervision, MasterResolvesSupervision, SettleSupervision, Iterate
<1>4. CASE RecordPool \/ DispatchStep \/ Promote \/ Verify
  <2>1. st'.state = st.state /\ st'.gate = st.gate
    <3>1. CASE RecordPool
      BY <1>1, <3>1 DEF RecordPool, Commit, Committed, IInv, ProcessPlace
    <3>2. CASE DispatchStep
      BY <1>1, <3>2, CommitGate DEF DispatchStep
    <3>3. CASE Promote
      BY <3>3 DEF Promote
    <3>4. CASE Verify
      <4>1. PICK sigs, o, dropped :
              st' = [Commit(st, st.state, "ARTIFACT_VERIFIED") EXCEPT
                       !.open = o, !.pending = sigs \ dropped]
        BY <3>4 DEF Verify
      <4>2. QED
        BY <1>1, <4>1 DEF Commit, Committed
    <3>5. QED
      BY <1>4, <3>1, <3>2, <3>3, <3>4
  <2>2. QED
    BY <1>2, <1>3, <2>1, CommitIsPublic
<1>5. CASE InitialRoute
  <2>1. CASE mode.master
    <3>1. st'.state \in {"PLAN", "IMPLEMENT"} /\ st'.gate = st.gate
      BY <1>1, <1>5, <2>1, CommitGate DEF InitialRoute
    <3>2. st'.state \notin TerminalStates \cup {"HUMAN_GATE"}
      BY <3>1 DEF TerminalStates
    <3>3. QED
      BY <1>2, <1>3, <3>1, <3>2, CommitIsPublic
  <2>2. CASE ~mode.master
    BY <1>1, <1>2, <1>3, <1>5, <2>2, TransitionIsPublic DEF InitialRoute
  <2>3. QED
    BY <2>1, <2>2
<1>6. CASE StepFails \/ ContractViolation \/ RouteByMachine \/ MasterRoutesCompletion
           \/ SettleSupervision \/ MasterLeavesSupervision
  <2>1. PICK sig \in {"ABORT", "ESCALATE", "OPERATIONAL_RETRY", "ARTIFACT_OK"},
             esc \in SUBSET (Codes \cup hand \cup carried) :
          CommitStepTransition(st, sig, FALSE, esc) \/ CommitStepTransition(st, sig, TRUE, esc)
    <3>1. Escalations \in SUBSET (Codes \cup hand \cup carried)
      BY <1>1 DEF Escalations, Committed
    <3>2. QED
      BY <1>6, <3>1 DEF StepFails, ContractViolation, RouteByMachine, MasterRoutesCompletion,
         SettleSupervision, MasterLeavesSupervision
  <2>2. QED
    BY <1>1, <1>2, <1>3, <2>1, TransitionIsPublic
<1>7. CASE MasterSkipsPlanReview
  <2>1. st'.state = "IMPLEMENT" /\ st'.gate = st.gate
    BY <1>1, <1>7, CommitGate DEF MasterSkipsPlanReview
  <2>2. QED
    BY <1>2, <1>3, <2>1, CommitIsPublic DEF TerminalStates
<1>8. CASE MasterFinishesReview
  <2>1. st'.state = "READY_FOR_MERGE" /\ st'.gate = st.gate /\ mode.master
    BY <1>1, <1>8, CommitGate DEF MasterFinishesReview
  <2>2. QED
    BY <1>2, <1>3, <2>1, FinishIsPublic
<1>9. CASE MasterResolvesSupervision
  <2>1. PICK t \in SupervisionTargets(st.state, Escalations) :
          st' = [Commit(st, t, "TRANSITION_COMMITTED") EXCEPT !.pending = {}]
    BY <1>9 DEF MasterResolvesSupervision
  <2>2. t \notin TerminalStates \cup {"HUMAN_GATE"}
    BY SupervisionTargetStates
  <2>3. st'.state = t /\ st'.gate = st.gate
    BY <1>1, <2>1 DEF Commit, Committed
  <2>4. QED
    BY <1>2, <1>3, <2>2, <2>3, CommitIsPublic
<1>10. QED
  BY <1>4, <1>5, <1>6, <1>7, <1>8, <1>9

\* The test gate and the evaluations.
LEMMA CoordinatorIsPublic ==
  ASSUME IInv, GateInv, TestGate \/ EvaluatePlan \/ EvaluateCode
  PROVE  PublicStep
<1>1. st \in Committed
  BY DEF IInv, TypeOK
<1>2. st.state \notin TerminalStates \cup {"HUMAN_GATE"}
  BY DEF TestGate, EvaluatePlan, EvaluateCode, AtHead, TerminalStates
<1>3. /\ answer' = answer /\ mode' = mode
      /\ pc' \notin {"escalated", "recording"}
  BY DEF TestGate, EvaluatePlan, EvaluateCode, Iterate
<1>4. CASE TestGate
  <2>1. PICK status \in TestStatus :
          LET base == [st EXCEPT !.test = status] IN
          \/ CommitStepTransition(base, status, FALSE, {})
          \/ CommitStepTransition(base, "ESCALATE", TRUE, {})
          \/ /\ mode.master
             /\ st' = ClearBlocked([Commit(base, "READY_FOR_MERGE", "TRANSITION_COMMITTED")
                                      EXCEPT !.counters.testFix = 0])
    BY <1>4 DEF TestGate
  <2> DEFINE base == [st EXCEPT !.test = status]
  <2>2. base \in Committed /\ base.state = st.state /\ base.gate = st.gate
    BY <1>1 DEF Committed
  <2>3. CASE /\ mode.master
             /\ st' = ClearBlocked([Commit(base, "READY_FOR_MERGE", "TRANSITION_COMMITTED")
                                      EXCEPT !.counters.testFix = 0])
    <3>1. st'.state = "READY_FOR_MERGE" /\ st'.gate = st.gate
      BY <1>1, <2>3 DEF ClearBlocked, Commit, Committed
    <3>2. QED
      BY <1>2, <1>3, <2>3, <3>1, FinishIsPublic
  <2>4. CASE CommitStepTransition(base, status, FALSE, {})
             \/ CommitStepTransition(base, "ESCALATE", TRUE, {})
    <3> HIDE DEF base
    <3>1. QED
      BY <1>1, <1>2, <1>3, <2>2, <2>4, TransitionIsPublic
  <2>5. QED
    BY <2>1, <2>3, <2>4
<1>5. CASE EvaluatePlan
  <2> DEFINE base == [st EXCEPT !.planRound = @ + 1]
  <2>1. base \in Committed /\ base.state = st.state /\ base.gate = st.gate
    BY <1>1 DEF Committed
  <2> HIDE DEF base
  <2>2. PICK sig \in {"ESCALATE", "UNRESOLVED_REMAIN", "UNRESOLVED_ZERO"},
             esc \in SUBSET Codes : CommitStepTransition(base, sig, FALSE, esc)
    BY <1>5, RunLoopConstants DEF EvaluatePlan, base, RoundEscalations, Codes
  <2>3. QED
    BY <1>1, <1>2, <1>3, <2>1, <2>2, TransitionIsPublic
<1>6. CASE EvaluateCode
  <2> DEFINE base == [st EXCEPT !.codeRound = @ + 1]
  <2>1. base \in Committed /\ base.state = st.state /\ base.gate = st.gate
    BY <1>1 DEF Committed
  <2> HIDE DEF base
  <2>2. \/ \E sig \in {"ESCALATE", "UNRESOLVED_REMAIN", "UNRESOLVED_ZERO"},
              esc \in RoundEscalations : CommitStepTransition(base, sig, FALSE, esc)
        \/ CommitStepTransition(base, "ESCALATE", TRUE, {})
        \/ /\ mode.master
           /\ st' = ClearBlocked(Commit(base, "READY_FOR_MERGE", "TRANSITION_COMMITTED"))
    BY <1>6 DEF EvaluateCode, base
  <2>3. CASE /\ mode.master
             /\ st' = ClearBlocked(Commit(base, "READY_FOR_MERGE", "TRANSITION_COMMITTED"))
    <3>1. st'.state = "READY_FOR_MERGE" /\ st'.gate = st.gate
      BY <2>1, <2>3, CommitGate
    <3>2. QED
      BY <1>2, <1>3, <2>3, <3>1, FinishIsPublic
  <2>4. QED
    BY <1>1, <1>2, <1>3, <2>1, <2>2, <2>3, TransitionIsPublic
<1>7. QED
  BY <1>4, <1>5, <1>6

\* Blocks a Master decides, and gates.
LEMMA BlockIsPublic ==
  ASSUME IInv, GateInv, MasterRecovers \/ MasterAborts \/ MasterAsksUser \/ EnsureGate
  PROVE  PublicStep
<1>1. st \in Committed
  BY DEF IInv, TypeOK
<1>2. CASE MasterRecovers \/ MasterAborts
  <2>1. /\ st.state = "USER_DECISION_REQUIRED" /\ st.gate = NoGate /\ mode.master
        /\ answer' = answer /\ mode' = mode /\ pc' = "loop"
    BY <1>2 DEF MasterRecovers, MasterAborts, MasterMayRecover, Iterate
  <2>2. st'.gate = NoGate
        /\ (st'.state = "FAILED" \/ st'.state \notin TerminalStates \cup {"HUMAN_GATE"})
    <3>1. CASE MasterRecovers
      <4>1. PICK t \in RecoveryTargets(st.blocked) :
              st' = ClearGate(ClearBlocked(Commit(st, t, "STEP_PENDING")))
        BY <3>1 DEF MasterRecovers
      <4>2. t \notin TerminalStates \cup {"HUMAN_GATE"}
        BY RecoveryTargetStates
      <4>3. QED
        BY <1>1, <4>1, <4>2, CommitGate
    <3>2. CASE MasterAborts
      BY <1>1, <2>1, <3>2, CommitGate DEF MasterAborts
    <3>3. QED
      BY <1>2, <3>1, <3>2
  <2>3. Promise!Recover
    <3>1. st.gate.kind = "NONE" /\ st'.gate.kind = "NONE"
      BY <2>1, <2>2 DEF NoGate
    <3>2. Phase = "blocked" /\ Phase' \in {"working", "failed"}
      BY <2>1, <2>2 DEF Phase, TerminalStates
    <3>3. QED
      BY <2>1, <3>1, <3>2 DEF Promise!Recover, Promise!modes
  <2>4. GateInv'
    BY <2>1, <2>2 DEF GateInv
  <2>5. QED
    BY <2>3, <2>4 DEF PublicStep, Promise!Next
<1>3. CASE MasterAsksUser
  <2>1. st'.state = st.state /\ st'.gate = st.gate
    BY <1>1, <1>3 DEF MasterAsksUser, AtHead, Commit, Committed
  <2>2. QED
    BY <1>3, <2>1, SilentIsPublic DEF MasterAsksUser
<1>4. CASE EnsureGate
  <2>1. /\ st.gate = NoGate /\ st.state \in {"HUMAN_GATE", "USER_DECISION_REQUIRED"}
        /\ answer' = "NONE" /\ mode' = mode /\ pc' = "down"
    BY <1>4 DEF EnsureGate, AtHead, Exit, GateInv, IInv, ProcessPlace
  <2>2. st'.state = st.state /\ st'.gate = [kind |-> GateKind, options |-> GateOptions]
    BY <1>1, <1>4 DEF EnsureGate, Commit, Committed
  <2>3. st'.gate.kind = GateKind
    BY <2>2
  <2>4. /\ st.state = "HUMAN_GATE" => GateKind = "FINAL"
        /\ st.state = "USER_DECISION_REQUIRED" => GateKind \in {"ESCALATION", "DESTRUCTIVE"}
    BY DEF GateKind
  <2>5. GateInv'
    BY <2>1, <2>2, <2>3, <2>4 DEF GateInv
  <2>6. Promise!Ask
    <3>1. st.gate.kind = "NONE"
      BY <2>1 DEF NoGate
    <3>2. QED
      BY <2>1, <2>2, <2>3, <2>4, <3>1 DEF Promise!Ask, Promise!modes, Phase
  <2>7. QED
    BY <2>5, <2>6 DEF PublicStep, Promise!Next
<1>5. QED
  BY <1>2, <1>3, <1>4

\* An unblocked run has used up its answer and its gate.
LEMMA UnblockIsPublic ==
  ASSUME IInv, GateInv, Answered({"USER_DECISION_REQUIRED"}),
         st'.gate = NoGate, answer' = "NONE", mode' = mode, pc' = "loop",
         \/ answer = "reject" /\ st'.state = "REJECTED"
         \/ answer \in {"revise_code", "revise_design"} /\ st'.state \in {"FIX", "PLAN_REVISE"}
         \/ /\ answer = "merge"
            /\ \/ st'.state = "USER_DECISION_REQUIRED"
               \/ st'.state \notin TerminalStates \cup {"HUMAN_GATE"}
  PROVE  PublicStep
<1>1. /\ st.state = "USER_DECISION_REQUIRED" /\ answer # "NONE"
      /\ st.gate.kind # "NONE" /\ st'.gate.kind = "NONE"
  BY GateBound DEF Answered, AtHead, IInv, TypeOK, NoGate
<1>2. Phase = "blocked"
  BY <1>1 DEF Phase
<1>3. IF answer = "merge" THEN Phase' \in {"working", "blocked"}
      ELSE Phase' = Promise!After(answer)
  BY DEF Phase, Promise!After, TerminalStates
<1>4. Promise!Unblock
  BY <1>1, <1>2, <1>3 DEF Promise!Unblock, Promise!modes
<1>5. GateInv'
  BY DEF GateInv
<1>6. QED
  BY <1>4, <1>5 DEF PublicStep, Promise!Next

\* The user's answers take effect.
LEMMA UserIsPublic ==
  ASSUME IInv, GateInv,
         \/ Answer \/ ResumeFinalGate \/ RecordFinalDecision
         \/ UserSendsBack \/ UserApprovesDeletion \/ UserApprovesEscalations
  PROVE  PublicStep
<1>1. st \in Committed /\ answer \in Decisions \cup {"NONE"}
  BY DEF IInv, TypeOK
<1>2. CASE Answer
  <2>1. /\ st' = st /\ mode' = mode /\ pc' = pc
        /\ st.gate # NoGate /\ answer = "NONE" /\ answer' \in st.gate.options
    BY <1>2 DEF Answer
  <2>2. st.gate.kind # "NONE" /\ answer' \in Decisions
    BY <1>1, <2>1, GateBound DEF Committed, Gates
  <2>3. Promise!Answer
    BY <2>1, <2>2 DEF Promise!Answer, Promise!modes, Promise!Decisions, Decisions, Phase
  <2>4. GateInv'
    BY <2>1, <2>2 DEF GateInv, Decisions
  <2>5. QED
    BY <2>3, <2>4 DEF PublicStep, Promise!Next
<1>3. CASE ResumeFinalGate
  <2>1. /\ st.state = "HUMAN_GATE" /\ st.gate # NoGate /\ answer # "NONE"
        /\ CommitStepTransition(st, answer, FALSE, {})
        /\ answer' = answer /\ mode' = mode /\ pc' = "recording"
    BY <1>3 DEF ResumeFinalGate, Answered, AtHead
  <2>2. st.gate.kind = "FINAL"
    BY <2>1 DEF GateInv
  <2>3. PICK t \in LoopState :
          Transition("HUMAN_GATE", answer, View(st), st.counters, t)
            /\ st'.state = t /\ st'.gate = st.gate
    BY <1>1, <2>1 DEF CommitStepTransition, Committed
  <2>4. <<answer, t>> \in { <<"merge", "READY_FOR_MERGE">>, <<"reject", "REJECTED">>,
                            <<"revise_code", "FIX">>, <<"revise_design", "PLAN_REVISE">> }
    BY <1>1, <2>1, <2>3 DEF Transition, DirectEdges, Decisions
  <2>5. Phase = "offered" /\ Phase' = Promise!After(answer)
    BY <2>1, <2>3, <2>4 DEF Phase, Promise!After
  <2>6. Promise!Decide
    BY <2>1, <2>2, <2>3, <2>5 DEF Promise!Decide, Promise!modes
  <2>7. GateInv'
    BY <2>1, <2>2, <2>3 DEF GateInv
  <2>8. QED
    BY <2>6, <2>7 DEF PublicStep, Promise!Next
<1>4. CASE RecordFinalDecision
  <2>1. /\ pc = "recording" /\ pc' = "loop" /\ mode' = mode /\ answer' = "NONE"
        /\ st'.state = st.state /\ st'.gate = NoGate
    BY <1>1, <1>4, CommitGate DEF RecordFinalDecision, Iterate, ForgetAnswer
  <2>2. /\ st.state \in {"READY_FOR_MERGE", "REJECTED", "FIX", "PLAN_REVISE"}
        /\ st.gate.kind = "FINAL" /\ answer # "NONE"
    BY <2>1 DEF IInv, ProcessPlace, GateInv
  <2>3. Promise!Record
    BY <2>1, <2>2 DEF Promise!Record, Promise!modes, Phase, NoGate
  <2>4. GateInv'
    BY <2>1 DEF GateInv
  <2>5. QED
    BY <2>3, <2>4 DEF PublicStep, Promise!Next
<1>5. CASE UserSendsBack
  <2>1. /\ Answered({"USER_DECISION_REQUIRED"})
        /\ \/ answer = "reject" /\ Unblock(st, "REJECTED")
           \/ answer = "revise_design" /\ Unblock(st, "PLAN_REVISE")
           \/ answer = "revise_code" /\ Unblock(st, "FIX")
    BY <1>5 DEF UserSendsBack
  <2>2. /\ st'.gate = NoGate /\ answer' = "NONE" /\ mode' = mode /\ pc' = "loop"
        /\ \/ answer = "reject" /\ st'.state = "REJECTED"
           \/ answer = "revise_design" /\ st'.state = "PLAN_REVISE"
           \/ answer = "revise_code" /\ st'.state = "FIX"
    BY <1>1, <2>1, CommitGate DEF Unblock, Iterate, ForgetAnswer
  <2>3. QED
    BY <2>1, <2>2, UnblockIsPublic
<1>6. CASE UserApprovesDeletion
  <2> DEFINE base == [st EXCEPT !.destructive = @ \/ "destr" \in plan.risk]
  <2>1. base \in Committed
    BY <1>1, ZenonT(60) DEF Committed
  <2> HIDE DEF base
  <2>2. PICK t \in LoopState : <<st.blocked, t>> \in ApprovedTarget /\ Unblock(base, t)
    BY <1>6 DEF UserApprovesDeletion, base
  <2>3. t \notin TerminalStates \cup {"HUMAN_GATE"}
    BY <2>2, ApprovedTargets
  <2>4. st'.state = t /\ st'.gate = NoGate /\ answer' = "NONE" /\ mode' = mode /\ pc' = "loop"
    BY <2>1, <2>2, CommitGate DEF Unblock, Iterate, ForgetAnswer
  <2>5. Answered({"USER_DECISION_REQUIRED"}) /\ answer = "merge"
    BY <1>6 DEF UserApprovesDeletion
  <2>6. QED
    BY <2>3, <2>4, <2>5, UnblockIsPublic
<1>7. CASE UserApprovesEscalations
  <2> DEFINE base == [st EXCEPT !.keys = @ \cup st.pending]
             stays == [Commit(base, "USER_DECISION_REQUIRED", "TRANSITION_COMMITTED")
                         EXCEPT !.pending = {}]
  <2>1. base \in Committed
    BY <1>1 DEF Committed
  <2> HIDE DEF base
  <2>2. Answered({"USER_DECISION_REQUIRED"}) /\ answer = "merge"
    BY <1>7 DEF UserApprovesEscalations
  <2>3. \/ /\ st' = ClearGate(stays)
           /\ Iterate /\ ForgetAnswer /\ mode' = mode
        \/ \E t \in LoopState : <<st.blocked, t>> \in ApprovedTarget /\ Unblock(base, t)
    BY <1>7 DEF UserApprovesEscalations, base
  <2>4. CASE st' = ClearGate(stays) /\ Iterate /\ ForgetAnswer /\ mode' = mode
    <3>1. stays.state = "USER_DECISION_REQUIRED" /\ ClearGate(stays).gate = NoGate
          /\ ClearGate(stays).state = "USER_DECISION_REQUIRED"
      BY <2>1 DEF Commit, ClearGate, Committed
    <3>2. QED
      BY <2>2, <2>4, <3>1, UnblockIsPublic DEF Iterate, ForgetAnswer
  <2>5. CASE \E t \in LoopState : <<st.blocked, t>> \in ApprovedTarget /\ Unblock(base, t)
    <3>1. PICK t \in LoopState : <<st.blocked, t>> \in ApprovedTarget /\ Unblock(base, t)
      BY <2>5
    <3>2. t \notin TerminalStates \cup {"HUMAN_GATE"}
      BY <3>1, ApprovedTargets
    <3>3. st'.state = t /\ st'.gate = NoGate /\ answer' = "NONE" /\ mode' = mode /\ pc' = "loop"
      BY <2>1, <3>1, CommitGate DEF Unblock, Iterate, ForgetAnswer
    <3>4. QED
      BY <2>2, <3>2, <3>3, UnblockIsPublic
  <2>6. QED
    BY <2>3, <2>4, <2>5
<1>8. QED
  BY <1>2, <1>3, <1>4, <1>5, <1>6, <1>7

\* Processes start and end.
LEMMA ProcessIsPublic ==
  ASSUME IInv, GateInv,
         WaitForAnswer \/ ReturnEndState \/ BudgetSpent \/ Refuse \/ Stop \/ Resume
  PROVE  PublicStep
<1>1. CASE WaitForAnswer \/ ReturnEndState \/ Refuse \/ Stop
  BY <1>1, SilentIsPublic DEF WaitForAnswer, ReturnEndState, Refuse, Stop, Exit
<1>2. CASE BudgetSpent
  <2>1. /\ st'.state = "FAILED" /\ st'.gate = st.gate
        /\ answer' = answer /\ mode' = mode /\ pc' = "down"
    BY <1>2, CommitGate DEF BudgetSpent, Exit, IInv, TypeOK
  <2>2. Promise!Fail
    BY <2>1 DEF Promise!Fail, Promise!modes, Phase
  <2>3. GateInv'
    BY <2>1 DEF GateInv
  <2>4. QED
    BY <2>2, <2>3 DEF PublicStep, Promise!Next
<1>3. CASE Resume
  <2>1. /\ st' = st /\ answer' = answer /\ pc' = "loop"
        /\ mode.master => mode'.master
    BY <1>3 DEF Resume
  <2>2. Promise!Start
    BY <2>1 DEF Promise!Start, Phase
  <2>3. GateInv'
    BY <2>1 DEF GateInv
  <2>4. QED
    BY <2>2, <2>3 DEF PublicStep, Promise!Next
<1>4. QED
  BY <1>1, <1>2, <1>3

\* The coordinator implements what it promises the user: every step, of whichever
\* process, is one the user can account for, or changes nothing the user sees.  In
\* particular, without a Master a run is ready for merge only by the answer merge
\* to a final gate.
THEOREM ImplementsPromise == Spec => UserDecides
<1>1. Init => Promise!Init /\ GateInv
  <2> SUFFICES ASSUME Init PROVE Promise!Init /\ GateInv
    OBVIOUS
  <2>1. mode.master \in BOOLEAN /\ mode.planning \in BOOLEAN
    BY RunLoopConstants DEF Init, AllModes
  <2>2. st.state = "INIT" /\ st.gate = NoGate /\ answer = "NONE" /\ pc = "boot"
    BY DEF Init
  <2>3. QED
    BY <2>1, <2>2 DEF Promise!Init, Phase, NoGate, GateInv
<1>2. IInv /\ GateInv /\ [Next]_vars => PublicStep
  <2> SUFFICES ASSUME IInv, GateInv, [Next]_vars PROVE PublicStep
    OBVIOUS
  <2>1. CASE Next
    BY <2>1, WorkerIsPublic, CoordinatorIsPublic, BlockIsPublic, UserIsPublic, ProcessIsPublic
       DEF Next, Step
  <2>2. CASE UNCHANGED vars
    BY <2>2 DEF vars, PublicStep, GateInv, Promise!vars, Phase
  <2>3. QED
    BY <2>1, <2>2
<1>3. IInv /\ GateInv /\ [Next]_vars => GateInv'
  BY <1>2 DEF PublicStep
<1>4. IInv /\ GateInv /\ [Next]_vars => [Promise!Next]_(Promise!vars)
  BY <1>2 DEF PublicStep
<1>5. QED
  BY <1>1, <1>3, <1>4, Invariance, PTL DEF Spec, UserDecides, Promise!Spec
=============================================================================
