---------------------------- MODULE WorktreeProofs ----------------------------
(***************************************************************************)
(* The properties of Worktree, for any files, plans and limits.            *)
(***************************************************************************)
EXTENDS Worktree, TLAPS

\* A step and the tests remember the worktree they found; nobody else does.
Remembered ==
  /\ pc \in {"loop", "down"} => before = NoTree
  /\ pc \in {"step", "testing"} => before \in Trees
  /\ pc = "step" => state \in WorkerStates
  /\ pc = "testing" => state = "TEST_GATE" /\ before = snap /\ tested = before

\* A gate other than the final one is bound to its block, which only a resumed
\* process leaves, on the committed worktree.
GateOfBlock ==
  gate.kind \in {"ESCALATION", "DESTRUCTIVE"} =>
    /\ state \in {"USER_DECISION_REQUIRED", "FAILED"}
    /\ pc \in {"loop", "down"}
    /\ pc = "loop" => tree = snap

\* The tests start on the committed worktree.
CleanAtTests == pc = "loop" /\ state = "TEST_GATE" => tree = snap

\* What is approved was asked for; a deletion gate asks for the plan as it is.
ApprovalsAreAgreed ==
  /\ approval \subseteq agreed
  /\ gate.kind = "DESTRUCTIVE" => gate.names = Destructive(Scope)

\* The review of tested source, blocked or not.
UnderReview ==
  \/ state \in ReviewStates \cup {"READY_FOR_MERGE"}
  \/ state = "USER_DECISION_REQUIRED" /\ blocked \in ReviewStates

Excused == stray \cup (Outputs \ Tracked)

Reviewed ==
  UnderReview =>
    /\ tested # NoTree
    /\ \A p \in Paths \ Excused :
         /\ snap[p] = tested[p]
         /\ pc = "loop" => tree[p] = tested[p]
         /\ pc = "step" => before[p] = tested[p]

IInv ==
  TypeOK /\ Remembered /\ GateOfBlock /\ CleanAtTests /\ ApprovalsAreAgreed /\ Reviewed

-----------------------------------------------------------------------------
\* The machine's edges, under any ledger and counters.

LEMMA EdgeFacts ==
  ASSUME NEW s, NEW sig, NEW t, <<s, sig, t>> \in Edges
  PROVE  /\ s \in LoopState \ TerminalStates /\ t \in LoopState
         /\ t \in ReviewStates \cup {"READY_FOR_MERGE"} =>
              \/ s \in ReviewStates
              \/ s = "TEST_GATE" /\ sig \in {"PASS", "NOT_RUN"}
         /\ t = "TEST_GATE" =>
              \/ s \in ImplementerStates /\ sig = "ARTIFACT_OK"
              \/ s = "TEST_GATE" /\ sig = "OPERATIONAL_RETRY"
<1>1. PICK s2 \in LoopState, sig2 \in Signals :
        <<s, sig, t>> \in {<<s2, sig2, u>> : u \in Successors(s2, sig2)}
  BY DEF Edges
<1>2. PICK u \in Successors(s2, sig2) : <<s, sig, t>> = <<s2, sig2, u>>
  BY <1>1
<1>3. s = s2 /\ sig = sig2 /\ t = u
  BY <1>2
<1>4. /\ s \in LoopState /\ t \in LoopState
      /\ \E v \in Views, c \in Tallies : Transition(s, sig, v, c, t)
  BY <1>2, <1>3 DEF Successors
<1>5. PICK v \in Views, c \in Tallies : Transition(s, sig, v, c, t)
  BY <1>4
<1>6. /\ s \notin TerminalStates
      /\ \/ sig = "ESCALATE" /\ t = "USER_DECISION_REQUIRED"
         \/ sig = "ABORT" /\ t = "FAILED"
         \/ sig = "OPERATIONAL_RETRY" /\ t \in {s, "USER_DECISION_REQUIRED"}
         \/ <<s, sig, t>> \in DirectEdges
         \/ /\ sig \in {"UNRESOLVED_ZERO", "UNRESOLVED_REMAIN", "FAIL"}
            /\ \/ t \in {"IMPLEMENT", "PLAN_REVISE", "USER_DECISION_REQUIRED", "FIX"}
               \/ s = "CONSENSUS_EVALUATE" /\ t = "HUMAN_GATE"
  BY <1>5 DEF Transition
<1>7. QED
  BY <1>4, <1>6 DEF DirectEdges, ReviewStates, ImplementerStates, TerminalStates

LEMMA TransitFacts ==
  ASSUME TypeOK, NEW sigs, Transit(sigs)
  PROVE  /\ state \notin TerminalStates
         /\ state' \in LoopState /\ blocked' \in LoopState \cup {"NONE"}
         /\ state' = "USER_DECISION_REQUIRED" => blocked' = state
         /\ state' \in ReviewStates \cup {"READY_FOR_MERGE"} =>
              \/ state \in ReviewStates
              \/ state = "TEST_GATE" /\ ("PASS" \in sigs \/ "NOT_RUN" \in sigs)
         /\ state' = "TEST_GATE" =>
              \/ state \in ImplementerStates /\ "ARTIFACT_OK" \in sigs
              \/ state = "TEST_GATE" /\ "OPERATIONAL_RETRY" \in sigs
<1>1. PICK sig \in sigs, t \in LoopState :
        /\ <<state, sig, t>> \in Edges
        /\ state' = t
        /\ blocked' = IF t = "USER_DECISION_REQUIRED" THEN state ELSE blocked
  BY DEF Transit
<1>2. QED
  BY <1>1, EdgeFacts DEF TypeOK

-----------------------------------------------------------------------------
\* Routes: the commits of a process that leave the worktree alone.

\* A route that approves nothing preserves the invariant if it brings no run
\* under review and none to the tests but on the committed worktree.
LEMMA RouteStep ==
  ASSUME IInv, pc = "loop", pc' \in {"loop", "down"},
         state' \in LoopState, blocked' \in LoopState \cup {"NONE"},
         gate' \in {gate, NoGate},
         gate'.kind \in {"ESCALATION", "DESTRUCTIVE"} =>
           state' \in {"USER_DECISION_REQUIRED", "FAILED"},
         UnderReview' => UnderReview,
         state' = "TEST_GATE" => tree = snap,
         UNCHANGED <<tree, snap, plan, approval, before, history>>
  PROVE  IInv'
<1>1. TypeOK'
  BY DEF IInv, TypeOK, NoGate, history
<1>2. Remembered'
  BY DEF IInv, Remembered
<1>3. GateOfBlock'
  BY DEF IInv, GateOfBlock, NoGate
<1>4. CleanAtTests'
  BY DEF CleanAtTests
<1>5. ApprovalsAreAgreed'
  BY DEF IInv, ApprovalsAreAgreed, NoGate, Scope, history
<1>6. Reviewed'
  BY DEF IInv, Reviewed, Excused, history
<1>7. QED
  BY <1>1, <1>2, <1>3, <1>4, <1>5, <1>6 DEF IInv

\* A transition of the machine outside steps and tests.
LEMMA TransitRoute ==
  ASSUME IInv, pc = "loop", state \notin ImplementerStates \cup {"TEST_GATE"},
         NEW sigs, Transit(sigs)
  PROVE  /\ state' \in LoopState /\ blocked' \in LoopState \cup {"NONE"}
         /\ gate.kind \notin {"ESCALATION", "DESTRUCTIVE"}
         /\ UnderReview' => UnderReview
         /\ state' # "TEST_GATE"
<1>1. TypeOK
  BY DEF IInv
<1>2. QED
  BY <1>1, TransitFacts DEF IInv, GateOfBlock, TerminalStates, UnderReview

\* A jump is under review only if its target is.
LEMMA JumpFacts ==
  ASSUME NEW targets, Jump(targets), targets \subseteq LoopState
  PROVE  /\ state' \in targets /\ state' \in LoopState /\ blocked' = "NONE"
         /\ UnderReview' => state' \in ReviewStates \cup {"READY_FOR_MERGE"}
BY DEF Jump, UnderReview, ReviewStates

LEMMA InitialRouteStep == ASSUME IInv, InitialRoute PROVE IInv'
<1>1. Jump({"PLAN", "IMPLEMENT"}) /\ {"PLAN", "IMPLEMENT"} \subseteq LoopState
  BY DEF InitialRoute, LoopState, WorkerStates, PlannerStates, ImplementerStates
<1>2. state' \in {"PLAN", "IMPLEMENT"} /\ state' \in LoopState /\ blocked' = "NONE"
      /\ ~UnderReview'
  BY <1>1, JumpFacts DEF ReviewStates
<1>3. /\ pc = "loop" /\ state = "INIT"
      /\ UNCHANGED <<tree, snap, plan, approval, gate, pc, before, history>>
  BY DEF InitialRoute, At
<1>4. gate.kind \notin {"ESCALATION", "DESTRUCTIVE"}
  BY <1>3 DEF IInv, GateOfBlock
<1>5. QED
  BY <1>2, <1>3, <1>4, RouteStep

LEMMA EvaluatePlanStep == ASSUME IInv, EvaluatePlan PROVE IInv'
<1>1. /\ pc = "loop" /\ state = "PLAN_CONSENSUS_EVALUATE"
      /\ UNCHANGED <<tree, snap, plan, approval, gate, pc, before, history>>
  BY DEF EvaluatePlan, At
<1>2. gate.kind \notin {"ESCALATION", "DESTRUCTIVE"}
  BY <1>1 DEF IInv, GateOfBlock
<1>3. CASE \E sigs \in {{"UNRESOLVED_ZERO"}, {"UNRESOLVED_REMAIN", "ESCALATE"}} : Transit(sigs)
  BY <1>1, <1>3, TransitRoute, RouteStep DEF ImplementerStates
<1>4. CASE Jump({"FINISHED_PLAN"})
  <2>1. {"FINISHED_PLAN"} \subseteq LoopState
    BY DEF LoopState, TerminalStates
  <2>2. state' = "FINISHED_PLAN" /\ state' \in LoopState /\ blocked' = "NONE" /\ ~UnderReview'
    BY <1>4, <2>1, JumpFacts DEF ReviewStates
  <2>3. QED
    BY <1>1, <1>2, <2>2, RouteStep
<1>5. QED
  BY <1>3, <1>4 DEF EvaluatePlan

LEMMA EvaluateCodeStep == ASSUME IInv, EvaluateCode PROVE IInv'
<1>1. /\ pc = "loop" /\ state = "CONSENSUS_EVALUATE" /\ UnderReview
      /\ UNCHANGED <<tree, snap, plan, approval, gate, pc, before, history>>
  BY DEF EvaluateCode, At, UnderReview, ReviewStates
<1>2. gate.kind \notin {"ESCALATION", "DESTRUCTIVE"}
  BY <1>1 DEF IInv, GateOfBlock
<1>3. CASE Transit({"UNRESOLVED_ZERO", "UNRESOLVED_REMAIN", "ESCALATE"})
  BY <1>1, <1>3, TransitRoute, RouteStep DEF ImplementerStates
<1>4. CASE Jump({"READY_FOR_MERGE"})
  <2>1. {"READY_FOR_MERGE"} \subseteq LoopState
    BY DEF LoopState, TerminalStates
  <2>2. state' = "READY_FOR_MERGE" /\ state' \in LoopState /\ blocked' = "NONE"
    BY <1>4, <2>1, JumpFacts
  <2>3. QED
    BY <1>1, <1>2, <2>2, RouteStep
<1>5. QED
  BY <1>3, <1>4 DEF EvaluateCode

LEMMA BudgetSpentStep == ASSUME IInv, BudgetSpent PROVE IInv'
<1>1. /\ pc = "loop" /\ pc' = "down" /\ state' = "FAILED" /\ ~UnderReview'
      /\ UNCHANGED <<tree, snap, blocked, plan, approval, gate, before, history>>
  BY DEF BudgetSpent, Exit, UnderReview, ReviewStates
<1>2. state' \in LoopState /\ blocked' \in LoopState \cup {"NONE"}
  BY <1>1 DEF IInv, TypeOK, LoopState, TerminalStates
<1>3. QED
  BY <1>1, <1>2, RouteStep

LEMMA MasterRecoversStep == ASSUME IInv, MasterRecovers PROVE IInv'
<1> DEFINE targets == RecoveryTargets(blocked) \cup {"FAILED"}
<1>1. /\ pc = "loop" /\ state = "USER_DECISION_REQUIRED" /\ gate = NoGate /\ Jump(targets)
      /\ UNCHANGED <<tree, snap, plan, approval, gate, pc, before, history>>
  BY DEF MasterRecovers, At
<1>2. /\ targets \subseteq LoopState \ {"TEST_GATE", "READY_FOR_MERGE"}
      /\ \A t \in targets : t \in ReviewStates => blocked \in ReviewStates
  BY DEF RecoveryTargets, ReviewStates, LoopState, WorkerStates, PlannerStates,
    ImplementerStates, ReviewerStates, TerminalStates
<1>3. /\ state' \in targets /\ state' \in LoopState /\ blocked' = "NONE"
      /\ UnderReview' => state' \in ReviewStates \cup {"READY_FOR_MERGE"}
  BY <1>1, <1>2, JumpFacts
<1>4. UnderReview' => UnderReview
  BY <1>1, <1>2, <1>3 DEF UnderReview
<1>5. QED
  BY <1>1, <1>2, <1>3, <1>4, RouteStep DEF NoGate

LEMMA FinalDecisionStep == ASSUME IInv, FinalDecision PROVE IInv'
<1>1. /\ pc = "loop" /\ pc' \in {"loop", "down"} /\ state = "HUMAN_GATE" /\ Transit(Decisions)
      /\ gate' \in {gate, NoGate}
      /\ UNCHANGED <<tree, snap, plan, approval, before, history>>
  BY DEF FinalDecision, Answered, At, Exit
<1>2. /\ state' \in LoopState /\ blocked' \in LoopState \cup {"NONE"}
      /\ gate.kind \notin {"ESCALATION", "DESTRUCTIVE"}
      /\ (UnderReview' => UnderReview) /\ state' # "TEST_GATE"
  BY <1>1, TransitRoute DEF ImplementerStates
<1>3. QED
  BY <1>1, <1>2, RouteStep DEF NoGate

LEMMA SendBackStep == ASSUME IInv, SendBack PROVE IInv'
<1> DEFINE targets == {"REJECTED", "PLAN_REVISE"}
                      \cup IF gate.kind = "DESTRUCTIVE" THEN {} ELSE {"FIX"}
<1>1. /\ pc = "loop" /\ Jump(targets) /\ gate' = NoGate
      /\ UNCHANGED <<tree, snap, plan, approval, pc, before, history>>
  BY DEF SendBack, Answered, At
<1>2. targets \subseteq LoopState \ (ReviewStates \cup {"READY_FOR_MERGE", "TEST_GATE"})
  BY DEF ReviewStates, LoopState, WorkerStates, PlannerStates, ImplementerStates, TerminalStates
<1>3. /\ state' \in targets /\ state' \in LoopState /\ blocked' = "NONE"
      /\ ~UnderReview'
  BY <1>1, <1>2, JumpFacts
<1>4. QED
  BY <1>1, <1>2, <1>3, RouteStep DEF NoGate

\* Where an approved block continues: reviews where it was under review, the tests
\* where its gate was bound.
LEMMA ApprovedFacts ==
  ASSUME state = "USER_DECISION_REQUIRED",
         Jump({t \in LoopState : <<blocked, t>> \in ApprovedTarget})
  PROVE  /\ state' \in LoopState /\ blocked' = "NONE"
         /\ UnderReview' => UnderReview
<1> DEFINE targets == {t \in LoopState : <<blocked, t>> \in ApprovedTarget}
<1>1. /\ state' \in targets /\ state' \in LoopState /\ blocked' = "NONE"
      /\ UnderReview' => state' \in ReviewStates \cup {"READY_FOR_MERGE"}
  BY JumpFacts
<1>2. \A t \in targets : t \in ReviewStates \cup {"READY_FOR_MERGE"} => blocked \in ReviewStates
  BY DEF ApprovedTarget, ReviewStates
<1>3. QED
  BY <1>1, <1>2 DEF UnderReview

LEMMA ApproveEscalationStep == ASSUME IInv, ApproveEscalation PROVE IInv'
<1>1. /\ pc = "loop" /\ state = "USER_DECISION_REQUIRED" /\ gate.kind = "ESCALATION"
      /\ gate' = NoGate
      /\ UNCHANGED <<tree, snap, plan, approval, pc, before, history>>
  BY DEF ApproveEscalation, Answered, At
<1>2. tree = snap
  BY <1>1 DEF IInv, GateOfBlock
<1>3. /\ state' \in LoopState /\ blocked' \in LoopState \cup {"NONE"}
      /\ UnderReview' => UnderReview
  <2>1. CASE UNCHANGED <<state, blocked>>
    BY <2>1 DEF IInv, TypeOK, UnderReview
  <2>2. CASE Jump({t \in LoopState : <<blocked, t>> \in ApprovedTarget})
    BY <1>1, <2>2, ApprovedFacts
  <2>3. QED
    BY <2>1, <2>2 DEF ApproveEscalation
<1>4. QED
  BY <1>1, <1>2, <1>3, RouteStep DEF NoGate

LEMMA ApproveDeletionStep == ASSUME IInv, ApproveDeletion PROVE IInv'
<1>1. /\ pc = "loop" /\ state = "USER_DECISION_REQUIRED" /\ gate.kind = "DESTRUCTIVE"
      /\ gate' = NoGate
      /\ approval' \in {approval, ApprovedOperations}
      /\ agreed' = agreed \cup gate.names
      /\ Jump({t \in LoopState : <<blocked, t>> \in ApprovedTarget})
      /\ UNCHANGED <<tree, snap, plan, pc, before, tested, stray>>
  BY DEF ApproveDeletion, Answered, At
<1>2. tree = snap /\ gate.names = Destructive(Scope) /\ approval \subseteq agreed
  BY <1>1 DEF IInv, GateOfBlock, ApprovalsAreAgreed
<1>3. state' \in LoopState /\ blocked' = "NONE" /\ (UnderReview' => UnderReview)
  BY <1>1, ApprovedFacts
<1>4. Scope \subseteq Items
  BY DEF IInv, TypeOK, Scope
<1>5. TypeOK'
  BY <1>1, <1>2, <1>3, <1>4 DEF IInv, TypeOK, NoGate, ApprovedOperations, Destructive
<1>6. ApprovalsAreAgreed'
  BY <1>1, <1>2 DEF ApprovalsAreAgreed, ApprovedOperations, NoGate
<1>7. Reviewed'
  BY <1>1, <1>3 DEF IInv, Reviewed, Excused
<1>8. GateOfBlock' /\ CleanAtTests' /\ Remembered'
  BY <1>1, <1>2 DEF IInv, GateOfBlock, CleanAtTests, Remembered, NoGate
<1>9. QED
  BY <1>5, <1>6, <1>7, <1>8 DEF IInv

LEMMA EnsureGateStep == ASSUME IInv, EnsureGate PROVE IInv'
<1>1. PICK kind \in GateKinds :
        /\ (kind = "FINAL") <=> (state = "HUMAN_GATE")
        /\ gate' = [kind |-> kind,
                    names |-> IF kind = "DESTRUCTIVE" THEN Destructive(Scope) ELSE {}]
  BY DEF EnsureGate
<1>2. /\ pc = "loop" /\ pc' = "down" /\ state \in {"HUMAN_GATE", "USER_DECISION_REQUIRED"}
      /\ UNCHANGED <<tree, snap, state, blocked, plan, approval, before, history>>
  BY DEF EnsureGate, At, Exit
<1>3. Destructive(Scope) \subseteq Items
  BY DEF IInv, TypeOK, Scope, Destructive
<1>4. TypeOK'
  BY <1>1, <1>2, <1>3 DEF IInv, TypeOK, history
<1>5. ApprovalsAreAgreed'
  BY <1>1, <1>2 DEF IInv, ApprovalsAreAgreed, Scope, history
<1>6. Reviewed'
  BY <1>2 DEF IInv, Reviewed, UnderReview, Excused, history
<1>7. GateOfBlock' /\ CleanAtTests' /\ Remembered'
  BY <1>1, <1>2 DEF IInv, GateOfBlock, CleanAtTests, Remembered, GateKinds
<1>8. QED
  BY <1>4, <1>5, <1>6, <1>7 DEF IInv

-----------------------------------------------------------------------------
\* Steps.

LEMMA StartStepStep == ASSUME IInv, StartStep PROVE IInv'
<1>1. /\ pc = "loop" /\ pc' = "step" /\ state \in WorkerStates /\ before' = tree
      /\ UNCHANGED <<tree, snap, state, blocked, approval, gate, plan, agreed>>
  BY DEF StartStep, At, committed
<1>2. \/ state \in {"CODE_REVIEW", "CROSS_CONFIRM"} /\ UNCHANGED <<tested, stray>>
      \/ tested' = NoTree /\ stray' = {} /\ state \notin {"CODE_REVIEW", "CROSS_CONFIRM"}
  BY DEF StartStep, Outdated
<1>3. gate.kind \notin {"ESCALATION", "DESTRUCTIVE"}
  BY <1>1 DEF IInv, GateOfBlock, WorkerStates, PlannerStates, ImplementerStates, ReviewerStates
<1>4. TypeOK'
  BY <1>1, <1>2 DEF IInv, TypeOK
<1>5. Remembered' /\ GateOfBlock' /\ CleanAtTests'
  BY <1>1, <1>3, <1>4 DEF IInv, TypeOK, Remembered, GateOfBlock, CleanAtTests
<1>6. ApprovalsAreAgreed'
  BY <1>1 DEF IInv, ApprovalsAreAgreed, Scope
<1>7. Reviewed'
  <2>1. UnderReview' => UnderReview /\ state \in {"CODE_REVIEW", "CROSS_CONFIRM"}
    BY <1>1 DEF UnderReview, ReviewStates, WorkerStates, PlannerStates, ImplementerStates,
      ReviewerStates
  <2>2. QED
    BY <1>1, <1>2, <2>1 DEF IInv, Reviewed, Excused
<1>8. QED
  BY <1>4, <1>5, <1>6, <1>7 DEF IInv

LEMMA WriteStep == ASSUME IInv, Write PROVE IInv'
<1>1. PICK p \in Paths, c \in Contents \cup {Absent} : tree' = [tree EXCEPT ![p] = c]
  BY DEF Write
<1>2. /\ pc \in {"step", "testing"}
      /\ UNCHANGED <<snap, state, blocked, approval, gate, plan, pc, before, agreed, tested, stray>>
  BY DEF Write, committed, history
<1>3. TypeOK'
  BY <1>1, <1>2 DEF IInv, TypeOK, Trees
<1>4. Remembered' /\ GateOfBlock' /\ CleanAtTests'
  BY <1>2 DEF IInv, Remembered, GateOfBlock, CleanAtTests
<1>5. ApprovalsAreAgreed'
  BY <1>2 DEF IInv, ApprovalsAreAgreed, Scope
<1>6. Reviewed'
  BY <1>2 DEF IInv, Reviewed, UnderReview, Excused
<1>7. QED
  BY <1>3, <1>4, <1>5, <1>6 DEF IInv

\* The targets of a Master that routes a step.
LEMMA MasterTargetFacts ==
  ASSUME state \in WorkerStates, NEW items
  PROVE  /\ MasterTargets(items) \subseteq LoopState
         /\ \A t \in MasterTargets(items) :
              t \in ReviewStates \cup {"READY_FOR_MERGE"} => state = "CODE_REVIEW"
<1>1. /\ SupervisionTargets(state, {}) \subseteq LoopState \ {"READY_FOR_MERGE"}
      /\ \A t \in SupervisionTargets(state, {}) : t \in ReviewStates => state = "CODE_REVIEW"
  BY DEF SupervisionTargets, ReviewStates, LoopState, WorkerStates, PlannerStates,
    ImplementerStates, ReviewerStates, TerminalStates
<1>2. {"IMPLEMENT", "READY_FOR_MERGE"} \subseteq LoopState /\ "IMPLEMENT" \notin ReviewStates
  BY DEF ReviewStates, LoopState, WorkerStates, ImplementerStates, TerminalStates
<1>3. QED
  BY <1>1, <1>2 DEF MasterTargets

\* After a step, a run is under review only if it was.
LEMMA StepRoute ==
  ASSUME TypeOK, state \in WorkerStates,
         \/ \E sigs : Transit(sigs)
         \/ Jump(MasterTargets(plan'))
  PROVE  /\ state' \in LoopState /\ blocked' \in LoopState \cup {"NONE"}
         /\ UnderReview' => UnderReview
<1>1. CASE \E sigs : Transit(sigs)
  <2>1. PICK sigs : Transit(sigs)
    BY <1>1
  <2>2. /\ state \notin TerminalStates
        /\ state' \in LoopState /\ blocked' \in LoopState \cup {"NONE"}
        /\ state' = "USER_DECISION_REQUIRED" => blocked' = state
        /\ state' \in ReviewStates \cup {"READY_FOR_MERGE"} =>
             state \in ReviewStates \cup {"TEST_GATE"}
    BY <2>1, TransitFacts
  <2>3. state # "TEST_GATE"
    BY DEF WorkerStates, PlannerStates, ImplementerStates, ReviewerStates
  <2>4. QED
    BY <2>2, <2>3 DEF UnderReview, ReviewStates
<1>2. CASE Jump(MasterTargets(plan'))
  <2>1. /\ state' \in MasterTargets(plan') /\ state' \in LoopState /\ blocked' = "NONE"
        /\ UnderReview' => state' \in ReviewStates \cup {"READY_FOR_MERGE"}
    BY <1>2, MasterTargetFacts, JumpFacts
  <2>2. QED
    BY <2>1, MasterTargetFacts DEF UnderReview, ReviewStates
<1>3. QED
  BY <1>1, <1>2

\* A plan that is promoted has the type of one.
LEMMA PromoteFacts ==
  ASSUME TypeOK, Promote
  PROVE  /\ plan' \in (SUBSET Items) \cup {NoPlan}
         /\ state \notin PlannerStates => plan' = plan
BY WorktreeConstants DEF TypeOK, Promote

LEMMA VerifyStep == ASSUME IInv, Verify PROVE IInv'
<1>1. /\ pc = "step" /\ GuardOk /\ Promote /\ snap' = tree
      /\ pc' = "loop" /\ before' = NoTree
      /\ UNCHANGED <<tree, approval, gate, agreed, tested, stray>>
  BY DEF Verify, history
<1>2. (\E sigs : Transit(sigs)) \/ Jump(MasterTargets(plan'))
  BY DEF Verify
<1>3. TypeOK /\ state \in WorkerStates
  BY <1>1 DEF IInv, Remembered
<1>4. /\ state' \in LoopState /\ blocked' \in LoopState \cup {"NONE"}
      /\ UnderReview' => UnderReview
  BY <1>2, <1>3, StepRoute
<1>5. gate.kind \notin {"ESCALATION", "DESTRUCTIVE"}
  BY <1>1 DEF IInv, GateOfBlock
<1>6. TypeOK'
  BY <1>1, <1>3, <1>4, PromoteFacts DEF TypeOK
<1>7. Remembered' /\ GateOfBlock' /\ CleanAtTests' /\ ApprovalsAreAgreed'
  BY <1>1, <1>5 DEF IInv, Remembered, GateOfBlock, CleanAtTests, ApprovalsAreAgreed
<1>8. Reviewed'
  <2>1. UnderReview' => UnderReview /\ tree = before
    BY <1>1, <1>3, <1>4 DEF UnderReview, ReviewStates, GuardOk, WorkerStates, PlannerStates,
      ImplementerStates, ReviewerStates
  <2>2. QED
    BY <1>1, <2>1 DEF IInv, Reviewed, Excused
<1>9. QED
  BY <1>6, <1>7, <1>8 DEF IInv

LEMMA GuardRefusesStep == ASSUME IInv, GuardRefuses PROVE IInv'
<1>1. /\ pc = "step" /\ Promote /\ pc' = "down" /\ before' = NoTree
      /\ UNCHANGED <<tree, snap, state, blocked, approval, gate, agreed, tested, stray>>
  BY DEF GuardRefuses, Exit, committed, history
<1>2. TypeOK /\ gate.kind \notin {"ESCALATION", "DESTRUCTIVE"}
  BY <1>1 DEF IInv, GateOfBlock
<1>3. TypeOK'
  BY <1>1, <1>2, PromoteFacts DEF TypeOK
<1>4. Remembered' /\ GateOfBlock' /\ CleanAtTests' /\ ApprovalsAreAgreed'
  BY <1>1, <1>2 DEF IInv, Remembered, GateOfBlock, CleanAtTests, ApprovalsAreAgreed
<1>5. Reviewed'
  BY <1>1 DEF IInv, Reviewed, UnderReview, Excused
<1>6. QED
  BY <1>3, <1>4, <1>5 DEF IInv

LEMMA StepFailsStep == ASSUME IInv, StepFails PROVE IInv'
<1>1. /\ pc = "step" /\ Unguarded /\ pc' = "loop" /\ before' = NoTree
      /\ Transit({"ABORT", "ESCALATE", "OPERATIONAL_RETRY"})
      /\ UNCHANGED <<tree, snap, approval, gate, agreed, tested>>
  BY DEF StepFails
<1>2. TypeOK /\ state \in WorkerStates /\ gate.kind \notin {"ESCALATION", "DESTRUCTIVE"}
  BY <1>1 DEF IInv, Remembered, GateOfBlock
<1>3. /\ state' \in LoopState /\ blocked' \in LoopState \cup {"NONE"}
      /\ UnderReview' => UnderReview
  BY <1>1, <1>2, StepRoute
<1>4. state' # "TEST_GATE"
  BY <1>1, <1>2, TransitFacts DEF WorkerStates, PlannerStates, ImplementerStates, ReviewerStates
<1>5. plan' \in (SUBSET Items) \cup {NoPlan}
  <2>1. (UNCHANGED plan) \/ Promote
    BY DEF StepFails
  <2>2. QED
    BY <1>2, <2>1, PromoteFacts DEF TypeOK
<1>6. TypeOK'
  BY <1>1, <1>2, <1>3, <1>5 DEF TypeOK, Unguarded
<1>7. Remembered' /\ GateOfBlock' /\ CleanAtTests' /\ ApprovalsAreAgreed'
  BY <1>1, <1>2, <1>4 DEF IInv, Remembered, GateOfBlock, CleanAtTests, ApprovalsAreAgreed
<1>8. Reviewed'
  <2>1. SUFFICES ASSUME UnderReview'
                 PROVE  /\ tested' # NoTree
                        /\ \A p \in Paths \ Excused' :
                             snap'[p] = tested'[p] /\ tree'[p] = tested'[p]
    BY <1>1 DEF Reviewed
  <2>2. /\ tested # NoTree
        /\ \A p \in Paths \ Excused : snap[p] = tested[p] /\ before[p] = tested[p]
    BY <1>1, <1>3, <2>1 DEF IInv, Reviewed
  <2>3. \A p \in Paths \ Excused' : p \notin Excused /\ tree[p] = before[p]
    BY <1>1, <2>2 DEF Unguarded, Excused
  <2>4. QED
    BY <1>1, <2>2, <2>3
<1>9. QED
  BY <1>6, <1>7, <1>8 DEF IInv

-----------------------------------------------------------------------------
\* Tests, and the ends of processes.

LEMMA StartTestsStep == ASSUME IInv, StartTests PROVE IInv'
<1>1. /\ pc = "loop" /\ state = "TEST_GATE" /\ pc' = "testing"
      /\ before' = tree /\ tested' = tree /\ stray' = {}
      /\ UNCHANGED <<tree, snap, state, blocked, approval, gate, plan, agreed>>
  BY DEF StartTests, At, committed
<1>2. tree = snap /\ gate.kind \notin {"ESCALATION", "DESTRUCTIVE"} /\ TypeOK
  BY <1>1 DEF IInv, CleanAtTests, GateOfBlock
<1>3. TypeOK'
  BY <1>1, <1>2 DEF TypeOK
<1>4. Remembered' /\ GateOfBlock' /\ CleanAtTests'
  BY <1>1, <1>2 DEF TypeOK, Remembered, GateOfBlock, CleanAtTests
<1>5. ApprovalsAreAgreed'
  BY <1>1 DEF IInv, ApprovalsAreAgreed, Scope
<1>6. Reviewed'
  BY <1>1 DEF Reviewed, UnderReview, ReviewStates
<1>7. QED
  BY <1>3, <1>4, <1>5, <1>6 DEF IInv

LEMMA EndTestsStep == ASSUME IInv, EndTests PROVE IInv'
<1>1. /\ pc = "testing" /\ pc' = "loop" /\ before' = NoTree
      /\ UNCHANGED <<tree, snap, plan, approval, gate, agreed, tested, stray>>
  BY DEF EndTests, history
<1>2. PICK status \in IF SnapshotViolations # {} THEN {"POLICY_VIOLATION"} ELSE TestStatus :
        \/ Transit({status})
        \/ Transit({"ESCALATE"})
        \/ status = "PASS" /\ Jump({"READY_FOR_MERGE"})
  BY DEF EndTests
<1>3. /\ TypeOK /\ state = "TEST_GATE" /\ before = snap /\ tested = before
      /\ before \in Trees /\ gate.kind \notin {"ESCALATION", "DESTRUCTIVE"}
  BY <1>1 DEF IInv, Remembered, GateOfBlock
<1>4. /\ state' \in LoopState /\ blocked' \in LoopState \cup {"NONE"}
      /\ state' # "TEST_GATE"
      /\ UnderReview' => status \in {"PASS", "NOT_RUN"}
  <2>1. CASE \E sig \in {status, "ESCALATE"} : Transit({sig})
    <3>1. PICK sig \in {status, "ESCALATE"} : Transit({sig})
      BY <2>1
    <3>2. /\ state' \in LoopState /\ blocked' \in LoopState \cup {"NONE"}
          /\ state' = "USER_DECISION_REQUIRED" => blocked' = "TEST_GATE"
          /\ state' \in ReviewStates \cup {"READY_FOR_MERGE"} => sig \in {"PASS", "NOT_RUN"}
          /\ state' = "TEST_GATE" => sig = "OPERATIONAL_RETRY"
      BY <1>3, <3>1, TransitFacts DEF ReviewStates, ImplementerStates
    <3>3. status # "OPERATIONAL_RETRY"
      BY <1>2 DEF TestStatus
    <3>4. QED
      BY <3>1, <3>2, <3>3 DEF UnderReview, ReviewStates
  <2>2. CASE status = "PASS" /\ Jump({"READY_FOR_MERGE"})
    <3>1. {"READY_FOR_MERGE"} \subseteq LoopState
      BY DEF LoopState, TerminalStates
    <3>2. QED
      BY <2>2, <3>1, JumpFacts
  <2>3. QED
    BY <1>2, <2>1, <2>2
<1>5. TypeOK'
  BY <1>1, <1>3, <1>4 DEF TypeOK
<1>6. Remembered' /\ GateOfBlock' /\ CleanAtTests'
  BY <1>1, <1>3, <1>4 DEF Remembered, GateOfBlock, CleanAtTests
<1>7. ApprovalsAreAgreed'
  BY <1>1 DEF IInv, ApprovalsAreAgreed, Scope
<1>8. Reviewed'
  <2>1. SUFFICES ASSUME UnderReview'
                 PROVE  /\ tested # NoTree
                        /\ \A p \in Paths \ Excused : snap[p] = tested[p] /\ tree[p] = tested[p]
    BY <1>1 DEF Reviewed, Excused
  <2>2. SnapshotViolations = {}
    BY <1>2, <1>4, <2>1
  <2>3. \A p \in Paths \ Excused : tree[p] = before[p]
    BY <2>2 DEF SnapshotViolations, Excused
  <2>4. QED
    BY <1>3, <2>3, WorktreeConstants
<1>9. QED
  BY <1>5, <1>6, <1>7, <1>8 DEF IInv

LEMMA StopStep == ASSUME IInv, Stop PROVE IInv'
<1>1. /\ pc' = "down" /\ before' = NoTree
      /\ UNCHANGED <<tree, snap, state, blocked, approval, gate, plan, agreed, tested, stray>>
  BY DEF Stop, Exit, committed, history
<1>2. TypeOK' /\ Remembered' /\ CleanAtTests'
  BY <1>1 DEF IInv, TypeOK, Remembered, CleanAtTests
<1>3. GateOfBlock' /\ ApprovalsAreAgreed' /\ Reviewed'
  BY <1>1 DEF IInv, GateOfBlock, ApprovalsAreAgreed, Scope, Reviewed, UnderReview, Excused
<1>4. QED
  BY <1>2, <1>3 DEF IInv

LEMMA UserWritesStep == ASSUME IInv, UserWrites PROVE IInv'
<1>1. PICK p \in Paths, c \in Contents \cup {Absent} : tree' = [tree EXCEPT ![p] = c]
  BY DEF UserWrites
<1>2. /\ pc = "down"
      /\ UNCHANGED <<snap, state, blocked, approval, gate, plan, pc, before, agreed, tested, stray>>
  BY DEF UserWrites, committed, history
<1>3. TypeOK'
  BY <1>1, <1>2 DEF IInv, TypeOK, Trees
<1>4. Remembered' /\ CleanAtTests'
  BY <1>2 DEF IInv, Remembered, CleanAtTests
<1>5. GateOfBlock' /\ ApprovalsAreAgreed' /\ Reviewed'
  BY <1>2 DEF IInv, GateOfBlock, ApprovalsAreAgreed, Scope, Reviewed, UnderReview, Excused
<1>6. QED
  BY <1>3, <1>4, <1>5 DEF IInv

LEMMA ResumeStep == ASSUME IInv, Resume PROVE IInv'
<1>1. /\ pc = "down" /\ pc' = "loop" /\ tree = snap
      /\ UNCHANGED <<tree, snap, state, blocked, approval, gate, plan, before, agreed, tested, stray>>
  BY DEF Resume, Resumable, committed, history
<1>2. TypeOK' /\ Remembered' /\ CleanAtTests'
  BY <1>1 DEF IInv, TypeOK, Remembered, CleanAtTests
<1>3. GateOfBlock' /\ ApprovalsAreAgreed' /\ Reviewed'
  BY <1>1 DEF IInv, GateOfBlock, ApprovalsAreAgreed, Scope, Reviewed, UnderReview, Excused
<1>4. QED
  BY <1>2, <1>3 DEF IInv

-----------------------------------------------------------------------------
\* The properties.

LEMMA InitIInv == Init => IInv
<1>1. SUFFICES ASSUME Init PROVE IInv
  OBVIOUS
<1>2. TypeOK
  BY <1>1, WorktreeConstants DEF Init, TypeOK, NoGate, LoopState
<1>3. Remembered /\ CleanAtTests
  BY <1>1 DEF Init, Remembered, CleanAtTests
<1>4. GateOfBlock /\ ApprovalsAreAgreed /\ Reviewed
  BY <1>1 DEF Init, GateOfBlock, ApprovalsAreAgreed, Reviewed, UnderReview, ReviewStates, NoGate
<1>5. QED
  BY <1>2, <1>3, <1>4 DEF IInv

LEMMA StutterIInv == ASSUME IInv, UNCHANGED vars PROVE IInv'
<1>1. UNCHANGED <<tree, snap, state, blocked, plan, approval, gate, pc, before, agreed, tested, stray>>
  BY DEF vars
<1>2. TypeOK' /\ Remembered' /\ CleanAtTests'
  BY <1>1 DEF IInv, TypeOK, Remembered, CleanAtTests
<1>3. GateOfBlock' /\ ApprovalsAreAgreed' /\ Reviewed'
  BY <1>1 DEF IInv, GateOfBlock, ApprovalsAreAgreed, Scope, Reviewed, UnderReview, Excused
<1>4. QED
  BY <1>2, <1>3 DEF IInv

\* What the run remembers of the worktree, commits of it and has tested of it
\* fits together at every step.
THEOREM Invariance == Spec => []IInv
<1>1. IInv /\ [Next]_vars => IInv'
  <2>1. SUFFICES ASSUME IInv, [Next]_vars PROVE IInv'
    OBVIOUS
  <2>2. CASE InitialRoute \/ EvaluatePlan \/ EvaluateCode \/ BudgetSpent
    BY <2>1, <2>2, InitialRouteStep, EvaluatePlanStep, EvaluateCodeStep, BudgetSpentStep
  <2>3. CASE StartStep \/ Write \/ Verify \/ GuardRefuses \/ StepFails
    BY <2>1, <2>3, StartStepStep, WriteStep, VerifyStep, GuardRefusesStep, StepFailsStep
  <2>4. CASE StartTests \/ EndTests
    BY <2>1, <2>4, StartTestsStep, EndTestsStep
  <2>5. CASE MasterRecovers \/ EnsureGate \/ FinalDecision \/ SendBack
    BY <2>1, <2>5, MasterRecoversStep, EnsureGateStep, FinalDecisionStep, SendBackStep
  <2>6. CASE ApproveDeletion \/ ApproveEscalation
    BY <2>1, <2>6, ApproveDeletionStep, ApproveEscalationStep
  <2>7. CASE Stop \/ UserWrites \/ Resume
    BY <2>1, <2>7, StopStep, UserWritesStep, ResumeStep
  <2>8. CASE UNCHANGED vars
    BY <2>1, <2>8, StutterIInv
  <2>9. QED
    BY <2>1, <2>2, <2>3, <2>4, <2>5, <2>6, <2>7, <2>8 DEF Next
<1>2. QED
  BY InitIInv, <1>1, PTL DEF Spec

\* The variables keep their types, for any files, plans and limits.
THEOREM TypeCorrect == Spec => []TypeOK
<1>1. IInv => TypeOK
  BY DEF IInv
<1>2. QED
  BY Invariance, <1>1, PTL

\* run_tests works on the source that is committed, whoever wrote the worktree
\* before it: every way to the tests commits or compares it.
THEOREM TestsAreOfTheCommit == Spec => []TestsRunOnTheCommit
<1>1. IInv => TestsRunOnTheCommit
  BY DEF IInv, Remembered, TestsRunOnTheCommit
<1>2. QED
  BY Invariance, <1>1, PTL

\* No route brings source under review or to a merge that the tests did not run
\* on, but for their allowed outputs and the edits of failed reviewers.
THEOREM ReviewsAreOfTestedSource == Spec => []ReviewedSourceIsTested
<1>1. IInv => ReviewedSourceIsTested
  BY DEF IInv, Reviewed, UnderReview, Excused, ReviewedSourceIsTested
<1>2. QED
  BY Invariance, <1>1, PTL

\* The guard lets planned changes into a commit, and deletions only that a user
\* was asked about, whatever was approved before and however plans changed.
THEOREM CommitsAreAllowed == Spec => CommittedChangesAreAllowed
<1> DEFINE Allowed(p) ==
       /\ state \in ImplementerStates
       /\ snap'[p] = Absent =>
            \/ Names(Scope, "delete", p) /\ Names(agreed, "delete", p)
            \/ \E i \in Scope \cap agreed : i.op = "rename" /\ i.from = p
       /\ snap'[p] # Absent /\ snap[p] # Absent => Names(Scope, "modify", p)
       /\ snap'[p] # Absent /\ snap[p] = Absent =>
            Names(Scope, "add", p) \/ Names(Scope \cap agreed, "rename", p)
<1>1. ASSUME IInv, Verify, NEW p \in Paths, snap'[p] # snap[p], before[p] = snap[p]
      PROVE  Allowed(p)
  <2>1. snap' = tree /\ GuardOk /\ approval \subseteq agreed
    BY <1>1 DEF Verify, IInv, ApprovalsAreAgreed
  <2>2. state \in ImplementerStates /\ DeltaAllowed
    BY <1>1, <2>1 DEF GuardOk
  <2>3. Renames \subseteq Scope \cap agreed
    BY <2>1, <2>2 DEF DeltaAllowed, Renames
  <2>4. ASSUME snap'[p] = Absent
        PROVE  \/ Names(Scope, "delete", p) /\ Names(agreed, "delete", p)
               \/ \E i \in Scope \cap agreed : i.op = "rename" /\ i.from = p
    <3>1. p \in Deleted
      BY <1>1, <2>1, <2>4 DEF Deleted
    <3>2. CASE p \in {i.from : i \in Renames}
      BY <2>3, <3>2 DEF Renames
    <3>3. CASE p \notin {i.from : i \in Renames}
      <4>1. Names(Scope, "delete", p) /\ Names(approval, "delete", p)
        BY <2>2, <3>1, <3>3 DEF DeltaAllowed, Approved
      <4>2. QED
        BY <2>1, <4>1 DEF Names
    <3>4. QED
      BY <3>2, <3>3
  <2>5. ASSUME snap'[p] # Absent, snap[p] # Absent PROVE Names(Scope, "modify", p)
    <3>1. p \in Modified
      BY <1>1, <2>1, <2>5 DEF Modified, Added, Deleted
    <3>2. QED
      BY <2>2, <3>1 DEF DeltaAllowed
  <2>6. ASSUME snap'[p] # Absent, snap[p] = Absent
        PROVE  Names(Scope, "add", p) \/ Names(Scope \cap agreed, "rename", p)
    <3>1. p \in Added
      BY <1>1, <2>1, <2>6 DEF Added
    <3>2. CASE p \in {i.path : i \in Renames}
      BY <2>3, <3>2 DEF Renames, Names
    <3>3. CASE p \notin {i.path : i \in Renames}
      BY <2>2, <3>1, <3>3 DEF DeltaAllowed
    <3>4. QED
      BY <3>2, <3>3
  <2>7. QED
    BY <2>2, <2>4, <2>5, <2>6
<1>2. ASSUME [Next]_vars, ~Verify PROVE snap' = snap
  BY <1>2 DEF Next, vars, committed, InitialRoute, EvaluatePlan, EvaluateCode, BudgetSpent,
    StartStep, Write, GuardRefuses, StepFails, StartTests, EndTests, MasterRecovers, EnsureGate,
    FinalDecision, SendBack, ApproveDeletion, ApproveEscalation, Stop, UserWrites, Resume
<1>3. IInv /\ [Next]_vars =>
        \A p \in Paths : snap'[p] # snap[p] /\ before[p] = snap[p] => Allowed(p)
  BY <1>1, <1>2
<1>4. QED
  BY Invariance, <1>3, PTL DEF Spec, CommittedChangesAreAllowed
=============================================================================
