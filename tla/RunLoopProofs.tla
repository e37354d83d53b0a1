--------------------------- MODULE RunLoopProofs ---------------------------
(***************************************************************************)
(* Proofs about RunLoop, for every value of its constants.                 *)
(*                                                                         *)
(* IInv is the inductive invariant: the type, the budget of the process,   *)
(* where its program counter can be in which committed state, and what     *)
(* the committed state says of blocks, escalations and tests.              *)
(***************************************************************************)
EXTENDS RunLoop, TLAPS

\* Within an iteration of the loop the budget is not spent yet.
Budget ==
  pc \in {"step", "promoted", "verified", "settle", "recording"}
    => transitions < MaxTransitions

\* What the process has committed when it is at pc.
ProcessPlace ==
  /\ pc \in {"boot", "init"} => st.state = "INIT"
  /\ pc \in {"step", "promoted"} => st.state \in WorkerStates /\ st.stage = "STEP_DISPATCHED"
  /\ pc = "verified" => st.state \in WorkerStates
  /\ pc = "settle" => st.state \in {"PLAN_REVISE", "FIX"} /\ st.stage = "TRANSITION_COMMITTED"
  /\ pc = "escalated" => st.state = "USER_DECISION_REQUIRED"
  /\ pc = "recording" => /\ st.stage = "TRANSITION_COMMITTED"
                         /\ st.state \in {"READY_FOR_MERGE", "REJECTED", "FIX", "PLAN_REVISE"}

\* Only a blocked or failed run remembers where it was blocked, and only a
\* worker step is verified.
BlockPlace ==
  /\ st.blocked # "NONE" => st.state \in {"USER_DECISION_REQUIRED", "FAILED"}
  /\ st.stage = "ARTIFACT_VERIFIED" => st.state \in WorkerStates

Tested == tested /\ st.test \in {"PASS", "NOT_RUN"}

\* A review or a block in one holds a tested source.
ReviewPlace ==
  st.state \in ReviewedStates \cup {"READY_FOR_MERGE"} \/ st.blocked \in ReviewedStates
    => Tested

\* A run offered for merge has no open finding.
AgreedPlace == st.state \in {"HUMAN_GATE", "READY_FOR_MERGE"} => ~st.open

IInv ==
  /\ TypeOK /\ Budget /\ ProcessPlace /\ BlockPlace
  /\ EscalationsStayWithTheirBlock /\ ReviewPlace /\ AgreedPlace

-----------------------------------------------------------------------------
\* The transition function.

\* What transition() can do from a loop state: only an end of the test gate or
\* a step of the review leads into the review, only agreement leads to a merge.
LEMMA TransitionFacts ==
  ASSUME NEW STATE s, NEW STATE sig, NEW STATE view, NEW STATE c, NEW STATE t,
         s \in LoopState,
         Transition(s, sig, view, c, t)
  PROVE  /\ t \in LoopState
         /\ s \notin TerminalStates
         /\ t \in ReviewedStates
              => s \in ReviewedStates \/ (s = "TEST_GATE" /\ sig \in {"PASS", "NOT_RUN"})
         /\ t = "HUMAN_GATE" => s = "HUMAN_GATE" \/ ~view.open
         /\ t = "READY_FOR_MERGE" => s = "HUMAN_GATE"
<1>1. CASE <<s, sig, t>> \in DirectEdges
  BY <1>1 DEF Transition, DirectEdges, LoopState, WorkerStates, PlannerStates,
     ImplementerStates, ReviewerStates, EvaluateStates, TerminalStates, ReviewedStates
<1>2. CASE <<s, sig, t>> \notin DirectEdges
  BY <1>2 DEF Transition, LoopState, WorkerStates, PlannerStates,
     ImplementerStates, ReviewerStates, EvaluateStates, TerminalStates, ReviewedStates
<1>3. QED
  BY <1>1, <1>2

\* Counters stay counters.
LEMMA CountersAfterType ==
  ASSUME NEW STATE s, NEW STATE sig, NEW STATE c, c \in Counters
  PROVE  CountersAfter(s, sig, c) \in Counters
BY DEF CountersAfter, Counters

\* What commit_step_transition commits.
LEMMA StepTransition ==
  ASSUME NEW STATE base, NEW STATE sig, NEW STATE user, NEW STATE esc,
         base \in Committed, user \in BOOLEAN, esc \in SUBSET Codes,
         CommitStepTransition(base, sig, user, esc)
  PROVE  /\ st' \in Committed
         /\ userOwned' \in BOOLEAN
         /\ base.state \notin TerminalStates
         /\ st'.stage = "TRANSITION_COMMITTED"
         /\ st'.test = base.test /\ st'.open = base.open
         /\ st'.state = "USER_DECISION_REQUIRED"
              => st'.blocked = base.state /\ st'.pending = esc
         /\ st'.state # "USER_DECISION_REQUIRED"
              => st'.blocked = base.blocked /\ st'.pending = {}
         /\ st'.state \in ReviewedStates
              => \/ base.state \in ReviewedStates
                 \/ base.state = "TEST_GATE" /\ sig \in {"PASS", "NOT_RUN"}
         /\ st'.state = "HUMAN_GATE" => base.state = "HUMAN_GATE" \/ ~base.open
         /\ st'.state = "READY_FOR_MERGE" => base.state = "HUMAN_GATE"
<1> DEFINE Next0(t) ==
      [base EXCEPT
         !.state = t, !.stage = "TRANSITION_COMMITTED", !.last = LastOf(sig, user),
         !.counters = CountersAfter(base.state, sig, base.counters),
         !.blocked = IF t = "USER_DECISION_REQUIRED" THEN base.state ELSE @,
         !.pending = IF t = "USER_DECISION_REQUIRED" THEN esc ELSE {}]
<1>1. PICK t \in LoopState :
        /\ IF mode.planning /\ base.state = "PLAN_CONSENSUS_EVALUATE" /\ sig = "UNRESOLVED_ZERO"
           THEN t = "FINISHED_PLAN" /\ ~base.open
           ELSE Transition(base.state, sig, View(base), base.counters, t)
        /\ st' = Next0(t)
        /\ userOwned' = (user /\ t = "USER_DECISION_REQUIRED")
  BY Zenon DEF CommitStepTransition
<1>2. base.state \in LoopState /\ base.counters \in Counters
  BY DEF Committed
<1>3. CountersAfter(base.state, sig, base.counters) \in Counters
  BY <1>2, CountersAfterType
<1>4. LastOf(sig, user) \in {"authority", "remain", "other"}
  BY DEF LastOf
<1>5. View(base).open = base.open
  BY DEF View
<1>6. /\ base.state \notin TerminalStates
      /\ t \in ReviewedStates
           => \/ base.state \in ReviewedStates
              \/ base.state = "TEST_GATE" /\ sig \in {"PASS", "NOT_RUN"}
      /\ t = "HUMAN_GATE" => base.state = "HUMAN_GATE" \/ ~base.open
      /\ t = "READY_FOR_MERGE" => base.state = "HUMAN_GATE"
  <2>1. CASE mode.planning /\ base.state = "PLAN_CONSENSUS_EVALUATE" /\ sig = "UNRESOLVED_ZERO"
    BY <1>1, <2>1 DEF TerminalStates, ReviewedStates
  <2>2. CASE ~(mode.planning /\ base.state = "PLAN_CONSENSUS_EVALUATE" /\ sig = "UNRESOLVED_ZERO")
    <3>1. Transition(base.state, sig, View(base), base.counters, t)
      BY <1>1, <2>2
    <3>2. QED
      BY <1>2, <1>5, <3>1, TransitionFacts
  <2>3. QED
    BY <2>1, <2>2
<1>7. /\ Next0(t) \in Committed
      /\ Next0(t).state = t /\ Next0(t).stage = "TRANSITION_COMMITTED"
      /\ Next0(t).test = base.test /\ Next0(t).open = base.open
      /\ t = "USER_DECISION_REQUIRED"
           => Next0(t).blocked = base.state /\ Next0(t).pending = esc
      /\ t # "USER_DECISION_REQUIRED"
           => Next0(t).blocked = base.blocked /\ Next0(t).pending = {}
  <2>1. Next0(t) \in Committed
    BY <1>2, <1>3, <1>4, ZenonT(60) DEF Committed, Stages
  <2>2. QED
    BY <2>1 DEF Committed
<1>8. userOwned' \in BOOLEAN
  BY <1>1
<1> HIDE DEF Next0
<1>9. QED
  BY <1>1, <1>6, <1>7, <1>8

-----------------------------------------------------------------------------
\* Every transition of the machine keeps the invariant.

\* The parts of the invariant a commit of the coordinator can disturb.
Places ==
  BlockPlace /\ EscalationsStayWithTheirBlock /\ ReviewPlace /\ AgreedPlace

\* A transition of the committed state st, or of st with a new round or test
\* status, keeps them; the test gate may change the status, and then has run.
LEMMA StepPlaces ==
  ASSUME IInv,
         NEW STATE base, NEW STATE sig, NEW STATE esc,
         base \in Committed, esc \in SUBSET Codes,
         base.state = st.state, base.blocked = st.blocked, base.open = st.open,
         \/ st.state # "TEST_GATE" /\ base.test = st.test /\ tested' = tested
         \/ /\ st.state = "TEST_GATE" /\ tested'
            /\ sig \in {"PASS", "NOT_RUN"} => base.test = sig,
         CommitStepTransition(base, sig, FALSE, esc) \/ CommitStepTransition(base, sig, TRUE, esc)
  PROVE  st' \in Committed /\ userOwned' \in BOOLEAN /\ Places'
<1> PICK user \in BOOLEAN : CommitStepTransition(base, sig, user, esc)
  OBVIOUS
<1>1. /\ st' \in Committed
      /\ userOwned' \in BOOLEAN
      /\ base.state \notin TerminalStates
      /\ st'.stage = "TRANSITION_COMMITTED"
      /\ st'.test = base.test /\ st'.open = base.open
      /\ st'.state = "USER_DECISION_REQUIRED"
           => st'.blocked = base.state /\ st'.pending = esc
      /\ st'.state # "USER_DECISION_REQUIRED"
           => st'.blocked = base.blocked /\ st'.pending = {}
      /\ st'.state \in ReviewedStates
           => \/ base.state \in ReviewedStates
              \/ base.state = "TEST_GATE" /\ sig \in {"PASS", "NOT_RUN"}
      /\ st'.state = "HUMAN_GATE" => base.state = "HUMAN_GATE" \/ ~base.open
      /\ st'.state = "READY_FOR_MERGE" => base.state = "HUMAN_GATE"
  BY StepTransition
<1>2. base.blocked = "NONE"
  BY <1>1 DEF IInv, BlockPlace, TerminalStates
<1>3. BlockPlace'
  BY <1>1, <1>2 DEF BlockPlace
<1>4. EscalationsStayWithTheirBlock'
  BY <1>1 DEF EscalationsStayWithTheirBlock
<1>5. ReviewPlace'
  <2>1. ASSUME base.state \in ReviewedStates PROVE Tested'
    <3>1. Tested /\ st.state # "TEST_GATE"
      BY <2>1 DEF IInv, ReviewPlace, ReviewedStates
    <3>2. base.test = st.test /\ tested' = tested
      BY <3>1
    <3>3. QED
      BY <1>1, <3>1, <3>2 DEF Tested
  <2>2. ASSUME base.state = "TEST_GATE", sig \in {"PASS", "NOT_RUN"} PROVE Tested'
    <3>1. tested' /\ base.test = sig
      BY <2>2
    <3>2. QED
      BY <1>1, <2>2, <3>1 DEF Tested
  <2>3. ASSUME st'.state \in ReviewedStates \cup {"READY_FOR_MERGE"} PROVE Tested'
    BY <1>1, <2>1, <2>2, <2>3 DEF ReviewedStates
  <2>4. ASSUME st'.blocked \in ReviewedStates PROVE Tested'
    BY <1>1, <1>2, <2>1, <2>4 DEF ReviewedStates
  <2>5. QED
    BY <2>3, <2>4 DEF ReviewPlace
<1>6. AgreedPlace'
  BY <1>1 DEF IInv, AgreedPlace
<1>7. QED
  BY <1>1, <1>3, <1>4, <1>5, <1>6 DEF Places

\* The usual case: a step outside the test gate that leaves the rest of st alone.
LEMMA StepFromSt ==
  ASSUME IInv,
         NEW STATE sig, NEW STATE esc, esc \in SUBSET Codes,
         st.state # "TEST_GATE", tested' = tested,
         CommitStepTransition(st, sig, FALSE, esc) \/ CommitStepTransition(st, sig, TRUE, esc)
  PROVE  st' \in Committed /\ userOwned' \in BOOLEAN /\ Places'
<1>1. st \in Committed
  BY DEF IInv, TypeOK
<1>2. QED
  BY <1>1, StepPlaces

LEMMA NoCodes == {} \in SUBSET Codes
OBVIOUS

\* The routing tables lead from the review into the review only.
LEMMA ApprovedTargets ==
  ASSUME NEW STATE b, NEW STATE t, <<b, t>> \in ApprovedTarget
  PROVE  /\ t \in LoopState \ TerminalStates
         /\ t # "HUMAN_GATE"
         /\ t \in ReviewedStates => b \in ReviewedStates
BY DEF ApprovedTarget, LoopState, WorkerStates, PlannerStates, ImplementerStates,
   ReviewerStates, EvaluateStates, TerminalStates, ReviewedStates

LEMMA SupervisionTargetStates ==
  ASSUME NEW STATE s, NEW STATE codes, NEW STATE t, t \in SupervisionTargets(s, codes)
  PROVE  /\ t \in LoopState \ TerminalStates
         /\ t # "HUMAN_GATE"
         /\ t \in ReviewedStates => s \in ReviewedStates
         /\ t = s => t \in {"PLAN_REVISE", "FIX"}
<1>1. t \in {"PLAN_REVISE", "PLAN_REVIEW", "FIX", "TEST_GATE", "CROSS_CONFIRM"}
  BY DEF SupervisionTargets
<1>2. t = "CROSS_CONFIRM" => s = "CODE_REVIEW"
  BY DEF SupervisionTargets, PlannerStates, ImplementerStates
<1>3. t = "PLAN_REVIEW" => s \in PlannerStates
  BY DEF SupervisionTargets, ImplementerStates
<1>4. t = "TEST_GATE" => s \in ImplementerStates
  BY DEF SupervisionTargets, PlannerStates
<1>5. QED
  BY <1>1, <1>2, <1>3, <1>4 DEF LoopState, WorkerStates, PlannerStates, ImplementerStates,
     ReviewerStates, EvaluateStates, TerminalStates, ReviewedStates

LEMMA RecoveryTargetStates ==
  ASSUME NEW STATE b, NEW STATE t, t \in RecoveryTargets(b)
  PROVE  /\ t \in LoopState \ TerminalStates
         /\ t # "HUMAN_GATE"
         /\ t \in ReviewedStates => b \in ReviewedStates
<1>1. t \in {"PLAN_REVISE", "PLAN_REVIEW", "FIX", "CODE_REVIEW", "CROSS_CONFIRM"}
  BY DEF RecoveryTargets
<1>2. t \in {"CODE_REVIEW", "CROSS_CONFIRM"} => b \in {"CODE_REVIEW", "CROSS_CONFIRM"}
  BY DEF RecoveryTargets
<1>3. QED
  BY <1>1, <1>2 DEF LoopState, WorkerStates, PlannerStates, ImplementerStates,
     ReviewerStates, EvaluateStates, TerminalStates, ReviewedStates

\* A commit that keeps all but state, stage and last.
LEMMA CommitType ==
  ASSUME NEW STATE base, NEW STATE s, NEW STATE g,
         base \in Committed, s \in LoopState, g \in Stages
  PROVE  /\ Commit(base, s, g) \in Committed
         /\ Commit(base, s, g).state = s
         /\ Commit(base, s, g).stage = g
         /\ Commit(base, s, g).blocked = base.blocked
         /\ Commit(base, s, g).pending = base.pending
         /\ Commit(base, s, g).open = base.open
         /\ Commit(base, s, g).test = base.test
         /\ Commit(base, s, g).gate = base.gate
BY DEF Commit, Committed

LEMMA ClearBlockedType ==
  ASSUME NEW STATE base, base \in Committed
  PROVE  /\ ClearBlocked(base) \in Committed
         /\ ClearBlocked(base).state = base.state
         /\ ClearBlocked(base).stage = base.stage
         /\ ClearBlocked(base).blocked = "NONE"
         /\ ClearBlocked(base).pending = {}
         /\ ClearBlocked(base).open = base.open
         /\ ClearBlocked(base).test = base.test
         /\ ClearBlocked(base).gate = base.gate
BY DEF ClearBlocked, Committed

LEMMA ClearGateType ==
  ASSUME NEW STATE base, base \in Committed
  PROVE  /\ ClearGate(base) \in Committed
         /\ ClearGate(base).state = base.state
         /\ ClearGate(base).stage = base.stage
         /\ ClearGate(base).blocked = base.blocked
         /\ ClearGate(base).pending = base.pending
         /\ ClearGate(base).open = base.open
         /\ ClearGate(base).test = base.test
BY DEF ClearGate, Committed

\* A run sent on from a block by the user keeps the invariant.
LEMMA UnblockPlaces ==
  ASSUME IInv,
         NEW STATE base, NEW STATE t,
         base \in Committed, base.open = st.open, base.test = st.test,
         t \in LoopState \ {"HUMAN_GATE", "READY_FOR_MERGE"},
         t \in ReviewedStates => st.blocked \in ReviewedStates,
         Unblock(base, t)
  PROVE  st' \in Committed /\ userOwned' \in BOOLEAN /\ Places'
<1> DEFINE c == Commit(base, t, "TRANSITION_COMMITTED")
           b == ClearBlocked(c)
<1>1. c \in Committed /\ c.state = t /\ c.stage = "TRANSITION_COMMITTED"
      /\ c.open = base.open /\ c.test = base.test
  BY CommitType DEF Stages
<1> HIDE DEF c
<1>2. b \in Committed /\ b.state = t /\ b.stage = "TRANSITION_COMMITTED"
      /\ b.blocked = "NONE" /\ b.pending = {} /\ b.open = base.open /\ b.test = base.test
  BY <1>1, ClearBlockedType
<1>3. st' = ClearGate(b) /\ userOwned' = FALSE /\ tested' = tested
  BY DEF Unblock, b, c
<1> HIDE DEF b
<1>4. st' \in Committed /\ st'.state = t /\ st'.stage = "TRANSITION_COMMITTED"
      /\ st'.blocked = "NONE" /\ st'.pending = {}
      /\ st'.open = st.open /\ st'.test = st.test
  BY <1>2, <1>3, ClearGateType
<1>5. BlockPlace' /\ EscalationsStayWithTheirBlock' /\ AgreedPlace'
  BY <1>4 DEF BlockPlace, EscalationsStayWithTheirBlock, AgreedPlace
<1>6. ReviewPlace'
  BY <1>3, <1>4 DEF IInv, ReviewPlace, Tested, ReviewedStates
<1>7. QED
  BY <1>3, <1>4, <1>5, <1>6 DEF Places

-----------------------------------------------------------------------------
\* The invariant is inductive.

LEMMA InitInv == Init => IInv
<1> SUFFICES ASSUME Init PROVE IInv
  OBVIOUS
<1>1. TypeOK
  <2>1. st \in Committed
    BY DEF Init, Committed, LoopState, Stages, Counters
  <2>2. plan \in Plans
    BY DEF Init, Plans, NewPlan
  <2>3. QED
    <3>1. mode \in AllModes
      BY RunLoopConstants DEF Init
    <3>2. transitions \in 0 .. MaxTransitions
      BY RunLoopConstants DEF Init
    <3>3. carried \subseteq Codes /\ hand \subseteq Codes
      BY DEF Init
    <3>4. QED
      BY <2>1, <2>2, <3>1, <3>2, <3>3 DEF Init, TypeOK
<1>2. /\ st.state = "INIT" /\ st.stage = "STEP_PENDING" /\ st.blocked = "NONE"
      /\ st.pending = {} /\ pc = "boot"
  BY DEF Init
<1>3. QED
  BY <1>1, <1>2 DEF IInv, Budget, ProcessPlace, BlockPlace, EscalationsStayWithTheirBlock,
     ReviewPlace, AgreedPlace, ReviewedStates

\* The steps of initialization, of a worker step and of its routing.
LEMMA WorkerSteps ==
  ASSUME IInv,
         \/ RecordPool \/ InitialRoute
         \/ DispatchStep \/ StepFails \/ Promote \/ ContractViolation \/ Verify
         \/ RouteByMachine \/ MasterRoutesCompletion \/ MasterSkipsPlanReview
         \/ MasterFinishesReview \/ MasterLeavesSupervision \/ MasterResolvesSupervision
         \/ SettleSupervision
  PROVE  IInv'
<1> USE RunLoopConstants
<1>1. CASE RecordPool
  <2>1. st.state = "INIT" /\ st \in Committed
    BY <1>1 DEF RecordPool, IInv, ProcessPlace, TypeOK
  <2> DEFINE c == Commit(st, "INIT", "STEP_PENDING")
  <2>2. c \in Committed /\ c.state = "INIT" /\ c.stage = "STEP_PENDING"
        /\ c.blocked = st.blocked /\ c.pending = st.pending
        /\ c.open = st.open /\ c.test = st.test
    BY <2>1, CommitType DEF Stages, Committed
  <2>3. st' = [c EXCEPT !.pool = TRUE]
    BY <1>1 DEF RecordPool
  <2> HIDE DEF c
  <2>4. st' \in Committed /\ st'.state = "INIT" /\ st'.stage = "STEP_PENDING"
        /\ st'.blocked = st.blocked /\ st'.pending = st.pending
        /\ st'.open = st.open /\ st'.test = st.test
    BY <2>2, <2>3 DEF Committed
  <2>5. TypeOK'
    BY <1>1, <2>4 DEF RecordPool, IInv, TypeOK, history
  <2>6. QED
    BY <1>1, <2>1, <2>4, <2>5 DEF RecordPool, history, IInv, Budget, ProcessPlace, BlockPlace,
       EscalationsStayWithTheirBlock, ReviewPlace, AgreedPlace, Tested, ReviewedStates,
       WorkerStates, PlannerStates, ImplementerStates, ReviewerStates
<1>2. CASE InitialRoute
  <2>1. st.state = "INIT" /\ st \in Committed
    BY <1>2 DEF InitialRoute, AtHead, IInv, ProcessPlace, TypeOK
  <2>2. st' \in Committed /\ userOwned' \in BOOLEAN /\ Places'
    <3>1. CASE mode.master
      <4>1. PICK t \in {"PLAN", "IMPLEMENT"} : st' = Commit(st, t, "STEP_PENDING")
        BY <1>2, <3>1 DEF InitialRoute
      <4>2. st' \in Committed /\ st'.state = t /\ st'.stage = "STEP_PENDING"
            /\ st'.blocked = st.blocked /\ st'.pending = st.pending
            /\ st'.open = st.open /\ st'.test = st.test
        BY <2>1, <4>1, CommitType DEF Stages, LoopState, WorkerStates, PlannerStates,
           ImplementerStates
      <4>3. st.blocked = "NONE" /\ st.pending = {}
        BY <2>1 DEF IInv, BlockPlace, EscalationsStayWithTheirBlock, WorkerStates,
           PlannerStates, ImplementerStates, ReviewerStates
      <4>4. QED
        BY <1>2, <3>1, <4>1, <4>2, <4>3 DEF InitialRoute, IInv, TypeOK, Places, BlockPlace,
           EscalationsStayWithTheirBlock, ReviewPlace, AgreedPlace, ReviewedStates
    <3>2. CASE ~mode.master
      <4>1. CommitStepTransition(st, "OK", FALSE, {}) /\ tested' = tested
        BY <1>2, <3>2 DEF InitialRoute
      <4>2. QED
        BY <2>1, <4>1, StepFromSt, NoCodes
    <3>3. QED
      BY <3>1, <3>2
  <2>3. QED
    BY <1>2, <2>2 DEF InitialRoute, AtHead, IInv, TypeOK, Budget, ProcessPlace, Places
<1>3. CASE DispatchStep
  <2>1. st \in Committed /\ st.state \in WorkerStates /\ st.state \in LoopState
    BY <1>3 DEF DispatchStep, AtHead, IInv, TypeOK, Committed
  <2>2. st' \in Committed /\ st'.state = st.state /\ st'.stage = "STEP_DISPATCHED"
        /\ st'.blocked = st.blocked /\ st'.pending = st.pending
        /\ st'.open = st.open /\ st'.test = st.test
    BY <1>3, <2>1, CommitType DEF DispatchStep, Stages
  <2>3. st.blocked = "NONE" /\ st.pending = {}
    BY <1>3, <2>1 DEF DispatchStep, IInv, BlockPlace, EscalationsStayWithTheirBlock,
       WorkerStates, PlannerStates, ImplementerStates, ReviewerStates
  <2>4. st.state \in ReviewedStates => tested' = tested
    BY <1>3 DEF DispatchStep, ReviewedStates, ImplementerStates, IInv, TypeOK
  <2>5. TypeOK'
    BY <1>3, <2>2 DEF DispatchStep, IInv, TypeOK
  <2>6. ReviewPlace'
    BY <2>1, <2>2, <2>3, <2>4 DEF IInv, ReviewPlace, Tested, ReviewedStates, WorkerStates,
       PlannerStates, ImplementerStates, ReviewerStates
  <2>7. QED
    BY <1>3, <2>1, <2>2, <2>3, <2>5, <2>6 DEF DispatchStep, AtHead, IInv, Budget, ProcessPlace,
       BlockPlace, EscalationsStayWithTheirBlock, AgreedPlace
<1>4. CASE StepFails
  <2>1. PICK sig \in {"ABORT", "ESCALATE"} : CommitStepTransition(st, sig, FALSE, {})
    BY <1>4 DEF StepFails
  <2>2. st \in Committed /\ st.state # "TEST_GATE" /\ tested' = tested
    BY <1>4 DEF StepFails, IInv, TypeOK, ProcessPlace, WorkerStates, PlannerStates,
       ImplementerStates, ReviewerStates
  <2>3. st' \in Committed /\ userOwned' \in BOOLEAN /\ Places'
    BY <2>1, <2>2, StepFromSt, NoCodes
  <2>4. QED
    BY <1>4, <2>3 DEF StepFails, Iterate, IInv, TypeOK, Budget, ProcessPlace, Places
<1>5. CASE Promote
  <2>1. plan' \in Plans
    <3>1. plan \in Plans /\ SUBSET PlanRisks \subseteq SUBSET Risks
      BY DEF IInv, TypeOK
    <3>2. \A risk \in SUBSET Risks : NewPlan(risk) \in Plans
      BY DEF NewPlan, Plans
    <3>3. QED
      BY <1>5, <3>1, <3>2 DEF Promote
  <2>2. TypeOK'
    BY <1>5, <2>1 DEF Promote, history, IInv, TypeOK
  <2>3. QED
    BY <1>5, <2>2 DEF Promote, history, IInv, Budget, ProcessPlace, BlockPlace,
       EscalationsStayWithTheirBlock, ReviewPlace, AgreedPlace, Tested
<1>6. CASE ContractViolation
  <2>1. PICK sig : CommitStepTransition(st, sig, FALSE, {})
    BY <1>6 DEF ContractViolation
  <2>2. st \in Committed /\ st.state # "TEST_GATE" /\ tested' = tested
    BY <1>6 DEF ContractViolation, IInv, TypeOK, ProcessPlace, WorkerStates, PlannerStates,
       ImplementerStates, ReviewerStates
  <2>3. st' \in Committed /\ userOwned' \in BOOLEAN /\ Places'
    BY <2>1, <2>2, StepFromSt, NoCodes
  <2>4. QED
    BY <1>6, <2>3 DEF ContractViolation, Iterate, IInv, TypeOK, Budget, ProcessPlace, Places
<1>7. CASE Verify
  <2>1. PICK sigs \in SUBSET RaisedCodes, o \in OpenAfter(st) :
        \E dropped \in SUBSET (sigs \cap st.keys) :
          /\ st.state \in PlannerStates => ("signals" \in plan.risk <=> sigs # {})
          /\ st' = [Commit(st, st.state, "ARTIFACT_VERIFIED") EXCEPT
                      !.open = o, !.pending = sigs \ dropped]
          /\ carried' = IF dropped = sigs THEN dropped ELSE {}
    BY <1>7, Zenon DEF Verify
  <2>2. PICK dropped \in SUBSET (sigs \cap st.keys) :
          /\ st' = [Commit(st, st.state, "ARTIFACT_VERIFIED") EXCEPT
                      !.open = o, !.pending = sigs \ dropped]
          /\ carried' = IF dropped = sigs THEN dropped ELSE {}
    BY <2>1
  <2>3. st \in Committed /\ st.state \in WorkerStates /\ st.state \in LoopState
    BY <1>7 DEF Verify, IInv, TypeOK, ProcessPlace, Committed
  <2>4. o \in BOOLEAN
    BY <2>3 DEF OpenAfter, Committed
  <2>5. sigs \ dropped \in SUBSET Codes /\ carried' \subseteq Codes
    BY <2>2
  <2> DEFINE c == Commit(st, st.state, "ARTIFACT_VERIFIED")
  <2>6. c \in Committed /\ c.state = st.state /\ c.stage = "ARTIFACT_VERIFIED"
        /\ c.blocked = st.blocked /\ c.test = st.test
    BY <2>3, CommitType DEF Stages
  <2> HIDE DEF c
  <2>7. st' = [c EXCEPT !.open = o, !.pending = sigs \ dropped]
    BY <2>2 DEF c
  <2>8. st' \in Committed /\ st'.state = st.state /\ st'.stage = "ARTIFACT_VERIFIED"
        /\ st'.blocked = st.blocked /\ st'.test = st.test
    BY <2>4, <2>5, <2>6, <2>7 DEF Committed
  <2>9. plan' \in Plans
    BY <1>7 DEF Verify, IInv, TypeOK, Plans
  <2>10. TypeOK'
    BY <1>7, <2>5, <2>8, <2>9 DEF Verify, history, IInv, TypeOK
  <2>11. QED
    BY <1>7, <2>3, <2>8, <2>10 DEF Verify, history, IInv, Budget, ProcessPlace, BlockPlace,
       EscalationsStayWithTheirBlock, ReviewPlace, AgreedPlace, Tested,
       WorkerStates, PlannerStates, ImplementerStates, ReviewerStates
<1>8. ASSUME Routing
      PROVE  /\ st \in Committed /\ st.state \in WorkerStates /\ st.state # "TEST_GATE"
             /\ transitions < MaxTransitions /\ Escalations \in SUBSET Codes
             /\ Escalations = {} => st.pending = {}
             /\ st.blocked = "NONE"
  BY <1>8 DEF Routing, Escalations, AtHead, IInv, TypeOK, Budget, ProcessPlace, BlockPlace,
     Committed, WorkerStates, PlannerStates, ImplementerStates, ReviewerStates
<1>9. CASE RouteByMachine
  <2>1. CommitStepTransition(st, IF Escalations = {} THEN "ARTIFACT_OK" ELSE "ESCALATE",
                             FALSE, Escalations)
        /\ tested' = tested /\ Routing
    BY <1>9 DEF RouteByMachine
  <2>2. st' \in Committed /\ userOwned' \in BOOLEAN /\ Places'
    BY <1>8, <2>1, StepFromSt, NoCodes
  <2>3. QED
    BY <1>8, <1>9, <2>1, <2>2 DEF RouteByMachine, Iterate, IInv, TypeOK, Budget, ProcessPlace, Places
<1>10. CASE MasterRoutesCompletion
  <2>1. PICK sig \in {"ARTIFACT_OK", "ESCALATE"} : CommitStepTransition(st, sig, FALSE, {})
    BY <1>10 DEF MasterRoutesCompletion
  <2>2. tested' = tested /\ Routing
    BY <1>10 DEF MasterRoutesCompletion
  <2>3. st' \in Committed /\ userOwned' \in BOOLEAN /\ Places'
    BY <1>8, <2>1, <2>2, StepFromSt, NoCodes
  <2>4. QED
    BY <1>8, <1>10, <2>2, <2>3 DEF MasterRoutesCompletion, Iterate, IInv, TypeOK, Budget,
       ProcessPlace, Places
<1>11. CASE MasterSkipsPlanReview
  <2>1. Routing /\ Escalations = {} /\ st.state \in PlannerStates
    BY <1>11 DEF MasterSkipsPlanReview
  <2>2. st' \in Committed /\ st'.state = "IMPLEMENT" /\ st'.stage = "TRANSITION_COMMITTED"
        /\ st'.blocked = "NONE" /\ st'.pending = {}
    BY <1>8, <1>11, <2>1, CommitType DEF MasterSkipsPlanReview, LoopState, WorkerStates,
       ImplementerStates, Stages
  <2>3. TypeOK'
    BY <1>8, <1>11, <2>1, <2>2 DEF MasterSkipsPlanReview, Iterate, history, IInv, TypeOK
  <2>4. QED
    BY <1>11, <2>2, <2>3 DEF MasterSkipsPlanReview, Iterate, history, IInv, Budget,
       ProcessPlace, BlockPlace, EscalationsStayWithTheirBlock, ReviewPlace, AgreedPlace,
       ReviewedStates
<1>12. CASE MasterFinishesReview
  <2>1. Routing /\ st.state = "CODE_REVIEW" /\ ~st.open
    BY <1>12 DEF MasterFinishesReview, LowRiskPlan
  <2> DEFINE c == Commit(st, "READY_FOR_MERGE", "TRANSITION_COMMITTED")
  <2>2. c \in Committed /\ c.state = "READY_FOR_MERGE" /\ c.stage = "TRANSITION_COMMITTED"
        /\ c.open = st.open /\ c.test = st.test
    BY <1>8, <2>1, CommitType DEF LoopState, TerminalStates, Stages
  <2> HIDE DEF c
  <2>3. st' = ClearBlocked(c)
    BY <1>12 DEF MasterFinishesReview, c
  <2>4. st' \in Committed /\ st'.state = "READY_FOR_MERGE"
        /\ st'.stage = "TRANSITION_COMMITTED" /\ st'.blocked = "NONE" /\ st'.pending = {}
        /\ st'.open = st.open /\ st'.test = st.test
    BY <2>2, <2>3, ClearBlockedType
  <2>5. Tested'
    BY <1>12, <2>1, <2>4 DEF MasterFinishesReview, history, IInv, ReviewPlace, ReviewedStates, Tested
  <2>6. TypeOK'
    BY <1>8, <1>12, <2>1, <2>4 DEF MasterFinishesReview, Iterate, history, IInv, TypeOK
  <2>7. QED
    BY <1>12, <2>1, <2>4, <2>5, <2>6 DEF MasterFinishesReview, Iterate, history, IInv, Budget,
       ProcessPlace, BlockPlace, EscalationsStayWithTheirBlock, ReviewPlace, AgreedPlace
<1>13. CASE MasterLeavesSupervision
  <2>1. CommitStepTransition(st, "ESCALATE", TRUE, Escalations) /\ tested' = tested /\ Routing
    BY <1>13 DEF MasterLeavesSupervision
  <2>2. st' \in Committed /\ userOwned' \in BOOLEAN /\ Places'
    BY <1>8, <2>1, StepFromSt, NoCodes
  <2>3. QED
    BY <1>8, <1>13, <2>1, <2>2 DEF MasterLeavesSupervision, Iterate, IInv, TypeOK, Budget,
       ProcessPlace, Places
<1>14. CASE MasterResolvesSupervision
  <2>1. PICK t \in SupervisionTargets(st.state, Escalations) :
          /\ st' = [Commit(st, t, "TRANSITION_COMMITTED") EXCEPT !.pending = {}]
          /\ IF t = st.state
             THEN pc' = "settle" /\ hand' = Escalations /\ UNCHANGED transitions
             ELSE Iterate /\ UNCHANGED hand
    BY <1>14 DEF MasterResolvesSupervision
  <2>2. Routing
    BY <1>14 DEF MasterResolvesSupervision
  <2>3. /\ t \in LoopState \ TerminalStates
        /\ t # "HUMAN_GATE"
        /\ t \in ReviewedStates => st.state \in ReviewedStates
        /\ t = st.state => t \in {"PLAN_REVISE", "FIX"}
    BY SupervisionTargetStates
  <2> DEFINE c == Commit(st, t, "TRANSITION_COMMITTED")
  <2>4. c \in Committed /\ c.state = t /\ c.stage = "TRANSITION_COMMITTED"
        /\ c.blocked = st.blocked /\ c.open = st.open /\ c.test = st.test
    BY <1>8, <2>2, <2>3, CommitType DEF Stages
  <2> HIDE DEF c
  <2>5. st' = [c EXCEPT !.pending = {}]
    BY <2>1 DEF c
  <2>6. st' \in Committed /\ st'.state = t /\ st'.stage = "TRANSITION_COMMITTED"
        /\ st'.blocked = "NONE" /\ st'.pending = {} /\ st'.test = st.test
    BY <1>8, <2>2, <2>4, <2>5 DEF Committed
  <2>7. ReviewPlace'
    BY <1>14, <2>3, <2>6 DEF MasterResolvesSupervision, history, IInv, ReviewPlace, Tested,
       ReviewedStates, TerminalStates
  <2>8. TypeOK'
    BY <1>8, <1>14, <2>1, <2>2, <2>6 DEF MasterResolvesSupervision, Iterate, history, IInv, TypeOK
  <2>9. QED
    BY <1>8, <1>14, <2>1, <2>2, <2>3, <2>6, <2>7, <2>8 DEF Iterate, IInv, Budget, ProcessPlace,
       BlockPlace, EscalationsStayWithTheirBlock, AgreedPlace, TerminalStates
<1>15. CASE SettleSupervision
  <2>1. CommitStepTransition(st, "ESCALATE", FALSE, hand) /\ tested' = tested
    BY <1>15 DEF SettleSupervision
  <2>2. st \in Committed /\ hand \in SUBSET Codes /\ st.state # "TEST_GATE"
    BY <1>15 DEF SettleSupervision, IInv, TypeOK, ProcessPlace
  <2>3. st' \in Committed /\ userOwned' \in BOOLEAN /\ Places'
    BY <2>1, <2>2, StepFromSt, NoCodes
  <2>4. QED
    BY <1>15, <2>3 DEF SettleSupervision, Iterate, IInv, TypeOK, Budget, ProcessPlace, Places
<1>16. QED
  BY <1>1, <1>2, <1>3, <1>4, <1>5, <1>6, <1>7, <1>9, <1>10, <1>11, <1>12, <1>13, <1>14, <1>15

\* The test gate, the two evaluations and the recovery of a block by the Master.
LEMMA GateSteps ==
  ASSUME IInv,
         \/ TestGate \/ EvaluatePlan \/ EvaluateCode
         \/ MasterRecovers \/ MasterAborts \/ MasterAsksUser
  PROVE  IInv'
<1> USE RunLoopConstants
<1>0. st \in Committed
  BY DEF IInv, TypeOK
<1>1. CASE TestGate
  <2>1. PICK status \in TestStatus :
          LET base == [st EXCEPT !.test = status] IN
          \/ CommitStepTransition(base, status, FALSE, {})
          \/ CommitStepTransition(base, "ESCALATE", TRUE, {})
          \/ /\ status = "PASS" /\ LowRiskPlan
             /\ st' = ClearBlocked([Commit(base, "READY_FOR_MERGE", "TRANSITION_COMMITTED")
                                      EXCEPT !.counters.testFix = 0])
             /\ UNCHANGED userOwned
    BY <1>1, Zenon DEF TestGate
  <2> DEFINE base == [st EXCEPT !.test = status]
  <2>2. base \in Committed /\ base.state = "TEST_GATE" /\ base.blocked = st.blocked
        /\ base.open = st.open /\ base.test = status /\ st.state = "TEST_GATE" /\ tested'
    BY <1>0, <1>1 DEF TestGate, AtHead, Committed
  <2>3. st' \in Committed /\ userOwned' \in BOOLEAN /\ Places'
    <3>1. ASSUME NEW sig, sig \in {"PASS", "NOT_RUN"} => status = sig,
                 CommitStepTransition(base, sig, FALSE, {})
                   \/ CommitStepTransition(base, sig, TRUE, {})
          PROVE  st' \in Committed /\ userOwned' \in BOOLEAN /\ Places'
      <4> HIDE DEF base
      <4>1. QED
        BY <2>2, <3>1, StepPlaces, NoCodes
    <3>2. CASE CommitStepTransition(base, status, FALSE, {})
      BY <3>1, <3>2
    <3>3. CASE CommitStepTransition(base, "ESCALATE", TRUE, {})
      <4> HIDE DEF base
      <4>1. "ESCALATE" \notin {"PASS", "NOT_RUN"}
        OBVIOUS
      <4>2. QED
        BY <2>2, <3>3, <4>1, StepPlaces, NoCodes
    <3>4. CASE /\ status = "PASS" /\ LowRiskPlan
               /\ st' = ClearBlocked([Commit(base, "READY_FOR_MERGE", "TRANSITION_COMMITTED")
                                        EXCEPT !.counters.testFix = 0])
               /\ UNCHANGED userOwned
      <4> DEFINE c == Commit(base, "READY_FOR_MERGE", "TRANSITION_COMMITTED")
                 d == [c EXCEPT !.counters.testFix = 0]
      <4>1. c \in Committed /\ c.state = "READY_FOR_MERGE"
            /\ c.stage = "TRANSITION_COMMITTED" /\ c.open = st.open /\ c.test = "PASS"
        <5> HIDE DEF base
        <5>1. QED
          BY <2>2, <3>4, CommitType DEF LoopState, TerminalStates, Stages
      <4> HIDE DEF c
      <4>2. d \in Committed /\ d.state = "READY_FOR_MERGE"
            /\ d.stage = "TRANSITION_COMMITTED" /\ d.open = st.open /\ d.test = "PASS"
        BY <4>1 DEF Committed, Counters
      <4>3. st' = ClearBlocked(d)
        BY <3>4 DEF c, base
      <4> HIDE DEF d
      <4>4. st' \in Committed /\ st'.state = "READY_FOR_MERGE"
            /\ st'.stage = "TRANSITION_COMMITTED" /\ st'.blocked = "NONE"
            /\ st'.pending = {} /\ st'.open = st.open /\ st'.test = "PASS"
        BY <4>2, <4>3, ClearBlockedType
      <4>5. QED
        BY <2>2, <3>4, <4>4 DEF LowRiskPlan, IInv, TypeOK, Places, BlockPlace,
           EscalationsStayWithTheirBlock, ReviewPlace, AgreedPlace, Tested
    <3>5. QED
      BY <2>1, <3>2, <3>3, <3>4
  <2>4. QED
    BY <1>1, <2>3 DEF TestGate, AtHead, Iterate, IInv, TypeOK, Budget, ProcessPlace, Places
<1>2. CASE EvaluatePlan
  <2> DEFINE base == [st EXCEPT !.planRound = @ + 1]
  <2>1. PICK esc \in SUBSET Codes : \E sig : CommitStepTransition(base, sig, FALSE, esc)
    <3> DEFINE approvable == ~st.open /\ ~mode.planning
               contract == IF approvable /\ "schema" \in plan.risk /\ ~plan.contract
                           THEN {"E03"} ELSE {}
               deletion == approvable /\ "destr" \in plan.risk /\ ~st.destructive
               Sig(esc) == IF esc \cup contract # {} \/ deletion THEN "ESCALATE"
                           ELSE IF st.open THEN "UNRESOLVED_REMAIN" ELSE "UNRESOLVED_ZERO"
    <3>1. PICK esc \in RoundEscalations :
            CommitStepTransition(base, Sig(esc), FALSE, esc \cup contract)
      BY <1>2, Zenon DEF EvaluatePlan
    <3>2. esc \cup contract \in SUBSET Codes
      BY DEF RoundEscalations, Codes
    <3> HIDE DEF base, contract, Sig
    <3>3. QED
      BY <3>1, <3>2
  <2>2. base \in Committed /\ base.state = st.state /\ base.blocked = st.blocked
        /\ base.open = st.open /\ base.test = st.test
        /\ st.state # "TEST_GATE" /\ tested' = tested
    BY <1>0, <1>2 DEF EvaluatePlan, AtHead, Committed
  <2> HIDE DEF base
  <2>3. st' \in Committed /\ userOwned' \in BOOLEAN /\ Places'
    BY <2>1, <2>2, StepPlaces
  <2>4. QED
    BY <1>2, <2>3 DEF EvaluatePlan, AtHead, Iterate, IInv, TypeOK, Budget, ProcessPlace, Places
<1>3. CASE EvaluateCode
  <2> DEFINE base == [st EXCEPT !.codeRound = @ + 1]
  <2>1. base \in Committed /\ base.state = st.state /\ base.blocked = st.blocked
        /\ base.open = st.open /\ base.test = st.test
        /\ st.state = "CONSENSUS_EVALUATE" /\ tested' = tested
    BY <1>0, <1>3 DEF EvaluateCode, AtHead, Committed
  <2>2. \/ \E sig, esc : /\ esc \in SUBSET Codes
                         /\ \/ CommitStepTransition(base, sig, FALSE, esc)
                            \/ CommitStepTransition(base, sig, TRUE, esc)
        \/ /\ ~st.open /\ UNCHANGED userOwned
           /\ st' = ClearBlocked(Commit(base, "READY_FOR_MERGE", "TRANSITION_COMMITTED"))
    <3>1. \A esc \in RoundEscalations : esc \in SUBSET Codes
      BY DEF RoundEscalations
    <3> HIDE DEF base
    <3>2. \/ \E sig : \E esc \in RoundEscalations : CommitStepTransition(base, sig, FALSE, esc)
          \/ CommitStepTransition(base, "ESCALATE", TRUE, {})
          \/ /\ ~st.open /\ UNCHANGED userOwned
             /\ st' = ClearBlocked(Commit(base, "READY_FOR_MERGE", "TRANSITION_COMMITTED"))
      BY <1>3, Zenon DEF EvaluateCode, base
    <3>3. QED
      BY <3>1, <3>2, NoCodes
  <2> HIDE DEF base
  <2>3. st' \in Committed /\ userOwned' \in BOOLEAN /\ Places'
    <3>1. CASE \E sig, esc : /\ esc \in SUBSET Codes
                            /\ \/ CommitStepTransition(base, sig, FALSE, esc)
                               \/ CommitStepTransition(base, sig, TRUE, esc)
      BY <2>1, <3>1, StepPlaces
    <3>2. CASE /\ ~st.open /\ UNCHANGED userOwned
               /\ st' = ClearBlocked(Commit(base, "READY_FOR_MERGE", "TRANSITION_COMMITTED"))
      <4> DEFINE c == Commit(base, "READY_FOR_MERGE", "TRANSITION_COMMITTED")
      <4>1. c \in Committed /\ c.state = "READY_FOR_MERGE"
            /\ c.stage = "TRANSITION_COMMITTED" /\ c.open = st.open /\ c.test = st.test
        BY <2>1, CommitType DEF LoopState, TerminalStates, Stages
      <4>2. st' = ClearBlocked(c)
        BY <3>2
      <4> HIDE DEF c
      <4>3. st' \in Committed /\ st'.state = "READY_FOR_MERGE"
            /\ st'.stage = "TRANSITION_COMMITTED" /\ st'.blocked = "NONE"
            /\ st'.pending = {} /\ st'.open = st.open /\ st'.test = st.test
        BY <4>1, <4>2, ClearBlockedType
      <4>4. QED
        BY <2>1, <3>2, <4>3 DEF IInv, TypeOK, Places, BlockPlace,
           EscalationsStayWithTheirBlock, ReviewPlace, AgreedPlace, Tested, ReviewedStates
    <3>3. QED
      BY <2>2, <3>1, <3>2
  <2>4. QED
    BY <1>3, <2>3 DEF EvaluateCode, AtHead, Iterate, IInv, TypeOK, Budget, ProcessPlace, Places
<1>4. CASE MasterRecovers
  <2>1. PICK t \in RecoveryTargets(st.blocked) :
          st' = ClearGate(ClearBlocked(Commit(st, t, "STEP_PENDING")))
    BY <1>4 DEF MasterRecovers
  <2>2. /\ t \in LoopState \ TerminalStates
        /\ t # "HUMAN_GATE"
        /\ t \in ReviewedStates => st.blocked \in ReviewedStates
    BY RecoveryTargetStates
  <2> DEFINE c == Commit(st, t, "STEP_PENDING")
             b == ClearBlocked(c)
  <2>3. c \in Committed /\ c.state = t /\ c.stage = "STEP_PENDING"
        /\ c.open = st.open /\ c.test = st.test
    BY <1>0, <2>2, CommitType DEF Stages
  <2> HIDE DEF c
  <2>4. b \in Committed /\ b.state = t /\ b.stage = "STEP_PENDING" /\ b.blocked = "NONE"
        /\ b.pending = {} /\ b.open = st.open /\ b.test = st.test
    BY <2>3, ClearBlockedType
  <2>5. st' = ClearGate(b)
    BY <2>1 DEF b, c
  <2> HIDE DEF b
  <2>6. st' \in Committed /\ st'.state = t /\ st'.stage = "STEP_PENDING"
        /\ st'.blocked = "NONE" /\ st'.pending = {}
        /\ st'.open = st.open /\ st'.test = st.test
    BY <2>4, <2>5, ClearGateType
  <2>7. TypeOK'
    BY <1>4, <2>6 DEF MasterRecovers, AtHead, Iterate, history, IInv, TypeOK
  <2>8. ReviewPlace'
    BY <1>4, <2>2, <2>6 DEF MasterRecovers, history, IInv, ReviewPlace, Tested,
       ReviewedStates, TerminalStates
  <2>9. QED
    BY <1>4, <2>2, <2>6, <2>7, <2>8 DEF MasterRecovers, Iterate, IInv, Budget, ProcessPlace,
       BlockPlace, EscalationsStayWithTheirBlock, AgreedPlace, TerminalStates
<1>5. CASE MasterAborts
  <2> DEFINE c == Commit(st, "FAILED", "TRANSITION_COMMITTED")
  <2>1. c \in Committed /\ c.state = "FAILED" /\ c.stage = "TRANSITION_COMMITTED"
    BY <1>0, CommitType DEF Stages, LoopState, TerminalStates
  <2>2. st' = ClearBlocked(c)
    BY <1>5 DEF MasterAborts
  <2> HIDE DEF c
  <2>3. st' \in Committed /\ st'.state = "FAILED" /\ st'.stage = "TRANSITION_COMMITTED"
        /\ st'.blocked = "NONE" /\ st'.pending = {}
    BY <2>1, <2>2, ClearBlockedType
  <2>4. TypeOK'
    BY <1>5, <2>3 DEF MasterAborts, AtHead, Iterate, history, IInv, TypeOK
  <2>5. QED
    BY <1>5, <2>3, <2>4 DEF MasterAborts, Iterate, IInv, Budget, ProcessPlace, BlockPlace,
       EscalationsStayWithTheirBlock, ReviewPlace, AgreedPlace, ReviewedStates
<1>6. CASE MasterAsksUser
  <2> DEFINE c == Commit(st, "USER_DECISION_REQUIRED", "TRANSITION_COMMITTED")
  <2>1. c \in Committed /\ c.state = "USER_DECISION_REQUIRED"
        /\ c.stage = "TRANSITION_COMMITTED" /\ c.blocked = st.blocked /\ c.test = st.test
    BY <1>0, CommitType DEF Stages, LoopState, TerminalStates
  <2>2. st' = [c EXCEPT !.last = "authority"]
    BY <1>6 DEF MasterAsksUser
  <2> HIDE DEF c
  <2>3. st' \in Committed /\ st'.state = "USER_DECISION_REQUIRED"
        /\ st'.stage = "TRANSITION_COMMITTED" /\ st'.blocked = st.blocked
        /\ st'.test = st.test
    BY <2>1, <2>2 DEF Committed
  <2>4. TypeOK'
    BY <1>6, <2>3 DEF MasterAsksUser, IInv, TypeOK
  <2>5. QED
    BY <1>6, <2>3, <2>4 DEF MasterAsksUser, AtHead, IInv, Budget, ProcessPlace, BlockPlace,
       EscalationsStayWithTheirBlock, ReviewPlace, AgreedPlace, ReviewedStates, Tested
<1>7. QED
  BY <1>1, <1>2, <1>3, <1>4, <1>5, <1>6

\* The gates and the answers of the user.
LEMMA UserSteps ==
  ASSUME IInv,
         \/ EnsureGate \/ WaitForAnswer \/ ResumeFinalGate \/ RecordFinalDecision
         \/ UserSendsBack \/ UserApprovesDeletion \/ UserApprovesEscalations
         \/ Answer
  PROVE  IInv'
<1> USE RunLoopConstants
<1>0. st \in Committed
  BY DEF IInv, TypeOK
<1>1. CASE EnsureGate
  <2>1. st.state \in {"HUMAN_GATE", "USER_DECISION_REQUIRED"}
    BY <1>1 DEF EnsureGate, AtHead, IInv, ProcessPlace
  <2>2. [kind |-> GateKind, options |-> GateOptions] \in Gates
    <3>1. GateKind \in GateKinds
      BY DEF GateKind, GateKinds
    <3>2. GateOptions \in SUBSET Decisions
      BY DEF GateOptions, Decisions
    <3>3. QED
      BY <3>1, <3>2 DEF Gates
  <2> DEFINE c == Commit(st, st.state, "TRANSITION_COMMITTED")
             g == [kind |-> GateKind, options |-> GateOptions]
  <2>3. c \in Committed /\ c.state = st.state /\ c.stage = "TRANSITION_COMMITTED"
        /\ c.blocked = st.blocked /\ c.pending = st.pending
        /\ c.open = st.open /\ c.test = st.test
    BY <1>0, CommitType DEF Stages, Committed
  <2>4. st' = [c EXCEPT !.gate = g]
    BY <1>1 DEF EnsureGate
  <2> HIDE DEF c, g
  <2>5. st' \in Committed /\ st'.state = st.state /\ st'.stage = "TRANSITION_COMMITTED"
        /\ st'.blocked = st.blocked /\ st'.pending = st.pending
        /\ st'.open = st.open /\ st'.test = st.test
    BY <2>2, <2>3, <2>4 DEF Committed, g
  <2>6. TypeOK'
    <3>1. answer' \in Decisions \cup {"NONE"}
      BY <1>1 DEF EnsureGate
    <3>2. transitions' \in 0 .. MaxTransitions /\ hand' \subseteq Codes
      BY <1>1 DEF EnsureGate, Exit
    <3>3. QED
      BY <1>1, <2>5, <3>1, <3>2 DEF EnsureGate, Exit, IInv, TypeOK
  <2>7. EscalationsStayWithTheirBlock'
    BY <2>1, <2>5 DEF IInv, EscalationsStayWithTheirBlock, BlockPlace, WorkerStates,
       PlannerStates, ImplementerStates, ReviewerStates
  <2>8. QED
    BY <1>1, <2>1, <2>5, <2>6, <2>7 DEF EnsureGate, Exit, IInv, Budget, ProcessPlace,
       BlockPlace, ReviewPlace, AgreedPlace, Tested
<1>2. CASE WaitForAnswer
  <2>1. TypeOK'
    BY <1>2 DEF WaitForAnswer, Exit, history, IInv, TypeOK
  <2>2. QED
    BY <1>2, <2>1 DEF WaitForAnswer, Exit, history, IInv, Budget, ProcessPlace, BlockPlace,
       EscalationsStayWithTheirBlock, ReviewPlace, AgreedPlace, Tested
<1>3. CASE ResumeFinalGate
  <2>1. st.state = "HUMAN_GATE" /\ CommitStepTransition(st, answer, FALSE, {})
        /\ tested' = tested /\ answer \in Decisions
    BY <1>3 DEF ResumeFinalGate, Answered, AtHead, IInv, TypeOK
  <2>2. st' \in Committed /\ userOwned' \in BOOLEAN /\ Places'
    BY <2>1, StepFromSt, NoCodes
  <2>3. st'.stage = "TRANSITION_COMMITTED"
        /\ st'.state \in {"READY_FOR_MERGE", "REJECTED", "FIX", "PLAN_REVISE"}
    <3>1. PICK t \in LoopState :
            /\ Transition("HUMAN_GATE", answer, View(st), st.counters, t)
            /\ st'.state = t
      BY <1>0, <2>1 DEF CommitStepTransition, Committed
    <3>2. t \in {"READY_FOR_MERGE", "REJECTED", "FIX", "PLAN_REVISE"}
      BY <2>1, <3>1 DEF Transition, DirectEdges, Decisions
    <3>3. st'.stage = "TRANSITION_COMMITTED"
      BY <1>0, <2>1 DEF CommitStepTransition, Committed
    <3>4. QED
      BY <3>1, <3>2, <3>3
  <2>4. TypeOK'
    BY <1>3, <2>2 DEF ResumeFinalGate, IInv, TypeOK
  <2>5. QED
    BY <1>3, <2>2, <2>3, <2>4 DEF ResumeFinalGate, Answered, AtHead, IInv, Budget,
       ProcessPlace, Places
<1>4. CASE RecordFinalDecision
  <2>1. st.state \in {"READY_FOR_MERGE", "REJECTED", "FIX", "PLAN_REVISE"}
        /\ transitions < MaxTransitions
    BY <1>4 DEF RecordFinalDecision, IInv, ProcessPlace, Budget
  <2> DEFINE c == Commit(st, st.state, "TRANSITION_COMMITTED")
             b == ClearBlocked(c)
  <2>2. c \in Committed /\ c.state = st.state /\ c.stage = "TRANSITION_COMMITTED"
        /\ c.open = st.open /\ c.test = st.test
    BY <1>0, CommitType DEF Stages, Committed
  <2> HIDE DEF c
  <2>3. b \in Committed /\ b.state = st.state /\ b.stage = "TRANSITION_COMMITTED"
        /\ b.blocked = "NONE" /\ b.pending = {} /\ b.open = st.open /\ b.test = st.test
    BY <2>2, ClearBlockedType
  <2>4. st' = ClearGate(b)
    BY <1>4 DEF RecordFinalDecision, b, c
  <2> HIDE DEF b
  <2>5. st' \in Committed /\ st'.state = st.state /\ st'.stage = "TRANSITION_COMMITTED"
        /\ st'.blocked = "NONE" /\ st'.pending = {}
        /\ st'.open = st.open /\ st'.test = st.test
    BY <2>3, <2>4, ClearGateType
  <2>6. TypeOK'
    <3>1. answer' \in Decisions \cup {"NONE"}
      BY <1>4 DEF RecordFinalDecision, ForgetAnswer
    <3>2. transitions' \in 0 .. MaxTransitions
      BY <1>4, <2>1 DEF RecordFinalDecision, Iterate, IInv, TypeOK
    <3>3. QED
      BY <1>4, <2>5, <3>1, <3>2 DEF RecordFinalDecision, Iterate, IInv, TypeOK
  <2>7. QED
    BY <1>4, <2>1, <2>5, <2>6 DEF RecordFinalDecision, Iterate, IInv, Budget, ProcessPlace,
       BlockPlace, EscalationsStayWithTheirBlock, ReviewPlace, AgreedPlace, Tested,
       ReviewedStates
<1>5. ASSUME Answered({"USER_DECISION_REQUIRED"}),
             NEW base, base \in Committed, base.open = st.open, base.test = st.test,
             NEW t, t \in LoopState \ {"HUMAN_GATE", "READY_FOR_MERGE"},
             t \in ReviewedStates => st.blocked \in ReviewedStates,
             Unblock(base, t), plan' \in Plans
      PROVE  IInv'
  <2>1. st' \in Committed /\ userOwned' \in BOOLEAN /\ Places'
    BY <1>5, UnblockPlaces
  <2>2. TypeOK'
    <3>1. answer' \in Decisions \cup {"NONE"}
      BY <1>5 DEF Unblock, ForgetAnswer
    <3>2. transitions' \in 0 .. MaxTransitions
      BY <1>5 DEF Unblock, Iterate, Answered, AtHead, IInv, TypeOK
    <3>3. QED
      BY <1>5, <2>1, <3>1, <3>2 DEF Unblock, Iterate, IInv, TypeOK
  <2>3. QED
    BY <1>5, <2>1, <2>2 DEF Unblock, Iterate, IInv, Budget, ProcessPlace, Places
<1>6. CASE UserSendsBack
  <2>1. Answered({"USER_DECISION_REQUIRED"}) /\ plan' \in Plans
    BY <1>6 DEF UserSendsBack, IInv, TypeOK
  <2>2. PICK t \in {"REJECTED", "PLAN_REVISE", "FIX"} : Unblock(st, t)
    BY <1>6 DEF UserSendsBack
  <2>3. t \in LoopState \ {"HUMAN_GATE", "READY_FOR_MERGE"} /\ t \notin ReviewedStates
    BY DEF LoopState, WorkerStates, PlannerStates, ImplementerStates, TerminalStates,
       ReviewedStates
  <2>4. QED
    BY <1>0, <1>5, <2>1, <2>2, <2>3
<1>7. CASE UserApprovesDeletion
  <2>1. Answered({"USER_DECISION_REQUIRED"}) /\ plan' \in Plans
    BY <1>7 DEF UserApprovesDeletion, IInv, TypeOK, Plans
  <2> DEFINE base == [st EXCEPT !.destructive = @ \/ "destr" \in plan.risk]
  <2>2. PICK t \in LoopState : <<st.blocked, t>> \in ApprovedTarget /\ Unblock(base, t)
    BY <1>7 DEF UserApprovesDeletion
  <2>3. base \in Committed /\ base.open = st.open /\ base.test = st.test
    BY <1>0 DEF Committed
  <2>4. /\ t \in LoopState \ {"HUMAN_GATE", "READY_FOR_MERGE"}
        /\ t \in ReviewedStates => st.blocked \in ReviewedStates
    BY <2>2, ApprovedTargets DEF TerminalStates
  <2> HIDE DEF base
  <2>5. QED
    BY <1>5, <2>1, <2>2, <2>3, <2>4
<1>8. CASE UserApprovesEscalations
  <2>1. Answered({"USER_DECISION_REQUIRED"}) /\ plan' \in Plans
    BY <1>8 DEF UserApprovesEscalations, IInv, TypeOK, Plans
  <2> DEFINE base == [st EXCEPT !.keys = @ \cup st.pending]
  <2>2. base \in Committed /\ base.blocked = st.blocked
        /\ base.open = st.open /\ base.test = st.test
    BY <1>0 DEF Committed
  <2>3. \/ \E t \in LoopState : <<st.blocked, t>> \in ApprovedTarget /\ Unblock(base, t)
        \/ /\ st' = ClearGate([Commit(base, "USER_DECISION_REQUIRED", "TRANSITION_COMMITTED")
                                  EXCEPT !.pending = {}])
           /\ Iterate /\ ForgetAnswer /\ userOwned' = FALSE
           /\ UNCHANGED <<carried, mode, hand, tested>>
    BY <1>8, Zenon DEF UserApprovesEscalations
  <2> DEFINE c == Commit(base, "USER_DECISION_REQUIRED", "TRANSITION_COMMITTED")
             d == [c EXCEPT !.pending = {}]
  <2> HIDE DEF base
  <2>4. CASE \E t \in LoopState : <<st.blocked, t>> \in ApprovedTarget /\ Unblock(base, t)
    <3>1. PICK t \in LoopState : <<st.blocked, t>> \in ApprovedTarget /\ Unblock(base, t)
      BY <2>4
    <3>2. /\ t \in LoopState \ {"HUMAN_GATE", "READY_FOR_MERGE"}
          /\ t \in ReviewedStates => st.blocked \in ReviewedStates
      BY <3>1, ApprovedTargets DEF TerminalStates
    <3>3. QED
      BY <1>5, <2>1, <2>2, <3>1, <3>2
  <2>5. CASE /\ st' = ClearGate(d)
             /\ Iterate /\ ForgetAnswer /\ userOwned' = FALSE
             /\ UNCHANGED <<carried, mode, hand, tested>>
    <3>1. c \in Committed /\ c.state = "USER_DECISION_REQUIRED"
          /\ c.stage = "TRANSITION_COMMITTED" /\ c.blocked = st.blocked /\ c.test = st.test
      BY <2>2, CommitType DEF Stages, LoopState, TerminalStates
    <3> HIDE DEF c
    <3>2. d \in Committed /\ d.state = "USER_DECISION_REQUIRED"
          /\ d.stage = "TRANSITION_COMMITTED" /\ d.blocked = st.blocked /\ d.test = st.test
      BY <3>1 DEF Committed
    <3> HIDE DEF d
    <3>3. st' \in Committed /\ st'.state = "USER_DECISION_REQUIRED"
          /\ st'.stage = "TRANSITION_COMMITTED" /\ st'.blocked = st.blocked
          /\ st'.test = st.test
      BY <2>5, <3>2, ClearGateType
    <3>4. TypeOK'
      <4>1. answer' \in Decisions \cup {"NONE"}
        BY <2>5 DEF ForgetAnswer
      <4>2. transitions' \in 0 .. MaxTransitions
        BY <2>1, <2>5 DEF Iterate, Answered, AtHead, IInv, TypeOK
      <4>3. QED
        BY <2>1, <2>5, <3>3, <4>1, <4>2 DEF Iterate, IInv, TypeOK
    <3>5. QED
      BY <2>5, <3>3, <3>4 DEF Iterate, IInv, Budget, ProcessPlace, BlockPlace,
         EscalationsStayWithTheirBlock, ReviewPlace, AgreedPlace, Tested, ReviewedStates
  <2>6. QED
    BY <2>3, <2>4, <2>5
<1>9. CASE Answer
  <2>1. TypeOK'
    BY <1>0, <1>9 DEF Answer, history, IInv, TypeOK, Committed, Gates
  <2>2. QED
    BY <1>9, <2>1 DEF Answer, history, IInv, Budget, ProcessPlace, BlockPlace,
       EscalationsStayWithTheirBlock, ReviewPlace, AgreedPlace, Tested
<1>10. QED
  BY <1>1, <1>2, <1>3, <1>4, <1>6, <1>7, <1>8, <1>9

\* The ends of a process, and its restart.
LEMMA ProcessSteps ==
  ASSUME IInv,
         ReturnEndState \/ BudgetSpent \/ Refuse \/ Stop \/ Resume \/ UNCHANGED vars
  PROVE  IInv'
<1> USE RunLoopConstants
<1>1. CASE UNCHANGED vars
  BY <1>1 DEF vars, history, IInv, TypeOK, Budget, ProcessPlace, BlockPlace,
     EscalationsStayWithTheirBlock, ReviewPlace, AgreedPlace, Tested
<1>2. CASE ReturnEndState \/ Refuse \/ Stop
  <2>1. Exit /\ UNCHANGED <<st, plan, carried, answer, mode, history>>
    BY <1>2 DEF ReturnEndState, Refuse, Stop
  <2>2. TypeOK'
    BY <2>1 DEF Exit, history, IInv, TypeOK
  <2>3. QED
    BY <2>1, <2>2 DEF Exit, history, IInv, Budget, ProcessPlace, BlockPlace,
       EscalationsStayWithTheirBlock, ReviewPlace, AgreedPlace, Tested
<1>3. CASE BudgetSpent
  <2>1. st' \in Committed /\ st'.state = "FAILED" /\ st'.stage = "TRANSITION_COMMITTED"
        /\ st'.blocked = st.blocked /\ st'.test = st.test
    BY <1>3, CommitType DEF BudgetSpent, IInv, TypeOK, Stages, LoopState, TerminalStates
  <2>2. TypeOK'
    BY <1>3, <2>1 DEF BudgetSpent, Exit, history, IInv, TypeOK
  <2>3. QED
    BY <1>3, <2>1, <2>2 DEF BudgetSpent, Exit, history, IInv, Budget, ProcessPlace, BlockPlace,
       EscalationsStayWithTheirBlock, ReviewPlace, AgreedPlace, Tested, ReviewedStates
<1>4. CASE Resume
  <2>1. TypeOK'
    BY <1>4 DEF Resume, history, IInv, TypeOK
  <2>2. QED
    BY <1>4, <2>1 DEF Resume, history, IInv, Budget, ProcessPlace, BlockPlace,
       EscalationsStayWithTheirBlock, ReviewPlace, AgreedPlace, Tested
<1>5. QED
  BY <1>1, <1>2, <1>3, <1>4

LEMMA NextInv == IInv /\ [Next]_vars => IInv'
<1> SUFFICES ASSUME IInv, [Next]_vars PROVE IInv'
  OBVIOUS
<1>1. CASE Step
  BY <1>1, WorkerSteps, GateSteps, UserSteps, ProcessSteps DEF Step
<1>2. CASE Answer
  BY <1>2, UserSteps
<1>3. CASE Stop \/ Resume \/ UNCHANGED vars
  BY <1>3, ProcessSteps
<1>4. QED
  BY <1>1, <1>2, <1>3 DEF Next

-----------------------------------------------------------------------------
\* The theorems.

\* Every state of every run satisfies the invariant.
THEOREM Invariance == Spec => []IInv
<1>1. Init => IInv
  BY InitInv
<1>2. IInv /\ [Next]_vars => IInv'
  BY NextInv
<1>3. QED
  BY <1>1, <1>2, PTL DEF Spec

\* The committed generation, the artifacts and the process always have their
\* types, whatever the limits, the modes and the risks are.
THEOREM TypeCorrect == Spec => []TypeOK
<1>1. IInv => TypeOK
  BY DEF IInv
<1>2. QED
  BY <1>1, Invariance, PTL

\* No route of run_loop.py - the machine, a Master, an approval, an answer, a
\* restart - reaches a review of source the test gate has not seen.
THEOREM ReviewsSeeTestedSource == Spec => []ReviewSeesTestedSource
<1>1. IInv => ReviewSeesTestedSource
  BY DEF IInv, ReviewPlace, Tested, ReviewSeesTestedSource
<1>2. QED
  BY <1>1, Invariance, PTL

\* READY_FOR_MERGE is reached with no open finding and a tested source, at the
\* final gate as by the three short cuts of a Master.
THEOREM MergeIsEarned == Spec => []ReadyIsEarned
<1>1. IInv => ReadyIsEarned
  BY DEF IInv, ReviewPlace, AgreedPlace, Tested, ReadyIsEarned
<1>2. QED
  BY <1>1, Invariance, PTL

\* pending_escalations never outlives the step or the block it belongs to.
THEOREM EscalationsDoNotLeak == Spec => []EscalationsStayWithTheirBlock
<1>1. IInv => EscalationsStayWithTheirBlock
  BY DEF IInv
<1>2. QED
  BY <1>1, Invariance, PTL

\* An ESCALATE result blocks the run and keeps its escalations for the gate.
LEMMA EscalationBlocks ==
  ASSUME NEW STATE esc, esc \in SUBSET Codes, st \in Committed,
         CommitStepTransition(st, "ESCALATE", FALSE, esc)
  PROVE  st'.state = "USER_DECISION_REQUIRED" /\ st'.pending = esc
<1>1. PICK t \in LoopState :
        /\ \/ st.state = "PLAN_CONSENSUS_EVALUATE" /\ "ESCALATE" = "UNRESOLVED_ZERO"
           \/ Transition(st.state, "ESCALATE", View(st), st.counters, t)
        /\ st'.state = t
        /\ st'.pending = IF t = "USER_DECISION_REQUIRED" THEN esc ELSE {}
  BY DEF CommitStepTransition, Committed
<1>2. t = "USER_DECISION_REQUIRED"
  BY <1>1 DEF Transition, DirectEdges
<1>3. QED
  BY <1>1, <1>2

\* A verified step with pending escalations blocks the run when no Master takes
\* it over, in the process that verified it as in any later one.
THEOREM VerifiedEscalationsAreDecided == Spec => EscalationsAreDecided
<1> DEFINE Verified == st.stage = "ARTIFACT_VERIFIED" /\ st.pending # {}
           Decided == \/ /\ st'.state \in {"USER_DECISION_REQUIRED", "FAILED"}
                         /\ st'.pending = st.pending
                      \/ mode.master /\ st'.stage = "TRANSITION_COMMITTED"
<1>1. IInv /\ [Next]_vars => [Verified /\ st' # st => Decided]_vars
  <2> SUFFICES ASSUME IInv, Next, Verified, st' # st
               PROVE  Decided
    OBVIOUS
  <2>1. /\ st \in Committed /\ st.state \in WorkerStates
        /\ pc \in {"down", "loop", "verified"}
        /\ Escalations = st.pending /\ Escalations \in SUBSET Codes
    <3>1. st \in Committed /\ st.state \in WorkerStates /\ st.pending \in SUBSET Codes
      BY DEF IInv, TypeOK, BlockPlace, Committed
    <3>2. pc \in {"down", "loop", "verified"}
      BY <3>1 DEF IInv, TypeOK, ProcessPlace, WorkerStates, PlannerStates, ImplementerStates,
         ReviewerStates
    <3>3. QED
      BY <3>1, <3>2 DEF Escalations
  <2>2. st.state \notin {"INIT", "TEST_GATE", "HUMAN_GATE"} \cup EvaluateStates \cup TerminalStates
    BY <2>1 DEF WorkerStates, PlannerStates, ImplementerStates, ReviewerStates,
       EvaluateStates, TerminalStates
  <2>3. \/ RouteByMachine \/ MasterLeavesSupervision \/ MasterResolvesSupervision \/ BudgetSpent
    BY <2>1, <2>2 DEF Next, Step, RecordPool, InitialRoute, DispatchStep, StepFails, Promote,
       ContractViolation, Verify, MasterRoutesCompletion, MasterSkipsPlanReview,
       MasterFinishesReview, SettleSupervision, TestGate, EvaluatePlan, EvaluateCode,
       MasterRecovers, MasterAborts, MasterAsksUser, EnsureGate, WaitForAnswer,
       ResumeFinalGate, RecordFinalDecision, UserSendsBack, UserApprovesDeletion,
       UserApprovesEscalations, ReturnEndState, Refuse, Answer, Stop, Resume, Answered,
       AtHead, EvaluateStates, TerminalStates
  <2>4. CASE RouteByMachine
    <3>1. CommitStepTransition(st, "ESCALATE", FALSE, st.pending)
      BY <2>1, <2>4 DEF RouteByMachine
    <3>2. QED
      BY <2>1, <3>1, EscalationBlocks
  <2>5. CASE MasterLeavesSupervision
    <3>1. mode.master /\ CommitStepTransition(st, "ESCALATE", TRUE, Escalations)
      BY <2>5 DEF MasterLeavesSupervision
    <3>2. st'.stage = "TRANSITION_COMMITTED"
      BY <2>1, <3>1 DEF CommitStepTransition, Committed
    <3>3. QED
      BY <3>1, <3>2
  <2>6. CASE MasterResolvesSupervision
    <3>1. PICK t : st' = [Commit(st, t, "TRANSITION_COMMITTED") EXCEPT !.pending = {}]
      BY <2>6 DEF MasterResolvesSupervision
    <3>2. st'.stage = "TRANSITION_COMMITTED"
      BY <2>1, <3>1 DEF Commit, Committed
    <3>3. QED
      BY <2>6, <3>2 DEF MasterResolvesSupervision
  <2>7. CASE BudgetSpent
    <3>1. st'.state = "FAILED" /\ st'.pending = st.pending
      BY <2>1, <2>7 DEF BudgetSpent, Commit, Committed
    <3>2. QED
      BY <3>1
  <2>8. QED
    BY <2>3, <2>4, <2>5, <2>6, <2>7
<1>2. QED
  BY <1>1, Invariance, PTL DEF Spec, EscalationsAreDecided
=============================================================================
