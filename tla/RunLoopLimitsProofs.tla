------------------------ MODULE RunLoopLimitsProofs ------------------------
(***************************************************************************)
(* Proofs about how long a process of RunLoop can run, for every value of  *)
(* its constants.                                                          *)
(*                                                                         *)
(* Work(st) + GateWork bounds the iterations of the loop a process without *)
(* a Master still has before it: every iteration uses up one of them, and  *)
(* what any process finds on disk is never worth more than ProcessBound.   *)
(***************************************************************************)
EXTENDS RunLoopProofs

\* What is left of a limit of which used is spent.
Left(limit, used) == IF used < limit THEN limit - used ELSE 0

\* The failed tests that still lead to another fix.
FixesLeft(s) == Left(TestFixLimit, s.counters.testFix + 1)

\* A round of the code, with all the failed tests it can have: fix, tests,
\* ..., review, confirmation, evaluation.
Cycle == 2 * TestFixLimit + 3

\* The iterations from s to the end of its round.
Distance(s) ==
  CASE s.state = "INIT" -> 5 + 2 * FixesLeft(s)
    [] s.state \in PlannerStates \cup ImplementerStates -> 4 + 2 * FixesLeft(s)
    [] s.state \in {"PLAN_REVIEW", "TEST_GATE"} -> 3 + 2 * FixesLeft(s)
    [] s.state = "PLAN_CONSENSUS_EVALUATE" -> 2 + 2 * FixesLeft(s)
    [] s.state = "CODE_REVIEW" -> 2
    [] s.state = "CROSS_CONFIRM" -> 1
    [] OTHER -> 0

\* The iterations the plan rounds, the code rounds and the retries left to s
\* can still bring.
PlanWork(s)  == 3 * Left(PlanLimit, s.planRound)
CodeWork(s)  == Cycle * Left(CodeLimit, s.codeRound)
RetryWork(s) == Left(RetryLimit, s.counters.opRetry + 1)

Work(s) == PlanWork(s) + CodeWork(s) + RetryWork(s) + Distance(s)

\* An answered gate sends the run back to a full round; its decision costs one
\* iteration more once the transition it stands for is committed.
GateWork == IF pc = "recording" THEN 1 ELSE IF st.gate = NoGate THEN 0 ELSE Cycle

ProcessBound == 3 * PlanLimit + Cycle * (CodeLimit + 1) + RetryLimit - 1

\* The final gate, and a gate still bound when its answer was acted on, come
\* after a round of the code.
GateRound ==
  /\ st.state = "HUMAN_GATE" => st.codeRound > 0
  /\ st.gate # NoGate /\ st.state \notin {"USER_DECISION_REQUIRED", "FAILED"}
       => st.codeRound > 0

\* A process that has not entered the loop has taken no transition.
Fresh == pc \in {"down", "boot", "init"} => transitions = 0

WorkLeft == ~mode.master => transitions + Work(st) + GateWork <= ProcessBound

LimitsInv == GateRound /\ Fresh /\ WorkLeft

-----------------------------------------------------------------------------
\* Arithmetic of the potential.

LEMMA CycleFacts ==
  /\ Cycle \in Nat /\ Cycle >= 5
  /\ \A c \in Nat : Cycle * c \in Nat /\ Cycle * (c + 1) = Cycle * c + Cycle
<1>1. Cycle \in Nat /\ Cycle >= 5
  BY LimitsPositive DEF Cycle
<1>2. ASSUME NEW c \in Nat, NEW k \in Nat
      PROVE  k * c \in Nat /\ k * (c + 1) = k * c + k
  BY SMT
<1> HIDE DEF Cycle
<1>3. QED
  BY <1>1, <1>2

LEMMA CycleMonotone ==
  ASSUME NEW a \in Nat, NEW b \in Nat, a <= b
  PROVE  Cycle * a <= Cycle * b
<1>1. PICK d \in Nat : b = a + d
  <2>1. b - a \in Nat /\ b = a + (b - a)
    OBVIOUS
  <2>2. QED
    BY <2>1
<1>2. ASSUME NEW k \in Nat PROVE k * a <= k * (a + d)
  <2>1. k * (a + d) = k * a + k * d /\ k * a \in Nat /\ k * d \in Nat
    BY SMT
  <2>2. QED
    BY <2>1
<1>3. QED
  BY <1>1, <1>2, CycleFacts
-----------------------------------------------------------------------------
\* What commits do to the potential.

LEMMA WorkFacts ==
  ASSUME NEW s \in Committed
  PROVE  /\ s.state \in LoopState /\ s.counters \in Counters
         /\ s.planRound \in Nat /\ s.codeRound \in Nat
         /\ FixesLeft(s) \in Nat /\ FixesLeft(s) <= TestFixLimit - 1
         /\ PlanWork(s) \in Nat /\ PlanWork(s) <= 3 * PlanLimit
         /\ CodeWork(s) \in Nat /\ CodeWork(s) <= Cycle * CodeLimit
         /\ s.codeRound > 0 => CodeWork(s) + Cycle <= Cycle * CodeLimit
         /\ RetryWork(s) \in Nat /\ RetryWork(s) <= RetryLimit - 1
         /\ Distance(s) \in Nat /\ Distance(s) <= Cycle
         /\ s.state # "INIT" => Distance(s) <= Cycle - 1
         /\ s.state \in TerminalStates \cup {"HUMAN_GATE", "CONSENSUS_EVALUATE"}
              => Distance(s) = 0
<1>1. /\ s.state \in LoopState /\ s.counters \in Counters
      /\ s.planRound \in Nat /\ s.codeRound \in Nat
  BY DEF Committed
<1>2. s.counters.testFix \in Nat /\ s.counters.opRetry \in Nat
  BY <1>1 DEF Counters
<1>3. /\ FixesLeft(s) \in Nat /\ FixesLeft(s) <= TestFixLimit - 1
      /\ RetryWork(s) \in Nat /\ RetryWork(s) <= RetryLimit - 1
  BY <1>2, LimitsPositive DEF FixesLeft, RetryWork, Left
<1>4. PlanWork(s) \in Nat /\ PlanWork(s) <= 3 * PlanLimit
  BY <1>1, LimitsPositive DEF PlanWork, Left
<1> DEFINE left == Left(CodeLimit, s.codeRound)
<1>5. left \in Nat /\ left <= CodeLimit /\ (s.codeRound > 0 => left <= CodeLimit - 1)
  BY <1>1, LimitsPositive DEF Left
<1> HIDE DEF left
<1>6. Cycle * left \in Nat /\ Cycle * left <= Cycle * CodeLimit
  BY <1>5, CycleFacts, CycleMonotone, LimitsPositive
<1>7. ASSUME s.codeRound > 0 PROVE Cycle * left + Cycle <= Cycle * CodeLimit
  <2>1. left + 1 \in Nat /\ left + 1 <= CodeLimit /\ CodeLimit \in Nat
    BY <1>5, <1>7, LimitsPositive
  <2>2. Cycle * (left + 1) <= Cycle * CodeLimit
    BY <2>1, CycleMonotone
  <2>3. QED
    BY <1>5, <2>2, CycleFacts
<1>8. CodeWork(s) = Cycle * left
  BY DEF CodeWork, left
<1>9. /\ Distance(s) \in Nat /\ Distance(s) <= Cycle
      /\ s.state # "INIT" => Distance(s) <= Cycle - 1
      /\ s.state \in TerminalStates \cup {"HUMAN_GATE", "CONSENSUS_EVALUATE"}
           => Distance(s) = 0
  BY <1>1, <1>3, LimitsPositive DEF Distance, Cycle, TerminalStates, PlannerStates,
     ImplementerStates
<1>10. QED
  BY <1>1, <1>3, <1>4, <1>6, <1>7, <1>8, <1>9

\* Whatever a process finds on disk leaves it no more than ProcessBound.
LEMMA WorkBounded ==
  ASSUME NEW s \in Committed, NEW g \in {0, Cycle},
         g = Cycle => \/ s.codeRound > 0
                      \/ s.state \in {"HUMAN_GATE", "USER_DECISION_REQUIRED", "FAILED"}
  PROVE  Work(s) + g <= ProcessBound
<1> DEFINE c == CodeWork(s)
           d == Distance(s)
<1>1. /\ PlanWork(s) \in Nat /\ PlanWork(s) <= 3 * PlanLimit
      /\ RetryWork(s) \in Nat /\ RetryWork(s) <= RetryLimit - 1
      /\ c \in Nat /\ c <= Cycle * CodeLimit
      /\ s.codeRound > 0 => c + Cycle <= Cycle * CodeLimit
      /\ d \in Nat /\ d <= Cycle
      /\ s.state \in {"HUMAN_GATE", "USER_DECISION_REQUIRED", "FAILED"} => d = 0
  BY WorkFacts DEF TerminalStates
<1>2. Cycle * (CodeLimit + 1) = Cycle * CodeLimit + Cycle /\ Cycle * CodeLimit \in Nat
      /\ Cycle \in Nat
  BY CycleFacts, LimitsPositive
<1>3. Work(s) = PlanWork(s) + c + RetryWork(s) + d
  BY DEF Work, c, d
<1> HIDE DEF c, d
<1>4. c + d + g <= Cycle * CodeLimit + Cycle
  BY <1>1, <1>2
<1>5. QED
  BY <1>1, <1>2, <1>3, <1>4, LimitsPositive DEF ProcessBound

-----------------------------------------------------------------------------
\* What a transition of the machine does to the potential.

\* CommitStepTransition keeps the rounds and the gate, and adds one to the
\* retries only.
LEMMA StepKeeps ==
  ASSUME NEW STATE base, NEW STATE sig, NEW STATE user, NEW STATE esc,
         base \in Committed, user \in BOOLEAN, esc \in SUBSET Codes,
         CommitStepTransition(base, sig, user, esc)
  PROVE  /\ st' \in Committed
         /\ st'.gate = base.gate
         /\ st'.planRound = base.planRound /\ st'.codeRound = base.codeRound
         /\ st'.counters = CountersAfter(base.state, sig, base.counters)
         /\ base.state \notin TerminalStates
         /\ \/ /\ base.state = "PLAN_CONSENSUS_EVALUATE" /\ sig = "UNRESOLVED_ZERO"
               /\ st'.state = "FINISHED_PLAN"
            \/ Transition(base.state, sig, View(base), base.counters, st'.state)
<1>1. st' \in Committed /\ base.state \notin TerminalStates
  BY StepTransition
<1>2. PICK t \in LoopState :
        /\ IF mode.planning /\ base.state = "PLAN_CONSENSUS_EVALUATE" /\ sig = "UNRESOLVED_ZERO"
           THEN t = "FINISHED_PLAN" /\ ~base.open
           ELSE Transition(base.state, sig, View(base), base.counters, t)
        /\ st' = [base EXCEPT
              !.state = t, !.stage = "TRANSITION_COMMITTED", !.last = LastOf(sig, user),
              !.counters = CountersAfter(base.state, sig, base.counters),
              !.blocked = IF t = "USER_DECISION_REQUIRED" THEN base.state ELSE @,
              !.pending = IF t = "USER_DECISION_REQUIRED" THEN esc ELSE {}]
  BY Zenon DEF CommitStepTransition
<1>3. /\ st'.state = t
      /\ st'.gate = base.gate
      /\ st'.planRound = base.planRound /\ st'.codeRound = base.codeRound
      /\ st'.counters = CountersAfter(base.state, sig, base.counters)
  BY <1>2 DEF Committed
<1>4. QED
  BY <1>1, <1>2, <1>3

\* The distance shrinks along every edge of the machine but those out of an
\* evaluation, which use up a round, and out of the final gate.
LEMMA TransitionDistance ==
  ASSUME NEW STATE b, NEW STATE n, NEW STATE sig, NEW STATE view,
         b \in Committed, n \in Committed,
         n.counters = CountersAfter(b.state, sig, b.counters),
         Transition(b.state, sig, view, b.counters, n.state)
  PROVE  /\ sig # "OPERATIONAL_RETRY" => n.counters.opRetry = b.counters.opRetry
         /\ sig = "OPERATIONAL_RETRY"
              => /\ n.counters.opRetry = b.counters.opRetry + 1
                 /\ Distance(n) <= Distance(b)
         /\ sig # "OPERATIONAL_RETRY" /\ b.state \notin EvaluateStates \cup {"HUMAN_GATE"}
              => Distance(n) + 1 <= Distance(b)
         /\ sig # "OPERATIONAL_RETRY" /\ b.state = "PLAN_CONSENSUS_EVALUATE"
              => Distance(n) <= Distance(b) + 2
         /\ n.state # "INIT" \/ sig = "OPERATIONAL_RETRY"
<1>1. /\ b.state \in LoopState /\ n.state \in LoopState
      /\ b.counters \in Counters
      /\ FixesLeft(b) \in Nat /\ FixesLeft(n) \in Nat
  BY WorkFacts
<1>2. b.counters.testFix \in Nat /\ b.counters.opRetry \in Nat
  BY <1>1 DEF Counters
<1>3. b.state \notin TerminalStates
  BY DEF Transition
<1>4. CASE sig = "OPERATIONAL_RETRY"
  <2>1. n.counters.opRetry = b.counters.opRetry + 1 /\ n.counters.testFix = b.counters.testFix
    BY <1>1, <1>4 DEF CountersAfter, Counters
  <2>2. n.state = b.state \/ n.state = "USER_DECISION_REQUIRED"
    BY <1>4 DEF Transition, DirectEdges
  <2>3. FixesLeft(n) = FixesLeft(b)
    BY <2>1 DEF FixesLeft
  <2>4. Distance(n) <= Distance(b)
    <3>1. CASE n.state = b.state
      <4>1. Distance(n) = Distance(b)
        BY <2>3, <3>1 DEF Distance
      <4>2. QED
        BY <4>1, WorkFacts
    <3>2. CASE n.state = "USER_DECISION_REQUIRED"
      BY <3>2, WorkFacts DEF TerminalStates
    <3>3. QED
      BY <2>2, <3>1, <3>2
  <2>5. QED
    BY <1>4, <2>1, <2>4
<1>5. CASE sig # "OPERATIONAL_RETRY"
  <2>1. n.counters.opRetry = b.counters.opRetry
    BY <1>1, <1>5 DEF CountersAfter, Counters
  <2>2. ~(b.state = "TEST_GATE" /\ sig \in {"PASS", "FAIL"})
          => n.counters.testFix = b.counters.testFix
    BY <1>1, <1>5 DEF CountersAfter
  <2>3. b.state = "TEST_GATE" /\ sig = "FAIL"
          => n.counters.testFix = b.counters.testFix + 1
    BY <1>1, <1>5 DEF CountersAfter, Counters
  <2>4. ~(b.state = "TEST_GATE" /\ sig \in {"PASS", "FAIL"}) => FixesLeft(n) = FixesLeft(b)
    BY <2>2 DEF FixesLeft
  <2>5. ASSUME b.state = "TEST_GATE", sig = "FAIL", n.state = "FIX"
        PROVE  FixesLeft(n) + 1 = FixesLeft(b)
    <3>1. b.counters.testFix + 1 < TestFixLimit
      BY <2>5 DEF Transition, DirectEdges
    <3>2. QED
      BY <1>2, <2>3, <2>5, <3>1, LimitsPositive DEF FixesLeft, Left
  <2>6. n.state # "INIT"
    BY <1>5 DEF Transition, DirectEdges
  <2>7. CASE n.state \in TerminalStates \cup {"HUMAN_GATE", "CONSENSUS_EVALUATE"}
    <3>1. Distance(n) = 0
      BY <2>7, WorkFacts
    <3>2. b.state \notin EvaluateStates \cup {"HUMAN_GATE"} => Distance(b) >= 1
      BY <1>1, <1>3 DEF Distance, LoopState, WorkerStates, PlannerStates, ImplementerStates,
         ReviewerStates, EvaluateStates
    <3>3. Distance(b) \in Nat
      BY WorkFacts
    <3>4. QED
      BY <1>5, <2>1, <2>6, <3>1, <3>2, <3>3
  <2>8. CASE n.state \notin TerminalStates \cup {"HUMAN_GATE", "CONSENSUS_EVALUATE"}
    <3>1. CASE b.state = "TEST_GATE"
      BY <1>1, <1>5, <2>1, <2>5, <2>6, <2>8, <3>1
         DEF Transition, DirectEdges, TerminalStates, Distance, PlannerStates, ImplementerStates,
             EvaluateStates
    <3>2. CASE b.state # "TEST_GATE"
      <4>1. FixesLeft(n) = FixesLeft(b)
        BY <2>4, <3>2
      <4>2. QED
        BY <1>1, <1>5, <2>1, <2>6, <2>8, <3>2, <4>1
           DEF Transition, DirectEdges, TerminalStates, Distance, PlannerStates,
               ImplementerStates, EvaluateStates
    <3>3. QED
      BY <3>1, <3>2
  <2>9. QED
    BY <2>7, <2>8
<1>6. QED
  BY <1>4, <1>5
-----------------------------------------------------------------------------
\* The invariant is inductive.

\* A process that has just started or just ended has all the work before it.
LEMMA FreshWork ==
  ASSUME st' \in Committed, GateRound', transitions' = 0, pc' # "recording"
  PROVE  WorkLeft'
<1>1. (GateWork' \in {0, Cycle}) /\ (GateWork' = Cycle => st'.gate # NoGate)
  BY CycleFacts DEF GateWork
<1>2. GateWork' = Cycle => \/ st'.codeRound > 0
                          \/ st'.state \in {"HUMAN_GATE", "USER_DECISION_REQUIRED", "FAILED"}
  BY <1>1 DEF GateRound
<1>3. Work(st') + GateWork' <= ProcessBound
  BY <1>1, <1>2, WorkBounded
<1>4. Work(st') \in Nat /\ GateWork' \in Nat
  BY <1>1, WorkFacts, CycleFacts DEF Work
<1>5. QED
  BY <1>3, <1>4 DEF WorkLeft

\* A commit that keeps the state, the rounds and the counters keeps the work.
LEMMA SameWork ==
  ASSUME NEW b \in Committed, NEW n \in Committed,
         n.state = b.state, n.counters = b.counters,
         n.planRound = b.planRound, n.codeRound = b.codeRound
  PROVE  Work(n) = Work(b)
BY DEF Work, PlanWork, CodeWork, RetryWork, Distance, FixesLeft

\* A machine step outside the evaluations and the final gate.
LEMMA StepWork ==
  ASSUME NEW STATE base, NEW STATE sig, NEW STATE user, NEW STATE esc,
         base \in Committed, user \in BOOLEAN, esc \in SUBSET Codes,
         base.state \notin EvaluateStates \cup {"HUMAN_GATE"},
         sig = "OPERATIONAL_RETRY" => base.counters.opRetry < RetryLimit - 1,
         CommitStepTransition(base, sig, user, esc)
  PROVE  Work(st') + 1 <= Work(base)
<1>1. /\ st' \in Committed
      /\ st'.planRound = base.planRound /\ st'.codeRound = base.codeRound
      /\ st'.counters = CountersAfter(base.state, sig, base.counters)
      /\ Transition(base.state, sig, View(base), base.counters, st'.state)
  BY StepKeeps DEF EvaluateStates
<1>2. PlanWork(st') = PlanWork(base) /\ CodeWork(st') = CodeWork(base)
  BY <1>1 DEF PlanWork, CodeWork
<1>3. /\ sig # "OPERATIONAL_RETRY" => st'.counters.opRetry = base.counters.opRetry
      /\ sig = "OPERATIONAL_RETRY"
           => /\ st'.counters.opRetry = base.counters.opRetry + 1
              /\ Distance(st') <= Distance(base)
      /\ sig # "OPERATIONAL_RETRY" => Distance(st') + 1 <= Distance(base)
  BY <1>1, TransitionDistance
<1>4. base.counters.opRetry \in Nat
  BY DEF Committed, Counters
<1>5. /\ sig # "OPERATIONAL_RETRY" => RetryWork(st') = RetryWork(base)
      /\ sig = "OPERATIONAL_RETRY" => RetryWork(st') + 1 = RetryWork(base)
  BY <1>3, <1>4, LimitsPositive DEF RetryWork, Left
<1>6. /\ PlanWork(base) \in Nat /\ CodeWork(base) \in Nat
      /\ RetryWork(base) \in Nat /\ RetryWork(st') \in Nat
      /\ Distance(base) \in Nat /\ Distance(st') \in Nat
  BY <1>1, WorkFacts
<1>7. QED
  BY <1>2, <1>3, <1>5, <1>6 DEF Work

\* An evaluation uses up a round, which is worth what follows it.
LEMMA EvaluationWork ==
  ASSUME NEW STATE b, NEW STATE base, NEW STATE sig, NEW STATE esc,
         b \in Committed, base \in Committed, esc \in SUBSET Codes,
         base.state = b.state, base.counters = b.counters,
         \/ /\ b.state = "PLAN_CONSENSUS_EVALUATE" /\ b.planRound + 1 <= PlanLimit
            /\ base.planRound = b.planRound + 1 /\ base.codeRound = b.codeRound
         \/ /\ b.state = "CONSENSUS_EVALUATE" /\ b.codeRound + 1 <= CodeLimit
            /\ base.codeRound = b.codeRound + 1 /\ base.planRound = b.planRound,
         sig # "OPERATIONAL_RETRY",
         \/ CommitStepTransition(base, sig, FALSE, esc)
         \/ CommitStepTransition(base, sig, TRUE, esc)
  PROVE  Work(st') + 1 <= Work(b)
<1> PICK user \in BOOLEAN : CommitStepTransition(base, sig, user, esc)
  OBVIOUS
<1>1. /\ st' \in Committed
      /\ st'.planRound = base.planRound /\ st'.codeRound = base.codeRound
      /\ st'.counters = CountersAfter(base.state, sig, base.counters)
      /\ \/ base.state = "PLAN_CONSENSUS_EVALUATE" /\ st'.state = "FINISHED_PLAN"
         \/ Transition(base.state, sig, View(base), base.counters, st'.state)
  BY StepKeeps
<1>2. st'.counters = b.counters
  BY <1>1 DEF CountersAfter
<1>3. RetryWork(st') = RetryWork(b) /\ FixesLeft(st') = FixesLeft(b)
  BY <1>2 DEF RetryWork, FixesLeft
<1>4. st'.state # "INIT"
  <2>1. CASE st'.state = "FINISHED_PLAN"
    BY <2>1
  <2>2. CASE Transition(base.state, sig, View(base), base.counters, st'.state)
    <3>1. base.state # "INIT"
      OBVIOUS
    <3>2. QED
      BY <2>2, <3>1 DEF Transition, DirectEdges
  <2>3. QED
    BY <1>1, <2>1, <2>2
<1>5. /\ b.planRound \in Nat /\ b.codeRound \in Nat
      /\ PlanWork(b) \in Nat /\ PlanWork(st') \in Nat
      /\ CodeWork(b) \in Nat /\ CodeWork(st') \in Nat
      /\ RetryWork(b) \in Nat
      /\ Distance(b) \in Nat /\ Distance(st') \in Nat /\ Distance(st') <= Cycle - 1
  BY <1>1, <1>4, WorkFacts
<1>6. CASE b.state = "PLAN_CONSENSUS_EVALUATE"
  <2>1. b.planRound + 1 <= PlanLimit /\ st'.planRound = b.planRound + 1
        /\ st'.codeRound = b.codeRound
    BY <1>1, <1>6
  <2>2. PlanWork(st') + 3 = PlanWork(b) /\ CodeWork(st') = CodeWork(b)
    BY <1>5, <2>1, LimitsPositive DEF PlanWork, CodeWork, Left
  <2>3. Distance(st') <= Distance(b) + 2
    <3>1. Distance(base) = Distance(b)
      BY DEF Distance, FixesLeft
    <3>2. CASE st'.state = "FINISHED_PLAN"
      BY <1>1, <1>5, <3>2, WorkFacts DEF TerminalStates
    <3>3. CASE Transition(base.state, sig, View(base), base.counters, st'.state)
      <4>1. Distance(st') <= Distance(base) + 2
        BY <1>1, <1>6, <3>3, TransitionDistance
      <4>2. QED
        BY <3>1, <4>1
    <3>4. QED
      BY <1>1, <3>2, <3>3
  <2>4. QED
    BY <1>3, <1>5, <2>2, <2>3 DEF Work
<1>7. CASE b.state = "CONSENSUS_EVALUATE"
  <2>1. b.codeRound + 1 <= CodeLimit /\ st'.codeRound = b.codeRound + 1
        /\ st'.planRound = b.planRound
    BY <1>1, <1>7
  <2>2. /\ PlanWork(st') = PlanWork(b)
        /\ Left(CodeLimit, b.codeRound) = Left(CodeLimit, st'.codeRound) + 1
        /\ Left(CodeLimit, st'.codeRound) \in Nat
    BY <1>5, <2>1, LimitsPositive DEF PlanWork, Left
  <2>3. CodeWork(st') + Cycle = CodeWork(b)
    BY <2>2, CycleFacts DEF CodeWork
  <2>4. QED
    BY <1>3, <1>5, <2>2, <2>3, CycleFacts DEF Work
<1>8. QED
  BY <1>6, <1>7
-----------------------------------------------------------------------------
\* The rounds of the gates.

\* A machine step keeps GateRound, if an evaluation of the code has counted its
\* round.
LEMMA StepGateRound ==
  ASSUME GateRound,
         NEW STATE base, NEW STATE sig, NEW STATE user, NEW STATE esc,
         base \in Committed, user \in BOOLEAN, esc \in SUBSET Codes,
         st \in Committed,
         base.state = st.state, base.gate = st.gate,
         base.codeRound = st.codeRound \/ base.codeRound = st.codeRound + 1,
         st.state = "CONSENSUS_EVALUATE" => base.codeRound > 0,
         CommitStepTransition(base, sig, user, esc)
  PROVE  GateRound'
<1>1. /\ st' \in Committed
      /\ st'.gate = base.gate /\ st'.codeRound = base.codeRound
      /\ base.state \notin TerminalStates
      /\ \/ st'.state = "FINISHED_PLAN"
         \/ Transition(base.state, sig, View(base), base.counters, st'.state)
  BY StepKeeps
<1>2. st.codeRound \in Nat
  BY WorkFacts
<1>3. st'.state = "HUMAN_GATE" => st.state \in {"HUMAN_GATE", "CONSENSUS_EVALUATE"}
  BY <1>1 DEF Transition, DirectEdges
<1>4. st'.state = "HUMAN_GATE" => st'.codeRound > 0
  BY <1>1, <1>2, <1>3 DEF GateRound
<1>5. st'.gate # NoGate => st'.codeRound > 0
  BY <1>1, <1>2 DEF GateRound, TerminalStates
<1>6. QED
  BY <1>4, <1>5 DEF GateRound

\* A commit that does not enter the final gate keeps it too.
LEMMA CommitGateRound ==
  ASSUME GateRound,
         st'.state # "HUMAN_GATE",
         st'.codeRound = st.codeRound,
         \/ st'.gate = NoGate
         \/ st'.state \in {"USER_DECISION_REQUIRED", "FAILED"}
         \/ st'.gate = st.gate /\ st.state \notin {"USER_DECISION_REQUIRED", "FAILED"}
  PROVE  GateRound'
BY DEF GateRound

LEMMA CommitKeeps ==
  ASSUME NEW b \in Committed, NEW s \in LoopState, NEW g \in Stages
  PROVE  /\ Commit(b, s, g) \in Committed
         /\ Commit(b, s, g).state = s
         /\ Commit(b, s, g).gate = b.gate
         /\ Commit(b, s, g).counters = b.counters
         /\ Commit(b, s, g).planRound = b.planRound
         /\ Commit(b, s, g).codeRound = b.codeRound
BY DEF Commit, Committed

LEMMA ClearBlockedKeeps ==
  ASSUME NEW b \in Committed
  PROVE  /\ ClearBlocked(b) \in Committed
         /\ ClearBlocked(b).state = b.state
         /\ ClearBlocked(b).gate = b.gate
         /\ ClearBlocked(b).counters = b.counters
         /\ ClearBlocked(b).planRound = b.planRound
         /\ ClearBlocked(b).codeRound = b.codeRound
BY DEF ClearBlocked, Committed

LEMMA ClearGateKeeps ==
  ASSUME NEW b \in Committed
  PROVE  /\ ClearGate(b) \in Committed
         /\ ClearGate(b).state = b.state
         /\ ClearGate(b).gate = NoGate
         /\ ClearGate(b).counters = b.counters
         /\ ClearGate(b).planRound = b.planRound
         /\ ClearGate(b).codeRound = b.codeRound
BY DEF ClearGate, Committed
-----------------------------------------------------------------------------
\* The steps of a process.

\* An iteration that uses up some of the work.
LEMMA IterationWork ==
  ASSUME TypeOK, WorkLeft, st' \in Committed,
         pc # "recording", pc' # "recording", mode' = mode,
         transitions' = transitions \/ transitions' = transitions + 1,
         st'.gate = st.gate, Work(st') + 1 <= Work(st)
  PROVE  WorkLeft'
<1>1. GateWork' = GateWork
  BY DEF GateWork
<1>2. Work(st) \in Nat /\ Work(st') \in Nat /\ GateWork \in Nat /\ transitions \in Nat
      /\ ProcessBound \in Nat
  <2>1. Work(st) \in Nat /\ Work(st') \in Nat
    BY WorkFacts DEF TypeOK, Work
  <2>2. Cycle * (CodeLimit + 1) \in Nat
    BY CycleFacts, LimitsPositive
  <2>3. QED
    BY <2>1, <2>2, CycleFacts, LimitsPositive, RunLoopConstants DEF TypeOK, GateWork, ProcessBound
<1>3. QED
  BY <1>1, <1>2 DEF WorkLeft

\* A step inside an iteration leaves the work alone.
LEMMA SameWorkLeft ==
  ASSUME TypeOK, WorkLeft, st' \in Committed,
         pc # "recording", pc' # "recording", mode' = mode,
         transitions' = transitions, st'.gate = st.gate,
         st'.state = st.state, st'.counters = st.counters,
         st'.planRound = st.planRound, st'.codeRound = st.codeRound
  PROVE  WorkLeft'
<1>1. GateWork' = GateWork
  BY DEF GateWork
<1>2. Work(st') = Work(st)
  BY SameWork DEF TypeOK
<1>3. QED
  BY <1>1, <1>2 DEF WorkLeft

\* An iteration that ends in a machine step outside the evaluations and the
\* final gate.
LEMMA OrdinaryIteration ==
  ASSUME IInv, LimitsInv,
         NEW STATE base, NEW STATE sig, NEW STATE esc,
         base \in Committed, esc \in SUBSET Codes,
         base.state = st.state, base.counters = st.counters, base.gate = st.gate,
         base.planRound = st.planRound, base.codeRound = st.codeRound,
         st.state \notin EvaluateStates \cup {"HUMAN_GATE"},
         sig = "OPERATIONAL_RETRY" => st.counters.opRetry < RetryLimit - 1,
         \/ CommitStepTransition(base, sig, FALSE, esc)
         \/ CommitStepTransition(base, sig, TRUE, esc),
         pc # "recording", pc' # "recording", mode' = mode,
         transitions' = transitions \/ transitions' = transitions + 1
  PROVE  GateRound' /\ WorkLeft'
<1> PICK user \in BOOLEAN : CommitStepTransition(base, sig, user, esc)
  OBVIOUS
<1>1. st \in Committed /\ TypeOK
  BY DEF IInv, TypeOK
<1>2. st' \in Committed /\ st'.gate = st.gate
  BY StepKeeps
<1>3. Work(st') + 1 <= Work(base)
  BY StepWork
<1>4. Work(base) = Work(st)
  BY <1>1, SameWork
<1>5. GateRound'
  BY <1>1, StepGateRound DEF LimitsInv, EvaluateStates
<1>6. WorkLeft'
  BY <1>1, <1>2, <1>3, <1>4, IterationWork DEF LimitsInv
<1>7. QED
  BY <1>5, <1>6

\* A run sent on by the user spends its gate.
LEMMA UnblockWork ==
  ASSUME IInv, LimitsInv,
         st' \in Committed, st.state = "USER_DECISION_REQUIRED", st.gate # NoGate,
         st'.state \notin {"INIT", "HUMAN_GATE"}, st'.gate = NoGate,
         st'.counters = st.counters,
         st'.planRound = st.planRound, st'.codeRound = st.codeRound,
         pc = "loop", pc' = "loop", mode' = mode, transitions' = transitions + 1
  PROVE  GateRound' /\ WorkLeft'
<1>1. st \in Committed /\ transitions \in Nat
  BY RunLoopConstants DEF IInv, TypeOK
<1>2. GateWork = Cycle /\ GateWork' = 0
  BY DEF GateWork
<1>3. /\ PlanWork(st') = PlanWork(st) /\ CodeWork(st') = CodeWork(st)
      /\ RetryWork(st') = RetryWork(st)
  BY DEF PlanWork, CodeWork, RetryWork
<1>4. /\ PlanWork(st) \in Nat /\ CodeWork(st) \in Nat /\ RetryWork(st) \in Nat
      /\ Distance(st) = 0 /\ Distance(st') \in Nat /\ Distance(st') <= Cycle - 1
  BY <1>1, WorkFacts DEF TerminalStates
<1>5. Work(st') + GateWork' + 1 <= Work(st) + GateWork
  BY <1>2, <1>3, <1>4, CycleFacts DEF Work
<1>6. Work(st) \in Nat /\ Work(st') \in Nat /\ GateWork \in Nat /\ GateWork' \in Nat
  BY <1>2, <1>3, <1>4, CycleFacts DEF Work
<1>7. Cycle * (CodeLimit + 1) \in Nat
  BY CycleFacts, LimitsPositive
<1>8. WorkLeft'
  BY <1>1, <1>5, <1>6, <1>7, LimitsPositive DEF LimitsInv, WorkLeft, ProcessBound
<1>9. GateRound'
  BY CommitGateRound DEF LimitsInv
<1>10. QED
  BY <1>8, <1>9
-----------------------------------------------------------------------------
\* The steps of initialization, of a worker step and of its routing.

LEMMA WorkerStatesApart ==
  /\ WorkerStates \subseteq LoopState
  /\ WorkerStates \cap (EvaluateStates \cup TerminalStates \cup {"INIT", "HUMAN_GATE"}) = {}
BY DEF WorkerStates, PlannerStates, ImplementerStates, ReviewerStates, EvaluateStates,
   TerminalStates, LoopState

\* A worker step is routed from a worker state.
LEMMA RoutingPlace ==
  ASSUME IInv, Routing
  PROVE  st.state \in WorkerStates /\ pc \in {"loop", "verified"}
BY DEF Routing, AtHead, IInv, ProcessPlace

LEMMA EscalationsType ==
  ASSUME IInv
  PROVE  Escalations \in SUBSET Codes /\ {} \in SUBSET Codes /\ hand \in SUBSET Codes
<1>1. st.pending \in SUBSET Codes /\ carried \in SUBSET Codes /\ hand \in SUBSET Codes
  BY DEF IInv, TypeOK, Committed
<1>2. QED
  BY <1>1 DEF Escalations

LEMMA WorkerIteration ==
  ASSUME IInv, LimitsInv,
         NEW STATE sig, NEW STATE esc,
         esc \in SUBSET Codes,
         st.state \in WorkerStates \cup {"INIT"},
         sig = "OPERATIONAL_RETRY" => st.counters.opRetry < RetryLimit - 1,
         \/ CommitStepTransition(st, sig, FALSE, esc)
         \/ CommitStepTransition(st, sig, TRUE, esc),
         pc # "recording", pc' = "loop", mode' = mode,
         transitions' = transitions \/ transitions' = transitions + 1
  PROVE  GateRound' /\ WorkLeft'
<1>1. st.state \notin EvaluateStates \cup {"HUMAN_GATE"}
  BY WorkerStatesApart DEF EvaluateStates
<1>2. st \in Committed
  BY DEF IInv, TypeOK
<1>3. QED
  BY <1>1, <1>2, OrdinaryIteration

\* A commit of a Master, or of a process that stays in its iteration.
LEMMA InitialLimits ==
  ASSUME IInv, LimitsInv, RecordPool \/ InitialRoute
  PROVE  GateRound' /\ WorkLeft'
<1>1. st \in Committed /\ TypeOK /\ GateRound /\ WorkLeft
  BY DEF IInv, TypeOK, LimitsInv
<1>2. st.state = "INIT" /\ pc # "recording"
  BY DEF RecordPool, InitialRoute, AtHead, IInv, ProcessPlace
<1>3. CASE RecordPool
  <2> DEFINE c == Commit(st, "INIT", "STEP_PENDING")
  <2>1. /\ c \in Committed /\ c.state = "INIT" /\ c.gate = st.gate
        /\ c.counters = st.counters
        /\ c.planRound = st.planRound /\ c.codeRound = st.codeRound
    BY <1>1, CommitKeeps DEF LoopState, Stages
  <2>2. st' = [c EXCEPT !.pool = TRUE]
    BY <1>3 DEF RecordPool
  <2> HIDE DEF c
  <2>3. /\ st' \in Committed /\ st'.state = "INIT" /\ st'.gate = st.gate
        /\ st'.counters = st.counters
        /\ st'.planRound = st.planRound /\ st'.codeRound = st.codeRound
    BY <2>1, <2>2 DEF Committed
  <2>4. mode' = mode /\ transitions' = transitions /\ pc' = "init"
    BY <1>3 DEF RecordPool
  <2>5. QED
    BY <1>1, <1>2, <2>3, <2>4, SameWorkLeft, CommitGateRound
<1>4. CASE InitialRoute /\ mode.master
  <2>1. PICK t \in {"PLAN", "IMPLEMENT"} : st' = Commit(st, t, "STEP_PENDING")
    BY <1>4 DEF InitialRoute
  <2>2. t \in LoopState /\ "STEP_PENDING" \in Stages
    BY DEF LoopState, WorkerStates, PlannerStates, ImplementerStates, Stages
  <2>3. /\ st'.state = t /\ st'.gate = st.gate /\ st'.codeRound = st.codeRound
    BY <1>1, <2>1, <2>2, CommitKeeps
  <2>4. QED
    BY <1>1, <1>2, <1>4, <2>3, CommitGateRound DEF InitialRoute, WorkLeft
<1>5. CASE InitialRoute /\ ~mode.master
  <2>1. /\ CommitStepTransition(st, "OK", FALSE, {})
        /\ pc' = "loop" /\ mode' = mode
        /\ transitions' = transitions \/ transitions' = transitions + 1
    BY <1>5 DEF InitialRoute
  <2>2. QED
    BY <1>2, <2>1, WorkerIteration, EscalationsType
<1>6. QED
  BY <1>3, <1>4, <1>5

LEMMA WorkerLimits ==
  ASSUME IInv, IInv', LimitsInv, DispatchStep \/ StepFails \/ Promote \/ ContractViolation \/ Verify
  PROVE  GateRound' /\ WorkLeft'
<1>1. st \in Committed /\ st' \in Committed /\ TypeOK /\ GateRound /\ WorkLeft
  BY DEF IInv, TypeOK, LimitsInv
<1>2. st.state \in WorkerStates /\ pc # "recording"
  BY DEF DispatchStep, StepFails, Promote, ContractViolation, Verify, AtHead, IInv, ProcessPlace
<1>3. st.state \in LoopState /\ st.state \notin {"USER_DECISION_REQUIRED", "FAILED", "HUMAN_GATE"}
  BY <1>2, WorkerStatesApart DEF TerminalStates
<1>4. CASE DispatchStep \/ Promote \/ Verify
  <2>1. /\ st'.state = st.state /\ st'.gate = st.gate
        /\ st'.counters = st.counters
        /\ st'.planRound = st.planRound /\ st'.codeRound = st.codeRound
    <3> DEFINE c(g) == Commit(st, st.state, g)
    <3>1. \A g \in Stages :
            /\ c(g) \in Committed /\ c(g).state = st.state /\ c(g).gate = st.gate
            /\ c(g).counters = st.counters
            /\ c(g).planRound = st.planRound /\ c(g).codeRound = st.codeRound
      BY <1>1, <1>3, CommitKeeps
    <3>2. CASE DispatchStep
      BY <3>1, <3>2 DEF DispatchStep, Stages
    <3>3. CASE Promote
      BY <3>3 DEF Promote
    <3>4. CASE Verify
      <4>1. PICK o, p : st' = [c("ARTIFACT_VERIFIED") EXCEPT !.open = o, !.pending = p]
        BY <3>4 DEF Verify
      <4> HIDE DEF c
      <4>2. c("ARTIFACT_VERIFIED") \in Committed
        BY <3>1 DEF Stages
      <4>3. /\ st'.state = c("ARTIFACT_VERIFIED").state
            /\ st'.gate = c("ARTIFACT_VERIFIED").gate
            /\ st'.counters = c("ARTIFACT_VERIFIED").counters
            /\ st'.planRound = c("ARTIFACT_VERIFIED").planRound
            /\ st'.codeRound = c("ARTIFACT_VERIFIED").codeRound
        BY <4>1, <4>2 DEF Committed
      <4>4. QED
        BY <3>1, <4>3 DEF Stages
    <3>5. QED
      BY <1>4, <3>2, <3>3, <3>4
  <2>2. mode' = mode /\ transitions' = transitions /\ pc' # "recording"
    BY <1>4 DEF DispatchStep, Promote, Verify
  <2>3. QED
    BY <1>1, <1>2, <1>3, <2>1, <2>2, SameWorkLeft, CommitGateRound
<1>5. CASE StepFails
  <2>1. PICK sig \in {"ABORT", "ESCALATE"} : CommitStepTransition(st, sig, FALSE, {})
    BY <1>5 DEF StepFails
  <2>2. pc' = "loop" /\ mode' = mode /\ transitions' = transitions + 1
    BY <1>5 DEF StepFails, Iterate
  <2>3. QED
    BY <1>2, <2>1, <2>2, WorkerIteration, EscalationsType
<1>6. CASE ContractViolation
  <2>1. PICK sig \in {"OPERATIONAL_RETRY", "ESCALATE", "ABORT"} :
          /\ sig = "OPERATIONAL_RETRY" => st.counters.opRetry < RetryLimit - 1
          /\ CommitStepTransition(st, sig, FALSE, {})
    BY <1>6 DEF ContractViolation
  <2>2. pc' = "loop" /\ mode' = mode /\ transitions' = transitions + 1
    BY <1>6 DEF ContractViolation, Iterate
  <2>3. QED
    BY <1>2, <2>1, <2>2, WorkerIteration, EscalationsType
<1>7. QED
  BY <1>4, <1>5, <1>6
LEMMA RouteLimits ==
  ASSUME IInv, IInv', LimitsInv,
         \/ RouteByMachine \/ MasterRoutesCompletion \/ MasterSkipsPlanReview
         \/ MasterFinishesReview \/ MasterLeavesSupervision \/ MasterResolvesSupervision
         \/ SettleSupervision
  PROVE  GateRound' /\ WorkLeft'
<1>1. st \in Committed /\ st' \in Committed /\ TypeOK /\ GateRound /\ WorkLeft
  BY DEF IInv, TypeOK, LimitsInv
<1>2. st.state \in WorkerStates /\ pc # "recording" /\ mode' = mode
  <2>1. CASE SettleSupervision
    BY <2>1 DEF SettleSupervision, IInv, ProcessPlace, WorkerStates, PlannerStates,
       ImplementerStates
  <2>2. CASE ~SettleSupervision
    <3>1. Routing /\ mode' = mode
      BY <2>2 DEF RouteByMachine, MasterRoutesCompletion, MasterSkipsPlanReview,
         MasterFinishesReview, MasterLeavesSupervision, MasterResolvesSupervision
    <3>2. QED
      BY <3>1, RoutingPlace
  <2>3. QED
    BY <2>1, <2>2
<1>3. st.state \notin {"USER_DECISION_REQUIRED", "FAILED", "HUMAN_GATE"}
  BY <1>2, WorkerStatesApart DEF TerminalStates
<1>4. CASE RouteByMachine \/ MasterRoutesCompletion \/ MasterLeavesSupervision \/ SettleSupervision
  <2>1. PICK sig \in {"ARTIFACT_OK", "ESCALATE"}, esc \in {{}, Escalations, hand} :
          \/ CommitStepTransition(st, sig, FALSE, esc)
          \/ CommitStepTransition(st, sig, TRUE, esc)
    BY <1>4 DEF RouteByMachine, MasterRoutesCompletion, MasterLeavesSupervision,
       SettleSupervision
  <2>2. pc' = "loop" /\ transitions' = transitions + 1
    BY <1>4 DEF RouteByMachine, MasterRoutesCompletion, MasterLeavesSupervision,
       SettleSupervision, Iterate
  <2>3. esc \in SUBSET Codes
    BY EscalationsType
  <2>4. QED
    BY <1>2, <2>1, <2>2, <2>3, WorkerIteration
<1>5. CASE MasterSkipsPlanReview \/ MasterFinishesReview \/ MasterResolvesSupervision
  <2>1. mode.master /\ mode' = mode
    BY <1>2, <1>5 DEF MasterSkipsPlanReview, MasterFinishesReview, MasterResolvesSupervision
  <2>2. st'.gate = st.gate /\ st'.codeRound = st.codeRound /\ st'.state # "HUMAN_GATE"
    <3>1. CASE MasterSkipsPlanReview
      <4>1. st' = Commit(st, "IMPLEMENT", "TRANSITION_COMMITTED")
        BY <3>1 DEF MasterSkipsPlanReview
      <4>2. "IMPLEMENT" \in LoopState /\ "TRANSITION_COMMITTED" \in Stages
        BY DEF LoopState, WorkerStates, ImplementerStates, Stages
      <4>3. QED
        BY <1>1, <4>1, <4>2, CommitKeeps
    <3>2. CASE MasterFinishesReview
      <4> DEFINE c == Commit(st, "READY_FOR_MERGE", "TRANSITION_COMMITTED")
      <4>1. c \in Committed /\ c.state = "READY_FOR_MERGE" /\ c.gate = st.gate
            /\ c.codeRound = st.codeRound
        BY <1>1, CommitKeeps DEF LoopState, TerminalStates, Stages
      <4>2. st' = ClearBlocked(c)
        BY <3>2 DEF MasterFinishesReview
      <4> HIDE DEF c
      <4>3. QED
        BY <4>1, <4>2, ClearBlockedKeeps
    <3>3. CASE MasterResolvesSupervision
      <4>1. PICK t \in SupervisionTargets(st.state, Escalations) :
              st' = [Commit(st, t, "TRANSITION_COMMITTED") EXCEPT !.pending = {}]
        BY <3>3 DEF MasterResolvesSupervision
      <4>2. t \in LoopState /\ t # "HUMAN_GATE"
        BY SupervisionTargetStates
      <4> DEFINE c == Commit(st, t, "TRANSITION_COMMITTED")
      <4>3. c \in Committed /\ c.state = t /\ c.gate = st.gate
            /\ c.codeRound = st.codeRound
        BY <1>1, <4>2, CommitKeeps DEF Stages
      <4>4. st' = [c EXCEPT !.pending = {}]
        BY <4>1
      <4> HIDE DEF c
      <4>5. QED
        BY <4>2, <4>3, <4>4 DEF Committed
    <3>4. QED
      BY <1>5, <3>1, <3>2, <3>3
  <2>3. QED
    BY <1>1, <1>3, <2>1, <2>2, CommitGateRound DEF WorkLeft
<1>6. QED
  BY <1>4, <1>5

\* The tests and the evaluations.
LEMMA CoordinatorLimits ==
  ASSUME IInv, IInv', LimitsInv, TestGate \/ EvaluatePlan \/ EvaluateCode
  PROVE  GateRound' /\ WorkLeft'
<1>1. st \in Committed /\ st' \in Committed /\ TypeOK /\ GateRound /\ WorkLeft
  BY DEF IInv, TypeOK, LimitsInv
<1>2. /\ pc = "loop" /\ pc' = "loop" /\ mode' = mode /\ transitions' = transitions + 1
  BY DEF TestGate, EvaluatePlan, EvaluateCode, AtHead, Iterate
<1>3. CASE TestGate
  <2>1. PICK status \in TestStatus :
          \/ CommitStepTransition([st EXCEPT !.test = status], status, FALSE, {})
          \/ CommitStepTransition([st EXCEPT !.test = status], "ESCALATE", TRUE, {})
          \/ /\ mode.master
             /\ st' = ClearBlocked([Commit([st EXCEPT !.test = status],
                                            "READY_FOR_MERGE", "TRANSITION_COMMITTED")
                                      EXCEPT !.counters.testFix = 0])
    BY <1>3 DEF TestGate
  <2>2. st.state = "TEST_GATE"
    BY <1>3 DEF TestGate, AtHead
  <2> DEFINE base == [st EXCEPT !.test = status]
  <2>3. /\ base \in Committed
        /\ base.state = st.state /\ base.gate = st.gate /\ base.counters = st.counters
        /\ base.planRound = st.planRound /\ base.codeRound = st.codeRound
    BY <1>1 DEF Committed
  <2>4. \/ CommitStepTransition(base, status, FALSE, {})
        \/ CommitStepTransition(base, "ESCALATE", TRUE, {})
        \/ /\ mode.master
           /\ st' = ClearBlocked([Commit(base, "READY_FOR_MERGE", "TRANSITION_COMMITTED")
                                    EXCEPT !.counters.testFix = 0])
    BY <2>1
  <2> HIDE DEF base
  <2>5. ASSUME NEW sig \in TestStatus \cup {"ESCALATE"},
               \/ CommitStepTransition(base, sig, FALSE, {})
               \/ CommitStepTransition(base, sig, TRUE, {})
        PROVE  GateRound' /\ WorkLeft'
    <3>1. sig # "OPERATIONAL_RETRY" /\ st.state \notin EvaluateStates \cup {"HUMAN_GATE"}
      BY <2>2 DEF TestStatus, EvaluateStates
    <3>2. QED
      BY <1>2, <2>3, <2>5, <3>1, OrdinaryIteration, NoCodes
  <2>6. ASSUME mode.master,
               st' = ClearBlocked([Commit(base, "READY_FOR_MERGE", "TRANSITION_COMMITTED")
                                     EXCEPT !.counters.testFix = 0])
        PROVE  GateRound' /\ WorkLeft'
    <3> DEFINE c == Commit(base, "READY_FOR_MERGE", "TRANSITION_COMMITTED")
               d == [c EXCEPT !.counters.testFix = 0]
    <3>1. c \in Committed /\ c.state = "READY_FOR_MERGE" /\ c.gate = st.gate
          /\ c.codeRound = st.codeRound
      BY <2>3, CommitKeeps DEF LoopState, TerminalStates, Stages
    <3> HIDE DEF c
    <3>2. d \in Committed /\ d.state = "READY_FOR_MERGE" /\ d.gate = st.gate
          /\ d.codeRound = st.codeRound
      <4>1. [c.counters EXCEPT !.testFix = 0] \in Counters
        BY <3>1 DEF Committed, Counters
      <4>2. d = [c EXCEPT !.counters = [c.counters EXCEPT !.testFix = 0]]
        BY <3>1 DEF Committed
      <4> DEFINE k == [c.counters EXCEPT !.testFix = 0]
      <4> HIDE DEF k, d
      <4>3. d = [c EXCEPT !.counters = k] /\ k \in Counters
        BY <4>1, <4>2 DEF k
      <4>4. QED
        BY <3>1, <4>3 DEF Committed
    <3>3. st' = ClearBlocked(d)
      BY <2>6 DEF c
    <3> HIDE DEF d
    <3>4. st'.state = "READY_FOR_MERGE" /\ st'.gate = st.gate /\ st'.codeRound = st.codeRound
      BY <3>2, <3>3, ClearBlockedKeeps
    <3>5. QED
      BY <1>1, <1>2, <2>2, <2>6, <3>4, CommitGateRound DEF WorkLeft
  <2>7. QED
    BY <2>4, <2>5, <2>6
<1>4. CASE EvaluatePlan
  <2> DEFINE base == [st EXCEPT !.planRound = @ + 1]
  <2>1. st.state = "PLAN_CONSENSUS_EVALUATE" /\ st.planRound + 1 <= PlanLimit
    BY <1>4 DEF EvaluatePlan, AtHead
  <2>2. /\ base \in Committed
        /\ base.state = st.state /\ base.gate = st.gate /\ base.counters = st.counters
        /\ base.planRound = st.planRound + 1 /\ base.codeRound = st.codeRound
    BY <1>1 DEF Committed
  <2>3. PICK sig \in {"ESCALATE", "UNRESOLVED_REMAIN", "UNRESOLVED_ZERO"}, esc \in SUBSET Codes :
          CommitStepTransition(base, sig, FALSE, esc)
    <3> DEFINE approvable == ~st.open /\ ~mode.planning
               contract == IF approvable /\ "schema" \in plan.risk /\ ~plan.contract
                           THEN {"E03"} ELSE {}
               deletion == approvable /\ "destr" \in plan.risk /\ ~st.destructive
               Sig(esc) == IF esc \cup contract # {} \/ deletion THEN "ESCALATE"
                           ELSE IF st.open THEN "UNRESOLVED_REMAIN" ELSE "UNRESOLVED_ZERO"
    <3>1. PICK esc \in RoundEscalations :
            CommitStepTransition(base, Sig(esc), FALSE, esc \cup contract)
      BY <1>4, Zenon DEF EvaluatePlan
    <3>2. esc \cup contract \in SUBSET Codes
      BY DEF RoundEscalations, Codes
    <3>3. Sig(esc) \in {"ESCALATE", "UNRESOLVED_REMAIN", "UNRESOLVED_ZERO"}
      OBVIOUS
    <3> HIDE DEF base, contract, Sig
    <3>4. QED
      BY <3>1, <3>2, <3>3
  <2> HIDE DEF base
  <2>4. Work(st') + 1 <= Work(st)
    BY <1>1, <2>1, <2>2, <2>3, EvaluationWork
  <2>5. st'.gate = st.gate
    BY <2>2, <2>3, StepKeeps
  <2>6. GateRound'
    BY <1>1, <2>1, <2>2, <2>3, StepGateRound
  <2>7. QED
    BY <1>1, <1>2, <2>4, <2>5, <2>6, IterationWork
<1>5. CASE EvaluateCode
  <2> DEFINE base == [st EXCEPT !.codeRound = @ + 1]
  <2>1. st.state = "CONSENSUS_EVALUATE" /\ st.codeRound + 1 <= CodeLimit
    BY <1>5 DEF EvaluateCode, AtHead
  <2>2. /\ base \in Committed
        /\ base.state = st.state /\ base.gate = st.gate /\ base.counters = st.counters
        /\ base.planRound = st.planRound /\ base.codeRound = st.codeRound + 1
        /\ base.codeRound > 0
    BY <1>1 DEF Committed
  <2>3. \/ \E sig \in {"ESCALATE", "UNRESOLVED_REMAIN", "UNRESOLVED_ZERO"}, esc \in SUBSET Codes :
             \/ CommitStepTransition(base, sig, FALSE, esc)
             \/ CommitStepTransition(base, sig, TRUE, esc)
        \/ /\ mode.master
           /\ st' = ClearBlocked(Commit(base, "READY_FOR_MERGE", "TRANSITION_COMMITTED"))
    <3>1. \A esc \in RoundEscalations : esc \in SUBSET Codes
      BY DEF RoundEscalations, Codes
    <3> DEFINE Sig(esc) == IF esc # {} THEN "ESCALATE"
                           ELSE IF st.open THEN "UNRESOLVED_REMAIN" ELSE "UNRESOLVED_ZERO"
    <3>2. \A esc : Sig(esc) \in {"ESCALATE", "UNRESOLVED_REMAIN", "UNRESOLVED_ZERO"}
      OBVIOUS
    <3> HIDE DEF base, Sig
    <3>3. \/ \E esc \in RoundEscalations : CommitStepTransition(base, Sig(esc), FALSE, esc)
          \/ CommitStepTransition(base, "ESCALATE", TRUE, {})
          \/ /\ mode.master
             /\ st' = ClearBlocked(Commit(base, "READY_FOR_MERGE", "TRANSITION_COMMITTED"))
      BY <1>5, Zenon DEF EvaluateCode, base, Sig
    <3>4. QED
      BY <3>1, <3>2, <3>3, NoCodes
  <2> HIDE DEF base
  <2>4. ASSUME NEW sig \in {"ESCALATE", "UNRESOLVED_REMAIN", "UNRESOLVED_ZERO"},
               NEW esc \in SUBSET Codes,
               \/ CommitStepTransition(base, sig, FALSE, esc)
               \/ CommitStepTransition(base, sig, TRUE, esc)
        PROVE  GateRound' /\ WorkLeft'
    <3> PICK user \in BOOLEAN : CommitStepTransition(base, sig, user, esc)
      BY <2>4
    <3>1. Work(st') + 1 <= Work(st)
      BY <1>1, <2>1, <2>2, <2>4, EvaluationWork
    <3>2. st'.gate = st.gate
      BY <2>2, StepKeeps
    <3>3. GateRound'
      BY <1>1, <2>1, <2>2, StepGateRound
    <3>4. QED
      BY <1>1, <1>2, <3>1, <3>2, <3>3, IterationWork
  <2>5. ASSUME mode.master,
               st' = ClearBlocked(Commit(base, "READY_FOR_MERGE", "TRANSITION_COMMITTED"))
        PROVE  GateRound' /\ WorkLeft'
    <3> DEFINE c == Commit(base, "READY_FOR_MERGE", "TRANSITION_COMMITTED")
    <3>1. c \in Committed /\ c.state = "READY_FOR_MERGE" /\ c.gate = st.gate
          /\ c.codeRound = st.codeRound + 1
      BY <2>2, CommitKeeps DEF LoopState, TerminalStates, Stages
    <3>2. st' = ClearBlocked(c)
      BY <2>5
    <3> HIDE DEF c
    <3>3. st'.state = "READY_FOR_MERGE" /\ st'.codeRound > 0
      BY <2>2, <3>1, <3>2, ClearBlockedKeeps
    <3>4. QED
      BY <1>2, <2>5, <3>3 DEF WorkLeft, GateRound
  <2>6. QED
    BY <2>3, <2>4, <2>5
<1>6. QED
  BY <1>3, <1>4, <1>5
\* The blocks a Master looks at, and the gates.
LEMMA BlockLimits ==
  ASSUME IInv, IInv', LimitsInv,
         \/ MasterRecovers \/ MasterAborts \/ MasterAsksUser \/ EnsureGate \/ WaitForAnswer
  PROVE  GateRound' /\ WorkLeft'
<1>1. st \in Committed /\ st' \in Committed /\ TypeOK /\ GateRound /\ WorkLeft
  BY DEF IInv, TypeOK, LimitsInv
<1>2. st.state \in LoopState
  BY <1>1 DEF Committed
<1>3. CASE MasterRecovers
  <2>1. PICK t \in RecoveryTargets(st.blocked) :
          st' = ClearGate(ClearBlocked(Commit(st, t, "STEP_PENDING")))
    BY <1>3 DEF MasterRecovers
  <2>2. t \in LoopState /\ t # "HUMAN_GATE"
    BY RecoveryTargetStates
  <2> DEFINE c == Commit(st, t, "STEP_PENDING")
             b == ClearBlocked(c)
  <2>3. c \in Committed /\ c.state = t /\ c.codeRound = st.codeRound
    BY <1>1, <2>2, CommitKeeps DEF Stages
  <2> HIDE DEF c
  <2>4. b \in Committed /\ b.state = t /\ b.codeRound = st.codeRound
    BY <2>3, ClearBlockedKeeps
  <2>5. st' = ClearGate(b)
    BY <2>1 DEF b, c
  <2> HIDE DEF b
  <2>6. st'.state = t /\ st'.codeRound = st.codeRound /\ st'.gate = NoGate
    BY <2>4, <2>5, ClearGateKeeps
  <2>7. mode.master /\ mode' = mode
    BY <1>3 DEF MasterRecovers, MasterMayRecover
  <2>8. QED
    BY <1>1, <2>2, <2>6, <2>7, CommitGateRound DEF WorkLeft
<1>4. CASE MasterAborts
  <2> DEFINE c == Commit(st, "FAILED", "TRANSITION_COMMITTED")
  <2>1. c \in Committed /\ c.state = "FAILED" /\ c.codeRound = st.codeRound
    BY <1>1, CommitKeeps DEF LoopState, TerminalStates, Stages
  <2>2. st' = ClearBlocked(c)
    BY <1>4 DEF MasterAborts
  <2> HIDE DEF c
  <2>3. st'.state = "FAILED" /\ st'.codeRound = st.codeRound
    BY <2>1, <2>2, ClearBlockedKeeps
  <2>4. mode.master /\ mode' = mode
    BY <1>4 DEF MasterAborts, MasterMayRecover
  <2>5. QED
    BY <1>1, <2>3, <2>4, CommitGateRound DEF WorkLeft
<1>5. CASE MasterAsksUser
  <2> DEFINE c == Commit(st, "USER_DECISION_REQUIRED", "TRANSITION_COMMITTED")
  <2>1. c \in Committed /\ c.state = "USER_DECISION_REQUIRED" /\ c.codeRound = st.codeRound
    BY <1>1, CommitKeeps DEF LoopState, TerminalStates, Stages
  <2>2. st' = [c EXCEPT !.last = "authority"]
    BY <1>5 DEF MasterAsksUser
  <2> HIDE DEF c
  <2>3. st'.state = "USER_DECISION_REQUIRED" /\ st'.codeRound = st.codeRound
    BY <2>1, <2>2 DEF Committed
  <2>4. mode.master /\ mode' = mode
    BY <1>5 DEF MasterAsksUser, MasterMayRecover
  <2>5. QED
    BY <1>1, <2>3, <2>4, CommitGateRound DEF WorkLeft
<1>6. CASE EnsureGate
  <2> DEFINE c == Commit(st, st.state, "TRANSITION_COMMITTED")
             g == [kind |-> GateKind, options |-> GateOptions]
  <2>1. c \in Committed /\ c.state = st.state /\ c.codeRound = st.codeRound
    BY <1>1, <1>2, CommitKeeps DEF Stages
  <2>2. st' = [c EXCEPT !.gate = g]
    BY <1>6 DEF EnsureGate
  <2> HIDE DEF c, g
  <2>3. st'.state = st.state /\ st'.codeRound = st.codeRound
    BY <2>1, <2>2 DEF Committed
  <2>4. st.state \in {"HUMAN_GATE", "USER_DECISION_REQUIRED"}
    BY <1>6 DEF EnsureGate, AtHead, IInv, ProcessPlace
  <2>5. GateRound'
    BY <1>1, <2>3, <2>4 DEF GateRound
  <2>6. transitions' = 0 /\ pc' = "down"
    BY <1>6 DEF EnsureGate, Exit
  <2>7. QED
    BY <1>1, <2>5, <2>6, FreshWork
<1>7. CASE WaitForAnswer
  <2>1. UNCHANGED st /\ transitions' = 0 /\ pc' = "down"
    BY <1>7 DEF WaitForAnswer, Exit
  <2>2. GateRound'
    BY <1>1, <2>1 DEF GateRound
  <2>3. QED
    BY <1>1, <2>1, <2>2, FreshWork
<1>8. QED
  BY <1>3, <1>4, <1>5, <1>6, <1>7

\* The answers of the user.
LEMMA UserLimits ==
  ASSUME IInv, IInv', LimitsInv,
         \/ ResumeFinalGate \/ RecordFinalDecision
         \/ UserSendsBack \/ UserApprovesDeletion \/ UserApprovesEscalations \/ Answer
  PROVE  GateRound' /\ WorkLeft'
<1>1. st \in Committed /\ st' \in Committed /\ TypeOK /\ GateRound /\ WorkLeft
  BY DEF IInv, TypeOK, LimitsInv
<1>2. st.state \in LoopState /\ transitions \in Nat /\ ProcessBound \in Nat
  <2>1. Cycle * (CodeLimit + 1) \in Nat
    BY CycleFacts, LimitsPositive
  <2>2. QED
    BY <1>1, <2>1, LimitsPositive, RunLoopConstants DEF Committed, TypeOK, ProcessBound
<1>3. CASE ResumeFinalGate
  <2>1. /\ pc = "loop" /\ pc' = "recording" /\ mode' = mode /\ transitions' = transitions
        /\ st.state = "HUMAN_GATE" /\ st.gate # NoGate /\ answer \in Decisions
        /\ CommitStepTransition(st, answer, FALSE, {})
    BY <1>1, <1>3 DEF ResumeFinalGate, Answered, AtHead, TypeOK
  <2> PICK user \in BOOLEAN : CommitStepTransition(st, answer, user, {})
    BY <2>1
  <2>2. /\ st'.gate = st.gate
        /\ st'.planRound = st.planRound /\ st'.codeRound = st.codeRound
        /\ st'.counters = CountersAfter(st.state, answer, st.counters)
        /\ Transition(st.state, answer, View(st), st.counters, st'.state)
    BY <1>1, <2>1, NoCodes, StepKeeps
  <2>3. answer # "OPERATIONAL_RETRY"
    BY <2>1 DEF Decisions
  <2>4. st'.counters = st.counters /\ st'.state # "INIT"
    BY <2>1, <2>2, <2>3 DEF CountersAfter, Transition, DirectEdges
  <2>5. GateRound'
    BY <1>1, <2>1, NoCodes, StepGateRound
  <2>6. /\ PlanWork(st') = PlanWork(st) /\ CodeWork(st') = CodeWork(st)
        /\ RetryWork(st') = RetryWork(st)
    BY <2>2, <2>4 DEF PlanWork, CodeWork, RetryWork
  <2>7. /\ PlanWork(st) \in Nat /\ CodeWork(st) \in Nat /\ RetryWork(st) \in Nat
        /\ Distance(st) = 0 /\ Distance(st') \in Nat /\ Distance(st') <= Cycle - 1
    BY <1>1, <2>1, <2>4, WorkFacts
  <2>8. GateWork = Cycle /\ GateWork' = 1
    BY <2>1 DEF GateWork
  <2>9. WorkLeft'
    BY <1>1, <1>2, <2>1, <2>6, <2>7, <2>8, CycleFacts DEF WorkLeft, Work
  <2>10. QED
    BY <2>5, <2>9
<1>4. CASE RecordFinalDecision
  <2> DEFINE c == Commit(st, st.state, "TRANSITION_COMMITTED")
             b == ClearBlocked(c)
  <2>1. /\ c \in Committed /\ c.state = st.state /\ c.counters = st.counters
        /\ c.planRound = st.planRound /\ c.codeRound = st.codeRound
    BY <1>1, <1>2, CommitKeeps DEF Stages
  <2> HIDE DEF c
  <2>2. /\ b \in Committed /\ b.state = st.state /\ b.counters = st.counters
        /\ b.planRound = st.planRound /\ b.codeRound = st.codeRound
    BY <2>1, ClearBlockedKeeps
  <2>3. st' = ClearGate(b)
    BY <1>4 DEF RecordFinalDecision, b, c
  <2> HIDE DEF b
  <2>4. /\ st'.state = st.state /\ st'.counters = st.counters /\ st'.gate = NoGate
        /\ st'.planRound = st.planRound /\ st'.codeRound = st.codeRound
    BY <2>2, <2>3, ClearGateKeeps
  <2>5. /\ pc = "recording" /\ pc' = "loop" /\ mode' = mode
        /\ transitions' = transitions + 1
    BY <1>4 DEF RecordFinalDecision, Iterate
  <2>6. st.state # "HUMAN_GATE"
    BY <2>5 DEF IInv, ProcessPlace
  <2>7. GateRound'
    BY <1>1, <2>4, <2>6, CommitGateRound
  <2>8. Work(st') = Work(st) /\ Work(st) \in Nat
    BY <1>1, <2>4, SameWork, WorkFacts DEF Work
  <2>9. GateWork = 1 /\ GateWork' = 0
    BY <2>4, <2>5 DEF GateWork
  <2>10. WorkLeft'
    BY <1>1, <1>2, <2>5, <2>8, <2>9 DEF WorkLeft
  <2>11. QED
    BY <2>7, <2>10
<1>5. ASSUME NEW base \in Committed, NEW t \in LoopState \ {"INIT", "HUMAN_GATE"},
             Answered({"USER_DECISION_REQUIRED"}),
             base.counters = st.counters,
             base.planRound = st.planRound, base.codeRound = st.codeRound,
             Unblock(base, t)
      PROVE  GateRound' /\ WorkLeft'
  <2> DEFINE c == Commit(base, t, "TRANSITION_COMMITTED")
             b == ClearBlocked(c)
  <2>1. /\ c \in Committed /\ c.state = t /\ c.counters = st.counters
        /\ c.planRound = st.planRound /\ c.codeRound = st.codeRound
    BY <1>5, CommitKeeps DEF Stages
  <2> HIDE DEF c
  <2>2. /\ b \in Committed /\ b.state = t /\ b.counters = st.counters
        /\ b.planRound = st.planRound /\ b.codeRound = st.codeRound
    BY <2>1, ClearBlockedKeeps
  <2>3. st' = ClearGate(b)
    BY <1>5 DEF Unblock, b, c
  <2> HIDE DEF b
  <2>4. /\ st'.state = t /\ st'.counters = st.counters /\ st'.gate = NoGate
        /\ st'.planRound = st.planRound /\ st'.codeRound = st.codeRound
    BY <2>2, <2>3, ClearGateKeeps
  <2>5. /\ st.state = "USER_DECISION_REQUIRED" /\ st.gate # NoGate
        /\ pc = "loop" /\ pc' = "loop" /\ mode' = mode /\ transitions' = transitions + 1
    BY <1>5 DEF Answered, AtHead, Unblock, Iterate
  <2>6. QED
    BY <1>1, <2>4, <2>5, UnblockWork
<1>6. CASE UserSendsBack
  <2>1. PICK t \in {"REJECTED", "PLAN_REVISE", "FIX"} : Unblock(st, t)
    BY <1>6 DEF UserSendsBack
  <2>2. t \in LoopState \ {"INIT", "HUMAN_GATE"}
    BY DEF LoopState, TerminalStates, WorkerStates, PlannerStates, ImplementerStates
  <2>3. QED
    BY <1>1, <1>5, <1>6, <2>1, <2>2 DEF UserSendsBack
<1>7. ASSUME NEW t, <<st.blocked, t>> \in ApprovedTarget
      PROVE  t \in LoopState \ {"INIT", "HUMAN_GATE"}
  BY <1>7 DEF ApprovedTarget, LoopState, WorkerStates, PlannerStates, ImplementerStates,
     ReviewerStates, EvaluateStates
<1>8. CASE UserApprovesDeletion
  <2> DEFINE base == [st EXCEPT !.destructive = @ \/ "destr" \in plan.risk]
  <2>1. PICK t \in LoopState : <<st.blocked, t>> \in ApprovedTarget /\ Unblock(base, t)
    BY <1>8 DEF UserApprovesDeletion
  <2>2. /\ base \in Committed /\ base.counters = st.counters
        /\ base.planRound = st.planRound /\ base.codeRound = st.codeRound
    <3> DEFINE d == st.destructive \/ "destr" \in plan.risk
    <3>1. d \in BOOLEAN
      OBVIOUS
    <3>2. base = [st EXCEPT !.destructive = d]
      BY Zenon
    <3> HIDE DEF d, base
    <3>3. QED
      BY <1>1, <3>1, <3>2 DEF Committed
  <2> HIDE DEF base
  <2>3. QED
    BY <1>5, <1>7, <1>8, <2>1, <2>2 DEF UserApprovesDeletion
<1>9. CASE UserApprovesEscalations
  <2> DEFINE base == [st EXCEPT !.keys = @ \cup st.pending]
  <2>1. /\ base \in Committed /\ base.counters = st.counters
        /\ base.planRound = st.planRound /\ base.codeRound = st.codeRound
    BY <1>1 DEF Committed
  <2>2. \/ /\ st' = ClearGate([Commit(base, "USER_DECISION_REQUIRED", "TRANSITION_COMMITTED")
                                EXCEPT !.pending = {}])
           /\ Iterate /\ UNCHANGED mode
        \/ \E t \in LoopState : <<st.blocked, t>> \in ApprovedTarget /\ Unblock(base, t)
    BY <1>9, Zenon DEF UserApprovesEscalations
  <2>3. Answered({"USER_DECISION_REQUIRED"})
    BY <1>9 DEF UserApprovesEscalations
  <2> HIDE DEF base
  <2>4. ASSUME st' = ClearGate([Commit(base, "USER_DECISION_REQUIRED", "TRANSITION_COMMITTED")
                                  EXCEPT !.pending = {}]),
               Iterate, UNCHANGED mode
        PROVE  GateRound' /\ WorkLeft'
    <3> DEFINE c == Commit(base, "USER_DECISION_REQUIRED", "TRANSITION_COMMITTED")
               d == [c EXCEPT !.pending = {}]
    <3>1. /\ c \in Committed /\ c.state = "USER_DECISION_REQUIRED" /\ c.counters = st.counters
          /\ c.planRound = st.planRound /\ c.codeRound = st.codeRound
      BY <2>1, CommitKeeps DEF Stages, LoopState, TerminalStates
    <3> HIDE DEF c
    <3>2. /\ d \in Committed /\ d.state = "USER_DECISION_REQUIRED" /\ d.counters = st.counters
          /\ d.planRound = st.planRound /\ d.codeRound = st.codeRound
      BY <3>1 DEF Committed
    <3>3. st' = ClearGate(d)
      BY <2>4 DEF c
    <3> HIDE DEF d
    <3>4. /\ st'.state = "USER_DECISION_REQUIRED" /\ st'.counters = st.counters
          /\ st'.gate = NoGate
          /\ st'.planRound = st.planRound /\ st'.codeRound = st.codeRound
      BY <3>2, <3>3, ClearGateKeeps
    <3>5. /\ st.state = "USER_DECISION_REQUIRED" /\ st.gate # NoGate
          /\ pc = "loop" /\ pc' = "loop" /\ mode' = mode /\ transitions' = transitions + 1
      BY <2>3, <2>4 DEF Answered, AtHead, Iterate
    <3>6. QED
      BY <1>1, <3>4, <3>5, UnblockWork
  <2>5. QED
    BY <1>5, <1>7, <2>1, <2>2, <2>3, <2>4
<1>10. CASE Answer
  <2>1. UNCHANGED <<st, pc, mode, transitions>>
    BY <1>10 DEF Answer
  <2>2. QED
    BY <1>1, <2>1 DEF GateRound, WorkLeft, GateWork
<1>11. QED
  BY <1>3, <1>4, <1>6, <1>8, <1>9, <1>10
\* The end and the start of a process.
LEMMA ProcessLimits ==
  ASSUME IInv, IInv', LimitsInv,
         ReturnEndState \/ BudgetSpent \/ Refuse \/ Stop \/ Resume \/ UNCHANGED vars
  PROVE  GateRound' /\ WorkLeft'
<1>1. st \in Committed /\ st' \in Committed /\ GateRound /\ WorkLeft /\ Fresh
  BY DEF IInv, TypeOK, LimitsInv
<1>2. CASE ReturnEndState \/ Refuse \/ Stop \/ Resume
  <2>1. UNCHANGED st /\ transitions' = 0 /\ pc' # "recording"
    BY <1>1, <1>2 DEF ReturnEndState, Refuse, Stop, Resume, Exit, Fresh
  <2>2. GateRound'
    BY <1>1, <2>1 DEF GateRound
  <2>3. QED
    BY <1>1, <2>1, <2>2, FreshWork
<1>3. CASE BudgetSpent
  <2>1. st' = Commit(st, "FAILED", "TRANSITION_COMMITTED") /\ transitions' = 0 /\ pc' = "down"
    BY <1>3 DEF BudgetSpent, Exit
  <2>2. st'.state = "FAILED"
    <3>1. "FAILED" \in LoopState /\ "TRANSITION_COMMITTED" \in Stages
      BY DEF LoopState, TerminalStates, Stages
    <3>2. QED
      BY <1>1, <2>1, <3>1, CommitKeeps
  <2>3. GateRound'
    BY <2>2 DEF GateRound
  <2>4. QED
    BY <1>1, <2>1, <2>3, FreshWork
<1>4. CASE UNCHANGED vars
  BY <1>1, <1>4 DEF vars, GateRound, WorkLeft, GateWork
<1>5. QED
  BY <1>2, <1>3, <1>4

\* Every action is one of those of the lemmas above.
LEMMA FreshNext == IInv /\ Fresh /\ [Next]_vars => Fresh'
<1> SUFFICES ASSUME IInv, Fresh, [Next]_vars PROVE Fresh'
  OBVIOUS
<1>1. CASE RecordPool
  BY <1>1 DEF RecordPool, Fresh
<1>2. CASE \/ InitialRoute \/ DispatchStep \/ StepFails \/ Promote \/ ContractViolation \/ Verify
           \/ RouteByMachine \/ MasterRoutesCompletion \/ MasterSkipsPlanReview
           \/ MasterFinishesReview \/ MasterLeavesSupervision \/ MasterResolvesSupervision
           \/ SettleSupervision \/ TestGate \/ EvaluatePlan \/ EvaluateCode
           \/ MasterRecovers \/ MasterAborts \/ MasterAsksUser
           \/ ResumeFinalGate \/ RecordFinalDecision
           \/ UserSendsBack \/ UserApprovesDeletion \/ UserApprovesEscalations
  <2>1. pc' \in {"loop", "step", "promoted", "verified", "settle", "escalated", "recording"}
    BY <1>2 DEF InitialRoute, DispatchStep, StepFails, Promote, ContractViolation, Verify,
       RouteByMachine, MasterRoutesCompletion, MasterSkipsPlanReview,
       MasterFinishesReview, MasterLeavesSupervision, MasterResolvesSupervision,
       SettleSupervision, TestGate, EvaluatePlan, EvaluateCode,
       MasterRecovers, MasterAborts, MasterAsksUser,
       ResumeFinalGate, RecordFinalDecision,
       UserSendsBack, UserApprovesDeletion, UserApprovesEscalations, Unblock, Iterate
  <2>2. QED
    BY <2>1 DEF Fresh
<1>3. CASE EnsureGate \/ WaitForAnswer \/ ReturnEndState \/ BudgetSpent \/ Refuse \/ Stop
  BY <1>3 DEF EnsureGate, WaitForAnswer, ReturnEndState, BudgetSpent, Refuse, Stop, Exit, Fresh
<1>4. CASE Answer \/ Resume \/ UNCHANGED vars
  BY <1>4 DEF Answer, Resume, vars, Fresh
<1>5. QED
  BY <1>1, <1>2, <1>3, <1>4 DEF Next, Step

LEMMA LimitsNext == IInv /\ LimitsInv /\ [Next]_vars => LimitsInv'
<1> SUFFICES ASSUME IInv, LimitsInv, [Next]_vars PROVE LimitsInv'
  OBVIOUS
<1>1. IInv'
  BY NextInv
<1>2. Fresh'
  BY FreshNext DEF LimitsInv
<1>3. GateRound' /\ WorkLeft'
  BY <1>1, InitialLimits, WorkerLimits, RouteLimits, CoordinatorLimits, BlockLimits,
     UserLimits, ProcessLimits DEF Next, Step
<1>4. QED
  BY <1>2, <1>3 DEF LimitsInv

LEMMA LimitsInit == Init => LimitsInv
<1> SUFFICES ASSUME Init PROVE LimitsInv
  OBVIOUS
<1>1. st \in Committed
  BY InitInv DEF IInv, TypeOK
<1>2. st.state = "INIT" /\ st.gate = NoGate /\ pc = "boot" /\ transitions = 0
  BY DEF Init
<1>3. GateRound /\ Fresh
  BY <1>2 DEF GateRound, Fresh
<1>4. GateWork = 0
  BY <1>2 DEF GateWork
<1>5. Work(st) + 0 <= ProcessBound
  BY <1>1, CycleFacts, WorkBounded
<1>6. Work(st) \in Nat
  BY <1>1, WorkFacts DEF Work
<1>7. WorkLeft
  BY <1>2, <1>4, <1>5, <1>6 DEF WorkLeft
<1>8. QED
  BY <1>3, <1>7 DEF LimitsInv

-----------------------------------------------------------------------------
\* The theorems.

THEOREM LimitsInvariance == Spec => []LimitsInv
<1>1. Init => LimitsInv
  BY LimitsInit
<1>2. IInv /\ LimitsInv /\ [Next]_vars => LimitsInv'
  BY LimitsNext
<1>3. QED
  BY <1>1, <1>2, Invariance, PTL DEF Spec

\* A process without a Master takes at most ProcessBound transitions, whatever
\* its workers, its tests and its user do: the rounds, the test fixes and the
\* retries end it, or a gate does.
THEOREM ProcessIsBounded == Spec => [](~mode.master => transitions <= ProcessBound)
<1>1. IInv /\ LimitsInv => (~mode.master => transitions <= ProcessBound)
  <2> SUFFICES ASSUME IInv, LimitsInv, ~mode.master PROVE transitions <= ProcessBound
    OBVIOUS
  <2>1. transitions + Work(st) + GateWork <= ProcessBound
    BY DEF LimitsInv, WorkLeft
  <2>2. Work(st) \in Nat /\ GateWork \in Nat /\ transitions \in Nat
    <3>1. st \in Committed /\ transitions \in Nat
      BY RunLoopConstants DEF IInv, TypeOK
    <3>2. QED
      BY <3>1, WorkFacts, CycleFacts DEF Work, GateWork
  <2>3. Cycle * (CodeLimit + 1) \in Nat
    BY CycleFacts, LimitsPositive
  <2>4. QED
    BY <2>1, <2>2, <2>3, LimitsPositive DEF ProcessBound
<1>2. QED
  BY <1>1, Invariance, LimitsInvariance, PTL

\* The transition limit of a process, if it is beyond that bound, never has to
\* end one without a Master.
THEOREM OwnLimitsSuffice ==
  ASSUME ProcessBound < MaxTransitions
  PROVE  Spec => []OwnLimitsEndTheLoop
<1>1. TypeOK /\ (~mode.master => transitions <= ProcessBound) => OwnLimitsEndTheLoop
  <2>1. Cycle * (CodeLimit + 1) \in Nat
    BY CycleFacts, LimitsPositive
  <2>2. ProcessBound \in Nat
    BY <2>1, LimitsPositive DEF ProcessBound
  <2>3. QED
    BY <2>2, RunLoopConstants DEF TypeOK, OwnLimitsEndTheLoop
<1>2. QED
  BY <1>1, TypeCorrect, ProcessIsBounded, PTL

\* The limits the code is shipped with (5 plan and 5 code rounds, which it does
\* not allow to be changed, 3 test fixes, 3 retries, 128 transitions) are such.
THEOREM ShippedLimitsSuffice ==
  ASSUME PlanLimit = 5, CodeLimit = 5, TestFixLimit = 3, RetryLimit = 3,
         MaxTransitions = 128
  PROVE  Spec => []OwnLimitsEndTheLoop
<1>1. ProcessBound = 71
  BY DEF ProcessBound, Cycle
<1>2. ProcessBound < MaxTransitions
  BY <1>1
<1>3. QED
  BY <1>2, OwnLimitsSuffice

-----------------------------------------------------------------------------
\* Every iteration is counted.

\* Each step of a living process goes on to the next place of its iteration, or
\* ends the iteration and counts it.
LEMMA StepOnward ==
  ASSUME Next, pc # "down", pc' # "down", UNCHANGED <<st, pc, transitions>> => FALSE
  PROVE  \/ <<pc, pc'>> \in Onward /\ transitions' = transitions
         \/ pc' = "loop" /\ transitions' = transitions + 1
<1> USE DEF AtHead, Iterate, Onward
<1>1. CASE RecordPool \/ InitialRoute
  BY <1>1 DEF RecordPool, InitialRoute
<1>2. CASE DispatchStep \/ StepFails \/ Promote \/ ContractViolation \/ Verify
  BY <1>2 DEF DispatchStep, StepFails, Promote, ContractViolation, Verify
<1>3. CASE RouteByMachine \/ MasterRoutesCompletion \/ MasterSkipsPlanReview
           \/ MasterFinishesReview \/ MasterLeavesSupervision
  BY <1>3 DEF RouteByMachine, MasterRoutesCompletion, MasterSkipsPlanReview,
     MasterFinishesReview, MasterLeavesSupervision
<1>4. CASE MasterResolvesSupervision \/ SettleSupervision
  <2>1. CASE MasterResolvesSupervision
    <3>1. pc \in {"verified", "loop"}
      BY <2>1 DEF MasterResolvesSupervision, Routing
    <3>2. \/ pc' = "settle" /\ transitions' = transitions
          \/ Iterate
      BY <2>1 DEF MasterResolvesSupervision
    <3>3. QED
      BY <3>1, <3>2
  <2>2. QED
    BY <1>4, <2>1 DEF SettleSupervision
<1>5. CASE TestGate \/ EvaluatePlan \/ EvaluateCode
  BY <1>5 DEF TestGate, EvaluatePlan, EvaluateCode
<1>6. CASE MasterRecovers \/ MasterAborts \/ MasterAsksUser
  BY <1>6 DEF MasterRecovers, MasterAborts, MasterAsksUser
<1>7. CASE ResumeFinalGate \/ RecordFinalDecision
  BY <1>7 DEF ResumeFinalGate, RecordFinalDecision, Answered
<1>8. CASE UserSendsBack \/ UserApprovesDeletion \/ UserApprovesEscalations
  BY <1>8 DEF UserSendsBack, UserApprovesDeletion, UserApprovesEscalations, Unblock
<1>9. CASE EnsureGate \/ WaitForAnswer \/ ReturnEndState \/ BudgetSpent \/ Refuse \/ Stop
  BY <1>9 DEF EnsureGate, WaitForAnswer, ReturnEndState, BudgetSpent, Refuse, Stop, Exit
<1>10. CASE Answer \/ Resume
  BY <1>10 DEF Answer, Resume
<1>11. QED
  BY <1>1, <1>2, <1>3, <1>4, <1>5, <1>6, <1>7, <1>8, <1>9, <1>10 DEF Next, Step

\* No way through the loop escapes the transition count.
THEOREM IterationsAreCounted == Spec => EveryIterationCounts
<1>1. [Next]_vars => [pc # "down" /\ pc' # "down"
        => \/ <<pc, pc'>> \in Onward /\ transitions' = transitions
           \/ pc' = "loop" /\ transitions' = transitions + 1]_<<st, pc, transitions>>
  BY StepOnward DEF vars
<1>2. QED
  BY <1>1, PTL DEF Spec, EveryIterationCounts

\* The places of an iteration in their order, and the clock of a process.
Place(p) ==
  CASE p = "init"     -> 1
    [] p = "loop"     -> 2
    [] p = "step"     -> 3
    [] p = "promoted" -> 4
    [] p = "verified" -> 5
    [] p \in {"settle", "escalated", "recording"} -> 6
    [] OTHER          -> 0
Clock == 7 * transitions + Place(pc)

\* The clock advances with every step of a living process and never passes its
\* bound: a process takes finitely many steps, Master or not, in the number of
\* transitions it is allowed.  (That it takes them is the fairness of TLC's
\* InvocationEnds.)
THEOREM ProcessesTakeFinitelyManySteps ==
  Spec => /\ [](Clock \in 0 .. 7 * MaxTransitions + 6)
          /\ [][pc # "down" /\ pc' # "down" => Clock' > Clock]_<<st, pc, transitions>>
<1>1. TypeOK => Clock \in 0 .. 7 * MaxTransitions + 6
  <2> SUFFICES ASSUME TypeOK PROVE Clock \in 0 .. 7 * MaxTransitions + 6
    OBVIOUS
  <2>1. transitions \in 0 .. MaxTransitions /\ MaxTransitions \in Nat
    BY RunLoopConstants DEF TypeOK
  <2>2. Place(pc) \in 0 .. 6
    BY DEF Place
  <2>3. QED
    BY <2>1, <2>2 DEF Clock
<1>2. TypeOK /\ [Next]_vars
      => [pc # "down" /\ pc' # "down" => Clock' > Clock]_<<st, pc, transitions>>
  <2> SUFFICES ASSUME TypeOK, Next, pc # "down", pc' # "down",
                      UNCHANGED <<st, pc, transitions>> => FALSE
               PROVE  Clock' > Clock
    BY DEF vars
  <2>1. transitions \in Nat
    BY RunLoopConstants DEF TypeOK
  <2>2. CASE <<pc, pc'>> \in Onward /\ transitions' = transitions
    <3>1. Place(pc) \in 0 .. 6 /\ Place(pc') \in 0 .. 6 /\ Place(pc) < Place(pc')
      BY <2>2 DEF Place, Onward
    <3>2. QED
      BY <2>1, <2>2, <3>1 DEF Clock
  <2>3. CASE pc' = "loop" /\ transitions' = transitions + 1
    <3>1. Place(pc) \in 0 .. 6 /\ Place(pc') = 2
      BY <2>3 DEF Place
    <3>2. QED
      BY <2>1, <2>3, <3>1 DEF Clock
  <2>4. QED
    BY <2>2, <2>3, StepOnward
<1>3. QED
  BY <1>1, <1>2, TypeCorrect, PTL DEF Spec
=============================================================================
