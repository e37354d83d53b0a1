----------------------------- MODULE LoopMachine -----------------------------
(***************************************************************************)
(* The pure part of the coordinator: the loop states, the signals and the  *)
(* transition function of orca_loop/machine.py, and the routing tables of  *)
(* run_loop.py.  Nothing here has a state; RunLoop gives it one.           *)
(***************************************************************************)
EXTENDS Naturals

CONSTANTS
  PlanLimit,      \* plan_consensus_round_limit
  CodeLimit,      \* code_consensus_round_limit
  TestFixLimit,   \* test_fix_attempt_limit
  RetryLimit      \* operational_retry_limit

ASSUME LimitsPositive ==
  /\ PlanLimit \in Nat \ {0}
  /\ CodeLimit \in Nat \ {0}
  /\ TestFixLimit \in Nat \ {0}
  /\ RetryLimit \in Nat \ {0}

PlannerStates     == {"PLAN", "PLAN_REVISE"}
ImplementerStates == {"IMPLEMENT", "FIX"}
ReviewerStates    == {"PLAN_REVIEW", "CODE_REVIEW", "CROSS_CONFIRM"}
WorkerStates      == PlannerStates \cup ImplementerStates \cup ReviewerStates
EvaluateStates    == {"PLAN_CONSENSUS_EVALUATE", "CONSENSUS_EVALUATE"}

TerminalStates == {"READY_FOR_MERGE", "FINISHED_PLAN", "REJECTED",
                   "USER_DECISION_REQUIRED", "FAILED"}

\* The states a run can be in forever: unlike the rest of TerminalStates,
\* USER_DECISION_REQUIRED is left again by run_loop, not by the machine.
EndStates == TerminalStates \ {"USER_DECISION_REQUIRED"}

LoopState == {"INIT", "TEST_GATE", "HUMAN_GATE"}
             \cup WorkerStates \cup EvaluateStates \cup TerminalStates

TestStatus  == {"PASS", "FAIL", "NOT_RUN", "POLICY_VIOLATION"}
Decisions   == {"merge", "reject", "revise_code", "revise_design"}
GateKinds   == {"FINAL", "ESCALATION", "DESTRUCTIVE"}
\* E-03 and E-08 are told apart by the code; E-05 stands for the other codes.
Codes       == {"E03", "E05", "E08"}

Counters    == [testFix : Nat, opRetry : Nat]

\* The (state, signal) pairs with one fixed successor.
DirectEdges ==
  { <<"INIT", "OK", "PLAN">>,
    <<"PLAN", "ARTIFACT_OK", "PLAN_REVIEW">>,
    <<"PLAN_REVIEW", "ARTIFACT_OK", "PLAN_CONSENSUS_EVALUATE">>,
    <<"PLAN_REVISE", "ARTIFACT_OK", "PLAN_REVIEW">>,
    <<"IMPLEMENT", "ARTIFACT_OK", "TEST_GATE">>,
    <<"FIX", "ARTIFACT_OK", "TEST_GATE">>,
    <<"TEST_GATE", "PASS", "CODE_REVIEW">>,
    <<"TEST_GATE", "NOT_RUN", "CODE_REVIEW">>,
    <<"TEST_GATE", "POLICY_VIOLATION", "USER_DECISION_REQUIRED">>,
    <<"CODE_REVIEW", "ARTIFACT_OK", "CROSS_CONFIRM">>,
    <<"CROSS_CONFIRM", "ARTIFACT_OK", "CONSENSUS_EVALUATE">>,
    <<"HUMAN_GATE", "merge", "READY_FOR_MERGE">>,
    <<"HUMAN_GATE", "reject", "REJECTED">>,
    <<"HUMAN_GATE", "revise_code", "FIX">>,
    <<"HUMAN_GATE", "revise_design", "PLAN_REVISE">> }

\* Mutant of CountersAfter: the failed tests are not counted.
CountersWithoutFixes(s, sig, c) ==
  CASE sig = "OPERATIONAL_RETRY"       -> [c EXCEPT !.opRetry = @ + 1]
    [] s = "TEST_GATE" /\ sig = "PASS" -> [c EXCEPT !.testFix = 0]
    [] OTHER                           -> c

\* counters_after of transition().
CountersAfter(s, sig, c) ==
  CASE sig = "OPERATIONAL_RETRY"       -> [c EXCEPT !.opRetry = @ + 1]
    [] s = "TEST_GATE" /\ sig = "PASS" -> [c EXCEPT !.testFix = 0]
    [] s = "TEST_GATE" /\ sig = "FAIL" -> [c EXCEPT !.testFix = @ + 1]
    [] OTHER                           -> c

\* transition(): t is the next state of s on signal sig.  No t satisfies it
\* where the code raises UndefinedTransitionError.  view is the ledger view
\* (open: unresolved_count > 0), c the counters before the step.
Transition(s, sig, view, c, t) ==
  /\ s \notin TerminalStates
  /\ \/ /\ sig = "ESCALATE"
        /\ t = "USER_DECISION_REQUIRED"
     \/ /\ sig = "ABORT"
        /\ t = "FAILED"
     \/ /\ sig = "OPERATIONAL_RETRY"
        /\ t = IF c.opRetry + 1 >= RetryLimit THEN "USER_DECISION_REQUIRED" ELSE s
     \/ <<s, sig, t>> \in DirectEdges
     \/ /\ s = "PLAN_CONSENSUS_EVALUATE" /\ sig = "UNRESOLVED_ZERO" /\ ~view.open
        /\ t = "IMPLEMENT"
     \/ /\ s = "PLAN_CONSENSUS_EVALUATE" /\ sig = "UNRESOLVED_REMAIN" /\ view.open
        /\ t = IF view.planRound < PlanLimit THEN "PLAN_REVISE" ELSE "USER_DECISION_REQUIRED"
     \/ /\ s = "CONSENSUS_EVALUATE" /\ sig = "UNRESOLVED_ZERO" /\ ~view.open
        /\ t = "HUMAN_GATE"
     \/ /\ s = "CONSENSUS_EVALUATE" /\ sig = "UNRESOLVED_REMAIN" /\ view.open
        /\ t = IF view.codeRound < CodeLimit THEN "FIX" ELSE "USER_DECISION_REQUIRED"
     \/ /\ s = "TEST_GATE" /\ sig = "FAIL"
        /\ t = IF c.testFix + 1 < TestFixLimit THEN "FIX" ELSE "USER_DECISION_REQUIRED"

-----------------------------------------------------------------------------
\* Routing tables of run_loop.py.

\* Mutant of ApprovedTarget: an approved fix goes straight to its review.
ApprovedFixSkipsTests ==
  { <<"PLAN", "PLAN_REVIEW">>, <<"PLAN_REVISE", "PLAN_REVIEW">>,
    <<"PLAN_REVIEW", "PLAN_CONSENSUS_EVALUATE">>,
    <<"PLAN_CONSENSUS_EVALUATE", "IMPLEMENT">>,
    <<"IMPLEMENT", "TEST_GATE">>, <<"FIX", "CODE_REVIEW">>,
    <<"CODE_REVIEW", "CROSS_CONFIRM">>,
    <<"CROSS_CONFIRM", "CONSENSUS_EVALUATE">>,
    <<"CONSENSUS_EVALUATE", "CONSENSUS_EVALUATE">> }

\* _resume_target_after_approval: where an approved block continues.
ApprovedTarget ==
  { <<"PLAN", "PLAN_REVIEW">>, <<"PLAN_REVISE", "PLAN_REVIEW">>,
    <<"PLAN_REVIEW", "PLAN_CONSENSUS_EVALUATE">>,
    <<"PLAN_CONSENSUS_EVALUATE", "IMPLEMENT">>,
    <<"IMPLEMENT", "TEST_GATE">>, <<"FIX", "TEST_GATE">>,
    <<"CODE_REVIEW", "CROSS_CONFIRM">>,
    <<"CROSS_CONFIRM", "CONSENSUS_EVALUATE">>,
    <<"CONSENSUS_EVALUATE", "CONSENSUS_EVALUATE">> }

\* _validate_worker_supervision_master_decision: the states a Master may send
\* an escalated step of state s to.
SupervisionTargets(s, codes) ==
  CASE s \in PlannerStates     -> {"PLAN_REVISE", "PLAN_REVIEW"}
    [] s = "PLAN_REVIEW"       -> {"PLAN_REVISE"}
    [] s \in ImplementerStates -> {"PLAN_REVISE"}
                                  \cup (IF "E08" \in codes THEN {} ELSE {"FIX", "TEST_GATE"})
    [] s = "CODE_REVIEW"       -> {"CROSS_CONFIRM"}
    [] s = "CROSS_CONFIRM"     -> {"FIX"}
    [] OTHER                   -> {}

\* _blocked_master_allowed_decisions with target_by_role: the states a Master
\* may send a blocked run to, unless the round limit is what blocked it.
RecoveryTargets(b) ==
  CASE b \in PlannerStates \cup {"PLAN_CONSENSUS_EVALUATE"} -> {"PLAN_REVISE"}
    [] b = "PLAN_REVIEW"   -> {"PLAN_REVISE", "PLAN_REVIEW"}
    [] b \in ImplementerStates \cup {"TEST_GATE"} -> {"PLAN_REVISE", "FIX"}
    [] b = "CODE_REVIEW"   -> {"FIX", "CODE_REVIEW"}
    [] b = "CROSS_CONFIRM" -> {"FIX", "CROSS_CONFIRM"}
    [] b = "CONSENSUS_EVALUATE" -> {"FIX"}
    [] OTHER -> {}
=============================================================================
