------------------------------- MODULE RunLoop -------------------------------
(***************************************************************************)
(* The coordinator of one run: run_coordinator / _run_loop of run_loop.py  *)
(* with the commits of coordinator.py.  A process of the coordinator loads *)
(* the committed generation, takes steps, each of which ends in the commit *)
(* of a new generation, and exits - at a user gate, at an end state, on an *)
(* exception or in a crash - to be resumed later by another process.       *)
(*                                                                         *)
(* st and plan are on disk and survive the process; pc, transitions and    *)
(* hand are its memory; answer is in the gate store, where the user writes *)
(* it.  A worker step is one dispatch followed by what the worker returns. *)
(***************************************************************************)
EXTENDS LoopMachine

CONSTANTS
  Modes,            \* how the processes of this run may be started
  RaisedCodes,      \* the escalation codes workers and rounds raise here
  PlanRisks,        \* the risks a plan can carry, of Risks
  MaxTransitions,   \* max_transition_count
  MaxTestFailures   \* bound on the FAIL results counted in test_fix_attempts

\* schema: data_api_schema_changes is not empty; destr: a planned delete or
\* rename; signals: the planner's own escalation_signals.
Risks == {"schema", "destr", "signals"}

\* master: a Master runtime is configured; planning: config.planning_only.
AllModes == [master : BOOLEAN, planning : BOOLEAN]

ASSUME RunLoopConstants ==
  /\ Modes \subseteq AllModes /\ Modes # {}
  /\ RaisedCodes \subseteq Codes
  /\ PlanRisks \subseteq Risks
  /\ MaxTransitions \in Nat \ {0}
  /\ MaxTestFailures \in Nat \ {0}

VARIABLES
  st,           \* the committed CoordinatorState and ConsensusLedger
  plan,         \* artifacts/plan.json
  carried,      \* signals of the verified artifact that verification dropped
                \* because the user had approved their keys
  answer,       \* the user's answer to the bound gate
  pc,           \* where the coordinator process is; "down": there is none
  mode,         \* how it was started
  transitions,  \* transitions of this process
  hand,         \* escalations of a supervision result not yet committed
  tested,       \* history: the test gate ran since the last implementer step
  userOwned     \* history: the Master left the block to the user

vars == <<st, plan, carried, answer, pc, mode, transitions, hand, tested, userOwned>>
history == <<tested, userOwned>>

\* STEP_DISPATCHED stands for the four stages from STEP_PREPARED to
\* WORKER_DONE_RECEIVED, which no code tells apart when it reads a generation.
Stages == {"STEP_PENDING", "STEP_DISPATCHED", "ARTIFACT_VERIFIED", "TRANSITION_COMMITTED"}
Gates  == [kind : GateKinds, options : SUBSET Decisions]
NoGate == [kind |-> "NONE", options |-> {}]

\* last is what run_loop reads of history[-1]: an ESCALATE that requires a
\* user decision, an UNRESOLVED_REMAIN, or anything else.
Committed ==
  [state : LoopState, stage : Stages, blocked : LoopState \cup {"NONE"},
   pending : SUBSET Codes, last : {"authority", "remain", "other"},
   counters : Counters, test : TestStatus \cup {"NONE"},
   gate : Gates \cup {NoGate}, pool : BOOLEAN,
   destructive : BOOLEAN,
   open : BOOLEAN, planRound : Nat, codeRound : Nat, keys : SUBSET Codes]

\* status: written by promote_artifact, then accepted by its validation.
\* contract: the user approved the E-03 key of this very document.
Plans == [status : {"none", "promoted", "accepted"}, risk : SUBSET Risks,
          contract : BOOLEAN]
NewPlan(risk) == [status |-> "promoted", risk |-> risk, contract |-> FALSE]

TypeOK ==
  /\ st \in Committed
  /\ plan \in Plans
  /\ carried \subseteq Codes
  /\ answer \in Decisions \cup {"NONE"}
  /\ pc \in {"down", "boot", "init", "loop", "step", "promoted", "verified",
             "settle", "escalated", "recording"}
  /\ mode \in AllModes
  /\ transitions \in 0 .. MaxTransitions
  /\ hand \subseteq Codes
  /\ tested \in BOOLEAN
  /\ userOwned \in BOOLEAN

\* _initialize has created the run directory and committed generation 0.
Init ==
  /\ st = [state |-> "INIT", stage |-> "STEP_PENDING", blocked |-> "NONE",
           pending |-> {}, last |-> "other",
           counters |-> [testFix |-> 0, opRetry |-> 0], test |-> "NONE",
           gate |-> NoGate, pool |-> FALSE, destructive |-> FALSE,
           open |-> FALSE, planRound |-> 0, codeRound |-> 0, keys |-> {}]
  /\ plan = [NewPlan({}) EXCEPT !.status = "none"]
  /\ carried = {}
  /\ answer = "NONE"
  /\ pc = "boot"
  /\ mode \in Modes
  /\ transitions = 0
  /\ hand = {}
  /\ tested = FALSE
  /\ userOwned = FALSE

-----------------------------------------------------------------------------
\* Commits.

\* GenerationController.commit: a new generation in state s and stage g.  The
\* fields its caller does not pass keep their values.
Commit(base, s, g) == [base EXCEPT !.state = s, !.stage = g, !.last = "other"]

\* Mutant of ClearBlocked: the escalations outlive the block.
ClearBlockedOnly(s) == [s EXCEPT !.blocked = "NONE"]

ClearBlocked(s) == [s EXCEPT !.blocked = "NONE", !.pending = {}]
\* Mutant of ClearGate: the gate stays bound.
KeepGate(s) == s

ClearGate(s)    == [s EXCEPT !.gate = NoGate]

View(s) == [open |-> s.open, planRound |-> s.planRound, codeRound |-> s.codeRound]

LastOf(sig, user) ==
  CASE sig = "ESCALATE" /\ user    -> "authority"
    [] sig = "UNRESOLVED_REMAIN"   -> "remain"
    [] OTHER                       -> "other"

\* commit_step_transition: base is the committed state with the result's
\* ledger and test status; sig, user and esc are the result's signal, its
\* requires_user_decision and its escalations.
CommitStepTransition(base, sig, user, esc) ==
  \E t \in LoopState :
    /\ IF mode.planning /\ base.state = "PLAN_CONSENSUS_EVALUATE" /\ sig = "UNRESOLVED_ZERO"
       THEN t = "FINISHED_PLAN" /\ ~base.open
       ELSE Transition(base.state, sig, View(base), base.counters, t)
    /\ st' = [base EXCEPT
                !.state = t, !.stage = "TRANSITION_COMMITTED", !.last = LastOf(sig, user),
                !.counters = CountersAfter(base.state, sig, base.counters),
                !.blocked = IF t = "USER_DECISION_REQUIRED" THEN base.state ELSE @,
                !.pending = IF t = "USER_DECISION_REQUIRED" THEN esc ELSE {}]
    /\ userOwned' = (user /\ t = "USER_DECISION_REQUIRED")

\* Mutant of AtHead: one iteration too many.
AtHeadOnceMore(states) == pc = "loop" /\ transitions <= MaxTransitions /\ st.state \in states

\* Loop head: the state below the limits, with no timeout.
AtHead(states) == pc = "loop" /\ transitions < MaxTransitions /\ st.state \in states

\* Mutant of Iterate: the transition is not counted.
IterateUncounted == pc' = "loop" /\ UNCHANGED transitions

Iterate == pc' = "loop" /\ transitions' = transitions + 1

\* The process is gone, and its memory with it.
Exit == pc' = "down" /\ hand' = {} /\ transitions' = 0

-----------------------------------------------------------------------------
\* Initialization.

\* The rest of _initialize: provision_workers and the two commits after it.
\* Before the second the generation on disk has no worker handles.
RecordPool ==
  /\ pc = "boot"
  /\ st' = [Commit(st, "INIT", "STEP_PENDING") EXCEPT !.pool = TRUE]
  /\ pc' = "init"
  /\ UNCHANGED <<plan, carried, answer, mode, transitions, hand, history>>

\* _commit_initial_route, from _initialize or from the loop of a resumed run.
InitialRoute ==
  /\ pc = "init" \/ AtHead({"INIT"})
  /\ IF mode.master
     THEN /\ \E t \in {"PLAN", "IMPLEMENT"} : st' = Commit(st, t, "STEP_PENDING")
          /\ UNCHANGED userOwned
     ELSE CommitStepTransition(st, "OK", FALSE, {})
  /\ pc' = "loop"
  /\ transitions' = IF pc = "init" THEN transitions ELSE transitions + 1
  /\ UNCHANGED <<plan, carried, answer, mode, hand, tested>>

-----------------------------------------------------------------------------
\* One worker step: _execute_worker and execute_worker_step.

\* Mutant of DispatchStep: a resumed run repeats a step already verified.
DispatchVerifiedStep ==
  /\ AtHead(WorkerStates)
  /\ st' = Commit(st, st.state, "STEP_DISPATCHED")
  /\ pc' = "step"
  /\ carried' = {}
  /\ tested' = (tested /\ st.state \notin ImplementerStates)
  /\ UNCHANGED <<plan, answer, mode, transitions, hand, userOwned>>

\* prepare_task and dispatch_and_wait: the step is dispatched.
DispatchStep ==
  /\ AtHead(WorkerStates)
  /\ st.stage # "ARTIFACT_VERIFIED"
  /\ st' = Commit(st, st.state, "STEP_DISPATCHED")
  /\ pc' = "step"
  /\ carried' = {}
  /\ tested' = (tested /\ st.state \notin ImplementerStates)
  /\ UNCHANGED <<plan, answer, mode, transitions, hand, userOwned>>

\* The step times out (ABORT), or the worker asks for help instead of
\* finishing (ESCALATE).  There is no artifact, so no Master is asked.
StepFails ==
  /\ pc = "step"
  /\ \E sig \in {"ABORT", "ESCALATE"} : CommitStepTransition(st, sig, FALSE, {})
  /\ Iterate
  /\ UNCHANGED <<plan, carried, answer, mode, hand, tested>>

\* promote_artifact: the artifact replaces the one of its role, plan.json for a
\* planner, before validate_artifact has seen it.
Promote ==
  /\ pc = "step"
  /\ IF st.state \in PlannerStates
     THEN \E risk \in SUBSET PlanRisks : plan' = NewPlan(risk)
     ELSE UNCHANGED plan
  /\ pc' = "promoted"
  /\ UNCHANGED <<st, carried, answer, mode, transitions, hand, history>>

\* ContractViolationError: the artifact is refused by its parser, before it is
\* promoted, or by validate_artifact, after.  operational_retry_result.
ContractViolation ==
  /\ \/ pc = "step"
     \/ pc = "promoted" /\ st.state \notin ImplementerStates
  /\ \E sig \in IF st.counters.opRetry < RetryLimit - 1
                THEN {"OPERATIONAL_RETRY"} ELSE {"ESCALATE", "ABORT"} :
       CommitStepTransition(st, sig, FALSE, {})
  /\ Iterate
  /\ UNCHANGED <<plan, carried, answer, mode, hand, tested>>

\* The findings a verified artifact may leave open: only reviews raise or
\* reopen one, only reviews and plans resolve the last.
OpenAfter(s) ==
  CASE s.state \in ReviewerStates -> BOOLEAN
    [] s.state \in PlannerStates  -> {s.open, FALSE}
    [] OTHER                      -> {s.open}

\* The artifact passes validation and the repository guard; its ledger handler
\* runs and ARTIFACT_VERIFIED is committed.  dropped are the signals whose keys
\* the ledger holds as approved (_dedupe_escalations).
Verify ==
  /\ pc = "promoted"
  /\ \E sigs \in SUBSET RaisedCodes, o \in OpenAfter(st) : \E dropped \in SUBSET (sigs \cap st.keys) :
       /\ st.state \in PlannerStates => ("signals" \in plan.risk <=> sigs # {})
       /\ st' = [Commit(st, st.state, "ARTIFACT_VERIFIED") EXCEPT
                   !.open = o, !.pending = sigs \ dropped]
       /\ carried' = IF dropped = sigs THEN dropped ELSE {}
  /\ plan' = IF st.state \in PlannerStates THEN [plan EXCEPT !.status = "accepted"] ELSE plan
  /\ pc' = "verified"
  /\ UNCHANGED <<answer, mode, transitions, hand, history>>

-----------------------------------------------------------------------------
\* Routing of a verified step: _route_worker_completion, from _execute_worker
\* or, after a restart, from _resume_verified_worker_routing.

Routing ==
  \/ pc = "verified"
  \/ AtHead(WorkerStates) /\ st.stage = "ARTIFACT_VERIFIED"

\* The escalations of the result.  A resumed one that finds none pending takes
\* those of the artifact, the approved ones included.
Escalations ==
  IF pc = "loop" /\ st.pending = {} THEN carried ELSE st.pending

NormalMasterStates == PlannerStates \cup ImplementerStates \cup {"CODE_REVIEW"}

\* No Master, or none for this state: the machine decides.
RouteByMachine ==
  /\ Routing
  /\ ~mode.master \/ (Escalations = {} /\ st.state \notin NormalMasterStates)
  /\ CommitStepTransition(st, IF Escalations = {} THEN "ARTIFACT_OK" ELSE "ESCALATE",
                          FALSE, Escalations)
  /\ Iterate
  /\ UNCHANGED <<plan, carried, answer, mode, hand, tested>>

\* _validate_worker_completion_master_decision: the Master takes the normal
\* next step, or escalates.
MasterRoutesCompletion ==
  /\ Routing /\ mode.master /\ Escalations = {} /\ st.state \in NormalMasterStates
  /\ \E sig \in {"ARTIFACT_OK", "ESCALATE"} : CommitStepTransition(st, sig, FALSE, {})
  /\ Iterate
  /\ UNCHANGED <<plan, carried, answer, mode, hand, tested>>

\* Mutants of LowRiskPlan: without the ledger, and without the plan's risks.
LowRiskDespiteFindings == plan.status # "none" /\ plan.risk = {}
AnyPlan                == plan.status # "none" /\ ~st.open

\* _plan_review_can_be_skipped of the promoted plan.
LowRiskPlan == plan.status # "none" /\ plan.risk = {} /\ ~st.open

MasterSkipsPlanReview ==
  /\ Routing /\ mode.master /\ Escalations = {} /\ st.state \in PlannerStates
  /\ LowRiskPlan
  /\ st' = Commit(st, "IMPLEMENT", "TRANSITION_COMMITTED")
  /\ Iterate
  /\ UNCHANGED <<plan, carried, answer, mode, hand, history>>

\* _code_review_can_finish: that the review artifact is an unreserved approval
\* is the reviewer's choice.
MasterFinishesReview ==
  /\ Routing /\ mode.master /\ Escalations = {} /\ st.state = "CODE_REVIEW"
  /\ st.test = "PASS" /\ LowRiskPlan
  /\ st' = ClearBlocked(Commit(st, "READY_FOR_MERGE", "TRANSITION_COMMITTED"))
  /\ Iterate
  /\ UNCHANGED <<plan, carried, answer, mode, hand, history>>

\* _validate_worker_supervision_master_decision, action escalate.
MasterLeavesSupervision ==
  /\ Routing /\ mode.master /\ Escalations # {}
  /\ CommitStepTransition(st, "ESCALATE", TRUE, Escalations)
  /\ Iterate
  /\ UNCHANGED <<plan, carried, answer, mode, hand, tested>>

\* The same with a target: _commit_master_supervision_resolution.  The caller
\* then compares the state with the one it started from, and when the Master
\* chose that one commits the ESCALATE of the result as well.
MasterResolvesSupervision ==
  /\ Routing /\ mode.master /\ Escalations # {}
  /\ \E t \in SupervisionTargets(st.state, Escalations) :
       /\ st' = [Commit(st, t, "TRANSITION_COMMITTED") EXCEPT !.pending = {}]
       /\ IF t = st.state
          THEN pc' = "settle" /\ hand' = Escalations /\ UNCHANGED transitions
          ELSE Iterate /\ UNCHANGED hand
  /\ UNCHANGED <<plan, carried, answer, mode, history>>

SettleSupervision ==
  /\ pc = "settle"
  /\ CommitStepTransition(st, "ESCALATE", FALSE, hand)
  /\ Iterate
  /\ hand' = {}
  /\ UNCHANGED <<plan, carried, answer, mode, tested>>

-----------------------------------------------------------------------------
\* The states the coordinator works in itself.

\* execute_test_gate and _route_test_result.
TestGate ==
  /\ AtHead({"TEST_GATE"})
  /\ plan.status # "none"
  /\ \E status \in TestStatus :
       /\ status = "FAIL" => st.counters.testFix < MaxTestFailures
       /\ LET base == [st EXCEPT !.test = status] IN
          \/ CommitStepTransition(base, status, FALSE, {})
          \/ /\ mode.master /\ status # "POLICY_VIOLATION"
             /\ CommitStepTransition(base, "ESCALATE", TRUE, {})
          \/ /\ mode.master /\ status = "PASS" /\ LowRiskPlan
             /\ st' = ClearBlocked([Commit(base, "READY_FOR_MERGE", "TRANSITION_COMMITTED")
                                      EXCEPT !.counters.testFix = 0])
             /\ UNCHANGED userOwned
  /\ tested' = TRUE
  /\ Iterate
  /\ UNCHANGED <<plan, carried, answer, mode, hand>>

\* commit_round: what a round over open findings may raise by itself.
RoundEscalations == IF st.open THEN SUBSET (RaisedCodes \cap {"E05"}) ELSE {{}}

\* execute_evaluate(PLAN).  A round past the limit and a plan that is not the
\* accepted one raise InvalidRoundError: the process exits.
EvaluatePlan ==
  /\ AtHead({"PLAN_CONSENSUS_EVALUATE"})
  /\ plan.status = "accepted"
  /\ st.planRound + 1 <= PlanLimit
  /\ LET base == [st EXCEPT !.planRound = @ + 1]
         approvable == ~st.open /\ ~mode.planning
         contract == IF approvable /\ "schema" \in plan.risk /\ ~plan.contract
                     THEN {"E03"} ELSE {}
         deletion == approvable /\ "destr" \in plan.risk /\ ~st.destructive
     IN \E esc \in RoundEscalations :
          LET sig == IF esc \cup contract # {} \/ deletion THEN "ESCALATE"
                     ELSE IF st.open THEN "UNRESOLVED_REMAIN" ELSE "UNRESOLVED_ZERO"
          IN CommitStepTransition(base, sig, FALSE, esc \cup contract)
  /\ Iterate
  /\ UNCHANGED <<plan, carried, answer, mode, hand, tested>>

\* execute_evaluate(CODE) and _route_final_decision.
EvaluateCode ==
  /\ AtHead({"CONSENSUS_EVALUATE"})
  /\ st.codeRound + 1 <= CodeLimit
  /\ LET base == [st EXCEPT !.codeRound = @ + 1] IN
     \/ \E esc \in RoundEscalations :
          LET sig == IF esc # {} THEN "ESCALATE"
                     ELSE IF st.open THEN "UNRESOLVED_REMAIN" ELSE "UNRESOLVED_ZERO"
          IN /\ ~(mode.master /\ sig = "UNRESOLVED_ZERO")
             /\ CommitStepTransition(base, sig, FALSE, esc)
     \/ /\ mode.master /\ ~st.open
        /\ \/ /\ st' = ClearBlocked(Commit(base, "READY_FOR_MERGE", "TRANSITION_COMMITTED"))
              /\ UNCHANGED userOwned
           \/ CommitStepTransition(base, "ESCALATE", TRUE, {})
  /\ Iterate
  /\ UNCHANGED <<plan, carried, answer, mode, hand, tested>>

-----------------------------------------------------------------------------
\* Blocked runs and the user.

\* _destructive_user_authority_required, and destructive_pending of
\* _ensure_gate: a delete or rename nobody has approved.
DeletionPending ==
  /\ st.blocked = "PLAN_CONSENSUS_EVALUATE" /\ st.pending = {} /\ ~st.destructive
  /\ plan.status # "none" /\ "destr" \in plan.risk

\* Mutant of MasterMayRecover: the Master is asked again after it declined.
MasterAskedAgain ==
  /\ mode.master
  /\ st.state = "USER_DECISION_REQUIRED"
  /\ ~DeletionPending

\* _route_blocked_before_user_gate asks the Master first.
MasterMayRecover ==
  /\ mode.master
  /\ st.state = "USER_DECISION_REQUIRED"
  /\ ~DeletionPending
  /\ st.last # "authority"

RoundLimitExhausted ==
  /\ st.last = "remain"
  /\ \/ st.blocked = "PLAN_CONSENSUS_EVALUATE" /\ st.planRound >= PlanLimit
     \/ st.blocked = "CONSENSUS_EVALUATE" /\ st.codeRound >= CodeLimit

MasterRecovers ==
  /\ AtHead({"USER_DECISION_REQUIRED"}) /\ st.gate = NoGate /\ MasterMayRecover
  /\ ~RoundLimitExhausted
  /\ \E t \in RecoveryTargets(st.blocked) :
       st' = ClearGate(ClearBlocked(Commit(st, t, "STEP_PENDING")))
  /\ Iterate
  /\ UNCHANGED <<plan, carried, answer, mode, hand, history>>

MasterAborts ==
  /\ AtHead({"USER_DECISION_REQUIRED"}) /\ st.gate = NoGate /\ MasterMayRecover
  /\ st' = ClearBlocked(Commit(st, "FAILED", "TRANSITION_COMMITTED"))
  /\ Iterate
  /\ UNCHANGED <<plan, carried, answer, mode, hand, history>>

MasterAsksUser ==
  /\ AtHead({"USER_DECISION_REQUIRED"}) /\ st.gate = NoGate /\ MasterMayRecover
  /\ st' = [Commit(st, "USER_DECISION_REQUIRED", "TRANSITION_COMMITTED")
              EXCEPT !.last = "authority"]
  /\ pc' = "escalated"
  /\ userOwned' = TRUE
  /\ UNCHANGED <<plan, carried, answer, mode, transitions, hand, tested>>

\* kind and _gate_options of _ensure_gate.
GateKind ==
  CASE st.state = "HUMAN_GATE" -> "FINAL"
    [] st.state # "HUMAN_GATE" /\ DeletionPending -> "DESTRUCTIVE"
    [] OTHER -> "ESCALATION"

GateOptions ==
  LET kind == GateKind
      deletes == plan.status # "none" /\ "destr" \in plan.risk
  IN CASE kind = "FINAL" -> Decisions
       [] kind = "DESTRUCTIVE" \/ (kind = "ESCALATION" /\ "E03" \in st.pending) ->
            {"merge", "reject", "revise_design"}
       [] OTHER ->
            CASE st.blocked = "PLAN_CONSENSUS_EVALUATE" -> {"revise_design", "reject"}
              [] st.blocked \in {"CONSENSUS_EVALUATE", "TEST_GATE"} -> {"revise_code", "reject"}
              [] st.blocked \notin EvaluateStates \cup {"TEST_GATE"} /\ deletes ->
                   {"merge", "reject", "revise_design"}
              [] OTHER -> {"revise_code", "revise_design", "reject"}

\* _ensure_gate: the gate is created, then bound by a commit; run_loop returns.
EnsureGate ==
  /\ \/ pc = "escalated"
     \/ /\ AtHead({"HUMAN_GATE", "USER_DECISION_REQUIRED"})
        /\ st.gate = NoGate /\ ~MasterMayRecover
  /\ st' = [Commit(st, st.state, "TRANSITION_COMMITTED") EXCEPT
              !.gate = [kind |-> GateKind, options |-> GateOptions]]
  /\ answer' = "NONE"
  /\ Exit
  /\ UNCHANGED <<plan, carried, mode, tested, userOwned>>

\* The user resolves the bound gate with one of its options.
Answer ==
  /\ st.gate # NoGate /\ answer = "NONE"
  /\ answer' \in st.gate.options
  /\ UNCHANGED <<st, plan, carried, pc, mode, transitions, hand, history>>

\* _resume_gate finds no resolved gate.
WaitForAnswer ==
  /\ AtHead({"HUMAN_GATE", "USER_DECISION_REQUIRED"})
  /\ st.gate # NoGate /\ answer = "NONE"
  /\ Exit
  /\ UNCHANGED <<st, plan, carried, answer, mode, history>>

Answered(states) == AtHead(states) /\ st.gate # NoGate /\ answer # "NONE"

\* The gate is no longer bound: its answer is read no more.
ForgetAnswer == answer' = "NONE"

\* _resume_gate at HUMAN_GATE: the transition is one commit, the record of the
\* decision, which clears the gate, a second.
ResumeFinalGate ==
  /\ Answered({"HUMAN_GATE"})
  /\ CommitStepTransition(st, answer, FALSE, {})
  /\ pc' = "recording"
  /\ UNCHANGED <<plan, carried, answer, mode, transitions, hand, tested>>

RecordFinalDecision ==
  /\ pc = "recording"
  /\ st' = ClearGate(ClearBlocked(Commit(st, st.state, "TRANSITION_COMMITTED")))
  /\ Iterate
  /\ ForgetAnswer
  /\ UNCHANGED <<plan, carried, mode, hand, tested, userOwned>>

\* _resume_gate at a block: the run continues in state t.
Unblock(base, t) ==
  /\ st' = ClearGate(ClearBlocked(Commit(base, t, "TRANSITION_COMMITTED")))
  /\ Iterate
  /\ ForgetAnswer
  /\ userOwned' = FALSE
  /\ UNCHANGED <<carried, mode, hand, tested>>

\* The user rejects the run or sends it back.
UserSendsBack ==
  /\ Answered({"USER_DECISION_REQUIRED"})
  /\ \/ answer = "reject"        /\ Unblock(st, "REJECTED")
     \/ answer = "revise_design" /\ Unblock(st, "PLAN_REVISE")
     \/ answer = "revise_code"   /\ Unblock(st, "FIX")
  /\ UNCHANGED plan

\* The user approves the planned deletions: destructive_gate.
UserApprovesDeletion ==
  /\ Answered({"USER_DECISION_REQUIRED"})
  /\ answer = "merge" /\ st.gate.kind = "DESTRUCTIVE"
  /\ \E t \in LoopState :
       /\ <<st.blocked, t>> \in ApprovedTarget
       /\ Unblock([st EXCEPT !.destructive = @ \/ "destr" \in plan.risk], t)
  /\ UNCHANGED plan

\* The user approves the pending escalations: approve_escalation_keys.  At a
\* plan with unapproved deletions the run stays blocked for their own gate.
UserApprovesEscalations ==
  /\ Answered({"USER_DECISION_REQUIRED"})
  /\ answer = "merge" /\ st.gate.kind = "ESCALATION" /\ st.pending # {}
  /\ LET base == [st EXCEPT !.keys = @ \cup st.pending]
         atPlan == st.blocked = "PLAN_CONSENSUS_EVALUATE"
         deletion == /\ atPlan /\ ~st.destructive
                     /\ plan.status # "none" /\ "destr" \in plan.risk
     IN /\ \/ /\ deletion
              /\ st' = ClearGate([Commit(base, "USER_DECISION_REQUIRED", "TRANSITION_COMMITTED")
                                    EXCEPT !.pending = {}])
              /\ Iterate
              /\ ForgetAnswer
              /\ userOwned' = FALSE
              /\ UNCHANGED <<carried, mode, hand, tested>>
           \/ /\ ~deletion
              /\ \E t \in LoopState :
                   <<st.blocked, t>> \in ApprovedTarget /\ Unblock(base, t)
        /\ plan' = [plan EXCEPT !.contract = @ \/ (atPlan /\ "E03" \in st.pending)]

-----------------------------------------------------------------------------
\* The end of a process.

\* A state the loop returns.
ReturnEndState ==
  /\ AtHead(EndStates)
  /\ Exit
  /\ UNCHANGED <<st, plan, carried, answer, mode, history>>

\* total_timeout_ms is tested at the head of the loop, before the state is
\* looked at; the clock starts with the loop, so not on its first iteration.
\* max_transition_count ends the loop.
BudgetSpent ==
  /\ pc = "loop"
  /\ transitions > 0
  /\ st' = Commit(st, "FAILED", "TRANSITION_COMMITTED")
  /\ Exit
  /\ UNCHANGED <<plan, carried, answer, mode, history>>

\* The states whose step always raises: no plan to test, an invalid round, an
\* answer that does not fit the block it is read at.
NoPlanToTest  == AtHead({"TEST_GATE"}) /\ plan.status = "none"
InvalidRound  ==
  \/ AtHead({"PLAN_CONSENSUS_EVALUATE"})
     /\ (plan.status # "accepted" \/ st.planRound + 1 > PlanLimit)
  \/ AtHead({"CONSENSUS_EVALUATE"}) /\ st.codeRound + 1 > CodeLimit
InvalidAnswer ==
  /\ Answered({"USER_DECISION_REQUIRED"}) /\ answer = "merge"
  /\ \/ \A t \in LoopState : <<st.blocked, t>> \notin ApprovedTarget
     \/ st.gate.kind = "FINAL"
     \/ st.gate.kind = "ESCALATION" /\ st.pending = {}

\* The exception ends the process and nothing is committed.
Refuse ==
  /\ NoPlanToTest \/ InvalidRound \/ InvalidAnswer
  /\ Exit
  /\ UNCHANGED <<st, plan, carried, answer, mode, history>>

\* The process crashes, is killed, or ends on an exception that need not
\* happen: a refused Master decision, a lost provider, a guard violation.
Stop ==
  /\ pc # "down"
  /\ Exit
  /\ UNCHANGED <<st, plan, carried, answer, mode, history>>

\* _resume: "committed worker pool is incomplete" refuses the others.
\* A Master runtime is kept in the run directory once configured.
Resume ==
  /\ pc = "down"
  /\ st.pool
  /\ mode' \in {m \in Modes : mode.master => m.master}
  /\ pc' = "loop"
  /\ UNCHANGED <<st, plan, carried, answer, transitions, hand, history>>

Step ==
  \/ RecordPool \/ InitialRoute
  \/ DispatchStep \/ StepFails \/ Promote \/ ContractViolation \/ Verify
  \/ RouteByMachine \/ MasterRoutesCompletion \/ MasterSkipsPlanReview
  \/ MasterFinishesReview \/ MasterLeavesSupervision \/ MasterResolvesSupervision
  \/ SettleSupervision
  \/ TestGate \/ EvaluatePlan \/ EvaluateCode
  \/ MasterRecovers \/ MasterAborts \/ MasterAsksUser \/ EnsureGate \/ WaitForAnswer
  \/ ResumeFinalGate \/ RecordFinalDecision
  \/ UserSendsBack \/ UserApprovesDeletion \/ UserApprovesEscalations
  \/ ReturnEndState \/ BudgetSpent \/ Refuse

Next == Step \/ Answer \/ Stop \/ Resume

Spec == Init /\ [][Next]_vars

\* A running process takes its next step: every wait inside one has a timeout.
FairSpec == Spec /\ WF_vars(Step)

-----------------------------------------------------------------------------
\* Safety.

ReviewedStates == {"CODE_REVIEW", "CROSS_CONFIRM", "CONSENSUS_EVALUATE", "HUMAN_GATE"}

\* Code is reviewed, judged and offered for merge only when the test gate ran
\* after the last implementer step and did not fail - whatever a Master, an
\* approval or a restart did to the route in between.
ReviewSeesTestedSource ==
  st.state \in ReviewedStates => tested /\ st.test \in {"PASS", "NOT_RUN"}

\* Each of the ways to READY_FOR_MERGE (the final gate, and the three short cuts
\* of a Master) leaves no finding open and a tested source.
ReadyIsEarned ==
  st.state = "READY_FOR_MERGE" => ~st.open /\ tested /\ st.test \in {"PASS", "NOT_RUN"}

\* No plan that deletes or renames files is handed to the implementer before
\* the user has approved a deletion in this run.  (FIX is another matter: an
\* answer read twice after a crash in ResumeFinalGate can send such a plan there.)
NoUnapprovedDeletion ==
  st.state = "IMPLEMENT" /\ "destr" \in plan.risk => st.destructive

\* Escalations are pending only while their step or their block is; they never
\* reach a later block, where an approval would approve them unseen.
EscalationsStayWithTheirBlock ==
  st.pending # {} =>
    st.state \in {"USER_DECISION_REQUIRED", "FAILED"} \/ st.stage = "ARTIFACT_VERIFIED"

\* A verified step whose artifact escalates is decided once: without a Master it
\* blocks the run, also when the process that verified it is gone, unless the
\* loop's limits end the run.
EscalationsAreDecided ==
  [][st.stage = "ARTIFACT_VERIFIED" /\ st.pending # {} /\ st' # st
     => \/ st'.state \in {"USER_DECISION_REQUIRED", "FAILED"} /\ st'.pending = st.pending
        \/ mode.master /\ st'.stage = "TRANSITION_COMMITTED"]_vars

\* A block the Master left to the user is left by an answer of the user, or by
\* the loop's limits: the Master does not take it back after a restart.
UserOwnedBlockWaitsForUser ==
  [][userOwned /\ st.state = "USER_DECISION_REQUIRED" /\ st'.state # st.state
     => \/ st.gate # NoGate /\ answer # "NONE"
        \/ st'.state = "FAILED" /\ pc' = "down"]_vars

\* What the user sees of all this, in whatever commits a Master, a restart or a
\* crash cut it: end states come from the user's decision at the final gate, a
\* block is left as the user says, and nothing of an answer outlives its use but
\* the final one a crash leaves bound (_resume_gate, _ensure_gate).
Phase ==
  CASE st.state = "HUMAN_GATE"             -> "offered"
    [] st.state = "USER_DECISION_REQUIRED" -> "blocked"
    [] st.state = "READY_FOR_MERGE"        -> "ready"
    [] st.state = "FINISHED_PLAN"          -> "planned"
    [] st.state = "REJECTED"               -> "rejected"
    [] st.state = "FAILED"                 -> "failed"
    [] OTHER                               -> "working"

Promise == INSTANCE RunPromise WITH
  phase <- Phase, gate <- st.gate.kind, master <- mode.master, planning <- mode.planning

UserDecides == Promise!Spec

\* Without a Master the limits on rounds, test fixes and retries end a process
\* before max_transition_count has to.
OwnLimitsEndTheLoop == ~mode.master => transitions < MaxTransitions

\* Where a process goes next within one iteration of the loop.
Onward ==
  { <<"boot", "init">>, <<"init", "loop">>, <<"loop", "step">>, <<"step", "promoted">>,
    <<"promoted", "verified">>, <<"verified", "settle">>, <<"loop", "settle">>,
    <<"loop", "escalated">>, <<"loop", "recording">> }

\* Whatever a process does, it moves on within its iteration or is back at the
\* loop head with one more transition counted: no way through the loop escapes
\* max_transition_count, not the commits of a resumed routing, of a Master or of
\* an answered gate.
EveryIterationCounts ==
  [][pc # "down" /\ pc' # "down"
     => \/ <<pc, pc'>> \in Onward /\ transitions' = transitions
        \/ pc' = "loop" /\ transitions' = transitions + 1]_<<st, pc, transitions>>

\* Liveness.

\* Every process of the coordinator ends: at a gate, at an end state or on an
\* exception.
InvocationEnds == pc # "down" ~> pc = "down"

-----------------------------------------------------------------------------
\* What the documents say and the code does not do.

\* U-01 and 10.4 of phase1-system-design.md: the round limit ends in a user
\* decision.  The code blocks at the limit, but lets the user send the plan back
\* and then raises at the round that is not there, at every resume.
RoundsLeftToEvaluate == st.state = "PLAN_CONSENSUS_EVALUATE" => st.planRound < PlanLimit
=============================================================================
