------------------------------- MODULE Worktree -------------------------------
(***************************************************************************)
(* The worktree of a run: who changes it, and which changes the run takes  *)
(* over.  A worker step remembers the worktree as it finds it and compares *)
(* it with what the step leaves (guards.py); the test gate does the same   *)
(* for its commands (testrunner.py); a resumed process compares it with    *)
(* the committed snapshot (run_loop.py).  Between these comparisons agents *)
(* and test commands write whatever they like.                             *)
(*                                                                         *)
(* RunLoop says which edge of the state machine the run takes: here it is  *)
(* any, so far as no property is about it.  Git's HEAD and index, and line *)
(* endings, which the snapshot ignores, do not change.                     *)
(***************************************************************************)
EXTENDS LoopMachine

CONSTANTS
  Paths,      \* files
  Dirs,       \* directories, which a plan may delete
  Below,      \* Below[x]: the files a deletion of x stands for
  Contents,   \* what a file may contain ...
  Absent,     \* ... if it exists
  Base,       \* the worktree the run starts on
  Tracked,    \* files in Git's index
  Outputs,    \* files under the policy's allowed_output_paths
  Proposals,  \* affected_files of the plans a planner may write
  NoPath,     \* no rename_from
  NoPlan,     \* plan.json is not there yet
  NoTree      \* nothing remembered

Items == [op : {"add", "modify", "delete", "rename"}, path : Paths \cup Dirs,
          from : Paths \cup {NoPath}]
Trees == [Paths -> Contents \cup {Absent}]
Destructive(items) == {i \in items : i.op \in {"delete", "rename"}}

ASSUME WorktreeConstants ==
  /\ Below \in [Paths \cup Dirs -> SUBSET Paths]
  /\ \A p \in Paths : p \in Below[p]
  /\ Absent \notin Contents
  /\ Base \in Trees
  /\ Tracked \subseteq Paths /\ Outputs \subseteq Paths
  /\ Proposals \subseteq SUBSET Items
  /\ NoPlan \notin SUBSET Items
  /\ NoTree \notin Trees

VARIABLES
  tree,      \* the worktree
  snap,      \* the worktree whose snapshot_digest is committed
  state,     \* CoordinatorState.state
  blocked,   \* blocked_from_state
  plan,      \* plan.json: its affected_files
  approval,  \* destructive_approval: its approved_operations, {} for none
  gate,      \* gate_binding, with the deletions its report names
  pc,        \* the coordinator: down, between steps, in a step, at the tests
  before,    \* the worktree as the step or the tests found it
  agreed,    \* history: the operations a user was asked about and approved
  tested,    \* history: the worktree the tests ran on, until a plan or the source is due
  stray      \* history: files a reviewer changed since without coming to the guard

vars == <<tree, snap, state, blocked, plan, approval, gate, pc, before, agreed, tested, stray>>
committed == <<snap, state, blocked, approval, gate>>
history   == <<agreed, tested, stray>>

NoGate == [kind |-> "NONE", names |-> {}]

TypeOK ==
  /\ tree \in Trees /\ snap \in Trees
  /\ state \in LoopState /\ blocked \in LoopState \cup {"NONE"}
  /\ plan \in (SUBSET Items) \cup {NoPlan}
  /\ approval \subseteq Destructive(Items)
  /\ gate \in [kind : GateKinds \cup {"NONE"}, names : SUBSET Items]
  /\ pc \in {"down", "loop", "step", "testing"}
  /\ before \in Trees \cup {NoTree}
  /\ agreed \subseteq Items
  /\ tested \in Trees \cup {NoTree}
  /\ stray \subseteq Paths

Init ==
  /\ tree = Base /\ snap = Base
  /\ state = "INIT" /\ blocked = "NONE"
  /\ plan = NoPlan
  /\ approval = {} /\ agreed = {}
  /\ gate = NoGate
  /\ pc = "loop"
  /\ before = NoTree /\ tested = NoTree
  /\ stray = {}

-----------------------------------------------------------------------------
\* The guard of a worker step: guard_repository_delta.

\* _load_plan; without a plan, affected_files is empty.
Scope == IF plan = NoPlan THEN {} ELSE plan

Added    == {p \in Paths : before[p] = Absent /\ tree[p] # Absent}
Deleted  == {p \in Paths : before[p] # Absent /\ tree[p] = Absent}
Modified == {p \in Paths : before[p] # tree[p]} \ (Added \cup Deleted)

\* _planned_operation, _approval_allows: deleting a directory is deleting what
\* is below.
Names(items, op, p) ==
  \E i \in items : i.op = op /\ (i.path = p \/ (op = "delete" /\ p \in Below[i.path]))

\* Planned renames that took place; their two files are not looked at again.
Renames  == {i \in Scope : i.op = "rename" /\ i.from \in Deleted /\ i.path \in Added}

\* Mutant of Approved: an approval is for whatever the plan deletes.
ApprovedSometime(op, p) == approval # {}

Approved(op, p) == Names(approval, op, p)

DeltaAllowed ==
  /\ Renames \subseteq approval
  /\ \A p \in Modified : Names(Scope, "modify", p)
  /\ \A p \in Added \ {i.path : i \in Renames} : Names(Scope, "add", p)
  /\ \A p \in Deleted \ {i.from : i \in Renames} :
       Names(Scope, "delete", p) /\ Approved("delete", p)

\* Only an implementer may leave the worktree other than it was.
GuardOk == tree = before \/ (state \in ImplementerStates /\ DeltaAllowed)

-----------------------------------------------------------------------------
\* Where the run goes next.

\* transition(), whatever ledger and counters are.
Views   == [open : BOOLEAN, planRound : 0 .. PlanLimit, codeRound : 0 .. CodeLimit]
Tallies == [testFix : 0 .. TestFixLimit, opRetry : 0 .. RetryLimit]
Signals == {"ARTIFACT_OK", "UNRESOLVED_ZERO", "UNRESOLVED_REMAIN", "ESCALATE", "ABORT",
            "OPERATIONAL_RETRY"} \cup TestStatus \cup Decisions

Successors(s, sig) ==
  {t \in LoopState : \E v \in Views, c \in Tallies : Transition(s, sig, v, c, t)}

Edges == UNION {{<<s, sig, t>> : t \in Successors(s, sig)} : s \in LoopState, sig \in Signals}

\* commit_step_transition.
Transit(sigs) ==
  \E sig \in sigs, t \in LoopState :
    /\ <<state, sig, t>> \in Edges
    /\ state' = t
    /\ blocked' = IF t = "USER_DECISION_REQUIRED" THEN state ELSE blocked

\* A commit of run_loop.py past the state machine, which clears the blocked context.
Jump(targets) == state' \in targets /\ blocked' = "NONE"

Exit == pc' = "down"

\* A delete or rename that nobody has approved.
DeletionPending == Destructive(Scope) # {} /\ approval = {}

At(states) == pc = "loop" /\ state \in states

\* _commit_initial_route.
InitialRoute ==
  /\ At({"INIT"}) /\ Jump({"PLAN", "IMPLEMENT"})
  /\ UNCHANGED <<tree, snap, plan, approval, gate, pc, before, history>>

\* execute_evaluate(PLAN): it asks for an approval before the plan is implemented.
EvaluatePlan ==
  /\ At({"PLAN_CONSENSUS_EVALUATE"}) /\ plan # NoPlan
  /\ \/ ~DeletionPending /\ Transit({"UNRESOLVED_ZERO"})
     \/ ~DeletionPending /\ Jump({"FINISHED_PLAN"})
     \/ Transit({"UNRESOLVED_REMAIN", "ESCALATE"})
  /\ UNCHANGED <<tree, snap, plan, approval, gate, pc, before, history>>

\* execute_evaluate(CODE) and _route_final_decision.
EvaluateCode ==
  /\ At({"CONSENSUS_EVALUATE"})
  /\ \/ Transit({"UNRESOLVED_ZERO", "UNRESOLVED_REMAIN", "ESCALATE"})
     \/ Jump({"READY_FOR_MERGE"})
  /\ UNCHANGED <<tree, snap, plan, approval, gate, pc, before, history>>

\* The limits of _run_loop.
BudgetSpent ==
  /\ pc = "loop" /\ state' = "FAILED" /\ Exit
  /\ UNCHANGED <<tree, snap, blocked, plan, approval, gate, before, history>>

-----------------------------------------------------------------------------
\* A worker step: execute_worker_step.

\* _step_inputs: a code review is given the frozen diff of the plan's files,
\* which materialize_frozen_review refuses for a deletion nobody has approved.
FrozenReview == state \in {"CODE_REVIEW", "CROSS_CONFIRM"} => ~DeletionPending

\* A step that plans or implements outdates the tests.
Outdated ==
  IF state \in {"CODE_REVIEW", "CROSS_CONFIRM"} THEN UNCHANGED <<tested, stray>>
                                                ELSE tested' = NoTree /\ stray' = {}

\* The worktree is remembered as it is, not as it was committed.
StartStep ==
  /\ At(WorkerStates) /\ FrozenReview
  /\ before' = tree
  /\ pc' = "step"
  /\ Outdated
  /\ UNCHANGED <<tree, committed, plan, agreed>>

\* An agent writes, the read-only roles included: their mirror keeps them from
\* the worktree only as long as they use it.
Write ==
  /\ pc \in {"step", "testing"}
  /\ \E p \in Paths, c \in Contents \cup {Absent} : tree' = [tree EXCEPT ![p] = c]
  /\ UNCHANGED <<committed, plan, pc, before, history>>

\* promote_artifact replaces plan.json before anything is validated.
Promote ==
  IF state \in PlannerStates THEN plan' \in Proposals ELSE UNCHANGED plan

\* The targets of a Master that routes the verified step.
MasterTargets(items) ==
  SupervisionTargets(state, {})
  \cup (IF state \in PlannerStates /\ Destructive(items) = {} THEN {"IMPLEMENT"} ELSE {})
  \cup (IF state = "CODE_REVIEW" THEN {"READY_FOR_MERGE"} ELSE {})

\* The guard finds nothing: ARTIFACT_VERIFIED is committed with the snapshot of
\* the worktree as it is, and the step is routed.  Nothing is read from the worktree
\* in between.
Verify ==
  /\ pc = "step" /\ GuardOk
  /\ Promote
  /\ snap' = tree
  /\ \/ Transit({"ARTIFACT_OK", "ESCALATE"})
     \/ Jump(MasterTargets(plan'))
  /\ pc' = "loop" /\ before' = NoTree
  /\ UNCHANGED <<tree, approval, gate, history>>

\* The files a step has changed and no guard looked at.
Unguarded ==
  stray' = IF tested = NoTree THEN {} ELSE stray \cup {p \in Paths : tree[p] # before[p]}

\* CoordinatorGuardError ends the process with nothing committed.
GuardRefuses ==
  /\ pc = "step" /\ ~GuardOk
  /\ Promote
  /\ Exit /\ before' = NoTree
  /\ UNCHANGED <<tree, committed, history>>

\* A time-out, an escalation of the worker, or an artifact that breaks its
\* contract, before or after it is promoted: the step is over before its guard.
StepFails ==
  /\ pc = "step"
  /\ UNCHANGED plan \/ Promote
  /\ Transit({"ABORT", "ESCALATE", "OPERATIONAL_RETRY"})
  /\ Unguarded
  /\ pc' = "loop" /\ before' = NoTree
  /\ UNCHANGED <<tree, snap, approval, gate, agreed, tested>>

-----------------------------------------------------------------------------
\* The test gate: run_tests, execute_test_gate and _route_test_result.

StartTests ==
  /\ At({"TEST_GATE"}) /\ plan # NoPlan
  /\ before' = tree
  /\ tested' = tree /\ stray' = {}
  /\ pc' = "testing"
  /\ UNCHANGED <<tree, committed, plan, agreed>>

\* Mutant of SnapshotViolations: only the untracked files are compared.
UntrackedViolations == {p \in Paths \ Tracked : tree[p] # before[p] /\ p \notin Outputs}

\* _snapshot_violations: a tracked file has changed, or an untracked one that is
\* no allowed output.
SnapshotViolations == {p \in Paths : tree[p] # before[p] /\ (p \in Tracked \/ p \notin Outputs)}

\* The commands are refused before they run, or what they did is judged.
\* No snapshot is committed.
EndTests ==
  /\ pc = "testing"
  /\ \E status \in IF SnapshotViolations # {} THEN {"POLICY_VIOLATION"} ELSE TestStatus :
       \/ Transit({status})
       \/ status # "POLICY_VIOLATION" /\ Transit({"ESCALATE"})
       \/ status = "PASS" /\ ~(Destructive(Scope) # {}) /\ Jump({"READY_FOR_MERGE"})
  /\ pc' = "loop" /\ before' = NoTree
  /\ UNCHANGED <<tree, snap, plan, approval, gate, history>>

-----------------------------------------------------------------------------
\* Blocked runs.

\* _route_blocked_before_user_gate, in the process that blocked or a later one.
MasterRecovers ==
  /\ At({"USER_DECISION_REQUIRED"}) /\ gate = NoGate
  /\ Jump(RecoveryTargets(blocked) \cup {"FAILED"})
  /\ UNCHANGED <<tree, snap, plan, approval, gate, pc, before, history>>

\* _ensure_gate, after which the process ends.  Escalations, if any are pending,
\* come before the deletions of a plan.
EnsureGate ==
  /\ At({"HUMAN_GATE", "USER_DECISION_REQUIRED"}) /\ gate = NoGate
  /\ \E kind \in GateKinds :
       /\ (kind = "FINAL") <=> (state = "HUMAN_GATE")
       /\ kind = "DESTRUCTIVE" => blocked = "PLAN_CONSENSUS_EVALUATE" /\ DeletionPending
       /\ gate' = [kind |-> kind,
                   names |-> IF kind = "DESTRUCTIVE" THEN Destructive(Scope) ELSE {}]
  /\ Exit
  /\ UNCHANGED <<tree, snap, state, blocked, plan, approval, before, history>>

Answered(states, kinds) == At(states) /\ gate.kind \in kinds

\* The decision at the final gate takes two commits; a crash between them leaves
\* the gate bound.
FinalDecision ==
  /\ Answered({"HUMAN_GATE"}, {"FINAL"})
  /\ Transit(Decisions)
  /\ \/ gate' = NoGate /\ UNCHANGED pc
     \/ Exit /\ UNCHANGED gate
  /\ UNCHANGED <<tree, snap, plan, approval, before, history>>

\* The user rejects the run or sends it back; RunLoop has the exact options.
SendBack ==
  /\ Answered({"USER_DECISION_REQUIRED"}, GateKinds)
  /\ Jump({"REJECTED", "PLAN_REVISE"} \cup IF gate.kind = "DESTRUCTIVE" THEN {} ELSE {"FIX"})
  /\ gate' = NoGate
  /\ UNCHANGED <<tree, snap, plan, approval, pc, before, history>>

\* Mutant of ApprovedOperations: the whole plan is approved.
WholePlan == Scope

\* destructive_gate: the operations of the plan as it is now.
ApprovedOperations == Destructive(Scope)

ApproveDeletion ==
  /\ Answered({"USER_DECISION_REQUIRED"}, {"DESTRUCTIVE"})
  /\ approval' = IF ApprovedOperations = {} THEN approval ELSE ApprovedOperations
  /\ agreed' = agreed \cup gate.names
  /\ Jump({t \in LoopState : <<blocked, t>> \in ApprovedTarget})
  /\ gate' = NoGate
  /\ UNCHANGED <<tree, snap, plan, pc, before, tested, stray>>

\* Approved escalations of a deleting plan leave the run blocked for the deletion.
ApproveEscalation ==
  /\ Answered({"USER_DECISION_REQUIRED"}, {"ESCALATION"})
  /\ IF blocked = "PLAN_CONSENSUS_EVALUATE" /\ DeletionPending
     THEN UNCHANGED <<state, blocked>>
     ELSE Jump({t \in LoopState : <<blocked, t>> \in ApprovedTarget})
  /\ gate' = NoGate
  /\ UNCHANGED <<tree, snap, plan, approval, pc, before, history>>

-----------------------------------------------------------------------------
\* The end of a process, and the next one.

\* A crash, an exception, an end state, or an answer that is not there.
Stop ==
  /\ pc # "down"
  /\ Exit /\ before' = NoTree
  /\ UNCHANGED <<tree, committed, plan, history>>

\* Anybody may use the worktree while no process runs.
UserWrites ==
  /\ pc = "down"
  /\ \E p \in Paths, c \in Contents \cup {Absent} : tree' = [tree EXCEPT ![p] = c]
  /\ UNCHANGED <<committed, plan, pc, before, history>>

\* Mutant of Resumable: the worktree is taken as it is.
ResumeAnyTree == TRUE

\* _resume compares the digests of the worktree and of the committed snapshot.
Resumable == tree = snap

Resume ==
  /\ pc = "down" /\ Resumable
  /\ pc' = "loop"
  /\ UNCHANGED <<tree, committed, plan, before, history>>

Next ==
  \/ InitialRoute \/ EvaluatePlan \/ EvaluateCode \/ BudgetSpent
  \/ StartStep \/ Write \/ Verify \/ GuardRefuses \/ StepFails
  \/ StartTests \/ EndTests
  \/ MasterRecovers \/ EnsureGate \/ FinalDecision \/ SendBack \/ ApproveDeletion
  \/ ApproveEscalation
  \/ Stop \/ UserWrites \/ Resume

Spec == Init /\ [][Next]_vars

-----------------------------------------------------------------------------
\* Every change the run takes over is one its plan names, made by an implementer,
\* and every file it loses one whose deletion or renaming the user was asked about
\* and approved - over revised plans, which an old approval does not cover,
\* guards that refuse, crashes and whatever happened meanwhile.  What the step
\* found changed already it takes over unseen: see DeletionsAreAgreed.
CommittedChangesAreAllowed ==
  [][\A p \in Paths : snap'[p] # snap[p] /\ before[p] = snap[p] =>
       /\ state \in ImplementerStates
       /\ snap'[p] = Absent =>
            \/ Names(Scope, "delete", p) /\ Names(agreed, "delete", p)
            \/ \E i \in Scope \cap agreed : i.op = "rename" /\ i.from = p
       /\ snap'[p] # Absent /\ snap[p] # Absent => Names(Scope, "modify", p)
       /\ snap'[p] # Absent /\ snap[p] = Absent =>
            Names(Scope, "add", p) \/ Names(Scope \cap agreed, "rename", p)]_vars

\* The tests run on the source the last implementer step committed, whichever
\* routes, gates and restarts lie between the two.
TestsRunOnTheCommit == pc = "testing" => before = snap

ReviewStates == {"CODE_REVIEW", "CROSS_CONFIRM", "CONSENSUS_EVALUATE", "HUMAN_GATE"}

\* The source that is reviewed, judged and offered for merge is the one the tests
\* ran on, but for their allowed outputs and for what a reviewer that failed left.
ReviewedSourceIsTested ==
  state \in ReviewStates \cup {"READY_FOR_MERGE"} =>
    /\ tested # NoTree
    /\ \A p \in Paths : snap[p] = tested[p] \/ p \in stray \/ p \in Outputs \ Tracked

-----------------------------------------------------------------------------
\* What the documents say and the code does not do.

\* 8.2 and A-04 of phase1-system-design.md: a file that an implementer deletes
\* without an approval of the user ends or blocks the run.  A retried step is
\* compared with what the failed attempt left, so that the deletion is committed.
DeletionsAreAgreed ==
  [][\A p \in Paths : state \in ImplementerStates /\ snap[p] # Absent /\ snap'[p] = Absent =>
       Names(agreed, "delete", p) \/ \E i \in agreed : i.op = "rename" /\ i.from = p]_vars
=============================================================================
