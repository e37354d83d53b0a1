# A TLA+ development of orca_loop

orca_loop runs a development task as a conversation between two agents: Claude
plans and reviews code, Codex implements, reviews plans and confirms reviews.  A
Python coordinator owns the loop.  It dispatches one worker step at a time,
checks what the worker leaves behind, keeps a ledger of findings, runs a test
gate, counts rounds, asks a *Master* runtime or the user where it may not decide,
and commits its state to disk after everything it does, so that a run can be
killed at any point and resumed.

This directory models that coordinator in TLA+, checks the models with TLC on
small instances and proves their safety with TLAPS for every value of the
constants.  `PROJECT.json` is the index: every definition that models code with
the lines it stands for, every run, every hazard, every theorem.

## 1. The system

### Inventory

| component | source | state it keeps | operations | modelled in |
|---|---|---|---|---|
| loop state machine | `orca_loop/machine.py`, `models.py` | none (17 states, 15 signals, two counters passed through) | `transition` | `LoopMachine` |
| coordinator loop | `run_loop.py`, `orca_loop/coordinator.py` | `CoordinatorState`, `artifacts/plan.json`, its own memory | initialize, resume, worker step, test gate, evaluate, Master routing and supervision, blocked-run recovery, gates, limits | `RunLoop` |
| generation store | `orca_loop/generation.py` | `state.N.json`, `ledger.N.json`, `commit.json` | `commit_generation`, `load_committed`, `GenerationController.commit` | `GenerationStore` |
| run lock | `orca_loop/locking.py` | lock file and guard file of the worktree | `acquire_run_lock`, `release_run_lock` | `RunLock` |
| dispatcher | `orca_loop/dispatcher.py` | the worker pool, the current dispatch | `prepare_task`, `dispatch_and_wait` | `WorkerStep` |
| local runtime | `orca_loop/local_runtime.py` | `state.json`, message queue, archive, worker processes; gates, notifications, acknowledgements | terminal send, check, finish, orphan recovery; gate create, list, resolve | `WorkerStep`, `GateStore` |
| worker runner | `worker_runner.py` | its job, its agent process, the artifact | `run_job`, `main` | `WorkerStep` |
| consensus ledger | `orca_loop/ledger.py` | findings, decisions, rounds, approved keys | apply artifacts, `commit_round` | `Ledger` |
| human gates | `orca_loop/escalation.py` | the bound gate in `CoordinatorState` | create, wait, apply | `RunLoop` (kinds, options, routes), `GateStore` (creation to application) |
| guards, snapshots | `orca_loop/guards.py`, `snapshot.py` | none; they read the worktree | compare the worktree with what a step or a commit found | `Worktree` |
| transport | `orca_loop/transport.py` | artifact files | stage, promote | `RunLoop` (`Promote`) |
| test runner | `orca_loop/testrunner.py` | none | run commands, compare the worktree before and after | `Worktree`; its results in `RunLoop` |
| Master runtime | `orca_loop/master_runtime.py` | its session | ask | every answer `run_loop.py` accepts |
| configuration, contracts | `orca_loop/config.py`, `contracts.py` | none | parse, validate | constants; accept or refuse |
| web GPT driver | `tools/run_web_gpt_loop.py` | the answer it carries | launch, wait for the bridge, status, resolve | `GateStore`; its start-up is not modelled |
| roles, profiles, workspace, bootstrap | `orca_loop/roles.py`, ... | none of the protocol's | tables, prompts, files, start-up | not modelled |

### How they interact

One `main` process takes the run lock of the worktree, kills the workers an
earlier process left, loads the committed generation and enters `_run_loop`.  The
loop looks at the committed state only, performs the step of that state and
commits; everything it holds in between is lost when it dies.  A worker step
passes through the dispatcher to the local runtime, which starts a runner
process, which starts an agent; the answer comes back as a message file in a
queue.

The gate store has several writers.  The coordinator creates a gate, notifies a
browser bridge of it, commits that it is bound and ends; its launcher polls the
bridge and carries the browser's answer into the store; a user may answer the
same gate with a command; a later coordinator reads the store.  Each of them
reconciles the notifications of all gates on the way.  So has the worktree: the
implementer's agent, the reviewers', the test commands and, between processes,
the user.

### What is hard

* **Crashes between two effects.** A commit is three files; a step is a
  dispatch, an artifact, a verification and a transition, each with its commit;
  a final decision is two commits; a worker is started, then recorded; a message
  is archived, then acted on; a stale lock is removed, then replaced.
* **Many routes around the state machine.** The Master skips reviews, finishes
  runs, redirects escalations and recovers blocked runs; approvals jump to a
  state computed from the block; `planning_only` ends the run early.  Each bypasses
  `transition`, and what `transition` guarantees must be re-established by each.
* **State kept too long or too short.** Pending escalations, approvals, a bound
  gate, round counters and test status survive restarts and revisions of what
  they speak about.
* **Values read, then used.** A list of gates is read without a lock and acted on
  under one; the answer typed for one question is completed with the digest of
  the gate that is bound when it is stored.
* **A worktree nobody owns.** A step is compared with what it found, not with what
  was committed; a failed step leaves its edits behind; tests write what they test.
* **Late and foreign messages, silent workers.** A dispatch of a dead process may
  still answer; a worker may die without a word.
* **Termination.** Revision, fix, retry and recovery all loop back.

`hazards` in `PROJECT.json` lists each of these at the line where it bites, with
the properties that cover it or the reason why none does.

### What makes each part correct

* coordinator: nobody reviews or merges untested source; a merge has no open
  finding; a deleting plan is implemented only after a deletion was approved;
  escalations are decided once, by whom they belong to, and never leak into
  another block; every process ends.
* generation store and lock: one coordinator; each commit at once or not at all,
  and never lost.
* worker step: no completion but its own is taken up; nothing works on the
  worktree that no record accounts for; no half-done edits are inherited; every
  step ends.
* ledger: a finding is closed only when both sides approve it on the same source;
  stagnation is escalated on its second round.
* gates: an answer is final, given to a live gate only, shown to others only once
  it is stored, and applied in the end.
* worktree: what a step changed is committed only as planned, and deletions only
  as the user agreed; tests run on the committed source, and what is reviewed and
  merged is what they ran on.

## 2. The modules

    LoopMachine  <-- RunLoop   <-- MCRunLoop                          (TLC)
                          ^------- RunLoopProofs <-- RunLoopAuthorityProofs,
                                                     RunLoopLimitsProofs
    LoopMachine  <-- Worktree  <-- MCWorktree, WorktreeProofs
    LoopMachine  <-- Ledger    <-- MCLedger, LedgerProofs
    WorkerStep   <-- MCWorkerStep, WorkerStepProofs
    GateStore    <-- MCGateStore, GateStoreProofs
    RunLock      <-- GenerationStore <-- MCGenerationStore, GenerationStoreProofs

    LedgerPromise  what Ledger implements and RunLoop assumes of it
    CommitPromise  what GenerationStore implements and RunLoop assumes of it
    GatePromise    what GateStore implements and RunLoop assumes of it
    StepPromise    what WorkerStep implements and RunLoop assumes of it

    RunPromise     what RunLoop implements, as the user sees it

`RunLoop` is the centre.  It takes its four promises for granted - atomic commits
of one coordinator, a ledger that opens and closes findings in certain steps only,
a gate that is answered once, a worker step that is committed before it starts and
ends once - and the module below each promise shows that the files and processes of
the code keep it.  In turn it keeps a promise to the user.  `Worktree` follows the same edges of the
state machine as `RunLoop`, with the source in place of ledger and limits.

### LoopMachine

`Transition(s, sig, view, c, t)` holds when `transition()` takes state `s` to `t`
on signal `sig`; no `t` satisfies it where the code raises.  `CountersAfter` is
the counters of the result.  `ApprovedTarget`, `SupervisionTargets` and
`RecoveryTargets` are the routing tables of `run_loop.py` for approvals, for a
Master that supervises an escalation and for one that recovers a blocked run.

### RunLoop

`st` is the committed `CoordinatorState` with what the loop reads of the ledger,
`plan` is `plan.json`, `answer` the stored answer of the bound gate; these are on
disk.  `pc`, `mode`, `transitions` and `hand` are the process.  Each action is one
handler up to and including its commit, so a crash (`Stop`, from anywhere) falls
between commits, which is where `CommitPromise` says it falls.

| in the model | in the code |
|---|---|
| `CommitStepTransition` | `commit_step_transition`: state, stage, block, escalations, counters, history entry |
| `RecordPool`, `InitialRoute` | the rest of `_initialize` and `_commit_initial_route` |
| `DispatchStep`, `StepFails`, `Promote`, `ContractViolation`, `Verify` | `_execute_worker` and `execute_worker_step`, cut at each commit and at the promotion of the artifact, which comes before its validation |
| `RouteByMachine`, `Master...` | `_route_worker_completion`, also for a step found `ARTIFACT_VERIFIED` at a resume |
| `TestGate`, `EvaluatePlan`, `EvaluateCode` | `execute_test_gate`, `execute_evaluate` and what routes their results |
| `MasterRecovers`, `MasterAborts`, `MasterAsksUser` | `_route_blocked_before_user_gate` |
| `EnsureGate`, `WaitForAnswer`, `ResumeFinalGate`, `RecordFinalDecision`, `UserSendsBack`, `UserApproves...` | `_ensure_gate` and `_resume_gate` |
| `ReturnEndState`, `BudgetSpent`, `Refuse`, `Stop`, `Resume` | the ways out of `_run_loop` and back in |
| `Answer` | the user, through `resolve_gate` |

What the data is reduced to: a plan is the set of its risks (schema changes,
destructive operations, planner signals) and whether it was accepted; the ledger
is whether a finding is open, the two round counters and the approved
escalation codes; an artifact is accepted or refused.  Two history variables
(`tested`, `userOwned`) record what the properties compare with.

`RunPromise` is the run from outside: it works, offers its result or is blocked, asks
once about what it is, and what the user answers is what happens; a Master, and only
a Master, takes decisions of its own.  Under the mapping of `Promise`, `Phase` folds
the states of the machine into what the user can tell apart, `HUMAN_GATE` is an offer
and `USER_DECISION_REQUIRED` a block.  `Decide` and `Record` are the two commits of a
final decision, between which a crash can fall, and `Fail` is `BudgetSpent`, which
overwrites whatever state was reached.

### WorkerStep

Dispatches are numbered; each has a terminal, a runner and an agent.  The
coordinator's side is `prepare_task` and `dispatch_and_wait` cut at every effect
another actor or a crash can separate: the dispatch, its commit, `Popen`, the
process record, listing the queue, archiving one message, finishing the worker of
that message's terminal, returning.  The worker's side is `worker_runner.py`.
`TreeKill` is the platform: `taskkill /T` on Windows takes the agent along,
`killpg` elsewhere does not, because the runner gives its agent a session of its
own.  The properties about agents left behind are therefore stated under
`TreeKill`; without it a timed-out agent goes on editing, and the models do not
claim otherwise.  `writers` abstracts the comparison of worktree and committed
snapshot that `_resume` makes: it is the set of dispatches whose edits no
verified step covers.

`StepPromise` is the step as `RunLoop` sees it: numbered anew after every crash,
committed before its worker acts, answered by its own worker or not at all, ended once,
and followed by a process that finds verified work only.  `Stage` maps everything
between the committed dispatch and the accepted message to `dispatched`, so that
starting, recording, polling, archiving and killing are stutters; workers may act late,
but never for a step that was not committed.

### RunLock, GenerationStore, CommitPromise

A process is one incarnation (pid and start time together, which is what
`process_identity` compares), so a restart is another process with the same run
id.  `RunLock` follows the lock and guard files call by call; `GenerationStore`
adds the three files of a commit.  A file's content is the process that wrote
it: a process writes each number once, so this tells contents apart exactly as
the digests of the manifest do.  `CommitPromise` is the abstract specification -
one active process, commits that take effect at once on top of the last -
and `PromiseKept` states that the detailed one implements it under the mapping
`active` = the process past `acquire_run_lock`, `committed` = what `load_committed`
would return.  `RunLoop` is written on top of that promise.

Two things the lock does not promise and the model shows it does not: a crash
between creating the lock file and writing it leaves a lock (`Torn`) no process
ever removes; and a stale lock is removed before the new one is created, so a
crash there opens the worktree to another run.

### Ledger, LedgerPromise

`status`, `decisions` and `observed` are a `FindingRecord`: its status, its
decisions by side and round, and of its signature history the last round and the
highest rank, which is all `_material_progress` reads.  `Plan`, `Review` and
`Implement` are the three `apply_...` functions, each with the transition that
follows; `EvaluatePlan` and `EvaluateCode` are `commit_round` and the routing of
`execute_evaluate`.  Between them the run moves along the edges of `LoopMachine`
and the targets a user or Master may choose.  A side may give several decisions
in one round (the implementer's is appended to the list, a reviewer's replaces
it): the last one counts, except for `_conflicting_sides`, which reads all, so
the earlier kinds are kept too.  `Signal` stands for the escalations a worker
raises itself.

`newest`, `seen` and `phases` are history: what each side said last, what it had
said when a round last found the finding open, and whether that was in plan or
code rounds.  They are there because the code orders decisions by number and the
properties by time.  The two agree for a finding that is discussed in one phase
(`ResolvedWithinPhase`, `StagnationIsEscalated`), and not for others (finding
`masked_decision`).

`LedgerPromise` is the ledger as `RunLoop` sees it: reviews open and close
findings freely, plans only close them, an implementation does neither, a round
counts once, and only open findings make a code round escalate.  `PromiseKept`
is the refinement.

### GateStore, GatePromise

`gate`, `note` and `ack` are the three files of each gate in `local_runtime.py`,
`lock` is the file lock of a gate, `remote` the memory of the bridge; `phase` and
`bound` are what the committed run says.  A process is a launcher, which runs the
loop and then waits for its user, or one invocation of a command that shows or
answers a gate.  A crash is possible between any two file operations, and takes
the process's file locks with it.

| in the model | in the code |
|---|---|
| `CreateGate`, `Notify`, `Bind` | `_ensure_gate`: `create_gate`, its notification, the commit of the binding |
| `BeginList`, `TakeAndSync`, `AckStands`, `Publish`, `PublishFails`, `Acknowledge` | `_gate_list`, which reconciles each notification under the lock of its gate |
| `ListResolved`, `Apply`, `StillPending` | `_resume_gate` and `wait_gate_resolution` |
| `PollAnswer`, `StopWaiting` | `_wait_for_bridge_supervision` |
| `ReadQuestion`, `Reload`, `Check`, `Look`, `Resolve`, `SyncResolved`, `Refused` | a user at the command line; `resolve_supervision`, `supervision_status`; `resolve_gate` |
| `BrowserAnswers`, `BridgeForgets`, `Taken` | the bridge, external |

Every answer is an option of every gate here, and a block has one kind: options and
kinds are `RunLoop`'s, and so are the two commits of a final gate.  Gate and binding
carry the digest of one report, so their comparison in `_resume_gate` never fails
and is left out.  `meant` is history: the gate whose question a stored answer was
given to.

`GatePromise` says what `RunLoop` takes for granted in `EnsureGate`, `Answer` and
`ResumeFinalGate`: a block is asked about at most once at a time, a question gets one
answer, the answer decides once, and a Master decides only what nobody has been
asked.  Under the mapping of `Promise`, `Bind` is `Ask`, `Resolve` is `Answer`, `Apply`
is `Apply`, and everything else that concerns files is a stutter.

### Worktree

`tree` is the worktree file by file, `snap` the one whose digest is committed,
`before` the one a step or the test gate found when it began.  A step may end in
three ways: the guard (`GuardOk`, after `guard_repository_delta`: `Added`,
`Deleted`, `Modified`, `Renames`, `DeltaAllowed`) lets it pass and the worktree is
committed (`Verify`); the guard refuses and the process ends (`GuardRefuses`); or
the step is over before its guard (`StepFails`) and what it wrote stays.  The test
gate compares in the same way (`SnapshotViolations`) but commits no snapshot; a
resume compares with the commit (`Resumable`).  `FrozenReview` is the part of
`_step_inputs` that refuses a review of a deletion nobody approved.  Gates are here
for the deletions their reports name (`EnsureGate`, `ApproveDeletion`).

The run takes any edge of `transition()` that some ledger and some counters allow
(`Edges`), or a jump past it that `run_loop.py` makes; `RunLoop` says which.  The
agents and commands that write (`Write`) and the user (`UserWrites`) are external
and may write any file, roles that should only read included.  A gate status `NOT_RUN`
counts as tested, as it does in `RunLoop`.  `agreed` (operations a user was asked about
and approved), `tested` (the source the tests ran on) and `stray` (what failed
reviewers changed since) are history.  Git's HEAD and index, line endings, path
normalisation and the command policy are left out.

## 3. What TLC checks

| run | bounds | states | shows |
|---|---|---|---|
| `run_loop` | limits 1 plan, 2 code, 2 test fixes, 2 retries; a run that may gain a Master; `E-03`; a deleting plan; 2 transitions per process | 2.2 M | the safety properties of the coordinator, with a crash and a restart possible after every commit; refinement of `RunPromise` |
| `run_loop_ends` | every mode, limits 1 plan, 1 code, 2 test fixes, 1 retry, 14 transitions, fair | 0.34 M | `InvocationEnds`, and `OwnLimitsEndTheLoop`: without a Master the loop's own limits end a process before `max_transition_count` (with 13 transitions it fails; the bound that is proved is 17 for these limits), and `EveryIterationCounts`: no way through the loop escapes the count |
| `worker_step` | 3 dispatches on a reviewer's and an implementer's terminal, fair | 1.1 M | completions are own, work is accounted for, steps end; refinement of `StepPromise` |
| `generation_store` | 3 processes of one run, 1 of another, 3 generations | 0.19 M | one coordinator, loadable commits, refinement of `CommitPromise` |
| `ledger` | one finding, decisions `APPROVE` and `CHANGE_REQUIRED`, two worktree contents (symmetric), limits 1 plan, 2 code, workers in rounds 1 and 2 | 1.4 M | resolution, stagnation, refinement of `LedgerPromise` |
| `gate_store` | 2 gates, a launcher that may die once, a command whose user rejects, a browser that gives either answer, fair | 0.54 M | answers are final, live, stored before shown, applied in the end; refinement of `GatePromise` |
| `worktree` | a tracked file in a directory and a new file that is an allowed output, two contents, four plans (edit and add; delete the directory and add; delete the file; rename); limits 1, 1, 1 and 2 retries | 1.7 M | committed changes are planned and agreed, tests run on the commit, reviewed source was tested |
| five `violation` runs | small | | the findings below |

Why these bounds are enough for the cases to occur:

* two transitions per process look few, but a run consists of any number of
  processes, each resumed from what the last one committed, so every committed
  state and every sequence of steps is reached; what a larger bound adds is steps
  taken without a restart in between.  `run_loop_ends` has the long processes.
* the code's limits are 5 plan and 5 code rounds, 3 test fixes, 3 retries and 128
  transitions.  One or two of each reach both sides of every comparison.
  `MaxTestFailures` bounds a counter the code lets grow over revisions.
* three dispatches are the smallest number with a message of a dispatch that is
  neither the current nor the last one; two terminals, one that writes and one
  that does not, are all the code distinguishes.
* four processes allow a takeover of a takeover next to a competitor.
* findings meet only where one reopens another, so one finding reaches every
  decision of `ledger.py` but `E-06` (two findings, in one round each and on one
  content, hold as well, 0.3 M states).  Two rounds of one phase are what `E-05`
  compares; `MaxRound` bounds the rounds workers run in.  `VERIFY_REQUIRED` enters through
  the implementer.
* two gates are the smallest number with a stale answer, an orphan and a notification
  that is reconciled on behalf of another gate.  One process each of the two kinds
  that answer reach every race the gate's lock orders; the proofs are for any number.
  A crash of a command is unbounded (each runs once), `Crashes` bounds the launchers'.
* two files are what a rename needs; the first is tracked, the second not, the first
  can be deleted by its name and by its directory's; two contents tell modified from
  unmodified.  The four plans name every operation, and each is outdated by another.

Deadlock is not checked, but in `worktree`, where a process can always stop and
the user always write: elsewhere a run may stop for good, at an end state, in a
lock that refuses everybody, or before its pool is recorded.

**Fairness.**  `RunLoop` and `WorkerStep` assume weak fairness of the
coordinator's own steps (`WF_vars(Step)`, `WF_vars(Coordinate)`) and of nothing
else: not of the user, of workers, of crashes or of restarts.  The code justifies
it because every wait inside a step has a timeout (`dispatch_and_wait`, the test
commands, the Master's call), and everything else is computation.  `StepEnds`
holds only because of the deadline: a worker that dies silently is noticed by
nothing else.

`GateStore` assumes weak fairness of "some process takes a step or a launcher is
started" (`Fairness`), and nothing of the bridge or of those who answer.  Waits of the
launcher end because `timeout_seconds` is finite, requests to the bridge because
they have time-outs, and a launcher that ended is started again by its operator as long as the
run is not over, which is how `run_web_gpt_loop.py` is used; were it not, an answer
given at the command line would wait for ever.

### Findings

Each is a run that expects a violation, of a property that states what a document
of the repository says; `PROJECT.json` quotes the line.

| run | what happens |
|---|---|
| `plan_rounds` | the user sends a plan back after the last round; the revised plan reaches an evaluation with no round left, which raises at every resume |
| `masked_decision` | a finding approved by the planner in plan round 2 stays `RESOLVED` when the code reviewer requires a change in code round 1, because 1 < 2 |
| `foreign_message` | a message of an attempt from before a crash ends the worker of the attempt after it, which runs into its timeout |
| `stale_answer` | a decision typed for one question is stored as the answer to the next: the digest it is checked with is filled in from the gate that is bound when it is stored |
| `unapproved_deletion` | an implementer's attempt deletes a file and fails before its guard; the retry is compared with what that attempt left, and the deletion is committed unplanned and unapproved |

Other behaviours of this kind are in the models and listed as hazards without a
property, because no document forbids them in words: at the round limit a plan with
open findings and deletions is taken for a deletion gate, and approving the deletion
implements the plan; a crash between the two commits of a final decision leaves its
gate bound, and the answer is applied to whatever block comes next.  `RunPromise` says
how far the latter goes: the old answer can only decide a later offer or block of the
same run, until it has been recorded or has ended a block; it decides nothing else.

## 4. What is proved

The proofs hold for every value of the constants, under the named assumptions of
the modules only (limits positive, and at most `MaxRound` in `Ledger`; `Modes` not
empty; `Writers` among the terminals; `run` a function, the two file markers no
processes; no gate, process or answer that is also the marker for none, and launchers
other than users, in `GateStore`; in `Worktree`, every file below itself, `Base` a worktree and
no marker that is also a plan or a worktree).  TLC evaluates
those assumptions in every run.  One theorem has a hypothesis of its own,
`OwnLimitsSuffice`: that `MaxTransitions` exceeds `ProcessBound`; `ShippedLimitsSuffice`
discharges it for the limits the repository ships.

Each proof module states an inductive invariant `IInv`, proves `Init => IInv` and
`IInv /\ [Next]_vars => IInv'` with one step per action, and derives its theorems.

* **RunLoopProofs** - `TypeCorrect`, `ReviewsSeeTestedSource`, `MergeIsEarned`,
  `EscalationsDoNotLeak`, `VerifiedEscalationsAreDecided`.  None of these is inductive: an approval
  leads to a state computed from `blocked`, so the invariant must say which
  blocks can exist and what held when they arose (`BlockPlace`, `ReviewPlace`,
  `AgreedPlace`), where each `pc` can be (`ProcessPlace`) and what the transition count
  is (`Budget`).  The argument for a transition is made once, in
  `StepTransition` and `StepPlaces`, from facts about `Transition`
  (`TransitionFacts`), and cited by every action that commits one.
* **RunLoopAuthorityProofs** - `NoUnapprovedDeletion` and `UserOwnedBlockWaitsForUser`,
  on top of `RunLoopProofs`.  `DeletionInv` adds that a run without a plan has no risks
  to approve; `OwnedInv` that the last commit of a block left to the user says so until
  a gate is bound.  Both are shown route by route, like the rest.  `ImplementsPromise` is
  the refinement of `RunPromise`.  It needs `GateInv`: outside a block only the final gate stays
  bound, until its decision is recorded, and a process about to ask has none.  So, without a
  Master, a run is ready for merge only by the answer `merge` to a final gate.
* **RunLoopLimitsProofs** - `OwnLimitsSuffice`: without a Master the loop's own limits
  end a process before `max_transition_count` has to, if that is larger than

      ProcessBound = 3 PlanLimit + (2 TestFixLimit + 3) (CodeLimit + 1) + RetryLimit - 1

  `ShippedLimitsSuffice` puts in 5 plan rounds, 5 code rounds, 3 test fixes and 3 retries:
  the bound is 71, the shipped `max_transition_count` 128.  The argument is a potential.
  `Work(st)` is what the plan rounds, code rounds and retries left can still bring, plus
  the distance to the end of the round at work with the fixes it can still have; `GateWork`
  is the round an answer can send the run back to.  Every iteration costs at least one
  (`WorkLeft`), and what a process finds on disk is never worth more than the bound, because a
  final gate comes after a code round (`GateRound`).
  `IterationsAreCounted` proves `EveryIterationCounts`, Master or not, and
  `ProcessesTakeFinitelyManySteps` adds a clock of iterations and places within one, which
  advances with every step of a process and has a bound: the safety half of `InvocationEnds`.
* **LedgerProofs** - `TypeCorrect`, `ResolvedInPhase`, `ResolvedOnThisSource`,
  `StagnationEscalates` and `ImplementsPromise`, the refinement of `LedgerPromise`.  The code
  orders decisions by round, the properties by time, so the invariant says where the
  two agree: in one phase no decision is later than the round at work (`RoundsInOrder`), so that
  the one with the highest round is the newest (`LatestIsNewest`); only the implementer
  decides twice in a round, and then to be verified (`OneDecisionARound`); a review of
  its phase comes before each evaluation (`ReviewedBeforeRound`), and what the evaluation
  observed stays so (`ObservedInPhase`).  That the status follows from the
  decisions at once (`ResolvedAtOnce`) gives `ResolvedOnThisSource`.
* **GateStoreProofs** - all five invariants of the run, `AnswersAreFinal`, and
  `ImplementsPromise`, the refinement of `GatePromise`, for any number of launchers, users
  and crashes.  The strengthening: only the owner of the run lock creates, binds and
  applies (`OwnerPlace`, `CreationPlace`, `ResumePlace`); a lock is held exactly by who is inside it, for
  one gate (`LocksInOrder`); notifications follow gates and acknowledgements follow
  notifications (`FilesInOrder`); and between publishing and acknowledging the bridge
  shows what will be acknowledged, if it remembers anything (`PublishedBeforeAck`).  `AnswersFitAlone` is the other side of
  `stale_answer`: with a single launcher and nobody at the command line
  (`Alone`) every answer is to its question.
* **WorktreeProofs** - `TypeCorrect`, `TestsAreOfTheCommit`, `ReviewsAreOfTestedSource`,
  `CommitsAreAllowed`.  The invariant: what is remembered while a step or the tests are under way
  (`Remembered`), which gate belongs to which block (`GateOfBlock`), a clean worktree
  wherever the loop is about to test (`CleanAtTests`), no approval the user was not
  asked about (`ApprovalsAreAgreed`), and the tested source on every way through
  review (`Reviewed`).  Routes are treated once, in `RouteStep`, from facts on the edges of
  `transition()` (`EdgeFacts`).
* **WorkerStepProofs** - `TypeCorrect`, `CompletionsAreOwn`, `WorkersAreCommitted`,
  `StraysAreLost`, `PartialWorkIsRefused`.  The strengthening says that a runner
  speaks once and last (`MessagesAreFinal`), and that a runner at work is the
  current one in the coordinator's hands or one in the records of a dead process
  (`RunnersAreKnown`), from which agents follow (`AgentsHaveRunners`).  `ImplementsPromise` is
  the refinement of `StepPromise`; it adds that an agent's runner was started
  (`AgentsStarted`), so that what edits and delivers does so for a committed dispatch.
* **GenerationStoreProofs** - `TypeCorrect`, `MutualExclusion`, `CommitsAreLoadable`,
  `MemoryFollowsManifest`, and `PromiseIsKept`, the refinement of `CommitPromise`.  Mutual
  exclusion rests on the lock naming its owner (`OwnerHoldsLock`) and on a torn
  lock existing whenever somebody creates one (`CreatorLeavesTorn`); loadability on
  files of a generation being written before the manifest names it
  (`FilesAreWritten`).  Taking the lock maps to `Begin`, leaving it to `End`, writing the
  manifest to `Commit`, and every other step to a stutter.

Only model-checked: the liveness properties (`InvocationEnds`, `StepEnds`,
`StoredAnswerIsApplied`), since liveness under fairness and `ENABLED` are out of the
prover's reach.  Every other property of the passing runs is a theorem.

## 5. What is left out

* The content of findings: an ID never changes it (`ledger.py` refuses), so
  signatures are constant and progress by a changed signature cannot occur.
* A gate's `timed_out` status, which no local runtime sets, and a `decision_gate`
  message, which no local runner sends.
* `RunLoop` itself has no worktree: it resumes more often than the code, which
  compares snapshots and configuration digests.  `Worktree` and `WorkerStep` have the
  comparison of snapshots; the others only refuse more.
* Guidance files, reports, prompts, formatting, validation of documents: no
  property is about them.  The wording of a document decides nothing here but
  accepted or refused.
* What agents, test commands and the Master's provider do inside.

### Not modelled

* Roles, profiles, workspace and bootstrap: tables, prompts, directories and
  terminals set up before the first commit.  They keep no state that a later step reads.
* Parsing in `config.py`, `models.py` and `contracts.py`: total functions of one
  document, without an order of events to go wrong.  Here their result is a constant,
  or accepted or refused, which covers both ways out.
* The scripts of the web GPT provider and the bridge's HTTP server: outside processes,
  of which only the effect on the bridge's memory is here, as external actions.
* Staging and manifests of artifacts, and `guard_step_sandbox`: digests of files this
  process has just written, which differ only if something outside interferes.

## 6. What could follow

1. `RunLoop` and `Worktree` in one module, so that `Worktree`'s routes are those of a
   ledger and limits; the states multiply, and the properties of `Worktree` hold
   without it.
2. The bound of `OwnLimitsSuffice` counts fixes, retries and rounds as if one process
   could use all of each; a tighter one would say how they share the transitions.
3. The same bound for a run with a Master, whose routes are limited by
   `max_transition_count` only.
4. Two findings over two rounds in `Ledger`, for `E-06`.
5. Properties for the states from which no process goes on (`InvalidAnswer`,
   `NoPlanToTest`), once a document says what should happen there.
