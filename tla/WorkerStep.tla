------------------------------ MODULE WorkerStep ------------------------------
(***************************************************************************)
(* One worker step after the other, on the local runtime:                  *)
(* dispatch_and_wait of dispatcher.py, the processes, records and messages *)
(* of local_runtime.py, and worker_runner.py at the other end.  RunLoop    *)
(* sees each of these steps as one dispatch with an outcome.               *)
(*                                                                         *)
(* Dispatches are numbered.  Each starts a runner process, which starts an *)
(* agent, writes the artifact and leaves a message file in the queue.  The *)
(* coordinator may die at any point; runners and agents live on, and the   *)
(* next process of the coordinator finds state.json, the queue and the     *)
(* worktree as they are.                                                   *)
(***************************************************************************)
EXTENDS Naturals, FiniteSets

CONSTANTS
  MaxDispatches,  \* bound on the dispatches of the run
  Terminals,      \* the logical terminals, one per worker key
  Writers,        \* those whose worker may edit the worktree: the implementer's
  TreeKill        \* killing a runner kills its agent too: os.name == "nt"

ASSUME WorkerStepConstants ==
  /\ MaxDispatches \in Nat \ {0}
  /\ Writers \subseteq Terminals
  /\ TreeKill \in BOOLEAN

Dispatches == 1 .. MaxDispatches
None == 0
Process == {"none", "running", "dead"}
Messages == Dispatches \X {"worker_done", "escalation"}

VARIABLES
  to,        \* the terminal each dispatch goes to: worker_for_role
  pc,        \* where the coordinator process is
  cur,       \* the dispatch it works on
  batch,     \* message files _check found and has still to deal with
  inbox,     \* messages _check returns
  owned,     \* _worker_processes: the runner it started on each terminal
  dirty,     \* the worktree changed since before_snapshot of the step
  last,      \* dispatches in state.json
  committed, \* the last dispatch committed as STEP_DISPATCHED
  recorded,  \* worker_processes of state.json
  queue,     \* message files
  runner,    \* worker_runner processes
  agent,     \* their agents
  output,    \* dispatches whose artifact is written
  writers,   \* dispatches that edited the worktree since its committed snapshot
  lost,      \* history: dispatches whose processes no record leads to
  session    \* history: dispatches of this coordinator process

vars == <<to, pc, cur, batch, inbox, owned, dirty, last, committed, recorded, queue,
          runner, agent, output, writers, lost, session>>
memory  == <<cur, batch, inbox, owned, dirty, session>>
check   == <<batch, inbox>>
disk    == <<last, committed, recorded, queue>>
workers == <<runner, agent, output, writers>>

TypeOK ==
  /\ to \in [Dispatches -> Terminals]
  /\ pc \in {"down", "recovering", "idle", "created", "committed", "started",
             "waiting", "checking", "finishing", "received", "ended"}
  /\ cur \in Dispatches \cup {None}
  /\ pc \notin {"down", "recovering", "idle", "ended"} => cur # None
  /\ batch \subseteq Messages
  /\ inbox \subseteq Messages
  /\ pc = "finishing" => \E m \in Messages : batch \cap inbox = {m}
  /\ owned \in [Terminals -> Dispatches \cup {None}]
  /\ dirty \in BOOLEAN
  /\ last \in 0 .. MaxDispatches
  /\ committed \in Dispatches \cup {None}
  /\ recorded \in [Terminals -> Dispatches \cup {None}]
  /\ queue \subseteq Messages
  /\ runner \in [Dispatches -> Process]
  /\ agent \in [Dispatches -> Process]
  /\ output \subseteq Dispatches
  /\ writers \subseteq Dispatches
  /\ lost \subseteq Dispatches
  /\ session \subseteq Dispatches

Init ==
  /\ to \in [Dispatches -> Terminals]
  /\ pc = "idle"
  /\ cur = None
  /\ batch = {} /\ inbox = {}
  /\ owned = [t \in Terminals |-> None]
  /\ dirty = FALSE
  /\ last = 0
  /\ committed = None
  /\ recorded = [t \in Terminals |-> None]
  /\ queue = {}
  /\ runner = [d \in Dispatches |-> "none"]
  /\ agent = [d \in Dispatches |-> "none"]
  /\ output = {} /\ writers = {}
  /\ lost = {} /\ session = {}

Running(d) == d # None /\ runner[d] = "running"
Own(m) == m[1] = cur
-----------------------------------------------------------------------------
\* Killing and forgetting workers.

\* Mutant of Killed: taskkill without /T.
RunnersKilled(D) ==
  /\ runner' = [d \in Dispatches |-> IF d \in D /\ Running(d) THEN "dead" ELSE runner[d]]
  /\ UNCHANGED agent

\* _terminate_process_tree and _terminate_pid_tree: taskkill /T takes the agent
\* along; killpg does not, the agent has a session of its own.  A runner that
\* is dead already is only waited for.
Killed(D) ==
  /\ runner' = [d \in Dispatches |-> IF d \in D /\ Running(d) THEN "dead" ELSE runner[d]]
  /\ agent' = [d \in Dispatches |->
                 IF TreeKill /\ d \in D /\ Running(d) /\ agent[d] = "running"
                 THEN "dead" ELSE agent[d]]

\* finish_worker_process: nothing happens unless this process owns a worker of
\* the terminal; that one is dead afterwards, by itself within the grace
\* period or killed, and its record is removed.
FinishWorker(t) ==
  /\ Killed({owned[t]})
  /\ owned' = [owned EXCEPT ![t] = None]
  /\ recorded' = IF owned[t] = None THEN recorded ELSE [recorded EXCEPT ![t] = None]

\* The memory of the coordinator is gone.
Forget ==
  /\ pc' = "down"
  /\ cur' = None
  /\ batch' = {} /\ inbox' = {}
  /\ owned' = [t \in Terminals |-> None]
  /\ dirty' = FALSE
  /\ session' = {}

-----------------------------------------------------------------------------
\* The coordinator: execute_worker_step, prepare_task and dispatch_and_wait.

\* Mutant of Dispatch: a step that was not committed gets its number again.
DispatchNumberAgain ==
  /\ pc = "idle"
  /\ committed < MaxDispatches
  /\ last' = committed + 1
  /\ cur' = committed + 1
  /\ session' = session \cup {committed + 1}
  /\ dirty' = FALSE
  /\ pc' = "created"
  /\ UNCHANGED <<to, check, owned, committed, recorded, queue, workers, lost>>

\* The snapshot before the step, prepare_task, and the dispatch of state.json.
Dispatch ==
  /\ pc = "idle"
  /\ last < MaxDispatches
  /\ last' = last + 1
  /\ cur' = last + 1
  /\ session' = session \cup {last + 1}
  /\ dirty' = FALSE
  /\ pc' = "created"
  /\ UNCHANGED <<to, check, owned, committed, recorded, queue, workers, lost>>

\* commit_dispatched.
CommitDispatched ==
  /\ pc = "created"
  /\ committed' = cur
  /\ pc' = "committed"
  /\ UNCHANGED <<to, memory, last, recorded, queue, workers, lost>>

\* Mutant of Launch: the worker is started before the dispatch is committed.
LaunchUncommitted ==
  /\ pc \in {"created", "committed"}
  /\ runner' = [runner EXCEPT ![cur] = "running"]
  /\ owned' = [owned EXCEPT ![to[cur]] = cur]
  /\ pc' = "started"
  /\ UNCHANGED <<to, cur, check, dirty, session, disk, agent, output, writers, lost>>

\* terminal send, up to Popen.  A worker that lives on the terminal is refused.
Launch ==
  /\ pc = "committed"
  /\ ~Running(owned[to[cur]])
  /\ runner' = [runner EXCEPT ![cur] = "running"]
  /\ owned' = [owned EXCEPT ![to[cur]] = cur]
  /\ recorded' = IF owned[to[cur]] = None THEN recorded ELSE [recorded EXCEPT ![to[cur]] = None]
  /\ pc' = "started"
  /\ UNCHANGED <<to, cur, check, dirty, session, last, committed, queue, agent, output,
                 writers, lost>>

\* The rest of terminal send: the process is recorded in state.json.
RecordWorker ==
  /\ pc = "started"
  /\ recorded' = [recorded EXCEPT ![to[cur]] = cur]
  /\ pc' = "waiting"
  /\ UNCHANGED <<to, memory, last, committed, queue, workers, lost>>

\* terminal send or orchestration check raises: the worker is terminated and
\* the exception ends the process.
CallFails ==
  /\ pc \in {"committed", "started", "waiting"}
  /\ Killed({owned[to[cur]]})
  /\ recorded' = IF owned[to[cur]] = None THEN recorded ELSE [recorded EXCEPT ![to[cur]] = None]
  /\ Forget
  /\ UNCHANGED <<to, last, committed, queue, output, writers, lost>>

\* _check lists the message files,
Check ==
  /\ pc = "waiting"
  /\ queue # {}
  /\ batch' = queue
  /\ pc' = "checking"
  /\ UNCHANGED <<to, cur, inbox, owned, dirty, session, disk, workers, lost>>

\* Mutant of Archive: all are moved before the first is dealt with.
ArchiveAll ==
  /\ pc = "checking"
  /\ batch # {}
  /\ queue' = queue \ batch
  /\ inbox' = inbox \cup batch
  /\ pc' = "finishing"
  /\ UNCHANGED <<to, cur, batch, owned, dirty, session, last, committed, recorded,
                 workers, lost>>

\* moves one after the other to the archive,
Archive ==
  /\ pc = "checking"
  /\ \E m \in batch :
       /\ queue' = queue \ {m}
       /\ inbox' = inbox \cup {m}
  /\ pc' = "finishing"
  /\ UNCHANGED <<to, cur, batch, owned, dirty, session, last, committed, recorded,
                 workers, lost>>

\* each time with _finish_message_worker for the terminal it comes from,
\* whichever dispatch the worker of that terminal serves by now,
FinishMessageWorker ==
  /\ pc = "finishing"
  /\ \E m \in batch \cap inbox :
       /\ FinishWorker(to[m[1]])
       /\ batch' = batch \ {m}
  /\ pc' = "checking"
  /\ UNCHANGED <<to, cur, inbox, dirty, session, last, committed, queue, output,
                 writers, lost>>

\* Mutant of Return: a worker_done is taken for the step's own.
ReturnAny ==
  /\ pc = "checking" /\ batch = {}
  /\ pc' = IF \E m \in inbox : m[2] = "worker_done" THEN "received"
           ELSE IF \E m \in inbox : Own(m) THEN "idle" ELSE "waiting"
  /\ cur' = IF pc' = "idle" THEN None ELSE cur
  /\ inbox' = {}
  /\ UNCHANGED <<to, batch, owned, dirty, session, disk, workers, lost>>

\* and returns them to dispatch_and_wait, which passes over the messages of
\* other dispatches.  Its own worker_done is received; with an escalation the
\* step is over, and the loop blocks before it dispatches again.
Return ==
  /\ pc = "checking" /\ batch = {}
  /\ pc' = IF \E m \in inbox : Own(m) /\ m[2] = "worker_done" THEN "received"
           ELSE IF \E m \in inbox : Own(m) THEN "idle" ELSE "waiting"
  /\ cur' = IF pc' = "idle" THEN None ELSE cur
  /\ inbox' = {}
  /\ UNCHANGED <<to, batch, owned, dirty, session, disk, workers, lost>>

\* Mutant of Timeout: the deadline is only looked at while the worker lives.
TimeoutOfLivingWorker ==
  /\ pc = "waiting" /\ Running(cur)
  /\ FinishWorker(to[cur])
  /\ pc' = "ended" /\ cur' = None
  /\ UNCHANGED <<to, check, dirty, session, last, committed, queue, output, writers, lost>>

\* The deadline passes: the worker is terminated, and STEP_TIMEOUT becomes
\* ABORT, which ends the run.  A worker that died is not noticed before.
Timeout ==
  /\ pc = "waiting"
  /\ FinishWorker(to[cur])
  /\ pc' = "ended" /\ cur' = None
  /\ UNCHANGED <<to, check, dirty, session, last, committed, queue, output, writers, lost>>

\* The artifact is accepted and the guard of the step finds nothing: the
\* snapshot after the step is committed with ARTIFACT_VERIFIED.
VerifyStep ==
  /\ pc = "received"
  /\ cur \in output
  /\ dirty => to[cur] \in Writers
  /\ writers' = {}
  /\ pc' = "idle" /\ cur' = None
  /\ UNCHANGED <<to, check, owned, dirty, session, disk, runner, agent, output, lost>>

\* The artifact breaks its contract: the loop retries, or blocks and goes on later.
ContractViolated ==
  /\ pc = "received"
  /\ pc' = "idle" /\ cur' = None
  /\ UNCHANGED <<to, check, owned, dirty, session, disk, workers, lost>>

-----------------------------------------------------------------------------
\* Crashes, interrupts and restarts.

\* The process ends, by a crash, an interrupt, a guard or an open gate.  A
\* worker started and not yet recorded is lost.
Stop ==
  /\ pc \notin {"down", "ended"}
  /\ lost' = IF pc = "started" THEN lost \cup {cur} ELSE lost
  /\ Forget
  /\ UNCHANGED <<to, disk, workers>>

\* main takes the lock; recover_orphan_worker_processes kills what state.json
\* records and is still the same process.
Recover ==
  /\ pc = "down"
  /\ Killed({recorded[t] : t \in Terminals})
  /\ recorded' = [t \in Terminals |-> None]
  /\ pc' = "recovering"
  /\ UNCHANGED <<to, memory, last, committed, queue, output, writers, lost>>

\* Mutant of Resume: the worktree is not compared with its committed snapshot.
ResumeAnyWorktree ==
  /\ pc = "recovering"
  /\ pc' = "idle"
  /\ UNCHANGED <<to, memory, disk, workers, lost>>

\* _resume refuses a worktree that is not the committed snapshot; nothing
\* looks at the queue or at the step that was under way.
Resume ==
  /\ pc = "recovering"
  /\ pc' = IF writers = {} THEN "idle" ELSE "down"
  /\ UNCHANGED <<to, memory, disk, workers, lost>>

-----------------------------------------------------------------------------
\* The worker: worker_runner.py and its agent.

StartAgent(d) ==
  /\ Running(d)
  /\ agent[d] = "none"
  /\ agent' = [agent EXCEPT ![d] = "running"]
  /\ UNCHANGED <<to, pc, memory, disk, runner, output, writers, lost>>

AgentEdits(d) ==
  /\ agent[d] = "running"
  /\ to[d] \in Writers
  /\ writers' = writers \cup {d}
  /\ dirty' = (cur # None)
  /\ UNCHANGED <<to, pc, cur, check, owned, session, disk, runner, agent, output, lost>>

AgentExits(d) ==
  /\ agent[d] = "running"
  /\ agent' = [agent EXCEPT ![d] = "dead"]
  /\ UNCHANGED <<to, pc, memory, disk, runner, output, writers, lost>>

WriteArtifact(d) ==
  /\ Running(d)
  /\ agent[d] = "dead"
  /\ d \notin output
  /\ output' = output \cup {d}
  /\ UNCHANGED <<to, pc, memory, disk, runner, agent, writers, lost>>

\* _send, after which the runner exits.
SendDone(d) ==
  /\ Running(d)
  /\ d \in output
  /\ queue' = queue \cup {<<d, "worker_done">>}
  /\ runner' = [runner EXCEPT ![d] = "dead"]
  /\ UNCHANGED <<to, pc, memory, last, committed, recorded, agent, output, writers, lost>>

\* A WorkerRunnerError: the agent timed out and is killed, it failed, or its
\* answer has no artifact; or the runner found the job invalid.
SendEscalation(d) ==
  /\ Running(d)
  /\ d \notin output
  /\ queue' = queue \cup {<<d, "escalation">>}
  /\ runner' = [runner EXCEPT ![d] = "dead"]
  /\ agent' = IF agent[d] = "running" THEN [agent EXCEPT ![d] = "dead"] ELSE agent
  /\ UNCHANGED <<to, pc, memory, last, committed, recorded, output, writers, lost>>

\* The runner dies by itself, without a message; an agent lives on.
RunnerDies(d) ==
  /\ Running(d)
  /\ runner' = [runner EXCEPT ![d] = "dead"]
  /\ lost' = IF agent[d] = "running" THEN lost \cup {d} ELSE lost
  /\ UNCHANGED <<to, pc, memory, disk, agent, output, writers>>

-----------------------------------------------------------------------------
Coordinate ==
  \/ Dispatch \/ CommitDispatched \/ Launch \/ RecordWorker
  \/ Check \/ Archive \/ FinishMessageWorker \/ Return \/ Timeout
  \/ VerifyStep \/ ContractViolated

Interrupt == CallFails \/ Stop \/ Recover \/ Resume

Work(d) ==
  \/ StartAgent(d) \/ AgentEdits(d) \/ AgentExits(d)
  \/ WriteArtifact(d) \/ SendDone(d) \/ SendEscalation(d) \/ RunnerDies(d)

Next == Coordinate \/ Interrupt \/ \E d \in Dispatches : Work(d)

Spec == Init /\ [][Next]_vars

\* Only the coordinator's own steps are fair: each is a bounded computation or
\* a wait with a timeout.  Workers may hang, and nobody need start a process.
FairSpec == Spec /\ WF_vars(Coordinate)

-----------------------------------------------------------------------------
\* A completion the coordinator takes up is that of the step it waits for,
\* whose worker has written the artifact: messages of earlier attempts, which
\* stay in the queue across crashes, never count (dispatch_and_wait).
CompletionIsOwn == pc = "received" => cur \in output

\* No worker runs that the committed state does not know of: whatever a crash
\* leaves, STEP_DISPATCHED was committed before the worker started.
StartedAfterCommit == \A d \in Dispatches : runner[d] # "none" => d <= committed

\* Where killing reaches the whole tree, an agent that works while it is not
\* the current step's was lost: its runner died by itself, or the coordinator
\* died between starting it and recording it.  In particular a timeout, a
\* failed call and a restart leave no agent at work.
StrayAgentsAreLost ==
  TreeKill /\ pc # "down" =>
    \A d \in Dispatches : agent[d] = "running" =>
      d = cur \/ d \in lost

\* A process never goes on with edits an earlier process left unfinished,
\* except those of a lost agent, which come after _resume has looked.
PartialWorkIsNotInherited ==
  TreeKill /\ pc \notin {"down", "recovering"} => writers \subseteq session \cup lost

\* All of this together looks to the loop like one step with one outcome: what
\* RunLoop makes of a step in its own actions is what the dispatcher, the queue
\* and the processes do, in every interleaving and across every crash.
Stage ==
  CASE pc \in {"down", "recovering"} -> "down"
    [] pc = "created"  -> "prepared"
    [] pc = "received" -> "answered"
    [] pc \in {"idle", "ended"} -> pc
    [] OTHER -> "dispatched"

Promise == INSTANCE StepPromise WITH
  step <- cur, stage <- Stage, artifacts <- output, edits <- writers

PromiseKept == Promise!Spec

\* Every step ends, although nobody watches the worker process: the deadline
\* of dispatch_and_wait is what ends a step whose worker died silently.
StepEnds == pc = "created" ~> pc \in {"idle", "ended", "down"}

\* Messages of other dispatches are ignored: handling one never ends the worker
\* of the current step (phase2-macro-blocking.md, "ignoring foreign lifecycle
\* message").
ForeignMessagesAreIgnored ==
  [][pc = "finishing" /\ pc' = "checking" /\ Running(cur) /\ runner'[cur] = "dead"
       => \E m \in batch \cap inbox : Own(m)]_vars
=============================================================================
