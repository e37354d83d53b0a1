------------------------------- MODULE GateStore -------------------------------
(***************************************************************************)
(* The gate a blocked run puts to its user, from its creation to the       *)
(* answer the coordinator applies: local_runtime.py keeps the gates, their *)
(* notifications and the acknowledgements of a browser bridge in files,    *)
(* run_loop.py creates, binds and reads them, run_web_gpt_loop.py carries  *)
(* answers into the store.  Several processes do this at once, and each    *)
(* may die between any two file operations.  The bridge (remote-mcp) is    *)
(* external: it shows what it is sent and collects the browser's answer.   *)
(*                                                                         *)
(* Every answer is an option of every gate here: RunLoop has the options.  *)
(***************************************************************************)
EXTENDS Naturals, FiniteSets

CONSTANTS
  Gates,      \* gate IDs, each created at most once
  Answers,    \* what a user may decide
  Launchers,  \* processes that run the loop and wait for its user
  Users,      \* invocations of a command that answers a gate, or shows it
  Decision,   \* the answer each would give
  Nobody,     \* no process
  NoGate,     \* no gate
  Crashes     \* bound: launchers that die

ASSUME GateConstants ==
  /\ Nobody \notin Launchers \cup Users
  /\ NoGate \notin Gates
  /\ Crashes \in Nat
  /\ Launchers \cap Users = {}
  /\ Decision \in [Users -> Answers]
  /\ Answers \cap {"absent", "pending"} = {}

VARIABLES
  phase,    \* the committed run: at a block, at work, over
  bound,    \* CoordinatorState.gate_binding
  gate,     \* gates/<id>.json: its status, or the answer that resolved it
  note,     \* notifications/<id>.json: the status and answer it tells
  ack,      \* notification-acks/<id>.json: the notification it acknowledges
  lock,     \* who holds gates/<id>.resolve.lock
  remote,   \* the bridge: what it shows, and what its user answered
  applied,  \* history: the answer that decided a transition of the run
  meant,    \* history: the gate whose question the stored answer was given to
  owner,    \* the process with the run lock
  pc, job,  \* what each process does, and on whose behalf it lists gates
  todo,     \* notifications it has still to reconcile
  target,   \* the gate it creates or answers
  wish,     \* the answer it carries ...
  question, \* ... and the gate that answer was read for
  crashes   \* how many launchers died

files == <<gate, note, ack, remote>>
run   == <<phase, bound, applied>>
errand == <<target, wish, question>>
vars  == <<files, run, lock, meant, owner, pc, job, todo, errand, crashes>>

Procs    == Launchers \cup Users
Contents == {"absent", "pending"} \cup Answers
NoAnswer == "absent"
Shown(status, a) == [status |-> status, answer |-> a]
Missing  == Shown("missing", NoAnswer)
Asking   == Shown("pending", NoAnswer)

\* Mutant of Answered: the list is not restricted to resolved gates.
Listed(g) == gate[g] # "absent"

\* A gate wait_gate_resolution finds.
Answered(g) == gate[g] \in Answers

TypeOK ==
  /\ phase \in {"blocked", "working", "over"}
  /\ bound \in Gates \cup {NoGate}
  /\ gate \in [Gates -> Contents]
  /\ note \in [Gates -> Contents]
  /\ ack \in [Gates -> Contents]
  /\ lock \in [Gates -> Procs \cup {Nobody}]
  /\ remote \in [Gates -> {Missing, Asking}
                   \cup {Shown(s, a) : s \in {"answered", "resolved"}, a \in Answers}]
  /\ applied \in [Gates -> Answers \cup {NoAnswer}]
  /\ meant \in [Gates -> Gates \cup {NoGate}]
  /\ owner \in Procs \cup {Nobody}
  /\ pc \in [Procs -> {"idle", "done", "loop", "notify", "list", "sync", "publish", "ack",
                        "bind", "read", "poll", "reload", "check", "resolve"}]
  /\ job \in [Procs -> {"none", "create", "resume", "decide", "resolve"}]
  /\ todo \in [Procs -> SUBSET Gates]
  /\ target \in [Procs -> Gates \cup {NoGate}]
  /\ wish \in [Procs -> Answers \cup {NoAnswer}]
  /\ question \in [Procs -> Gates \cup {NoGate}]
  /\ crashes \in 0 .. Crashes

Init ==
  /\ phase = "blocked" /\ bound = NoGate
  /\ gate = [g \in Gates |-> "absent"]
  /\ note = [g \in Gates |-> "absent"]
  /\ ack = [g \in Gates |-> "absent"]
  /\ lock = [g \in Gates |-> Nobody]
  /\ remote = [g \in Gates |-> Missing]
  /\ applied = [g \in Gates |-> NoAnswer]
  /\ meant = [g \in Gates |-> NoGate]
  /\ owner = Nobody
  /\ pc = [p \in Procs |-> "idle"]
  /\ job = [p \in Procs |-> "none"]
  /\ todo = [p \in Procs |-> {}]
  /\ target = [p \in Procs |-> NoGate]
  /\ wish = [p \in Procs |-> NoAnswer]
  /\ question = [p \in Procs |-> NoGate]
  /\ crashes = 0

Goto(p, l) == pc' = [pc EXCEPT ![p] = l]

\* A process ends its invocation, by itself or with an exception, and forgets.
Leave(p) ==
  /\ Goto(p, IF p \in Launchers THEN "idle" ELSE "done")
  /\ job' = [job EXCEPT ![p] = "none"]
  /\ todo' = [todo EXCEPT ![p] = {}]
  /\ target' = [target EXCEPT ![p] = NoGate]
  /\ wish' = [wish EXCEPT ![p] = NoAnswer]
  /\ question' = [question EXCEPT ![p] = NoGate]

-----------------------------------------------------------------------------
\* Listing: _gate_list reconciles every notification first.

\* Where a process goes on when its notifications are reconciled.
After(j) == CASE j = "create" -> "bind"
              [] j = "resume" -> "read"
              [] j = "decide" -> "check"

\* The glob of the notifications is taken once, at the start.
BeginList(p, j) ==
  LET G == {g \in Gates : note[g] # "absent"}
  IN /\ job' = [job EXCEPT ![p] = j]
     /\ todo' = [todo EXCEPT ![p] = G]
     /\ Goto(p, IF G = {} THEN After(j) ELSE "list")

\* Mutant of Told: the bridge is taken for an authority on its answer.
ToldByBridge(g) == IF remote[g].status = "answered" THEN remote[g].answer ELSE gate[g]

\* What a notification tells: the status and the resolution of its gate.
Told(g) == gate[g]

\* The file lock of the gate is held from here until Unlock.
TakeAndSync(p) ==
  /\ pc[p] = "list"
  /\ \E g \in todo[p] :
       /\ lock[g] = Nobody
       /\ lock' = [lock EXCEPT ![g] = p]
       /\ note' = [note EXCEPT ![g] = Told(g)]
       /\ todo' = [todo EXCEPT ![p] = @ \ {g}]
  /\ Goto(p, "publish")
  /\ UNCHANGED <<gate, ack, remote, run, meant, owner, job, errand, crashes>>

\* One notification is done: the next one, or what the list was for.
Unlock(p, g) ==
  /\ lock' = [lock EXCEPT ![g] = Nobody]
  /\ \/ todo[p] # {} /\ Goto(p, "list") /\ UNCHANGED <<job, todo, errand>>
     \/ todo[p] = {} /\ job[p] \in {"create", "resume", "decide"}
        /\ Goto(p, After(job[p])) /\ UNCHANGED <<job, todo, errand>>
     \/ todo[p] = {} /\ job[p] = "resolve" /\ Leave(p)

Holds(p, g) == lock[g] = p

\* The answer of the probe that makes the store publish again.
OutOfDate(g) ==
  \/ remote[g] = Missing
  \/ note[g] \in Answers /\ remote[g].status # "resolved"

\* An acknowledged notification stands when the probe finds the bridge up to
\* date, and when the probe gets no answer.
AckStands(p) ==
  /\ pc[p] = "publish"
  /\ \E g \in Gates : Holds(p, g) /\ ack[g] = note[g] /\ Unlock(p, g)
  /\ UNCHANGED <<files, run, meant, owner, crashes>>

MustPublish(g) == ack[g] # note[g] \/ OutOfDate(g)

\* What the bridge shows once it has taken a notification (external).  Whether
\* a repeated question keeps the answer its user gave is its own affair.
Taken(g) ==
  CASE note[g] \in Answers                                      -> {Shown("resolved", note[g])}
    [] note[g] \notin Answers /\ remote[g].status = "answered"  -> {remote[g], Asking}
    [] OTHER                                                    -> {Asking}

Publish(p) ==
  /\ pc[p] = "publish"
  /\ \E g \in Gates :
       /\ Holds(p, g) /\ MustPublish(g)
       /\ \E r \in Taken(g) : remote' = [remote EXCEPT ![g] = r]
  /\ Goto(p, "ack")
  /\ UNCHANGED <<gate, note, ack, lock, run, meant, owner, job, todo, errand, crashes>>

\* Mutant of AfterFailure: the result of the publication is ignored.
AckAnyway(g) == ack' = [ack EXCEPT ![g] = note[g]]

AfterFailure(g) == UNCHANGED ack

\* No bridge, no token, a refusal or a time-out: the notification stays unacknowledged.
PublishFails(p) ==
  /\ pc[p] = "publish"
  /\ \E g \in Gates : Holds(p, g) /\ MustPublish(g) /\ AfterFailure(g) /\ Unlock(p, g)
  /\ UNCHANGED <<gate, note, remote, run, meant, owner, crashes>>

Acknowledge(p) ==
  /\ pc[p] = "ack"
  /\ \E g \in Gates :
       /\ Holds(p, g)
       /\ ack' = [ack EXCEPT ![g] = note[g]]
       /\ Unlock(p, g)
  /\ UNCHANGED <<gate, note, remote, run, meant, owner, crashes>>

-----------------------------------------------------------------------------
\* The coordinator, under the run lock.

\* main: acquire the run lock and enter the loop.
Launch(p) ==
  /\ p \in Launchers /\ pc[p] = "idle"
  /\ owner = Nobody /\ phase # "over"
  /\ owner' = p
  /\ Goto(p, "loop")
  /\ UNCHANGED <<files, run, lock, meant, job, todo, errand, crashes>>

\* A new ID, uuid4: any of those never used, one like the other.
Unused == {g \in Gates : gate[g] = "absent"}
Fresh  == CHOOSE g \in Unused : TRUE

\* The rest of the loop, up to the next block or the end; a run blocks as long as
\* the model has an ID left for its gate.
Work(p) ==
  /\ pc[p] = "loop" /\ phase = "working"
  /\ \/ Unused # {} /\ phase' = "blocked"
        /\ UNCHANGED <<owner, pc>>
     \/ phase' = "over" /\ owner' = Nobody /\ Goto(p, "idle")
  /\ UNCHANGED <<files, bound, applied, lock, meant, job, todo, errand, crashes>>

\* _route_blocked_before_user_gate: a Master resolves a block no gate is bound to.
MasterRecovers(p) ==
  /\ pc[p] = "loop" /\ phase = "blocked" /\ bound = NoGate
  /\ phase' = "working"
  /\ UNCHANGED <<files, bound, applied, lock, meant, owner, pc, job, todo, errand, crashes>>

\* Mutant of Unbound: a gate is made for every block that is come upon.
EveryBlock == TRUE

\* _ensure_gate does nothing while a gate is bound.
Unbound == bound = NoGate

\* Mutant of AfterCreation: the run is bound to its gate first.
BindFirst == "bind"

\* create_gate notifies of the gate before _ensure_gate binds the run to it.
AfterCreation == "notify"

\* _ensure_gate: the report, the task, and the gate with a new ID, not yet known
\* to the run.
CreateGate(p) ==
  /\ pc[p] = "loop" /\ phase = "blocked" /\ Unbound
  /\ Unused # {}
  /\ gate' = [gate EXCEPT ![Fresh] = "pending"]
  /\ target' = [target EXCEPT ![p] = Fresh]
  /\ Goto(p, AfterCreation)
  /\ UNCHANGED <<note, ack, remote, run, lock, meant, owner, job, todo, wish, question, crashes>>

\* Written without the lock of the gate; reconciled at once.
Notify(p) ==
  /\ pc[p] = "notify"
  /\ note' = [note EXCEPT ![target[p]] = "pending"]
  /\ job' = [job EXCEPT ![p] = "create"]
  /\ todo' = [todo EXCEPT ![p] = {target[p]}]
  /\ Goto(p, "list")
  /\ UNCHANGED <<gate, ack, remote, run, lock, meant, owner, errand, crashes>>

\* The commit that binds it.  main returns to the launcher, which waits.
Bind(p) ==
  /\ pc[p] = "bind"
  /\ bound' = target[p]
  /\ owner' = Nobody
  /\ target' = [target EXCEPT ![p] = NoGate]
  /\ job' = [job EXCEPT ![p] = "none"]
  /\ Goto(p, "poll")
  /\ UNCHANGED <<files, phase, applied, lock, meant, todo, wish, question, crashes>>

\* _resume_gate: wait_gate_resolution lists the gates ...
ListResolved(p) ==
  /\ pc[p] = "loop" /\ phase = "blocked" /\ bound # NoGate
  /\ BeginList(p, "resume")
  /\ UNCHANGED <<files, run, lock, meant, owner, errand, crashes>>

\* ... and takes the resolution of the bound one, which one commit applies.  (The
\* two commits of a final gate are in RunLoop.  The report digests of a gate and of
\* its binding are those of one object, so the comparison never fails.)
Apply(p) ==
  /\ pc[p] = "read" /\ Answered(bound)
  /\ applied' = [applied EXCEPT ![bound] = gate[bound]]
  /\ bound' = NoGate
  /\ phase' = "working"
  /\ job' = [job EXCEPT ![p] = "none"]
  /\ Goto(p, "loop")
  /\ UNCHANGED <<files, lock, meant, owner, todo, errand, crashes>>

\* Not resolved yet: main returns and the launcher waits for the browser.
StillPending(p) ==
  /\ pc[p] = "read" /\ ~Answered(bound)
  /\ owner' = Nobody
  /\ job' = [job EXCEPT ![p] = "none"]
  /\ Goto(p, "poll")
  /\ UNCHANGED <<files, run, lock, meant, todo, errand, crashes>>

-----------------------------------------------------------------------------
\* Answers.

\* _wait_for_bridge_supervision: the bridge has an answer to the bound gate ...
PollAnswer(p) ==
  /\ pc[p] = "poll" /\ bound # NoGate
  /\ remote[bound].status \in {"answered", "resolved"}
  /\ wish' = [wish EXCEPT ![p] = remote[bound].answer]
  /\ question' = [question EXCEPT ![p] = bound]
  /\ Goto(p, "reload")
  /\ UNCHANGED <<files, run, lock, meant, owner, job, todo, target, crashes>>

\* Mutant of DeadlinePasses: the launcher waits for as long as it takes.
NoDeadline == FALSE

\* timeout_seconds is finite.
DeadlinePasses == TRUE

\* ... or no gate is bound any more, or the bridge knows nothing of it (404), or the
\* deadline passes.  The store is not looked at.
StopWaiting(p) ==
  /\ pc[p] = "poll"
  /\ bound = NoGate \/ remote[bound] = Missing \/ DeadlinePasses
  /\ Leave(p) /\ UNCHANGED <<files, run, lock, meant, owner, crashes>>

\* A user reads the question, and will type the command that answers it.
ReadQuestion(p) ==
  /\ p \in Users /\ pc[p] = "idle" /\ bound # NoGate
  /\ wish' = [wish EXCEPT ![p] = Decision[p]]
  /\ question' = [question EXCEPT ![p] = bound]
  /\ Goto(p, "reload")
  /\ UNCHANGED <<files, run, lock, meant, owner, job, todo, target, crashes>>

\* Mutant of Addressed: any gate the list shows pending will do.
AnyPending == {g \in Gates : gate[g] = "pending"}

\* Of the gates in the list, the one the run is bound to.
Addressed == {bound}

\* resolve_supervision, of either: the binding is loaded, and loaded only now.
Reload(p) ==
  /\ pc[p] = "reload" /\ bound # NoGate
  /\ \E g \in Addressed : target' = [target EXCEPT ![p] = g]
  /\ BeginList(p, "decide")
  /\ UNCHANGED <<files, run, lock, meant, owner, wish, question, crashes>>

\* The list, read without a lock, must have the gate as a pending one.
Check(p) ==
  /\ pc[p] = "check" /\ gate[target[p]] = "pending"
  /\ Goto(p, "resolve")
  /\ UNCHANGED <<files, run, lock, meant, owner, job, todo, errand, crashes>>

\* supervision_status loads and lists as well, and that is all.
Look(p) ==
  /\ pc[p] = "check" /\ p \in Users
  /\ Leave(p) /\ UNCHANGED <<files, run, lock, meant, owner, crashes>>

\* Mutant of MayResolve: the list was proof enough.
WasPending(g) == TRUE

\* resolve_gate looks again, under the lock.
MayResolve(g) == gate[g] = "pending"

Resolve(p) ==
  /\ pc[p] = "resolve" /\ lock[target[p]] = Nobody
  /\ MayResolve(target[p])
  /\ gate' = [gate EXCEPT ![target[p]] = wish[p]]
  /\ meant' = [meant EXCEPT ![target[p]] = question[p]]
  /\ lock' = [lock EXCEPT ![target[p]] = p]
  /\ job' = [job EXCEPT ![p] = "resolve"]
  /\ Goto(p, "sync")
  /\ UNCHANGED <<note, ack, remote, run, owner, todo, errand, crashes>>

\* The notification follows, still under the lock.
SyncResolved(p) ==
  /\ pc[p] = "sync"
  /\ \E g \in Gates : Holds(p, g) /\ note' = [note EXCEPT ![g] = Told(g)]
  /\ Goto(p, "publish")
  /\ UNCHANGED <<gate, ack, remote, run, lock, meant, owner, job, todo, errand, crashes>>

\* The exceptions: nothing is bound, or the gate is pending no more.
Refused(p) ==
  /\ \/ pc[p] = "reload" /\ bound = NoGate
     \/ pc[p] = "check" /\ gate[target[p]] # "pending"
     \/ pc[p] = "resolve" /\ lock[target[p]] = Nobody /\ ~MayResolve(target[p])
  /\ Leave(p) /\ UNCHANGED <<files, run, lock, meant, owner, crashes>>

-----------------------------------------------------------------------------
\* The world.

\* Somebody answers in the browser.
BrowserAnswers ==
  /\ \E g \in Gates, a \in Answers :
       remote[g] = Asking /\ remote' = [remote EXCEPT ![g] = Shown("answered", a)]
  /\ UNCHANGED <<gate, note, ack, run, lock, meant, owner, pc, job, todo, errand, crashes>>

\* The bridge restarts without its memory.
BridgeForgets ==
  /\ \E g \in Gates : remote[g] # Missing /\ remote' = [remote EXCEPT ![g] = Missing]
  /\ UNCHANGED <<gate, note, ack, run, lock, meant, owner, pc, job, todo, errand, crashes>>

\* A process dies: its file locks go with it, its run lock is stale.
Crash(p) ==
  /\ pc[p] \notin {"idle", "done"}
  /\ IF p \in Launchers THEN crashes < Crashes /\ crashes' = crashes + 1
                         ELSE UNCHANGED crashes
  /\ lock' = [g \in Gates |-> IF lock[g] = p THEN Nobody ELSE lock[g]]
  /\ owner' = IF owner = p THEN Nobody ELSE owner
  /\ Leave(p) /\ UNCHANGED <<files, run, meant>>

\* What a process does by itself, once it is started.
Step(p) ==
  \/ TakeAndSync(p) \/ AckStands(p) \/ Publish(p) \/ PublishFails(p) \/ Acknowledge(p)
  \/ Work(p) \/ MasterRecovers(p) \/ CreateGate(p) \/ Notify(p) \/ Bind(p)
  \/ ListResolved(p) \/ Apply(p) \/ StillPending(p)
  \/ PollAnswer(p) \/ StopWaiting(p) \/ Reload(p) \/ Check(p) \/ Look(p) \/ Resolve(p)
  \/ SyncResolved(p) \/ Refused(p)

Next ==
  \/ \E p \in Procs : Step(p) \/ Launch(p) \/ ReadQuestion(p) \/ Crash(p)
  \/ BrowserAnswers \/ BridgeForgets

Spec == Init /\ [][Next]_vars

Fairness == WF_vars(\E p \in Procs : Step(p) \/ Launch(p))

FairSpec == Spec /\ Fairness

-----------------------------------------------------------------------------
\* An answer in the store is never replaced, whoever else is answering the same
\* gate: resolve_gate looks again under the lock what resolve_supervision has read
\* without it.
AnswerIsFinal ==
  [][\A g \in Gates : gate[g] \in Answers => gate'[g] = gate[g] /\ meant'[g] = meant[g]]_vars

\* No answer is given in vain or twice: a gate with an answer is the one the run is
\* bound to, or its answer is the one that decided a transition.  The gates that a
\* crash between gate-create and the commit of the binding leaves behind stay
\* unanswered.
AnsweredGateIsLive ==
  \A g \in Gates : gate[g] \in Answers => bound = g \/ applied[g] = gate[g]

\* The gate is the only authority: neither its notification nor the bridge tells of
\* a decision that the store does not hold, or of another one.
NothingShownBeforeStored ==
  \A g \in Gates :
    /\ note[g] \in Answers => gate[g] = note[g]
    /\ remote[g].status = "resolved" => gate[g] = remote[g].answer

\* Once the resolution of a gate is acknowledged the bridge does not ask again,
\* whichever processes reconcile its notification in whatever order, and wherever
\* they die between publishing and acknowledging.
AckedAnswerIsNotAskedAgain ==
  \A g \in Gates :
    ack[g] \in Answers => remote[g] \in {Missing, Shown("resolved", ack[g])}

\* The gate a run waits at exists, has its notification, and has decided nothing
\* yet, also after a crash in the middle of its creation.
BoundGateIsComplete ==
  bound # NoGate =>
    gate[bound] # "absent" /\ note[bound] # "absent" /\ applied[bound] = NoAnswer

\* An answer is applied in the end, although the launcher that waits for it looks
\* at the bridge alone and the bridge may be down, forgetful or never told.
StoredAnswerIsApplied ==
  \A g \in Gates : gate[g] \in Answers ~> applied[g] \in Answers

\* Whatever happens between its files, and whoever answers, the store looks to the
\* run like what RunLoop takes for granted of it: one question at a block, one
\* answer to it, applied once.
Promise == INSTANCE GatePromise WITH
  answer <- IF bound # NoGate /\ gate[bound] \in Answers THEN gate[bound] ELSE NoAnswer

PromiseKept == Promise!Spec

\* "Stale decision rejection": an answer decides the gate whose question it was
\* given to.
AnswerIsForItsQuestion == \A g \in Gates : gate[g] \in Answers => meant[g] = g
=============================================================================
