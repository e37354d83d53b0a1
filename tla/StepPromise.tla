----------------------------- MODULE StepPromise -----------------------------
(***************************************************************************)
(* What the dispatcher and the local runtime promise to the coordinator    *)
(* loop, and what RunLoop assumes of a worker step (DispatchStep,          *)
(* StepFails, Promote, Verify): a step is committed before its worker      *)
(* touches anything, is answered by its own worker or not at all, ends     *)
(* once, and is never taken up again by a later process, which starts on a *)
(* worktree that holds verified work only.                                 *)
(***************************************************************************)
EXTENDS Naturals

CONSTANT MaxDispatches

NoStep == 0

VARIABLES
  last,       \* the steps numbered so far
  step,       \* the one under way
  stage,      \* how far it is; "down": no process is at work
  committed,  \* the last step whose dispatch is committed
  artifacts,  \* the steps whose worker has delivered
  edits       \* the steps with edits in the worktree nobody has verified

vars == <<last, step, stage, committed, artifacts, edits>>
numbers == <<last, committed>>

Init ==
  /\ last = 0 /\ step = NoStep /\ stage = "idle"
  /\ committed = 0
  /\ artifacts = {} /\ edits = {}

\* Every step gets a new number, also after a crash.
Prepare ==
  /\ stage = "idle" /\ last < MaxDispatches
  /\ last' = last + 1 /\ step' = last + 1
  /\ stage' = "prepared"
  /\ UNCHANGED <<committed, artifacts, edits>>

Dispatch ==
  /\ stage = "prepared"
  /\ committed' = step
  /\ stage' = "dispatched"
  /\ UNCHANGED <<last, step, artifacts, edits>>

\* The step's own worker has delivered.
Answered ==
  /\ stage = "dispatched" /\ step \in artifacts
  /\ stage' = "answered"
  /\ UNCHANGED <<numbers, step, artifacts, edits>>

\* A timeout, which ends the run, or a call for help.
Fail ==
  /\ stage = "dispatched"
  /\ stage' \in {"idle", "ended"} /\ step' = NoStep
  /\ UNCHANGED <<numbers, artifacts, edits>>

Verify ==
  /\ stage = "answered"
  /\ edits' = {}
  /\ stage' = "idle" /\ step' = NoStep
  /\ UNCHANGED <<numbers, artifacts>>

Refuse ==
  /\ stage = "answered"
  /\ stage' = "idle" /\ step' = NoStep
  /\ UNCHANGED <<numbers, artifacts, edits>>

\* A process ends anywhere; the next one goes on with a new step, and only on
\* verified work.
Stop ==
  /\ stage \notin {"down", "ended"}
  /\ stage' = "down" /\ step' = NoStep
  /\ UNCHANGED <<numbers, artifacts, edits>>

Restart ==
  /\ stage = "down" /\ edits = {}
  /\ stage' = "idle"
  /\ UNCHANGED <<numbers, step, artifacts, edits>>

\* Workers act for committed steps only; they may be late.
Edit(d) ==
  /\ d <= committed
  /\ edits' = edits \cup {d}
  /\ UNCHANGED <<numbers, step, stage, artifacts>>

Deliver(d) ==
  /\ d <= committed /\ d \notin artifacts
  /\ artifacts' = artifacts \cup {d}
  /\ UNCHANGED <<numbers, step, stage, edits>>

Next ==
  \/ Prepare \/ Dispatch \/ Answered \/ Fail \/ Verify \/ Refuse \/ Stop \/ Restart
  \/ \E d \in 1 .. MaxDispatches : Edit(d) \/ Deliver(d)

Spec == Init /\ [][Next]_vars
=============================================================================
