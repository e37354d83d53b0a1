----------------------------- MODULE RunPromise -----------------------------
(***************************************************************************)
(* What a run promises to the user who watches it from outside: a run      *)
(* works, offers its result or is blocked; then it asks, and what the user *)
(* answers is what happens.  Only a Master takes decisions of its own.     *)
(***************************************************************************)
VARIABLES
  phase,    \* what the user sees of the run
  gate,     \* the question the run waits with, by kind
  answer,   \* the user's answer to it
  master,   \* a Master runtime is configured
  planning  \* the run may end with its plan

vars == <<phase, gate, answer, master, planning>>
modes == <<master, planning>>

Decisions == {"merge", "reject", "revise_code", "revise_design"}

Init ==
  /\ phase = "working"
  /\ gate = "NONE" /\ answer = "NONE"
  /\ master \in BOOLEAN /\ planning \in BOOLEAN

\* The run itself does not go further than an offer, or the plan it was asked
\* for; a Master may take the decision of the final gate upon itself.
Work ==
  /\ phase = "working"
  /\ \/ phase' \in {"offered", "blocked", "failed"}
     \/ phase' = "planned" /\ planning
     \/ phase' = "ready" /\ master
  /\ UNCHANGED <<gate, answer, modes>>

\* The user is asked once for each offer or block, about what it is.
Ask ==
  /\ gate = "NONE"
  /\ \/ phase = "offered" /\ gate' = "FINAL"
     \/ phase = "blocked" /\ gate' \in {"ESCALATION", "DESTRUCTIVE"}
  /\ answer' = "NONE"
  /\ UNCHANGED <<phase, modes>>

Answer ==
  /\ gate # "NONE" /\ answer = "NONE"
  /\ answer' \in Decisions
  /\ UNCHANGED <<phase, gate, modes>>

After(decision) ==
  CASE decision = "merge"  -> "ready"
    [] decision = "reject" -> "rejected"
    [] OTHER               -> "working"

\* The final decision takes effect, and is recorded in a step of its own, which
\* a crash can leave out; the run then goes on with the old answer at hand.
Decide ==
  /\ phase = "offered" /\ gate = "FINAL" /\ answer # "NONE"
  /\ phase' = After(answer)
  /\ UNCHANGED <<gate, answer, modes>>

Record ==
  /\ gate = "FINAL" /\ answer # "NONE" /\ phase \notin {"offered", "blocked"}
  /\ gate' = "NONE" /\ answer' = "NONE"
  /\ UNCHANGED <<phase, modes>>

\* A block ends as the user says: an approval lets the run go on, or leaves it
\* blocked for another question; it never makes it ready.
Unblock ==
  /\ phase = "blocked" /\ gate # "NONE" /\ answer # "NONE"
  /\ IF answer = "merge" THEN phase' \in {"working", "blocked"} ELSE phase' = After(answer)
  /\ gate' = "NONE" /\ answer' = "NONE"
  /\ UNCHANGED modes

\* A Master may lift a block nobody has been asked about.
Recover ==
  /\ phase = "blocked" /\ gate = "NONE" /\ master
  /\ phase' \in {"working", "failed"}
  /\ UNCHANGED <<gate, answer, modes>>

\* The limits of a process fail the run, whatever it has reached.
Fail ==
  /\ phase' = "failed"
  /\ UNCHANGED <<gate, answer, modes>>

\* A process is started: with a Master, once there was one.
Start ==
  /\ master => master'
  /\ UNCHANGED <<phase, gate, answer>>

Next ==
  Work \/ Ask \/ Answer \/ Decide \/ Record \/ Unblock \/ Recover \/ Fail \/ Start

Spec == Init /\ [][Next]_vars
=============================================================================
