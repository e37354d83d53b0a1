----------------------------- MODULE GatePromise -----------------------------
(***************************************************************************)
(* What the gate store, its bridge and those who answer promise to the     *)
(* coordinator loop, and what RunLoop assumes of them (EnsureGate, Answer, *)
(* ResumeFinalGate): a block is asked about once, gets one answer, and     *)
(* goes on by that answer or, before it is asked about, by a Master's.     *)
(***************************************************************************)
CONSTANTS Gates, Answers, NoGate, NoAnswer

VARIABLES
  phase,    \* the run: at a block, at work, over
  bound,    \* the question it has asked
  answer,   \* the answer to it
  applied   \* the answers that decided

vars == <<phase, bound, answer, applied>>

Init ==
  /\ phase = "blocked" /\ bound = NoGate
  /\ answer = NoAnswer
  /\ applied = [g \in Gates |-> NoAnswer]

\* A question is never asked again.
Ask ==
  /\ phase = "blocked" /\ bound = NoGate
  /\ bound' \in {g \in Gates : applied[g] = NoAnswer}
  /\ UNCHANGED <<phase, answer, applied>>

Answer ==
  /\ bound # NoGate /\ answer = NoAnswer
  /\ answer' \in Answers
  /\ UNCHANGED <<phase, bound, applied>>

Apply ==
  /\ answer # NoAnswer
  /\ applied' = [applied EXCEPT ![bound] = answer]
  /\ bound' = NoGate /\ answer' = NoAnswer
  /\ phase' = "working"

MasterDecides ==
  /\ phase = "blocked" /\ bound = NoGate
  /\ phase' = "working"
  /\ UNCHANGED <<bound, answer, applied>>

Work ==
  /\ phase = "working"
  /\ phase' \in {"blocked", "over"}
  /\ UNCHANGED <<bound, answer, applied>>

Next == Ask \/ Answer \/ Apply \/ MasterDecides \/ Work

Spec == Init /\ [][Next]_vars
=============================================================================
