----------------------------- MODULE LedgerPromise -----------------------------
(***************************************************************************)
(* What the coordinator loop sees of the consensus ledger, and what        *)
(* RunLoop assumes of it (OpenAfter, RoundEscalations): whether a finding  *)
(* is open, the numbers of the rounds, and whether a step escalates.       *)
(***************************************************************************)
EXTENDS LoopMachine

VARIABLES state, open, planRound, codeRound, escalated

vars == <<state, open, planRound, codeRound, escalated>>

Init ==
  /\ state \in {"PLAN", "IMPLEMENT"}
  /\ ~open /\ ~escalated
  /\ planRound = 0 /\ codeRound = 0

SameRounds == UNCHANGED <<planRound, codeRound>>

\* A review may open or resolve findings, a plan only resolve the last.
Reviewed == state \in ReviewerStates /\ open' \in BOOLEAN /\ SameRounds
Planned  == state \in PlannerStates /\ (open' => open) /\ SameRounds

\* A round counts once.  It escalates by itself only over open findings, and
\* nothing is open where the run goes on in agreement.
PlanRound ==
  /\ state = "PLAN_CONSENSUS_EVALUATE"
  /\ planRound < PlanLimit /\ planRound' = planRound + 1
  /\ UNCHANGED <<open, codeRound>>
  /\ state' = "IMPLEMENT" => ~open

CodeRound ==
  /\ state = "CONSENSUS_EVALUATE"
  /\ codeRound < CodeLimit /\ codeRound' = codeRound + 1
  /\ UNCHANGED <<open, planRound>>
  /\ escalated' => open
  /\ state' = "HUMAN_GATE" => ~open

\* Nothing else touches the findings or the rounds.
Other ==
  /\ state \notin PlannerStates \cup ReviewerStates \cup EvaluateStates
  /\ UNCHANGED open /\ SameRounds

\* A block of any step without an artifact.
Blocked == state' = "USER_DECISION_REQUIRED" /\ UNCHANGED open /\ SameRounds

Next == Reviewed \/ Planned \/ PlanRound \/ CodeRound \/ Other \/ Blocked

Spec == Init /\ [][Next]_vars
=============================================================================
