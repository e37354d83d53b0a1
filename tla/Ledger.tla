-------------------------------- MODULE Ledger --------------------------------
(***************************************************************************)
(* The consensus ledger: the findings of the reviews, the decisions of the *)
(* two sides on them, and the rounds; ledger.py, as the coordinator drives *)
(* it.  The routes between its steps are those of LoopMachine; whether a   *)
(* worker escalates, a test fails or a user or Master redirects a blocked  *)
(* run is free.                                                            *)
(*                                                                         *)
(* A finding never changes its content (an ID that comes back with another *)
(* one is refused), so what an ID says is a constant, and its signature is *)
(* the same in every round.                                                *)
(***************************************************************************)
EXTENDS LoopMachine

CONSTANTS
  Findings,      \* finding IDs
  Impact,        \* impact_class of each
  Reopens,       \* the finding each one reopens, or NoFinding
  NoFinding,
  DecisionKinds, \* the decisions taken here, of Kinds
  Snapshots,     \* the contents the worktree can have
  MaxRound       \* bound: no worker runs in a later round

\* An approval without evidence_refs counts as one, but resolves nothing.
Kinds == {"APPROVE", "BARE_APPROVE", "CHANGE_REQUIRED", "VERIFY_REQUIRED"}
ImpactClasses == {"other", "requirement_interpretation", "architecture", "security_auth"}

ASSUME LedgerConstants ==
  /\ Impact \in [Findings -> ImpactClasses]
  /\ NoFinding \notin Findings
  /\ Reopens \in [Findings -> Findings \cup {NoFinding}]
  /\ DecisionKinds \subseteq Kinds /\ DecisionKinds # {}
  /\ Snapshots # {}
  /\ MaxRound \in Nat \ {0}
  /\ PlanLimit <= MaxRound /\ CodeLimit <= MaxRound

VARIABLES
  state,      \* CoordinatorState.state and blocked_from_state
  blocked,
  pending,    \* keys of pending_escalations
  approved,   \* approved_escalation_keys
  snapshot,   \* snapshot_digest: the content of the worktree
  status,     \* FindingRecord.status; "absent": not raised yet
  decisions,  \* its decisions, by side and round
  observed,   \* its unresolved_signature_history
  planRound, codeRound,
  newest,     \* history: the kind of the last decision each side gave on it
  seen,       \* history: newest, when a round last observed it unresolved
  phases      \* history: the phases the decisions on it were given in

vars == <<state, blocked, pending, approved, snapshot, status, decisions, observed,
          planRound, codeRound, newest, seen, phases>>
rounds  == <<planRound, codeRound>>
history == <<newest, seen, phases>>

Sides      == {"CLAUDE", "CODEX"}
Unresolved == {"OPEN", "CHANGE_REQUIRED", "VERIFY_REQUIRED"}
Rounds     == 1 .. MaxRound

\* The last decision of a side in a round; earlier: the kinds of those before.
Decision   == [kind : Kinds, snapshot : Snapshots, earlier : SUBSET Kinds]
NoDecision == [kind |-> "none", earlier |-> {}]
\* Of a history only the last round and the highest rank are read.
Unobserved == [round |-> 0, rank |-> 0]

\* Deduplication keys of escalations.  Signal stands for those a worker raises
\* itself.
Signal == <<"worker", NoFinding>>
Keys   == ({"E01", "E02", "E04", "E05", "E06"} \X Findings) \cup {Signal}

TypeOK ==
  /\ state \in LoopState
  /\ blocked \in LoopState \cup {"NONE"}
  /\ pending \subseteq Keys
  /\ approved \subseteq Keys \ {Signal}
  /\ snapshot \in Snapshots
  /\ status \in [Findings -> Unresolved \cup {"absent", "RESOLVED"}]
  /\ decisions \in [Findings -> [Sides -> [Rounds -> Decision \cup {NoDecision}]]]
  /\ observed \in [Findings -> [round : {0} \cup Rounds, rank : 0 .. 2]]
  /\ planRound \in 0 .. PlanLimit
  /\ codeRound \in 0 .. CodeLimit
  /\ newest \in [Findings -> [Sides -> Kinds \cup {"none"}]]
  /\ seen \in [Findings -> [Sides -> Kinds \cup {"none"}]]
  /\ phases \in [Findings -> SUBSET {"plan", "code"}]

Nobody == [f \in Findings |-> [s \in Sides |-> "none"]]

\* empty_ledger; a Master may have sent the run to the implementer at once.
Init ==
  /\ state \in {"PLAN", "IMPLEMENT"}
  /\ blocked = "NONE"
  /\ pending = {} /\ approved = {}
  /\ snapshot \in Snapshots
  /\ status = [f \in Findings |-> "absent"]
  /\ decisions = [f \in Findings |-> [s \in Sides |-> [r \in Rounds |-> NoDecision]]]
  /\ observed = [f \in Findings |-> Unobserved]
  /\ planRound = 0 /\ codeRound = 0
  /\ newest = Nobody /\ seen = Nobody
  /\ phases = [f \in Findings |-> {}]

-----------------------------------------------------------------------------
\* Reading the ledger.

OpenFindings == {f \in Findings : status[f] \in Unresolved}
Open == OpenFindings # {}

\* unresolved_scope: the findings a worker is given.
Delivered == OpenFindings

\* consensus_round.  Plan and code rounds are numbered apart, from one on each,
\* but a finding keeps the decisions of both under the same numbers.
Phase == IF state \in PlannerStates \cup {"PLAN_REVIEW"} THEN "plan" ELSE "code"
Round == IF Phase = "plan" THEN planRound + 1 ELSE codeRound + 1

\* _latest_side_decisions, of one side: the decision of its highest round.
Latest(given) ==
  LET R == {r \in Rounds : given[r] # NoDecision}
  IN IF R = {} THEN NoDecision
     ELSE given[CHOOSE r \in R : \A q \in R : q <= r]

\* Mutant of SameSource: the snapshots are not compared.
AnySource(claude, codex) == TRUE

SameSource(claude, codex) == claude.snapshot = codex.snapshot

\* _status_from_decisions.
StatusOf(given) ==
  LET claude == Latest(given["CLAUDE"])
      codex  == Latest(given["CODEX"])
      kinds  == {claude.kind, codex.kind}
  IN CASE "CHANGE_REQUIRED" \in kinds -> "CHANGE_REQUIRED"
       [] "CHANGE_REQUIRED" \notin kinds /\ "VERIFY_REQUIRED" \in kinds -> "VERIFY_REQUIRED"
       [] kinds = {"APPROVE"} /\ SameSource(claude, codex) -> "RESOLVED"
       [] OTHER -> "OPEN"

-----------------------------------------------------------------------------
\* The artifacts of the workers.

Given(D, side, kind) ==
  /\ newest' = [f \in Findings |->
       IF f \in D THEN [newest[f] EXCEPT ![side] = kind[f]] ELSE newest[f]]
  /\ phases' = [f \in Findings |-> IF f \in D THEN phases[f] \cup {Phase} ELSE phases[f]]

\* One side decides on the findings of D.  Its earlier decisions of the same
\* round are replaced, in whichever phase they were given.
Decide(D, side, kind) ==
  /\ decisions' = [f \in Findings |->
       IF f \in D
       THEN [decisions[f] EXCEPT ![side][Round] =
               [kind |-> kind[f], snapshot |-> snapshot, earlier |-> {}]]
       ELSE decisions[f]]
  /\ status' = [f \in Findings |-> IF f \in D THEN StatusOf(decisions'[f]) ELSE status[f]]
  /\ Given(D, side, kind)

\* A step with escalations esc blocks the run, one without goes to next.
Route(esc, next) ==
  /\ state' = IF esc = {} THEN next ELSE "USER_DECISION_REQUIRED"
  /\ blocked' = IF esc = {} THEN "NONE" ELSE state
  /\ pending' = esc

Next_(s) == CHOOSE t \in LoopState : <<s, "ARTIFACT_OK", t>> \in DirectEdges

\* apply_plan_document: the planner decides for CLAUDE on every finding it is given.
\* A Master may skip the review of a plan without findings.
Plan ==
  /\ state \in PlannerStates /\ Round \in Rounds
  /\ \E kind \in [Delivered -> DecisionKinds] : Decide(Delivered, "CLAUDE", kind)
  /\ \/ \E esc \in SUBSET {Signal} : Route(esc, "PLAN_REVIEW")
     \/ ~Open' /\ Route({}, "IMPLEMENT")
  /\ UNCHANGED <<approved, snapshot, observed, rounds, seen>>

SideOf(s) == IF s = "CODE_REVIEW" THEN "CLAUDE" ELSE "CODEX"

\* A new finding may reopen a resolved one only.
Raisable(f) ==
  /\ status[f] = "absent"
  /\ Reopens[f] # NoFinding => status[Reopens[f]] = "RESOLVED"

\* The findings a review must decide on, and no others: those it was given and
\* those it contains.
Obligated(contained) == Delivered \cup contained

\* apply_review_artifact.  A reviewer may repeat a finding that is resolved: an ID
\* the ledger knows, with the content it knows, is not new.
Review ==
  /\ state \in ReviewerStates /\ Round \in Rounds
  /\ \E new \in SUBSET {f \in Findings : Raisable(f)},
        repeated \in SUBSET {f \in Findings : status[f] = "RESOLVED"} :
       LET D == Obligated(new \cup repeated)
           reopening == {<<"E06", f>> : f \in {f \in new : Reopens[f] # NoFinding}}
       IN /\ \E kind \in [D -> DecisionKinds] : Decide(D, SideOf(state), kind)
          /\ \E own \in SUBSET {Signal} : Route((reopening \ approved) \cup own, Next_(state))
  /\ UNCHANGED <<approved, snapshot, observed, rounds, seen>>

\* Mutant of TakeUp: of the decisions of a round, the first one counts.
TakeUpAfter(f, given) ==
  IF decisions[f]["CODEX"][Round] = NoDecision
  THEN [decisions[f] EXCEPT !["CODEX"][Round] = [given EXCEPT !.earlier = {}]]
  ELSE decisions[f]

\* The implementer's decision is appended to those of its round.
TakeUp(f, given) == [decisions[f] EXCEPT !["CODEX"][Round] = given]

\* Mutant of Addressable: any finding that was raised.
AddressableKnown == {f \in Findings : status[f] # "absent"}

Addressable == Delivered

\* apply_implementation_artifact: what the implementer addressed has to be verified;
\* it says so for CODEX, of the snapshot it was given.
Implement ==
  /\ state \in ImplementerStates /\ Round \in Rounds
  /\ \E addressed \in SUBSET Addressable :
       /\ status' = [f \in Findings |-> IF f \in addressed THEN "VERIFY_REQUIRED" ELSE status[f]]
       /\ decisions' = [f \in Findings |->
            LET last == decisions[f]["CODEX"][Round]
            IN IF f \in addressed
               THEN TakeUp(f, [kind |-> "VERIFY_REQUIRED", snapshot |-> snapshot,
                               earlier |-> last.earlier \cup ({last.kind} \cap Kinds)])
               ELSE decisions[f]]
       /\ Given(addressed, "CODEX", [f \in addressed |-> "VERIFY_REQUIRED"])
  /\ snapshot' \in Snapshots
  /\ \E esc \in SUBSET {Signal} : Route(esc, "TEST_GATE")
  /\ UNCHANGED <<approved, observed, rounds, seen>>

\* A step that ends without an artifact, in a block, with nothing to approve.
StepBlocks ==
  /\ state \in WorkerStates \cup {"TEST_GATE"}
  /\ state' = "USER_DECISION_REQUIRED" /\ blocked' = state /\ pending' = {}
  /\ UNCHANGED <<approved, snapshot, status, decisions, observed, rounds, history>>

TestGate ==
  /\ state = "TEST_GATE"
  /\ state' \in {"CODE_REVIEW", "FIX"}
  /\ UNCHANGED <<blocked, pending, approved, snapshot, status, decisions, observed,
                 rounds, history>>

-----------------------------------------------------------------------------
\* The rounds: commit_round.

Rank(s) == CASE s = "OPEN" -> 0 [] s = "CHANGE_REQUIRED" -> 1 [] OTHER -> 2

Approves(kind) == kind \in {"APPROVE", "BARE_APPROVE"}

\* _round_decision_improved: the two rounds are compared by their numbers.
Improved(f, before, now) ==
  \E s \in Sides : /\ decisions[f][s][before].kind = "CHANGE_REQUIRED"
                   /\ Approves(decisions[f][s][now].kind)

\* Mutant of Progress: a status that has not fallen back is an advance.
ProgressWithoutAdvance(f, now) ==
  LET o == observed[f] IN
  /\ o.round # 0
  /\ Rank(status[f]) >= o.rank

\* _material_progress of a finding with one signature and one set of criteria.
Progress(f, now) ==
  LET o == observed[f] IN
  /\ o.round # 0
  /\ \/ Rank(status[f]) > o.rank
     \/ Rank(status[f]) = o.rank /\ Improved(f, o.round, now)

\* _conflicting_sides.
Conflict(f, now) ==
  LET kinds == UNION {{decisions[f][s][now].kind} \cup decisions[f][s][now].earlier : s \in Sides}
  IN /\ \E k \in kinds : Approves(k)
     /\ kinds \cap {"CHANGE_REQUIRED", "VERIFY_REQUIRED"} # {}

\* The escalations of round now.
RoundEscalations(now) ==
  LET again == {f \in OpenFindings : observed[f].round # 0}
      conflicts == {f \in OpenFindings : Conflict(f, now)}
      class(c) == {f \in Findings : Impact[f] = c}
  IN ( {<<"E05", f>> : f \in {f \in again : ~Progress(f, now)}}
       \cup {<<"E02", f>> : f \in OpenFindings \cap class("requirement_interpretation")}
       \cup {<<"E01", f>> : f \in again \cap conflicts \cap class("architecture")}
       \cup {<<"E04", f>> : f \in conflicts \cap class("security_auth")} ) \ approved

\* The observations of round now.
Observe(now) ==
  /\ observed' = [f \in Findings |->
       IF f \in OpenFindings
       THEN [round |-> now,
             rank |-> IF Rank(status[f]) > observed[f].rank THEN Rank(status[f])
                      ELSE observed[f].rank]
       ELSE observed[f]]
  /\ seen' = [f \in Findings |-> IF f \in OpenFindings THEN newest[f] ELSE seen[f]]
  /\ UNCHANGED <<newest, phases>>

\* The result of a round: esc, the remaining findings, or agreement.
RouteRound(plans, codes, esc) ==
  \E t \in LoopState :
    /\ Transition(state, IF esc # {} THEN "ESCALATE"
                         ELSE IF Open THEN "UNRESOLVED_REMAIN" ELSE "UNRESOLVED_ZERO",
                  [open |-> Open, planRound |-> plans, codeRound |-> codes],
                  [testFix |-> 0, opRetry |-> 0], t)
    /\ state' = t
    /\ blocked' = IF t = "USER_DECISION_REQUIRED" THEN state ELSE "NONE"
    /\ pending' = esc

\* Mutant of RoundLeft: one round too many.
RoundLeftAtLimit(n, limit) == n <= limit

RoundLeft(n, limit) == n < limit

\* A plan without findings may still need the user: E-03.
EvaluatePlan ==
  /\ state = "PLAN_CONSENSUS_EVALUATE"
  /\ RoundLeft(planRound, PlanLimit)
  /\ planRound' = planRound + 1
  /\ Observe(planRound + 1)
  /\ \E contract \in SUBSET {Signal} :
       /\ contract # {} => ~Open
       /\ RouteRound(planRound + 1, codeRound, RoundEscalations(planRound + 1) \cup contract)
  /\ UNCHANGED <<approved, snapshot, status, decisions, codeRound>>

EvaluateCode ==
  /\ state = "CONSENSUS_EVALUATE"
  /\ RoundLeft(codeRound, CodeLimit)
  /\ codeRound' = codeRound + 1
  /\ Observe(codeRound + 1)
  /\ RouteRound(planRound, codeRound + 1, RoundEscalations(codeRound + 1))
  /\ UNCHANGED <<approved, snapshot, status, decisions, planRound>>

-----------------------------------------------------------------------------
\* Blocked runs.

Unblock(t) ==
  /\ state' = t /\ blocked' = "NONE" /\ pending' = {}
  /\ UNCHANGED <<snapshot, status, decisions, observed, rounds, history>>

\* approve_escalation_keys, or the deletions of a plan.
Approve ==
  /\ state = "USER_DECISION_REQUIRED"
  /\ pending # {} \/ blocked = "PLAN_CONSENSUS_EVALUATE"
  /\ \E t \in LoopState : <<blocked, t>> \in ApprovedTarget /\ Unblock(t)
  /\ approved' = approved \cup (pending \ {Signal})

\* The user or the Master sends the run back; revise_code and revise_design of
\* _gate_options.  A Master supervises only what a worker's artifact raised.
UserTargets ==
  CASE blocked = "PLAN_CONSENSUS_EVALUATE"             -> {"PLAN_REVISE"}
    [] blocked \in {"CONSENSUS_EVALUATE", "TEST_GATE"} -> {"FIX"}
    [] OTHER                                           -> {"PLAN_REVISE", "FIX"}

SendBack ==
  /\ state = "USER_DECISION_REQUIRED"
  /\ \E t \in UserTargets \cup RecoveryTargets(blocked)
             \cup (IF pending = {} THEN {} ELSE SupervisionTargets(blocked, {})) :
       Unblock(t)
  /\ UNCHANGED approved

HumanGate ==
  /\ state = "HUMAN_GATE"
  /\ state' \in {"FIX", "PLAN_REVISE"}
  /\ UNCHANGED <<blocked, pending, approved, snapshot, status, decisions, observed,
                 rounds, history>>

Next ==
  \/ Plan \/ Review \/ Implement \/ StepBlocks \/ TestGate
  \/ EvaluatePlan \/ EvaluateCode
  \/ Approve \/ SendBack \/ HumanGate

Spec == Init /\ [][Next]_vars

-----------------------------------------------------------------------------
\* A finding is resolved only on the source both sides approved it on, and that
\* is the source as it is: the code compares the two snapshots with each other
\* alone, 9.5 of phase1-system-design.md with the current one too.
ResolutionIsOfThisSource ==
  [][\A f \in Findings : status[f] # "RESOLVED" /\ status'[f] = "RESOLVED" =>
       \A s \in Sides : \E r \in Rounds :
         decisions'[f][s][r] = [kind |-> "APPROVE", snapshot |-> snapshot, earlier |-> {}]]_vars

\* A finding decided on in one phase only.
OnePhase(f) == phases[f] \in {{"plan"}, {"code"}}

\* A finding that a round finds open for the second time is escalated, unless
\* its status is higher than in any round before, or a side that wanted a
\* change the last time now approves (commit_round, 9.5 of
\* phase1-system-design.md).  Over two phases the shared numbers break this.
StagnationIsEscalated ==
  [][\A f \in OpenFindings :
       /\ rounds' # rounds
       /\ OnePhase(f)
       /\ observed[f].round # 0
       /\ Rank(status[f]) <= observed[f].rank
       /\ ~ \E s \in Sides : seen[f][s] = "CHANGE_REQUIRED" /\ Approves(newest[f][s])
       => <<"E05", f>> \in pending' \cup approved]_vars

\* What RunLoop takes for granted of the ledger.
Promise == INSTANCE LedgerPromise WITH open <- Open, escalated <- pending # {}
PromiseKept == Promise!Spec

\* 9.5 of phase1-system-design.md: one side that requires a change keeps the
\* finding at CHANGE_REQUIRED, and only the approval of both resolves it.
BothApprove(f) == \A s \in Sides : newest[f][s] = "APPROVE"

ResolvedByBothSides == \A f \in Findings : status[f] = "RESOLVED" => BothApprove(f)

\* What the code keeps of it: a finding all of whose decisions were given in one
\* phase is resolved only while the last word of both sides is an approval.
ResolvedWithinPhase ==
  \A f \in Findings : status[f] = "RESOLVED" /\ OnePhase(f) => BothApprove(f)
=============================================================================
