----------------------------- MODULE LedgerProofs -----------------------------
(***************************************************************************)
(* The properties of Ledger for every set of findings, decisions, contents *)
(* of the worktree and limits, and the refinement of LedgerPromise.        *)
(***************************************************************************)
EXTENDS Ledger, WellFoundedInduction, TLAPS

\* The phases are a set of their own for each finding; a finding nobody has
\* decided on was not raised.
Undecided ==
  \A f \in Findings : phases[f] = {} =>
    /\ status[f] = "absent" /\ observed[f].round = 0
    /\ \A s \in Sides : newest[f][s] = "none" /\ \A r \in Rounds : decisions[f][s][r] = NoDecision

\* Within one phase no decision is later than the round at work.
RoundsInOrder ==
  \A f \in Findings, s \in Sides, r \in Rounds : decisions[f][s][r] # NoDecision =>
    /\ phases[f] = {"plan"} => r <= planRound + 1
    /\ phases[f] = {"code"} => r <= codeRound + 1

\* So there the decision of the highest round is the last one given.
LatestIsNewest ==
  \A f \in Findings, s \in Sides : OnePhase(f) => Latest(decisions[f][s]).kind = newest[f][s]

\* A status never lags behind decisions that resolve the finding.
ResolvedAtOnce ==
  \A f \in Findings : StatusOf(decisions[f]) = "RESOLVED" => status[f] = "RESOLVED"

\* Only the implementer decides twice in a round, and what it says is to verify.
OneDecisionARound ==
  \A f \in Findings, s \in Sides, r \in Rounds :
    decisions[f][s][r].kind # "VERIFY_REQUIRED" => decisions[f][s][r].earlier = {}

\* What a round observed of a finding of its own phase stays so.
ObservedInPhase ==
  \A f \in Findings :
    /\ phases[f] = {"plan"} => observed[f].round <= planRound
    /\ phases[f] = {"code"} => observed[f].round <= codeRound
    /\ OnePhase(f) /\ observed[f].round # 0 =>
         \A s \in Sides :
           decisions[f][s][observed[f].round].kind = "CHANGE_REQUIRED"
             => seen[f][s] = "CHANGE_REQUIRED"

\* An evaluation comes after a review of its phase, which decided on every finding
\* it left open.
ReviewedBeforeRound ==
  /\ \/ state = "PLAN_CONSENSUS_EVALUATE"
     \/ blocked = "PLAN_REVIEW" /\ pending # {}
     => \A f \in OpenFindings : "plan" \in phases[f]
  /\ \/ state = "CONSENSUS_EVALUATE" \/ blocked = "CONSENSUS_EVALUATE"
     \/ blocked = "CROSS_CONFIRM" /\ pending # {}
     => \A f \in OpenFindings : "code" \in phases[f]

IInv ==
  /\ TypeOK
  /\ Undecided
  /\ RoundsInOrder
  /\ LatestIsNewest
  /\ ResolvedAtOnce
  /\ OneDecisionARound
  /\ ObservedInPhase
  /\ ReviewedBeforeRound
  /\ ResolvedWithinPhase


-----------------------------------------------------------------------------
\* Reading the decisions of a side.

\* A set of rounds that is not empty has a last one.
LEMMA LastRound ==
  ASSUME NEW R \in SUBSET Rounds, R # {}
  PROVE  \E m \in R : \A q \in R : q <= m
<1> DEFINE Below == {MaxRound - r : r \in R}
           Less  == {ss \in Nat \X Nat : ss[1] < ss[2]}
<1>1. MaxRound \in Nat /\ \A r \in R : r \in Nat /\ r <= MaxRound
  BY LedgerConstants DEF Rounds
<1>2. Below \subseteq Nat /\ Below # {}
  BY <1>1
<1>3. IsWellFoundedOn(Less, Nat)
  BY NatLessThanWellFounded DEF OpToRel
<1>4. PICK x \in Below : \A y \in Below : ~ (<<y, x>> \in Less)
  <2> HIDE DEF Below, Less
  <2>1. QED
    BY <1>2, <1>3, WFMin
<1>5. PICK m \in R : x = MaxRound - m
  OBVIOUS
<1>6. \A q \in R : ~ (MaxRound - q < MaxRound - m)
  BY <1>1, <1>2, <1>4, <1>5
<1>7. QED
  BY <1>1, <1>6

\* Latest returns the decision of the last round that has one.
LEMMA LatestIsLast ==
  ASSUME NEW given, NEW m \in Rounds, given[m] # NoDecision,
         \A q \in Rounds : given[q] # NoDecision => q <= m
  PROVE  Latest(given) = given[m]
<1> DEFINE R == {r \in Rounds : given[r] # NoDecision}
           last == CHOOSE r \in R : \A q \in R : q <= r
<1>1. m \in R /\ \A q \in R : q <= m
  OBVIOUS
<1>2. last \in R /\ \A q \in R : q <= last
  BY <1>1
<1>3. last = m
  BY <1>1, <1>2 DEF Rounds
<1>4. QED
  BY <1>1, <1>3 DEF Latest

\* A side without a decision has none to read.
LEMMA LatestOfNone ==
  ASSUME NEW given, \A r \in Rounds : given[r] = NoDecision
  PROVE  Latest(given) = NoDecision
BY DEF Latest

\* A new decision is read from then on, unless there is one of a later round.
LEMMA LatestAfter ==
  ASSUME NEW given, DOMAIN given = Rounds, NEW r \in Rounds, NEW d, d # NoDecision,
         given = [q \in Rounds |-> given[q]]
  PROVE  /\ Latest([given EXCEPT ![r] = d]) \in {d, Latest(given)}
         /\ (\A q \in Rounds : given[q] # NoDecision => q <= r)
              => Latest([given EXCEPT ![r] = d]) = d
<1> DEFINE now == [given EXCEPT ![r] = d]
           R   == {q \in Rounds : given[q] # NoDecision}
<1>1. now[r] = d /\ \A q \in Rounds : q # r => now[q] = given[q]
  OBVIOUS
<1> HIDE DEF now
<1>2. ASSUME \A q \in R : q <= r PROVE Latest(now) = d
  <2>1. \A q \in Rounds : now[q] # NoDecision => q <= r
    BY <1>1, <1>2 DEF Rounds
  <2>2. QED
    BY <1>1, <2>1, LatestIsLast
<1>3. ASSUME NEW p \in R, ~ (p <= r) PROVE Latest(now) = Latest(given)
  <2>1. PICK m \in R : \A q \in R : q <= m
    BY <1>3, LastRound
  <2>2. m \in Rounds /\ m # r /\ r <= m
    BY <1>3, <2>1 DEF Rounds
  <2>3. Latest(given) = given[m]
    BY <2>1, LatestIsLast
  <2>4. Latest(now) = now[m]
    BY <1>1, <2>1, <2>2, LatestIsLast
  <2>5. QED
    BY <1>1, <2>2, <2>3, <2>4
<1>4. QED
  BY <1>2, <1>3 DEF now

-----------------------------------------------------------------------------
\* What a worker's decisions do to the ledger.

\* The phase and the number of the round at work.
LEMMA RoundNumbers ==
  ASSUME TypeOK
  PROVE  /\ Phase \in {"plan", "code"}
         /\ Phase = "plan" => Round = planRound + 1
         /\ Phase = "code" => Round = codeRound + 1
         /\ planRound \in Nat /\ codeRound \in Nat
BY LimitsPositive DEF TypeOK, Phase, Round

\* One side decides d[f] on each finding f of D.
NewDecisions(D, side, d) ==
  /\ decisions' = [f \in Findings |->
       IF f \in D THEN [decisions[f] EXCEPT ![side][Round] = d[f]] ELSE decisions[f]]
  /\ newest' = [f \in Findings |->
       IF f \in D THEN [newest[f] EXCEPT ![side] = d[f].kind] ELSE newest[f]]
  /\ phases' = [f \in Findings |-> IF f \in D THEN phases[f] \cup {Phase} ELSE phases[f]]
  /\ \A f \in Findings \ D : status'[f] = status[f]
  /\ UNCHANGED <<observed, rounds, seen>>

\* What they become, side by side.
LEMMA DecisionsAfter ==
  ASSUME TypeOK, Round \in Rounds,
         NEW STATE D, NEW STATE side, NEW STATE d,
         D \in SUBSET Findings, side \in Sides, d \in [D -> Decision],
         NewDecisions(D, side, d)
  PROVE  /\ \A f \in Findings : f \notin D => decisions'[f] = decisions[f]
         /\ \A f \in D, s \in Sides : decisions'[f][s] =
              IF s = side THEN [decisions[f][s] EXCEPT ![Round] = d[f]] ELSE decisions[f][s]
         /\ \A f \in D, s \in Sides, r \in Rounds : decisions'[f][s][r] =
              IF s = side /\ r = Round THEN d[f] ELSE decisions[f][s][r]
         /\ \A f \in D : d[f] # NoDecision
         /\ decisions' \in [Findings -> [Sides -> [Rounds -> Decision \cup {NoDecision}]]]
         /\ newest' \in [Findings -> [Sides -> Kinds \cup {"none"}]]
         /\ phases' \in [Findings -> SUBSET {"plan", "code"}]
<1>1. \A f \in Findings : decisions[f] \in [Sides -> [Rounds -> Decision \cup {NoDecision}]]
  BY DEF TypeOK
<1>2. \A f \in Findings, s \in Sides : decisions[f][s] \in [Rounds -> Decision \cup {NoDecision}]
  BY <1>1
<1>3. \A f \in D : d[f] \in Decision /\ d[f].kind \in Kinds
  BY DEF Decision
<1>4. \A f \in D : d[f] # NoDecision
  BY <1>3 DEF NoDecision, Kinds
<1>5. \A f \in Findings : f \notin D => decisions'[f] = decisions[f]
  BY DEF NewDecisions
<1>6. \A f \in D, s \in Sides : decisions'[f][s] =
        IF s = side THEN [decisions[f][s] EXCEPT ![Round] = d[f]] ELSE decisions[f][s]
  BY <1>1 DEF NewDecisions
<1>7. \A f \in D, s \in Sides, r \in Rounds : decisions'[f][s][r] =
        IF s = side /\ r = Round THEN d[f] ELSE decisions[f][s][r]
  <2> SUFFICES ASSUME NEW f \in D, NEW s \in Sides, NEW r \in Rounds
               PROVE  decisions'[f][s][r] =
                        IF s = side /\ r = Round THEN d[f] ELSE decisions[f][s][r]
    OBVIOUS
  <2>1. DOMAIN decisions[f][s] = Rounds
    BY <1>2
  <2>2. CASE s = side
    <3>1. decisions'[f][s] = [decisions[f][s] EXCEPT ![Round] = d[f]]
      BY <1>6, <2>2
    <3>2. QED
      BY <2>1, <2>2, <3>1
  <2>3. CASE s # side
    BY <1>6, <2>3
  <2>4. QED
    BY <2>2, <2>3
<1>8. decisions' \in [Findings -> [Sides -> [Rounds -> Decision \cup {NoDecision}]]]
  <2>1. \A f \in D : [decisions[f] EXCEPT ![side][Round] = d[f]]
                       \in [Sides -> [Rounds -> Decision \cup {NoDecision}]]
    BY <1>1, <1>2, <1>3
  <2>2. QED
    BY <1>1, <2>1 DEF NewDecisions
<1>9. newest' \in [Findings -> [Sides -> Kinds \cup {"none"}]]
  BY <1>3 DEF NewDecisions, TypeOK
<1>10. phases' \in [Findings -> SUBSET {"plan", "code"}]
  BY RoundNumbers DEF NewDecisions, TypeOK
<1>11. QED
  BY <1>4, <1>5, <1>6, <1>7, <1>8, <1>9, <1>10

\* The order of the decisions, and what the rounds observed of them, stays.
LEMMA NewDecisionsKeep ==
  ASSUME IInv, Round \in Rounds,
         NEW STATE D, NEW STATE side, NEW STATE d,
         D \in SUBSET Findings, side \in Sides, d \in [D -> Decision],
         NewDecisions(D, side, d)
  PROVE  Undecided' /\ RoundsInOrder' /\ LatestIsNewest' /\ ObservedInPhase'
<1> USE DEF IInv
<1>1. /\ \A f \in Findings : f \notin D => decisions'[f] = decisions[f]
      /\ \A f \in D, s \in Sides : decisions'[f][s] =
           IF s = side THEN [decisions[f][s] EXCEPT ![Round] = d[f]] ELSE decisions[f][s]
      /\ \A f \in D, s \in Sides, r \in Rounds : decisions'[f][s][r] =
           IF s = side /\ r = Round THEN d[f] ELSE decisions[f][s][r]
      /\ \A f \in D : d[f] # NoDecision
  <2>1. TypeOK
    OBVIOUS
  <2> HIDE DEF IInv
  <2>2. QED
    BY <2>1, DecisionsAfter
<1>2. /\ Phase \in {"plan", "code"}
      /\ Phase = "plan" => Round = planRound + 1
      /\ Phase = "code" => Round = codeRound + 1
      /\ planRound \in Nat /\ codeRound \in Nat
  BY RoundNumbers
<1>3. /\ \A f \in D : phases'[f] = phases[f] \cup {Phase}
      /\ \A f \in Findings : f \notin D =>
           phases'[f] = phases[f] /\ newest'[f] = newest[f] /\ status'[f] = status[f]
      /\ \A f \in D, s \in Sides : newest'[f][s] = IF s = side THEN d[f].kind ELSE newest[f][s]
      /\ observed' = observed /\ seen' = seen
      /\ planRound' = planRound /\ codeRound' = codeRound
  BY DEF NewDecisions, TypeOK, rounds
<1>4. \A f \in Findings : phases[f] \in {{}, {"plan"}, {"code"}, {"plan", "code"}}
  <2>1. \A f \in Findings : phases[f] \in SUBSET {"plan", "code"}
    BY DEF TypeOK
  <2>2. \A S \in SUBSET {"plan", "code"} : S \in {{}, {"plan"}, {"code"}, {"plan", "code"}}
    OBVIOUS
  <2>3. QED
    BY <2>1, <2>2
\* A finding of one phase was of that phase, or of none, before.
<1>5. \A f \in D : OnePhase(f)' => phases'[f] = {Phase} /\ phases[f] \in {{}, {Phase}}
  <2> SUFFICES ASSUME NEW f \in D, phases'[f] \in {{"plan"}, {"code"}}
               PROVE  phases'[f] = {Phase} /\ phases[f] \in {{}, {Phase}}
    BY DEF OnePhase
  <2>1. phases[f] \in {{}, {"plan"}, {"code"}, {"plan", "code"}} /\ phases'[f] = phases[f] \cup {Phase}
    BY <1>3, <1>4
  <2>2. QED
    BY <1>2, <2>1
<1>6. Undecided'
  <2>1. \A f \in D : Phase \in phases'[f]
    BY <1>3
  <2>2. QED
    BY <1>1, <1>3, <2>1 DEF Undecided
\* Nothing it was decided on before is of a later round.
<1>7. \A f \in D : OnePhase(f)' =>
        \A s \in Sides, r \in Rounds : decisions[f][s][r] # NoDecision => r <= Round
  BY <1>2, <1>5 DEF Undecided, RoundsInOrder
<1>8. RoundsInOrder'
  <2> SUFFICES ASSUME NEW f \in Findings, NEW s \in Sides, NEW r \in Rounds,
                      decisions'[f][s][r] # NoDecision
               PROVE  /\ phases'[f] = {"plan"} => r <= planRound + 1
                      /\ phases'[f] = {"code"} => r <= codeRound + 1
    BY <1>3 DEF RoundsInOrder
  <2>1. CASE f \notin D
    BY <1>1, <1>3, <2>1 DEF RoundsInOrder
  <2>2. CASE f \in D /\ OnePhase(f)'
    <3>1. r <= Round /\ phases'[f] = {Phase}
      BY <1>1, <1>5, <1>7, <2>2 DEF Rounds
    <3>2. QED
      BY <1>2, <3>1
  <2>3. QED
    BY <2>1, <2>2 DEF OnePhase
<1>9. LatestIsNewest'
  <2> SUFFICES ASSUME NEW f \in Findings, NEW s \in Sides, OnePhase(f)'
               PROVE  Latest(decisions'[f][s]).kind = newest'[f][s]
    BY DEF LatestIsNewest, Latest
  <2>1. CASE f \notin D
    BY <1>1, <1>3, <2>1 DEF LatestIsNewest, OnePhase
  <2>2. CASE f \in D /\ s = side
    <3>1. /\ DOMAIN decisions[f][s] = Rounds
          /\ decisions[f][s] = [q \in Rounds |-> decisions[f][s][q]]
      BY DEF TypeOK
    <3>2. d[f] # NoDecision /\ \A q \in Rounds : decisions[f][s][q] # NoDecision => q <= Round
      BY <1>1, <1>7, <2>2
    <3>3. Latest([decisions[f][s] EXCEPT ![Round] = d[f]]) = d[f]
      BY <3>1, <3>2, LatestAfter
    <3>4. decisions'[f][s] = [decisions[f][s] EXCEPT ![Round] = d[f]] /\ newest'[f][s] = d[f].kind
      BY <1>1, <1>3, <2>2
    <3>5. QED
      BY <3>3, <3>4
  <2>3. CASE f \in D /\ s # side
    <3>0. decisions'[f][s] = decisions[f][s] /\ newest'[f][s] = newest[f][s]
      BY <1>1, <1>3, <2>3
    <3>1. CASE phases[f] = {}
      <4>1. newest[f][s] = "none" /\ \A r \in Rounds : decisions[f][s][r] = NoDecision
        BY <3>1 DEF Undecided
      <4>2. Latest(decisions[f][s]) = NoDecision
        BY <4>1, LatestOfNone
      <4>3. QED
        BY <3>0, <4>1, <4>2 DEF NoDecision
    <3>2. CASE phases[f] # {}
      <4>1. OnePhase(f)
        BY <1>2, <1>5, <2>3, <3>2 DEF OnePhase
      <4>2. QED
        BY <3>0, <4>1 DEF LatestIsNewest
    <3>3. QED
      BY <3>1, <3>2
  <2>4. QED
    BY <2>1, <2>2, <2>3
<1>10. ObservedInPhase'
  <2> SUFFICES ASSUME NEW f \in Findings
               PROVE  /\ phases'[f] = {"plan"} => observed[f].round <= planRound
                      /\ phases'[f] = {"code"} => observed[f].round <= codeRound
                      /\ OnePhase(f)' /\ observed[f].round # 0 =>
                           \A s \in Sides :
                             decisions'[f][s][observed[f].round].kind = "CHANGE_REQUIRED"
                               => seen[f][s] = "CHANGE_REQUIRED"
    BY <1>3 DEF ObservedInPhase
  <2>1. CASE f \notin D
    BY <1>1, <1>3, <2>1 DEF ObservedInPhase, OnePhase
  <2>2. CASE f \in D /\ phases[f] = {}
    BY <1>2, <2>2 DEF Undecided
  <2>3. CASE f \in D /\ phases[f] # {} /\ OnePhase(f)'
    <3>1. OnePhase(f) /\ phases[f] = {Phase} /\ phases'[f] = {Phase}
      BY <1>2, <1>5, <2>3 DEF OnePhase
    <3>2. observed[f].round \in {0} \cup Rounds
      BY DEF TypeOK
    <3>3. observed[f].round <= IF Phase = "plan" THEN planRound ELSE codeRound
      BY <1>2, <3>1 DEF ObservedInPhase
    <3>4. observed[f].round # Round
      BY <1>2, <3>2, <3>3 DEF Rounds
    <3>5. observed[f].round # 0 => \A s \in Sides :
            decisions'[f][s][observed[f].round] = decisions[f][s][observed[f].round]
      BY <1>1, <2>3, <3>2, <3>4
    <3>6. QED
      BY <1>2, <3>1, <3>3, <3>5 DEF ObservedInPhase
  <2>4. QED
    BY <2>1, <2>2, <2>3 DEF OnePhase
<1>11. QED
  BY <1>6, <1>8, <1>9, <1>10

\* A finding is resolved by two approvals on one source.
LEMMA StatusFacts ==
  ASSUME NEW given
  PROVE  /\ StatusOf(given) \in Unresolved \cup {"RESOLVED"}
         /\ StatusOf(given) = "RESOLVED" <=>
              /\ \A s \in Sides : Latest(given[s]).kind = "APPROVE"
              /\ SameSource(Latest(given["CLAUDE"]), Latest(given["CODEX"]))
BY DEF StatusOf, Unresolved, Sides

\* The decisions of a planner or a reviewer.
LEMMA DecideKeeps ==
  ASSUME IInv, Round \in Rounds,
         NEW STATE D, NEW STATE side, NEW STATE kind,
         D \in SUBSET Findings, side \in Sides, kind \in [D -> DecisionKinds],
         Decide(D, side, kind), UNCHANGED <<observed, rounds, seen, snapshot>>
  PROVE  /\ decisions' \in [Findings -> [Sides -> [Rounds -> Decision \cup {NoDecision}]]]
         /\ newest' \in [Findings -> [Sides -> Kinds \cup {"none"}]]
         /\ phases' \in [Findings -> SUBSET {"plan", "code"}]
         /\ status' \in [Findings -> Unresolved \cup {"absent", "RESOLVED"}]
         /\ \A f \in Findings : f \notin D => status'[f] = status[f] /\ phases'[f] = phases[f]
         /\ \A f \in D : Phase \in phases'[f]
         /\ Undecided' /\ RoundsInOrder' /\ LatestIsNewest' /\ ObservedInPhase'
         /\ ResolvedAtOnce' /\ OneDecisionARound' /\ ResolvedWithinPhase'
<1> DEFINE d == [f \in D |-> [kind |-> kind[f], snapshot |-> snapshot, earlier |-> {}]]
<1>0. TypeOK /\ OneDecisionARound /\ ResolvedAtOnce /\ ResolvedWithinPhase
  BY DEF IInv
<1>1. \A f \in D : kind[f] \in Kinds
  BY LedgerConstants
<1>2. d \in [D -> Decision]
  BY <1>0, <1>1 DEF Decision, TypeOK
<1>3. \A f \in D : d[f].kind = kind[f] /\ d[f].earlier = {}
  OBVIOUS
<1>4. \A f \in Findings : status'[f] = IF f \in D THEN StatusOf(decisions'[f]) ELSE status[f]
  BY DEF Decide
<1>5. NewDecisions(D, side, d)
  <2>1. /\ newest' = [f \in Findings |->
             IF f \in D THEN [newest[f] EXCEPT ![side] = d[f].kind] ELSE newest[f]]
        /\ phases' = [f \in Findings |-> IF f \in D THEN phases[f] \cup {Phase} ELSE phases[f]]
    BY <1>3 DEF Decide, Given
  <2>2. decisions' = [f \in Findings |->
          IF f \in D THEN [decisions[f] EXCEPT ![side][Round] = d[f]] ELSE decisions[f]]
    BY DEF Decide
  <2>3. QED
    BY <1>4, <2>1, <2>2 DEF NewDecisions, rounds
<1> HIDE DEF d
<1>6. /\ \A f \in Findings : f \notin D => decisions'[f] = decisions[f]
      /\ \A f \in D, s \in Sides, r \in Rounds : decisions'[f][s][r] =
           IF s = side /\ r = Round THEN d[f] ELSE decisions[f][s][r]
      /\ decisions' \in [Findings -> [Sides -> [Rounds -> Decision \cup {NoDecision}]]]
      /\ newest' \in [Findings -> [Sides -> Kinds \cup {"none"}]]
      /\ phases' \in [Findings -> SUBSET {"plan", "code"}]
  BY <1>0, <1>2, <1>5, DecisionsAfter
<1>7. Undecided' /\ RoundsInOrder' /\ LatestIsNewest' /\ ObservedInPhase'
  BY <1>2, <1>5, NewDecisionsKeep
<1>8. \A f \in Findings : f \notin D =>
        status'[f] = status[f] /\ phases'[f] = phases[f] /\ newest'[f] = newest[f]
  BY <1>4, <1>5 DEF NewDecisions
<1>9. \A f \in D : Phase \in phases'[f]
  BY <1>5 DEF NewDecisions
<1>10. status' \in [Findings -> Unresolved \cup {"absent", "RESOLVED"}]
  <2>1. \A f \in Findings : status'[f] \in Unresolved \cup {"absent", "RESOLVED"}
    <3>1. ASSUME NEW f \in Findings PROVE status[f] \in Unresolved \cup {"absent", "RESOLVED"}
      BY <1>0 DEF TypeOK
    <3>2. \A f \in Findings : StatusOf(decisions'[f]) \in Unresolved \cup {"RESOLVED"}
      BY StatusFacts
    <3>3. QED
      BY <1>4, <3>1, <3>2
  <2>2. QED
    BY <2>1 DEF Decide
<1>11. ResolvedAtOnce'
  <2> SUFFICES ASSUME NEW f \in Findings, StatusOf(decisions'[f]) = "RESOLVED"
               PROVE  status'[f] = "RESOLVED"
    BY DEF ResolvedAtOnce, StatusOf, Latest, SameSource
  <2>1. QED
    BY <1>0, <1>4, <1>6 DEF ResolvedAtOnce
<1>12. OneDecisionARound'
  <2> SUFFICES ASSUME NEW f \in Findings, NEW s \in Sides, NEW r \in Rounds,
                      decisions'[f][s][r].kind # "VERIFY_REQUIRED"
               PROVE  decisions'[f][s][r].earlier = {}
    BY DEF OneDecisionARound
  <2>1. decisions'[f][s][r] = decisions[f][s][r] \/ (f \in D /\ decisions'[f][s][r] = d[f])
    BY <1>6
  <2>2. QED
    BY <1>0, <1>3, <2>1 DEF OneDecisionARound
<1>13. ResolvedWithinPhase'
  <2> SUFFICES ASSUME NEW f \in Findings, status'[f] = "RESOLVED", OnePhase(f)', NEW s \in Sides
               PROVE  newest'[f][s] = "APPROVE"
    BY DEF ResolvedWithinPhase, BothApprove
  <2>1. CASE f \in D
    <3>1. Latest(decisions'[f][s]).kind = "APPROVE"
      BY <1>4, <2>1, StatusFacts
    <3>2. Latest(decisions'[f][s]).kind = newest'[f][s]
      BY <1>7 DEF LatestIsNewest, Latest
    <3>3. QED
      BY <3>1, <3>2
  <2>2. CASE f \notin D
    BY <1>0, <1>8, <2>2 DEF ResolvedWithinPhase, BothApprove, OnePhase
  <2>3. QED
    BY <2>1, <2>2
<1>14. QED
  BY <1>6, <1>7, <1>8, <1>9, <1>10, <1>11, <1>12, <1>13

\* What the implementer says of the findings it addressed.
LEMMA ImplementKeeps ==
  ASSUME IInv, Implement
  PROVE  /\ decisions' \in [Findings -> [Sides -> [Rounds -> Decision \cup {NoDecision}]]]
         /\ newest' \in [Findings -> [Sides -> Kinds \cup {"none"}]]
         /\ phases' \in [Findings -> SUBSET {"plan", "code"}]
         /\ status' \in [Findings -> Unresolved \cup {"absent", "RESOLVED"}]
         /\ \A f \in Findings : (status'[f] \in Unresolved) <=> (status[f] \in Unresolved)
         /\ \A f \in Findings : status'[f] = "RESOLVED" => status[f] = "RESOLVED"
         /\ Undecided' /\ RoundsInOrder' /\ LatestIsNewest' /\ ObservedInPhase'
         /\ ResolvedAtOnce' /\ OneDecisionARound' /\ ResolvedWithinPhase'
<1>0. TypeOK /\ OneDecisionARound /\ ResolvedAtOnce /\ ResolvedWithinPhase /\ Round \in Rounds
  BY DEF IInv, Implement
<1>1. PICK D \in SUBSET OpenFindings :
        /\ status' = [f \in Findings |-> IF f \in D THEN "VERIFY_REQUIRED" ELSE status[f]]
        /\ decisions' = [f \in Findings |->
             LET last == decisions[f]["CODEX"][Round]
             IN IF f \in D
                THEN TakeUp(f, [kind |-> "VERIFY_REQUIRED", snapshot |-> snapshot,
                                earlier |-> last.earlier \cup ({last.kind} \cap Kinds)])
                ELSE decisions[f]]
        /\ Given(D, "CODEX", [f \in D |-> "VERIFY_REQUIRED"])
  BY DEF Implement, Addressable, Delivered
<1> DEFINE last(f) == decisions[f]["CODEX"][Round]
           d == [f \in D |-> [kind |-> "VERIFY_REQUIRED", snapshot |-> snapshot,
                              earlier |-> last(f).earlier \cup ({last(f).kind} \cap Kinds)]]
<1>2. D \in SUBSET Findings /\ "CODEX" \in Sides
  BY DEF OpenFindings, Sides
<1>3. d \in [D -> Decision]
  <2>1. \A f \in D : last(f) \in Decision \cup {NoDecision}
    BY <1>0, <1>2 DEF TypeOK
  <2>2. \A f \in D : last(f).earlier \in SUBSET Kinds
    BY <2>1 DEF Decision, NoDecision
  <2> HIDE DEF last
  <2>3. QED
    BY <1>0, <2>2 DEF Decision, TypeOK, Kinds
<1>4. \A f \in D : d[f].kind = "VERIFY_REQUIRED"
  OBVIOUS
<1>5. /\ \A f \in D : status'[f] = "VERIFY_REQUIRED" /\ status[f] \in Unresolved
      /\ \A f \in Findings : f \notin D => status'[f] = status[f]
  BY <1>1, <1>2 DEF OpenFindings
<1>6. NewDecisions(D, "CODEX", d)
  <2>1. newest' = [f \in Findings |->
          IF f \in D THEN [newest[f] EXCEPT !["CODEX"] = d[f].kind] ELSE newest[f]]
    BY <1>1, <1>4 DEF Given
  <2>2. decisions' = [f \in Findings |->
          IF f \in D THEN [decisions[f] EXCEPT !["CODEX"][Round] = d[f]] ELSE decisions[f]]
    BY <1>1 DEF TakeUp
  <2>3. phases' = [f \in Findings |-> IF f \in D THEN phases[f] \cup {Phase} ELSE phases[f]]
    BY <1>1 DEF Given
  <2>4. UNCHANGED <<observed, rounds, seen>>
    BY DEF Implement
  <2>5. QED
    BY <1>5, <2>1, <2>2, <2>3, <2>4 DEF NewDecisions
<1> HIDE DEF d
<1>7. /\ \A f \in Findings : f \notin D => decisions'[f] = decisions[f]
      /\ \A f \in D, s \in Sides : decisions'[f][s] =
           IF s = "CODEX" THEN [decisions[f][s] EXCEPT ![Round] = d[f]] ELSE decisions[f][s]
      /\ \A f \in D, s \in Sides, r \in Rounds : decisions'[f][s][r] =
           IF s = "CODEX" /\ r = Round THEN d[f] ELSE decisions[f][s][r]
      /\ \A f \in D : d[f] # NoDecision
      /\ decisions' \in [Findings -> [Sides -> [Rounds -> Decision \cup {NoDecision}]]]
      /\ newest' \in [Findings -> [Sides -> Kinds \cup {"none"}]]
      /\ phases' \in [Findings -> SUBSET {"plan", "code"}]
  BY <1>0, <1>2, <1>3, <1>6, DecisionsAfter
<1>8. Undecided' /\ RoundsInOrder' /\ LatestIsNewest' /\ ObservedInPhase'
  BY <1>0, <1>2, <1>3, <1>6, NewDecisionsKeep
<1>9. status' \in [Findings -> Unresolved \cup {"absent", "RESOLVED"}]
  BY <1>0, <1>1 DEF TypeOK, Unresolved
<1>10. ResolvedAtOnce'
  <2> SUFFICES ASSUME NEW f \in Findings, StatusOf(decisions'[f]) = "RESOLVED"
               PROVE  status'[f] = "RESOLVED"
    BY DEF ResolvedAtOnce, StatusOf, Latest, SameSource
  <2>1. CASE f \in D
    <3>1. /\ DOMAIN decisions[f]["CODEX"] = Rounds
          /\ decisions[f]["CODEX"] = [q \in Rounds |-> decisions[f]["CODEX"][q]]
      BY <1>0, <1>2 DEF TypeOK
    <3>2. Latest([decisions[f]["CODEX"] EXCEPT ![Round] = d[f]])
            \in {d[f], Latest(decisions[f]["CODEX"])}
      BY <1>0, <1>7, <2>1, <3>1, LatestAfter
    <3>3. /\ decisions'[f]["CODEX"] = [decisions[f]["CODEX"] EXCEPT ![Round] = d[f]]
          /\ decisions'[f]["CLAUDE"] = decisions[f]["CLAUDE"]
      BY <1>7, <2>1 DEF Sides
    <3>4. Latest(decisions'[f]["CODEX"]) \in {d[f], Latest(decisions[f]["CODEX"])}
      BY <3>2, <3>3
    <3>5. Latest(decisions'[f]["CODEX"]) # d[f]
      BY <1>2, <1>4, <2>1, StatusFacts
    <3>6. \A s \in Sides : Latest(decisions'[f][s]) = Latest(decisions[f][s])
      BY <3>3, <3>4, <3>5 DEF Sides
    <3>7. StatusOf(decisions[f]) = "RESOLVED"
      BY <3>6, StatusFacts DEF Sides
    <3>8. QED
      BY <1>0, <1>5, <2>1, <3>7 DEF ResolvedAtOnce, Unresolved
  <2>2. CASE f \notin D
    BY <1>0, <1>5, <1>7, <2>2 DEF ResolvedAtOnce
  <2>3. QED
    BY <2>1, <2>2
<1>11. OneDecisionARound'
  <2> SUFFICES ASSUME NEW f \in Findings, NEW s \in Sides, NEW r \in Rounds,
                      decisions'[f][s][r].kind # "VERIFY_REQUIRED"
               PROVE  decisions'[f][s][r].earlier = {}
    BY DEF OneDecisionARound
  <2>1. decisions'[f][s][r] = decisions[f][s][r]
    <3>1. CASE f \in D /\ s = "CODEX" /\ r = Round
      <4>1. decisions'[f][s][r] = d[f]
        BY <1>7, <3>1
      <4>2. QED
        BY <1>4, <3>1, <4>1
    <3>2. CASE f \in D /\ ~ (s = "CODEX" /\ r = Round)
      BY <1>7, <3>2
    <3>3. CASE f \notin D
      BY <1>7, <3>3
    <3>4. QED
      BY <3>1, <3>2, <3>3
  <2>2. QED
    BY <1>0, <2>1 DEF OneDecisionARound
<1>12. ResolvedWithinPhase'
  <2>1. \A f \in Findings : f \notin D => newest'[f] = newest[f] /\ phases'[f] = phases[f]
    BY <1>6 DEF NewDecisions
  <2>2. QED
    BY <1>0, <1>5, <2>1 DEF ResolvedWithinPhase, BothApprove, OnePhase
<1>13. QED
  BY <1>5, <1>7, <1>8, <1>9, <1>10, <1>11, <1>12 DEF Unresolved

-----------------------------------------------------------------------------
\* What a round does to the ledger.

LEMMA ObserveKeeps ==
  ASSUME IInv, NEW STATE now, now \in Rounds, Observe(now), UNCHANGED <<status, decisions>>,
         \/ /\ now = planRound + 1 /\ planRound' = planRound + 1 /\ codeRound' = codeRound
            /\ \A f \in OpenFindings : "plan" \in phases[f]
         \/ /\ now = codeRound + 1 /\ codeRound' = codeRound + 1 /\ planRound' = planRound
            /\ \A f \in OpenFindings : "code" \in phases[f]
  PROVE  /\ observed' \in [Findings -> [round : {0} \cup Rounds, rank : 0 .. 2]]
         /\ seen' \in [Findings -> [Sides -> Kinds \cup {"none"}]]
         /\ Undecided' /\ RoundsInOrder' /\ LatestIsNewest' /\ ObservedInPhase'
         /\ ResolvedAtOnce' /\ OneDecisionARound' /\ ResolvedWithinPhase'
<1> USE DEF IInv
<1>1. planRound \in Nat /\ codeRound \in Nat
  BY RoundNumbers
<1>2. newest' = newest /\ phases' = phases /\ status' = status /\ decisions' = decisions
  BY DEF Observe
<1>3. \A f \in OpenFindings : observed'[f].round = now /\ seen'[f] = newest[f]
  BY DEF Observe, OpenFindings
<1>4. \A f \in Findings : f \notin OpenFindings => observed'[f] = observed[f] /\ seen'[f] = seen[f]
  BY DEF Observe
<1>5. observed' \in [Findings -> [round : {0} \cup Rounds, rank : 0 .. 2]]
  <2>1. \A f \in Findings : observed[f] \in [round : {0} \cup Rounds, rank : 0 .. 2]
    BY DEF TypeOK
  <2>2. \A f \in Findings : Rank(status[f]) \in 0 .. 2
    BY DEF Rank
  <2>3. QED
    BY <2>1, <2>2 DEF Observe
<1>6. seen' \in [Findings -> [Sides -> Kinds \cup {"none"}]]
  BY DEF Observe, TypeOK
<1>7. Undecided'
  BY <1>2, <1>4 DEF Undecided, OpenFindings, Unresolved
<1>8. RoundsInOrder'
  BY <1>1, <1>2 DEF RoundsInOrder, Rounds
<1>9. LatestIsNewest' /\ ResolvedAtOnce' /\ OneDecisionARound' /\ ResolvedWithinPhase'
  <2>1. LatestIsNewest'
    <3> SUFFICES ASSUME NEW f \in Findings, NEW s \in Sides, OnePhase(f)'
                 PROVE  Latest(decisions'[f][s]).kind = newest'[f][s]
      BY DEF LatestIsNewest, Latest
    <3>1. QED
      BY <1>2 DEF LatestIsNewest, OnePhase
  <2>2. ResolvedAtOnce'
    <3> SUFFICES ASSUME NEW f \in Findings, StatusOf(decisions'[f]) = "RESOLVED"
                 PROVE  status'[f] = "RESOLVED"
      BY DEF ResolvedAtOnce, StatusOf, Latest, SameSource
    <3>1. QED
      BY <1>2 DEF ResolvedAtOnce
  <2>3. OneDecisionARound' /\ ResolvedWithinPhase'
    BY <1>2 DEF OneDecisionARound, ResolvedWithinPhase, BothApprove, OnePhase
  <2>4. QED
    BY <2>1, <2>2, <2>3
<1>10. ObservedInPhase'
  <2> SUFFICES ASSUME NEW f \in Findings
               PROVE  /\ phases[f] = {"plan"} => observed'[f].round <= planRound'
                      /\ phases[f] = {"code"} => observed'[f].round <= codeRound'
                      /\ OnePhase(f) /\ observed'[f].round # 0 =>
                           \A s \in Sides :
                             decisions[f][s][observed'[f].round].kind = "CHANGE_REQUIRED"
                               => seen'[f][s] = "CHANGE_REQUIRED"
    BY <1>2 DEF ObservedInPhase, OnePhase
  <2>0. observed[f].round \in Nat
    BY DEF TypeOK, Rounds
  <2>1. CASE f \in OpenFindings
    <3>1. /\ phases[f] = {"plan"} => now = planRound'
          /\ phases[f] = {"code"} => now = codeRound'
      BY <2>1
    <3>2. ASSUME OnePhase(f), NEW s \in Sides, decisions[f][s][now].kind = "CHANGE_REQUIRED"
          PROVE  newest[f][s] = "CHANGE_REQUIRED"
      <4>1. decisions[f][s][now] # NoDecision
        BY <3>2 DEF NoDecision
      <4>2. \A q \in Rounds : decisions[f][s][q] # NoDecision => q <= now
        BY <1>1, <2>1, <3>2 DEF RoundsInOrder, OnePhase
      <4>3. Latest(decisions[f][s]) = decisions[f][s][now]
        BY <4>1, <4>2, LatestIsLast
      <4>4. QED
        BY <3>2, <4>3 DEF LatestIsNewest
    <3>3. QED
      BY <1>1, <1>3, <2>1, <3>1, <3>2
  <2>2. CASE f \notin OpenFindings
    BY <1>1, <1>4, <2>0, <2>2 DEF ObservedInPhase
  <2>3. QED
    BY <2>1, <2>2
<1>11. QED
  BY <1>5, <1>6, <1>7, <1>8, <1>9, <1>10

-----------------------------------------------------------------------------
\* The invariant.

LEMMA InitIInv == Init => IInv
<1> SUFFICES ASSUME Init PROVE IInv
  OBVIOUS
<1>1. TypeOK
  <2>1. /\ state \in LoopState /\ blocked \in LoopState \cup {"NONE"}
        /\ pending \subseteq Keys /\ approved \subseteq Keys \ {Signal}
        /\ snapshot \in Snapshots
    BY DEF Init, LoopState, WorkerStates, PlannerStates, ImplementerStates
  <2>2. /\ status \in [Findings -> Unresolved \cup {"absent", "RESOLVED"}]
        /\ decisions \in [Findings -> [Sides -> [Rounds -> Decision \cup {NoDecision}]]]
        /\ observed \in [Findings -> [round : {0} \cup Rounds, rank : 0 .. 2]]
    BY DEF Init, Unobserved
  <2>3. planRound \in 0 .. PlanLimit /\ codeRound \in 0 .. CodeLimit
    BY LimitsPositive DEF Init
  <2>4. /\ newest \in [Findings -> [Sides -> Kinds \cup {"none"}]]
        /\ seen \in [Findings -> [Sides -> Kinds \cup {"none"}]]
        /\ phases \in [Findings -> SUBSET {"plan", "code"}]
    BY DEF Init, Nobody
  <2>5. QED
    BY <2>1, <2>2, <2>3, <2>4 DEF TypeOK
<1>2. /\ \A f \in Findings, s \in Sides :
           newest[f][s] = "none" /\ \A r \in Rounds : decisions[f][s][r] = NoDecision
      /\ \A f \in Findings : /\ status[f] = "absent" /\ phases[f] = {}
                             /\ observed[f].round = 0
  BY DEF Init, Nobody, Unobserved
<1>3. \A f \in Findings, s \in Sides : Latest(decisions[f][s]) = NoDecision
  BY <1>2, LatestOfNone
<1>4. Undecided /\ RoundsInOrder /\ OneDecisionARound /\ ResolvedWithinPhase
  BY <1>2 DEF Undecided, RoundsInOrder, OneDecisionARound, ResolvedWithinPhase, NoDecision
<1>5. LatestIsNewest
  BY <1>2, <1>3 DEF LatestIsNewest, NoDecision
<1>6. ResolvedAtOnce
  BY <1>3, StatusFacts DEF ResolvedAtOnce, NoDecision, Sides
<1>7. ObservedInPhase
  BY <1>2 DEF ObservedInPhase, OnePhase
<1>8. ReviewedBeforeRound
  BY DEF Init, ReviewedBeforeRound
<1>9. QED
  BY <1>1, <1>4, <1>5, <1>6, <1>7, <1>8 DEF IInv

\* The parts of the state the routes are about, and their types.
RouteType ==
  /\ state \in LoopState
  /\ blocked \in LoopState \cup {"NONE"}
  /\ pending \subseteq Keys
  /\ approved \subseteq Keys \ {Signal}
  /\ snapshot \in Snapshots
  /\ planRound \in 0 .. PlanLimit
  /\ codeRound \in 0 .. CodeLimit

\* The successors of a review in the table of transition().
LEMMA ReviewSuccessors ==
  /\ Next_("PLAN_REVIEW") = "PLAN_CONSENSUS_EVALUATE"
  /\ Next_("CODE_REVIEW") = "CROSS_CONFIRM"
  /\ Next_("CROSS_CONFIRM") = "CONSENSUS_EVALUATE"
<1>1. ASSUME NEW t \in LoopState
      PROVE  /\ <<"PLAN_REVIEW", "ARTIFACT_OK", t>> \in DirectEdges <=> t = "PLAN_CONSENSUS_EVALUATE"
             /\ <<"CODE_REVIEW", "ARTIFACT_OK", t>> \in DirectEdges <=> t = "CROSS_CONFIRM"
             /\ <<"CROSS_CONFIRM", "ARTIFACT_OK", t>> \in DirectEdges <=> t = "CONSENSUS_EVALUATE"
  BY DEF DirectEdges
<1>2. {"PLAN_CONSENSUS_EVALUATE", "CROSS_CONFIRM", "CONSENSUS_EVALUATE"} \subseteq LoopState
  BY DEF LoopState, WorkerStates, ReviewerStates, EvaluateStates
<1>3. QED
  BY <1>1, <1>2 DEF Next_

\* The escalations of a round are keys.
LEMMA RoundKeys ==
  ASSUME NEW STATE now
  PROVE  RoundEscalations(now) \subseteq Keys
BY DEF RoundEscalations, Keys, OpenFindings

\* The ledger proper: its type, and the parts of the invariant that are about it.
LedgerInv ==
  /\ status \in [Findings -> Unresolved \cup {"absent", "RESOLVED"}]
  /\ decisions \in [Findings -> [Sides -> [Rounds -> Decision \cup {NoDecision}]]]
  /\ observed \in [Findings -> [round : {0} \cup Rounds, rank : 0 .. 2]]
  /\ newest \in [Findings -> [Sides -> Kinds \cup {"none"}]]
  /\ seen \in [Findings -> [Sides -> Kinds \cup {"none"}]]
  /\ phases \in [Findings -> SUBSET {"plan", "code"}]
  /\ Undecided /\ RoundsInOrder /\ LatestIsNewest /\ ResolvedAtOnce
  /\ OneDecisionARound /\ ObservedInPhase /\ ResolvedWithinPhase

LEMMA Parts == IInv <=> RouteType /\ ReviewedBeforeRound /\ LedgerInv
BY DEF IInv, TypeOK, RouteType, LedgerInv

LEMMA PartsAfter ==
  ASSUME RouteType', ReviewedBeforeRound', LedgerInv'
  PROVE  IInv'
BY Parts, PTL

\* A step that leaves the ledger alone.
LEMMA LedgerUntouched ==
  ASSUME LedgerInv, UNCHANGED <<status, decisions, observed, rounds, history>>
  PROVE  LedgerInv'
<1>1. /\ status' = status /\ decisions' = decisions /\ observed' = observed
      /\ planRound' = planRound /\ codeRound' = codeRound
      /\ newest' = newest /\ seen' = seen /\ phases' = phases
  BY DEF rounds, history
<1>2. LatestIsNewest'
  <2> SUFFICES ASSUME NEW f \in Findings, NEW s \in Sides, OnePhase(f)'
               PROVE  Latest(decisions'[f][s]).kind = newest'[f][s]
    BY DEF LatestIsNewest, Latest
  <2>1. QED
    BY <1>1 DEF LedgerInv, LatestIsNewest, OnePhase
<1>3. ResolvedAtOnce'
  <2> SUFFICES ASSUME NEW f \in Findings, StatusOf(decisions'[f]) = "RESOLVED"
               PROVE  status'[f] = "RESOLVED"
    BY DEF ResolvedAtOnce, StatusOf, Latest, SameSource
  <2>1. QED
    BY <1>1 DEF LedgerInv, ResolvedAtOnce
<1>4. Undecided' /\ RoundsInOrder' /\ OneDecisionARound'
  BY <1>1 DEF LedgerInv, Undecided, RoundsInOrder, OneDecisionARound
<1>5. ObservedInPhase' /\ ResolvedWithinPhase'
  <2>1. ObservedInPhase'
    <3> SUFFICES ASSUME NEW f \in Findings
                 PROVE  /\ phases'[f] = {"plan"} => observed'[f].round <= planRound'
                        /\ phases'[f] = {"code"} => observed'[f].round <= codeRound'
                        /\ OnePhase(f)' /\ observed'[f].round # 0 =>
                             \A s \in Sides :
                               decisions'[f][s][observed'[f].round].kind = "CHANGE_REQUIRED"
                                 => seen'[f][s] = "CHANGE_REQUIRED"
      BY ZenonT(30) DEF ObservedInPhase
    <3>1. ObservedInPhase
      BY DEF LedgerInv
    <3>2. OnePhase(f)' <=> OnePhase(f)
      BY <1>1 DEF OnePhase
    <3>3. QED
      BY <1>1, <3>1, <3>2, ZenonT(30) DEF ObservedInPhase
  <2>2. ResolvedWithinPhase'
    BY <1>1 DEF LedgerInv, ResolvedWithinPhase, BothApprove, OnePhase
  <2>3. QED
    BY <2>1, <2>2
<1>6. QED
  BY <1>1, <1>2, <1>3, <1>4, <1>5 DEF LedgerInv

LEMMA PlanKeeps == ASSUME IInv, Plan PROVE IInv'
<1>1. Round \in Rounds /\ state \in PlannerStates
      /\ UNCHANGED <<approved, snapshot, observed, rounds, seen>>
  BY DEF Plan
<1>2. PICK kind \in [Delivered -> DecisionKinds] : Decide(Delivered, "CLAUDE", kind)
  BY DEF Plan
<1>3. Delivered \in SUBSET Findings /\ "CLAUDE" \in Sides
  BY DEF Delivered, OpenFindings, Sides
<1>4. LedgerInv'
  <2>1. UNCHANGED <<observed, rounds, seen, snapshot>>
    BY <1>1
  <2>2. /\ decisions' \in [Findings -> [Sides -> [Rounds -> Decision \cup {NoDecision}]]]
        /\ newest' \in [Findings -> [Sides -> Kinds \cup {"none"}]]
        /\ phases' \in [Findings -> SUBSET {"plan", "code"}]
        /\ status' \in [Findings -> Unresolved \cup {"absent", "RESOLVED"}]
        /\ Undecided' /\ RoundsInOrder' /\ LatestIsNewest' /\ ObservedInPhase'
        /\ ResolvedAtOnce' /\ OneDecisionARound' /\ ResolvedWithinPhase'
    BY <1>1, <1>2, <1>3, <2>1, DecideKeeps
  <2>3. observed' = observed /\ seen' = seen
    BY <2>1
  <2>4. LedgerInv
    BY Parts
  <2>5. QED
    BY <2>2, <2>3, <2>4 DEF LedgerInv
<1>5. /\ state' \in {"PLAN_REVIEW", "IMPLEMENT", "USER_DECISION_REQUIRED"}
      /\ blocked' \in {"NONE", state} /\ pending' \subseteq {Signal}
  BY DEF Plan, Route
<1>6. RouteType'
  BY <1>1, <1>5, Parts DEF RouteType, rounds, Keys, LoopState, WorkerStates, ReviewerStates,
     ImplementerStates, TerminalStates
<1>7. ReviewedBeforeRound'
  BY <1>1, <1>5 DEF ReviewedBeforeRound, PlannerStates
<1>8. QED
  BY <1>4, <1>6, <1>7, PartsAfter

LEMMA ReviewKeeps == ASSUME IInv, Review PROVE IInv'
<1>1. Round \in Rounds /\ state \in ReviewerStates
      /\ UNCHANGED <<approved, snapshot, observed, rounds, seen>>
  BY DEF Review
<1>2. PICK new \in SUBSET Findings, D \in SUBSET Findings, own \in SUBSET {Signal} :
        /\ OpenFindings \subseteq D
        /\ \E kind \in [D -> DecisionKinds] : Decide(D, SideOf(state), kind)
        /\ Route(({<<"E06", f>> : f \in {f \in new : Reopens[f] # NoFinding}} \ approved) \cup own,
                 Next_(state))
  <2>1. PICK new \in SUBSET {f \in Findings : Raisable(f)},
             repeated \in SUBSET {f \in Findings : status[f] = "RESOLVED"} :
          /\ \E kind \in [Obligated(new \cup repeated) -> DecisionKinds] :
               Decide(Obligated(new \cup repeated), SideOf(state), kind)
          /\ \E own \in SUBSET {Signal} :
               Route(({<<"E06", f>> : f \in {f \in new : Reopens[f] # NoFinding}} \ approved)
                       \cup own, Next_(state))
    BY DEF Review
  <2>2. /\ new \in SUBSET Findings /\ Obligated(new \cup repeated) \in SUBSET Findings
        /\ OpenFindings \subseteq Obligated(new \cup repeated)
    BY DEF Obligated, Delivered, OpenFindings
  <2>3. QED
    BY <2>1, <2>2
<1>3. SideOf(state) \in Sides
  BY DEF SideOf, Sides
<1>4. /\ decisions' \in [Findings -> [Sides -> [Rounds -> Decision \cup {NoDecision}]]]
      /\ newest' \in [Findings -> [Sides -> Kinds \cup {"none"}]]
      /\ phases' \in [Findings -> SUBSET {"plan", "code"}]
      /\ status' \in [Findings -> Unresolved \cup {"absent", "RESOLVED"}]
      /\ \A f \in Findings : f \notin D => status'[f] = status[f] /\ phases'[f] = phases[f]
      /\ \A f \in D : Phase \in phases'[f]
      /\ Undecided' /\ RoundsInOrder' /\ LatestIsNewest' /\ ObservedInPhase'
      /\ ResolvedAtOnce' /\ OneDecisionARound' /\ ResolvedWithinPhase'
  <2>1. UNCHANGED <<observed, rounds, seen, snapshot>>
    BY <1>1
  <2>2. PICK kind \in [D -> DecisionKinds] : Decide(D, SideOf(state), kind)
    BY <1>2
  <2>3. QED
    BY <1>1, <1>3, <2>1, <2>2, DecideKeeps
<1>5. LedgerInv'
  <2>1. observed' = observed /\ seen' = seen
    BY <1>1
  <2>2. LedgerInv
    BY Parts
  <2>3. QED
    BY <1>4, <2>1, <2>2 DEF LedgerInv
\* What is open now was decided on in this very review.
<1>6. \A f \in OpenFindings' : Phase \in phases'[f]
  BY <1>2, <1>4 DEF OpenFindings
<1>7. Next_(state) \in {"PLAN_CONSENSUS_EVALUATE", "CROSS_CONFIRM", "CONSENSUS_EVALUATE"}
      /\ (Next_(state) = "PLAN_CONSENSUS_EVALUATE" <=> state = "PLAN_REVIEW")
      /\ (Next_(state) = "CONSENSUS_EVALUATE" <=> state = "CROSS_CONFIRM")
  BY <1>1, ReviewSuccessors DEF ReviewerStates
<1>8. /\ state' \in {Next_(state), "USER_DECISION_REQUIRED"} /\ blocked' \in {"NONE", state}
      /\ pending' \subseteq Keys
  BY <1>2 DEF Route, Keys
<1>9. RouteType'
  <2>1. state' \in LoopState
    BY <1>7, <1>8 DEF LoopState, WorkerStates, ReviewerStates, EvaluateStates, TerminalStates
  <2>2. blocked' \in LoopState \cup {"NONE"}
    BY <1>8, Parts DEF RouteType
  <2>3. QED
    BY <1>1, <1>8, <2>1, <2>2, Parts DEF RouteType, rounds
<1>10. ReviewedBeforeRound'
  <2>1. CASE state = "PLAN_REVIEW"
    <3>1. Phase = "plan"
      BY <2>1 DEF Phase
    <3>2. QED
      BY <1>6, <1>7, <1>8, <2>1, <3>1 DEF ReviewedBeforeRound
  <2>2. CASE state = "CROSS_CONFIRM"
    <3>1. Phase = "code"
      BY <2>2 DEF Phase, PlannerStates
    <3>2. QED
      BY <1>6, <1>7, <1>8, <2>2, <3>1 DEF ReviewedBeforeRound
  <2>3. CASE state = "CODE_REVIEW"
    BY <1>7, <1>8, <2>3 DEF ReviewedBeforeRound
  <2>4. QED
    BY <1>1, <2>1, <2>2, <2>3 DEF ReviewerStates
<1>11. QED
  BY <1>5, <1>9, <1>10, PartsAfter

LEMMA ImplementKeepsIInv == ASSUME IInv, Implement PROVE IInv'
<1>1. /\ state \in ImplementerStates /\ snapshot' \in Snapshots
      /\ UNCHANGED <<approved, observed, rounds, seen>>
      /\ state' \in {"TEST_GATE", "USER_DECISION_REQUIRED"} /\ blocked' \in {"NONE", state}
      /\ pending' \subseteq {Signal}
  BY DEF Implement, Route
<1>2. LedgerInv'
  <2>1. LedgerInv /\ observed' = observed /\ seen' = seen
    BY <1>1, Parts
  <2>2. QED
    BY <2>1, ImplementKeeps DEF LedgerInv
<1>3. RouteType'
  BY <1>1, Parts DEF RouteType, rounds, Keys, LoopState, TerminalStates
<1>4. ReviewedBeforeRound'
  BY <1>1 DEF ReviewedBeforeRound, ImplementerStates
<1>5. QED
  BY <1>2, <1>3, <1>4, PartsAfter

\* The steps that leave the ledger alone.
LEMMA OthersKeep ==
  ASSUME IInv, StepBlocks \/ TestGate \/ Approve \/ SendBack \/ HumanGate \/ UNCHANGED vars
  PROVE  IInv'
<1>1. UNCHANGED <<snapshot, status, decisions, observed, rounds, history>>
  BY DEF StepBlocks, TestGate, Approve, SendBack, HumanGate, Unblock, vars, rounds, history
<1>2. LedgerInv'
  BY <1>1, LedgerUntouched, Parts
<1>3. OpenFindings' = OpenFindings /\ phases' = phases
  BY <1>1 DEF OpenFindings, history
<1>4. planRound' = planRound /\ codeRound' = codeRound /\ snapshot' = snapshot
  BY <1>1 DEF rounds
<1> USE Parts DEF RouteType
<1>5. CASE StepBlocks
  <2>1. RouteType'
    BY <1>4, <1>5 DEF StepBlocks, LoopState, TerminalStates
  <2>2. ReviewedBeforeRound'
    BY <1>5 DEF StepBlocks, ReviewedBeforeRound, WorkerStates, PlannerStates, ImplementerStates,
       ReviewerStates
  <2>3. QED
    BY <1>2, <2>1, <2>2, PartsAfter
<1>6. CASE TestGate \/ HumanGate
  <2>1. RouteType'
    BY <1>4, <1>6 DEF TestGate, HumanGate, LoopState, WorkerStates, PlannerStates,
       ImplementerStates, ReviewerStates
  <2>2. ReviewedBeforeRound'
    BY <1>3, <1>6 DEF TestGate, HumanGate, ReviewedBeforeRound
  <2>3. QED
    BY <1>2, <2>1, <2>2, PartsAfter
<1>7. CASE Approve
  <2>1. PICK t \in LoopState : <<blocked, t>> \in ApprovedTarget /\ Unblock(t)
    BY <1>7 DEF Approve
  <2>2. state' = t /\ blocked' = "NONE" /\ pending' = {}
        /\ approved' = approved \cup (pending \ {Signal})
    BY <1>7, <2>1 DEF Approve, Unblock
  <2>3. RouteType'
    BY <1>4, <2>2
  <2>4. /\ t = "PLAN_CONSENSUS_EVALUATE" => blocked = "PLAN_REVIEW" /\ pending # {}
        /\ t = "CONSENSUS_EVALUATE" => \/ blocked = "CROSS_CONFIRM" /\ pending # {}
                                       \/ blocked = "CONSENSUS_EVALUATE"
    BY <1>7, <2>1 DEF Approve, ApprovedTarget
  <2>5. ReviewedBeforeRound'
    BY <1>3, <2>2, <2>4 DEF ReviewedBeforeRound
  <2>6. QED
    BY <1>2, <2>3, <2>5, PartsAfter
<1>8. CASE SendBack
  <2>1. PICK t \in UserTargets \cup RecoveryTargets(blocked)
                   \cup (IF pending = {} THEN {} ELSE SupervisionTargets(blocked, {})) :
          Unblock(t)
    BY <1>8 DEF SendBack
  <2>2. t \in {"PLAN_REVISE", "FIX", "PLAN_REVIEW", "TEST_GATE", "CODE_REVIEW", "CROSS_CONFIRM"}
    <3>1. UserTargets \subseteq {"PLAN_REVISE", "FIX"}
      BY DEF UserTargets
    <3>2. RecoveryTargets(blocked)
            \subseteq {"PLAN_REVISE", "FIX", "PLAN_REVIEW", "CODE_REVIEW", "CROSS_CONFIRM"}
      BY DEF RecoveryTargets
    <3>3. SupervisionTargets(blocked, {})
            \subseteq {"PLAN_REVISE", "FIX", "PLAN_REVIEW", "TEST_GATE", "CROSS_CONFIRM"}
      BY DEF SupervisionTargets
    <3>4. QED
      BY <2>1, <3>1, <3>2, <3>3
  <2>3. state' = t /\ blocked' = "NONE" /\ pending' = {} /\ approved' = approved
    BY <1>8, <2>1 DEF SendBack, Unblock
  <2>4. RouteType'
    BY <1>4, <2>2, <2>3 DEF LoopState, WorkerStates, PlannerStates, ImplementerStates,
       ReviewerStates
  <2>5. ReviewedBeforeRound'
    BY <2>2, <2>3 DEF ReviewedBeforeRound
  <2>6. QED
    BY <1>2, <2>4, <2>5, PartsAfter
<1>9. CASE UNCHANGED vars
  <2>1. RouteType' /\ ReviewedBeforeRound'
    BY <1>3, <1>4, <1>9 DEF vars, ReviewedBeforeRound
  <2>2. QED
    BY <1>2, <2>1, PartsAfter
<1>10. QED
  BY <1>5, <1>6, <1>7, <1>8, <1>9

LEMMA RoundsKeep == ASSUME IInv, EvaluatePlan \/ EvaluateCode PROVE IInv'
<1>1. planRound \in 0 .. PlanLimit /\ codeRound \in 0 .. CodeLimit /\ RouteType /\ LedgerInv
  BY Parts DEF RouteType
<1>2. PICK now \in Nat, esc \in SUBSET Keys :
        /\ Observe(now)
        /\ RouteRound(planRound', codeRound', esc)
        /\ \/ /\ state = "PLAN_CONSENSUS_EVALUATE" /\ now = planRound + 1 /\ now <= PlanLimit
              /\ planRound' = planRound + 1 /\ codeRound' = codeRound
           \/ /\ state = "CONSENSUS_EVALUATE" /\ now = codeRound + 1 /\ now <= CodeLimit
              /\ codeRound' = codeRound + 1 /\ planRound' = planRound
        /\ UNCHANGED <<approved, snapshot, status, decisions>>
  <2>1. CASE EvaluatePlan
    <3>1. PICK contract \in SUBSET {Signal} :
            RouteRound(planRound + 1, codeRound, RoundEscalations(planRound + 1) \cup contract)
      BY <2>1 DEF EvaluatePlan
    <3>2. RoundEscalations(planRound + 1) \cup contract \in SUBSET Keys
      BY RoundKeys DEF Keys
    <3>3. planRound + 1 \in Nat /\ planRound + 1 <= PlanLimit
      BY <1>1, <2>1, LimitsPositive DEF EvaluatePlan, RoundLeft
    <3>4. QED
      BY <2>1, <3>1, <3>2, <3>3 DEF EvaluatePlan
  <2>2. CASE EvaluateCode
    <3>1. RoundEscalations(codeRound + 1) \in SUBSET Keys
      BY RoundKeys
    <3>2. codeRound + 1 \in Nat /\ codeRound + 1 <= CodeLimit
      BY <1>1, <2>2, LimitsPositive DEF EvaluateCode, RoundLeft
    <3>3. QED
      BY <2>2, <3>1, <3>2 DEF EvaluateCode
  <2>3. QED
    BY <2>1, <2>2
<1>3. now \in Rounds
  BY <1>1, <1>2, LedgerConstants, LimitsPositive DEF Rounds
<1>4. /\ state' \in {"IMPLEMENT", "PLAN_REVISE", "HUMAN_GATE", "FIX", "USER_DECISION_REQUIRED"}
      /\ blocked' \in {"NONE", state} /\ pending' = esc
  <2>1. state \in EvaluateStates
    BY <1>2 DEF EvaluateStates
  <2>2. QED
    BY <1>2, <2>1 DEF RouteRound, Transition, DirectEdges, EvaluateStates
<1>5. /\ state = "PLAN_CONSENSUS_EVALUATE" => \A f \in OpenFindings : "plan" \in phases[f]
      /\ state = "CONSENSUS_EVALUATE" => \A f \in OpenFindings : "code" \in phases[f]
  BY Parts DEF ReviewedBeforeRound
<1>6. LedgerInv'
  <2>1. /\ observed' \in [Findings -> [round : {0} \cup Rounds, rank : 0 .. 2]]
        /\ seen' \in [Findings -> [Sides -> Kinds \cup {"none"}]]
        /\ Undecided' /\ RoundsInOrder' /\ LatestIsNewest' /\ ObservedInPhase'
        /\ ResolvedAtOnce' /\ OneDecisionARound' /\ ResolvedWithinPhase'
    <3>1. \/ /\ now = planRound + 1 /\ planRound' = planRound + 1 /\ codeRound' = codeRound
             /\ \A f \in OpenFindings : "plan" \in phases[f]
          \/ /\ now = codeRound + 1 /\ codeRound' = codeRound + 1 /\ planRound' = planRound
             /\ \A f \in OpenFindings : "code" \in phases[f]
      BY <1>2, <1>5
    <3>2. Observe(now) /\ UNCHANGED <<status, decisions>>
      BY <1>2
    <3>3. QED
      BY <1>3, <3>1, <3>2, ObserveKeeps
  <2>2. newest' = newest /\ phases' = phases /\ status' = status /\ decisions' = decisions
    BY <1>2 DEF Observe
  <2>3. QED
    BY <1>1, <2>1, <2>2 DEF LedgerInv
<1>7. RouteType'
  <2>1. state' \in LoopState
    BY <1>4 DEF LoopState, WorkerStates, PlannerStates, ImplementerStates, TerminalStates
  <2>2. planRound' \in 0 .. PlanLimit /\ codeRound' \in 0 .. CodeLimit
    BY <1>1, <1>2, LimitsPositive
  <2>3. QED
    BY <1>1, <1>2, <1>4, <2>1, <2>2 DEF RouteType
<1>8. ReviewedBeforeRound'
  <2>1. OpenFindings' = OpenFindings /\ phases' = phases
    BY <1>2 DEF Observe, OpenFindings
  <2>2. QED
    BY <1>2, <1>4, <1>5, <2>1 DEF ReviewedBeforeRound
<1>9. QED
  BY <1>6, <1>7, <1>8, PartsAfter

LEMMA NextIInv == IInv /\ [Next]_vars => IInv'
BY PlanKeeps, ReviewKeeps, ImplementKeepsIInv, OthersKeep, RoundsKeep DEF Next


-----------------------------------------------------------------------------
\* The theorems.

\* The strengthened invariant.
THEOREM Invariance == Spec => []IInv
<1>1. Init => IInv
  BY InitIInv
<1>2. IInv /\ [Next]_vars => IInv'
  BY NextIInv
<1>3. QED
  BY <1>1, <1>2, PTL DEF Spec

\* The ledger, the counters and the escalations keep their types.
THEOREM TypeCorrect == Spec => []TypeOK
<1>1. IInv => TypeOK
  BY DEF IInv
<1>2. QED
  BY <1>1, Invariance, PTL

\* A finding all of whose decisions were given in one phase is resolved only while
\* the last word of both sides is an approval (apply_review_artifact,
\* apply_implementation_artifact and _status_from_decisions together).
THEOREM ResolvedInPhase == Spec => []ResolvedWithinPhase
<1>1. IInv => ResolvedWithinPhase
  BY DEF IInv
<1>2. QED
  BY <1>1, Invariance, PTL

\* What is read of a side is one of its decisions.
LEMMA LatestIsOne ==
  ASSUME NEW given, Latest(given) # NoDecision
  PROVE  \E r \in Rounds : Latest(given) = given[r]
<1> DEFINE R == {r \in Rounds : given[r] # NoDecision}
<1>1. R # {}
  BY DEF Latest
<1>2. PICK m \in R : \A q \in R : q <= m
  BY <1>1, LastRound
<1>3. QED
  BY <1>2, LatestIsLast

\* A decision that resolves a finding is of the source as it is, and the decision
\* it agrees with is of the same.
LEMMA ResolvedByDecision ==
  ASSUME IInv, Round \in Rounds,
         NEW STATE D, NEW STATE side, NEW STATE kind,
         D \in SUBSET Findings, side \in Sides, kind \in [D -> DecisionKinds],
         Decide(D, side, kind), UNCHANGED <<observed, rounds, seen, snapshot>>,
         NEW f \in Findings, status[f] # "RESOLVED", status'[f] = "RESOLVED"
  PROVE  \A s \in Sides : \E r \in Rounds :
           decisions'[f][s][r] = [kind |-> "APPROVE", snapshot |-> snapshot, earlier |-> {}]
<1> DEFINE d == [kind |-> kind[f], snapshot |-> snapshot, earlier |-> {}]
           latest(s) == Latest(decisions'[f][s])
<1>1. f \in D /\ StatusOf(decisions'[f]) = "RESOLVED" /\ StatusOf(decisions[f]) # "RESOLVED"
  BY DEF Decide, IInv, ResolvedAtOnce
<1>2. /\ \A s \in Sides : decisions'[f][s] =
           IF s = side THEN [decisions[f][s] EXCEPT ![Round] = d] ELSE decisions[f][s]
      /\ \A s \in Sides : DOMAIN decisions[f][s] = Rounds
                          /\ decisions[f][s] = [q \in Rounds |-> decisions[f][s][q]]
  <2>1. decisions[f] \in [Sides -> [Rounds -> Decision \cup {NoDecision}]]
    BY DEF IInv, TypeOK
  <2>2. decisions'[f] = [decisions[f] EXCEPT ![side][Round] = d]
    BY <1>1 DEF Decide
  <2>3. QED
    BY <2>1, <2>2
<1>3. d # NoDecision
  <2>1. kind[f] \in Kinds
    BY <1>1, LedgerConstants
  <2>2. QED
    BY <2>1 DEF NoDecision, Kinds
<1>4. /\ \A s \in Sides : latest(s).kind = "APPROVE"
      /\ latest("CLAUDE").snapshot = latest("CODEX").snapshot
  BY <1>1, StatusFacts DEF SameSource
\* The decision that was given now is among the two: without it the finding would
\* have been resolved before.
<1>5. latest(side) = d
  <2>1. latest(side) \in {d, Latest(decisions[f][side])}
    <3>1. Latest([decisions[f][side] EXCEPT ![Round] = d]) \in {d, Latest(decisions[f][side])}
      BY <1>2, <1>3, LatestAfter
    <3>2. decisions'[f][side] = [decisions[f][side] EXCEPT ![Round] = d]
      BY <1>2
    <3>3. QED
      BY <3>1, <3>2
  <2>2. ASSUME latest(side) = Latest(decisions[f][side]) PROVE FALSE
    <3>1. \A s \in Sides : latest(s) = Latest(decisions[f][s])
      BY <1>2, <2>2
    <3>2. /\ \A s \in Sides : Latest(decisions[f][s]).kind = "APPROVE"
          /\ SameSource(Latest(decisions[f]["CLAUDE"]), Latest(decisions[f]["CODEX"]))
      BY <1>4, <3>1 DEF SameSource, Sides
    <3>3. QED
      BY <1>1, <3>2, StatusFacts
  <2>3. QED
    BY <2>1, <2>2
<1>6. \A s \in Sides : latest(s).snapshot = snapshot
  BY <1>4, <1>5 DEF Sides
<1>7. /\ decisions' \in [Findings -> [Sides -> [Rounds -> Decision \cup {NoDecision}]]]
      /\ OneDecisionARound'
  BY DecideKeeps
<1>8. ASSUME NEW s \in Sides
      PROVE  \E r \in Rounds :
               decisions'[f][s][r] = [kind |-> "APPROVE", snapshot |-> snapshot, earlier |-> {}]
  <2>1. latest(s) # NoDecision
    BY <1>4 DEF NoDecision
  <2>2. PICK r \in Rounds : latest(s) = decisions'[f][s][r]
    BY <2>1, LatestIsOne
  <2>3. decisions'[f][s][r] \in Decision
    BY <1>7, <2>1, <2>2
  <2>4. /\ decisions'[f][s][r].kind = "APPROVE" /\ decisions'[f][s][r].snapshot = snapshot
        /\ decisions'[f][s][r].earlier = {}
    <3>1. decisions'[f][s][r].kind = "APPROVE" /\ decisions'[f][s][r].snapshot = snapshot
      BY <1>4, <1>6, <2>2
    <3>2. QED
      BY <1>7, <3>1 DEF OneDecisionARound
  <2>5. QED
    BY <2>3, <2>4 DEF Decision
<1>9. QED
  BY <1>8

\* A finding is resolved only on the source both sides approved it on, and that is
\* the source the worktree holds then.
THEOREM ResolvedOnThisSource == Spec => ResolutionIsOfThisSource
<1> DEFINE OfThisSource ==
             \A f \in Findings : status[f] # "RESOLVED" /\ status'[f] = "RESOLVED" =>
               \A s \in Sides : \E r \in Rounds :
                 decisions'[f][s][r] = [kind |-> "APPROVE", snapshot |-> snapshot, earlier |-> {}]
<1>1. ASSUME IInv, [Next]_vars PROVE OfThisSource
  <2>1. SUFFICES ASSUME NEW f \in Findings, status[f] # "RESOLVED", status'[f] = "RESOLVED"
                 PROVE  \A s \in Sides : \E r \in Rounds :
                          decisions'[f][s][r] =
                            [kind |-> "APPROVE", snapshot |-> snapshot, earlier |-> {}]
    OBVIOUS
  <2>2. CASE Plan
    <3>1. Round \in Rounds /\ UNCHANGED <<observed, rounds, seen, snapshot>>
      BY <2>2 DEF Plan
    <3>2. PICK kind \in [Delivered -> DecisionKinds] : Decide(Delivered, "CLAUDE", kind)
      BY <2>2 DEF Plan
    <3>3. Delivered \in SUBSET Findings /\ "CLAUDE" \in Sides
      BY DEF Delivered, OpenFindings, Sides
    <3>4. QED
      BY <1>1, <2>1, <3>1, <3>2, <3>3, ResolvedByDecision
  <2>3. CASE Review
    <3>1. Round \in Rounds /\ UNCHANGED <<observed, rounds, seen, snapshot>>
          /\ SideOf(state) \in Sides
      BY <2>3 DEF Review, SideOf, Sides
    <3>2. PICK D \in SUBSET Findings :
            \E kind \in [D -> DecisionKinds] : Decide(D, SideOf(state), kind)
      BY <2>3 DEF Review, Obligated, Delivered, OpenFindings
    <3>3. PICK kind \in [D -> DecisionKinds] : Decide(D, SideOf(state), kind)
      BY <3>2
    <3>4. QED
      BY <1>1, <2>1, <3>1, <3>3, ResolvedByDecision
  <2>4. CASE Implement
    BY <1>1, <2>1, <2>4, ImplementKeeps
  <2>5. CASE ~ (Plan \/ Review \/ Implement)
    <3>1. status' = status
      BY <1>1, <2>5 DEF Next, StepBlocks, TestGate, EvaluatePlan, EvaluateCode, Approve, SendBack,
         HumanGate, Unblock, vars
    <3>2. QED
      BY <2>1, <3>1
  <2>6. QED
    BY <2>2, <2>3, <2>4, <2>5
<1>2. QED
  BY <1>1, Invariance, PTL DEF Spec, ResolutionIsOfThisSource

\* A round improves a finding of its own phase only when a side that wanted a change
\* when it was last observed approves now.
LEMMA ImprovedInPhase ==
  ASSUME IInv, NEW STATE now, now \in Rounds,
         \/ /\ now = planRound + 1
            /\ \A f \in OpenFindings : "plan" \in phases[f]
         \/ /\ now = codeRound + 1
            /\ \A f \in OpenFindings : "code" \in phases[f],
         NEW f \in OpenFindings, OnePhase(f), observed[f].round # 0,
         Improved(f, observed[f].round, now)
  PROVE  \E s \in Sides : seen[f][s] = "CHANGE_REQUIRED" /\ Approves(newest[f][s])
<1>1. f \in Findings
  BY DEF OpenFindings
<1>2. PICK s \in Sides : /\ decisions[f][s][observed[f].round].kind = "CHANGE_REQUIRED"
                         /\ Approves(decisions[f][s][now].kind)
  BY DEF Improved
<1>3. seen[f][s] = "CHANGE_REQUIRED"
  BY <1>1, <1>2 DEF IInv, ObservedInPhase
<1>4. decisions[f][s][now] # NoDecision
  BY <1>2 DEF NoDecision, Approves
<1>5. \A q \in Rounds : decisions[f][s][q] # NoDecision => q <= now
  BY <1>1 DEF IInv, RoundsInOrder, OnePhase
<1>6. Latest(decisions[f][s]) = decisions[f][s][now]
  BY <1>4, <1>5, LatestIsLast
<1>7. newest[f][s] = decisions[f][s][now].kind
  BY <1>1, <1>6 DEF IInv, LatestIsNewest
<1>8. QED
  BY <1>2, <1>3, <1>7

\* A finding that a round of its own phase finds open for the second time, with
\* nothing gained, is escalated or was approved to go on (commit_round).
THEOREM StagnationEscalates == Spec => StagnationIsEscalated
<1> DEFINE Stagnant(f) ==
             /\ rounds' # rounds
             /\ OnePhase(f)
             /\ observed[f].round # 0
             /\ Rank(status[f]) <= observed[f].rank
             /\ ~ \E s \in Sides : seen[f][s] = "CHANGE_REQUIRED" /\ Approves(newest[f][s])
           Escalated == \A f \in OpenFindings :
                          Stagnant(f) => <<"E05", f>> \in pending' \cup approved
<1>1. ASSUME IInv, [Next]_vars PROVE Escalated
  <2>1. SUFFICES ASSUME NEW f \in OpenFindings, Stagnant(f)
                 PROVE  <<"E05", f>> \in pending' \cup approved
    OBVIOUS
  <2>2. f \in Findings /\ TypeOK
    BY <1>1 DEF OpenFindings, IInv
  <2>3. EvaluatePlan \/ EvaluateCode
    BY <1>1, <2>1 DEF Next, Plan, Review, Implement, StepBlocks, TestGate, Approve, SendBack,
       HumanGate, Unblock, vars, rounds
  <2>4. PICK now \in Nat :
          /\ RoundEscalations(now) \subseteq pending'
          /\ \/ /\ state = "PLAN_CONSENSUS_EVALUATE" /\ now = planRound + 1 /\ now <= PlanLimit
             \/ /\ state = "CONSENSUS_EVALUATE" /\ now = codeRound + 1 /\ now <= CodeLimit
    <3>0. planRound \in Nat /\ codeRound \in Nat
      BY <2>2, RoundNumbers
    <3>1. CASE EvaluatePlan
      <4>1. planRound + 1 <= PlanLimit
        BY <3>0, <3>1, LimitsPositive DEF EvaluatePlan, RoundLeft
      <4>2. QED
        BY <3>0, <3>1, <4>1 DEF EvaluatePlan, RouteRound
    <3>2. CASE EvaluateCode
      <4>1. codeRound + 1 <= CodeLimit
        BY <3>0, <3>2, LimitsPositive DEF EvaluateCode, RoundLeft
      <4>2. QED
        BY <3>0, <3>2, <4>1 DEF EvaluateCode, RouteRound
    <3>3. QED
      BY <2>3, <3>1, <3>2
  <2>5. now \in Rounds
    BY <2>2, <2>4, RoundNumbers, LedgerConstants, LimitsPositive DEF Rounds
  <2>6. ~ Improved(f, observed[f].round, now)
    <3>1. \/ now = planRound + 1 /\ \A g \in OpenFindings : "plan" \in phases[g]
          \/ now = codeRound + 1 /\ \A g \in OpenFindings : "code" \in phases[g]
      BY <1>1, <2>4 DEF IInv, ReviewedBeforeRound
    <3>2. QED
      BY <1>1, <2>1, <2>5, <3>1, ImprovedInPhase
  <2>7. ~ Progress(f, now)
    <3>1. Rank(status[f]) \in Nat /\ observed[f].rank \in Nat
      <4>1. observed[f] \in [round : {0} \cup Rounds, rank : 0 .. 2]
        BY <2>2 DEF TypeOK
      <4>2. QED
        BY <4>1 DEF Rank
    <3>2. ~ (Rank(status[f]) > observed[f].rank)
      BY <2>1, <3>1
    <3>3. QED
      BY <2>6, <3>2 DEF Progress
  <2>8. <<"E05", f>> \in RoundEscalations(now) \cup approved
    BY <2>1, <2>7 DEF RoundEscalations
  <2>9. QED
    BY <2>4, <2>8
<1>2. QED
  BY <1>1, Invariance, PTL DEF Spec, StagnationIsEscalated

-----------------------------------------------------------------------------
\* The refinement.

\* A step of a planner opens nothing; the implementer neither opens nor resolves.
LEMMA PlanOpensNothing == ASSUME IInv, Plan PROVE Open' => Open
<1>1. \A f \in Findings : f \notin Delivered => status'[f] = status[f]
  BY DEF Plan, Decide
<1>2. \A f \in OpenFindings' : f \in OpenFindings
  BY <1>1 DEF OpenFindings, Delivered
<1>3. QED
  BY <1>2 DEF Open

LEMMA ImplementKeepsOpen == ASSUME IInv, Implement PROVE Open' = Open
<1>1. \A f \in Findings : (status'[f] \in Unresolved) <=> (status[f] \in Unresolved)
  BY ImplementKeeps
<1>2. OpenFindings' = OpenFindings
  BY <1>1 DEF OpenFindings
<1>3. QED
  BY <1>2 DEF Open

\* The ledger implements what RunLoop takes for granted of it: every step is one of
\* LedgerPromise, or changes nothing the promise speaks of.
THEOREM ImplementsPromise == Spec => PromiseKept
<1>1. Init => Promise!Init
  BY DEF Init, Promise!Init, Open, OpenFindings, Unresolved
<1>2. ASSUME IInv, [Next]_vars PROVE [Promise!Next]_(Promise!vars)
  <2>1. CASE Plan
    <3>1. Promise!Planned
      BY <1>2, <2>1, PlanOpensNothing
         DEF Plan, rounds, Promise!Planned, Promise!SameRounds, PlannerStates,
             Promise!PlannerStates
    <3>2. QED
      BY <3>1 DEF Promise!Next
  <2>2. CASE Review
    <3>1. Promise!Reviewed
      BY <2>2 DEF Review, rounds, Promise!Reviewed, Promise!SameRounds, ReviewerStates,
         Promise!ReviewerStates, Open
    <3>2. QED
      BY <3>1 DEF Promise!Next
  <2>3. CASE Implement
    <3>1. Promise!Other
      BY <1>2, <2>3, ImplementKeepsOpen
         DEF Implement, rounds, Promise!Other, Promise!SameRounds, ImplementerStates,
             Promise!PlannerStates, Promise!ReviewerStates, Promise!EvaluateStates
    <3>2. QED
      BY <3>1 DEF Promise!Next
  <2>4. CASE StepBlocks
    <3>1. Promise!Blocked
      BY <2>4 DEF StepBlocks, rounds, Promise!Blocked, Promise!SameRounds, Open, OpenFindings
    <3>2. QED
      BY <3>1 DEF Promise!Next
  <2>5. CASE TestGate \/ Approve \/ SendBack \/ HumanGate
    <3>1. state \in {"TEST_GATE", "USER_DECISION_REQUIRED", "HUMAN_GATE"}
          /\ UNCHANGED <<status, rounds>>
      BY <2>5 DEF TestGate, Approve, SendBack, HumanGate, Unblock
    <3>2. Promise!Other
      BY <3>1 DEF rounds, Open, OpenFindings, Promise!Other, Promise!SameRounds,
         Promise!PlannerStates, Promise!ReviewerStates, Promise!EvaluateStates
    <3>3. QED
      BY <3>2 DEF Promise!Next
  <2>6. CASE EvaluatePlan
    <3>1. status' = status /\ state = "PLAN_CONSENSUS_EVALUATE"
          /\ planRound < PlanLimit /\ planRound' = planRound + 1 /\ codeRound' = codeRound
      BY <2>6 DEF EvaluatePlan, RoundLeft
    <3>2. state' = "IMPLEMENT" => ~Open
      <4>1. PICK esc : RouteRound(planRound + 1, codeRound, esc)
        BY <2>6 DEF EvaluatePlan
      <4>2. QED
        BY <3>1, <4>1 DEF RouteRound, Transition, DirectEdges
    <3>3. Promise!PlanRound
      BY <3>1, <3>2 DEF Promise!PlanRound, Open, OpenFindings
    <3>4. QED
      BY <3>3 DEF Promise!Next
  <2>7. CASE EvaluateCode
    <3>1. status' = status /\ state = "CONSENSUS_EVALUATE"
          /\ codeRound < CodeLimit /\ codeRound' = codeRound + 1 /\ planRound' = planRound
          /\ RouteRound(planRound, codeRound + 1, RoundEscalations(codeRound + 1))
      BY <2>7 DEF EvaluateCode, RoundLeft
    <3>2. state' = "HUMAN_GATE" => ~Open
      BY <3>1 DEF RouteRound, Transition, DirectEdges
    <3>3. pending' # {} => Open
      BY <3>1 DEF RouteRound, RoundEscalations, Open
    <3>4. Promise!CodeRound
      BY <3>1, <3>2, <3>3 DEF Promise!CodeRound, Open, OpenFindings
    <3>5. QED
      BY <3>4 DEF Promise!Next
  <2>8. CASE UNCHANGED vars
    BY <2>8 DEF vars, Promise!vars, Open, OpenFindings
  <2>9. QED
    BY <1>2, <2>1, <2>2, <2>3, <2>4, <2>5, <2>6, <2>7, <2>8 DEF Next
<1>3. QED
  BY <1>1, <1>2, Invariance, PTL DEF Spec, PromiseKept, Promise!Spec
=============================================================================
