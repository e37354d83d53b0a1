CONSTANTS
  f1 = f1
  f2 = f2
  NoFinding = NoFinding
  Findings <- One
  Impact <- OneImpact
  Reopens <- OneReopens
  DecisionKinds = {"APPROVE", "CHANGE_REQUIRED"}
  s1 = s1
  s2 = s2
  Snapshots <- Sources
  PlanLimit = 1
  CodeLimit = 2
  MaxRound = 2
  TestFixLimit = 1
  RetryLimit = 1
SYMMETRY SourceSymmetry
SPECIFICATION Spec
INVARIANT TypeOK
INVARIANT ResolvedWithinPhase
PROPERTY ResolutionIsOfThisSource
PROPERTY StagnationIsEscalated
PROPERTY PromiseKept
CHECK_DEADLOCK FALSE
