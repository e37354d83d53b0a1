CONSTANTS
  PlanLimit = 1
  CodeLimit = 2
  TestFixLimit = 2
  RetryLimit = 2
  Modes <- SoloOnly
  RaisedCodes = {}
  PlanRisks = {}
  MaxTransitions = 2
  MaxTestFailures = 2
SPECIFICATION Spec
INVARIANT RoundsLeftToEvaluate
CHECK_DEADLOCK FALSE
