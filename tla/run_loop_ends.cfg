CONSTANTS
  PlanLimit = 1
  CodeLimit = 1
  TestFixLimit = 2
  RetryLimit = 1
  Modes <- AnyMode
  RaisedCodes = {}
  PlanRisks = {}
  MaxTransitions = 14
  MaxTestFailures = 2
SPECIFICATION FairSpec
INVARIANT OwnLimitsEndTheLoop
PROPERTY EveryIterationCounts
PROPERTY InvocationEnds
CHECK_DEADLOCK FALSE
