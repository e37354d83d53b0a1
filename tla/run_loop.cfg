CONSTANTS
  PlanLimit = 1
  CodeLimit = 2
  TestFixLimit = 2
  RetryLimit = 2
  Modes <- MasterJoins
  RaisedCodes = {"E03"}
  PlanRisks = {"destr"}
  MaxTransitions = 2
  MaxTestFailures = 2
SPECIFICATION Spec
INVARIANT TypeOK
INVARIANT ReviewSeesTestedSource
INVARIANT ReadyIsEarned
INVARIANT NoUnapprovedDeletion
INVARIANT EscalationsStayWithTheirBlock
PROPERTY EscalationsAreDecided
PROPERTY UserOwnedBlockWaitsForUser
PROPERTY UserDecides
CHECK_DEADLOCK FALSE
