SPECIFICATION FairSpec
CONSTANTS
  MaxDispatches = 3
  Terminals <- BothTerminals
  Writers <- Implementer
  TreeKill = TRUE
INVARIANTS
  TypeOK
  CompletionIsOwn
  StartedAfterCommit
  StrayAgentsAreLost
  PartialWorkIsNotInherited
PROPERTIES
  StepEnds
  PromiseKept
CHECK_DEADLOCK FALSE
