SPECIFICATION Spec
CONSTANTS
  p1 = p1
  p2 = p2
  p3 = p3
  q1 = q1
  r1 = r1
  r2 = r2
  Procs <- FourProcesses
  Runs <- TwoRuns
  run <- RunOf
  NoProcess = NoProcess
  Torn = Torn
  MaxGeneration = 2
INVARIANTS
  TypeOK
  OneCoordinator
  CommittedIsLoadable
  MemoryIsCommitted
PROPERTIES
  PromiseKept
CHECK_DEADLOCK FALSE
