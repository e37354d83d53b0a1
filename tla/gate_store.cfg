CONSTANTS
  launcher = launcher
  user = user
  g1 = g1
  g2 = g2
  merge = merge
  reject = reject
  Nobody = Nobody
  NoGate = NoGate
  Gates <- TwoGates
  Answers <- Decisions
  Launchers <- OneLauncher
  Users <- OneUser
  Decision <- Rejects
  Crashes = 1
SPECIFICATION FairSpec
INVARIANT TypeOK
INVARIANT AnsweredGateIsLive
INVARIANT NothingShownBeforeStored
INVARIANT AckedAnswerIsNotAskedAgain
INVARIANT BoundGateIsComplete
PROPERTY AnswerIsFinal
PROPERTY PromiseKept
PROPERTY StoredAnswerIsApplied
CHECK_DEADLOCK FALSE
