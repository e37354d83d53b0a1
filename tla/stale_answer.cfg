CONSTANTS
  launcher = launcher
  user = user
  g1 = g1
  g2 = g2
  merge = merge
  reject = reject
  Nobody = Nobody
  NoGate = NoGate
  Gates <- TwoGates
  Answers <- Decisions
  Launchers <- OneLauncher
  Users <- OneUser
  Decision <- Rejects
  Crashes = 1
SPECIFICATION Spec
INVARIANT AnswerIsForItsQuestion
CHECK_DEADLOCK FALSE
