CONSTANTS
  PlanLimit = 1
  CodeLimit = 1
  TestFixLimit = 1
  RetryLimit = 2
  old = old
  new = new
  dir = dir
  a = a
  b = b
  Absent = Absent
  NoPath = NoPath
  NoPlan = {NoPath}
  NoTree = NoTree
  Paths = {old, new}
  Dirs = {dir}
  Contents = {a, b}
  Tracked = {old}
  Outputs = {new}
  Below <- BelowDir
  Base <- StartTree
  Proposals <- Plans
SPECIFICATION Spec
PROPERTY DeletionsAreAgreed
