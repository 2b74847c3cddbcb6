SPECIFICATION Spec
CONSTANTS
  channel = "canary"
  other = "nightly"
  InTree = 1
  RETAIN = 1
  MaxTrees = 1
  MaxDays = 1
  MaxRuns = 1
  MaxAttempts = 2
  MaxPatch = 1
  MaxOthers = 0
  None = None
CHECK_DEADLOCK FALSE
INVARIANTS
  RerunReachesBuild
