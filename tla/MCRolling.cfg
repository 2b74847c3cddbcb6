SPECIFICATION Spec
CONSTANTS
  channel = "canary"
  other = "nightly"
  InTree = 1
  RETAIN = 1
  MaxTrees = 2
  MaxDays = 2
  MaxRuns = 2
  MaxAttempts = 2
  MaxPatch = 1
  MaxOthers = 1
  None = None
CHECK_DEADLOCK FALSE
INVARIANTS
  TypeOK
  AssetsMatchTag
  OwnReleaseStays
PROPERTIES
  VersionsGrow
  PrunedOnlyStale
