SPECIFICATION FairSpec
CONSTANTS
  Jobs = {j1}
  Staged = {j1}
  Undeletable = {}
  Pollers = {}
  Cancellers = {c1}
  MAX_JOBS = 1
  MAX_WORKERS = 1
  ThreadStartMayFail = FALSE
  None = None
PROPERTIES
  JobNeverHangs
