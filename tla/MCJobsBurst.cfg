SPECIFICATION FairSpec
CONSTANTS
  Jobs = {j1, j2, j3}
  Staged = {j1, j2, j3}
  Undeletable = {}
  Pollers = {}
  Cancellers = {}
  MAX_JOBS = 1
  MAX_WORKERS = 1
  ThreadStartMayFail = FALSE
  None = None
CHECK_DEADLOCK FALSE
INVARIANTS
  WantedJobsListed
PROPERTIES
  ImplementsContract
