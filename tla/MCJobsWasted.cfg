SPECIFICATION Spec
CONSTANTS
  Jobs = {j1, j2}
  Staged = {j1, j2}
  Undeletable = {}
  Pollers = {}
  Cancellers = {c1}
  MAX_JOBS = 1
  MAX_WORKERS = 1
  ThreadStartMayFail = FALSE
  None = None
INVARIANTS
  WastedWorkBounded
