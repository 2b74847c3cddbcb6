SPECIFICATION FairSpec
CONSTANTS
  Jobs = {j1}
  Staged = {j1}
  Undeletable = {}
  Pollers = {c1, c2}
  Cancellers = {c1, c2}
  MAX_JOBS = 1
  MAX_WORKERS = 1
  ThreadStartMayFail = FALSE
  None = None
PROPERTIES
  CancelledInQueueNeverParsed
  SlotAndInputComeBack
  ImplementsContract
