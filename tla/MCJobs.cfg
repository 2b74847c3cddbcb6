SPECIFICATION Spec
CONSTANTS
  Jobs = {j1, j2}
  Staged = {j1, j2}
  Undeletable = {j1, j2}
  Pollers = {c1}
  Cancellers = {c1}
  MAX_JOBS = 1
  MAX_WORKERS = 1
  ThreadStartMayFail = TRUE
  None = None
SYMMETRY JobSymmetry
INVARIANTS
  TypeOK
  SlotsAccounted
  TableConsistent
  WantedJobsListed
  NoSelfInflictedFailure
  LateResultDiscarded
  SuccessShowsDocument
  MessageShowsCode
  AbandonedOnlyWhenGivenUp
