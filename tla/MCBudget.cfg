SPECIFICATION Spec
CONSTANTS
  Chars = {1, 4}
  RecordSizes = {4, 6}
  MAX_OUTPUT_BYTES = 10
  MAX_ELEMENTS = 2
  MaxChars = 3
  MaxRecords = 3
  MaxFiles = 2
CHECK_DEADLOCK FALSE
INVARIANTS
  TypeOK
  SharedBudgetKept
  ClippedTight
  TruncatedHonest
  GlobalElementCap
  DetailLast
