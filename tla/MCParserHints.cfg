SPECIFICATION Spec
CONSTANTS
  Parses = {p1, p2}
  Keys = {none, ocr}
  NoOptions = none
  EngineKeys = {ocr}
  MaxMembers = 1
  None = None
CHECK_DEADLOCK FALSE
INVARIANTS
  HintLossReported
