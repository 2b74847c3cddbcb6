SPECIFICATION Spec
CONSTANTS
  Parses = {p1, p2, p3}
  Keys = {none, ocr}
  NoOptions = none
  EngineKeys = {ocr}
  MaxMembers = 2
  None = None
CHECK_DEADLOCK FALSE
SYMMETRY ParseSymmetry
INVARIANTS
  TypeOK
  UsesTheCached
  MembersAccounted
  BuilderWarns
  ReadMembersSurvive
PROPERTIES
  CacheNeverReplaced
