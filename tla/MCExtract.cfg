SPECIFICATION Spec
CONSTANTS
  Paths <- MCPaths
  Members <- MCMembers
  MAX_ARCHIVE_MEMBERS = 3
  MAX_ARCHIVE_BYTES = 3
  MaxMembers = 4
CHECK_DEADLOCK FALSE
INVARIANTS
  TypeOK
  AcceptedExactly
  ListIsTheTree
  ScratchBounded
