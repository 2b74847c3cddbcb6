SPECIFICATION FairSpec
CONSTANTS
  Requests = {r1, r2}
  Blobs = {b1, b2}
  Names = {n1, n2}
  NamesRecur = FALSE
  Undeletable = {r2}
  None = None
CHECK_DEADLOCK FALSE
INVARIANTS
  TypeOK
  CoreBlobsIntact
  ReadsWhatWasMeant
  StagedFilesHaveAnOwner
PROPERTIES
  AcceptedInputsDeleted
