SPECIFICATION Spec
CONSTANTS
  HighestLevel = 2
  WordSize <- MCWordSize
  GranuleLevel = 1
  RootsPerNode = 1
  NumNodes = 2
  NewChunksFullyCommitted = FALSE
  UncommitFreeChunks = TRUE
  Expandable = TRUE
  MaxCommit = 6
  Requests <- MCRequests
  AllocationSizes = {1}
INVARIANTS
  TypeOK
  AreasTiled
  IdeallyMerged
  ListedWordsExact
  CommitLineBacked
  NoIdleCommit
PROPERTIES
  RequestHonoured
  PurgeReclaims
  ImplementsLedger
