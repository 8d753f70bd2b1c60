SPECIFICATION Spec
CONSTANTS
  HighestLevel = 2
  WordSize <- MCWordSize
  GranuleLevel = 1
  RootsPerNode = 1
  NumNodes = 2
  NewChunksFullyCommitted = TRUE
  UncommitFreeChunks = FALSE
  Expandable = TRUE
  MaxCommit = 6
  Requests <- MCRequests
  AllocationSizes = {1}
INVARIANTS
  FreelistsExact
  CommitCharge
  LiveDataIntact
PROPERTY
  RequestHonoured
