SPECIFICATION Spec
CONSTANTS
  HighestLevel = 2
  WordSize <- MCWordSize
  GranuleLevel = 1
  RootsPerNode = 1
  NumNodes = 2
  NewChunksFullyCommitted = TRUE
  UncommitFreeChunks = FALSE
  Expandable = TRUE
  MaxCommit = 8
  Requests <- MCRequestsLarge
  AllocationSizes = {1}
INVARIANTS
  SearchIsExhaustive
