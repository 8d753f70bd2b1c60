SPECIFICATION Spec
CONSTANTS
  HighestLevel = 3
  WordSize <- MCWordSizeDeep
  GranuleLevel = 1
  RootsPerNode = 1
  NumNodes = 1
  NewChunksFullyCommitted = FALSE
  UncommitFreeChunks = TRUE
  Expandable = FALSE
  MaxCommit = 8
  Requests <- MCRequestsDeep
  AllocationSizes = {1}
INVARIANTS
  SplitIsTheLoop
  MergeIsTheLoop
PROPERTY
  ImplementsLedger
