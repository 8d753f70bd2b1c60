SPECIFICATION Spec
CONSTANTS
  HighestLevel = 2
  WordSize <- MCWordSize
  GranuleLevel = 1
  RootsPerNode = 1
  NumNodes = 1
  NewChunksFullyCommitted = FALSE
  UncommitFreeChunks = TRUE
  Expandable = TRUE
  MaxCommit = 4
  Arenas = {a1, a2}
  Policy <- MCPolicy
  MinBlock = 1
  Sizes = {1, 3}
INVARIANTS
  UsedWithinCommitted
