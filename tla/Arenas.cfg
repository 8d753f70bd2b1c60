SPECIFICATION Spec
CONSTANTS
  HighestLevel = 2
  WordSize <- MCWordSize
  GranuleLevel = 1
  RootsPerNode = 2
  NumNodes = 1
  NewChunksFullyCommitted = FALSE
  UncommitFreeChunks = TRUE
  Expandable = TRUE
  MaxCommit = 6
  Arenas = {a1, a2}
  Policy <- MCPolicy
  MinBlock = 1
  Sizes = {1, 3}
SYMMETRY ArenaSymmetry
INVARIANTS
  ChunksOwned
  UsedWordsExact
  BlocksSound
  ChecksHold
PROPERTIES
  ImplementsPromise
  FailsOnlyAtLimit
