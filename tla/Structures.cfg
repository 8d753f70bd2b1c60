SPECIFICATION Structures
CONSTANTS
  MinWordSize = 3
  MaxSmallBlocksWordSize = 4
  InitialBlocks <- MCInitialBlocks
  NumWords = 4
  Stacks = {"s1", "s2"}
  Flags = {"mtNone", "mtThreadStack", "mtClassShared"}
INVARIANTS
  NothingTwice
  StructuresSound
PROPERTIES
  ImplementsLedger
  SoundUnlessOverlooked
  ImplementsMemory
