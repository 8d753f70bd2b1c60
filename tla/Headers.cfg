SPECIFICATION MCSpec
CONSTANTS
  HighestLevel = 2
  WordSize <- MCWordSize
  GranuleLevel = 0
  RootsPerNode = 2
  NumNodes = 2
  SlabCapacity = 3
  Arenas = {a1, a2}
SYMMETRY ArenaSymmetry
VIEW Read
INVARIANTS
  LinksSound
  HeadersAccounted
  ArenasReachTheirs
PROPERTIES
  ImplementsLedger
