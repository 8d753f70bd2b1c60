--------------------------- MODULE ChunkGeometry ---------------------------
(***************************************************************************)
(* Sizes and addresses of the buddy allocator: chunk levels, the aligned   *)
(* block of a level that an address lies in, the buddy of a block, the     *)
(* commit granules a range touches.  An address is the offset of a word in *)
(* one address space that virtual space nodes are reserved from; node n    *)
(* covers the words n * NodeWords .. (n + 1) * NodeWords - 1.              *)
(***************************************************************************)
EXTENDS Alignment, FiniteSetsExt

CONSTANTS
  HighestLevel,   \* chunklevel::HIGHEST_CHUNK_LEVEL, the smallest chunks
  WordSize,       \* chunklevel::word_size_for_level, as a function
  GranuleLevel,   \* the level whose chunks are one commit granule long
  RootsPerNode,   \* root chunk areas in a virtual space node
  NumNodes        \* bound: how many nodes can be reserved at once

(***************************************************************************)
(* word_size_for_level halves from level to level; the granule size is a   *)
(* power of two between the smallest and the largest chunk.                *)
(***************************************************************************)
ASSUME GeometryAssumption ==
  /\ HighestLevel \in Nat
  /\ GranuleLevel \in 0..HighestLevel
  /\ WordSize \in [0..HighestLevel -> Nat \ {0}]
  /\ \A l \in 1..HighestLevel : WordSize[l - 1] = 2 * WordSize[l]
  /\ RootsPerNode \in Nat \ {0}
  /\ NumNodes \in Nat \ {0}

Levels    == 0..HighestLevel
RootLevel == 0

GranuleWords == WordSize[GranuleLevel]
NodeWords    == RootsPerNode * WordSize[RootLevel]

Nodes     == 0..(NumNodes - 1)
Addresses == 0..(NumNodes * NodeWords - 1)
Granules  == 0..((NumNodes * NodeWords) \div GranuleWords - 1)

-----------------------------------------------------------------------------
\* Start of the aligned block of level l that address a lies in.
Block(a, l) == AlignDown(a, WordSize[l])

\* A chunk of level l > 0 is the leader of its pair if it starts where the
\* block twice its size starts.
IsLeader(a, l) == Block(a, l) = Block(a, l - 1)

\* The other half of the block of level l - 1 around the block of level l.
Buddy(a, l) == IF IsLeader(a, l) THEN Block(a, l) + WordSize[l]
                                 ELSE Block(a, l) - WordSize[l]

Words(from, size) == from..(from + size - 1)

\* level_fitting_word_size: the smallest chunks that hold so many words.
LevelFitting(size) == Max({l \in Levels : WordSize[l] >= size})

\* Granules touched by a non-empty range: both ends are aligned outwards.
GranulesOf(from, size) ==
  (from \div GranuleWords)..((from + size - 1) \div GranuleWords)

NodeGranules(n) == GranulesOf(n * NodeWords, NodeWords)
=============================================================================
