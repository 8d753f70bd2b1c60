------------------------ MODULE ContextMethods_proofs ------------------------
(***************************************************************************)
(* Lemmas about the methods of a metaspace context, for chunks, nodes and  *)
(* granules of any size.  Every method keeps the accounts of committed     *)
(* words; the chunks go on tiling the memory that the nodes handed out,    *)
(* and no two free buddies are left unmerged.                              *)
(*                                                                         *)
(* The free lists hold every free chunk once, in the list of its level,    *)
(* committed chunks first; a chunk on its way between lists and owner is   *)
(* in limbo: free, and in no list.                                         *)
(*                                                                         *)
(* No chunk promises a word that is not committed, and no method loses     *)
(* what is stored in a chunk.  That is about chunks that share granules: a *)
(* commit line is rounded to whole granules, and committing maps whole     *)
(* granules afresh.  The argument needs that a chunk no smaller than a     *)
(* granule has its granules to itself, and that of smaller chunks no line  *)
(* lies inside.                                                            *)
(*                                                                         *)
(* Whatever is split, merged, purged or taken back after a failed commit,  *)
(* the chunks of all owners stay as they are.  What nobody uses is given   *)
(* back: merging leaves no free block in pieces, so that returning a chunk *)
(* or purging reaches all that may be uncommitted.  get_chunk serves a     *)
(* request or puts together again what it has cut for it.  All of this is  *)
(* one predicate on a context, Whole, and every method keeps it.           *)
(***************************************************************************)
EXTENDS ContextMethods, BasicLemmas, SequenceTheorems

-----------------------------------------------------------------------------
(* Sizes.                                                                  *)

\* Chunks and granules are not empty.
LEMMA SizesPositive ==
  /\ GranuleWords \in Nat \ {0}
  /\ \A l \in Levels : WordSize[l] \in Nat \ {0}
BY GeometryAssumption DEF GranuleWords, Levels

\* Levels are the numbers from the root level to the highest.
LEMMA LevelRanges ==
  ASSUME NEW l \in Levels
  PROVE  /\ l \in Nat
         /\ \A m \in Levels : (l + 1)..m \subseteq Levels
         /\ RootLevel..l \subseteq Levels /\ l \in RootLevel..l
         /\ l # RootLevel => l - 1 \in Levels
<1>1. HighestLevel \in Nat
  BY GeometryAssumption
<1> QED
  BY <1>1 DEF Levels, RootLevel

\* A range touches finitely many granules.
LEMMA RangeFinite ==
  ASSUME NEW from \in Int, NEW size \in Int
  PROVE  IsFiniteSet(GranulesOf(from, size))
<1>1. from \div GranuleWords \in Int /\ (from + size - 1) \div GranuleWords \in Int
  BY SizesPositive
<1> QED
  BY <1>1, FS_Interval DEF GranulesOf

\* Blocks and buddies are addresses.
LEMMA AddressesAreInt ==
  ASSUME NEW b \in Int, NEW l \in Levels
  PROVE  /\ Block(b, l) \in Int
         /\ l # RootLevel => Buddy(b, l) \in Int
<1>1. Block(b, l) \in Int
  BY SizesPositive DEF Block, AlignDown
<1> QED
  BY <1>1, SizesPositive DEF Buddy

-----------------------------------------------------------------------------
(* Blocks.                                                                 *)

\* The next smaller chunks are half as long.
LEMMA Halving ==
  ASSUME NEW l \in Levels, l # RootLevel
  PROVE  l - 1 \in Levels /\ WordSize[l - 1] = 2 * WordSize[l]
BY GeometryAssumption DEF Levels, RootLevel

\* An address lies in its block, which is its own block.
LEMMA BlockBounds ==
  ASSUME NEW a \in Nat, NEW l \in Levels
  PROVE  /\ Block(a, l) \in Nat /\ Block(a, l) <= a /\ a < Block(a, l) + WordSize[l]
         /\ Block(Block(a, l), l) = Block(a, l)
         /\ \E q \in Nat : Block(a, l) = q * WordSize[l]
<1> DEFINE d == WordSize[l]
           q == a \div d
<1>1. d \in Nat \ {0}
  BY SizesPositive
<1>2. q \in Nat /\ q * d <= a /\ a < q * d + d
  BY <1>1, DivisionBounds
<1>3. Block(a, l) = q * d
  BY DEF Block, AlignDown
<1> HIDE DEF d, q
<1>4. q * d \in Nat
  BY <1>1, <1>2
<1>5. (q * d) \div d = q
  BY <1>1, <1>2, <1>4, QuotientUnique
<1>6. Block(q * d, l) = q * d
  BY <1>5 DEF Block, AlignDown, d
<1> QED
  BY <1>2, <1>3, <1>4, <1>6 DEF d

\* A multiple of the size is the block of every address in it.
LEMMA BlockOfMultiple ==
  ASSUME NEW q \in Nat, NEW l \in Levels, NEW a \in Nat,
         q * WordSize[l] <= a, a < q * WordSize[l] + WordSize[l]
  PROVE  Block(a, l) = q * WordSize[l]
<1>1. WordSize[l] \in Nat \ {0}
  BY SizesPositive
<1>2. a \div WordSize[l] = q
  BY <1>1, QuotientUnique
<1> QED
  BY <1>2 DEF Block, AlignDown

\* A block is the block of every address in it.
LEMMA BlockOfWord ==
  ASSUME NEW x \in Nat, NEW l \in Levels, Block(x, l) = x,
         NEW a \in Nat, x <= a, a < x + WordSize[l]
  PROVE  Block(a, l) = x
<1>1. PICK q \in Nat : x = q * WordSize[l]
  BY BlockBounds
<1> QED
  BY <1>1, BlockOfMultiple

\* A block consists of two blocks of the next level: the one an address of it
\* lies in, and the buddy.
LEMMA Halves ==
  ASSUME NEW a \in Nat, NEW l \in Levels, l # RootLevel
  PROVE  LET B == Block(a, l - 1)
             w == WordSize[l]
         IN  /\ B \in Nat /\ w \in Nat \ {0}
             /\ Block(B, l) = B /\ Block(B + w, l) = B + w
             /\ Block(B, l - 1) = B /\ Block(B + w, l - 1) = B
             /\ \/ Block(a, l) = B /\ Buddy(a, l) = B + w
                \/ Block(a, l) = B + w /\ Buddy(a, l) = B
<1> DEFINE B == Block(a, l - 1)
           w == WordSize[l]
<1>1. /\ l - 1 \in Levels /\ WordSize[l - 1] = 2 * w /\ w \in Nat \ {0}
  BY Halving, SizesPositive
<1>2. B \in Nat /\ B <= a /\ a < B + 2 * w /\ Block(B, l - 1) = B
  BY <1>1, BlockBounds
<1>3. PICK p \in Nat : B = p * (2 * w)
  BY <1>1, BlockBounds
<1>4. 2 * p \in Nat /\ B = (2 * p) * w /\ 2 * p + 1 \in Nat /\ B + w = (2 * p + 1) * w
  BY <1>1, <1>3
<1> HIDE DEF B
<1>5. Block(B, l) = B
  BY <1>1, <1>2, <1>4, BlockOfMultiple
<1>6. B + w \in Nat /\ Block(B + w, l) = B + w
  <2> DEFINE q == 2 * p + 1
  <2>1. q \in Nat /\ B + w = q * w /\ q * w \in Nat
    BY <1>1, <1>2, <1>4
  <2> HIDE DEF q
  <2>2. q * w <= q * w /\ q * w < q * w + w
    BY <1>1, <2>1
  <2>3. Block(q * w, l) = q * w
    BY <2>1, <2>2, BlockOfMultiple
  <2> QED
    BY <2>1, <2>3
<1>7. Block(B + w, l - 1) = B
  BY <1>1, <1>2, <1>6, BlockOfWord
<1>8. CASE a < B + w
  <2>1. Block(a, l) = B
    BY <1>2, <1>5, <1>8, BlockOfWord
  <2> QED
    BY <1>1, <1>2, <1>5, <1>6, <1>7, <2>1 DEF Buddy, IsLeader, B
<1>9. CASE ~(a < B + w)
  <2>1. Block(a, l) = B + w
    BY <1>1, <1>2, <1>6, <1>9, BlockOfWord
  <2>2. Block(a, l) # B
    BY <1>1, <1>2, <2>1
  <2>3. B + w - w = B
    BY <1>1, <1>2
  <2> QED
    BY <1>1, <1>2, <1>5, <1>6, <1>7, <2>1, <2>2, <2>3 DEF Buddy, IsLeader, B
<1> QED
  BY <1>8, <1>9

\* What the two halves cover.
LEMMA HalvesCover ==
  ASSUME NEW a \in Nat, NEW l \in Levels, l # RootLevel
  PROVE  /\ Words(Block(a, l - 1), WordSize[l - 1])
              = Words(Block(a, l), WordSize[l]) \cup Words(Buddy(a, l), WordSize[l])
         /\ Words(Block(a, l), WordSize[l]) \cap Words(Buddy(a, l), WordSize[l]) = {}
<1> DEFINE B == Block(a, l - 1)
           w == WordSize[l]
<1>1. /\ B \in Nat /\ w \in Nat \ {0} /\ WordSize[l - 1] = 2 * w
      /\ \/ Block(a, l) = B /\ Buddy(a, l) = B + w
         \/ Block(a, l) = B + w /\ Buddy(a, l) = B
  BY Halves, Halving
<1> HIDE DEF B, w
<1>2. /\ Words(B, 2 * w) = Words(B, w) \cup Words(B + w, w)
      /\ Words(B, w) \cap Words(B + w, w) = {}
  BY <1>1 DEF Words
<1> QED
  BY <1>1, <1>2 DEF B, w

\* The buddy is a block of the same level, and its buddy is the first one.
LEMMA BuddyOfBuddy ==
  ASSUME NEW a \in Nat, NEW l \in Levels, l # RootLevel
  PROVE  /\ Buddy(a, l) \in Nat /\ Block(Buddy(a, l), l) = Buddy(a, l)
         /\ Buddy(Buddy(a, l), l) = Block(a, l)
         /\ Buddy(a, l) # Block(a, l)
         /\ Block(Buddy(a, l), l - 1) = Block(a, l - 1)
<1> DEFINE B == Block(a, l - 1)
           w == WordSize[l]
           c == Buddy(a, l)
<1>1. /\ B \in Nat /\ w \in Nat \ {0}
      /\ Block(B, l) = B /\ Block(B + w, l) = B + w
      /\ Block(B, l - 1) = B /\ Block(B + w, l - 1) = B
      /\ \/ Block(a, l) = B /\ c = B + w
         \/ Block(a, l) = B + w /\ c = B
  BY Halves
<1>2. c \in Nat /\ Block(c, l - 1) = B /\ Block(c, l) = c
  BY <1>1
<1>3. \/ Block(c, l) = B /\ Buddy(c, l) = B + w
      \/ Block(c, l) = B + w /\ Buddy(c, l) = B
  <2> HIDE DEF B, c
  <2> QED
    BY <1>2, Halves
<1> HIDE DEF B, w, c
<1>4. Buddy(c, l) = Block(a, l)
  BY <1>1, <1>2, <1>3
<1>5. c # Block(a, l)
  BY <1>1
<1> QED
  BY <1>2, <1>4, <1>5 DEF c, B

\* The buddy of a block is the buddy of every address in it.
LEMMA BuddyOfBlock ==
  ASSUME NEW a \in Nat, NEW l \in Levels, l # RootLevel
  PROVE  Buddy(Block(a, l), l) = Buddy(a, l)
<1> DEFINE c == Buddy(a, l)
<1>1. c \in Nat /\ Block(c, l) = c /\ Buddy(c, l) = Block(a, l)
  BY BuddyOfBuddy
<1> HIDE DEF c
<1>2. Buddy(Buddy(c, l), l) = Block(c, l)
  BY <1>1, BuddyOfBuddy
<1> QED
  BY <1>1, <1>2 DEF c

\* A statement about levels that carries over to the next level holds from
\* where it starts to hold: the least level without it would have none before.
LEMMA LevelInduction ==
  ASSUME NEW first \in Levels, NEW Holds \in SUBSET Levels, first \in Holds,
         \A l \in Levels : l > first /\ l - 1 \in Holds => l \in Holds
  PROVE  \A l \in Levels : l >= first => l \in Holds
<1> DEFINE Bad == {l \in Levels : l >= first /\ l \notin Holds}
<1> SUFFICES ASSUME Bad # {}
             PROVE  FALSE
  OBVIOUS
<1>1. HighestLevel \in Nat /\ Levels \subseteq Int /\ IsFiniteSet(Levels)
  BY GeometryAssumption, FS_Interval DEF Levels
<1>2. Bad \in SUBSET Int /\ IsFiniteSet(Bad)
  <2>1. Bad \in SUBSET Levels
    OBVIOUS
  <2> QED
    BY <1>1, <2>1, FS_Subset
<1>3. Min(Bad) \in Bad /\ \A l \in Bad : Min(Bad) <= l
  BY <1>2, MinExists
<1> DEFINE l == Min(Bad)
<1>4. l \in Levels /\ l > first /\ l - 1 \in Levels /\ l - 1 >= first /\ l - 1 < l
  BY <1>1, <1>3 DEF Levels
<1>5. l - 1 \notin Bad
  <2> HIDE DEF l, Bad
  <2>1. l - 1 \in Bad => l <= l - 1
    BY <1>3 DEF l
  <2> QED
    BY <1>1, <1>4, <2>1
<1>6. l - 1 \in Holds
  BY <1>4, <1>5
<1> QED
  BY <1>3, <1>4, <1>6

\* Chunks of a higher level are shorter, at most half as long.
LEMMA SizesFall ==
  ASSUME NEW i \in Levels, NEW j \in Levels, i <= j
  PROVE  WordSize[j] <= WordSize[i] /\ (i < j => 2 * WordSize[j] <= WordSize[i])
<1> DEFINE Holds == {l \in Levels : /\ WordSize[l] <= WordSize[i]
                                    /\ i < l => 2 * WordSize[l] <= WordSize[i]}
<1>1. i \in Holds
  BY SizesPositive, LevelRanges
<1>2. ASSUME NEW l \in Levels, l > i, l - 1 \in Holds
      PROVE  l \in Holds
  <2>1. l # RootLevel
    <3>1. l \in Nat /\ i \in Nat
      BY LevelRanges
    <3> QED
      BY <1>2, <3>1 DEF RootLevel
  <2>2. l - 1 \in Levels /\ WordSize[l - 1] = 2 * WordSize[l]
    BY <2>1, Halving
  <2>3. WordSize[l] \in Nat /\ WordSize[i] \in Nat
    BY SizesPositive
  <2> QED
    BY <1>2, <2>2, <2>3
<1>3. Holds \in SUBSET Levels
  OBVIOUS
<1> HIDE DEF Holds
<1>4. \A l \in Levels : l >= i => l \in Holds
  BY <1>1, <1>2, <1>3, LevelInduction
<1>5. j \in Holds
  BY <1>4, LevelRanges
<1> QED
  BY <1>5 DEF Holds

\* Where a block starts, a block of each higher level starts.
LEMMA BlocksNest ==
  ASSUME NEW i \in Levels, NEW j \in Levels, i <= j, NEW x \in Nat, Block(x, i) = x
  PROVE  Block(x, j) = x
<1> DEFINE Holds == {l \in Levels : Block(x, l) = x}
<1>1. i \in Holds
  OBVIOUS
<1>2. ASSUME NEW l \in Levels, l > i, l - 1 \in Holds
      PROVE  l \in Holds
  <2>1. l # RootLevel
    <3>1. l \in Nat /\ i \in Nat
      BY LevelRanges
    <3> QED
      BY <1>2, <3>1 DEF RootLevel
  <2>2. Block(x, l - 1) = x
    BY <1>2
  <2>3. Block(x, l) = x
    BY <2>1, <2>2, Halves
  <2> QED
    BY <2>3
<1>3. Holds \in SUBSET Levels
  OBVIOUS
<1> HIDE DEF Holds
<1>4. \A l \in Levels : l >= i => l \in Holds
  BY <1>1, <1>2, <1>3, LevelInduction
<1>5. j \in Holds
  BY <1>4, LevelRanges
<1> QED
  BY <1>5 DEF Holds

\* Below the level of a block its buddies are the second halves of the cuts.
LEMMA BuddyOfCut ==
  ASSUME NEW b \in Nat, NEW l \in Levels, Block(b, l) = b, NEW k \in Levels, l < k
  PROVE  Block(b, k) = b /\ Buddy(b, k) = b + WordSize[k]
<1>1. l \in Nat /\ k \in Nat /\ k # RootLevel
  BY LevelRanges DEF RootLevel
<1>2. k - 1 \in Levels /\ l <= k - 1 /\ l <= k
  BY <1>1, Halving
<1>3. Block(b, k) = b /\ Block(b, k - 1) = b
  BY <1>2, BlocksNest
<1> QED
  BY <1>1, <1>3, Halves, SizesPositive

\* Blocks that have a word in common and the same level are the same.
LEMMA BlocksMeet ==
  ASSUME NEW x \in Nat, NEW y \in Nat, NEW l \in Levels, Block(x, l) = x, Block(y, l) = y,
         NEW a \in Words(x, WordSize[l]), a \in Words(y, WordSize[l])
  PROVE  x = y
<1>1. a \in Nat /\ x <= a /\ a < x + WordSize[l] /\ y <= a /\ a < y + WordSize[l]
  BY SizesPositive DEF Words
<1> QED
  BY <1>1, BlockOfWord

\* Merging a block of level l with its buddies from level l down to level
\* m + 1 gives the block of level m.
LEMMA BuddiesFillBlock ==
  ASSUME NEW b \in Nat, NEW l \in Levels, Block(b, l) = b, NEW m \in Levels, m <= l
  PROVE  Words(Block(b, m), WordSize[m])
           = Words(b, WordSize[l])
               \cup (UNION {Words(Buddy(b, k), WordSize[k]) : k \in (m + 1)..l})
<1> DEFINE Joined(i) == UNION {Words(Buddy(b, k), WordSize[k]) : k \in (m + 1)..i}
           Holds == {i \in Levels : i >= m /\ i <= l =>
                       Words(Block(b, m), WordSize[m])
                         = Words(Block(b, i), WordSize[i]) \cup Joined(i)}
<1>1. m \in Holds
  <2>1. (m + 1)..m = {}
    BY LevelRanges
  <2> QED
    BY <2>1
<1>2. ASSUME NEW i \in Levels, i > m, i - 1 \in Holds
      PROVE  i \in Holds
  <2> SUFFICES ASSUME i <= l
               PROVE  Words(Block(b, m), WordSize[m])
                        = Words(Block(b, i), WordSize[i]) \cup Joined(i)
    OBVIOUS
  <2>1. i # RootLevel /\ i \in Nat /\ m \in Nat /\ l \in Nat
    BY <1>2, LevelRanges DEF RootLevel
  <2>2. Words(Block(b, m), WordSize[m])
          = Words(Block(b, i - 1), WordSize[i - 1]) \cup Joined(i - 1)
    BY <1>2, <2>1
  <2>3. Words(Block(b, i - 1), WordSize[i - 1])
          = Words(Block(b, i), WordSize[i]) \cup Words(Buddy(b, i), WordSize[i])
    BY <2>1, HalvesCover
  <2>4. (m + 1)..i = ((m + 1)..(i - 1)) \cup {i}
    BY <1>2, <2>1
  <2>5. Joined(i) = Joined(i - 1) \cup Words(Buddy(b, i), WordSize[i])
    BY <2>4
  <2> HIDE DEF Joined
  <2> QED
    BY <2>2, <2>3, <2>5
<1>3. Holds \in SUBSET Levels
  OBVIOUS
<1>4. l \in Holds
  <2> HIDE DEF Holds
  <2>1. \A i \in Levels : i >= m => i \in Holds
    BY <1>1, <1>2, <1>3, LevelInduction
  <2> QED
    BY <2>1, LevelRanges
<1> QED
  BY <1>4, LevelRanges

-----------------------------------------------------------------------------
(* Nodes.                                                                  *)

\* A node is a number of root chunks long.
LEMMA NodeSize ==
  /\ NodeWords \in Nat \ {0}
  /\ NodeWords = RootsPerNode * WordSize[RootLevel]
  /\ RootLevel \in Levels /\ WordSize[RootLevel] \in Nat \ {0}
  /\ Nodes \subseteq Nat
<1>1. RootLevel \in Levels
  BY GeometryAssumption DEF RootLevel, Levels
<1>2. WordSize[RootLevel] \in Nat \ {0} /\ RootsPerNode \in Nat \ {0}
  BY <1>1, SizesPositive, GeometryAssumption
<1> QED
  BY <1>1, <1>2 DEF NodeWords, Nodes

\* The words of a node.
LEMMA WordOfNode ==
  ASSUME NEW n \in Nat, NEW i \in 0..(NodeWords - 1)
  PROVE  /\ n * NodeWords + i \in Nat
         /\ (n * NodeWords + i) \div NodeWords = n
         /\ (n * NodeWords + i) % NodeWords = i
<1>1. n * NodeWords \in Nat /\ i \in Nat /\ i < NodeWords /\ NodeWords \in Nat \ {0}
  BY NodeSize
<1>2. (n * NodeWords + i) \div NodeWords = n
  BY <1>1, QuotientUnique
<1> QED
  BY <1>1, <1>2

\* A word lies in its node.
LEMMA NodeOfWord ==
  ASSUME NEW a \in Nat
  PROVE  /\ a \div NodeWords \in Nat /\ a % NodeWords \in 0..(NodeWords - 1)
         /\ a = (a \div NodeWords) * NodeWords + (a % NodeWords)
<1>1. NodeWords \in Nat \ {0}
  BY NodeSize
<1> HIDE DEF NodeWords
<1> QED
  BY <1>1

\* The granules of a range are those of its words.
LEMMA GranulesOfWords ==
  ASSUME NEW from \in Nat, NEW size \in Nat \ {0}
  PROVE  /\ GranulesOf(from, size) \subseteq Nat
         /\ \A a \in Words(from, size) : a \div GranuleWords \in GranulesOf(from, size)
         /\ \A g \in GranulesOf(from, size) :
              \E a \in Words(from, size) : a \div GranuleWords = g
<1> DEFINE G    == GranuleWords
           last == from + size - 1
<1>1. G \in Nat \ {0} /\ last \in Nat /\ from <= last
  BY SizesPositive
<1>2. Words(from, size) = from..last /\ GranulesOf(from, size) = (from \div G)..(last \div G)
  BY DEF Words, GranulesOf
<1> HIDE DEF G, last
<1>3. /\ from \div G \in Nat /\ last \div G \in Nat
      /\ (from \div G) * G <= from /\ from < (from \div G) * G + G
      /\ (last \div G) * G <= last /\ last < (last \div G) * G + G
  BY <1>1, DivisionBounds
<1>4. ASSUME NEW a \in from..last
      PROVE  a \div G \in (from \div G)..(last \div G)
  <2>1. a \in Nat /\ from <= a /\ a <= last
    BY <1>1
  <2>2. from \div G <= a \div G /\ a \div G <= last \div G /\ a \div G \in Nat
    BY <1>1, <2>1, QuotientMonotone, DivisionBounds
  <2> QED
    BY <1>3, <2>2
<1>5. ASSUME NEW g \in (from \div G)..(last \div G)
      PROVE  \E a \in from..last : a \div G = g
  <2>1. g \in Nat /\ from \div G <= g /\ g <= last \div G
    BY <1>3
  <2>2. CASE g = from \div G
    BY <1>1, <2>2
  <2>3. CASE g # from \div G
    <3>1. (from \div G) + 1 <= g
      BY <1>3, <2>1, <2>3
    <3> DEFINE p == from \div G
               q == last \div G
    <3>2. (p + 1) * G <= g * G /\ g * G <= q * G /\ g * G \in Nat
      <4>1. p \in Nat /\ q \in Nat /\ p + 1 <= g /\ g <= q
        BY <1>3, <2>1, <3>1
      <4> HIDE DEF p, q
      <4> QED
        BY <1>1, <2>1, <4>1
    <3>3. (p + 1) * G = p * G + G
      <4>1. p \in Nat
        BY <1>3
      <4> HIDE DEF p
      <4> QED
        BY <1>1, <4>1
    <3>4. g * G \in from..last
      <4>1. p * G \in Int /\ q * G \in Int /\ from < p * G + G /\ q * G <= last
        BY <1>1, <1>3
      <4> HIDE DEF p, q
      <4> QED
        BY <1>1, <3>2, <3>3, <4>1
    <3>5. (g * G) \div G = g
      BY <1>1, <2>1, <3>2, QuotientUnique
    <3> QED
      BY <3>4, <3>5
  <2> QED
    BY <2>2, <2>3
<1>6. (from \div G)..(last \div G) \subseteq Nat
  BY <1>3
<1> QED
  BY <1>2, <1>4, <1>5, <1>6 DEF G

\* The words of a node lie in its granules.
LEMMA GranuleInNode ==
  ASSUME NEW a \in Nat
  PROVE  a \div GranuleWords \in NodeGranules(a \div NodeWords)
<1> DEFINE n == a \div NodeWords
<1>1. NodeWords \in Nat \ {0}
  BY NodeSize
<1>2. n \in Nat /\ n * NodeWords <= a /\ a < n * NodeWords + NodeWords
  BY <1>1, DivisionBounds
<1> HIDE DEF n
<1>3. n * NodeWords \in Nat /\ a \in Words(n * NodeWords, NodeWords)
  BY <1>1, <1>2 DEF Words
<1>4. a \div GranuleWords \in GranulesOf(n * NodeWords, NodeWords)
  BY <1>1, <1>3, GranulesOfWords
<1> QED
  BY <1>4 DEF NodeGranules, n

\* A root block lies in one node.
LEMMA RootInNode ==
  ASSUME NEW q \in Nat, NEW a \in Words(q * WordSize[RootLevel], WordSize[RootLevel])
  PROVE  a \in Nat /\ a \div NodeWords = q \div RootsPerNode
<1> DEFINE w == WordSize[RootLevel]
           R == RootsPerNode
           n == q \div R
<1>1. w \in Nat \ {0} /\ R \in Nat \ {0} /\ NodeWords = R * w /\ R * w \in Nat \ {0}
  BY NodeSize, GeometryAssumption
<1>2. n \in Nat /\ n * R <= q /\ q < n * R + R
  BY <1>1, DivisionBounds
<1>3. q * w <= a /\ a < q * w + w /\ q * w \in Nat /\ a \in Nat
  BY <1>1 DEF Words
<1> HIDE DEF n, w, R
<1>4. (n * R) * w <= q * w /\ (q + 1) * w <= (n * R + R) * w
  <2>1. n * R \in Nat /\ q + 1 <= n * R + R
    BY <1>1, <1>2
  <2> DEFINE x == n * R
             y == n * R + R
  <2>2. x \in Nat /\ y \in Nat /\ x <= q /\ q + 1 <= y
    BY <1>1, <1>2, <2>1
  <2> HIDE DEF x, y
  <2>3. x * w <= q * w /\ (q + 1) * w <= y * w
    BY <1>1, <2>2
  <2> QED
    BY <2>3 DEF x, y
<1>5. (q + 1) * w = q * w + w
  BY <1>1
<1>6. (n * R) * w = n * (R * w) /\ (n * R + R) * w = n * (R * w) + R * w
  BY <1>1, <1>2
<1>7. n * (R * w) \in Int /\ (n * R) * w \in Int
  BY <1>1, <1>2
<1>8. n * (R * w) <= a /\ a < n * (R * w) + R * w
  BY <1>1, <1>3, <1>4, <1>5, <1>6, <1>7
<1>9. a \div (R * w) = n
  BY <1>1, <1>2, <1>3, <1>8, QuotientUnique
<1> QED
  BY <1>1, <1>3, <1>9 DEF n, R

\* A chunk lies in one node.
LEMMA ChunkInNode ==
  ASSUME NEW b \in Nat, NEW l \in Levels, Block(b, l) = b, NEW a \in Words(b, WordSize[l])
  PROVE  a \in Nat /\ a \div NodeWords = b \div NodeWords
<1>1. RootLevel \in Levels /\ RootLevel <= l
  BY NodeSize, LevelRanges DEF RootLevel
<1>2. Words(b, WordSize[l]) \subseteq Words(Block(b, RootLevel), WordSize[RootLevel])
  BY <1>1, BuddiesFillBlock
<1>3. b \in Words(b, WordSize[l])
  BY SizesPositive DEF Words
<1>4. PICK q \in Nat : Block(b, RootLevel) = q * WordSize[RootLevel]
  BY <1>1, BlockBounds
<1>5. /\ a \in Words(q * WordSize[RootLevel], WordSize[RootLevel])
      /\ b \in Words(q * WordSize[RootLevel], WordSize[RootLevel])
  BY <1>2, <1>3, <1>4
<1>6. a \in Nat /\ a \div NodeWords = q \div RootsPerNode
  BY <1>5, RootInNode
<1>7. b \div NodeWords = q \div RootsPerNode
  BY <1>5, RootInNode
<1> QED
  BY <1>6, <1>7

\* The next root chunk of a node with room is aligned, lies in the node, above
\* what was taken before, and leaves the node's use a multiple of root chunks.
LEMMA NextRootChunk ==
  ASSUME NEW n \in Nodes, NEW i \in Nat, i * WordSize[RootLevel] < NodeWords
  PROVE  LET w    == WordSize[RootLevel]
             used == i * w
             b    == n * NodeWords + used
         IN  /\ b \in Nat /\ Block(b, RootLevel) = b
             /\ used + w = (i + 1) * w /\ used + w <= NodeWords
             /\ Words(b, w) \subseteq Addresses
             /\ \A a \in Nat : a \in Words(b, w) <=>
                  /\ a \div NodeWords = n
                  /\ used <= a % NodeWords /\ a % NodeWords < used + w
<1> DEFINE w    == WordSize[RootLevel]
           R    == RootsPerNode
           used == i * w
           b    == n * NodeWords + used
<1>1. w \in Nat \ {0} /\ R \in Nat \ {0} /\ NodeWords = R * w /\ NodeWords \in Nat \ {0}
  BY NodeSize, GeometryAssumption
<1>2. n \in Nat /\ NumNodes \in Nat /\ n + 1 <= NumNodes
  BY GeometryAssumption DEF Nodes
<1>3. used \in Nat /\ used + w = (i + 1) * w
  <2> HIDE DEF w
  <2> QED
    BY <1>1
<1>4. i + 1 <= R
  <2>1. ASSUME R <= i
        PROVE  FALSE
    <3> HIDE DEF w, R
    <3>1. R * w <= i * w
      BY <1>1, <2>1
    <3>2. i * w < R * w
      BY <1>1 DEF w
    <3>3. R * w \in Nat /\ i * w \in Nat
      BY <1>1
    <3> QED
      BY <3>1, <3>2, <3>3
  <2> QED
    BY <1>1, <2>1
<1>5. used + w <= NodeWords
  <2> HIDE DEF w, R, used
  <2>1. (i + 1) * w <= R * w
    BY <1>1, <1>4
  <2> QED
    BY <1>1, <1>3, <2>1
<1>6. b \in Nat /\ n * NodeWords \in Nat
  BY <1>1, <1>2, <1>3
<1>7. Block(b, RootLevel) = b
  <2>1. b = (n * R + i) * w /\ n * R + i \in Nat
    <3> HIDE DEF w, R
    <3>1. n * (R * w) = (n * R) * w /\ (n * R + i) * w = (n * R) * w + i * w
      BY <1>1, <1>2
    <3>2. n * R + i \in Nat
      BY <1>1, <1>2
    <3> QED
      BY <1>1, <3>1, <3>2 DEF b, used
  <2>2. RootLevel \in Levels
    BY NodeSize
  <2> DEFINE q == n * R + i
  <2>3. q \in Nat /\ b = q * w
    BY <2>1
  <2>4. q * w <= b /\ b < q * w + w
    <3> HIDE DEF q, b, w
    <3> QED
      BY <1>1, <1>6, <2>3
  <2> HIDE DEF q
  <2>5. Block(b, RootLevel) = q * WordSize[RootLevel]
    BY <1>6, <2>2, <2>3, <2>4, BlockOfMultiple
  <2> QED
    BY <2>3, <2>5
<1>8. Words(b, w) \subseteq Addresses
  <2>1. (n + 1) * NodeWords <= NumNodes * NodeWords /\ (n + 1) * NodeWords = n * NodeWords + NodeWords
    <3> HIDE DEF NodeWords
    <3> QED
      BY <1>1, <1>2
  <2>2. NumNodes * NodeWords \in Nat
    BY <1>1, <1>2
  <2> DEFINE x == n * NodeWords
             y == NumNodes * NodeWords
  <2>3. x \in Nat /\ y \in Nat /\ x + NodeWords <= y /\ b = x + used
    BY <1>1, <1>6, <2>1, <2>2
  <2>4. Addresses = 0..(y - 1) /\ Words(b, w) = b..(b + w - 1)
    BY DEF Addresses, Words
  <2> HIDE DEF x, y, b, used, w
  <2> QED
    BY <1>1, <1>3, <1>5, <2>3, <2>4
<1>9. ASSUME NEW a \in Nat
      PROVE  a \in Words(b, w) <=> /\ a \div NodeWords = n
                                   /\ used <= a % NodeWords /\ a % NodeWords < used + w
  <2> DEFINE m == a \div NodeWords
             j == a % NodeWords
             x == n * NodeWords
  <2>1. m \in Nat /\ j \in 0..(NodeWords - 1) /\ a = m * NodeWords + j
    BY NodeOfWord
  <2>2. Words(b, w) = b..(b + w - 1) /\ b = x + used
    BY DEF Words
  <2>3. ASSUME a \in Words(b, w)
        PROVE  m = n /\ used <= j /\ j < used + w
    <3> DEFINE k == a - x
    <3>1. k \in 0..(NodeWords - 1) /\ used <= k /\ k < used + w /\ a = x + k
      <4> HIDE DEF b, used, w, x
      <4> QED
        BY <1>1, <1>3, <1>5, <1>6, <2>2, <2>3 DEF x
    <3> HIDE DEF k
    <3>2. a \div NodeWords = n /\ a % NodeWords = k
      BY <1>2, <3>1, WordOfNode
    <3> QED
      BY <3>1, <3>2
  <2>4. ASSUME m = n, used <= j, j < used + w
        PROVE  a \in Words(b, w)
    <3>1. a = x + j /\ x \in Nat /\ j \in Nat
      BY <1>1, <1>6, <2>1, <2>4
    <3> HIDE DEF b, used, w, x, j
    <3> QED
      BY <1>1, <1>3, <2>2, <2>4, <3>1
  <2> QED
    BY <2>3, <2>4
<1> QED
  BY <1>3, <1>5, <1>6, <1>7, <1>8, <1>9

\* The words of a granule are a block of the granule's level.
LEMMA GranuleBlock ==
  ASSUME NEW a \in Nat
  PROVE  LET B == Block(a, GranuleLevel) IN
         /\ GranuleLevel \in Levels /\ B \in Nat /\ B % GranuleWords = 0
         /\ Block(B, GranuleLevel) = B /\ a \in Words(B, GranuleWords)
         /\ \A x \in Nat : x \in Words(B, GranuleWords) <=> x \div GranuleWords = a \div GranuleWords
<1> DEFINE g == GranuleWords
           q == a \div g
           B == Block(a, GranuleLevel)
<1>1. g \in Nat \ {0} /\ GranuleLevel \in Levels
  BY SizesPositive, GeometryAssumption DEF Levels
<1>2. B = q * g /\ q \in Nat
  BY <1>1, DivisionBounds DEF Block, AlignDown, GranuleWords
<1>3. B \in Nat /\ Block(B, GranuleLevel) = B /\ B <= a /\ a < B + g
  BY <1>1, BlockBounds DEF GranuleWords
<1>4. B % g = 0
  BY <1>1, <1>2, MultipleIsAligned DEF IsAligned
<1>5. ASSUME NEW x \in Nat
      PROVE  x \in Words(B, g) <=> x \div g = q
  <2>1. x \in Words(B, g) <=> B <= x /\ x < B + g
    <3> HIDE DEF B, g
    <3> QED
      BY <1>1, <1>3 DEF Words
  <2>2. B <= x /\ x < B + g => x \div g = q
    <3> HIDE DEF q, g
    <3> QED
      BY <1>1, <1>2, QuotientUnique
  <2>3. (x \div g) * g <= x /\ x < (x \div g) * g + g
    BY <1>1, DivisionBounds
  <2>4. x \div g = q => B <= x /\ x < B + g
    BY <1>2, <2>3
  <2> QED
    BY <2>1, <2>2, <2>4
<1>6. a \in Words(B, g)
  BY <1>5
<1> QED
  BY <1>1, <1>3, <1>4, <1>5, <1>6

\* A chunk no larger than a granule lies in one.
LEMMA SmallInGranule ==
  ASSUME NEW b \in Nat, NEW l \in Levels, GranuleLevel <= l, Block(b, l) = b,
         NEW a \in Words(b, WordSize[l])
  PROVE  a \in Nat /\ a \div GranuleWords = b \div GranuleWords
<1> DEFINE B == Block(b, GranuleLevel)
<1>1. GranuleLevel \in Levels
  BY GeometryAssumption DEF Levels
<1>2. Words(b, WordSize[l]) \subseteq Words(B, WordSize[GranuleLevel])
  BY <1>1, BuddiesFillBlock
<1>3. a \in Words(B, GranuleWords)
  BY <1>2 DEF GranuleWords
<1>4. a \in Nat
  BY SizesPositive DEF Words
<1> QED
  BY <1>3, <1>4, GranuleBlock

\* A chunk no smaller than a granule consists of whole granules.
LEMMA LargeOfGranules ==
  ASSUME NEW b \in Nat, NEW l \in Levels, l <= GranuleLevel, Block(b, l) = b,
         NEW x \in Words(b, WordSize[l]), NEW a \in Nat,
         a \div GranuleWords = x \div GranuleWords
  PROVE  a \in Words(b, WordSize[l])
<1> DEFINE B == Block(x, GranuleLevel)
           C == Block(B, l)
<1>1. GranuleLevel \in Levels /\ x \in Nat
  BY SizesPositive, GeometryAssumption DEF Levels, Words
<1>2. /\ B \in Nat /\ Block(B, GranuleLevel) = B
      /\ x \in Words(B, GranuleWords) /\ a \in Words(B, GranuleWords)
  BY <1>1, GranuleBlock
<1>3. Words(B, WordSize[GranuleLevel]) \subseteq Words(C, WordSize[l])
  BY <1>1, <1>2, BuddiesFillBlock
<1>4. x \in Words(C, WordSize[l]) /\ a \in Words(C, WordSize[l])
  BY <1>2, <1>3 DEF GranuleWords
<1>5. C \in Nat /\ Block(C, l) = C
  BY <1>2, BlockBounds
<1> HIDE DEF C
<1>6. C = b
  BY <1>4, <1>5, BlocksMeet
<1> QED
  BY <1>4, <1>6

\* A chunk no smaller than a granule starts with one, and is a multiple of it.
LEMMA LargeIsAligned ==
  ASSUME NEW b \in Nat, NEW l \in Levels, l <= GranuleLevel, Block(b, l) = b
  PROVE  IsAligned(b, GranuleWords)
<1>1. GranuleLevel \in Levels
  BY GeometryAssumption DEF Levels
<1>2. Block(b, GranuleLevel) = b
  BY <1>1, BlocksNest
<1> QED
  BY <1>2, GranuleBlock DEF IsAligned

\* Words of one granule are words of one node.
LEMMA GranuleOfOneNode ==
  ASSUME NEW a \in Nat, NEW x \in Nat, a \div GranuleWords = x \div GranuleWords
  PROVE  a \div NodeWords = x \div NodeWords
<1> DEFINE B == Block(a, GranuleLevel)
<1>1. /\ GranuleLevel \in Levels /\ B \in Nat /\ Block(B, GranuleLevel) = B
      /\ a \in Words(B, GranuleWords) /\ x \in Words(B, GranuleWords)
  BY GranuleBlock
<1> HIDE DEF B
<1>2. a \div NodeWords = B \div NodeWords /\ x \div NodeWords = B \div NodeWords
  BY <1>1, ChunkInNode DEF GranuleWords
<1> QED
  BY <1>2

\* The reservation ends with a granule.
LEMMA GranulesFill ==
  LET words == NumNodes * NodeWords IN
  words \in Nat /\ words = (words \div GranuleWords) * GranuleWords
<1> DEFINE words == NumNodes * NodeWords
           q     == NumNodes * RootsPerNode
           w     == WordSize[RootLevel]
<1>1. /\ RootLevel \in Levels /\ w \in Nat \ {0} /\ NodeWords = RootsPerNode * w
      /\ NumNodes \in Nat \ {0} /\ RootsPerNode \in Nat \ {0}
      /\ GranuleWords \in Nat \ {0}
  BY NodeSize, SizesPositive, GeometryAssumption
<1> HIDE DEF w
<1>2. q \in Nat /\ words = q * w /\ words \in Nat
  <2>1. q \in Nat
    BY <1>1
  <2>2. words = NumNodes * (RootsPerNode * w)
    BY <1>1
  <2>3. NumNodes * (RootsPerNode * w) = q * w
    BY <1>1
  <2> HIDE DEF q, words
  <2>4. q * w \in Nat
    BY <1>1, <2>1
  <2> QED
    BY <2>1, <2>2, <2>3, <2>4
<1> HIDE DEF q, words
<1>3. Block(words, RootLevel) = words
  <2>1. words < q * w + w
    BY <1>1, <1>2
  <2> QED
    BY <1>1, <1>2, <2>1, BlockOfMultiple DEF w
<1>4. RootLevel <= GranuleLevel
  BY GeometryAssumption DEF RootLevel
<1>5. IsAligned(words, GranuleWords)
  BY <1>1, <1>2, <1>3, <1>4, LargeIsAligned
<1>6. words = (words \div GranuleWords) * GranuleWords
  BY <1>1, <1>2, <1>5, AlignedIsMultiple
<1> QED
  BY <1>2, <1>6 DEF words

\* The granules are those of the addresses.
LEMMA GranuleOfAddress ==
  ASSUME NEW a \in Addresses
  PROVE  a \div GranuleWords \in Granules
<1> DEFINE words == NumNodes * NodeWords
           last  == words \div GranuleWords
           g     == a \div GranuleWords
<1>1. words \in Nat /\ words = last * GranuleWords /\ GranuleWords \in Nat \ {0}
  BY GranulesFill, SizesPositive
<1>2. a \in Nat /\ a < words
  BY <1>1 DEF Addresses
<1>3. g \in Nat /\ g * GranuleWords <= a
  BY <1>1, <1>2, DivisionBounds
<1>4. last \in Nat
  BY <1>1, DivisionBounds
<1>5. Granules = 0..(last - 1)
  BY DEF Granules
<1> HIDE DEF words, last, g
<1>6. g < last
  BY <1>1, <1>2, <1>3, <1>4
<1> QED
  BY <1>3, <1>4, <1>5, <1>6 DEF g

\* A node covers granules of the reservation only.
LEMMA NodeGranulesExist ==
  ASSUME NEW n \in Nodes
  PROVE  NodeGranules(n) \subseteq Granules
<1> SUFFICES ASSUME NEW g \in NodeGranules(n)
             PROVE  g \in Granules
  OBVIOUS
<1>1. n \in Nat /\ n < NumNodes /\ NodeWords \in Nat \ {0} /\ NumNodes \in Nat
  BY NodeSize, GeometryAssumption DEF Nodes
<1> HIDE DEF NodeWords
<1> DEFINE first == n * NodeWords
<1>2. first \in Nat
  BY <1>1
<1>3. PICK a \in Words(first, NodeWords) : a \div GranuleWords = g
  BY <1>1, <1>2, GranulesOfWords DEF NodeGranules
<1>4. first + NodeWords <= NumNodes * NodeWords
  BY <1>1
<1>5. a \in Nat /\ a < first + NodeWords
  BY <1>1, <1>2, <1>3 DEF Words
<1>6. NumNodes * NodeWords \in Nat
  BY <1>1
<1> HIDE DEF first
<1>7. a \in Addresses
  BY <1>1, <1>2, <1>4, <1>5, <1>6 DEF Addresses
<1> QED
  BY <1>3, <1>7, GranuleOfAddress

-----------------------------------------------------------------------------
(* Requests and chunks.                                                    *)

\* What a caller of get_chunk may ask for.
LEMMA RequestFacts ==
  ASSUME NEW r \in LegalRequests
  PROVE  /\ r.pref \in Levels /\ r.max \in Levels /\ r.min \in Nat
         /\ r.pref <= r.max /\ r.min <= WordSize[r.max]
BY DEF LegalRequests

-----------------------------------------------------------------------------
(* The accounts of a context: what every operation has to keep.            *)

Fields == {"chunk", "list", "listed", "nodes", "used", "mask",
           "committed", "reserved", "limiter", "data"}

Metachunk == [level: Levels, state: {"free", "inuse"}, committed: Int, used: Int]

ChunkMap(f) == DOMAIN f \subseteq Int /\ \A b \in DOMAIN f : f[b] \in Metachunk

\* A context whose counters agree with its mask, next to another context that
\* has charged `other` words to the limiter.
Accounts(s, other) ==
  /\ DOMAIN s = Fields
  /\ ChunkMap(s.chunk)
  /\ IsFiniteSet(s.mask)
  /\ s.committed = GranuleWords * Cardinality(s.mask)
  /\ s.limiter = s.committed + other
  /\ s.limiter <= MaxCommit

\* Words of some granules and of some more, or some less.
LEMMA Distribution ==
  ASSUME NEW g \in Int, NEW a \in Int, NEW b \in Int
  PROVE  g * (a + b) = g * a + g * b /\ g * (a - b) = g * a - g * b
OBVIOUS

\* The counters are numbers.
LEMMA AccountsAreInt ==
  ASSUME NEW s, NEW other \in Int, Accounts(s, other)
  PROVE  s.committed \in Int /\ s.limiter \in Int /\ Cardinality(s.mask) \in Nat
<1>1. Cardinality(s.mask) \in Nat
  BY FS_CardinalityType DEF Accounts
<1> QED
  BY <1>1, SizesPositive DEF Accounts

\* Committing what the limiter has room for keeps the accounts.
LEMMA CommitRangeAccounts ==
  ASSUME NEW s, NEW other \in Int, Accounts(s, other),
         NEW from \in Int, NEW size \in Int,
         GranuleWords * Cardinality(GranulesOf(from, size) \ s.mask) <= PossibleExpansion(s)
  PROVE  /\ Accounts(CommitRange(s, from, size), other)
         /\ CommitRange(s, from, size).chunk = s.chunk
<1> DEFINE range == GranulesOf(from, size)
           words == GranuleWords * Cardinality(range \ s.mask)
           data  == {a \in s.data : a \div GranuleWords \notin range}
           t     == [s EXCEPT !.mask      = s.mask \cup range,
                              !.limiter   = s.limiter + words,
                              !.committed = s.committed + words,
                              !.data      = data]
<1>1. IsFiniteSet(range) /\ IsFiniteSet(s.mask)
  BY RangeFinite DEF Accounts
<1>2. /\ IsFiniteSet(s.mask \cup range)
      /\ Cardinality(s.mask \cup range)
           = Cardinality(s.mask) + Cardinality(range) - Cardinality(s.mask \cap range)
  BY <1>1, FS_Union
<1>3. /\ IsFiniteSet(range \ s.mask)
      /\ Cardinality(range \ s.mask) = Cardinality(range) - Cardinality(range \cap s.mask)
  BY <1>1, FS_Difference
<1>4. range \cap s.mask = s.mask \cap range
  OBVIOUS
<1>5. /\ Cardinality(range) \in Nat /\ Cardinality(s.mask) \in Nat
      /\ Cardinality(range \ s.mask) \in Nat /\ Cardinality(s.mask \cup range) \in Nat
      /\ Cardinality(s.mask \cap range) \in Nat
  BY <1>1, <1>2, <1>3, FS_CardinalityType, FS_Intersection
<1>6. Cardinality(s.mask \cup range) = Cardinality(s.mask) + Cardinality(range \ s.mask)
  BY <1>2, <1>3, <1>4, <1>5
<1>7. CommitRange(s, from, size) = IF words = 0 THEN s ELSE t
  BY DEF CommitRange
<1>8. words \in Int /\ s.limiter \in Int /\ s.committed \in Int
  BY <1>5, SizesPositive, AccountsAreInt
<1>9. /\ DOMAIN t = Fields /\ t.chunk = s.chunk /\ t.mask = s.mask \cup range
      /\ t.committed = s.committed + words /\ t.limiter = s.limiter + words
  BY DEF Accounts, Fields
<1>10. GranuleWords * Cardinality(s.mask \cup range)
         = GranuleWords * Cardinality(s.mask) + words
  BY <1>5, <1>6, SizesPositive, Distribution
<1>11. s.limiter + words <= MaxCommit
  BY <1>8, ContextAssumption DEF PossibleExpansion
<1> HIDE DEF range, words, t
<1>12. t.committed = GranuleWords * Cardinality(t.mask)
  BY <1>9, <1>10 DEF Accounts
<1>13. t.limiter = t.committed + other /\ t.limiter <= MaxCommit
  BY <1>8, <1>9, <1>11 DEF Accounts
<1>14. Accounts(t, other)
  BY <1>2, <1>9, <1>12, <1>13 DEF Accounts
<1> QED
  BY <1>7, <1>9, <1>14

\* Taking granules out of the mask and off the counters keeps the accounts.
LEMMA UncommitAccounts ==
  ASSUME NEW s, NEW other \in Int, Accounts(s, other), NEW gone,
         NEW t, DOMAIN t = Fields, ChunkMap(t.chunk),
         t.mask = s.mask \ gone,
         t.committed = s.committed - GranuleWords * Cardinality(gone \cap s.mask),
         t.limiter = s.limiter - GranuleWords * Cardinality(gone \cap s.mask)
  PROVE  Accounts(t, other)
<1>1. IsFiniteSet(s.mask)
  BY DEF Accounts
<1>2. /\ IsFiniteSet(s.mask \ gone)
      /\ Cardinality(s.mask \ gone) = Cardinality(s.mask) - Cardinality(s.mask \cap gone)
  BY <1>1, FS_Difference
<1>3. Cardinality(s.mask \ gone) = Cardinality(s.mask) - Cardinality(gone \cap s.mask)
  <2>1. s.mask \cap gone = gone \cap s.mask
    OBVIOUS
  <2> QED
    BY <1>2, <2>1
<1>4. IsFiniteSet(gone \cap s.mask)
  <2>1. gone \cap s.mask \in SUBSET s.mask
    OBVIOUS
  <2> QED
    BY <1>1, <2>1, FS_Subset
<1>5. Cardinality(gone \cap s.mask) \in Nat /\ Cardinality(s.mask) \in Nat
  BY <1>1, <1>4, FS_CardinalityType
<1> DEFINE words == GranuleWords * Cardinality(gone \cap s.mask)
<1>6. words \in Nat
  BY <1>5, SizesPositive
<1>7. GranuleWords * Cardinality(s.mask \ gone) = GranuleWords * Cardinality(s.mask) - words
  <2>1. GranuleWords * (Cardinality(s.mask) - Cardinality(gone \cap s.mask))
          = GranuleWords * Cardinality(s.mask) - words
    BY <1>5, SizesPositive, Distribution
  <2> QED
    BY <1>3, <2>1
<1>8. s.committed \in Int /\ s.limiter \in Int
  BY AccountsAreInt
<1>9. t.committed = s.committed - words /\ t.limiter = s.limiter - words
  OBVIOUS
<1> HIDE DEF words
<1>10. t.committed = GranuleWords * Cardinality(t.mask)
  BY <1>7, <1>9 DEF Accounts
<1>11. t.limiter = t.committed + other /\ t.limiter <= MaxCommit
  BY <1>6, <1>8, <1>9, ContextAssumption DEF Accounts
<1> QED
  BY <1>2, <1>10, <1>11 DEF Accounts

\* An operation that leaves the mask and the counters alone keeps the accounts.
LEMMA FrameAccounts ==
  ASSUME NEW s, NEW other, Accounts(s, other),
         NEW t, DOMAIN t = Fields, ChunkMap(t.chunk), t.mask = s.mask,
         t.committed = s.committed, t.limiter = s.limiter
  PROVE  Accounts(t, other)
BY DEF Accounts

-----------------------------------------------------------------------------
(* The methods that commit and uncommit.                                   *)

\* Rounding and cutting a commit line gives a number again.
LEMMA CommitLineIsInt ==
  ASSUME NEW words \in Int, NEW l \in Levels
  PROVE  CommitLine(words, l) \in Int
<1>1. AlignUp(words, GranuleWords) \in Int
  BY SizesPositive DEF AlignUp
<1> QED
  BY <1>1, SizesPositive, MinOfTwo DEF CommitLine

\* A map of chunks stays one when a chunk in it changes.
LEMMA ChunkChange ==
  ASSUME NEW f, ChunkMap(f), NEW b \in DOMAIN f, NEW c \in Metachunk
  PROVE  ChunkMap([f EXCEPT ![b] = c]) /\ DOMAIN [f EXCEPT ![b] = c] = DOMAIN f
BY DEF ChunkMap

\* Changing a chunk keeps the accounts.
LEMMA ChunkChangeAccounts ==
  ASSUME NEW s, NEW other \in Int, Accounts(s, other),
         NEW b \in DOMAIN s.chunk, NEW c \in Metachunk
  PROVE  /\ Accounts([s EXCEPT !.chunk[b] = c], other)
         /\ DOMAIN [s EXCEPT !.chunk[b] = c].chunk = DOMAIN s.chunk
<1> DEFINE f == [s.chunk EXCEPT ![b] = c]
           t == [s EXCEPT !.chunk = f]
<1>1. [s EXCEPT !.chunk[b] = c] = t
  OBVIOUS
<1>2. ChunkMap(f) /\ DOMAIN f = DOMAIN s.chunk
  BY ChunkChange DEF Accounts
<1>3. /\ DOMAIN t = Fields /\ t.chunk = f /\ t.mask = s.mask
      /\ t.committed = s.committed /\ t.limiter = s.limiter
  BY DEF Accounts, Fields
<1> HIDE DEF t, f
<1> QED
  BY <1>1, <1>2, <1>3, FrameAccounts

\* What is known of a chunk of a context.
LEMMA ChunkOf ==
  ASSUME NEW s, NEW other, Accounts(s, other), NEW b \in DOMAIN s.chunk
  PROVE  /\ s.chunk[b] \in Metachunk
         /\ s.chunk[b].level \in Levels
         /\ s.chunk[b].committed \in Int /\ s.chunk[b].used \in Int
         /\ b \in Int
         /\ SizeOf(s, b) \in Nat \ {0}
BY SizesPositive DEF Accounts, ChunkMap, Metachunk, SizeOf

\* commit_up_to, once the limiter agreed.
LEMMA CommitUpToAccounts ==
  ASSUME NEW s, NEW other \in Int, Accounts(s, other),
         NEW b \in DOMAIN s.chunk, NEW words \in Int, CanCommit(s, b, words)
  PROVE  /\ Accounts(CommitUpTo(s, b, words), other)
         /\ DOMAIN CommitUpTo(s, b, words).chunk = DOMAIN s.chunk
<1> DEFINE from == s.chunk[b].committed
           to   == CommitTo(s, b, words)
           t    == IF to > from THEN CommitRange(s, b + from, to - from) ELSE s
           c    == [t.chunk[b] EXCEPT !.committed = to]
<1>1. from \in Int /\ to \in Int /\ b \in Int /\ s.chunk[b] \in Metachunk
  BY ChunkOf, CommitLineIsInt DEF CommitTo
<1>2. Accounts(t, other) /\ t.chunk = s.chunk
  <2>1. CASE to > from
    <3>1. GranuleWords * Cardinality(GranulesOf(b + from, to - from) \ s.mask)
            <= PossibleExpansion(s)
      BY <2>1 DEF CanCommit
    <3>2. b + from \in Int /\ to - from \in Int
      BY <1>1
    <3> HIDE DEF from, to
    <3> QED
      BY <2>1, <3>1, <3>2, CommitRangeAccounts
  <2>2. CASE ~(to > from)
    BY <2>2
  <2> QED
    BY <2>1, <2>2
<1>3. c \in Metachunk
  BY <1>1, <1>2 DEF Metachunk
<1>4. CommitUpTo(s, b, words) = [t EXCEPT !.chunk[b] = c]
  BY DEF CommitUpTo
<1> HIDE DEF t, c
<1> QED
  BY <1>2, <1>3, <1>4, ChunkChangeAccounts

\* Uncommitting the granules of a range.
LEMMA UncommitRangeAccounts ==
  ASSUME NEW s, NEW other \in Int, Accounts(s, other), NEW from, NEW size
  PROVE  /\ Accounts(UncommitRange(s, from, size), other)
         /\ UncommitRange(s, from, size).chunk = s.chunk
<1> DEFINE range == GranulesOf(from, size)
           words == GranuleWords * Cardinality(range \cap s.mask)
           data  == {a \in s.data : a \div GranuleWords \notin range}
           t     == [s EXCEPT !.mask      = s.mask \ range,
                              !.limiter   = s.limiter - words,
                              !.committed = s.committed - words,
                              !.data      = data]
<1>1. UncommitRange(s, from, size) = t
  BY DEF UncommitRange
<1>2. /\ DOMAIN t = Fields /\ t.chunk = s.chunk /\ t.mask = s.mask \ range
      /\ t.committed = s.committed - words /\ t.limiter = s.limiter - words
  BY DEF Accounts, Fields
<1>3. ChunkMap(t.chunk)
  BY <1>2 DEF Accounts
<1> HIDE DEF t, range
<1> QED
  BY <1>1, <1>2, <1>3, UncommitAccounts

\* Metachunk::uncommit.
LEMMA UncommitChunkAccounts ==
  ASSUME NEW s, NEW other \in Int, Accounts(s, other), NEW b \in DOMAIN s.chunk
  PROVE  /\ Accounts(Uncommit(s, b), other)
         /\ DOMAIN Uncommit(s, b).chunk = DOMAIN s.chunk
<1> DEFINE t == UncommitRange(s, b, SizeOf(s, b))
           c == [t.chunk[b] EXCEPT !.committed = 0]
<1>1. Accounts(t, other) /\ t.chunk = s.chunk
  BY UncommitRangeAccounts
<1>2. c \in Metachunk
  BY <1>1, ChunkOf DEF Metachunk
<1>3. Uncommit(s, b) = [t EXCEPT !.chunk[b] = c]
  BY DEF Uncommit
<1> HIDE DEF t, c
<1> QED
  BY <1>1, <1>2, <1>3, ChunkChangeAccounts

\* Putting a chunk into its list or taking it out.
LEMMA ListAccounts ==
  ASSUME NEW s, NEW other \in Int, Accounts(s, other), NEW b
  PROVE  /\ Accounts(Enlist(s, b), other) /\ Enlist(s, b).chunk = s.chunk
         /\ Accounts(Delist(s, b), other) /\ Delist(s, b).chunk = s.chunk
<1> DEFINE t == Enlist(s, b)
           u == Delist(s, b)
<1>1. /\ DOMAIN t = Fields /\ t.chunk = s.chunk /\ t.mask = s.mask
      /\ t.committed = s.committed /\ t.limiter = s.limiter
  BY DEF Accounts, Fields, Enlist
<1>2. /\ DOMAIN u = Fields /\ u.chunk = s.chunk /\ u.mask = s.mask
      /\ u.committed = s.committed /\ u.limiter = s.limiter
  BY DEF Accounts, Fields, Delist
<1>3. ChunkMap(s.chunk)
  BY DEF Accounts
<1> QED
  BY <1>1, <1>2, <1>3, FrameAccounts

\* Metachunk::allocate.
LEMMA BumpAccounts ==
  ASSUME NEW s, NEW other \in Int, Accounts(s, other),
         NEW b \in DOMAIN s.chunk, NEW size \in Int
  PROVE  Accounts(Bump(s, b, size), other)
<1> DEFINE f == [s.chunk EXCEPT ![b] = [s.chunk[b] EXCEPT !.used = s.chunk[b].used + size]]
           t == Bump(s, b, size)
<1>1. ChunkMap(f)
  <2>1. [s.chunk[b] EXCEPT !.used = s.chunk[b].used + size] \in Metachunk
    BY ChunkOf DEF Metachunk
  <2> QED
    BY <2>1, ChunkChange DEF Accounts
<1>2. /\ DOMAIN t = Fields /\ t.chunk = f /\ t.mask = s.mask
      /\ t.committed = s.committed /\ t.limiter = s.limiter
  BY DEF Accounts, Fields, Bump
<1> HIDE DEF f
<1> QED
  BY <1>1, <1>2, FrameAccounts

-----------------------------------------------------------------------------
(* Splitting.                                                              *)

\* What a cut leaves committed in the half it splits off is a number.
LEMMA SpillIsInt ==
  ASSUME NEW words \in Int, NEW l \in Levels, NEW k \in (l + 1)..HighestLevel
  PROVE  LET line == Min({words, WordSize[k - 1]}) IN
         (IF line > WordSize[k] THEN CommitLine(line - WordSize[k], k) ELSE 0) \in Int
<1>1. l \in Nat /\ k \in Levels /\ k - 1 \in Levels
  BY GeometryAssumption DEF Levels
<1>2. WordSize[k] \in Int /\ WordSize[k - 1] \in Int
  BY <1>1, SizesPositive
<1>3. Min({words, WordSize[k - 1]}) \in Int
  BY <1>2, MinOfTwo
<1> DEFINE line == Min({words, WordSize[k - 1]})
<1>4. line \in Int
  BY <1>3
<1> HIDE DEF line
<1>5. line - WordSize[k] \in Int
  BY <1>2, <1>4
<1>6. CommitLine(line - WordSize[k], k) \in Int
  BY <1>1, <1>5, CommitLineIsInt
<1>7. (IF line > WordSize[k] THEN CommitLine(line - WordSize[k], k) ELSE 0) \in Int
  BY <1>6
<1> QED
  BY <1>7 DEF line

\* Cutting a chunk keeps the accounts; its first piece starts where it did.
LEMMA SplitAccounts ==
  ASSUME NEW s, NEW other \in Int, Accounts(s, other),
         NEW b \in DOMAIN s.chunk, NEW target \in Levels
  PROVE  Accounts(Split(s, b, target), other) /\ b \in DOMAIN Split(s, b, target).chunk
<1> DEFINE c           == s.chunk[b]
           cuts        == (c.level + 1)..target
           splinter(k) == b + WordSize[k]
           line(k)     == Min({c.committed, WordSize[k - 1]})
           spill(k)    == IF line(k) > WordSize[k]
                            THEN CommitLine(line(k) - WordSize[k], k) ELSE 0
           cutOf(a)    == CHOOSE k \in cuts : a = splinter(k)
           first       == [c EXCEPT !.level = target,
                                    !.committed = Min({c.committed, WordSize[target]})]
           piece(a)    == [FreshChunk(cutOf(a)) EXCEPT !.committed = spill(cutOf(a))]
           D           == DOMAIN s.chunk \cup {splinter(k) : k \in cuts}
           f           == [a \in D |-> IF a = b THEN first
                                       ELSE IF a \in DOMAIN s.chunk THEN s.chunk[a]
                                       ELSE piece(a)]
<1>1. /\ c \in Metachunk /\ c.level \in Levels /\ c.committed \in Int /\ b \in Int
      /\ cuts \subseteq Levels
  <2>1. c \in Metachunk /\ c.level \in Levels /\ c.committed \in Int /\ b \in Int
    BY ChunkOf
  <2> QED
    BY <2>1, LevelRanges
<1>2. \A k \in cuts : spill(k) \in Int
  <2> SUFFICES ASSUME NEW k \in cuts
               PROVE  spill(k) \in Int
    OBVIOUS
  <2>1. k \in (c.level + 1)..HighestLevel
    BY <1>1, GeometryAssumption DEF Levels
  <2> QED
    BY <1>1, <2>1, SpillIsInt
<1>3. first \in Metachunk
  <2>1. Min({c.committed, WordSize[target]}) \in Int
    BY <1>1, SizesPositive, MinOfTwo
  <2> QED
    BY <1>1, <2>1 DEF Metachunk
<1>4. \A a \in D : a \notin DOMAIN s.chunk => piece(a) \in Metachunk
  <2> SUFFICES ASSUME NEW a \in D, a \notin DOMAIN s.chunk
               PROVE  piece(a) \in Metachunk
    OBVIOUS
  <2>1. cutOf(a) \in cuts
    OBVIOUS
  <2>2. cutOf(a) \in Levels /\ spill(cutOf(a)) \in Int
    BY <1>1, <1>2, <2>1
  <2> HIDE DEF cutOf, spill
  <2> QED
    BY <2>2 DEF Metachunk, FreshChunk
<1>5. D \subseteq Int
  <2>1. \A k \in cuts : splinter(k) \in Int
    BY <1>1, SizesPositive
  <2> QED
    BY <2>1 DEF Accounts, ChunkMap
<1>6. \A a \in DOMAIN s.chunk : s.chunk[a] \in Metachunk
  BY DEF Accounts, ChunkMap
<1>7. ChunkMap(f) /\ b \in DOMAIN f
  <2> HIDE DEF first, piece, D
  <2>1. \A a \in D : f[a] \in Metachunk
    BY <1>3, <1>4, <1>6
  <2>2. b \in D
    BY DEF D
  <2> QED
    BY <1>5, <2>1, <2>2 DEF ChunkMap
<1>8. /\ DOMAIN Split(s, b, target) = Fields /\ Split(s, b, target).chunk = f
      /\ Split(s, b, target).mask = s.mask
      /\ Split(s, b, target).committed = s.committed
      /\ Split(s, b, target).limiter = s.limiter
  BY DEF Accounts, Fields, Split
<1> HIDE DEF f
<1> QED
  BY <1>7, <1>8, FrameAccounts

-----------------------------------------------------------------------------
(* Merging and enlarging.                                                  *)

\* Merging stops at a level, and up to there each buddy is a free chunk.
LEMMA MergeLevelReached ==
  ASSUME NEW s, NEW other, Accounts(s, other), NEW b \in DOMAIN s.chunk
  PROVE  /\ MergeLevel(s, b) \in Levels /\ MergeLevel(s, b) <= s.chunk[b].level
         /\ \A k \in (MergeLevel(s, b) + 1)..s.chunk[b].level : Joins(s, b, k)
         /\ MergeLevel(s, b) # RootLevel => ~Joins(s, b, MergeLevel(s, b))
<1> DEFINE l == s.chunk[b].level
           stops == {m \in RootLevel..l : \A k \in (m + 1)..l : Joins(s, b, k)}
<1>1. l \in Levels
  BY ChunkOf
<1>2. RootLevel..l \subseteq Levels /\ l \in RootLevel..l /\ IsFiniteSet(RootLevel..l)
  <2>1. RootLevel \in Int /\ l \in Int
    BY <1>1, LevelRanges DEF RootLevel
  <2> QED
    BY <1>1, <2>1, FS_Interval, LevelRanges
<1>3. l \in stops
  <2>1. (l + 1)..l = {}
    BY <1>1 DEF Levels
  <2> QED
    BY <1>2, <2>1
<1>4. stops \in SUBSET Int /\ IsFiniteSet(stops) /\ stops # {}
  <2>1. stops \in SUBSET (RootLevel..l)
    OBVIOUS
  <2>2. IsFiniteSet(stops)
    BY <1>2, <2>1, FS_Subset
  <2>3. stops \in SUBSET Int
    BY <1>2, <2>1 DEF Levels
  <2> QED
    BY <1>3, <2>2, <2>3
<1>5. Min(stops) \in stops /\ \A m \in stops : Min(stops) <= m
  BY <1>4, MinExists
<1> DEFINE m == MergeLevel(s, b)
<1>6. m \in stops /\ \A i \in stops : m <= i
  BY <1>5 DEF MergeLevel
<1>7. m \in Levels /\ m <= l
  BY <1>2, <1>3, <1>6
<1>8. ASSUME m # RootLevel, Joins(s, b, m)
      PROVE  FALSE
  <2>1. m \in Nat /\ l \in Nat /\ m - 1 \in RootLevel..l
    <3>1. m \in Nat /\ l \in Nat
      BY <1>1, <1>7, LevelRanges
    <3> HIDE DEF m, l
    <3> QED
      BY <1>7, <1>8, <3>1 DEF RootLevel
  <2>2. \A k \in m..l : k = m \/ k \in (m + 1)..l
    BY <2>1
  <2>3. \A k \in m..l : Joins(s, b, k)
    BY <1>6, <1>8, <2>2
  <2>4. m - 1 + 1 = m
    BY <2>1
  <2>5. m - 1 \in stops
    BY <2>1, <2>3, <2>4
  <2> HIDE DEF m, stops
  <2>6. m <= m - 1
    BY <1>6, <2>5
  <2> QED
    BY <2>1, <2>6
<1> QED
  BY <1>6, <1>7, <1>8

\* The joined buddies and the chunk itself are finitely many chunks.
LEMMA PartsAreChunks ==
  ASSUME NEW s, NEW other, Accounts(s, other), NEW b \in DOMAIN s.chunk, NEW m \in Levels,
         \A k \in (m + 1)..s.chunk[b].level : Joins(s, b, k)
  PROVE  LET parts == {b} \cup {Buddy(b, k) : k \in (m + 1)..s.chunk[b].level} IN
         parts \subseteq DOMAIN s.chunk /\ IsFiniteSet(parts)
<1> DEFINE joined  == (m + 1)..s.chunk[b].level
           buddies == {Buddy(b, k) : k \in joined}
           f       == [k \in joined |-> Buddy(b, k)]
<1>1. IsFiniteSet(joined)
  <2>1. m + 1 \in Int /\ s.chunk[b].level \in Int
    BY ChunkOf DEF Levels
  <2> QED
    BY <2>1, FS_Interval
<1>2. f \in Surjection(joined, buddies)
  BY DEF Surjection
<1>3. IsFiniteSet(buddies)
  BY <1>1, <1>2, FS_Surjection
<1>4. IsFiniteSet({b} \cup buddies)
  <2>1. {b} \cup buddies = buddies \cup {b}
    OBVIOUS
  <2> QED
    BY <1>3, <2>1, FS_AddElement
<1>5. buddies \subseteq DOMAIN s.chunk
  BY DEF Joins, IsChunk
<1> QED
  BY <1>4, <1>5

\* The commit line of the merged chunk is a number.
LEMMA MergedCommittedIsInt ==
  ASSUME NEW s, NEW other, Accounts(s, other), NEW parts \in SUBSET DOMAIN s.chunk,
         IsFiniteSet(parts), NEW base \in Int, NEW l \in Levels
  PROVE  MergedCommitted(s, parts, base, l) \in Int
<1> DEFINE gaps  == {q \in parts : /\ s.chunk[q].committed < SizeOf(s, q)
                                   /\ q = base \/ q % GranuleWords = 0}
           lines == {q + s.chunk[q].committed : q \in gaps}
           end   == base + WordSize[l]
           f     == [q \in gaps |-> q + s.chunk[q].committed]
<1>1. IsFiniteSet(gaps)
  <2>1. gaps \in SUBSET parts
    OBVIOUS
  <2> QED
    BY <2>1, FS_Subset
<1>2. f \in Surjection(gaps, lines)
  BY DEF Surjection
<1>3. IsFiniteSet(lines)
  BY <1>1, <1>2, FS_Surjection
<1>4. IsFiniteSet(lines \cup {end})
  BY <1>3, FS_AddElement
<1>5. \A q \in gaps : q + s.chunk[q].committed \in Int
  BY ChunkOf
<1>6. end \in Int
  BY SizesPositive
<1>7. lines \cup {end} \in SUBSET Int /\ lines \cup {end} # {}
  BY <1>5, <1>6
<1>8. Min(lines \cup {end}) \in Int
  BY <1>4, <1>7, MinExists
<1>9. MergedCommitted(s, parts, base, l) = Min(lines \cup {end}) - base
  BY DEF MergedCommitted
<1> QED
  BY <1>8, <1>9

\* Merging a chunk with its free buddies keeps the accounts and leaves one
\* chunk at the base of the merged block.
LEMMA MergeAccounts ==
  ASSUME NEW s, NEW other \in Int, Accounts(s, other), NEW b \in DOMAIN s.chunk
  PROVE  /\ Accounts(MergeAll(s, b), other)
         /\ Block(b, MergeLevel(s, b)) \in DOMAIN MergeAll(s, b).chunk
<1> DEFINE m     == MergeLevel(s, b)
           l     == s.chunk[b].level
           parts == {b} \cup {Buddy(b, k) : k \in (m + 1)..l}
           base  == Block(b, m)
           whole == [FreshChunk(m) EXCEPT !.committed = MergedCommitted(s, parts, base, m)]
           f     == [a \in (DOMAIN s.chunk \ parts) \cup {base} |->
                       IF a = base THEN whole ELSE s.chunk[a]]
<1>1. m \in Levels /\ \A k \in (m + 1)..l : Joins(s, b, k)
  BY MergeLevelReached
<1>2. parts \subseteq DOMAIN s.chunk /\ IsFiniteSet(parts)
  <2> HIDE DEF m
  <2> QED
    BY <1>1, PartsAreChunks
<1>3. b \in Int /\ base \in Int
  <2>1. b \in Int
    BY ChunkOf
  <2> HIDE DEF m
  <2> QED
    BY <1>1, <2>1, AddressesAreInt
<1>4. whole \in Metachunk
  <2> HIDE DEF m, parts, base
  <2>1. MergedCommitted(s, parts, base, m) \in Int
    BY <1>1, <1>2, <1>3, MergedCommittedIsInt
  <2> QED
    BY <1>1, <2>1 DEF Metachunk, FreshChunk
<1>5. ChunkMap(f) /\ base \in DOMAIN f
  <2> HIDE DEF whole, parts, base
  <2> QED
    BY <1>3, <1>4 DEF Accounts, ChunkMap
<1>6. /\ DOMAIN MergeAll(s, b) = Fields /\ MergeAll(s, b).chunk = f
      /\ MergeAll(s, b).mask = s.mask
      /\ MergeAll(s, b).committed = s.committed
      /\ MergeAll(s, b).limiter = s.limiter
  <2> HIDE DEF m
  <2> QED
    BY DEF Accounts, Fields, MergeAll, Merge, m
<1> HIDE DEF f
<1> QED
  BY <1>5, <1>6, FrameAccounts

\* Claiming the free buddy of a chunk keeps the accounts.
LEMMA EnlargeAccounts ==
  ASSUME NEW s, NEW other \in Int, Accounts(s, other),
         NEW b \in DOMAIN s.chunk, CanEnlarge(s, b)
  PROVE  Accounts(Enlarge(s, b), other)
<1> DEFINE c     == s.chunk[b]
           buddy == Buddy(b, c.level)
           t     == Delist(s, buddy)
           line  == c.committed
                      + IF c.committed = SizeOf(s, b) THEN s.chunk[buddy].committed ELSE 0
           whole == [c EXCEPT !.level = c.level - 1, !.committed = CommitLine(line, c.level - 1)]
           f     == [a \in DOMAIN s.chunk \ {buddy} |-> IF a = b THEN whole ELSE s.chunk[a]]
<1>1. c \in Metachunk /\ c.level \in Levels /\ c.committed \in Int
  BY ChunkOf
<1>2. c.level - 1 \in Levels
  BY <1>1, LevelRanges DEF CanEnlarge
<1>3. buddy \in DOMAIN s.chunk /\ s.chunk[buddy].committed \in Int
  <2>1. buddy \in DOMAIN s.chunk
    BY DEF CanEnlarge, Joins, IsChunk
  <2> HIDE DEF buddy
  <2> QED
    BY <2>1, ChunkOf
<1>4. line \in Int
  BY <1>1, <1>3
<1>5. whole \in Metachunk
  <2> HIDE DEF line
  <2>1. CommitLine(line, c.level - 1) \in Int
    BY <1>2, <1>4, CommitLineIsInt
  <2> QED
    BY <1>1, <1>2, <2>1 DEF Metachunk
<1>6. ChunkMap(f)
  <2> HIDE DEF whole, buddy
  <2> QED
    BY <1>5 DEF Accounts, ChunkMap
<1>7. Accounts(t, other)
  BY ListAccounts
<1>8. /\ DOMAIN [t EXCEPT !.chunk = f] = Fields
      /\ [t EXCEPT !.chunk = f].chunk = f
      /\ [t EXCEPT !.chunk = f].mask = t.mask
      /\ [t EXCEPT !.chunk = f].committed = t.committed
      /\ [t EXCEPT !.chunk = f].limiter = t.limiter
  <2> HIDE DEF t, f
  <2> QED
    BY <1>7 DEF Accounts, Fields
<1>9. Enlarge(s, b) = [t EXCEPT !.chunk = f]
  BY DEF Enlarge
<1> HIDE DEF f, t
<1> QED
  BY <1>6, <1>7, <1>8, <1>9, FrameAccounts

-----------------------------------------------------------------------------
(* ChunkManager: returning a chunk, handing one out, purging.              *)

\* A chunk whose owner gave it up.
LEMMA SetFreeAccounts ==
  ASSUME NEW s, NEW other \in Int, Accounts(s, other), NEW b \in DOMAIN s.chunk
  PROVE  Accounts(SetFree(s, b), other) /\ b \in DOMAIN SetFree(s, b).chunk
<1> DEFINE f == [s.chunk EXCEPT ![b] = [s.chunk[b] EXCEPT !.state = "free", !.used = 0]]
<1>1. ChunkMap(f) /\ b \in DOMAIN f
  <2> DEFINE c == [s.chunk[b] EXCEPT !.state = "free"]
  <2>1. c \in Metachunk
    BY ChunkOf DEF Metachunk
  <2>2. [c EXCEPT !.used = 0] \in Metachunk
    <3> HIDE DEF c
    <3> QED
      BY <2>1 DEF Metachunk
  <2>3. [s.chunk[b] EXCEPT !.state = "free", !.used = 0] = [c EXCEPT !.used = 0]
    OBVIOUS
  <2> QED
    BY <2>2, <2>3, ChunkChange DEF Accounts
<1>2. /\ DOMAIN SetFree(s, b) = Fields /\ SetFree(s, b).chunk = f
      /\ SetFree(s, b).mask = s.mask
      /\ SetFree(s, b).committed = s.committed
      /\ SetFree(s, b).limiter = s.limiter
  BY DEF Accounts, Fields, SetFree
<1> HIDE DEF f
<1> QED
  BY <1>1, <1>2, FrameAccounts

\* return_chunk frees, merges, uncommits and lists the chunk.
LEMMA ReturnChunkAccounts ==
  ASSUME NEW s, NEW other \in Int, Accounts(s, other), NEW b \in DOMAIN s.chunk
  PROVE  Accounts(ReturnChunk(s, b), other)
<1> DEFINE freed  == SetFree(s, b)
           m      == MergeLevel(freed, b)
           base   == Block(b, m)
           merged == MergeAll(freed, b)
           lean   == IF UncommitFreeChunks /\ WordSize[m] >= GranuleWords
                       THEN Uncommit(merged, base) ELSE merged
<1>1. Accounts(freed, other) /\ b \in DOMAIN freed.chunk
  BY SetFreeAccounts
<1>2. Accounts(merged, other) /\ base \in DOMAIN merged.chunk
  <2> HIDE DEF freed
  <2> QED
    BY <1>1, MergeAccounts
<1>3. Accounts(lean, other)
  <2> HIDE DEF merged, base, m
  <2> QED
    BY <1>2, UncommitChunkAccounts
<1>4. ReturnChunk(s, b) = Enlist(lean, base)
  BY DEF ReturnChunk
<1> HIDE DEF lean, base
<1> QED
  BY <1>3, <1>4, ListAccounts

\* Cutting, committing and handing out a free chunk, or putting it back when
\* the limiter refuses.
LEMMA HandOutAccounts ==
  ASSUME NEW s, NEW other \in Int, Accounts(s, other),
         NEW b \in DOMAIN s.chunk, NEW r \in LegalRequests
  PROVE  Accounts(HandOut(s, b, r), other)
<1> DEFINE t    == Cut(s, b, r)
           full == IF Short(t, b, r) THEN CommitUpTo(t, b, ToCommit(t, b, r)) ELSE t
           took == [full.chunk[b] EXCEPT !.state = "inuse"]
           back == [t.chunk[b] EXCEPT !.state = "inuse"]
<1>1. r.pref \in Levels /\ r.min \in Nat
  BY RequestFacts
<1>2. Accounts(t, other) /\ b \in DOMAIN t.chunk
  BY <1>1, SplitAccounts DEF Cut
<1> HIDE DEF t
<1>3. CASE Serves(s, b, r)
  <2>1. ToCommit(t, b, r) \in Int
    BY <1>1, <1>2, ChunkOf DEF ToCommit
  <2>2. Short(t, b, r) => CanCommit(t, b, ToCommit(t, b, r))
    BY <1>3 DEF Serves, t
  <2>3. Accounts(full, other) /\ b \in DOMAIN full.chunk
    BY <1>2, <2>1, <2>2, CommitUpToAccounts
  <2> HIDE DEF full
  <2>4. took \in Metachunk
    BY <2>3, ChunkOf DEF Metachunk
  <2>5. HandOut(s, b, r) = [full EXCEPT !.chunk[b] = took]
    BY <1>3 DEF HandOut, full, t
  <2> HIDE DEF took
  <2> QED
    BY <2>3, <2>4, <2>5, ChunkChangeAccounts
<1>4. CASE ~Serves(s, b, r)
  <2>1. back \in Metachunk
    BY <1>2, ChunkOf DEF Metachunk
  <2> DEFINE u == [t EXCEPT !.chunk[b] = back]
  <2>2. HandOut(s, b, r) = ReturnChunk(u, b)
    BY <1>4 DEF HandOut, t
  <2> HIDE DEF back
  <2>3. Accounts(u, other) /\ b \in DOMAIN u.chunk
    BY <1>2, <2>1, ChunkChangeAccounts
  <2> HIDE DEF u
  <2> QED
    BY <2>2, <2>3, ReturnChunkAccounts
<1> QED
  BY <1>3, <1>4

\* A new node, or a root chunk from the first node, changes no counter of
\* committed words.
LEMMA NewRootAccounts ==
  ASSUME NEW s, NEW other \in Int, Accounts(s, other), NEW n, NEW b \in Int
  PROVE  /\ Accounts(NewNode(s, n), other)
         /\ Accounts(AllocateRootChunk(s, b), other)
         /\ b \in DOMAIN AllocateRootChunk(s, b).chunk
<1> DEFINE f == [a \in DOMAIN s.chunk \cup {b} |->
                   IF a = b THEN FreshChunk(RootLevel) ELSE s.chunk[a]]
<1>1. FreshChunk(RootLevel) \in Metachunk
  <2>1. RootLevel \in Levels
    BY GeometryAssumption DEF RootLevel, Levels
  <2> QED
    BY <2>1 DEF FreshChunk, Metachunk
<1>2. ChunkMap(f) /\ ChunkMap(s.chunk) /\ b \in DOMAIN f
  BY <1>1 DEF Accounts, ChunkMap
<1>3. /\ DOMAIN NewNode(s, n) = Fields /\ NewNode(s, n).chunk = s.chunk
      /\ NewNode(s, n).mask = s.mask
      /\ NewNode(s, n).committed = s.committed
      /\ NewNode(s, n).limiter = s.limiter
  BY DEF Accounts, Fields, NewNode
<1>4. /\ DOMAIN AllocateRootChunk(s, b) = Fields /\ AllocateRootChunk(s, b).chunk = f
      /\ AllocateRootChunk(s, b).mask = s.mask
      /\ AllocateRootChunk(s, b).committed = s.committed
      /\ AllocateRootChunk(s, b).limiter = s.limiter
  BY DEF Accounts, Fields, AllocateRootChunk
<1> HIDE DEF f
<1> QED
  BY <1>2, <1>3, <1>4, FrameAccounts

\* Deleting the dead nodes.
LEMMA PurgeNodesAccounts ==
  ASSUME NEW s, NEW other \in Int, Accounts(s, other)
  PROVE  Accounts(PurgeNodes(s), other)
<1> DEFINE dead     == DeadNodes(s)
           gone     == {b \in DOMAIN s.chunk : b \div NodeWords \in dead}
           granules == s.mask \cap UNION {NodeGranules(n) : n \in dead}
           words    == GranuleWords * Cardinality(granules)
           f        == [a \in DOMAIN s.chunk \ gone |-> s.chunk[a]]
<1>1. ChunkMap(f)
  BY DEF Accounts, ChunkMap
<1>2. granules \cap s.mask = granules
  OBVIOUS
<1>3. /\ DOMAIN PurgeNodes(s) = Fields /\ PurgeNodes(s).chunk = f
      /\ PurgeNodes(s).mask = s.mask \ granules
      /\ PurgeNodes(s).committed = s.committed - words
      /\ PurgeNodes(s).limiter = s.limiter - words
  <2> HIDE DEF dead
  <2> QED
    BY DEF Accounts, Fields, PurgeNodes, dead
<1> HIDE DEF f, granules
<1> QED
  BY <1>1, <1>2, <1>3, UncommitAccounts

\* Uncommitting the listed chunks that cover granules.
LEMMA UncommitListedAccounts ==
  ASSUME NEW s, NEW other \in Int, Accounts(s, other)
  PROVE  Accounts(UncommitListed(s), other)
<1> DEFINE walked == UNION {Range(s.list[l]) : l \in RootLevel..GranuleLevel}
           blocks == UNION {GranulesOf(b, SizeOf(s, b)) : b \in walked}
           words  == GranuleWords * Cardinality(s.mask \cap blocks)
           f      == [a \in DOMAIN s.chunk |->
                        IF a \in walked THEN [s.chunk[a] EXCEPT !.committed = 0]
                                        ELSE s.chunk[a]]
<1>1. ChunkMap(f)
  <2> HIDE DEF walked
  <2>1. \A a \in DOMAIN s.chunk : [s.chunk[a] EXCEPT !.committed = 0] \in Metachunk
    BY DEF Accounts, ChunkMap, Metachunk
  <2> QED
    BY <2>1 DEF Accounts, ChunkMap
<1>2. blocks \cap s.mask = s.mask \cap blocks
  OBVIOUS
<1>3. /\ DOMAIN UncommitListed(s) = Fields /\ UncommitListed(s).chunk = f
      /\ UncommitListed(s).mask = s.mask \ blocks
      /\ UncommitListed(s).committed = s.committed - words
      /\ UncommitListed(s).limiter = s.limiter - words
  BY DEF Accounts, Fields, UncommitListed
<1> HIDE DEF f, blocks
<1> QED
  BY <1>1, <1>2, <1>3, UncommitAccounts

-----------------------------------------------------------------------------
(* Lists.                                                                  *)

\* An interval tells its end.
LEMMA IntervalLength ==
  ASSUME NEW m \in Nat, NEW n \in Nat, 1..m = 1..n
  PROVE  m = n
<1>1. n > 0 => n \in 1..m
  OBVIOUS
<1>2. m > 0 => m \in 1..n
  OBVIOUS
<1> QED
  BY <1>1, <1>2

\* The positions of a list that stay, counted from the first one, are the
\* positions of the shortened list.
LEMMA KeepCounts ==
  ASSUME NEW n \in Nat, NEW at \in SUBSET (1..n)
  PROVE  LET nth(j) == CHOOSE i \in at : Cardinality({k \in at : k <= i}) = j
         IN  /\ IsFiniteSet(at) /\ Cardinality(at) \in Nat
             /\ \A j \in 1..Cardinality(at) :
                  nth(j) \in at /\ Cardinality({k \in at : k <= nth(j)}) = j
             /\ \A i \in at : \E j \in 1..Cardinality(at) : nth(j) = i
             /\ \A i, j \in 1..Cardinality(at) : i < j => nth(i) < nth(j)
<1> DEFINE to(i)   == {k \in at : k <= i}
           rank(i) == Cardinality(to(i))
           nth(j)  == CHOOSE i \in at : rank(i) = j
           f       == [i \in at |-> rank(i)]
           N       == Cardinality(at)
<1>1. IsFiniteSet(at) /\ N \in Nat
  <2>1. IsFiniteSet(1..n)
    BY FS_Interval
  <2> QED
    BY <2>1, FS_Subset, FS_CardinalityType
<1>2. \A i : IsFiniteSet(to(i)) /\ rank(i) \in Nat /\ rank(i) <= N
  <2> SUFFICES ASSUME NEW i
               PROVE  IsFiniteSet(to(i)) /\ rank(i) \in Nat /\ rank(i) <= N
    OBVIOUS
  <2>1. to(i) \in SUBSET at
    OBVIOUS
  <2> QED
    BY <1>1, <2>1, FS_Subset, FS_CardinalityType
<1>3. \A i \in at : rank(i) \in 1..N
  <2> SUFFICES ASSUME NEW i \in at
               PROVE  rank(i) \in 1..N
    OBVIOUS
  <2>1. to(i) # {}
    OBVIOUS
  <2>2. rank(i) # 0
    BY <1>2, <2>1, FS_EmptySet
  <2> QED
    BY <1>1, <1>2, <2>2
<1>4. \A i, j \in at : i < j => rank(i) < rank(j)
  <2> SUFFICES ASSUME NEW i \in at, NEW j \in at, i < j
               PROVE  rank(i) < rank(j)
    OBVIOUS
  <2>1. to(i) \in SUBSET to(j) /\ to(i) # to(j)
    <3>1. i \in Int /\ j \in Int /\ \A k \in at : k \in Int
      OBVIOUS
    <3>2. to(i) \in SUBSET to(j)
      <4> SUFFICES ASSUME NEW k \in to(i)
                   PROVE  k \in to(j)
        OBVIOUS
      <4>1. k \in at /\ k <= i /\ k \in Int
        BY <3>1
      <4> QED
        BY <3>1, <4>1
    <3>3. j \in to(j) /\ j \notin to(i)
      BY <3>1
    <3> QED
      BY <3>2, <3>3
  <2>2. rank(i) <= rank(j) /\ rank(i) # rank(j)
    BY <1>2, <2>1, FS_Subset
  <2> QED
    BY <1>2, <2>2
<1>5. \A i, j \in at : rank(i) = rank(j) => i = j
  <2> SUFFICES ASSUME NEW i \in at, NEW j \in at, rank(i) = rank(j)
               PROVE  i = j
    OBVIOUS
  <2>1. rank(i) \in Nat /\ rank(j) \in Nat
    BY <1>2
  <2> HIDE DEF rank
  <2>2. ~(i < j) /\ ~(j < i)
    BY <1>4, <2>1
  <2> QED
    BY <2>2
<1>6. f \in Surjection(at, 1..N)
  <2>1. f \in Injection(at, 1..N)
    BY <1>3, <1>5 DEF Injection, IsInjective
  <2>2. IsFiniteSet(1..N) /\ Cardinality(1..N) = N
    <3>1. IsFiniteSet(1..N) /\ Cardinality(1..N) = IF 1 > N THEN 0 ELSE N - 1 + 1
      BY <1>1, FS_Interval
    <3> HIDE DEF N
    <3> QED
      BY <1>1, <3>1
  <2> HIDE DEF f
  <2> QED
    BY <2>1, <2>2, FS_Injection
<1>7. \A j \in 1..N : nth(j) \in at /\ rank(nth(j)) = j
  <2> SUFFICES ASSUME NEW j \in 1..N
               PROVE  nth(j) \in at /\ rank(nth(j)) = j
    OBVIOUS
  <2>1. \E i \in at : rank(i) = j
    BY <1>6 DEF Surjection
  <2> HIDE DEF rank
  <2> QED
    BY <2>1
<1>8. \A i \in at : \E j \in 1..N : nth(j) = i
  <2> SUFFICES ASSUME NEW i \in at
               PROVE  \E j \in 1..N : nth(j) = i
    OBVIOUS
  <2>1. rank(i) \in 1..N
    BY <1>3
  <2>2. nth(rank(i)) \in at /\ rank(nth(rank(i))) = rank(i)
    BY <1>7, <2>1
  <2> HIDE DEF rank, nth
  <2> QED
    BY <1>5, <2>1, <2>2
<1>9. \A i, j \in 1..N : i < j => nth(i) < nth(j)
  <2> SUFFICES ASSUME NEW i \in 1..N, NEW j \in 1..N, i < j
               PROVE  nth(i) < nth(j)
    OBVIOUS
  <2>1. /\ nth(i) \in at /\ rank(nth(i)) = i /\ nth(j) \in at /\ rank(nth(j)) = j
    BY <1>7
  <2> HIDE DEF rank, nth
  <2>2. nth(i) # nth(j)
    BY <2>1
  <2>3. nth(j) < nth(i) => j < i
    BY <1>4, <2>1
  <2>4. nth(i) \in Int /\ nth(j) \in Int /\ i \in Int /\ j \in Int
    <3>1. \A k \in at : k \in Int
      OBVIOUS
    <3>2. i \in Int /\ j \in Int
      BY <1>1
    <3> QED
      BY <2>1, <3>1, <3>2
  <2> QED
    BY <2>2, <2>3, <2>4
<1> QED
  BY <1>1, <1>7, <1>8, <1>9

\* The members of q follow each other in `list` as they do in q.
InOrder(q, list) ==
  \A i, j \in 1..Len(q) : i < j =>
    \E k, m \in 1..Len(list) : k < m /\ q[i] = list[k] /\ q[j] = list[m]

\* Keep leaves the members of S, each as often as before, in their order.
LEMMA KeepFacts ==
  ASSUME NEW X, NEW list \in Seq(X), NEW S
  PROVE  /\ Keep(list, S) \in Seq(X)
         /\ Range(Keep(list, S)) = Range(list) \cap S
         /\ IsInjective(list) => IsInjective(Keep(list, S))
         /\ InOrder(Keep(list, S), list)
         /\ Len(Keep(list, S)) = Cardinality({i \in DOMAIN list : list[i] \in S})
<1> DEFINE at     == {i \in DOMAIN list : list[i] \in S}
           nth(j) == CHOOSE i \in at : Cardinality({k \in at : k <= i}) = j
           N      == Cardinality(at)
           q      == Keep(list, S)
<1>1. Len(list) \in Nat /\ DOMAIN list = 1..Len(list) /\ at \in SUBSET (1..Len(list))
  OBVIOUS
<1>2. /\ N \in Nat
      /\ \A j \in 1..N : nth(j) \in at /\ Cardinality({k \in at : k <= nth(j)}) = j
      /\ \A i \in at : \E j \in 1..N : nth(j) = i
      /\ \A i, j \in 1..N : i < j => nth(i) < nth(j)
  <2> HIDE DEF at
  <2> QED
    BY <1>1, KeepCounts
<1>3. q = [j \in 1..N |-> list[nth(j)]]
  BY DEF Keep
<1>4. \A i \in at : list[i] \in X /\ list[i] \in S
  BY <1>1
<1> HIDE DEF nth, N, q
<1>5. q \in Seq(X) /\ Len(q) = N /\ DOMAIN q = 1..N
  <2>1. \A j \in 1..N : list[nth(j)] \in X
    BY <1>2, <1>4
  <2>2. q \in [1..N -> X]
    BY <1>3, <2>1
  <2>3. q \in Seq(X) /\ Len(q) \in Nat /\ DOMAIN q = 1..Len(q)
    BY <1>2, <2>2, SeqDef
  <2>4. 1..N = 1..Len(q)
    BY <2>2, <2>3
  <2>5. N = Len(q)
    BY <1>2, <2>3, <2>4, IntervalLength
  <2> QED
    BY <2>3, <2>5
<1>6. Range(q) = Range(list) \cap S
  <2>1. \A x \in Range(q) : x \in Range(list) \cap S
    BY <1>1, <1>2, <1>3, <1>4, <1>5 DEF Range
  <2>2. ASSUME NEW x \in Range(list) \cap S
        PROVE  x \in Range(q)
    <3>1. PICK i \in at : x = list[i]
      BY DEF Range
    <3>2. PICK j \in 1..N : nth(j) = i
      BY <1>2
    <3> QED
      BY <1>3, <1>5, <3>1, <3>2 DEF Range
  <2> QED
    BY <2>1, <2>2
<1>7. ASSUME IsInjective(list)
      PROVE  IsInjective(q)
  <2> SUFFICES ASSUME NEW i \in 1..N, NEW j \in 1..N, q[i] = q[j]
               PROVE  i = j
    BY <1>5 DEF IsInjective
  <2>1. nth(i) = nth(j)
    BY <1>1, <1>2, <1>3, <1>7 DEF IsInjective
  <2> QED
    BY <1>2, <2>1
<1>8. ASSUME NEW i \in 1..N, NEW j \in 1..N, i < j
      PROVE  \E k, m \in 1..Len(list) : k < m /\ q[i] = list[k] /\ q[j] = list[m]
  <2>1. nth(i) \in 1..Len(list) /\ nth(j) \in 1..Len(list) /\ nth(i) < nth(j)
    BY <1>1, <1>2, <1>8
  <2> QED
    BY <1>3, <2>1
<1>9. InOrder(q, list)
  BY <1>5, <1>8 DEF InOrder
<1> QED
  BY <1>5, <1>6, <1>7, <1>9 DEF q, N

-----------------------------------------------------------------------------
(* Tilings: what splitting and merging keep.                               *)

Extent(f, b) == Words(b, WordSize[f[b].level])

\* The chunks of f are aligned, do not overlap and cover H.
Tiles(f, H) ==
  /\ ChunkMap(f)
  /\ \A b \in DOMAIN f : b \in Nat /\ b = Block(b, f[b].level)
  /\ \A b, c \in DOMAIN f : b # c => Extent(f, b) \cap Extent(f, c) = {}
  /\ UNION {Extent(f, b) : b \in DOMAIN f} = H

\* What is known of a chunk of a tiling.
LEMMA ChunkOfTiling ==
  ASSUME NEW f, NEW H, Tiles(f, H), NEW b \in DOMAIN f
  PROVE  /\ b \in Nat /\ f[b] \in Metachunk /\ f[b].level \in Levels
         /\ Block(b, f[b].level) = b
         /\ b \in Extent(f, b) /\ Extent(f, b) \subseteq H /\ Extent(f, b) \subseteq Nat
<1>1. b \in Nat /\ f[b] \in Metachunk /\ Block(b, f[b].level) = b
  BY DEF Tiles, ChunkMap
<1>2. f[b].level \in Levels
  BY <1>1 DEF Metachunk
<1>3. WordSize[f[b].level] \in Nat \ {0}
  BY <1>2, SizesPositive
<1>4. b \in Extent(f, b) /\ Extent(f, b) \subseteq Nat
  BY <1>1, <1>3 DEF Extent, Words
<1> QED
  BY <1>1, <1>2, <1>4 DEF Tiles

\* Only one chunk holds a word.
LEMMA HolderUnique ==
  ASSUME NEW f, NEW H, Tiles(f, H), NEW b \in DOMAIN f, NEW c \in DOMAIN f,
         NEW a \in Extent(f, b), a \in Extent(f, c)
  PROVE  b = c
BY DEF Tiles

\* Changes of chunks that keep their levels keep the tiling.
LEMMA SameLevels ==
  ASSUME NEW f, NEW H, Tiles(f, H), NEW g, ChunkMap(g), DOMAIN g = DOMAIN f,
         \A b \in DOMAIN f : g[b].level = f[b].level
  PROVE  Tiles(g, H)
<1>1. \A b \in DOMAIN g : Extent(g, b) = Extent(f, b)
  BY DEF Extent
<1> QED
  BY <1>1 DEF Tiles

\* Replacing some chunks by others that cover the same words, which is what
\* splitting, merging and enlarging do, keeps the tiling.
LEMMA Retile ==
  ASSUME NEW f, NEW H, Tiles(f, H), NEW g, ChunkMap(g),
         NEW Out \in SUBSET DOMAIN f, NEW In,
         DOMAIN g = (DOMAIN f \ Out) \cup In,
         \A b \in DOMAIN f \ Out : b \notin In => g[b].level = f[b].level,
         \A b \in In : b \in Nat /\ b = Block(b, g[b].level),
         \A b, c \in In : b # c => Extent(g, b) \cap Extent(g, c) = {},
         UNION {Extent(g, b) : b \in In} = UNION {Extent(f, b) : b \in Out}
  PROVE  Tiles(g, H) /\ In \cap (DOMAIN f \ Out) = {}
<1>1. In \cap (DOMAIN f \ Out) = {}
  <2> SUFFICES ASSUME NEW b \in In, b \in DOMAIN f \ Out
               PROVE  FALSE
    OBVIOUS
  <2>1. b \in Extent(g, b)
    <3>1. b \in Nat /\ g[b].level \in Levels
      BY DEF ChunkMap, Metachunk
    <3> QED
      BY <3>1, SizesPositive DEF Extent, Words
  <2>2. PICK o \in Out : b \in Extent(f, o)
    BY <2>1
  <2>3. b \in Extent(f, b)
    BY ChunkOfTiling
  <2> QED
    BY <2>2, <2>3, HolderUnique
<1>2. \A b \in DOMAIN f \ Out : Extent(g, b) = Extent(f, b)
  BY <1>1 DEF Extent
<1>3. \A b \in DOMAIN g : b \in Nat /\ b = Block(b, g[b].level)
  BY <1>1 DEF Tiles
<1>4. ASSUME NEW b \in DOMAIN g, NEW c \in DOMAIN g, b # c
      PROVE  Extent(g, b) \cap Extent(g, c) = {}
  <2> SUFFICES ASSUME NEW a \in Extent(g, b), a \in Extent(g, c)
               PROVE  FALSE
    OBVIOUS
  <2>1. ASSUME NEW x \in In, NEW y \in DOMAIN f \ Out,
               a \in Extent(g, x), a \in Extent(g, y)
        PROVE  FALSE
    <3>1. PICK o \in Out : a \in Extent(f, o)
      BY <2>1
    <3>2. a \in Extent(f, y)
      BY <1>2, <2>1
    <3> QED
      BY <3>1, <3>2, HolderUnique
  <2>2. CASE b \in In /\ c \in In
    BY <1>4, <2>2
  <2>3. CASE b \in DOMAIN f \ Out /\ c \in DOMAIN f \ Out
    BY <1>2, <1>4, <2>3, HolderUnique
  <2> QED
    BY <2>1, <2>2, <2>3
<1>5. UNION {Extent(g, b) : b \in DOMAIN g} = H
  <2>1. UNION {Extent(g, b) : b \in DOMAIN g}
          = (UNION {Extent(g, b) : b \in DOMAIN f \ Out}) \cup (UNION {Extent(g, b) : b \in In})
    OBVIOUS
  <2>2. UNION {Extent(g, b) : b \in DOMAIN f \ Out} = UNION {Extent(f, b) : b \in DOMAIN f \ Out}
    BY <1>2
  <2>3. UNION {Extent(f, b) : b \in DOMAIN f}
          = (UNION {Extent(f, b) : b \in DOMAIN f \ Out}) \cup (UNION {Extent(f, b) : b \in Out})
    OBVIOUS
  <2> QED
    BY <2>1, <2>2, <2>3 DEF Tiles
<1> QED
  BY <1>1, <1>3, <1>4, <1>5 DEF Tiles

-----------------------------------------------------------------------------
(* Splitting, one chunk seen from outside.                                 *)

Cuts(s, b, target) == (s.chunk[b].level + 1)..target

Pieces(s, b, target) == {b + WordSize[k] : k \in Cuts(s, b, target)}

Spill(s, b, k) ==
  LET line == Min({s.chunk[b].committed, WordSize[k - 1]})
  IN  IF line > WordSize[k] THEN CommitLine(line - WordSize[k], k) ELSE 0

\* The chunk stays where it was, one free chunk per cut is added where none
\* was and pushed to its list, and no other chunk changes.
SplitSpec(s, b, target) ==
  LET t    == Split(s, b, target)
      cuts == Cuts(s, b, target)
  IN  /\ DOMAIN t.chunk = DOMAIN s.chunk \cup Pieces(s, b, target)
      /\ t.chunk[b].level = target
      /\ t.chunk[b].committed = Min({s.chunk[b].committed, WordSize[target]})
      /\ t.chunk[b].state = s.chunk[b].state /\ t.chunk[b].used = s.chunk[b].used
      /\ \A a \in DOMAIN s.chunk : a # b => t.chunk[a] = s.chunk[a]
      /\ \A k \in cuts : /\ b + WordSize[k] \notin DOMAIN s.chunk
                         /\ t.chunk[b + WordSize[k]].level = k
                         /\ t.chunk[b + WordSize[k]].committed = Spill(s, b, k)
                         /\ t.chunk[b + WordSize[k]].state = "free"
                         /\ t.chunk[b + WordSize[k]].used = 0
      /\ DOMAIN t.list = Levels
      /\ \A k \in Levels : t.list[k] =
           IF k \in cuts THEN Push(s.list[k], b + WordSize[k], Spill(s, b, k))
                         ELSE s.list[k]
      /\ t.nodes = s.nodes /\ t.used = s.used /\ t.mask = s.mask
      /\ t.reserved = s.reserved /\ t.data = s.data

\* Split does that.
LEMMA SplitShape ==
  ASSUME NEW s, NEW other \in Int, Accounts(s, other), NEW H, Tiles(s.chunk, H),
         NEW b \in DOMAIN s.chunk, NEW target \in Levels, s.chunk[b].level <= target
  PROVE  SplitSpec(s, b, target)
<1> DEFINE c           == s.chunk[b]
           cuts        == Cuts(s, b, target)
           splinter(k) == b + WordSize[k]
           cutOf(a)    == CHOOSE k \in cuts : a = splinter(k)
           first       == [c EXCEPT !.level = target,
                                    !.committed = Min({c.committed, WordSize[target]})]
           piece(k)    == [FreshChunk(k) EXCEPT !.committed = Spill(s, b, k)]
           D           == DOMAIN s.chunk \cup Pieces(s, b, target)
           f           == [a \in D |-> IF a = b THEN first
                                       ELSE IF a \in DOMAIN s.chunk THEN s.chunk[a]
                                       ELSE piece(cutOf(a))]
           t           == Split(s, b, target)
<1>1. /\ c.level \in Levels /\ c.level \in Nat /\ b \in Nat /\ cuts \subseteq Levels
      /\ \A k \in cuts : c.level < k
  <2>1. c.level \in Levels /\ b \in Nat
    BY ChunkOfTiling
  <2>2. c.level \in Nat
    BY <2>1, LevelRanges
  <2> QED
    BY <2>1, <2>2, LevelRanges DEF Cuts
<1>2. \A k \in cuts : splinter(k) \notin DOMAIN s.chunk
  <2> SUFFICES ASSUME NEW k \in cuts, splinter(k) \in DOMAIN s.chunk
               PROVE  FALSE
    OBVIOUS
  <2>1. /\ WordSize[k] \in Nat \ {0} /\ WordSize[c.level] \in Nat
        /\ 2 * WordSize[k] <= WordSize[c.level]
    BY <1>1, SizesPositive, SizesFall, LevelRanges
  <2>2. splinter(k) \in Extent(s.chunk, b)
    BY <1>1, <2>1 DEF Extent, Words
  <2>3. splinter(k) \in Extent(s.chunk, splinter(k))
    BY ChunkOfTiling
  <2>4. splinter(k) # b
    BY <1>1, <2>1
  <2> QED
    BY <2>2, <2>3, <2>4, HolderUnique
<1>3. \A k \in cuts : cutOf(splinter(k)) = k
  <2> SUFFICES ASSUME NEW k \in cuts, NEW j \in cuts, splinter(k) = splinter(j)
               PROVE  k = j
    OBVIOUS
  <2>1. /\ WordSize[k] \in Nat \ {0} /\ WordSize[j] \in Nat \ {0} /\ k \in Nat /\ j \in Nat
        /\ WordSize[k] = WordSize[j]
    BY <1>1, SizesPositive, LevelRanges
  <2>2. /\ k < j => 2 * WordSize[j] <= WordSize[k]
        /\ j < k => 2 * WordSize[k] <= WordSize[j]
    BY <1>1, <2>1, SizesFall
  <2> QED
    BY <2>1, <2>2
<1>4. /\ t.chunk = f
      /\ t.list = [k \in Levels |-> IF k \in cuts THEN Push(s.list[k], splinter(k), Spill(s, b, k))
                                                  ELSE s.list[k]]
      /\ t.nodes = s.nodes /\ t.used = s.used /\ t.mask = s.mask /\ t.reserved = s.reserved
      /\ t.data = s.data
  BY DEF Accounts, Fields, Split, Cuts, Pieces, Spill
<1>5. /\ DOMAIN f = D /\ f[b] = first
      /\ \A a \in DOMAIN s.chunk : a # b => f[a] = s.chunk[a]
  <2> HIDE DEF first, piece, cutOf
  <2> QED
    OBVIOUS
<1>6. ASSUME NEW k \in cuts
      PROVE  f[splinter(k)] = piece(k)
  <2>1. splinter(k) \in D /\ splinter(k) \notin DOMAIN s.chunk /\ splinter(k) # b
    BY <1>2 DEF Pieces
  <2>2. cutOf(splinter(k)) = k
    BY <1>3
  <2> HIDE DEF first, piece, cutOf, splinter, D
  <2> QED
    BY <2>1, <2>2
<1>7. /\ first.level = target /\ first.state = c.state /\ first.used = c.used
      /\ first.committed = Min({c.committed, WordSize[target]})
  <2>1. c \in Metachunk
    BY ChunkOfTiling
  <2> QED
    BY <2>1 DEF Metachunk
<1>8. \A k : /\ piece(k).level = k /\ piece(k).committed = Spill(s, b, k)
             /\ piece(k).state = "free" /\ piece(k).used = 0
  BY DEF FreshChunk
<1> HIDE DEF t, f, first, piece
<1> QED
  BY <1>2, <1>4, <1>5, <1>6, <1>7, <1>8 DEF t, SplitSpec

\* Cutting keeps the tiling.
LEMMA SplitTiles ==
  ASSUME NEW s, NEW other \in Int, Accounts(s, other), NEW H, Tiles(s.chunk, H),
         NEW b \in DOMAIN s.chunk, NEW target \in Levels, s.chunk[b].level <= target
  PROVE  Tiles(Split(s, b, target).chunk, H)
<1> DEFINE l    == s.chunk[b].level
           cuts == Cuts(s, b, target)
           f    == s.chunk
           g    == Split(s, b, target).chunk
           In   == {b} \cup Pieces(s, b, target)
<1>1. /\ l \in Levels /\ l \in Nat /\ target \in Nat /\ b \in Nat /\ Block(b, l) = b
      /\ cuts \subseteq Levels /\ \A k \in cuts : l < k
  <2>1. l \in Levels /\ b \in Nat /\ Block(b, l) = b
    BY ChunkOfTiling
  <2>2. l \in Nat /\ target \in Nat
    BY <2>1, LevelRanges
  <2> QED
    BY <2>1, <2>2, LevelRanges DEF Cuts
<1>2. /\ DOMAIN g = DOMAIN f \cup Pieces(s, b, target)
      /\ g[b].level = target
      /\ \A a \in DOMAIN f : a # b => g[a] = f[a]
      /\ \A k \in cuts : g[b + WordSize[k]].level = k
  <2>1. SplitSpec(s, b, target)
    BY SplitShape
  <2> QED
    BY <2>1 DEF SplitSpec
<1>3. ChunkMap(g)
  BY SplitAccounts DEF Accounts
<1> HIDE DEF f, g
<1>4. \A k \in cuts : /\ WordSize[k] \in Nat \ {0}
                      /\ Block(b, k) = b /\ Buddy(b, k) = b + WordSize[k]
                      /\ b + WordSize[k] \in Nat
                      /\ Block(b + WordSize[k], k) = b + WordSize[k]
  <2> SUFFICES ASSUME NEW k \in cuts
               PROVE  /\ WordSize[k] \in Nat \ {0}
                      /\ Block(b, k) = b /\ Buddy(b, k) = b + WordSize[k]
                      /\ b + WordSize[k] \in Nat
                      /\ Block(b + WordSize[k], k) = b + WordSize[k]
    OBVIOUS
  <2>1. k \in Levels /\ l < k /\ k # RootLevel
    BY <1>1 DEF RootLevel
  <2>2. Block(b, k) = b /\ Buddy(b, k) = b + WordSize[k]
    BY <1>1, <2>1, BuddyOfCut
  <2>3. Buddy(b, k) \in Nat /\ Block(Buddy(b, k), k) = Buddy(b, k)
    BY <1>1, <2>1, BuddyOfBuddy
  <2> QED
    BY <2>1, <2>2, <2>3, SizesPositive
<1>5. \A a \in In : a \in Nat /\ a = Block(a, g[a].level)
  <2>1. Block(b, target) = b
    BY <1>1, BlocksNest
  <2> QED
    BY <1>1, <1>2, <1>4, <2>1 DEF Pieces
<1>6. \A k, j \in cuts : k < j => 2 * WordSize[j] <= WordSize[k]
  <2> SUFFICES ASSUME NEW k \in cuts, NEW j \in cuts, k < j
               PROVE  2 * WordSize[j] <= WordSize[k]
    OBVIOUS
  <2>1. k \in Levels /\ j \in Levels /\ k \in Nat /\ j \in Nat
    BY <1>1, LevelRanges
  <2>2. k <= j
    BY <2>1
  <2> QED
    BY <2>1, <2>2, SizesFall
<1>7. \A k \in cuts : WordSize[target] <= WordSize[k]
  <2> SUFFICES ASSUME NEW k \in cuts
               PROVE  WordSize[target] <= WordSize[k]
    OBVIOUS
  <2>1. k \in Levels /\ k <= target
    BY <1>1 DEF Cuts
  <2> QED
    BY <2>1, SizesFall
<1>8. /\ Extent(g, b) = Words(b, WordSize[target])
      /\ \A k \in cuts : Extent(g, b + WordSize[k]) = Words(b + WordSize[k], WordSize[k])
  BY <1>2 DEF Extent
<1>9. ASSUME NEW x \in In, NEW y \in In, x # y
      PROVE  Extent(g, x) \cap Extent(g, y) = {}
  <2>1. ASSUME NEW k \in cuts
        PROVE  Extent(g, b) \cap Extent(g, b + WordSize[k]) = {}
    <3>1. WordSize[target] \in Nat /\ WordSize[k] \in Nat /\ WordSize[target] <= WordSize[k]
      BY <1>4, <1>7, SizesPositive
    <3> QED
      BY <1>1, <1>8, <3>1 DEF Words
  <2>2. ASSUME NEW k \in cuts, NEW j \in cuts, k < j
        PROVE  Extent(g, b + WordSize[k]) \cap Extent(g, b + WordSize[j]) = {}
    <3>1. WordSize[k] \in Nat /\ WordSize[j] \in Nat /\ 2 * WordSize[j] <= WordSize[k]
      BY <1>4, <1>6, <2>2
    <3> QED
      BY <1>1, <1>8, <3>1 DEF Words
  <2>3. \A k \in cuts : k \in Nat
    BY <1>1, LevelRanges
  <2>4. CASE x = b
    BY <1>9, <2>1, <2>4 DEF Pieces
  <2>5. CASE y = b
    BY <1>9, <2>1, <2>5 DEF Pieces
  <2>6. CASE x # b /\ y # b
    <3>1. PICK k \in cuts : x = b + WordSize[k]
      BY <2>6 DEF Pieces
    <3>2. PICK j \in cuts : y = b + WordSize[j]
      BY <2>6 DEF Pieces
    <3>3. k < j \/ j < k
      BY <1>9, <2>3, <3>1, <3>2
    <3> QED
      BY <2>2, <3>1, <3>2, <3>3
  <2> QED
    BY <2>4, <2>5, <2>6
<1>10. UNION {Extent(g, a) : a \in In} = Extent(f, b)
  <2>1. Words(Block(b, l), WordSize[l])
          = Words(b, WordSize[target])
              \cup (UNION {Words(Buddy(b, k), WordSize[k]) : k \in (l + 1)..target})
    <3>1. Block(b, target) = b
      BY <1>1, BlocksNest
    <3> QED
      BY <1>1, <3>1, BuddiesFillBlock
  <2>2. UNION {Words(Buddy(b, k), WordSize[k]) : k \in cuts}
          = UNION {Extent(g, b + WordSize[k]) : k \in cuts}
    BY <1>4, <1>8
  <2>3. UNION {Extent(g, a) : a \in In}
          = Extent(g, b) \cup (UNION {Extent(g, b + WordSize[k]) : k \in cuts})
    BY DEF Pieces
  <2>4. cuts = (l + 1)..target
    BY DEF Cuts
  <2> HIDE DEF cuts
  <2> QED
    BY <1>1, <1>8, <2>1, <2>2, <2>3, <2>4 DEF Extent, f
<1>11. /\ UNION {Extent(f, a) : a \in {b}} = Extent(f, b)
       /\ DOMAIN g = (DOMAIN f \ {b}) \cup In
       /\ {b} \in SUBSET DOMAIN f
  <2>1. b \in DOMAIN f
    BY DEF f
  <2> QED
    BY <1>2, <2>1
<1>12. \A a \in DOMAIN f \ {b} : a \notin In => g[a].level = f[a].level
  BY <1>2
<1>13. Tiles(f, H)
  BY DEF f
<1> HIDE DEF In
<1>14. UNION {Extent(g, a) : a \in In} = UNION {Extent(f, a) : a \in {b}}
  BY <1>10, <1>11
<1>15. Tiles(g, H)
  BY <1>3, <1>5, <1>9, <1>11, <1>12, <1>13, <1>14, Retile
<1> QED
  BY <1>15 DEF g

-----------------------------------------------------------------------------
(* Merging, seen from outside.                                             *)

Joined(s, b) == (MergeLevel(s, b) + 1)..s.chunk[b].level

Parts(s, b) == {b} \cup {Buddy(b, k) : k \in Joined(s, b)}

Base(s, b) == Block(b, MergeLevel(s, b))

\* One free chunk takes the place of the chunk and its joined buddies, which
\* leave their lists; no other chunk changes.
MergeSpec(s, b) ==
  LET t    == MergeAll(s, b)
      m    == MergeLevel(s, b)
      base == Base(s, b)
  IN  /\ DOMAIN t.chunk = (DOMAIN s.chunk \ Parts(s, b)) \cup {base}
      /\ t.chunk[base].level = m
      /\ t.chunk[base].committed = MergedCommitted(s, Parts(s, b), base, m)
      /\ t.chunk[base].state = "free" /\ t.chunk[base].used = 0
      /\ \A a \in DOMAIN s.chunk \ Parts(s, b) : a # base => t.chunk[a] = s.chunk[a]
      /\ DOMAIN t.list = Levels
      /\ \A k \in Levels : t.list[k] =
           IF k \in Joined(s, b) THEN Unlink(s.list[k], Buddy(b, k)) ELSE s.list[k]
      /\ t.nodes = s.nodes /\ t.used = s.used /\ t.mask = s.mask
      /\ t.reserved = s.reserved /\ t.data = s.data

\* Merge does that.
LEMMA MergeShape ==
  ASSUME NEW s, NEW other \in Int, Accounts(s, other), NEW b \in DOMAIN s.chunk
  PROVE  MergeSpec(s, b)
<1> DEFINE m     == MergeLevel(s, b)
           base  == Base(s, b)
           whole == [FreshChunk(m) EXCEPT
                       !.committed = MergedCommitted(s, Parts(s, b), base, m)]
           f     == [a \in (DOMAIN s.chunk \ Parts(s, b)) \cup {base} |->
                       IF a = base THEN whole ELSE s.chunk[a]]
           list  == [k \in Levels |-> IF k \in Joined(s, b) THEN Unlink(s.list[k], Buddy(b, k))
                                                            ELSE s.list[k]]
           t     == MergeAll(s, b)
<1>1. /\ t.chunk = f /\ t.list = list
      /\ t.nodes = s.nodes /\ t.used = s.used /\ t.mask = s.mask /\ t.reserved = s.reserved
      /\ t.data = s.data
  BY DEF Accounts, Fields, MergeAll, Merge, Joined, Parts, Base
<1>2. /\ whole.level = m /\ whole.state = "free" /\ whole.used = 0
      /\ whole.committed = MergedCommitted(s, Parts(s, b), base, m)
  BY DEF FreshChunk
<1>3. /\ DOMAIN f = (DOMAIN s.chunk \ Parts(s, b)) \cup {base} /\ f[base] = whole
      /\ \A a \in DOMAIN s.chunk \ Parts(s, b) : a # base => f[a] = s.chunk[a]
  <2> HIDE DEF whole, base
  <2> QED
    OBVIOUS
<1> HIDE DEF t, f, whole
<1> QED
  BY <1>1, <1>2, <1>3 DEF t, MergeSpec

\* The joined buddies are free chunks of their levels, all different from b.
LEMMA JoinedBuddies ==
  ASSUME NEW s, NEW other \in Int, Accounts(s, other), NEW H, Tiles(s.chunk, H),
         NEW b \in DOMAIN s.chunk
  PROVE  /\ MergeLevel(s, b) \in Levels /\ MergeLevel(s, b) <= s.chunk[b].level
         /\ Joined(s, b) \subseteq Levels \ {RootLevel}
         /\ \A k \in Joined(s, b) :
              /\ Buddy(b, k) \in DOMAIN s.chunk /\ Buddy(b, k) # b
              /\ s.chunk[Buddy(b, k)].level = k /\ s.chunk[Buddy(b, k)].state = "free"
         /\ Parts(s, b) \subseteq DOMAIN s.chunk
         /\ b \in Nat /\ Base(s, b) \in Nat
         /\ Block(Base(s, b), MergeLevel(s, b)) = Base(s, b)
<1> DEFINE m == MergeLevel(s, b)
           l == s.chunk[b].level
<1>1. b \in Nat /\ l \in Levels /\ Block(b, l) = b /\ b \in Extent(s.chunk, b)
  BY ChunkOfTiling
<1>2. m \in Levels /\ \A k \in (m + 1)..l : Joins(s, b, k)
  BY MergeLevelReached
<1>3. m <= l
  BY MergeLevelReached
<1>4. Joined(s, b) \subseteq Levels \ {RootLevel}
  <2>1. m \in Nat /\ l \in Nat /\ (m + 1)..l \subseteq Levels
    BY <1>1, <1>2, LevelRanges
  <2> QED
    BY <2>1 DEF Joined, RootLevel
<1>5. ASSUME NEW k \in Joined(s, b)
      PROVE  /\ Buddy(b, k) \in DOMAIN s.chunk /\ Buddy(b, k) # b
             /\ s.chunk[Buddy(b, k)].level = k /\ s.chunk[Buddy(b, k)].state = "free"
  <2>1. Joins(s, b, k)
    BY <1>2 DEF Joined
  <2>2. /\ Buddy(b, k) \in DOMAIN s.chunk
        /\ s.chunk[Buddy(b, k)].level = k /\ s.chunk[Buddy(b, k)].state = "free"
    BY <2>1 DEF Joins, IsChunk, IsFree
  <2>3. ASSUME Buddy(b, k) = b
        PROVE  FALSE
    <3>1. Block(b, k) = b
      BY <1>1, <2>2, <2>3
    <3>2. Buddy(b, k) # Block(b, k)
      BY <1>1, <1>4, BuddyOfBuddy
    <3> QED
      BY <2>3, <3>1, <3>2
  <2> QED
    BY <2>2, <2>3
<1>6. Parts(s, b) \subseteq DOMAIN s.chunk
  BY <1>5 DEF Parts
<1>7. Base(s, b) \in Nat /\ Block(Base(s, b), m) = Base(s, b)
  BY <1>1, <1>2, BlockBounds DEF Base
<1> QED
  BY <1>1, <1>2, <1>3, <1>4, <1>5, <1>6, <1>7

\* The parts cover what the merged chunk covers.
LEMMA PartsCover ==
  ASSUME NEW s, NEW other \in Int, Accounts(s, other), NEW H, Tiles(s.chunk, H),
         NEW b \in DOMAIN s.chunk
  PROVE  Words(Base(s, b), WordSize[MergeLevel(s, b)])
           = UNION {Extent(s.chunk, q) : q \in Parts(s, b)}
<1> DEFINE m == MergeLevel(s, b)
           l == s.chunk[b].level
<1>1. b \in Nat /\ l \in Levels /\ Block(b, l) = b
  BY ChunkOfTiling
<1>2. /\ m \in Levels /\ m <= l
      /\ \A k \in Joined(s, b) : s.chunk[Buddy(b, k)].level = k
  BY JoinedBuddies
<1> HIDE DEF m
<1>3. Words(Block(b, m), WordSize[m])
        = Words(b, WordSize[l]) \cup (UNION {Words(Buddy(b, k), WordSize[k]) : k \in (m + 1)..l})
  BY <1>1, <1>2, BuddiesFillBlock
<1>4. UNION {Extent(s.chunk, q) : q \in Parts(s, b)}
        = Extent(s.chunk, b) \cup (UNION {Extent(s.chunk, Buddy(b, k)) : k \in Joined(s, b)})
  BY DEF Parts
<1>5. UNION {Extent(s.chunk, Buddy(b, k)) : k \in Joined(s, b)}
        = UNION {Words(Buddy(b, k), WordSize[k]) : k \in Joined(s, b)}
  BY <1>2 DEF Extent
<1> QED
  BY <1>3, <1>4, <1>5 DEF Extent, Joined, Base, m

\* Merging keeps the tiling, and what it does not join keeps its place.
LEMMA MergeTiles ==
  ASSUME NEW s, NEW other \in Int, Accounts(s, other), NEW H, Tiles(s.chunk, H),
         NEW b \in DOMAIN s.chunk
  PROVE  /\ Tiles(MergeAll(s, b).chunk, H)
         /\ Base(s, b) \notin DOMAIN s.chunk \ Parts(s, b)
<1> DEFINE m    == MergeLevel(s, b)
           f    == s.chunk
           g    == MergeAll(s, b).chunk
           base == Base(s, b)
           In   == {base}
           Out  == Parts(s, b)
<1>1. ChunkMap(g)
  BY MergeAccounts DEF Accounts
<1>2. MergeSpec(s, b)
  BY MergeShape
<1>3. /\ DOMAIN g = (DOMAIN f \ Out) \cup In /\ g[base].level = m
      /\ \A a \in DOMAIN f \ Out : a \notin In => g[a].level = f[a].level
  BY <1>2 DEF MergeSpec
<1>4. base \in Nat /\ base = Block(base, m) /\ Out \in SUBSET DOMAIN f
  BY JoinedBuddies
<1>5. Words(base, WordSize[m]) = UNION {Extent(f, q) : q \in Out}
  BY PartsCover
<1> HIDE DEF f, g, base, m, Out
<1>6. UNION {Extent(g, a) : a \in In} = UNION {Extent(f, q) : q \in Out}
  BY <1>3, <1>5 DEF Extent
<1>7. Tiles(f, H)
  BY DEF f
<1>8. \A a \in In : a \in Nat /\ a = Block(a, g[a].level)
  BY <1>3, <1>4
<1>9. \A a, c \in In : a # c => Extent(g, a) \cap Extent(g, c) = {}
  OBVIOUS
<1> HIDE DEF In
<1>10. Tiles(g, H)
  BY <1>1, <1>3, <1>4, <1>6, <1>7, <1>8, <1>9, Retile
<1>11. In \cap (DOMAIN f \ Out) = {}
  BY <1>1, <1>3, <1>4, <1>6, <1>7, <1>8, <1>9, Retile
<1> QED
  BY <1>10, <1>11 DEF In, f, g, base, Out

-----------------------------------------------------------------------------
(* Enlarging, committing, listing, seen from outside.                      *)

\* The chunk takes the place of its buddy, which leaves its list.
EnlargeSpec(s, b) ==
  LET t     == Enlarge(s, b)
      l     == s.chunk[b].level
      buddy == Buddy(b, l)
  IN  /\ DOMAIN t.chunk = DOMAIN s.chunk \ {buddy}
      /\ t.chunk[b].level = l - 1 /\ t.chunk[b].state = s.chunk[b].state
      /\ t.chunk[b].used = s.chunk[b].used
      /\ t.chunk[b].committed
           = CommitLine(s.chunk[b].committed + (IF s.chunk[b].committed = SizeOf(s, b)
                                                  THEN s.chunk[buddy].committed ELSE 0), l - 1)
      /\ \A a \in DOMAIN s.chunk \ {buddy} : a # b => t.chunk[a] = s.chunk[a]
      /\ t.list = [s.list EXCEPT ![l] = Unlink(s.list[l], buddy)]
      /\ t.nodes = s.nodes /\ t.used = s.used /\ t.mask = s.mask
      /\ t.reserved = s.reserved /\ t.data = s.data

\* The buddy a chunk can claim is the free chunk behind it.
LEMMA ClaimedBuddy ==
  ASSUME NEW s, NEW H, Tiles(s.chunk, H), NEW b \in DOMAIN s.chunk, CanEnlarge(s, b)
  PROVE  LET l     == s.chunk[b].level
             buddy == Buddy(b, l)
         IN  /\ l \in Levels /\ l # RootLevel /\ l - 1 \in Levels
             /\ buddy \in DOMAIN s.chunk /\ buddy # b
             /\ s.chunk[buddy].level = l /\ s.chunk[buddy].state = "free"
             /\ Block(b, l) = b /\ Block(b, l - 1) = b
<1> DEFINE l == s.chunk[b].level
<1>1. b \in Nat /\ l \in Levels /\ Block(b, l) = b
  BY ChunkOfTiling
<1>2. l # RootLevel /\ IsLeader(b, l) /\ Joins(s, b, l)
  BY DEF CanEnlarge
<1> HIDE DEF l
<1>3. Buddy(b, l) # Block(b, l)
  BY <1>1, <1>2, BuddyOfBuddy
<1>4. l - 1 \in Levels
  BY <1>1, <1>2, Halving
<1> QED
  BY <1>1, <1>2, <1>3, <1>4 DEF IsLeader, Joins, IsChunk, IsFree, l

\* Enlarge does that.
LEMMA EnlargeShape ==
  ASSUME NEW s, NEW other \in Int, Accounts(s, other), NEW H, Tiles(s.chunk, H),
         NEW b \in DOMAIN s.chunk, CanEnlarge(s, b)
  PROVE  EnlargeSpec(s, b)
<1> DEFINE c     == s.chunk[b]
           buddy == Buddy(b, c.level)
           u     == Delist(s, buddy)
           line  == c.committed
                      + (IF c.committed = SizeOf(s, b) THEN s.chunk[buddy].committed ELSE 0)
           whole == [c EXCEPT !.level = c.level - 1, !.committed = CommitLine(line, c.level - 1)]
           f     == [a \in DOMAIN s.chunk \ {buddy} |-> IF a = b THEN whole ELSE s.chunk[a]]
           t     == Enlarge(s, b)
<1>1. c \in Metachunk
  BY ChunkOfTiling
<1>2. /\ buddy \in DOMAIN s.chunk /\ buddy # b /\ s.chunk[buddy].level = c.level
  BY ClaimedBuddy
<1>3. /\ DOMAIN u = Fields /\ u.chunk = s.chunk
      /\ u.list = [s.list EXCEPT ![c.level] = Unlink(s.list[c.level], buddy)]
      /\ u.nodes = s.nodes /\ u.used = s.used /\ u.mask = s.mask /\ u.reserved = s.reserved
      /\ u.data = s.data
  <2> HIDE DEF buddy, c
  <2>1. s.chunk[buddy].level = c.level
    BY <1>2
  <2> QED
    BY <2>1 DEF Accounts, Fields, Delist
<1>4. t = [u EXCEPT !.chunk = f]
  BY DEF Enlarge
<1>5. /\ t.chunk = f /\ t.list = u.list /\ t.nodes = u.nodes /\ t.used = u.used
      /\ t.mask = u.mask /\ t.reserved = u.reserved /\ t.data = u.data
  <2> HIDE DEF t, f, u
  <2> QED
    BY <1>3, <1>4 DEF Fields
<1>6. /\ whole.level = c.level - 1 /\ whole.state = c.state /\ whole.used = c.used
      /\ whole.committed = CommitLine(line, c.level - 1)
  <2> HIDE DEF line, c
  <2> QED
    BY <1>1 DEF Metachunk
<1>7. /\ DOMAIN f = DOMAIN s.chunk \ {buddy} /\ f[b] = whole
      /\ \A a \in DOMAIN s.chunk \ {buddy} : a # b => f[a] = s.chunk[a]
  <2> HIDE DEF whole, buddy
  <2> QED
    BY <1>2
<1> HIDE DEF t, f, u, whole
<1> QED
  BY <1>3, <1>5, <1>6, <1>7 DEF t, EnlargeSpec

\* Enlarging keeps the tiling.
LEMMA EnlargeTiles ==
  ASSUME NEW s, NEW other \in Int, Accounts(s, other), NEW H, Tiles(s.chunk, H),
         NEW b \in DOMAIN s.chunk, CanEnlarge(s, b)
  PROVE  Tiles(Enlarge(s, b).chunk, H)
<1> DEFINE l     == s.chunk[b].level
           buddy == Buddy(b, l)
           f     == s.chunk
           g     == Enlarge(s, b).chunk
           In    == {b}
           Out   == {b, buddy}
<1>1. /\ b \in Nat /\ b \in DOMAIN f /\ l \in Levels /\ l # RootLevel /\ l - 1 \in Levels
      /\ buddy \in DOMAIN f /\ buddy # b /\ f[buddy].level = l /\ f[b].level = l
      /\ Block(b, l) = b /\ Block(b, l - 1) = b
  BY ClaimedBuddy, ChunkOfTiling
<1>2. EnlargeSpec(s, b)
  BY EnlargeShape
<1>3. ChunkMap(g)
  BY EnlargeAccounts DEF Accounts
<1>4. Tiles(f, H)
  OBVIOUS
<1>5. /\ DOMAIN g = DOMAIN f \ {buddy} /\ g[b].level = l - 1
      /\ \A a \in DOMAIN f \ {buddy} : a # b => g[a] = f[a]
  BY <1>2 DEF EnlargeSpec
<1> HIDE DEF f, g, l
<1>6. DOMAIN g = (DOMAIN f \ Out) \cup In /\ Out \in SUBSET DOMAIN f
  BY <1>1, <1>5
<1>7. Words(b, WordSize[l - 1]) = Words(b, WordSize[l]) \cup Words(buddy, WordSize[l])
  BY <1>1, HalvesCover
<1>8. /\ Extent(g, b) = Words(b, WordSize[l - 1])
      /\ Extent(f, b) = Words(b, WordSize[l]) /\ Extent(f, buddy) = Words(buddy, WordSize[l])
  BY <1>1, <1>5 DEF Extent
<1> HIDE DEF buddy
<1>9. UNION {Extent(g, a) : a \in In} = UNION {Extent(f, a) : a \in Out}
  <2>1. UNION {Extent(g, a) : a \in In} = Extent(g, b)
    OBVIOUS
  <2>2. UNION {Extent(f, a) : a \in Out} = Extent(f, b) \cup Extent(f, buddy)
    OBVIOUS
  <2> QED
    BY <1>7, <1>8, <2>1, <2>2
<1>10. \A a \in In : a \in Nat /\ a = Block(a, g[a].level)
  BY <1>1, <1>5
<1>11. \A a, c \in In : a # c => Extent(g, a) \cap Extent(g, c) = {}
  OBVIOUS
<1>12. \A a \in DOMAIN f \ Out : a \notin In => g[a].level = f[a].level
  BY <1>5
<1> HIDE DEF In, Out
<1>13. Tiles(g, H)
  BY <1>3, <1>4, <1>6, <1>9, <1>10, <1>11, <1>12, Retile
<1> QED
  BY <1>13 DEF g

\* A chunk changed in place, and nothing else but granules.
ChangeSpec(s, t, b) ==
  /\ DOMAIN t.chunk = DOMAIN s.chunk
  /\ \A a \in DOMAIN s.chunk : a # b => t.chunk[a] = s.chunk[a]
  /\ t.chunk[b].level = s.chunk[b].level
  /\ t.list = s.list /\ t.nodes = s.nodes /\ t.used = s.used /\ t.reserved = s.reserved

\* Replacing a chunk of a context.
LEMMA ChangeShape ==
  ASSUME NEW s, NEW other \in Int, Accounts(s, other), NEW b \in DOMAIN s.chunk,
         NEW c, c.level = s.chunk[b].level
  PROVE  LET t == [s EXCEPT !.chunk[b] = c] IN
         ChangeSpec(s, t, b) /\ t.mask = s.mask /\ t.data = s.data /\ t.chunk[b] = c
<1> DEFINE t == [s EXCEPT !.chunk[b] = c]
           f == [s.chunk EXCEPT ![b] = c]
<1>1. /\ t.chunk = f /\ t.list = s.list /\ t.nodes = s.nodes /\ t.used = s.used
      /\ t.reserved = s.reserved /\ t.mask = s.mask /\ t.data = s.data
  BY DEF Accounts, Fields
<1>2. DOMAIN f = DOMAIN s.chunk /\ f[b] = c /\ \A a \in DOMAIN s.chunk : a # b => f[a] = s.chunk[a]
  OBVIOUS
<1> HIDE DEF t, f
<1> QED
  BY <1>1, <1>2 DEF t, ChangeSpec

-----------------------------------------------------------------------------
(* The inductive invariant.                                                *)

Handed(s) == {a \in Addresses : /\ a \div NodeWords \in Range(s.nodes)
                                /\ a % NodeWords < s.used[a \div NodeWords]}

LiveGranules(s) == UNION {NodeGranules(n) : n \in Range(s.nodes)}

\* The nodes: each once, all but the first used up, in whole root chunks.
NodesSound(s) ==
  /\ s.nodes \in Seq(Nodes) /\ IsInjective(s.nodes)
  /\ s.reserved = NodeWords * Len(s.nodes)
  /\ s.used \in [Nodes -> Int]
  /\ \A n \in Nodes : /\ s.used[n] <= NodeWords
                      /\ \E i \in Nat : s.used[n] = i * WordSize[RootLevel]
  /\ \A i \in 2..Len(s.nodes) : s.used[s.nodes[i]] = NodeWords

\* Commit lines never fall below zero, which keeps what is committed inside
\* the chunk that asked for it and so inside a live node.
Lines(f) == \A b \in DOMAIN f : f[b].committed >= 0

Tiled(s) ==
  /\ Tiles(s.chunk, Handed(s))
  /\ Lines(s.chunk)
  /\ NodesSound(s)
  /\ s.mask \subseteq LiveGranules(s)

\* Operations on chunks leave the nodes alone.
LEMMA SameNodes ==
  ASSUME NEW s, Tiled(s), NEW t, Tiles(t.chunk, Handed(s)), Lines(t.chunk),
         t.nodes = s.nodes, t.used = s.used, t.reserved = s.reserved,
         t.mask \subseteq LiveGranules(s)
  PROVE  Tiled(t)
<1>1. Handed(t) = Handed(s) /\ LiveGranules(t) = LiveGranules(s)
  BY DEF Handed, LiveGranules
<1>2. NodesSound(t)
  BY DEF Tiled, NodesSound
<1> QED
  BY <1>1, <1>2 DEF Tiled

\* A granule that a chunk touches belongs to a live node.
LEMMA GranulesOfChunk ==
  ASSUME NEW s, Tiled(s), NEW b \in DOMAIN s.chunk,
         NEW from \in Nat, NEW size \in Nat \ {0},
         Words(from, size) \subseteq Extent(s.chunk, b)
  PROVE  GranulesOf(from, size) \subseteq LiveGranules(s)
<1> SUFFICES ASSUME NEW g \in GranulesOf(from, size)
             PROVE  g \in LiveGranules(s)
  OBVIOUS
<1>1. PICK a \in Words(from, size) : a \div GranuleWords = g
  BY GranulesOfWords
<1>2. Tiles(s.chunk, Handed(s))
  BY DEF Tiled
<1>3. a \in Nat /\ a \in Handed(s)
  BY <1>2, ChunkOfTiling
<1>4. a \div NodeWords \in Range(s.nodes)
  BY <1>3 DEF Handed
<1>5. g \in NodeGranules(a \div NodeWords)
  BY <1>1, <1>3, GranuleInNode
<1> QED
  BY <1>4, <1>5 DEF LiveGranules

\* A new chunk behind the others extends the tiling.
LEMMA AddTile ==
  ASSUME NEW f, NEW H, Tiles(f, H), NEW g, ChunkMap(g), NEW b \in Nat,
         DOMAIN g = DOMAIN f \cup {b}, b = Block(b, g[b].level),
         \A a \in DOMAIN f : g[a] = f[a],
         Extent(g, b) \cap H = {}
  PROVE  Tiles(g, H \cup Extent(g, b))
<1>1. \A a \in DOMAIN f : Extent(g, a) = Extent(f, a) /\ Extent(f, a) \subseteq H
  BY DEF Extent, Tiles
<1>2. \A a, c \in DOMAIN g : a # c => Extent(g, a) \cap Extent(g, c) = {}
  <2> SUFFICES ASSUME NEW a \in DOMAIN g, NEW c \in DOMAIN g, a # c
               PROVE  Extent(g, a) \cap Extent(g, c) = {}
    OBVIOUS
  <2>1. CASE a \in DOMAIN f /\ c \in DOMAIN f
    BY <1>1, <2>1 DEF Tiles
  <2>2. CASE a \in DOMAIN f /\ c = b
    BY <1>1, <2>2
  <2>3. CASE a = b /\ c \in DOMAIN f
    BY <1>1, <2>3
  <2> QED
    BY <2>1, <2>2, <2>3
<1>3. UNION {Extent(g, a) : a \in DOMAIN g} = H \cup Extent(g, b)
  <2>1. UNION {Extent(g, a) : a \in DOMAIN g}
          = (UNION {Extent(g, a) : a \in DOMAIN f}) \cup Extent(g, b)
    OBVIOUS
  <2>2. UNION {Extent(g, a) : a \in DOMAIN f} = UNION {Extent(f, a) : a \in DOMAIN f}
    BY <1>1
  <2> QED
    BY <2>1, <2>2 DEF Tiles
<1> QED
  BY <1>2, <1>3 DEF Tiles

-----------------------------------------------------------------------------
(* Operations on one chunk.                                                *)

\* Lists are not part of the tiling.
LEMMA ListTiled ==
  ASSUME NEW s, NEW other \in Int, Accounts(s, other), Tiled(s), NEW b
  PROVE  Tiled(Enlist(s, b)) /\ Tiled(Delist(s, b))
<1>1. ASSUME NEW t, t = Enlist(s, b) \/ t = Delist(s, b)
      PROVE  Tiled(t)
  <2>1. /\ t.chunk = s.chunk /\ t.nodes = s.nodes /\ t.used = s.used
        /\ t.reserved = s.reserved /\ t.mask = s.mask
    BY <1>1 DEF Accounts, Fields, Enlist, Delist
  <2> QED
    BY <2>1, SameNodes DEF Tiled
<1> QED
  BY <1>1

\* A chunk that changes in place keeps the tiling.
LEMMA ChangeTiled ==
  ASSUME NEW s, NEW other \in Int, Accounts(s, other), Tiled(s), NEW b \in DOMAIN s.chunk,
         NEW t, Accounts(t, other), ChangeSpec(s, t, b), t.chunk[b].committed >= 0,
         t.mask \subseteq LiveGranules(s)
  PROVE  Tiled(t)
<1>1. ChunkMap(t.chunk)
  BY DEF Accounts
<1>2. /\ DOMAIN t.chunk = DOMAIN s.chunk
      /\ \A a \in DOMAIN s.chunk : t.chunk[a].level = s.chunk[a].level
      /\ \A a \in DOMAIN s.chunk : a # b => t.chunk[a] = s.chunk[a]
      /\ t.nodes = s.nodes /\ t.used = s.used /\ t.reserved = s.reserved
  BY DEF ChangeSpec
<1>3. Tiles(t.chunk, Handed(s))
  BY <1>1, <1>2, SameLevels DEF Tiled
<1>4. Lines(t.chunk)
  BY <1>2 DEF Lines, Tiled
<1> QED
  BY <1>2, <1>3, <1>4, SameNodes

\* Marking a chunk as in use.
LEMMA TakeTiled ==
  ASSUME NEW s, NEW other \in Int, Accounts(s, other), Tiled(s), NEW b \in DOMAIN s.chunk
  PROVE  LET t == [s EXCEPT !.chunk[b].state = "inuse"] IN
         /\ Accounts(t, other) /\ Tiled(t) /\ ChangeSpec(s, t, b) /\ t.mask = s.mask
         /\ t.chunk[b].state = "inuse" /\ t.chunk[b].committed = s.chunk[b].committed
         /\ t.chunk[b].used = s.chunk[b].used /\ t.data = s.data
<1> DEFINE c == [s.chunk[b] EXCEPT !.state = "inuse"]
           t == [s EXCEPT !.chunk[b] = c]
<1>1. s.chunk[b] \in Metachunk
  BY ChunkOf
<1>2. c \in Metachunk /\ c.level = s.chunk[b].level /\ c.committed = s.chunk[b].committed
      /\ c.state = "inuse" /\ c.used = s.chunk[b].used
  BY <1>1 DEF Metachunk
<1>3. [s EXCEPT !.chunk[b].state = "inuse"] = t
  OBVIOUS
<1> HIDE DEF c
<1>4. Accounts(t, other)
  BY <1>2, ChunkChangeAccounts
<1>5. ChangeSpec(s, t, b) /\ t.mask = s.mask /\ t.data = s.data /\ t.chunk[b] = c
  BY <1>2, ChangeShape
<1> HIDE DEF t
<1>6. Tiled(t)
  <2>1. t.chunk[b].committed >= 0 /\ t.mask \subseteq LiveGranules(s)
    BY <1>2, <1>5 DEF Tiled, Lines
  <2> QED
    BY <1>4, <1>5, <2>1, ChangeTiled
<1> QED
  BY <1>2, <1>3, <1>4, <1>5, <1>6

\* What a chunk is, in a context whose chunks tile.
LEMMA TiledChunk ==
  ASSUME NEW s, NEW other, Accounts(s, other), Tiled(s), NEW b \in DOMAIN s.chunk
  PROVE  /\ Tiles(s.chunk, Handed(s))
         /\ b \in Nat /\ s.chunk[b] \in Metachunk /\ s.chunk[b].level \in Levels
         /\ Block(b, s.chunk[b].level) = b
         /\ SizeOf(s, b) \in Nat \ {0} /\ Extent(s.chunk, b) = Words(b, SizeOf(s, b))
         /\ s.chunk[b].committed \in Nat
<1>1. Tiles(s.chunk, Handed(s)) /\ s.chunk[b].committed >= 0
  BY DEF Tiled, Lines
<1>2. /\ b \in Nat /\ s.chunk[b] \in Metachunk /\ s.chunk[b].level \in Levels
      /\ Block(b, s.chunk[b].level) = b
  BY <1>1, ChunkOfTiling
<1>3. SizeOf(s, b) \in Nat \ {0} /\ s.chunk[b].committed \in Int
  BY ChunkOf
<1>4. Extent(s.chunk, b) = Words(b, SizeOf(s, b))
  BY DEF Extent, SizeOf
<1> QED
  BY <1>1, <1>2, <1>3, <1>4

\* A commit line is rounded up to a granule, and no further than the chunk.
LEMMA CommitLineBounds ==
  ASSUME NEW words \in Nat, NEW l \in Levels
  PROVE  CommitLine(words, l) \in Nat /\ CommitLine(words, l) <= WordSize[l]
<1> DEFINE up == AlignUp(words, GranuleWords)
<1>1. up \in Nat /\ WordSize[l] \in Nat
  BY SizesPositive, AlignUpBounds
<1> HIDE DEF up
<1>2. Min({up, WordSize[l]}) = IF up <= WordSize[l] THEN up ELSE WordSize[l]
  BY <1>1, MinOfTwo
<1> QED
  BY <1>1, <1>2 DEF CommitLine, up

\* What commit_range does with a range: nothing if all of it is committed, and
\* otherwise the whole range is mapped afresh.
RangeEffect(s, t, range) ==
  /\ t.mask = s.mask \cup range
  /\ \/ t.data = s.data
     \/ /\ \E x \in range : x \notin s.mask
        /\ t.data = {a \in s.data : a \div GranuleWords \notin range}

\* CommitRange does that.
LEMMA CommitRangeEffect ==
  ASSUME NEW s, NEW other \in Int, Accounts(s, other), NEW from \in Int, NEW size \in Int
  PROVE  RangeEffect(s, CommitRange(s, from, size), GranulesOf(from, size))
<1> DEFINE range == GranulesOf(from, size)
           gain  == range \ s.mask
           words == GranuleWords * Cardinality(gain)
           t     == CommitRange(s, from, size)
<1>1. IsFiniteSet(gain) /\ Cardinality(gain) \in Nat
  BY RangeFinite, FS_Subset, FS_CardinalityType
<1>2. words = 0 <=> gain = {}
  <2>1. Cardinality(gain) = 0 <=> gain = {}
    BY <1>1, FS_EmptySet
  <2> DEFINE n == Cardinality(gain)
             g == GranuleWords
  <2>2. n \in Nat /\ g \in Nat \ {0} /\ words = g * n
    BY <1>1, SizesPositive
  <2> HIDE DEF n, g, words
  <2>3. words = 0 <=> n = 0
    BY <2>2
  <2> QED
    BY <2>1, <2>3 DEF n
<1>3. CASE words = 0
  <2>1. t = s
    BY <1>3 DEF CommitRange
  <2>2. range \subseteq s.mask
    BY <1>2, <1>3
  <2> HIDE DEF range, t
  <2> QED
    BY <2>1, <2>2 DEF RangeEffect, range, t
<1>4. CASE words # 0
  <2>1. /\ t.mask = s.mask \cup range
        /\ t.data = {a \in s.data : a \div GranuleWords \notin range}
    <3> HIDE DEF range
    <3> QED
      BY <1>4 DEF CommitRange, Accounts, Fields, range
  <2>2. \E x \in range : x \notin s.mask
    BY <1>2, <1>4
  <2> HIDE DEF range, t
  <2> QED
    BY <2>1, <2>2 DEF RangeEffect, range, t
<1> QED
  BY <1>3, <1>4

\* What commit_up_to does to mask and data when the commit line is to be at `to`.
CommitEffect(s, t, b, to) ==
  LET from == s.chunk[b].committed IN
  IF to > from THEN RangeEffect(s, t, GranulesOf(b + from, to - from))
               ELSE t.mask = s.mask /\ t.data = s.data

\* Committing touches granules of live nodes only.
LEMMA CommitTiled ==
  ASSUME NEW s, NEW other \in Int, Accounts(s, other), Tiled(s), NEW b \in DOMAIN s.chunk,
         NEW words \in Nat, CanCommit(s, b, words)
  PROVE  LET t == CommitUpTo(s, b, words) IN
         /\ Accounts(t, other) /\ Tiled(t) /\ ChangeSpec(s, t, b)
         /\ t.chunk[b].state = s.chunk[b].state /\ t.chunk[b].used = s.chunk[b].used
         /\ t.chunk[b].committed = CommitTo(s, b, words)
         /\ CommitEffect(s, t, b, CommitTo(s, b, words))
<1> DEFINE from == s.chunk[b].committed
           to   == CommitTo(s, b, words)
           size == to - from
           u    == IF to > from THEN CommitRange(s, b + from, size) ELSE s
           c    == [s.chunk[b] EXCEPT !.committed = to]
           t    == [u EXCEPT !.chunk[b] = c]
<1>1. /\ b \in Nat /\ s.chunk[b] \in Metachunk /\ s.chunk[b].level \in Levels
      /\ SizeOf(s, b) \in Nat \ {0} /\ Extent(s.chunk, b) = Words(b, SizeOf(s, b))
      /\ from \in Nat
  BY TiledChunk
<1>2. to \in Nat /\ to <= SizeOf(s, b)
  BY <1>1, CommitLineBounds DEF CommitTo, SizeOf
<1>3. c \in Metachunk /\ c.level = s.chunk[b].level /\ c.committed = to
      /\ c.state = s.chunk[b].state /\ c.used = s.chunk[b].used
  <2> HIDE DEF to
  <2> QED
    BY <1>1, <1>2 DEF Metachunk
<1>4. /\ Accounts(u, other) /\ u.chunk = s.chunk /\ u.list = s.list /\ u.nodes = s.nodes
      /\ u.used = s.used /\ u.reserved = s.reserved
      /\ u.mask \subseteq LiveGranules(s) /\ CommitEffect(s, u, b, to)
  <2>1. CASE to > from
    <3>1. /\ GranuleWords * Cardinality(GranulesOf(b + from, size) \ s.mask)
               <= PossibleExpansion(s)
          /\ b + from \in Nat /\ size \in Nat \ {0}
      BY <1>1, <1>2, <2>1 DEF CanCommit
    <3>2. Accounts(CommitRange(s, b + from, size), other)
      BY <3>1, CommitRangeAccounts
    <3>3. CommitRange(s, b + from, size).chunk = s.chunk
      BY <3>1, CommitRangeAccounts
    <3>4. Words(b + from, size) \subseteq Extent(s.chunk, b)
      <4> HIDE DEF to, from
      <4> QED
        BY <1>1, <1>2, <2>1 DEF Words
    <3>5. GranulesOf(b + from, size) \subseteq LiveGranules(s)
      BY <3>1, <3>4, GranulesOfChunk
    <3> DEFINE v == CommitRange(s, b + from, size)
    <3>6. /\ v.list = s.list /\ v.nodes = s.nodes /\ v.used = s.used /\ v.reserved = s.reserved
          /\ v.mask = s.mask \/ v.mask = s.mask \cup GranulesOf(b + from, size)
      <4> HIDE DEF to, from, size
      <4> QED
        BY DEF CommitRange, Accounts, Fields
    <3>7. u = v
      BY <2>1
    <3>8. CommitEffect(s, v, b, to)
      <4>1. RangeEffect(s, v, GranulesOf(b + from, size))
        <5>1. b + from \in Int /\ size \in Int
          BY <3>1
        <5> QED
          BY <5>1, CommitRangeEffect
      <4> HIDE DEF v
      <4> QED
        BY <2>1, <4>1 DEF CommitEffect
    <3> HIDE DEF v, u, size, to, from
    <3> QED
      BY <3>2, <3>3, <3>5, <3>6, <3>7, <3>8 DEF Tiled, v
  <2>2. CASE ~(to > from)
    <3>1. u = s /\ CommitEffect(s, s, b, to)
      BY <2>2 DEF CommitEffect
    <3> HIDE DEF u, to
    <3> QED
      BY <3>1 DEF Tiled
  <2> QED
    BY <2>1, <2>2
<1>5. CommitUpTo(s, b, words) = t
  BY <1>4 DEF CommitUpTo
<1> HIDE DEF c, u
<1>6. Accounts(t, other)
  BY <1>3, <1>4, ChunkChangeAccounts
<1>7. ChangeSpec(u, t, b) /\ t.mask = u.mask /\ t.data = u.data /\ t.chunk[b] = c
  BY <1>3, <1>4, ChangeShape
<1> HIDE DEF t
<1>8. ChangeSpec(s, t, b) /\ t.mask \subseteq LiveGranules(s)
  BY <1>4, <1>7 DEF ChangeSpec
<1>9. Tiled(t)
  <2>1. t.chunk[b].committed >= 0
    BY <1>2, <1>3, <1>7
  <2> QED
    BY <1>6, <1>8, <2>1, ChangeTiled
<1>10. CommitEffect(s, t, b, to)
  BY <1>4, <1>7 DEF CommitEffect, RangeEffect
<1> HIDE DEF to, from
<1> QED
  BY <1>3, <1>5, <1>6, <1>7, <1>8, <1>9, <1>10 DEF to

\* Uncommitting a chunk.
LEMMA UncommitTiled ==
  ASSUME NEW s, NEW other \in Int, Accounts(s, other), Tiled(s), NEW b \in DOMAIN s.chunk
  PROVE  LET t == Uncommit(s, b) IN
         /\ Accounts(t, other) /\ Tiled(t) /\ ChangeSpec(s, t, b)
         /\ t.chunk[b].state = s.chunk[b].state /\ t.chunk[b].committed = 0
         /\ t.chunk[b].used = s.chunk[b].used
         /\ LET range == GranulesOf(b, SizeOf(s, b)) IN
            /\ t.mask = s.mask \ range
            /\ t.data = {a \in s.data : a \div GranuleWords \notin range}
<1> DEFINE u == UncommitRange(s, b, SizeOf(s, b))
           c == [s.chunk[b] EXCEPT !.committed = 0]
           t == [u EXCEPT !.chunk[b] = c]
<1>1. s.chunk[b] \in Metachunk
  BY ChunkOf
<1>2. c \in Metachunk /\ c.level = s.chunk[b].level /\ c.committed = 0
      /\ c.state = s.chunk[b].state /\ c.used = s.chunk[b].used
  BY <1>1 DEF Metachunk
<1>3. Accounts(u, other) /\ u.chunk = s.chunk
  BY UncommitRangeAccounts
<1>4. /\ u.list = s.list /\ u.nodes = s.nodes /\ u.used = s.used /\ u.reserved = s.reserved
      /\ u.mask = s.mask \ GranulesOf(b, SizeOf(s, b))
      /\ u.data = {a \in s.data : a \div GranuleWords \notin GranulesOf(b, SizeOf(s, b))}
  BY DEF UncommitRange, Accounts, Fields
<1>5. Uncommit(s, b) = t
  BY <1>3 DEF Uncommit
<1> HIDE DEF c, u
<1>6. Accounts(t, other)
  BY <1>2, <1>3, ChunkChangeAccounts
<1>7. ChangeSpec(u, t, b) /\ t.mask = u.mask /\ t.data = u.data /\ t.chunk[b] = c
  BY <1>2, <1>3, ChangeShape
<1> HIDE DEF t
<1>8. ChangeSpec(s, t, b) /\ t.mask \subseteq LiveGranules(s)
  BY <1>3, <1>4, <1>7 DEF ChangeSpec, Tiled
<1>9. Tiled(t)
  <2>1. t.chunk[b].committed >= 0
    BY <1>2, <1>7
  <2> QED
    BY <1>6, <1>8, <2>1, ChangeTiled
<1> QED
  BY <1>2, <1>4, <1>5, <1>6, <1>7, <1>8, <1>9

\* A returned chunk before it is merged.
LEMMA SetFreeTiled ==
  ASSUME NEW s, NEW other \in Int, Accounts(s, other), Tiled(s), NEW b \in DOMAIN s.chunk
  PROVE  LET t == SetFree(s, b) IN
         /\ Accounts(t, other) /\ Tiled(t) /\ ChangeSpec(s, t, b) /\ t.mask = s.mask
         /\ t.chunk[b].state = "free" /\ t.chunk[b].committed = s.chunk[b].committed
         /\ t.chunk[b].used = 0 /\ t.data = s.data \ Words(b, SizeOf(s, b))
<1> DEFINE c == [s.chunk[b] EXCEPT !.state = "free", !.used = 0]
           f == [s.chunk EXCEPT ![b] = c]
           t == SetFree(s, b)
<1>1. s.chunk[b] \in Metachunk /\ s.chunk[b].committed >= 0
  BY ChunkOf DEF Tiled, Lines
<1>2. c.level = s.chunk[b].level /\ c.committed = s.chunk[b].committed /\ c.state = "free"
      /\ c.used = 0
  BY <1>1 DEF Metachunk
<1>3. /\ t.chunk = f /\ t.list = s.list /\ t.nodes = s.nodes /\ t.used = s.used
      /\ t.reserved = s.reserved /\ t.mask = s.mask /\ t.data = s.data \ Words(b, SizeOf(s, b))
  BY DEF Accounts, Fields, SetFree
<1>4. DOMAIN f = DOMAIN s.chunk /\ f[b] = c /\ \A a \in DOMAIN s.chunk : a # b => f[a] = s.chunk[a]
  <2> HIDE DEF c
  <2> QED
    OBVIOUS
<1>5. Accounts(t, other)
  BY SetFreeAccounts
<1> HIDE DEF t, f, c
<1>6. ChangeSpec(s, t, b)
  BY <1>2, <1>3, <1>4 DEF ChangeSpec
<1>7. t.chunk[b].committed >= 0 /\ t.mask \subseteq LiveGranules(s)
  BY <1>1, <1>2, <1>3, <1>4 DEF Tiled
<1>8. Tiled(t)
  BY <1>5, <1>6, <1>7, ChangeTiled
<1> QED
  BY <1>2, <1>3, <1>4, <1>5, <1>6, <1>8 DEF t

\* Metachunk::allocate.
LEMMA BumpTiled ==
  ASSUME NEW s, NEW other \in Int, Accounts(s, other), Tiled(s), NEW b \in DOMAIN s.chunk,
         NEW size \in Int
  PROVE  LET t == Bump(s, b, size) IN
         /\ Accounts(t, other) /\ Tiled(t) /\ ChangeSpec(s, t, b) /\ t.mask = s.mask
         /\ t.chunk[b].state = s.chunk[b].state /\ t.chunk[b].committed = s.chunk[b].committed
         /\ t.chunk[b].used = s.chunk[b].used + size
         /\ t.data = s.data \cup Words(b + s.chunk[b].used, size)
<1> DEFINE c == [s.chunk[b] EXCEPT !.used = @ + size]
           f == [s.chunk EXCEPT ![b] = c]
           t == Bump(s, b, size)
<1>1. s.chunk[b] \in Metachunk /\ s.chunk[b].committed >= 0
  BY ChunkOf DEF Tiled, Lines
<1>2. c.level = s.chunk[b].level /\ c.committed = s.chunk[b].committed
      /\ c.state = s.chunk[b].state /\ c.used = s.chunk[b].used + size
  BY <1>1 DEF Metachunk
<1>3. /\ t.chunk = f /\ t.list = s.list /\ t.nodes = s.nodes /\ t.used = s.used
      /\ t.reserved = s.reserved /\ t.mask = s.mask
      /\ t.data = s.data \cup Words(b + s.chunk[b].used, size)
  BY DEF Accounts, Fields, Bump
<1>4. DOMAIN f = DOMAIN s.chunk /\ f[b] = c /\ \A a \in DOMAIN s.chunk : a # b => f[a] = s.chunk[a]
  <2> HIDE DEF c
  <2> QED
    OBVIOUS
<1>5. Accounts(t, other)
  BY BumpAccounts
<1> HIDE DEF t, f, c
<1>6. ChangeSpec(s, t, b)
  BY <1>2, <1>3, <1>4 DEF ChangeSpec
<1>7. t.chunk[b].committed >= 0 /\ t.mask \subseteq LiveGranules(s)
  BY <1>1, <1>2, <1>3, <1>4 DEF Tiled
<1>8. Tiled(t)
  BY <1>5, <1>6, <1>7, ChangeTiled
<1> QED
  BY <1>2, <1>3, <1>4, <1>5, <1>6, <1>8 DEF t

\* Splitting keeps the tiling.
LEMMA SplitTiled ==
  ASSUME NEW s, NEW other \in Int, Accounts(s, other), Tiled(s), NEW b \in DOMAIN s.chunk,
         NEW target \in Levels, s.chunk[b].level <= target
  PROVE  LET t == Split(s, b, target) IN
         Accounts(t, other) /\ Tiled(t) /\ SplitSpec(s, b, target)
<1> DEFINE t    == Split(s, b, target)
           c    == s.chunk[b]
           cuts == Cuts(s, b, target)
<1>1. Tiles(s.chunk, Handed(s)) /\ c.level \in Levels /\ c.committed \in Nat
  BY TiledChunk
<1>2. SplitSpec(s, b, target)
  BY <1>1, SplitShape
<1>3. Tiles(t.chunk, Handed(s))
  BY <1>1, SplitTiles
<1>4. /\ DOMAIN t.chunk = DOMAIN s.chunk \cup Pieces(s, b, target)
      /\ t.chunk[b].committed = Min({c.committed, WordSize[target]})
      /\ \A a \in DOMAIN s.chunk : a # b => t.chunk[a] = s.chunk[a]
      /\ \A k \in cuts : t.chunk[b + WordSize[k]].committed = Spill(s, b, k)
      /\ t.nodes = s.nodes /\ t.used = s.used /\ t.mask = s.mask /\ t.reserved = s.reserved
  BY <1>2 DEF SplitSpec
<1>5. t.chunk[b].committed >= 0
  BY <1>1, <1>4, SizesPositive, MinOfTwo
<1>6. ASSUME NEW k \in cuts
      PROVE  Spill(s, b, k) >= 0
  <2> DEFINE line == Min({c.committed, WordSize[k - 1]})
  <2>1. k \in Levels /\ k # RootLevel
    <3>1. c.level \in Nat /\ cuts \subseteq Levels
      BY <1>1, LevelRanges DEF Cuts
    <3> QED
      BY <1>6, <3>1 DEF Cuts, RootLevel
  <2>2. WordSize[k] \in Nat /\ WordSize[k - 1] \in Nat
    BY <2>1, Halving, SizesPositive
  <2>3. line \in Nat
    <3> DEFINE x == c.committed
               y == WordSize[k - 1]
    <3>1. x \in Nat /\ y \in Nat
      BY <1>1, <2>2
    <3> HIDE DEF x, y
    <3>2. Min({x, y}) \in Nat
      BY <3>1, MinOfTwo
    <3> QED
      BY <3>2 DEF x, y
  <2> HIDE DEF line
  <2>4. CASE line > WordSize[k]
    <3>1. line - WordSize[k] \in Nat
      BY <2>2, <2>3, <2>4
    <3>2. CommitLine(line - WordSize[k], k) >= 0
      BY <2>1, <3>1, CommitLineBounds
    <3> QED
      BY <2>4, <3>2 DEF Spill, line
  <2>5. CASE ~(line > WordSize[k])
    BY <2>5 DEF Spill, line
  <2> QED
    BY <2>4, <2>5
<1>7. Lines(t.chunk)
  <2> SUFFICES ASSUME NEW a \in DOMAIN t.chunk
               PROVE  t.chunk[a].committed >= 0
    BY DEF Lines
  <2>1. CASE a = b
    BY <1>5, <2>1
  <2>2. CASE a \in DOMAIN s.chunk /\ a # b
    BY <1>4, <2>2 DEF Tiled, Lines
  <2>3. CASE a \in Pieces(s, b, target)
    BY <1>4, <1>6, <2>3 DEF Pieces
  <2> QED
    BY <1>4, <2>1, <2>2, <2>3
<1>8. Tiled(t)
  <2>1. t.mask \subseteq LiveGranules(s)
    BY <1>4 DEF Tiled
  <2> HIDE DEF t
  <2> QED
    BY <1>3, <1>4, <1>7, <2>1, SameNodes
<1> QED
  BY <1>2, <1>8, SplitAccounts

\* The line of a merged chunk lies between its base and its end, and no
\* further than the first gap.
LEMMA MergedLine ==
  ASSUME NEW s, NEW other, Accounts(s, other), NEW parts \in SUBSET DOMAIN s.chunk,
         IsFiniteSet(parts), NEW base \in Nat, NEW l \in Levels,
         \A q \in parts : base <= q /\ s.chunk[q].committed >= 0
  PROVE  LET line == base + MergedCommitted(s, parts, base, l)
             gaps == {q \in parts : /\ s.chunk[q].committed < SizeOf(s, q)
                                    /\ q = base \/ q % GranuleWords = 0}
         IN  /\ MergedCommitted(s, parts, base, l) \in Nat
             /\ line <= base + WordSize[l]
             /\ \A q \in gaps : line <= q + s.chunk[q].committed
             /\ line = base + WordSize[l] \/ \E q \in gaps : line = q + s.chunk[q].committed
<1> DEFINE gaps  == {q \in parts : /\ s.chunk[q].committed < SizeOf(s, q)
                                   /\ q = base \/ q % GranuleWords = 0}
           lines == {q + s.chunk[q].committed : q \in gaps}
           end   == base + WordSize[l]
           S     == lines \cup {end}
           f     == [q \in gaps |-> q + s.chunk[q].committed]
<1>1. IsFiniteSet(gaps)
  <2>1. gaps \in SUBSET parts
    OBVIOUS
  <2> QED
    BY <2>1, FS_Subset
<1>2. f \in Surjection(gaps, lines)
  BY DEF Surjection
<1>3. IsFiniteSet(S)
  <2>1. IsFiniteSet(lines)
    BY <1>1, <1>2, FS_Surjection
  <2> QED
    BY <2>1, FS_AddElement
<1>4. \A q \in parts : q \in Int /\ s.chunk[q].committed \in Int
  BY ChunkOf
<1>5. \A q \in gaps : q + s.chunk[q].committed \in Nat /\ base <= q + s.chunk[q].committed
  BY <1>4
<1>6. end \in Nat /\ base <= end
  BY SizesPositive
<1>7. \A x \in S : x \in Nat /\ base <= x
  BY <1>5, <1>6
<1>8. MergedCommitted(s, parts, base, l) = Min(S) - base
  BY DEF MergedCommitted
<1>9. \A q \in gaps : q + s.chunk[q].committed \in S
  OBVIOUS
<1>10. end \in S /\ \A x \in S : x = end \/ \E q \in gaps : x = q + s.chunk[q].committed
  OBVIOUS
<1> HIDE DEF S, gaps, end
<1>11. Min(S) \in S /\ \A x \in S : Min(S) <= x
  <2>1. S \in SUBSET Int /\ S # {}
    BY <1>7, <1>10
  <2> QED
    BY <1>3, <2>1, MinExists
<1>12. base + MergedCommitted(s, parts, base, l) = Min(S)
  BY <1>7, <1>8, <1>11
<1>13. MergedCommitted(s, parts, base, l) \in Nat
  BY <1>7, <1>8, <1>11
<1> QED
  BY <1>9, <1>10, <1>11, <1>12, <1>13 DEF gaps, end

\* The parts of a merged chunk are chunks, finitely many, from its base on.
LEMMA PartsBounds ==
  ASSUME NEW s, NEW other \in Int, Accounts(s, other), Tiled(s), NEW b \in DOMAIN s.chunk
  PROVE  /\ Parts(s, b) \subseteq DOMAIN s.chunk /\ IsFiniteSet(Parts(s, b))
         /\ MergeLevel(s, b) \in Levels /\ Base(s, b) \in Nat
         /\ \A q \in Parts(s, b) : /\ Base(s, b) <= q
                                   /\ q + SizeOf(s, q) <= Base(s, b) + WordSize[MergeLevel(s, b)]
<1> DEFINE m    == MergeLevel(s, b)
           base == Base(s, b)
<1>1. Tiles(s.chunk, Handed(s))
  BY DEF Tiled
<1>2. /\ m \in Levels /\ Parts(s, b) \subseteq DOMAIN s.chunk /\ base \in Nat
  BY <1>1, JoinedBuddies
<1>3. IsFiniteSet(Parts(s, b))
  <2>1. \A k \in (m + 1)..s.chunk[b].level : Joins(s, b, k)
    BY MergeLevelReached
  <2> HIDE DEF m
  <2>2. IsFiniteSet({b} \cup {Buddy(b, k) : k \in (m + 1)..s.chunk[b].level})
    BY <1>2, <2>1, PartsAreChunks
  <2> QED
    BY <2>2 DEF Parts, Joined, m
<1>4. Words(base, WordSize[m]) = UNION {Extent(s.chunk, q) : q \in Parts(s, b)}
  BY <1>1, PartsCover
<1>5. ASSUME NEW q \in Parts(s, b)
      PROVE  base <= q /\ q + SizeOf(s, q) <= base + WordSize[m]
  <2>1. q \in Nat /\ SizeOf(s, q) \in Nat \ {0} /\ Extent(s.chunk, q) = Words(q, SizeOf(s, q))
    BY <1>2, TiledChunk
  <2>2. WordSize[m] \in Nat
    BY <1>2, SizesPositive
  <2>3. Words(q, SizeOf(s, q)) \subseteq Words(base, WordSize[m])
    BY <1>4, <2>1
  <2> DEFINE e == q + SizeOf(s, q) - 1
  <2>4. q \in Words(q, SizeOf(s, q)) /\ e \in Words(q, SizeOf(s, q))
    BY <2>1 DEF Words
  <2>5. q \in Words(base, WordSize[m]) /\ e \in Words(base, WordSize[m])
    BY <2>3, <2>4
  <2> HIDE DEF base, m
  <2> QED
    BY <1>2, <2>1, <2>2, <2>5 DEF Words, base, m
<1> QED
  BY <1>2, <1>3, <1>5

\* Merging keeps the tiling.
LEMMA MergeTiled ==
  ASSUME NEW s, NEW other \in Int, Accounts(s, other), Tiled(s), NEW b \in DOMAIN s.chunk
  PROVE  LET t == MergeAll(s, b) IN
         /\ Accounts(t, other) /\ Tiled(t) /\ MergeSpec(s, b)
         /\ Base(s, b) \in DOMAIN t.chunk /\ Base(s, b) \notin DOMAIN s.chunk \ Parts(s, b)
<1> DEFINE t    == MergeAll(s, b)
           m    == MergeLevel(s, b)
           base == Base(s, b)
<1>1. Tiles(s.chunk, Handed(s))
  BY DEF Tiled
<1>2. MergeSpec(s, b)
  BY MergeShape
<1>3. Tiles(t.chunk, Handed(s)) /\ base \notin DOMAIN s.chunk \ Parts(s, b)
  BY <1>1, MergeTiles
<1>4. /\ DOMAIN t.chunk = (DOMAIN s.chunk \ Parts(s, b)) \cup {base}
      /\ t.chunk[base].committed = MergedCommitted(s, Parts(s, b), base, m)
      /\ \A a \in DOMAIN s.chunk \ Parts(s, b) : a # base => t.chunk[a] = s.chunk[a]
      /\ t.nodes = s.nodes /\ t.used = s.used /\ t.mask = s.mask /\ t.reserved = s.reserved
  BY <1>2 DEF MergeSpec
<1>5. t.chunk[base].committed >= 0
  <2>1. /\ Parts(s, b) \in SUBSET DOMAIN s.chunk /\ IsFiniteSet(Parts(s, b))
        /\ m \in Levels /\ base \in Nat
        /\ \A q \in Parts(s, b) : base <= q /\ s.chunk[q].committed >= 0
    BY PartsBounds DEF Tiled, Lines
  <2> HIDE DEF m, base
  <2>2. MergedCommitted(s, Parts(s, b), base, m) \in Nat
    BY <2>1, MergedLine
  <2> QED
    BY <1>4, <2>2
<1>6. Lines(t.chunk)
  <2> HIDE DEF t, base
  <2> QED
    BY <1>4, <1>5 DEF Tiled, Lines
<1>7. Tiled(t)
  <2>1. t.mask \subseteq LiveGranules(s)
    BY <1>4 DEF Tiled
  <2> HIDE DEF t
  <2> QED
    BY <1>3, <1>4, <1>6, <2>1, SameNodes
<1> QED
  BY <1>2, <1>3, <1>4, <1>7, MergeAccounts

\* Enlarging keeps the tiling.
LEMMA EnlargeTiled ==
  ASSUME NEW s, NEW other \in Int, Accounts(s, other), Tiled(s), NEW b \in DOMAIN s.chunk,
         CanEnlarge(s, b)
  PROVE  LET t == Enlarge(s, b) IN Accounts(t, other) /\ Tiled(t) /\ EnlargeSpec(s, b)
<1> DEFINE t     == Enlarge(s, b)
           l     == s.chunk[b].level
           buddy == Buddy(b, l)
           line  == s.chunk[b].committed + (IF s.chunk[b].committed = SizeOf(s, b)
                                              THEN s.chunk[buddy].committed ELSE 0)
<1>1. Tiles(s.chunk, Handed(s)) /\ s.chunk[b].committed \in Nat
  BY TiledChunk
<1>2. EnlargeSpec(s, b)
  BY <1>1, EnlargeShape
<1>3. Tiles(t.chunk, Handed(s))
  BY <1>1, EnlargeTiles
<1>4. /\ DOMAIN t.chunk = DOMAIN s.chunk \ {buddy}
      /\ t.chunk[b].committed = CommitLine(line, l - 1)
      /\ \A a \in DOMAIN s.chunk \ {buddy} : a # b => t.chunk[a] = s.chunk[a]
      /\ t.nodes = s.nodes /\ t.used = s.used /\ t.mask = s.mask /\ t.reserved = s.reserved
  BY <1>2 DEF EnlargeSpec
<1>5. t.chunk[b].committed >= 0
  <2>1. l - 1 \in Levels /\ buddy \in DOMAIN s.chunk
    BY <1>1, ClaimedBuddy
  <2>2. s.chunk[buddy].committed \in Nat
    BY <2>1, TiledChunk
  <2>3. line \in Nat
    BY <1>1, <2>2
  <2> QED
    BY <1>4, <2>1, <2>3, CommitLineBounds
<1>6. Lines(t.chunk)
  <2> HIDE DEF t, buddy
  <2> QED
    BY <1>4, <1>5 DEF Tiled, Lines
<1>7. Tiled(t)
  <2>1. t.mask \subseteq LiveGranules(s)
    BY <1>4 DEF Tiled
  <2> HIDE DEF t
  <2> QED
    BY <1>3, <1>4, <1>6, <2>1, SameNodes
<1> QED
  BY <1>2, <1>7, EnlargeAccounts

-----------------------------------------------------------------------------
(* Free buddies are merged.                                                *)

Mergeable(s, a) ==
  LET l == s.chunk[a].level IN IsFree(s, a) /\ l # RootLevel /\ Joins(s, a, l)

\* No two free chunks are buddies, but for the chunks of X.
Merged(s, X) ==
  \A a \in DOMAIN s.chunk :
    Mergeable(s, a) => a \in X \/ Buddy(a, s.chunk[a].level) \in X

\* An operation that leaves the other chunks alone cannot make buddies of them.
LEMMA OthersMerged ==
  ASSUME NEW s, NEW X, Merged(s, X), NEW t, NEW Y, X \subseteq Y,
         \A a \in DOMAIN t.chunk \ Y : /\ a \in DOMAIN s.chunk
                                       /\ t.chunk[a].level = s.chunk[a].level
                                       /\ t.chunk[a].state = s.chunk[a].state
  PROVE  Merged(t, Y)
<1> SUFFICES ASSUME NEW a \in DOMAIN t.chunk, Mergeable(t, a), a \notin Y,
                    Buddy(a, t.chunk[a].level) \notin Y
             PROVE  FALSE
  BY DEF Merged
<1> DEFINE l == t.chunk[a].level
           c == Buddy(a, l)
<1>1. /\ t.chunk[a].state = "free" /\ l # RootLevel
      /\ c \in DOMAIN t.chunk /\ t.chunk[c].level = l /\ t.chunk[c].state = "free"
  BY DEF Mergeable, Joins, IsChunk, IsFree
<1>2. /\ a \in DOMAIN s.chunk /\ s.chunk[a].level = l /\ s.chunk[a].state = "free"
      /\ c \in DOMAIN s.chunk /\ s.chunk[c].level = l /\ s.chunk[c].state = "free"
  BY <1>1
<1>3. Mergeable(s, a)
  BY <1>1, <1>2 DEF Mergeable, Joins, IsChunk, IsFree
<1> QED
  BY <1>2, <1>3 DEF Merged

\* Being buddies is mutual.
LEMMA BuddiesMutual ==
  ASSUME NEW f, NEW H, Tiles(f, H), NEW a \in DOMAIN f, f[a].level # RootLevel
  PROVE  Buddy(Buddy(a, f[a].level), f[a].level) = a
BY ChunkOfTiling, BuddyOfBuddy

\* With b in use, or no pair around it, nothing is exempt.
LEMMA NoneExempt ==
  ASSUME NEW s, NEW H, Tiles(s.chunk, H), NEW b, Merged(s, {b}),
         b \in DOMAIN s.chunk => ~Mergeable(s, b)
  PROVE  Merged(s, {})
<1> SUFFICES ASSUME NEW a \in DOMAIN s.chunk, Mergeable(s, a)
             PROVE  FALSE
  BY DEF Merged
<1> DEFINE l == s.chunk[a].level
           c == Buddy(a, l)
<1>1. a = b \/ c = b
  BY DEF Merged
<1>2. /\ s.chunk[a].state = "free" /\ l # RootLevel
      /\ c \in DOMAIN s.chunk /\ s.chunk[c].level = l /\ s.chunk[c].state = "free"
  BY DEF Mergeable, Joins, IsChunk, IsFree
<1>3. Buddy(c, l) = a
  BY <1>2, BuddiesMutual
<1>4. Mergeable(s, c)
  BY <1>2, <1>3 DEF Mergeable, Joins, IsChunk, IsFree
<1> QED
  BY <1>1, <1>2, <1>4

\* A change of a chunk in place affects no pair but its own.
LEMMA ChangeMerged ==
  ASSUME NEW s, NEW b, Merged(s, {b}), NEW t, ChangeSpec(s, t, b)
  PROVE  Merged(t, {b})
BY OthersMerged DEF ChangeSpec

\* A change of a chunk that keeps its state.
LEMMA SameStateMerged ==
  ASSUME NEW s, NEW X, Merged(s, X), NEW t, NEW b \in DOMAIN s.chunk, ChangeSpec(s, t, b),
         t.chunk[b].state = s.chunk[b].state
  PROVE  Merged(t, X)
<1>1. \A a \in DOMAIN t.chunk \ X : /\ a \in DOMAIN s.chunk
                                    /\ t.chunk[a].level = s.chunk[a].level
                                    /\ t.chunk[a].state = s.chunk[a].state
  <2> SUFFICES ASSUME NEW a \in DOMAIN t.chunk
               PROVE  /\ a \in DOMAIN s.chunk
                      /\ t.chunk[a].level = s.chunk[a].level
                      /\ t.chunk[a].state = s.chunk[a].state
    OBVIOUS
  <2>1. CASE a = b
    BY <2>1 DEF ChangeSpec
  <2>2. CASE a # b
    BY <2>2 DEF ChangeSpec
  <2> QED
    BY <2>1, <2>2
<1> QED
  BY <1>1, OthersMerged

\* The chunks that splitting adds are no buddies of each other or of others:
\* each is the buddy of the part that was split further.
LEMMA SplitMerged ==
  ASSUME NEW s, NEW other \in Int, Accounts(s, other), Tiled(s), NEW b \in DOMAIN s.chunk,
         Merged(s, {b}), NEW target \in Levels, s.chunk[b].level <= target
  PROVE  Merged(Split(s, b, target), {b})
<1> DEFINE t      == Split(s, b, target)
           pieces == Pieces(s, b, target)
           l      == s.chunk[b].level
<1>1. SplitSpec(s, b, target) /\ Tiled(t)
  BY SplitTiled
<1>2. /\ DOMAIN t.chunk = DOMAIN s.chunk \cup pieces
      /\ \A a \in DOMAIN s.chunk : a # b => t.chunk[a] = s.chunk[a]
      /\ \A k \in Cuts(s, b, target) : t.chunk[b + WordSize[k]].level = k
  BY <1>1 DEF SplitSpec
<1>3. Merged(t, {b} \cup pieces)
  <2> HIDE DEF t, pieces
  <2> QED
    BY <1>2, OthersMerged
<1>4. \A p \in pieces : p \in DOMAIN t.chunk /\ Buddy(p, t.chunk[p].level) = b
  <2> SUFFICES ASSUME NEW k \in Cuts(s, b, target)
               PROVE  Buddy(b + WordSize[k], k) = b
    BY <1>2 DEF Pieces
  <2>1. b \in Nat /\ l \in Levels /\ Block(b, l) = b
    BY TiledChunk
  <2>2. k \in Levels /\ l < k /\ k # RootLevel
    <3>1. l \in Nat /\ (l + 1)..target \subseteq Levels
      BY <2>1, LevelRanges
    <3> QED
      BY <3>1 DEF Cuts, RootLevel
  <2>3. Block(b, k) = b /\ Buddy(b, k) = b + WordSize[k]
    BY <2>1, <2>2, BuddyOfCut
  <2>4. Buddy(Buddy(b, k), k) = Block(b, k)
    BY <2>1, <2>2, BuddyOfBuddy
  <2> QED
    BY <2>3, <2>4
<1>5. ASSUME NEW a \in DOMAIN t.chunk, Mergeable(t, a)
      PROVE  a = b \/ Buddy(a, t.chunk[a].level) = b
  <2> DEFINE c == Buddy(a, t.chunk[a].level)
  <2>1. CASE a \in pieces
    BY <1>4, <2>1
  <2>2. CASE c \in pieces
    <3>1. t.chunk[a].level # RootLevel /\ t.chunk[c].level = t.chunk[a].level
      BY <1>5 DEF Mergeable, Joins, IsChunk
    <3>2. Tiles(t.chunk, Handed(t))
      BY <1>1 DEF Tiled
    <3>3. Buddy(c, t.chunk[a].level) = a
      <4> HIDE DEF t
      <4> QED
        BY <3>1, <3>2, BuddiesMutual
    <3> HIDE DEF t, c
    <3> QED
      BY <1>4, <2>2, <3>1, <3>3
  <2>3. a \in {b} \cup pieces \/ c \in {b} \cup pieces
    BY <1>3, <1>5 DEF Merged
  <2> QED
    BY <2>1, <2>2, <2>3
<1> QED
  BY <1>5 DEF Merged

\* Merging stops only where there is no free buddy.
LEMMA MergeMerged ==
  ASSUME NEW s, NEW other \in Int, Accounts(s, other), Tiled(s), NEW b \in DOMAIN s.chunk,
         Merged(s, {b})
  PROVE  Merged(MergeAll(s, b), {})
<1> DEFINE t    == MergeAll(s, b)
           m    == MergeLevel(s, b)
           base == Base(s, b)
<1>1. /\ Tiled(t) /\ MergeSpec(s, b)
      /\ base \in DOMAIN t.chunk /\ base \notin DOMAIN s.chunk \ Parts(s, b)
  BY MergeTiled
<1>2. /\ DOMAIN t.chunk = (DOMAIN s.chunk \ Parts(s, b)) \cup {base}
      /\ t.chunk[base].level = m
      /\ \A a \in DOMAIN s.chunk \ Parts(s, b) : a # base => t.chunk[a] = s.chunk[a]
  BY <1>1 DEF MergeSpec
<1>3. b \in Nat /\ m \in Levels /\ b \in Parts(s, b)
  BY TiledChunk, PartsBounds DEF Parts
<1>4. Merged(t, {b, base})
  <2> HIDE DEF t, base
  <2> QED
    BY <1>2, OthersMerged
<1>5. Merged(t, {base})
  <2> SUFFICES ASSUME NEW a \in DOMAIN t.chunk, Mergeable(t, a), a # base,
                      Buddy(a, t.chunk[a].level) # base
               PROVE  FALSE
    BY DEF Merged
  <2>1. a \in {b, base} \/ Buddy(a, t.chunk[a].level) \in {b, base}
    BY <1>4 DEF Merged
  <2>2. Buddy(a, t.chunk[a].level) \in DOMAIN t.chunk
    BY DEF Mergeable, Joins, IsChunk
  <2> HIDE DEF t, base
  <2> QED
    BY <1>2, <1>3, <2>1, <2>2
<1>6. ASSUME Mergeable(t, base)
      PROVE  FALSE
  <2> DEFINE c == Buddy(base, m)
  <2>1. /\ m # RootLevel /\ c \in DOMAIN t.chunk
        /\ t.chunk[c].level = m /\ t.chunk[c].state = "free"
    BY <1>2, <1>6 DEF Mergeable, Joins, IsChunk, IsFree
  <2>2. c = Buddy(b, m)
    BY <1>3, <2>1, BuddyOfBlock DEF Base
  <2>3. c # base
    <3>1. Buddy(b, m) # Block(b, m)
      BY <1>3, <2>1, BuddyOfBuddy
    <3> QED
      BY <2>2, <3>1 DEF Base
  <2>4. c \in DOMAIN s.chunk /\ s.chunk[c] = t.chunk[c]
    <3> HIDE DEF t, base, c
    <3> QED
      BY <1>2, <2>1, <2>3
  <2>5. Joins(s, b, m)
    BY <2>1, <2>2, <2>4 DEF Joins, IsChunk, IsFree
  <2> QED
    BY <2>1, <2>5, MergeLevelReached
<1>7. Tiles(t.chunk, Handed(t))
  BY <1>1 DEF Tiled
<1> HIDE DEF t, base
<1>8. Merged(t, {})
  BY <1>5, <1>6, <1>7, NoneExempt
<1> QED
  BY <1>8 DEF t

\* A chunk in use that claims its free buddy leaves no pair behind.
LEMMA EnlargeMerged ==
  ASSUME NEW s, NEW other \in Int, Accounts(s, other), Tiled(s), NEW b \in DOMAIN s.chunk,
         CanEnlarge(s, b), Merged(s, {}), s.chunk[b].state = "inuse"
  PROVE  Merged(Enlarge(s, b), {})
<1> DEFINE t == Enlarge(s, b)
<1>1. EnlargeSpec(s, b) /\ Tiled(t)
  BY EnlargeTiled
<1>2. /\ t.chunk[b].state = "inuse" /\ DOMAIN t.chunk \subseteq DOMAIN s.chunk
      /\ \A a \in DOMAIN t.chunk : a # b => t.chunk[a] = s.chunk[a]
  BY <1>1 DEF EnlargeSpec
<1>3. Tiles(t.chunk, Handed(t))
  BY <1>1 DEF Tiled
<1> HIDE DEF t
<1>4. Merged(t, {b})
  BY <1>2, OthersMerged
<1>5. ~Mergeable(t, b)
  BY <1>2 DEF Mergeable, IsFree
<1>6. Merged(t, {})
  BY <1>3, <1>4, <1>5, NoneExempt
<1> QED
  BY <1>6 DEF t

-----------------------------------------------------------------------------
(* Operations on the context.                                              *)

Sound(s, X) == Tiled(s) /\ Merged(s, X)

\* Lists play no part in either.
LEMMA ListSound ==
  ASSUME NEW s, NEW other \in Int, Accounts(s, other), NEW X, Sound(s, X), NEW b
  PROVE  Sound(Enlist(s, b), X) /\ Sound(Delist(s, b), X)
<1>1. Tiled(Enlist(s, b)) /\ Tiled(Delist(s, b))
  BY ListTiled DEF Sound
<1>2. Enlist(s, b).chunk = s.chunk /\ Delist(s, b).chunk = s.chunk
  BY ListAccounts
<1>3. Merged(Enlist(s, b), X) /\ Merged(Delist(s, b), X)
  BY <1>2 DEF Sound, Merged, Mergeable, IsFree, Joins, IsChunk
<1> QED
  BY <1>1, <1>3 DEF Sound

\* return_chunk: whatever was exempt, afterwards nothing is.
LEMMA ReturnChunkSound ==
  ASSUME NEW s, NEW other \in Int, Accounts(s, other), NEW b \in DOMAIN s.chunk, Sound(s, {b})
  PROVE  Accounts(ReturnChunk(s, b), other) /\ Sound(ReturnChunk(s, b), {})
<1> DEFINE freed  == SetFree(s, b)
           m      == MergeLevel(freed, b)
           base   == Block(b, m)
           merged == MergeAll(freed, b)
           lean   == IF UncommitFreeChunks /\ WordSize[m] >= GranuleWords
                       THEN Uncommit(merged, base) ELSE merged
<1>1. /\ Accounts(freed, other) /\ Tiled(freed) /\ ChangeSpec(s, freed, b)
  BY SetFreeTiled DEF Sound
<1>2. b \in DOMAIN freed.chunk /\ Merged(freed, {b})
  BY <1>1, ChangeMerged DEF Sound, ChangeSpec
<1> HIDE DEF freed
<1>3. Accounts(merged, other) /\ Tiled(merged) /\ base \in DOMAIN merged.chunk
  BY <1>1, <1>2, MergeTiled DEF Base
<1>4. Merged(merged, {})
  BY <1>1, <1>2, MergeMerged
<1> HIDE DEF merged, base
<1>5. Accounts(lean, other) /\ Sound(lean, {})
  <2> DEFINE v == Uncommit(merged, base)
  <2>1. /\ Accounts(v, other) /\ Tiled(v) /\ ChangeSpec(merged, v, base)
        /\ v.chunk[base].state = merged.chunk[base].state
    BY <1>3, UncommitTiled
  <2> HIDE DEF v
  <2>2. Merged(v, {})
    BY <1>3, <1>4, <2>1, SameStateMerged
  <2>3. lean = v \/ lean = merged
    BY DEF v
  <2> HIDE DEF lean
  <2> QED
    BY <1>3, <1>4, <2>1, <2>2, <2>3 DEF Sound
<1>6. ReturnChunk(s, b) = Enlist(lean, base)
  BY DEF ReturnChunk, freed, merged, base
<1> HIDE DEF lean
<1>7. Sound(Enlist(lean, base), {})
  BY <1>5, ListSound
<1> QED
  BY <1>6, <1>7, ReturnChunkAccounts

\* get_chunk, once it has found a chunk.
LEMMA HandOutSound ==
  ASSUME NEW s, NEW other \in Int, Accounts(s, other), NEW b \in DOMAIN s.chunk, Sound(s, {b}),
         NEW r \in LegalRequests
  PROVE  Sound(HandOut(s, b, r), {})
<1> DEFINE t    == Cut(s, b, r)
           want == ToCommit(t, b, r)
           full == IF Short(t, b, r) THEN CommitUpTo(t, b, want) ELSE t
           took == [full EXCEPT !.chunk[b].state = "inuse"]
           back == [t EXCEPT !.chunk[b].state = "inuse"]
<1>1. r.pref \in Levels /\ r.min \in Nat
  BY RequestFacts
<1>2. Accounts(t, other) /\ b \in DOMAIN t.chunk /\ Sound(t, {b})
  <2>1. CASE s.chunk[b].level < r.pref
    <3>1. s.chunk[b].level <= r.pref
      <4>1. s.chunk[b].level \in Nat /\ r.pref \in Nat
        BY <1>1, ChunkOf, LevelRanges
      <4> QED
        BY <2>1, <4>1
    <3> DEFINE u == Split(s, b, r.pref)
    <3>2. Accounts(u, other) /\ b \in DOMAIN u.chunk
      BY <1>1, SplitAccounts
    <3>3. Tiled(u) /\ Merged(u, {b})
      BY <1>1, <3>1, SplitTiled, SplitMerged DEF Sound
    <3>4. t = u
      BY <2>1 DEF Cut
    <3> QED
      BY <3>2, <3>3, <3>4 DEF Sound
  <2>2. CASE ~(s.chunk[b].level < r.pref)
    BY <2>2 DEF Cut
  <2> QED
    BY <2>1, <2>2
<1> HIDE DEF t
<1>3. want \in Nat
  BY <1>1, <1>2, ChunkOf DEF ToCommit
<1>4. CASE Serves(s, b, r)
  <2>1. Short(t, b, r) => CanCommit(t, b, want)
    BY <1>4 DEF Serves, t
  <2>2. Accounts(full, other) /\ Sound(full, {b}) /\ b \in DOMAIN full.chunk
    <3>1. CASE Short(t, b, r)
      <4> DEFINE u == CommitUpTo(t, b, want)
      <4>1. /\ Accounts(u, other) /\ Tiled(u) /\ ChangeSpec(t, u, b)
        <5> HIDE DEF want
        <5> QED
          BY <1>2, <1>3, <2>1, <3>1, CommitTiled DEF Sound
      <4> HIDE DEF u
      <4>2. Merged(u, {b}) /\ b \in DOMAIN u.chunk
        BY <1>2, <4>1, ChangeMerged DEF Sound, ChangeSpec
      <4>3. full = u
        BY <3>1 DEF u
      <4> QED
        BY <4>1, <4>2, <4>3 DEF Sound
    <3>2. CASE ~Short(t, b, r)
      BY <1>2, <3>2
    <3> QED
      BY <3>1, <3>2
  <2>3. HandOut(s, b, r) = took
    BY <1>4 DEF HandOut, t
  <2> HIDE DEF full
  <2>4. Tiled(took) /\ ChangeSpec(full, took, b) /\ took.chunk[b].state = "inuse"
    BY <2>2, TakeTiled DEF Sound
  <2> HIDE DEF took
  <2>5. Merged(took, {b})
    BY <2>2, <2>4, ChangeMerged DEF Sound
  <2>6. Merged(took, {})
    <3>1. ~Mergeable(took, b)
      BY <2>4 DEF Mergeable, IsFree
    <3>2. Tiles(took.chunk, Handed(took))
      BY <2>4 DEF Tiled
    <3> QED
      BY <2>5, <3>1, <3>2, NoneExempt
  <2> QED
    BY <2>3, <2>4, <2>6 DEF Sound
<1>5. CASE ~Serves(s, b, r)
  <2>1. /\ Accounts(back, other) /\ Tiled(back) /\ ChangeSpec(t, back, b)
    BY <1>2, TakeTiled DEF Sound
  <2>2. HandOut(s, b, r) = ReturnChunk(back, b)
    BY <1>5 DEF HandOut, t
  <2> HIDE DEF back
  <2>3. Sound(back, {b}) /\ b \in DOMAIN back.chunk
    BY <1>2, <2>1, ChangeMerged DEF Sound, ChangeSpec
  <2> QED
    BY <2>1, <2>2, <2>3, ReturnChunkSound
<1> QED
  BY <1>4, <1>5

\* An element put before a list.
LEMMA FrontFacts ==
  ASSUME NEW X, NEW list \in Seq(X), NEW x \in X
  PROVE  LET q == <<x>> \o list IN
         /\ q \in Seq(X) /\ Len(q) = Len(list) + 1 /\ q # <<>> /\ Head(q) = x
         /\ q[1] = x /\ \A i \in 2..Len(q) : i - 1 \in 1..Len(list) /\ q[i] = list[i - 1]
         /\ Range(q) = {x} \cup Range(list)
         /\ IsInjective(list) /\ x \notin Range(list) => IsInjective(q)
<1> DEFINE q == <<x>> \o list
           n == Len(list)
<1>1. n \in Nat /\ DOMAIN list = 1..n /\ <<x>> \in Seq(X) /\ Len(<<x>>) = 1
  OBVIOUS
<1>2. q \in Seq(X) /\ Len(q) = n + 1
  BY <1>1, ConcatProperties
<1>3. q[1] = x /\ \A i \in 2..(n + 1) : i - 1 \in 1..n /\ q[i] = list[i - 1]
  <2>1. q[1] = <<x>>[1]
    BY <1>1, ConcatProperties
  <2>2. ASSUME NEW i \in 2..(n + 1)
        PROVE  i - 1 \in 1..n /\ q[i] = list[i - 1]
    BY <1>1, <2>2, ConcatProperties
  <2> QED
    BY <2>1, <2>2
<1>4. DOMAIN q = 1..(n + 1)
  <2> HIDE DEF q
  <2> QED
    BY <1>2
<1> HIDE DEF q, n
<1>5. q # <<>> /\ Head(q) = x
  BY <1>1, <1>2, <1>3
<1>6. Range(q) = {x} \cup Range(list)
  <2>1. \A i \in 1..(n + 1) : i = 1 \/ i \in 2..(n + 1)
    BY <1>1
  <2>2. \A j \in 1..n : j + 1 \in 2..(n + 1) /\ q[j + 1] = list[j]
    <3> SUFFICES ASSUME NEW j \in 1..n
                 PROVE  j + 1 \in 2..(n + 1) /\ q[j + 1] = list[j]
      OBVIOUS
    <3>1. j + 1 \in 2..(n + 1) /\ (j + 1) - 1 = j
      BY <1>1
    <3> QED
      BY <1>3, <3>1
  <2>3. \A j \in 1..n : j + 1 \in 1..(n + 1)
    BY <1>1
  <2>4. 1 \in 1..(n + 1)
    BY <1>1
  <2>5. \A y \in Range(q) : y \in {x} \cup Range(list)
    BY <1>1, <1>3, <1>4, <2>1 DEF Range
  <2>6. \A y \in Range(list) : y \in Range(q)
    BY <1>1, <1>4, <2>2, <2>3 DEF Range
  <2>7. x \in Range(q)
    BY <1>3, <1>4, <2>4 DEF Range
  <2> QED
    BY <2>5, <2>6, <2>7
<1>7. ASSUME IsInjective(list), x \notin Range(list)
      PROVE  IsInjective(q)
  <2> SUFFICES ASSUME NEW i \in 1..(n + 1), NEW j \in 1..(n + 1), q[i] = q[j]
               PROVE  i = j
    BY <1>4 DEF IsInjective
  <2>1. CASE i = 1 /\ j = 1
    BY <2>1
  <2>2. CASE i \in 2..(n + 1) /\ j = 1
    BY <1>1, <1>3, <1>7, <2>2 DEF Range
  <2>3. CASE i = 1 /\ j \in 2..(n + 1)
    BY <1>1, <1>3, <1>7, <2>3 DEF Range
  <2>4. CASE i \in 2..(n + 1) /\ j \in 2..(n + 1)
    <3>1. i - 1 = j - 1
      BY <1>1, <1>3, <1>7, <2>4 DEF IsInjective
    <3> QED
      BY <1>1, <3>1
  <2> QED
    BY <1>1, <2>1, <2>2, <2>3, <2>4
<1> QED
  BY <1>2, <1>3, <1>5, <1>6, <1>7 DEF q, n

\* A new node hands out nothing yet.
LEMMA NewNodeSound ==
  ASSUME NEW s, NEW other \in Int, Accounts(s, other), Sound(s, {}),
         NEW n \in Unreserved(s), HeadIsFull(s)
  PROVE  LET t == NewNode(s, n) IN
         Accounts(t, other) /\ Sound(t, {}) /\ ~HeadIsFull(t)
<1> DEFINE t == NewNode(s, n)
           q == <<n>> \o s.nodes
<1>1. /\ t.chunk = s.chunk /\ t.nodes = q /\ t.used = [s.used EXCEPT ![n] = 0]
      /\ t.mask = s.mask /\ t.reserved = s.reserved + NodeWords
  BY DEF Accounts, Fields, NewNode
<1>2. NodesSound(s) /\ Tiles(s.chunk, Handed(s)) /\ s.mask \subseteq LiveGranules(s) /\ Lines(s.chunk)
  BY DEF Sound, Tiled
<1>3. /\ s.nodes \in Seq(Nodes) /\ Len(s.nodes) \in Nat /\ n \in Nodes /\ n \notin Range(s.nodes)
      /\ IsInjective(s.nodes)
  BY <1>2 DEF NodesSound, Unreserved
<1>4. /\ q \in Seq(Nodes) /\ Len(q) = Len(s.nodes) + 1 /\ q # <<>> /\ Head(q) = n
      /\ Range(q) = {n} \cup Range(s.nodes) /\ IsInjective(q)
      /\ \A i \in 2..Len(q) : i - 1 \in 1..Len(s.nodes) /\ q[i] = s.nodes[i - 1]
  BY <1>3, FrontFacts
<1>5. \A m \in Nodes : t.used[m] = IF m = n THEN 0 ELSE s.used[m]
  <2>1. n \in DOMAIN s.used /\ DOMAIN s.used = Nodes
    BY <1>2, <1>3 DEF NodesSound
  <2> HIDE DEF t, q
  <2> QED
    BY <1>1, <2>1
<1>6. t.used \in [Nodes -> Int]
  <2>1. s.used \in [Nodes -> Int] /\ n \in Nodes /\ t.used = [s.used EXCEPT ![n] = 0]
    BY <1>1, <1>2, <1>3 DEF NodesSound
  <2> HIDE DEF t, q
  <2> QED
    BY <2>1
<1>7. NodeWords \in Nat \ {0}
  BY NodeSize
<1> HIDE DEF t, q
<1>8. ASSUME NEW i \in 2..Len(q)
      PROVE  t.used[q[i]] = NodeWords
  <2>1. i - 1 \in 1..Len(s.nodes) /\ q[i] = s.nodes[i - 1] /\ s.nodes # <<>>
    BY <1>3, <1>4
  <2>2. q[i] \in Range(s.nodes) /\ q[i] \in Nodes /\ q[i] # n
    BY <1>3, <2>1 DEF Range
  <2>3. s.used[s.nodes[i - 1]] = NodeWords
    <3>1. CASE i = 2
      BY <1>3, <2>1, <3>1 DEF HeadIsFull
    <3>2. CASE i # 2
      <4>1. i - 1 \in 2..Len(s.nodes)
        BY <1>3, <1>4, <2>1, <3>2
      <4> QED
        BY <1>2, <4>1 DEF NodesSound
    <3> QED
      BY <3>1, <3>2
  <2> QED
    BY <1>5, <2>1, <2>2, <2>3
<1>9. ASSUME NEW m \in Nodes
      PROVE  t.used[m] <= NodeWords /\ \E i \in Nat : t.used[m] = i * WordSize[RootLevel]
  <2>1. CASE m = n
    <3>1. t.used[m] = 0 /\ 0 * WordSize[RootLevel] = 0 /\ 0 \in Nat
      BY <1>5, <2>1, NodeSize
    <3> QED
      BY <1>7, <3>1
  <2>2. CASE m # n
    BY <1>2, <1>5, <2>2 DEF NodesSound
  <2> QED
    BY <2>1, <2>2
<1>10. t.reserved = NodeWords * Len(q)
  <2>1. s.reserved = NodeWords * Len(s.nodes)
    BY <1>2 DEF NodesSound
  <2>2. NodeWords * (Len(s.nodes) + 1) = NodeWords * Len(s.nodes) + NodeWords
    BY <1>3, <1>7
  <2> QED
    BY <1>1, <1>4, <2>1, <2>2
<1>11. NodesSound(t)
  BY <1>1, <1>4, <1>6, <1>8, <1>9, <1>10 DEF NodesSound
<1>12. Handed(t) = Handed(s)
  <2> SUFFICES ASSUME NEW a \in Addresses
               PROVE  (/\ a \div NodeWords \in Range(q)
                       /\ a % NodeWords < t.used[a \div NodeWords])
                      <=> (/\ a \div NodeWords \in Range(s.nodes)
                           /\ a % NodeWords < s.used[a \div NodeWords])
    BY <1>1 DEF Handed
  <2> DEFINE m == a \div NodeWords
             j == a % NodeWords
  <2>1. j \in Nat
    <3>1. a \in Nat
      BY DEF Addresses
    <3> QED
      BY <3>1, NodeOfWord, <1>7
  <2>2. Range(q) \subseteq Nodes
    BY <1>4 DEF Range
  <2> HIDE DEF m, j
  <2>3. (m \in Range(q) /\ j < t.used[m]) <=> (m \in Range(s.nodes) /\ j < s.used[m])
    <3>1. CASE m = n
      <4>1. t.used[m] = 0
        BY <1>3, <1>5, <3>1
      <4>2. ~(j < 0)
        BY <2>1
      <4> QED
        BY <1>3, <3>1, <4>1, <4>2
    <3>2. CASE m # n
      BY <1>4, <1>5, <2>2, <3>2
    <3> QED
      BY <3>1, <3>2
  <2> QED
    BY <2>3 DEF m, j
<1>13. t.mask \subseteq LiveGranules(t)
  <2>1. LiveGranules(s) \subseteq LiveGranules(t)
    BY <1>1, <1>4 DEF LiveGranules
  <2> QED
    BY <1>1, <1>2, <2>1
<1>14. Merged(t, {})
  BY <1>1 DEF Sound, Merged, Mergeable, IsFree, Joins, IsChunk
<1>15. ~HeadIsFull(t)
  <2>1. t.nodes # <<>> /\ Head(t.nodes) = n /\ t.used[n] = 0
    BY <1>1, <1>3, <1>4, <1>5
  <2> QED
    BY <1>7, <2>1 DEF HeadIsFull
<1>16. Accounts(t, other)
  <2>1. 0 \in Int
    OBVIOUS
  <2> QED
    BY <2>1, NewRootAccounts DEF t
<1>17. Tiled(t)
  BY <1>1, <1>2, <1>11, <1>12, <1>13 DEF Tiled
<1> QED
  BY <1>14, <1>15, <1>16, <1>17 DEF Sound, t

\* A root chunk from the first node lies behind everything handed out there.
LEMMA RootChunkSound ==
  ASSUME NEW s, NEW other \in Int, Accounts(s, other), Sound(s, {}), ~HeadIsFull(s),
         NEW b \in Int, b = NextRoot(s)
  PROVE  LET t == AllocateRootChunk(s, b) IN
         /\ Accounts(t, other) /\ Sound(t, {}) /\ b \in DOMAIN t.chunk
         /\ b \notin DOMAIN s.chunk
<1> DEFINE t == AllocateRootChunk(s, b)
           w == WordSize[RootLevel]
           h == Head(s.nodes)
           u == s.used[h]
           g == [a \in DOMAIN s.chunk \cup {b} |->
                   IF a = b THEN FreshChunk(RootLevel) ELSE s.chunk[a]]
<1>1. /\ t.chunk = g /\ t.nodes = s.nodes /\ t.used = [s.used EXCEPT ![h] = @ + w]
      /\ t.mask = s.mask /\ t.reserved = s.reserved
  BY DEF Accounts, Fields, AllocateRootChunk
<1>2. NodesSound(s) /\ Tiles(s.chunk, Handed(s)) /\ s.mask \subseteq LiveGranules(s) /\ Lines(s.chunk)
  BY DEF Sound, Tiled
<1>3. /\ s.nodes \in Seq(Nodes) /\ s.nodes # <<>> /\ h \in Nodes /\ h \in Range(s.nodes)
      /\ Len(s.nodes) \in Nat /\ IsInjective(s.nodes) /\ h = s.nodes[1] /\ 1 \in 1..Len(s.nodes)
      /\ u # NodeWords
  <2>1. s.nodes \in Seq(Nodes) /\ s.nodes # <<>> /\ u # NodeWords /\ IsInjective(s.nodes)
    BY <1>2 DEF NodesSound, HeadIsFull
  <2>2. h = s.nodes[1] /\ 1 \in 1..Len(s.nodes) /\ Len(s.nodes) \in Nat
    BY <2>1
  <2> QED
    BY <2>1, <2>2 DEF Range
<1>4. PICK i \in Nat : u = i * w
  BY <1>2, <1>3 DEF NodesSound
<1>5. /\ w \in Nat \ {0} /\ NodeWords \in Nat \ {0} /\ u \in Nat /\ u < NodeWords
      /\ RootLevel \in Levels
  <2>1. w \in Nat \ {0} /\ NodeWords \in Nat \ {0} /\ u <= NodeWords
    BY <1>2, <1>3, NodeSize DEF NodesSound
  <2> HIDE DEF w, u
  <2>2. u \in Nat
    BY <1>4, <2>1
  <2> QED
    BY <1>3, <2>1, <2>2, NodeSize
<1>6. b = h * NodeWords + i * w
  BY <1>4 DEF NextRoot
<1>7. /\ b \in Nat /\ Block(b, RootLevel) = b /\ u + w = (i + 1) * w /\ u + w <= NodeWords
      /\ Words(b, w) \subseteq Addresses
      /\ \A a \in Nat : a \in Words(b, w) <=>
           a \div NodeWords = h /\ u <= a % NodeWords /\ a % NodeWords < u + w
  <2>1. i * WordSize[RootLevel] < NodeWords
    BY <1>4, <1>5
  <2> HIDE DEF h, u
  <2> QED
    BY <1>3, <1>4, <1>6, <2>1, NextRootChunk
<1>8. Accounts(t, other) /\ b \in DOMAIN t.chunk
  BY NewRootAccounts
<1>9. \A m \in Nodes : t.used[m] = IF m = h THEN u + w ELSE s.used[m]
  <2>1. h \in DOMAIN s.used /\ DOMAIN s.used = Nodes
    BY <1>2, <1>3 DEF NodesSound
  <2> HIDE DEF t, h, w
  <2> QED
    BY <1>1, <2>1
<1>10. t.used \in [Nodes -> Int]
  <2>1. /\ s.used \in [Nodes -> Int] /\ t.used = [s.used EXCEPT ![h] = u + w]
        /\ u + w \in Int
    BY <1>1, <1>2, <1>5 DEF NodesSound
  <2> HIDE DEF t, h, w, u
  <2> QED
    BY <2>1
<1>11. b \notin DOMAIN s.chunk
  <2>1. b \in Words(b, w)
    BY <1>5, <1>7 DEF Words
  <2>2. b \notin Handed(s)
    <3>1. b \div NodeWords = h /\ u <= b % NodeWords /\ b % NodeWords \in Int
      BY <1>5, <1>7, <2>1, NodeOfWord
    <3> HIDE DEF h
    <3> QED
      BY <1>5, <3>1 DEF Handed, u
  <2>3. \A a \in DOMAIN s.chunk : a \in Handed(s)
    BY <1>2, ChunkOfTiling
  <2> QED
    BY <2>2, <2>3
<1>12. /\ DOMAIN g = DOMAIN s.chunk \cup {b} /\ g[b].level = RootLevel /\ g[b].committed = 0
       /\ \A a \in DOMAIN s.chunk : g[a] = s.chunk[a]
  <2>1. FreshChunk(RootLevel).level = RootLevel /\ FreshChunk(RootLevel).committed = 0
    BY DEF FreshChunk
  <2>2. g[b] = FreshChunk(RootLevel) /\ \A a \in DOMAIN s.chunk : g[a] = s.chunk[a]
    BY <1>11
  <2> HIDE DEF g
  <2> QED
    BY <2>1, <2>2 DEF g
<1>13. ChunkMap(g)
  BY <1>1, <1>8 DEF Accounts
<1> HIDE DEF t, g
<1>14. Extent(g, b) = Words(b, w)
  BY <1>12 DEF Extent
<1>15. Handed(t) = Handed(s) \cup Extent(g, b)
  <2> SUFFICES ASSUME NEW a \in Addresses
               PROVE  a \in Handed(t) <=> a \in Handed(s) \/ a \in Words(b, w)
    BY <1>7, <1>14 DEF Handed
  <2> DEFINE m == a \div NodeWords
             j == a % NodeWords
  <2>1. a \in Nat /\ j \in Nat
    <3>1. a \in Nat
      BY DEF Addresses
    <3> QED
      BY <1>5, <3>1, NodeOfWord
  <2>2. Range(s.nodes) \subseteq Nodes
    BY <1>3 DEF Range
  <2>3. /\ a \in Handed(t) <=> m \in Range(s.nodes) /\ j < t.used[m]
        /\ a \in Handed(s) <=> m \in Range(s.nodes) /\ j < s.used[m]
    BY <1>1 DEF Handed
  <2>4. a \in Words(b, w) <=> m = h /\ u <= j /\ j < u + w
    BY <1>7, <2>1
  <2>5. s.used[h] = u
    OBVIOUS
  <2> HIDE DEF m, j, h, u, w
  <2>6. CASE m = h
    BY <1>3, <1>5, <1>9, <2>1, <2>3, <2>4, <2>5, <2>6
  <2>7. CASE m # h
    BY <1>9, <2>2, <2>3, <2>4, <2>7
  <2> QED
    BY <2>6, <2>7
<1>16. Extent(g, b) \cap Handed(s) = {}
  <2> SUFFICES ASSUME NEW a \in Words(b, w), a \in Handed(s)
               PROVE  FALSE
    BY <1>14
  <2>1. a \in Nat
    BY <1>5, <1>7 DEF Words
  <2>2. a \div NodeWords = h /\ u <= a % NodeWords /\ a % NodeWords \in Int
    BY <1>5, <1>7, <2>1, NodeOfWord
  <2>3. a % NodeWords < s.used[a \div NodeWords]
    BY DEF Handed
  <2> HIDE DEF h
  <2> QED
    BY <1>5, <2>2, <2>3 DEF u
<1>17. Tiles(g, Handed(t))
  <2>1. b = Block(b, g[b].level)
    BY <1>7, <1>12
  <2>2. Tiles(g, Handed(s) \cup Extent(g, b))
    BY <1>2, <1>7, <1>12, <1>13, <1>16, <2>1, AddTile
  <2> QED
    BY <1>15, <2>2
<1>18. Lines(g)
  BY <1>2, <1>12 DEF Lines
<1>19. NodesSound(t)
  <2>1. ASSUME NEW m \in Nodes
        PROVE  t.used[m] <= NodeWords /\ \E k \in Nat : t.used[m] = k * w
    <3>1. CASE m = h
      <4>1. t.used[m] = (i + 1) * w /\ i + 1 \in Nat /\ t.used[m] <= NodeWords
        BY <1>7, <1>9, <3>1
      <4> QED
        BY <4>1
    <3>2. CASE m # h
      BY <1>2, <1>9, <3>2 DEF NodesSound
    <3> QED
      BY <3>1, <3>2
  <2>2. ASSUME NEW k \in 2..Len(s.nodes)
        PROVE  t.used[s.nodes[k]] = NodeWords
    <3>1. k \in 1..Len(s.nodes) /\ k # 1 /\ DOMAIN s.nodes = 1..Len(s.nodes)
      BY <1>3
    <3>2. s.nodes[k] # h /\ s.nodes[k] \in Nodes
      <4> HIDE DEF h
      <4> QED
        BY <1>3, <3>1 DEF IsInjective
    <3> QED
      BY <1>2, <1>9, <3>2 DEF NodesSound
  <2> HIDE DEF w
  <2> QED
    BY <1>1, <1>2, <1>10, <2>1, <2>2 DEF NodesSound, w
<1>20. t.mask \subseteq LiveGranules(t)
  BY <1>1, <1>2 DEF LiveGranules
<1>21. Tiled(t)
  BY <1>1, <1>17, <1>18, <1>19, <1>20 DEF Tiled
<1>22. Merged(t, {})
  <2>1. Merged(t, {b})
    <3>1. Merged(s, {b})
      BY DEF Sound, Merged
    <3> QED
      BY <1>1, <1>12, <3>1, OthersMerged
  <2>2. ~Mergeable(t, b)
    BY <1>1, <1>12 DEF Mergeable
  <2> QED
    BY <1>1, <1>17, <2>1, <2>2, NoneExempt
<1> QED
  BY <1>8, <1>11, <1>21, <1>22 DEF Sound, t

\* Dropping some members of a list without repetitions shortens it by as many.
LEMMA KeepLength ==
  ASSUME NEW X, NEW list \in Seq(X), IsInjective(list), NEW D, D \subseteq Range(list)
  PROVE  /\ IsFiniteSet(D) /\ Cardinality(D) \in Nat
         /\ Len(Keep(list, X \ D)) = Len(list) - Cardinality(D)
<1> DEFINE n   == Len(list)
           at  == {i \in DOMAIN list : list[i] \in X \ D}
           out == {i \in DOMAIN list : list[i] \in D}
           f   == [i \in out |-> list[i]]
<1>1. n \in Nat /\ DOMAIN list = 1..n /\ \A i \in 1..n : list[i] \in X
  OBVIOUS
<1>2. IsFiniteSet(1..n) /\ Cardinality(1..n) = n
  <2>1. IsFiniteSet(1..n) /\ Cardinality(1..n) = IF 1 > n THEN 0 ELSE n - 1 + 1
    BY <1>1, FS_Interval
  <2> HIDE DEF n
  <2> QED
    BY <1>1, <2>1
<1>3. at = (1..n) \ out /\ (1..n) \cap out = out
  BY <1>1
<1>4. IsFiniteSet(out) /\ Cardinality(out) \in Nat
  <2>1. out \in SUBSET (1..n)
    BY <1>1
  <2> QED
    BY <1>2, <2>1, FS_Subset, FS_CardinalityType
<1>5. f \in Surjection(out, D) /\ f \in Injection(out, D)
  <2>1. f \in [out -> D]
    OBVIOUS
  <2>2. \A x \in D : \E i \in out : f[i] = x
    BY DEF Range
  <2>3. \A i, j \in out : f[i] = f[j] => i = j
    BY DEF IsInjective
  <2> QED
    BY <2>1, <2>2, <2>3 DEF Surjection, Injection, IsInjective
<1>6. IsFiniteSet(D) /\ Cardinality(D) = Cardinality(out)
  <2> HIDE DEF f, out
  <2> QED
    BY <1>4, <1>5, FS_Surjection
<1>7. Cardinality(at) = n - Cardinality(out)
  <2>1. Cardinality((1..n) \ out) = Cardinality(1..n) - Cardinality((1..n) \cap out)
    BY <1>2, FS_Difference
  <2> QED
    BY <1>2, <1>3, <2>1
<1>8. Len(Keep(list, X \ D)) = Cardinality(at)
  BY KeepFacts
<1> QED
  BY <1>4, <1>6, <1>7, <1>8

\* Purging nodes takes whole nodes out, with all that was handed out there.
LEMMA PurgeNodesSound ==
  ASSUME NEW s, NEW other \in Int, Accounts(s, other), Sound(s, {})
  PROVE  Accounts(PurgeNodes(s), other) /\ Sound(PurgeNodes(s), {})
<1> DEFINE t        == PurgeNodes(s)
           dead     == DeadNodes(s)
           gone     == {b \in DOMAIN s.chunk : b \div NodeWords \in dead}
           granules == s.mask \cap UNION {NodeGranules(n) : n \in dead}
           g        == [a \in DOMAIN s.chunk \ gone |-> s.chunk[a]]
           q        == Keep(s.nodes, Nodes \ dead)
<1>1. /\ t.chunk = g /\ t.nodes = q
      /\ t.used = [n \in Nodes |-> IF n \in dead THEN 0 ELSE s.used[n]]
      /\ t.reserved = s.reserved - NodeWords * Cardinality(dead)
      /\ t.mask = s.mask \ granules
  <2> HIDE DEF dead, q
  <2> QED
    BY DEF Accounts, Fields, PurgeNodes, dead, q
<1>2. NodesSound(s) /\ Tiles(s.chunk, Handed(s)) /\ s.mask \subseteq LiveGranules(s) /\ Lines(s.chunk)
  BY DEF Sound, Tiled
<1>3. dead \subseteq Range(s.nodes)
  BY DEF DeadNodes
<1>4. /\ s.nodes \in Seq(Nodes) /\ IsInjective(s.nodes) /\ Len(s.nodes) \in Nat
      /\ Range(s.nodes) \subseteq Nodes
  BY <1>2 DEF NodesSound, Range
<1>5. Accounts(t, other)
  BY PurgeNodesAccounts
<1>6. DOMAIN g = DOMAIN s.chunk \ gone /\ \A a \in DOMAIN g : g[a] = s.chunk[a]
  OBVIOUS
<1> HIDE DEF t, dead, g, q
<1>7. /\ q \in Seq(Nodes) /\ Range(q) = Range(s.nodes) \ dead /\ IsInjective(q)
      /\ Len(q) = Len(s.nodes) - Cardinality(dead) /\ Cardinality(dead) \in Nat
      /\ \A i, j \in 1..Len(q) : i < j =>
           \E k, m \in 1..Len(s.nodes) : k < m /\ q[i] = s.nodes[k] /\ q[j] = s.nodes[m]
  <2>1. /\ q \in Seq(Nodes) /\ Range(q) = Range(s.nodes) \cap (Nodes \ dead)
        /\ IsInjective(s.nodes) => IsInjective(q)
    BY <1>4, KeepFacts DEF q
  <2>2. Len(q) = Len(s.nodes) - Cardinality(dead) /\ Cardinality(dead) \in Nat
    BY <1>3, <1>4, KeepLength DEF q
  <2>3. \A i, j \in 1..Len(q) : i < j =>
           \E k, m \in 1..Len(s.nodes) : k < m /\ q[i] = s.nodes[k] /\ q[j] = s.nodes[m]
    <3>1. InOrder(q, s.nodes)
      BY <1>4, KeepFacts DEF q
    <3> QED
      BY <3>1 DEF InOrder
  <2> QED
    BY <1>4, <2>1, <2>2, <2>3
<1>8. t.reserved = NodeWords * Len(q)
  <2>1. s.reserved = NodeWords * Len(s.nodes) /\ NodeWords \in Nat
    BY <1>2, NodeSize DEF NodesSound
  <2> DEFINE x == Len(s.nodes)
             y == Cardinality(dead)
             z == NodeWords
  <2>2. x \in Nat /\ y \in Nat /\ z \in Nat
    BY <1>4, <1>7, <2>1
  <2>3. t.reserved = z * x - z * y /\ Len(q) = x - y
    BY <1>1, <1>7, <2>1
  <2> HIDE DEF x, y, z
  <2>4. z * (x - y) = z * x - z * y
    BY <2>2
  <2> QED
    BY <2>3, <2>4 DEF z
<1>9. \A n \in Nodes : t.used[n] = IF n \in dead THEN 0 ELSE s.used[n]
  BY <1>1
<1>10. NodesSound(t)
  <2>1. t.used \in [Nodes -> Int]
    BY <1>1, <1>2 DEF NodesSound
  <2>2. ASSUME NEW n \in Nodes
        PROVE  t.used[n] <= NodeWords /\ \E i \in Nat : t.used[n] = i * WordSize[RootLevel]
    <3>1. CASE n \in dead
      <4>1. t.used[n] = 0 /\ 0 * WordSize[RootLevel] = 0 /\ 0 \in Nat /\ 0 <= NodeWords
        BY <1>9, <3>1, NodeSize
      <4> QED
        BY <4>1
    <3>2. CASE n \notin dead
      BY <1>2, <1>9, <3>2 DEF NodesSound
    <3> QED
      BY <3>1, <3>2
  <2>3. ASSUME NEW j \in 2..Len(q)
        PROVE  t.used[q[j]] = NodeWords
    <3>1. Len(q) \in Nat /\ 1 \in 1..Len(q) /\ j \in 1..Len(q) /\ 1 < j /\ DOMAIN q = 1..Len(q)
      BY <1>7
    <3>2. PICK k \in 1..Len(s.nodes), m \in 1..Len(s.nodes) :
            k < m /\ q[1] = s.nodes[k] /\ q[j] = s.nodes[m]
      BY <1>7, <3>1
    <3>3. m \in 2..Len(s.nodes)
      BY <1>4, <3>2
    <3>4. s.used[s.nodes[m]] = NodeWords
      BY <1>2, <3>3 DEF NodesSound
    <3>5. q[j] \in Nodes /\ q[j] \notin dead
      <4>1. q[j] \in Range(q)
        BY <3>1 DEF Range
      <4> QED
        BY <1>4, <1>7, <4>1
    <3> QED
      BY <1>9, <3>2, <3>4, <3>5
  <2> QED
    BY <1>1, <1>7, <1>8, <2>1, <2>2, <2>3 DEF NodesSound
<1>11. \A a \in Addresses : a \in Handed(t) <=> a \in Handed(s) /\ a \div NodeWords \notin dead
  <2> SUFFICES ASSUME NEW a \in Addresses
               PROVE  a \in Handed(t) <=> a \in Handed(s) /\ a \div NodeWords \notin dead
    OBVIOUS
  <2> DEFINE m == a \div NodeWords
             j == a % NodeWords
  <2>1. /\ a \in Handed(t) <=> m \in Range(q) /\ j < t.used[m]
        /\ a \in Handed(s) <=> m \in Range(s.nodes) /\ j < s.used[m]
    BY <1>1 DEF Handed
  <2> HIDE DEF m, j
  <2>2. (m \in Range(q) /\ j < t.used[m]) <=> (m \in Range(s.nodes) /\ j < s.used[m]) /\ m \notin dead
    BY <1>4, <1>7, <1>9
  <2> QED
    BY <2>1, <2>2 DEF m
<1>12. \A b \in DOMAIN s.chunk : \A a \in Extent(s.chunk, b) :
         a \in Addresses /\ a \div NodeWords = b \div NodeWords
  <2> SUFFICES ASSUME NEW b \in DOMAIN s.chunk, NEW a \in Extent(s.chunk, b)
               PROVE  a \in Addresses /\ a \div NodeWords = b \div NodeWords
    OBVIOUS
  <2>1. a \in Handed(s) /\ b \in Nat /\ s.chunk[b].level \in Levels
        /\ Block(b, s.chunk[b].level) = b
    BY <1>2, ChunkOfTiling
  <2>2. a \in Words(b, WordSize[s.chunk[b].level])
    BY DEF Extent
  <2> QED
    BY <2>1, <2>2, ChunkInNode DEF Handed
<1>13. Tiles(g, Handed(t))
  <2>1. ChunkMap(g)
    BY <1>1, <1>5 DEF Accounts
  <2>2. \A b \in DOMAIN g : Extent(g, b) = Extent(s.chunk, b) /\ b \in DOMAIN s.chunk
    BY <1>6 DEF Extent
  <2>3. \A b \in DOMAIN g : b \in Nat /\ b = Block(b, g[b].level)
    BY <1>2, <1>6 DEF Tiles
  <2>4. \A b, c \in DOMAIN g : b # c => Extent(g, b) \cap Extent(g, c) = {}
    BY <1>2, <2>2 DEF Tiles
  <2>5. ASSUME NEW b \in DOMAIN g, NEW a \in Extent(g, b)
        PROVE  a \in Handed(t)
    <3>1. a \in Extent(s.chunk, b) /\ b \in DOMAIN s.chunk /\ b \div NodeWords \notin dead
      BY <1>6, <2>2
    <3>2. a \in Handed(s)
      BY <1>2, <3>1, ChunkOfTiling
    <3> QED
      BY <1>11, <1>12, <3>1, <3>2
  <2>6. ASSUME NEW a \in Handed(t)
        PROVE  \E b \in DOMAIN g : a \in Extent(g, b)
    <3>1. a \in Addresses
      BY DEF Handed
    <3>2. a \in Handed(s) /\ a \div NodeWords \notin dead
      BY <1>11, <3>1
    <3>3. PICK b \in DOMAIN s.chunk : a \in Extent(s.chunk, b)
      BY <1>2, <3>2 DEF Tiles
    <3>4. b \in DOMAIN g
      BY <1>6, <1>12, <3>2, <3>3
    <3> QED
      BY <2>2, <3>3, <3>4
  <2>7. UNION {Extent(g, b) : b \in DOMAIN g} = Handed(t)
    BY <2>5, <2>6
  <2> QED
    BY <2>1, <2>3, <2>4, <2>7 DEF Tiles
<1>14. Lines(g)
  BY <1>2, <1>6 DEF Lines
<1>15. t.mask \subseteq LiveGranules(t)
  <2> SUFFICES ASSUME NEW x \in s.mask, x \notin granules
               PROVE  x \in LiveGranules(t)
    BY <1>1
  <2>1. PICK n \in Range(s.nodes) : x \in NodeGranules(n)
    BY <1>2 DEF LiveGranules
  <2>2. n \notin dead
    BY <2>1
  <2> QED
    BY <1>1, <1>7, <2>1, <2>2 DEF LiveGranules
<1>16. Tiled(t)
  BY <1>1, <1>10, <1>13, <1>14, <1>15 DEF Tiled
<1>17. Merged(t, {})
  BY <1>1, <1>6, OthersMerged DEF Sound
<1> QED
  BY <1>5, <1>16, <1>17 DEF Sound, t

\* The second pass of purge changes commit lines only.
LEMMA UncommitListedSound ==
  ASSUME NEW s, NEW other \in Int, Accounts(s, other), Sound(s, {})
  PROVE  Sound(UncommitListed(s), {})
<1> DEFINE t      == UncommitListed(s)
           walked == UNION {Range(s.list[l]) : l \in RootLevel..GranuleLevel}
           bare(a) == [s.chunk[a] EXCEPT !.committed = 0]
           g      == [a \in DOMAIN s.chunk |-> IF a \in walked THEN bare(a) ELSE s.chunk[a]]
<1>1. /\ t.chunk = g /\ t.nodes = s.nodes /\ t.used = s.used /\ t.reserved = s.reserved
      /\ t.mask \subseteq s.mask
  <2> HIDE DEF walked
  <2> QED
    BY DEF Accounts, Fields, UncommitListed, walked
<1>2. Accounts(t, other)
  BY UncommitListedAccounts
<1>3. /\ DOMAIN g = DOMAIN s.chunk
      /\ \A a \in DOMAIN s.chunk : /\ g[a].level = s.chunk[a].level
                                   /\ g[a].state = s.chunk[a].state
                                   /\ g[a].committed >= 0
  <2> HIDE DEF walked
  <2> SUFFICES ASSUME NEW a \in DOMAIN s.chunk
               PROVE  /\ g[a].level = s.chunk[a].level
                      /\ g[a].state = s.chunk[a].state
                      /\ g[a].committed >= 0
    OBVIOUS
  <2>1. s.chunk[a] \in Metachunk /\ s.chunk[a].committed >= 0
    BY ChunkOf DEF Sound, Tiled, Lines
  <2>2. bare(a).level = s.chunk[a].level /\ bare(a).state = s.chunk[a].state /\ bare(a).committed = 0
    BY <2>1 DEF Metachunk
  <2>3. g[a] = bare(a) \/ g[a] = s.chunk[a]
    OBVIOUS
  <2> HIDE DEF g, bare
  <2> QED
    BY <2>1, <2>2, <2>3
<1>4. ChunkMap(g)
  BY <1>1, <1>2 DEF Accounts
<1> HIDE DEF t, g
<1>5. Tiles(g, Handed(s))
  BY <1>3, <1>4, SameLevels DEF Sound, Tiled
<1>6. Lines(g)
  BY <1>3 DEF Lines
<1>7. Tiled(t)
  <2>1. t.mask \subseteq LiveGranules(s)
    BY <1>1 DEF Sound, Tiled
  <2> QED
    BY <1>1, <1>5, <1>6, <2>1, SameNodes DEF Sound
<1>8. Merged(t, {})
  BY <1>1, <1>3, OthersMerged DEF Sound
<1> QED
  BY <1>7, <1>8 DEF Sound, t

-----------------------------------------------------------------------------
(* The start.                                                              *)

\* A context starts with empty accounts.
LEMMA EmptyAccounts == Accounts(EmptyContext, 0)
<1>1. Cardinality({}) = 0 /\ IsFiniteSet({})
  BY FS_EmptySet
<1>2. /\ DOMAIN EmptyContext = Fields /\ EmptyContext.mask = {}
      /\ EmptyContext.committed = 0 /\ EmptyContext.limiter = 0
      /\ DOMAIN EmptyContext.chunk = {}
  BY DEF EmptyContext, Fields
<1>3. GranuleWords * 0 = 0
  BY SizesPositive
<1> QED
  BY <1>1, <1>2, <1>3, ContextAssumption DEF Accounts, ChunkMap

\* At the start nothing is handed out.
LEMMA EmptySound == Sound(EmptyContext, {})
<1> DEFINE nodes == IF Expandable THEN <<>> ELSE <<0>>
           new   == EmptyContext
<1>1. ChunkMap(new.chunk)
  BY EmptyAccounts DEF Accounts
<1>2. /\ DOMAIN new.chunk = {} /\ new.nodes = nodes /\ new.used = [n \in Nodes |-> 0]
      /\ new.mask = {} /\ new.reserved = Len(nodes) * NodeWords
  BY DEF EmptyContext
<1>3. NodeWords \in Nat \ {0} /\ 0 \in Nodes
  BY NodeSize, GeometryAssumption DEF Nodes
<1>4. nodes \in Seq(Nodes) /\ IsInjective(nodes) /\ Len(nodes) \in 0..1
  <2>1. CASE Expandable
    <3>1. nodes = <<>> /\ <<>> \in Seq(Nodes) /\ Len(<<>>) = 0 /\ DOMAIN <<>> = {}
      BY <2>1
    <3> QED
      BY <3>1 DEF IsInjective
  <2>2. CASE ~Expandable
    <3>1. nodes = <<0>>
      BY <2>2
    <3>2. <<0>> \in Seq(Nodes) /\ Len(<<0>>) = 1 /\ DOMAIN <<0>> = {1}
      BY <1>3
    <3>3. IsInjective(<<0>>)
      BY <3>2 DEF IsInjective
    <3> QED
      BY <3>1, <3>2, <3>3
  <2> QED
    BY <2>1, <2>2
<1> HIDE DEF nodes, new
<1>5. \A n \in Nodes : new.used[n] = 0 /\ 0 <= NodeWords /\ 0 * WordSize[RootLevel] = 0
  BY <1>2, <1>3, NodeSize
<1>6. NodesSound(new)
  <2>1. new.reserved = NodeWords * Len(nodes)
    BY <1>2, <1>3, <1>4
  <2>2. 2..Len(nodes) = {}
    BY <1>4
  <2>3. ASSUME NEW n \in Nodes
        PROVE  new.used[n] <= NodeWords /\ \E i \in Nat : new.used[n] = i * WordSize[RootLevel]
    <3>1. 0 \in Nat
      OBVIOUS
    <3> QED
      BY <1>5, <3>1
  <2> QED
    BY <1>2, <1>4, <2>1, <2>2, <2>3 DEF NodesSound
<1>7. Handed(new) = {}
  <2> SUFFICES ASSUME NEW a \in Addresses, a \div NodeWords \in Range(new.nodes),
                      a % NodeWords < new.used[a \div NodeWords]
               PROVE  FALSE
    BY DEF Handed
  <2>1. a \div NodeWords \in Nodes
    BY <1>2, <1>4 DEF Range
  <2>2. a \in Nat
    BY DEF Addresses
  <2>3. a % NodeWords \in 0..(NodeWords - 1)
    BY <2>2, NodeOfWord
  <2>4. new.used[a \div NodeWords] = 0
    BY <1>5, <2>1
  <2> HIDE DEF Nodes
  <2> QED
    BY <1>3, <2>3, <2>4
<1>8. Tiled(new)
  BY <1>1, <1>2, <1>6, <1>7 DEF Tiled, Tiles, Lines
<1>9. Merged(new, {})
  BY <1>2 DEF Merged
<1> QED
  BY <1>8, <1>9 DEF Sound, new

-----------------------------------------------------------------------------
(* What it means.                                                          *)

\* Sound chunks tile the areas.
LEMMA SoundAreas ==
  ASSUME Sound(ctx, {})
  PROVE  AreasTiled /\ IdeallyMerged
<1>1. Tiles(ctx.chunk, Handed(ctx)) /\ NodesSound(ctx) /\ ctx.mask \subseteq LiveGranules(ctx)
  BY DEF Sound, Tiled
<1>2. NodesExact
  BY <1>1 DEF NodesSound, NodesExact, LiveGranules
<1>3. \A b \in DOMAIN ctx.chunk : Words(b, SizeOf(ctx, b)) = Extent(ctx.chunk, b)
  BY DEF Extent, SizeOf
<1>4. Handed(ctx) = {a \in Addresses : HandedOut(a)}
  BY DEF Handed, HandedOut
<1>5. \A b \in DOMAIN ctx.chunk : b = Block(b, ctx.chunk[b].level)
  BY <1>1 DEF Tiles
<1>6. \A b, c \in DOMAIN ctx.chunk : b # c =>
        Words(b, SizeOf(ctx, b)) \cap Words(c, SizeOf(ctx, c)) = {}
  BY <1>1, <1>3 DEF Tiles
<1>7. UNION {Words(b, SizeOf(ctx, b)) : b \in DOMAIN ctx.chunk} = Handed(ctx)
  BY <1>1, <1>3 DEF Tiles
<1>8. AreasTiled
  BY <1>2, <1>4, <1>5, <1>6, <1>7 DEF AreasTiled
<1>9. IdeallyMerged
  BY DEF Sound, Merged, Mergeable, IdeallyMerged
<1> QED
  BY <1>8, <1>9

-----------------------------------------------------------------------------
(* One list.                                                               *)

\* No chunk of q that is committed comes after one that is not.
LinedUp(f, q) ==
  \A i, j \in 1..Len(q) : i < j /\ f[q[j]].committed > 0 => f[q[i]].committed > 0

\* q lists the chunks S of f.
Lists(q, S, f) == /\ q \in Seq(Int) /\ IsInjective(q) /\ Range(q) = S
                  /\ LinedUp(f, q)

\* Taking chunks out of a list.
LEMMA KeepLists ==
  ASSUME NEW q, NEW S, NEW f, Lists(q, S, f), NEW T
  PROVE  Lists(Keep(q, T), S \cap T, f)
<1> DEFINE k == Keep(q, T)
<1>1. q \in Seq(Int) /\ IsInjective(q) /\ Range(q) = S /\ LinedUp(f, q)
  BY DEF Lists
<1>2. k \in Seq(Int) /\ Range(k) = S \cap T /\ IsInjective(k)
  BY <1>1, KeepFacts
<1>3. InOrder(k, q)
  BY <1>1, KeepFacts
<1>4. LinedUp(f, k)
  <2> HIDE DEF k
  <2> SUFFICES ASSUME NEW i \in 1..Len(k), NEW j \in 1..Len(k), i < j, f[k[j]].committed > 0
               PROVE  f[k[i]].committed > 0
    BY DEF LinedUp
  <2>1. PICK x \in 1..Len(q), y \in 1..Len(q) : x < y /\ k[i] = q[x] /\ k[j] = q[y]
    BY <1>3 DEF InOrder
  <2> QED
    BY <1>1, <2>1 DEF LinedUp
<1> QED
  BY <1>2, <1>4 DEF Lists

\* Taking one chunk out of a list.
LEMMA UnlinkLists ==
  ASSUME NEW q, NEW S, NEW f, Lists(q, S, f), NEW b
  PROVE  Lists(Unlink(q, b), S \ {b}, f)
<1>1. Lists(Keep(q, Range(q) \ {b}), S \cap (Range(q) \ {b}), f)
  BY KeepLists
<1>2. S \cap (Range(q) \ {b}) = S \ {b}
  BY DEF Lists
<1> QED
  BY <1>1, <1>2 DEF Unlink

\* What the chunks of a list promise is all that matters.
LEMMA SameLines ==
  ASSUME NEW q, NEW S, NEW f, Lists(q, S, f), NEW g,
         \A b \in S : g[b].committed = f[b].committed
  PROVE  Lists(q, S, g)
<1>1. \A i \in 1..Len(q) : q[i] \in S
  BY DEF Lists, Range
<1>2. LinedUp(g, q)
  BY <1>1 DEF Lists, LinedUp
<1> QED
  BY <1>2 DEF Lists

\* Chunks without any commitment are lined up anyhow.
LEMMA BareLines ==
  ASSUME NEW q, NEW S, NEW f, Lists(q, S, f), NEW g, \A b \in S : g[b].committed = 0
  PROVE  Lists(q, S, g)
<1>1. \A i \in 1..Len(q) : q[i] \in S
  BY DEF Lists, Range
<1>2. LinedUp(g, q)
  BY <1>1 DEF Lists, LinedUp
<1> QED
  BY <1>2 DEF Lists

\* An element put behind a list.
LEMMA BackFacts ==
  ASSUME NEW X, NEW list \in Seq(X), NEW x \in X
  PROVE  LET q == Append(list, x) IN
         /\ q \in Seq(X) /\ Len(q) = Len(list) + 1
         /\ q[Len(q)] = x /\ \A i \in 1..Len(list) : q[i] = list[i]
         /\ Range(q) = {x} \cup Range(list)
         /\ IsInjective(list) /\ x \notin Range(list) => IsInjective(q)
<1> DEFINE q == Append(list, x)
           n == Len(list)
<1>1. n \in Nat /\ DOMAIN list = 1..n
  OBVIOUS
<1>2. q \in Seq(X) /\ Len(q) = n + 1 /\ q[n + 1] = x /\ \A i \in 1..n : q[i] = list[i]
  BY AppendProperties
<1>3. DOMAIN q = 1..(n + 1)
  <2> HIDE DEF q
  <2> QED
    BY <1>2
<1> HIDE DEF q, n
<1>4. \A i \in 1..(n + 1) : i = n + 1 \/ i \in 1..n
  BY <1>1
<1>5. Range(q) = {x} \cup Range(list)
  <2>1. \A y \in Range(q) : y \in {x} \cup Range(list)
    BY <1>1, <1>2, <1>3, <1>4 DEF Range
  <2>2. \A j \in 1..n : j \in 1..(n + 1)
    BY <1>1
  <2>3. \A y \in Range(list) : y \in Range(q)
    BY <1>1, <1>2, <1>3, <2>2 DEF Range
  <2>4. n + 1 \in 1..(n + 1)
    BY <1>1
  <2>5. x \in Range(q)
    BY <1>2, <1>3, <2>4 DEF Range
  <2> QED
    BY <2>1, <2>3, <2>5
<1>6. ASSUME IsInjective(list), x \notin Range(list)
      PROVE  IsInjective(q)
  <2> SUFFICES ASSUME NEW i \in 1..(n + 1), NEW j \in 1..(n + 1), q[i] = q[j]
               PROVE  i = j
    BY <1>3 DEF IsInjective
  <2>1. CASE i = n + 1 /\ j = n + 1
    BY <2>1
  <2>2. CASE i \in 1..n /\ j = n + 1
    BY <1>1, <1>2, <1>6, <2>2 DEF Range
  <2>3. CASE i = n + 1 /\ j \in 1..n
    BY <1>1, <1>2, <1>6, <2>3 DEF Range
  <2>4. CASE i \in 1..n /\ j \in 1..n
    BY <1>1, <1>2, <1>6, <2>4 DEF IsInjective
  <2> QED
    BY <1>4, <2>1, <2>2, <2>3, <2>4
<1> QED
  BY <1>2, <1>5, <1>6 DEF q, n

\* FreeChunkList::add keeps the order.
LEMMA PushLists ==
  ASSUME NEW q, NEW S, NEW f, Lists(q, S, f), NEW b \in Int, b \notin S,
         NEW c \in Int, c >= 0, f[b].committed = c
  PROVE  Lists(Push(q, b, c), S \cup {b}, f)
<1>1. q \in Seq(Int) /\ IsInjective(q) /\ Range(q) = S /\ LinedUp(f, q) /\ Len(q) \in Nat
  BY DEF Lists
<1>2. CASE c = 0
  <2> DEFINE p == Append(q, b)
  <2>1. /\ p \in Seq(Int) /\ Len(p) = Len(q) + 1 /\ p[Len(p)] = b
        /\ \A i \in 1..Len(q) : p[i] = q[i]
        /\ Range(p) = {b} \cup S /\ IsInjective(p)
    BY <1>1, BackFacts
  <2> HIDE DEF p
  <2>2. LinedUp(f, p)
    <3> SUFFICES ASSUME NEW i \in 1..Len(p), NEW j \in 1..Len(p), i < j, f[p[j]].committed > 0
                 PROVE  f[p[i]].committed > 0
      BY DEF LinedUp
    <3>1. j # Len(p)
      BY <1>2, <2>1
    <3>2. i \in 1..Len(q) /\ j \in 1..Len(q)
      BY <1>1, <2>1, <3>1
    <3>3. p[i] = q[i] /\ p[j] = q[j]
      BY <2>1, <3>2
    <3> QED
      BY <1>1, <3>2, <3>3 DEF LinedUp
  <2> QED
    BY <1>2, <2>1, <2>2 DEF Lists, Push, p
<1>3. CASE c # 0
  <2> DEFINE p == <<b>> \o q
  <2>1. /\ p \in Seq(Int) /\ Len(p) = Len(q) + 1 /\ p[1] = b
        /\ \A i \in 2..Len(p) : i - 1 \in 1..Len(q) /\ p[i] = q[i - 1]
        /\ Range(p) = {b} \cup S /\ IsInjective(p)
    BY <1>1, FrontFacts
  <2> HIDE DEF p
  <2>2. LinedUp(f, p)
    <3> SUFFICES ASSUME NEW i \in 1..Len(p), NEW j \in 1..Len(p), i < j, f[p[j]].committed > 0
                 PROVE  f[p[i]].committed > 0
      BY DEF LinedUp
    <3>1. CASE i = 1
      BY <1>3, <2>1, <3>1
    <3>2. CASE i # 1
      <4>1. i \in 2..Len(p) /\ j \in 2..Len(p) /\ i - 1 < j - 1
        BY <1>1, <2>1, <3>2
      <4>2. /\ i - 1 \in 1..Len(q) /\ p[i] = q[i - 1]
            /\ j - 1 \in 1..Len(q) /\ p[j] = q[j - 1]
        BY <2>1, <4>1
      <4> QED
        BY <1>1, <4>1, <4>2 DEF LinedUp
    <3> QED
      BY <3>1, <3>2
  <2> QED
    BY <1>3, <2>1, <2>2 DEF Lists, Push, p
<1> QED
  BY <1>2, <1>3

-----------------------------------------------------------------------------
(* All lists.                                                              *)

\* The free chunks of level l that are not in limbo.
Idle(s, X, l) == {b \in DOMAIN s.chunk \ X : s.chunk[b].level = l /\ s.chunk[b].state = "free"}

\* The lists are exact, but for the chunks X in limbo.
Listed(s, X) ==
  /\ DOMAIN s.list = Levels
  /\ \A l \in Levels : Lists(s.list[l], Idle(s, X, l), s.chunk)

\* An operation that touches no listed chunk.
LEMMA FrameListed ==
  ASSUME NEW s, NEW X, Listed(s, X), NEW t, NEW Y, t.list = s.list,
         \A l \in Levels : Idle(t, Y, l) = Idle(s, X, l),
         \A l \in Levels : \A b \in Idle(s, X, l) :
           t.chunk[b].committed = s.chunk[b].committed
  PROVE  Listed(t, Y)
<1> SUFFICES ASSUME NEW l \in Levels
             PROVE  Lists(s.list[l], Idle(s, X, l), t.chunk)
  BY DEF Listed
<1>1. Lists(s.list[l], Idle(s, X, l), s.chunk)
  BY DEF Listed
<1> QED
  BY <1>1, SameLines

\* A chunk in limbo or in use changes in place, and is in limbo or in use then.
LEMMA ChangeListed ==
  ASSUME NEW s, NEW X, Listed(s, X), NEW b \in DOMAIN s.chunk, NEW t, ChangeSpec(s, t, b),
         b \in X \/ s.chunk[b].state # "free",
         NEW Y, b \in Y \/ t.chunk[b].state # "free", X \ {b} = Y \ {b}
  PROVE  Listed(t, Y)
<1>1. /\ DOMAIN t.chunk = DOMAIN s.chunk /\ t.list = s.list
      /\ \A a \in DOMAIN s.chunk : a # b => t.chunk[a] = s.chunk[a]
  BY DEF ChangeSpec
<1>2. \A l \in Levels : Idle(t, Y, l) = Idle(s, X, l)
  BY <1>1 DEF Idle
<1>3. \A l \in Levels : \A a \in Idle(s, X, l) : t.chunk[a].committed = s.chunk[a].committed
  BY <1>1 DEF Idle
<1> QED
  BY <1>1, <1>2, <1>3, FrameListed

\* A chunk leaves its list.
LEMMA DelistListed ==
  ASSUME NEW s, NEW other \in Int, Accounts(s, other), Listed(s, {}), NEW b \in DOMAIN s.chunk
  PROVE  Listed(Delist(s, b), {b})
<1> DEFINE t == Delist(s, b)
           k == s.chunk[b].level
<1>1. /\ t.chunk = s.chunk /\ t.list = [s.list EXCEPT ![k] = Unlink(@, b)]
  BY DEF Accounts, Fields, Delist
<1>2. DOMAIN s.list = Levels /\ k \in Levels
  BY ChunkOf DEF Listed
<1>3. DOMAIN t.list = Levels /\ t.list[k] = Unlink(s.list[k], b)
      /\ \A l \in Levels : l # k => t.list[l] = s.list[l]
  <2> HIDE DEF t, k
  <2> QED
    BY <1>1, <1>2
<1>4. ASSUME NEW l \in Levels
      PROVE  Lists(t.list[l], Idle(t, {b}, l), t.chunk)
  <2>1. Lists(s.list[l], Idle(s, {}, l), s.chunk)
    BY DEF Listed
  <2>2. CASE l = k
    <3>1. Lists(Unlink(s.list[l], b), Idle(s, {}, l) \ {b}, s.chunk)
      BY <2>1, UnlinkLists
    <3>2. Idle(t, {b}, l) = Idle(s, {}, l) \ {b}
      BY <1>1 DEF Idle
    <3> HIDE DEF t
    <3> QED
      BY <1>1, <1>3, <2>2, <3>1, <3>2
  <2>3. CASE l # k
    <3>1. Idle(t, {b}, l) = Idle(s, {}, l)
      BY <1>1, <2>3 DEF Idle
    <3> HIDE DEF t
    <3> QED
      BY <1>1, <1>3, <2>1, <2>3, <3>1
  <2> QED
    BY <2>2, <2>3
<1> QED
  BY <1>3, <1>4 DEF Listed

\* A free chunk in limbo enters the list of its level.
LEMMA EnlistListed ==
  ASSUME NEW s, NEW other \in Int, Accounts(s, other), Tiled(s), NEW b \in DOMAIN s.chunk,
         Listed(s, {b}), s.chunk[b].state = "free"
  PROVE  Listed(Enlist(s, b), {})
<1> DEFINE t == Enlist(s, b)
           k == s.chunk[b].level
           c == s.chunk[b].committed
<1>1. t.chunk = s.chunk /\ t.list = [s.list EXCEPT ![k] = Push(@, b, c)]
  BY DEF Accounts, Fields, Enlist
<1>2. DOMAIN s.list = Levels /\ k \in Levels /\ b \in Int /\ c \in Int /\ c >= 0
  BY ChunkOf DEF Listed, Tiled, Lines
<1>3. DOMAIN t.list = Levels /\ t.list[k] = Push(s.list[k], b, c)
      /\ \A l \in Levels : l # k => t.list[l] = s.list[l]
  <2> HIDE DEF t, k, c
  <2> QED
    BY <1>1, <1>2
<1>4. ASSUME NEW l \in Levels
      PROVE  Lists(t.list[l], Idle(t, {}, l), t.chunk)
  <2>1. Lists(s.list[l], Idle(s, {b}, l), s.chunk)
    BY DEF Listed
  <2>2. CASE l = k
    <3>1. b \notin Idle(s, {b}, l)
      BY DEF Idle
    <3>2. Lists(Push(s.list[l], b, c), Idle(s, {b}, l) \cup {b}, s.chunk)
      BY <1>2, <2>1, <3>1, PushLists
    <3>3. Idle(t, {}, l) = Idle(s, {b}, l) \cup {b}
      BY <1>1, <2>2 DEF Idle
    <3> HIDE DEF t, c
    <3> QED
      BY <1>1, <1>3, <2>2, <3>2, <3>3
  <2>3. CASE l # k
    <3>1. Idle(t, {}, l) = Idle(s, {b}, l)
      BY <1>1, <2>3 DEF Idle
    <3> HIDE DEF t
    <3> QED
      BY <1>1, <1>3, <2>1, <2>3, <3>1
  <2> QED
    BY <2>2, <2>3
<1> QED
  BY <1>3, <1>4 DEF Listed

\* Splitting puts every splinter into the list of its level.
LEMMA SplitListed ==
  ASSUME NEW s, NEW other \in Int, Accounts(s, other), Tiled(s), NEW b \in DOMAIN s.chunk,
         Listed(s, {b}), NEW target \in Levels, s.chunk[b].level <= target
  PROVE  Listed(Split(s, b, target), {b})
<1> DEFINE t    == Split(s, b, target)
           cuts == Cuts(s, b, target)
<1>1. SplitSpec(s, b, target) /\ Tiled(t)
  BY SplitTiled
<1>2. /\ DOMAIN t.chunk = DOMAIN s.chunk \cup {b + WordSize[k] : k \in cuts}
      /\ \A a \in DOMAIN s.chunk : a # b => t.chunk[a] = s.chunk[a]
      /\ \A k \in cuts : /\ b + WordSize[k] \notin DOMAIN s.chunk
                         /\ t.chunk[b + WordSize[k]].level = k
                         /\ t.chunk[b + WordSize[k]].committed = Spill(s, b, k)
                         /\ t.chunk[b + WordSize[k]].state = "free"
      /\ DOMAIN t.list = Levels
      /\ \A k \in Levels : t.list[k] =
           IF k \in cuts THEN Push(s.list[k], b + WordSize[k], Spill(s, b, k))
                         ELSE s.list[k]
  BY <1>1 DEF SplitSpec, Pieces
<1>3. \A k \in cuts : b + WordSize[k] \in Int /\ Spill(s, b, k) \in Int /\ Spill(s, b, k) >= 0
  <2> SUFFICES ASSUME NEW k \in cuts
               PROVE  b + WordSize[k] \in Int /\ Spill(s, b, k) \in Int /\ Spill(s, b, k) >= 0
    OBVIOUS
  <2>1. b + WordSize[k] \in DOMAIN t.chunk
    BY <1>2
  <2>2. Accounts(t, other)
    BY SplitTiled
  <2>3. b + WordSize[k] \in Nat /\ t.chunk[b + WordSize[k]].committed \in Nat
    <3> HIDE DEF t, cuts
    <3> QED
      BY <1>1, <2>1, <2>2, TiledChunk
  <2> QED
    BY <1>2, <2>3
<1> HIDE DEF t, cuts
<1>4. ASSUME NEW l \in Levels
      PROVE  Lists(t.list[l], Idle(t, {b}, l), t.chunk)
  <2> DEFINE S == Idle(s, {b}, l)
             p == b + WordSize[l]
  <2>1. Lists(s.list[l], S, s.chunk)
    BY DEF Listed
  <2>2. \A a \in S : a \in DOMAIN s.chunk /\ t.chunk[a] = s.chunk[a]
    BY <1>2 DEF Idle
  <2>3. Lists(s.list[l], S, t.chunk)
    <3> HIDE DEF S
    <3> QED
      BY <2>1, <2>2, SameLines
  <2>4. \A a \in Idle(t, {b}, l) : a \in S \/ (l \in cuts /\ a = p)
    BY <1>2 DEF Idle
  <2>5. S \subseteq Idle(t, {b}, l)
    BY <1>2 DEF Idle
  <2>6. CASE l \in cuts
    <3>1. p \notin S /\ p # b
      BY <1>2, <2>2, <2>6
    <3>2. p \in Idle(t, {b}, l)
      BY <1>2, <2>6, <3>1 DEF Idle
    <3>3. Idle(t, {b}, l) = S \cup {p}
      BY <2>4, <2>5, <3>2
    <3>4. p \in Int /\ Spill(s, b, l) \in Int /\ Spill(s, b, l) >= 0
          /\ t.chunk[p].committed = Spill(s, b, l)
      BY <1>2, <1>3, <2>6
    <3>5. t.list[l] = Push(s.list[l], p, Spill(s, b, l))
      BY <1>2, <2>6
    <3> HIDE DEF S, p
    <3> QED
      BY <2>3, <3>1, <3>3, <3>4, <3>5, PushLists
  <2>7. CASE l \notin cuts
    <3>1. Idle(t, {b}, l) = S
      BY <2>4, <2>5, <2>7
    <3> QED
      BY <1>2, <2>3, <2>7, <3>1
  <2> QED
    BY <2>6, <2>7
<1> QED
  BY <1>2, <1>4 DEF Listed, t

\* Merging takes every joined buddy out of the list of its level.
LEMMA MergeListed ==
  ASSUME NEW s, NEW other \in Int, Accounts(s, other), Tiled(s), NEW b \in DOMAIN s.chunk,
         Listed(s, {b})
  PROVE  Listed(MergeAll(s, b), {Base(s, b)})
<1> DEFINE t      == MergeAll(s, b)
           base   == Base(s, b)
           parts  == Parts(s, b)
           joined == Joined(s, b)
<1>1. MergeSpec(s, b) /\ base \notin DOMAIN s.chunk \ parts
  BY MergeTiled
<1>2. /\ DOMAIN t.chunk = (DOMAIN s.chunk \ parts) \cup {base}
      /\ \A a \in DOMAIN s.chunk \ parts : a # base => t.chunk[a] = s.chunk[a]
      /\ DOMAIN t.list = Levels
      /\ \A k \in Levels : t.list[k] =
           IF k \in joined THEN Unlink(s.list[k], Buddy(b, k)) ELSE s.list[k]
  BY <1>1 DEF MergeSpec
<1>3. /\ parts = {b} \cup {Buddy(b, k) : k \in joined}
      /\ \A k \in joined : /\ Buddy(b, k) \in DOMAIN s.chunk /\ Buddy(b, k) # b
                           /\ s.chunk[Buddy(b, k)].level = k
  BY JoinedBuddies DEF Tiled, Parts
<1> HIDE DEF t, base, parts, joined
<1>4. ASSUME NEW l \in Levels
      PROVE  Lists(t.list[l], Idle(t, {base}, l), t.chunk)
  <2> DEFINE S == Idle(s, {b}, l)
             T == Idle(t, {base}, l)
  <2>1. Lists(s.list[l], S, s.chunk)
    BY DEF Listed
  <2>2. \A a \in T : a \in S /\ a \notin parts /\ t.chunk[a] = s.chunk[a]
    BY <1>2, <1>3 DEF Idle
  <2>3. \A a \in S : a \notin parts => a \in T
    BY <1>1, <1>2 DEF Idle
  <2>4. \A a \in S : a \in parts => l \in joined /\ a = Buddy(b, l)
    BY <1>3 DEF Idle
  <2>5. CASE l \in joined
    <3>1. Buddy(b, l) \in parts
      BY <1>3, <2>5
    <3>2. T = S \ {Buddy(b, l)}
      BY <2>2, <2>3, <2>4, <3>1
    <3> HIDE DEF S, T
    <3>3. Lists(t.list[l], T, s.chunk)
      BY <1>2, <2>1, <2>5, <3>2, UnlinkLists
    <3> QED
      BY <2>2, <3>3, SameLines DEF T
  <2>6. CASE l \notin joined
    <3>1. T = S
      BY <2>2, <2>3, <2>4, <2>6
    <3> HIDE DEF S, T
    <3>2. Lists(t.list[l], T, s.chunk)
      BY <1>2, <2>1, <2>6, <3>1
    <3> QED
      BY <2>2, <3>2, SameLines DEF T
  <2> QED
    BY <2>5, <2>6
<1> QED
  BY <1>2, <1>4 DEF Listed, t, base

\* The claimed buddy leaves its list; its new owner is in none.
LEMMA EnlargeListed ==
  ASSUME NEW s, NEW other \in Int, Accounts(s, other), Tiled(s), NEW b \in DOMAIN s.chunk,
         CanEnlarge(s, b), Listed(s, {}), s.chunk[b].state = "inuse"
  PROVE  Listed(Enlarge(s, b), {})
<1> DEFINE t     == Enlarge(s, b)
           k     == s.chunk[b].level
           buddy == Buddy(b, k)
<1>1. EnlargeSpec(s, b)
  BY EnlargeTiled
<1>2. /\ DOMAIN t.chunk = DOMAIN s.chunk \ {buddy}
      /\ t.chunk[b].state = "inuse"
      /\ \A a \in DOMAIN s.chunk \ {buddy} : a # b => t.chunk[a] = s.chunk[a]
      /\ t.list = [s.list EXCEPT ![k] = Unlink(s.list[k], buddy)]
  BY <1>1 DEF EnlargeSpec
<1>3. k \in Levels /\ buddy \in DOMAIN s.chunk /\ s.chunk[buddy].level = k
  BY ClaimedBuddy DEF Tiled
<1> HIDE DEF t, k, buddy
<1>4. /\ DOMAIN t.list = Levels /\ t.list[k] = Unlink(s.list[k], buddy)
      /\ \A l \in Levels : l # k => t.list[l] = s.list[l]
  BY <1>2, <1>3 DEF Listed
<1>5. ASSUME NEW l \in Levels
      PROVE  Lists(t.list[l], Idle(t, {}, l), t.chunk)
  <2> DEFINE S == Idle(s, {}, l)
             T == Idle(t, {}, l)
  <2>1. Lists(s.list[l], S, s.chunk)
    BY DEF Listed
  <2>2. \A a \in T : a \in S /\ a # buddy /\ t.chunk[a] = s.chunk[a]
    BY <1>2 DEF Idle
  <2>3. \A a \in S : a # buddy => a \in T
    BY <1>2 DEF Idle
  <2>4. buddy \in S => l = k
    BY <1>3 DEF Idle
  <2>5. CASE l = k
    <3>1. T = S \ {buddy}
      BY <2>2, <2>3
    <3> HIDE DEF S, T
    <3>2. Lists(t.list[l], T, s.chunk)
      BY <1>4, <2>1, <2>5, <3>1, UnlinkLists
    <3> QED
      BY <2>2, <3>2, SameLines DEF T
  <2>6. CASE l # k
    <3>1. T = S
      BY <2>2, <2>3, <2>4, <2>6
    <3> HIDE DEF S, T
    <3>2. Lists(t.list[l], T, s.chunk)
      BY <1>4, <2>1, <2>6, <3>1
    <3> QED
      BY <2>2, <3>2, SameLines DEF T
  <2> QED
    BY <2>5, <2>6
<1> QED
  BY <1>4, <1>5 DEF Listed, t

\* A chunk in use is in no list, in limbo or not.
LEMMA UsedIsUnlisted ==
  ASSUME NEW s, NEW b, s.chunk[b].state # "free"
  PROVE  Listed(s, {}) <=> Listed(s, {b})
<1>1. \A l \in Levels : Idle(s, {}, l) = Idle(s, {b}, l)
  BY DEF Idle
<1> QED
  BY <1>1 DEF Listed

\* return_chunk_locked lists what the returned chunk was merged into.
LEMMA ReturnChunkListed ==
  ASSUME NEW s, NEW other \in Int, Accounts(s, other), NEW b \in DOMAIN s.chunk, Sound(s, {b}),
         Listed(s, {b})
  PROVE  Listed(ReturnChunk(s, b), {})
<1> DEFINE freed  == SetFree(s, b)
           m      == MergeLevel(freed, b)
           base   == Block(b, m)
           merged == MergeAll(freed, b)
           lean   == IF UncommitFreeChunks /\ WordSize[m] >= GranuleWords
                       THEN Uncommit(merged, base) ELSE merged
<1>1. /\ Accounts(freed, other) /\ Tiled(freed) /\ ChangeSpec(s, freed, b)
  BY SetFreeTiled DEF Sound
<1>2. b \in DOMAIN freed.chunk
  BY <1>1 DEF ChangeSpec
<1> HIDE DEF freed
<1>3. Listed(freed, {b})
  BY <1>1, ChangeListed
<1>4. /\ Accounts(merged, other) /\ Tiled(merged) /\ base \in DOMAIN merged.chunk
      /\ MergeSpec(freed, b)
  BY <1>1, <1>2, MergeTiled DEF Base
<1>5. Listed(merged, {base})
  BY <1>1, <1>2, <1>3, MergeListed DEF Base
<1>6. merged.chunk[base].state = "free"
  BY <1>4 DEF MergeSpec, Base
<1> HIDE DEF merged, base
<1>7. /\ Accounts(lean, other) /\ Tiled(lean) /\ Listed(lean, {base})
      /\ base \in DOMAIN lean.chunk /\ lean.chunk[base].state = "free"
  <2> DEFINE v == Uncommit(merged, base)
  <2>1. /\ Accounts(v, other) /\ Tiled(v) /\ ChangeSpec(merged, v, base)
        /\ v.chunk[base].state = "free"
    BY <1>4, <1>6, UncommitTiled
  <2> HIDE DEF v
  <2>2. Listed(v, {base}) /\ base \in DOMAIN v.chunk
    BY <1>4, <1>5, <2>1, ChangeListed DEF ChangeSpec
  <2>3. lean = v \/ lean = merged
    BY DEF v
  <2> HIDE DEF lean
  <2> QED
    BY <1>4, <1>5, <1>6, <2>1, <2>2, <2>3
<1>8. ReturnChunk(s, b) = Enlist(lean, base)
  BY DEF ReturnChunk, freed, merged, base
<1> HIDE DEF lean
<1> QED
  BY <1>7, <1>8, EnlistListed

\* get_chunk, once it has found a chunk: whether it succeeds or fails, the
\* chunk is in limbo no longer.
LEMMA HandOutListed ==
  ASSUME NEW s, NEW other \in Int, Accounts(s, other), NEW b \in DOMAIN s.chunk, Sound(s, {b}),
         Listed(s, {b}), NEW r \in LegalRequests
  PROVE  Listed(HandOut(s, b, r), {})
<1> DEFINE t    == Cut(s, b, r)
           want == ToCommit(t, b, r)
           full == IF Short(t, b, r) THEN CommitUpTo(t, b, want) ELSE t
           took == [full EXCEPT !.chunk[b].state = "inuse"]
           back == [t EXCEPT !.chunk[b].state = "inuse"]
<1>1. r.pref \in Levels /\ r.min \in Nat
  BY RequestFacts
<1>2. Accounts(t, other) /\ b \in DOMAIN t.chunk /\ Sound(t, {b}) /\ Listed(t, {b})
  <2>1. CASE s.chunk[b].level < r.pref
    <3>1. s.chunk[b].level <= r.pref
      <4>1. s.chunk[b].level \in Nat /\ r.pref \in Nat
        BY <1>1, ChunkOf, LevelRanges
      <4> QED
        BY <2>1, <4>1
    <3> DEFINE u == Split(s, b, r.pref)
    <3>2. Accounts(u, other) /\ b \in DOMAIN u.chunk
      BY <1>1, SplitAccounts
    <3>3. Tiled(u) /\ Merged(u, {b})
      BY <1>1, <3>1, SplitTiled, SplitMerged DEF Sound
    <3>4. Listed(u, {b})
      BY <1>1, <3>1, SplitListed DEF Sound
    <3>5. t = u
      BY <2>1 DEF Cut
    <3> QED
      BY <3>2, <3>3, <3>4, <3>5 DEF Sound
  <2>2. CASE ~(s.chunk[b].level < r.pref)
    BY <2>2 DEF Cut
  <2> QED
    BY <2>1, <2>2
<1> HIDE DEF t
<1>3. want \in Nat
  BY <1>1, <1>2, ChunkOf DEF ToCommit
<1>4. CASE Serves(s, b, r)
  <2>1. Short(t, b, r) => CanCommit(t, b, want)
    BY <1>4 DEF Serves, t
  <2>2. /\ Accounts(full, other) /\ Tiled(full) /\ Listed(full, {b}) /\ b \in DOMAIN full.chunk
    <3>1. CASE Short(t, b, r)
      <4> DEFINE u == CommitUpTo(t, b, want)
      <4>1. /\ Accounts(u, other) /\ Tiled(u) /\ ChangeSpec(t, u, b)
        <5> HIDE DEF want
        <5> QED
          BY <1>2, <1>3, <2>1, <3>1, CommitTiled DEF Sound
      <4> HIDE DEF u
      <4>2. Listed(u, {b}) /\ b \in DOMAIN u.chunk
        BY <1>2, <4>1, ChangeListed DEF ChangeSpec
      <4>3. full = u
        BY <3>1 DEF u
      <4> QED
        BY <4>1, <4>2, <4>3
    <3>2. CASE ~Short(t, b, r)
      BY <1>2, <3>2 DEF Sound
    <3> QED
      BY <3>1, <3>2
  <2>3. HandOut(s, b, r) = took
    BY <1>4 DEF HandOut, t
  <2> HIDE DEF full
  <2>4. ChangeSpec(full, took, b) /\ took.chunk[b].state = "inuse"
    BY <2>2, TakeTiled
  <2> HIDE DEF took
  <2> QED
    BY <2>2, <2>3, <2>4, ChangeListed
<1>5. CASE ~Serves(s, b, r)
  <2>1. /\ Accounts(back, other) /\ Tiled(back) /\ ChangeSpec(t, back, b)
    BY <1>2, TakeTiled DEF Sound
  <2>2. HandOut(s, b, r) = ReturnChunk(back, b)
    BY <1>5 DEF HandOut, t
  <2> HIDE DEF back
  <2>3. Sound(back, {b}) /\ b \in DOMAIN back.chunk /\ Listed(back, {b})
    BY <1>2, <2>1, ChangeMerged, ChangeListed DEF Sound, ChangeSpec
  <2> QED
    BY <2>1, <2>2, <2>3, ReturnChunkListed
<1> QED
  BY <1>4, <1>5

\* A root chunk is taken from its node straight into limbo.
LEMMA RootChunkListed ==
  ASSUME NEW s, NEW other \in Int, Accounts(s, other), Sound(s, {}), Listed(s, {}),
         ~HeadIsFull(s), NEW b \in Int, b = NextRoot(s)
  PROVE  Listed(AllocateRootChunk(s, b), {b})
<1> DEFINE t == AllocateRootChunk(s, b)
<1>1. /\ t.list = s.list
      /\ t.chunk = [a \in DOMAIN s.chunk \cup {b} |->
                      IF a = b THEN FreshChunk(RootLevel) ELSE s.chunk[a]]
  BY DEF Accounts, Fields, AllocateRootChunk
<1>2. b \notin DOMAIN s.chunk
  BY RootChunkSound
<1> HIDE DEF t
<1>3. \A l \in Levels : Idle(t, {b}, l) = Idle(s, {}, l)
  BY <1>1, <1>2 DEF Idle
<1>4. \A l \in Levels : \A a \in Idle(s, {}, l) : t.chunk[a].committed = s.chunk[a].committed
  BY <1>1, <1>2 DEF Idle
<1> QED
  BY <1>1, <1>3, <1>4, FrameListed DEF t

\* A new node has no chunk yet.
LEMMA NewNodeListed ==
  ASSUME NEW s, NEW other \in Int, Accounts(s, other), Listed(s, {}), NEW n
  PROVE  Listed(NewNode(s, n), {})
<1>1. NewNode(s, n).list = s.list /\ NewNode(s, n).chunk = s.chunk
  BY DEF Accounts, Fields, NewNode
<1> QED
  BY <1>1 DEF Listed, Idle

\* A word lies in one of the root chunk areas of its node.
LEMMA AreaOfWord ==
  ASSUME NEW b \in Nat
  PROVE  Block(b, RootLevel) \in Areas(b \div NodeWords)
<1> DEFINE w == WordSize[RootLevel]
           n == b \div NodeWords
           R == RootsPerNode
<1>1. /\ w \in Nat \ {0} /\ NodeWords = R * w /\ RootLevel \in Levels /\ R \in Nat \ {0}
  BY NodeSize, GeometryAssumption
<1>2. PICK q \in Nat : Block(b, RootLevel) = q * w
  BY <1>1, BlockBounds
<1>3. q * w <= b /\ b < q * w + w
  BY <1>1, <1>2, BlockBounds
<1>4. n = q \div R /\ n \in Nat
  <2>1. b \in Words(q * WordSize[RootLevel], WordSize[RootLevel])
    <3>1. q * w \in Nat
      BY <1>1
    <3> DEFINE x == q * w
    <3>2. x \in Nat /\ x <= b /\ b < x + w /\ w \in Nat
      BY <1>1, <1>3, <3>1
    <3> HIDE DEF x, w
    <3>3. b \in x..(x + w - 1)
      BY <3>2
    <3> QED
      BY <3>3 DEF Words, x, w
  <2> QED
    BY <2>1, RootInNode, NodeOfWord
<1>5. n * R <= q /\ q < n * R + R
  BY <1>1, <1>4, DivisionBounds
<1> DEFINE i == q - n * R
<1>6. i \in 0..(R - 1) /\ q = n * R + i
  <2> DEFINE y == n * R
  <2>1. y \in Nat /\ y <= q /\ q < y + R /\ R \in Nat
    BY <1>1, <1>4, <1>5
  <2> HIDE DEF y
  <2>2. q - y \in 0..(R - 1) /\ q = y + (q - y)
    BY <2>1
  <2> QED
    BY <2>2 DEF y
<1>7. q * w = n * NodeWords + i * w
  <2>1. i \in Int /\ n \in Int /\ R \in Int /\ w \in Int
    BY <1>1, <1>4, <1>6
  <2> HIDE DEF i, n, w, R
  <2>2. (n * R + i) * w = n * (R * w) + i * w
    BY <2>1
  <2> QED
    BY <1>1, <1>6, <2>2
<1> QED
  BY <1>2, <1>6, <1>7 DEF Areas

\* All chunks of a dead node are free root chunks: the areas of the node hold
\* nothing else.
LEMMA DeadChunks ==
  ASSUME NEW s, NEW other, Accounts(s, other), Tiled(s), NEW b \in DOMAIN s.chunk,
         b \div NodeWords \in DeadNodes(s)
  PROVE  s.chunk[b].level = RootLevel /\ s.chunk[b].state = "free"
<1> DEFINE n    == b \div NodeWords
           area == Block(b, RootLevel)
           w    == WordSize[RootLevel]
<1>1. /\ b \in Nat /\ w \in Nat \ {0} /\ RootLevel \in Levels
      /\ Tiles(s.chunk, Handed(s)) /\ b \in Handed(s) /\ b \in Extent(s.chunk, b)
  BY TiledChunk, ChunkOfTiling, NodeSize
<1>2. area \in Nat /\ area <= b /\ b < area + w
  BY <1>1, BlockBounds
<1>3. area < n * NodeWords + s.used[n]
  <2>1. b % NodeWords < s.used[n]
    BY <1>1 DEF Handed
  <2>2. b = n * NodeWords + (b % NodeWords) /\ b % NodeWords \in Nat /\ n \in Nat
    BY <1>1, NodeOfWord
  <2>3. s.used[n] \in Nat
    <3>1. n \in Nodes
      <4>1. n \in Range(s.nodes) /\ s.nodes \in Seq(Nodes)
        BY <1>1 DEF Handed, Tiled, NodesSound
      <4> QED
        BY <4>1 DEF Range
    <3>2. PICK i \in Nat : s.used[n] = i * w
      BY <3>1 DEF Tiled, NodesSound
    <3> HIDE DEF n, w
    <3> QED
      BY <1>1, <3>2
  <2>4. n * NodeWords \in Nat
    BY <2>2, NodeSize
  <2> DEFINE x == n * NodeWords
             y == b % NodeWords
             z == s.used[n]
  <2>5. x \in Nat /\ y \in Nat /\ z \in Nat /\ b = x + y /\ y < z
    BY <2>1, <2>2, <2>3, <2>4
  <2> HIDE DEF x, y, z, area
  <2>6. area < x + z
    BY <1>2, <2>5
  <2> QED
    BY <2>6 DEF x, z
<1>4. area \in Areas(n)
  BY <1>1, AreaOfWord
<1>5. NodeIsFree(s, n)
  BY DEF DeadNodes
<1>6. /\ area \in DOMAIN s.chunk /\ s.chunk[area].level = RootLevel
      /\ s.chunk[area].state = "free"
  <2> HIDE DEF area, n
  <2> QED
    BY <1>3, <1>4, <1>5 DEF NodeIsFree, IsChunk, IsFree
<1>7. b \in Extent(s.chunk, area)
  <2> HIDE DEF area
  <2>1. b \in area..(area + w - 1)
    BY <1>1, <1>2
  <2> QED
    BY <1>6, <2>1 DEF Extent, Words
<1>8. area = b
  <2> HIDE DEF area
  <2> QED
    BY <1>1, <1>6, <1>7, HolderUnique
<1> QED
  BY <1>6, <1>8

\* The chunks of a purged node leave the one list they can be in.
LEMMA PurgeNodesListed ==
  ASSUME NEW s, NEW other \in Int, Accounts(s, other), Tiled(s), Listed(s, {})
  PROVE  Listed(PurgeNodes(s), {})
<1> DEFINE t    == PurgeNodes(s)
           gone == {b \in DOMAIN s.chunk : b \div NodeWords \in DeadNodes(s)}
           kept == DOMAIN s.chunk \ gone
<1>1. /\ t.chunk = [a \in kept |-> s.chunk[a]]
      /\ t.list = [s.list EXCEPT ![RootLevel] = Keep(@, kept)]
  BY DEF Accounts, Fields, PurgeNodes
<1>2. \A b \in gone : s.chunk[b].level = RootLevel
  BY DeadChunks
<1>3. kept \subseteq DOMAIN s.chunk /\ \A b \in DOMAIN s.chunk : b \notin kept => b \in gone
  OBVIOUS
<1> HIDE DEF t, gone, kept
<1>4. DOMAIN s.list = Levels /\ RootLevel \in Levels
  BY NodeSize DEF Listed
<1>5. /\ DOMAIN t.list = Levels /\ t.list[RootLevel] = Keep(s.list[RootLevel], kept)
      /\ \A l \in Levels : l # RootLevel => t.list[l] = s.list[l]
  BY <1>1, <1>4
<1>6. ASSUME NEW l \in Levels
      PROVE  Lists(t.list[l], Idle(t, {}, l), t.chunk)
  <2> DEFINE S == Idle(s, {}, l)
             T == Idle(t, {}, l)
  <2>1. Lists(s.list[l], S, s.chunk)
    BY DEF Listed
  <2>2. T = S \cap kept
    BY <1>1, <1>3 DEF Idle
  <2>3. \A a \in T : t.chunk[a].committed = s.chunk[a].committed
    BY <1>1, <2>2
  <2>4. l # RootLevel => T = S
    BY <1>2, <1>3, <2>2 DEF Idle
  <2> HIDE DEF S, T
  <2>5. CASE l = RootLevel
    BY <1>5, <2>1, <2>2, <2>3, <2>5, KeepLists, SameLines DEF T
  <2>6. CASE l # RootLevel
    BY <1>5, <2>1, <2>3, <2>4, <2>6, SameLines DEF T
  <2> QED
    BY <2>5, <2>6
<1> QED
  BY <1>5, <1>6 DEF Listed, t

\* Uncommitting all chunks of a list leaves it in order, and the lists of
\* smaller chunks are left alone.
LEMMA UncommitListedListed ==
  ASSUME NEW s, NEW other \in Int, Accounts(s, other), Listed(s, {})
  PROVE  Listed(UncommitListed(s), {})
<1> DEFINE t      == UncommitListed(s)
           walked == UNION {Range(s.list[l]) : l \in RootLevel..GranuleLevel}
           bare(a) == [s.chunk[a] EXCEPT !.committed = 0]
<1>1. /\ t.chunk = [a \in DOMAIN s.chunk |-> IF a \in walked THEN bare(a) ELSE s.chunk[a]]
      /\ t.list = s.list
  <2> HIDE DEF walked
  <2> QED
    BY DEF Accounts, Fields, UncommitListed, walked
<1>2. \A a \in DOMAIN s.chunk :
        /\ bare(a).level = s.chunk[a].level /\ bare(a).state = s.chunk[a].state
        /\ bare(a).committed = 0
  <2> SUFFICES ASSUME NEW a \in DOMAIN s.chunk
               PROVE  /\ bare(a).level = s.chunk[a].level /\ bare(a).state = s.chunk[a].state
                      /\ bare(a).committed = 0
    OBVIOUS
  <2>1. s.chunk[a] \in Metachunk
    BY ChunkOf
  <2> QED
    BY <2>1 DEF Metachunk
<1>3. RootLevel..GranuleLevel \subseteq Levels
  BY GeometryAssumption DEF Levels, RootLevel
<1>4. \A l \in RootLevel..GranuleLevel : Range(s.list[l]) = Idle(s, {}, l)
  BY <1>3 DEF Listed, Lists
<1>5. /\ \A l \in RootLevel..GranuleLevel : Idle(s, {}, l) \subseteq walked
      /\ \A a \in walked : s.chunk[a].level \in RootLevel..GranuleLevel
  <2>1. \A l \in RootLevel..GranuleLevel : \A a \in Idle(s, {}, l) : a \in walked
    BY <1>4
  <2>2. \A a \in walked : \E l \in RootLevel..GranuleLevel : a \in Idle(s, {}, l)
    BY <1>4
  <2> HIDE DEF walked
  <2> QED
    BY <2>1, <2>2 DEF Idle
<1> HIDE DEF t, walked, bare
<1>6. /\ DOMAIN t.chunk = DOMAIN s.chunk
      /\ \A a \in DOMAIN s.chunk : t.chunk[a] = IF a \in walked THEN bare(a) ELSE s.chunk[a]
  BY <1>1
<1>7. ASSUME NEW l \in Levels
      PROVE  Lists(t.list[l], Idle(t, {}, l), t.chunk)
  <2> DEFINE S == Idle(s, {}, l)
  <2>1. Lists(s.list[l], S, s.chunk)
    BY DEF Listed
  <2>2. \A a \in DOMAIN s.chunk : /\ t.chunk[a].level = s.chunk[a].level
                                  /\ t.chunk[a].state = s.chunk[a].state
    BY <1>2, <1>6
  <2>3. Idle(t, {}, l) = S
    BY <1>6, <2>2 DEF Idle
  <2>4. S \subseteq DOMAIN s.chunk /\ \A a \in S : s.chunk[a].level = l
    BY DEF Idle
  <2>5. CASE l \in RootLevel..GranuleLevel
    <3>1. \A a \in S : t.chunk[a].committed = 0
      BY <1>2, <1>5, <1>6, <2>4, <2>5
    <3> HIDE DEF S
    <3> QED
      BY <1>1, <2>1, <2>3, <3>1, BareLines
  <2>6. CASE l \notin RootLevel..GranuleLevel
    <3>1. \A a \in S : t.chunk[a].committed = s.chunk[a].committed
      BY <1>5, <1>6, <2>4, <2>6
    <3> HIDE DEF S
    <3> QED
      BY <1>1, <2>1, <2>3, <3>1, SameLines
  <2> QED
    BY <2>5, <2>6
<1>8. DOMAIN t.list = Levels
  BY <1>1 DEF Listed
<1> QED
  BY <1>7, <1>8 DEF Listed, t

-----------------------------------------------------------------------------
(* Lines and granules.                                                     *)

\* The n words from x on lie in granules of M.
Covered(M, x, n) == \A a \in Words(x, n) : a \div GranuleWords \in M

\* A rounded commit line is one, and does not fall behind.
LEMMA CommitLineFacts ==
  ASSUME NEW words \in Nat, NEW l \in Levels
  PROVE  LET line == CommitLine(words, l) IN
         /\ line \in Nat /\ line <= WordSize[l] /\ line <= AlignUp(words, GranuleWords)
         /\ \A w \in Nat : w <= words /\ w <= WordSize[l] => w <= line
         /\ line = WordSize[l] \/ IsAligned(line, GranuleWords)
<1> DEFINE up   == AlignUp(words, GranuleWords)
           line == CommitLine(words, l)
<1>1. /\ up \in Nat /\ WordSize[l] \in Nat /\ words <= up
      /\ IsAligned(up, GranuleWords)
  BY SizesPositive, AlignUpBounds
<1> HIDE DEF up
<1>2. Min({up, WordSize[l]}) = IF up <= WordSize[l] THEN up ELSE WordSize[l]
  BY <1>1, MinOfTwo
<1>3. line = IF up <= WordSize[l] THEN up ELSE WordSize[l]
  BY <1>2 DEF CommitLine, up
<1> HIDE DEF line
<1>4. line = up \/ line = WordSize[l]
  BY <1>3
<1>5. line = WordSize[l] \/ IsAligned(line, GranuleWords)
  BY <1>1, <1>4
<1>6. /\ line \in Nat /\ line <= WordSize[l] /\ line <= up
      /\ \A w \in Nat : w <= words /\ w <= WordSize[l] => w <= line
  BY <1>1, <1>3
<1> QED
  BY <1>5, <1>6 DEF line, up

\* Rounding the line of a block up adds no granule.
LEMMA RoundedCovered ==
  ASSUME NEW M, NEW x \in Nat, NEW l \in Levels, Block(x, l) = x,
         NEW words \in Nat, Covered(M, x, words)
  PROVE  Covered(M, x, CommitLine(words, l))
<1> DEFINE g    == GranuleWords
           up   == AlignUp(words, g)
           line == CommitLine(words, l)
<1> SUFFICES ASSUME NEW a \in Words(x, line)
             PROVE  a \div g \in M
  BY DEF Covered
<1>1. /\ line \in Nat /\ line <= WordSize[l] /\ line <= up
      /\ WordSize[l] \in Nat /\ g \in Nat \ {0} /\ GranuleLevel \in Levels
  BY CommitLineFacts, SizesPositive, GranuleBlock
<1>2. a \in Nat /\ x <= a /\ a < x + line /\ a \in Words(x, WordSize[l])
  <2> HIDE DEF line, g, up
  <2> QED
    BY <1>1 DEF Words
<1>3. words # 0
  <2> SUFFICES ASSUME words = 0
               PROVE  FALSE
    OBVIOUS
  <2>1. 0 % g = 0
    BY <1>1
  <2>2. AlignUp(0, g) <= 0
    <3>1. IsAligned(0, g)
      BY <2>1 DEF IsAligned
    <3> HIDE DEF g
    <3> QED
      BY <1>1, <3>1, AlignUpBelow
  <2>3. line <= 0
    BY <1>1, <2>2, AlignUpBounds
  <2> HIDE DEF line
  <2> QED
    BY <1>1, <1>2, <2>3
<1>4. CASE GranuleLevel <= l
  <2>1. a \div g = x \div g
    BY <1>2, <1>4, SmallInGranule
  <2>2. x \in Words(x, words)
    BY <1>3 DEF Words
  <2> QED
    BY <2>1, <2>2 DEF Covered
<1>5. CASE ~(GranuleLevel <= l)
  <2> DEFINE B == Block(a, GranuleLevel)
  <2>1. l <= GranuleLevel
    BY <1>1, <1>5, LevelRanges
  <2>2. IsAligned(x, g) /\ Block(x, GranuleLevel) = x
    BY <1>1, <2>1, LargeIsAligned, BlocksNest
  <2>3. /\ B \in Nat /\ IsAligned(B, g) /\ B <= a
        /\ \A y \in Nat : y \in Words(B, g) <=> y \div g = a \div g
    BY <1>1, <1>2, GranuleBlock, BlockBounds DEF IsAligned
  <2>4. B \div g = a \div g
    <3>1. B \in Words(B, g)
      <4> HIDE DEF B, g
      <4> QED
        BY <1>1, <2>3 DEF Words
    <3> QED
      BY <2>3, <3>1
  <2>5. x <= B
    <3> DEFINE i == x \div g
               j == a \div g
    <3>1. i \in Nat /\ j \in Nat /\ i <= j /\ x = i * g /\ B = j * g
      <4>1. x = (x \div g) * g /\ B = (B \div g) * g
        BY <1>1, <2>2, <2>3, AlignedIsMultiple
      <4> QED
        BY <1>1, <1>2, <2>4, <4>1, DivisionBounds, QuotientMonotone
    <3> HIDE DEF i, j, g, B
    <3>2. i * g <= j * g
      BY <1>1, <3>1
    <3> QED
      BY <3>1, <3>2
  <2>6. B - x < words
    <3> SUFFICES ASSUME ~(B - x < words)
                 PROVE  FALSE
      OBVIOUS
    <3>1. words <= B - x /\ B - x \in Nat
      BY <2>3, <2>5
    <3>2. IsAligned(B - x, g)
      BY <1>1, <2>2, <2>3, <2>5, AlignedDifference
    <3> DEFINE d == B - x
    <3>3. d \in Nat /\ words <= d /\ IsAligned(d, g) /\ d <= a - x
      <4>1. B - x <= a - x
        <5> HIDE DEF B
        <5> QED
          BY <1>2, <2>3
      <4> QED
        BY <3>1, <3>2, <4>1
    <3> HIDE DEF d, B, g
    <3>4. up <= d
      BY <1>1, <3>3, AlignUpBelow
    <3>5. up \in Nat
      BY <1>1, AlignUpBounds
    <3> HIDE DEF up, line
    <3> QED
      BY <1>1, <1>2, <3>3, <3>4, <3>5
  <2>7. B \in Words(x, words)
    <3> HIDE DEF B
    <3> QED
      BY <2>3, <2>5, <2>6 DEF Words
  <2> QED
    BY <2>4, <2>7 DEF Covered
<1> QED
  BY <1>4, <1>5

\* A chunk no smaller than a granule has its granules to itself.
LEMMA OtherGranules ==
  ASSUME NEW f, NEW H, Tiles(f, H), NEW b \in DOMAIN f, NEW c \in DOMAIN f, b # c,
         f[b].level <= GranuleLevel,
         NEW from \in Nat, NEW size \in Nat \ {0}, Words(from, size) \subseteq Extent(f, b),
         NEW a \in Extent(f, c)
  PROVE  a \div GranuleWords \notin GranulesOf(from, size)
<1> SUFFICES ASSUME NEW x \in Words(from, size), x \div GranuleWords = a \div GranuleWords
             PROVE  FALSE
  BY GranulesOfWords
<1>1. /\ b \in Nat /\ f[b].level \in Levels /\ Block(b, f[b].level) = b
      /\ Extent(f, b) = Words(b, WordSize[f[b].level])
      /\ a \in Nat
  BY ChunkOfTiling DEF Extent
<1>2. a \in Extent(f, b)
  BY <1>1, LargeOfGranules
<1> QED
  BY <1>2, HolderUnique

-----------------------------------------------------------------------------
(* The invariant.                                                          *)

\* The line of a chunk lies between what is used and its size, and on a
\* granule unless the whole chunk is committed; of free chunks nothing is used.
Line(c) ==
  /\ c.used >= 0 /\ c.used <= c.committed /\ c.committed <= WordSize[c.level]
  /\ c.state = "free" => c.used = 0
  /\ c.committed = WordSize[c.level] \/ IsAligned(c.committed, GranuleWords)

\* The chunk at b keeps its promises.
Stands(s, b) ==
  /\ Line(s.chunk[b])
  /\ Covered(s.mask, b, s.chunk[b].committed)
  /\ Words(b, s.chunk[b].used) \subseteq s.data

Backed(s) == \A b \in DOMAIN s.chunk : Stands(s, b)

\* A chunk that is left alone keeps them if its granules and data stay.
LEMMA FrameStands ==
  ASSUME NEW s, NEW b, Stands(s, b), NEW t, t.chunk[b] = s.chunk[b],
         \A a \in Words(b, s.chunk[b].committed) :
           a \div GranuleWords \in s.mask => a \div GranuleWords \in t.mask,
         \A a \in Words(b, s.chunk[b].used) : a \in s.data => a \in t.data
  PROVE  Stands(t, b)
BY DEF Stands, Covered

\* Where the words of a chunk that keeps its promises lie.
LEMMA StandingWords ==
  ASSUME NEW s, NEW other, Accounts(s, other), Tiled(s), NEW b \in DOMAIN s.chunk, Stands(s, b)
  PROVE  /\ s.chunk[b].used \in Nat
         /\ Words(b, s.chunk[b].used) \subseteq Words(b, s.chunk[b].committed)
         /\ Words(b, s.chunk[b].committed) \subseteq Extent(s.chunk, b)
         /\ Extent(s.chunk, b) \subseteq Nat
<1> DEFINE u == s.chunk[b].used
           c == s.chunk[b].committed
           w == SizeOf(s, b)
<1>1. /\ b \in Nat /\ w \in Nat /\ c \in Nat /\ u \in Int
      /\ Extent(s.chunk, b) = Words(b, w)
  BY TiledChunk DEF Metachunk
<1>2. 0 <= u /\ u <= c /\ c <= w
  BY DEF Stands, Line, SizeOf
<1> HIDE DEF u, c, w
<1>3. u \in Nat /\ Words(b, u) \subseteq Words(b, c) /\ Words(b, c) \subseteq Words(b, w)
      /\ Words(b, w) \subseteq Nat
  BY <1>1, <1>2 DEF Words
<1> QED
  BY <1>1, <1>3 DEF u, c

-----------------------------------------------------------------------------
(* One chunk changes.                                                      *)

\* Lists do not matter.
LEMMA ListBacked ==
  ASSUME NEW s, NEW other \in Int, Accounts(s, other), Backed(s), NEW b
  PROVE  Backed(Enlist(s, b)) /\ Backed(Delist(s, b))
<1>1. /\ Enlist(s, b).chunk = s.chunk /\ Enlist(s, b).mask = s.mask /\ Enlist(s, b).data = s.data
      /\ Delist(s, b).chunk = s.chunk /\ Delist(s, b).mask = s.mask /\ Delist(s, b).data = s.data
  BY DEF Accounts, Fields, Enlist, Delist
<1> QED
  BY <1>1 DEF Backed, Stands

\* Committing maps nothing afresh that a chunk keeps data in: other chunks are
\* in other granules, or in one that was not committed, and so is what lies
\* before the line of the chunk itself.
LEMMA CommitBacked ==
  ASSUME NEW s, NEW other \in Int, Accounts(s, other), Tiled(s), Backed(s),
         NEW b \in DOMAIN s.chunk,
         NEW words \in Nat, s.chunk[b].committed <= words, CanCommit(s, b, words)
  PROVE  Backed(CommitUpTo(s, b, words))
<1> DEFINE from  == s.chunk[b].committed
           to    == CommitTo(s, b, words)
           size  == to - from
           range == GranulesOf(b + from, size)
           l     == s.chunk[b].level
           t     == CommitUpTo(s, b, words)
           g     == GranuleWords
<1>1. /\ ChangeSpec(s, t, b) /\ t.chunk[b].state = s.chunk[b].state
      /\ t.chunk[b].used = s.chunk[b].used /\ t.chunk[b].committed = to
      /\ t.chunk[b].level = l
      /\ CommitEffect(s, t, b, to)
  BY CommitTiled DEF ChangeSpec
<1>2. /\ Tiles(s.chunk, Handed(s)) /\ b \in Nat /\ l \in Levels /\ Block(b, l) = b
      /\ Extent(s.chunk, b) = Words(b, WordSize[l]) /\ from \in Nat /\ WordSize[l] \in Nat
      /\ g \in Nat \ {0}
  BY TiledChunk, SizesPositive DEF SizeOf
<1>3. /\ Line(s.chunk[b]) /\ Covered(s.mask, b, from) /\ Words(b, s.chunk[b].used) \subseteq s.data
      /\ from <= WordSize[l] /\ s.chunk[b].used <= from
  BY DEF Backed, Stands, Line
<1>4. /\ to \in Nat /\ from <= to /\ to <= WordSize[l]
      /\ to = WordSize[l] \/ IsAligned(to, g)
  BY <1>2, <1>3, CommitLineFacts DEF CommitTo
<1> HIDE DEF t
<1>5. DOMAIN t.chunk = DOMAIN s.chunk /\ \A c \in DOMAIN s.chunk : c # b => t.chunk[c] = s.chunk[c]
  BY <1>1 DEF ChangeSpec
<1>6. Line(t.chunk[b])
  <2>1. s.chunk[b].used \in Int
    BY TiledChunk DEF Metachunk
  <2> HIDE DEF to, from, l, g
  <2> QED
    BY <1>1, <1>2, <1>3, <1>4, <2>1 DEF Line, l, g
<1>7. CASE to > from
  <2>1. RangeEffect(s, t, range)
    BY <1>1, <1>7 DEF CommitEffect
  <2>2. b + from \in Nat /\ size \in Nat \ {0} /\ Words(b + from, size) \subseteq Extent(s.chunk, b)
    <3>1. \A x \in Words(b + from, size) : x \in Words(b, WordSize[l])
      <4> HIDE DEF to, from, l
      <4> QED
        BY <1>2, <1>4, <1>7 DEF Words
    <3> HIDE DEF to, from, l
    <3> QED
      BY <1>2, <1>4, <1>7, <3>1
  <2>3. Covered(t.mask, b, to)
    <3> SUFFICES ASSUME NEW a \in Words(b, to)
                 PROVE  a \div g \in t.mask
      BY DEF Covered
    <3>1. a \in Words(b, from) \/ a \in Words(b + from, size)
      <4> HIDE DEF to, from
      <4> QED
        BY <1>2, <1>4, <1>7 DEF Words
    <3>2. a \in Words(b, from) => a \div g \in s.mask
      BY <1>3 DEF Covered
    <3>3. a \in Words(b + from, size) => a \div g \in range
      <4> HIDE DEF from, size
      <4> QED
        BY <2>2, GranulesOfWords DEF from, size
    <3> QED
      BY <2>1, <3>1, <3>2, <3>3 DEF RangeEffect
  <2>4. ASSUME NEW c \in DOMAIN s.chunk, NEW a \in Words(c, s.chunk[c].used), a \in s.data
        PROVE  a \in t.data
    <3> SUFFICES ASSUME NEW x0 \in range, x0 \notin s.mask
                 PROVE  a \div g \notin range
      BY <2>1, <2>4 DEF RangeEffect
    <3>1. /\ a \in Words(c, s.chunk[c].committed) /\ a \in Extent(s.chunk, c) /\ a \in Nat
          /\ s.chunk[c].used \in Nat
      BY StandingWords DEF Backed
    <3>2. a \div g \in s.mask
      BY <3>1 DEF Backed, Stands, Covered
    <3>3. CASE l <= GranuleLevel /\ c # b
      <4> HIDE DEF from, size
      <4> QED
        BY <1>2, <2>2, <3>1, <3>3, OtherGranules DEF from, size
    <3>4. CASE l <= GranuleLevel /\ c = b
      <4>1. IsAligned(b + from, g)
        <5>1. IsAligned(b, g)
          BY <1>2, <3>4, LargeIsAligned
        <5>2. from # WordSize[l]
          <6> HIDE DEF from, to, l
          <6> QED
            BY <1>2, <1>4, <1>7
        <5>3. IsAligned(from, g)
          BY <1>3, <5>2 DEF Line
        <5> HIDE DEF from, g
        <5> QED
          BY <1>2, <5>1, <5>3, AlignedSum
      <4> DEFINE y == b + from
                 q == y \div g
                 p == a \div g
      <4>2. y \in Nat /\ q \in Nat /\ y = q * g /\ p \in Nat /\ p * g <= a
        BY <1>2, <2>2, <3>1, <4>1, AlignedIsMultiple, DivisionBounds
      <4>3. a < p * g + g
        BY <1>2, <3>1, DivisionBounds
      <4>4. a < y
        <5> HIDE DEF from
        <5> QED
          BY <1>2, <1>3, <3>1, <3>4 DEF Words
      <4>5. \A z \in range : q <= z
        <5> SUFFICES ASSUME NEW z \in Words(y, size)
                     PROVE  q <= z \div g
          <6> HIDE DEF from, size, q
          <6> QED
            BY <2>2, GranulesOfWords DEF from, size
        <5>1. z \in Nat /\ y <= z
          <6> HIDE DEF y, size
          <6> QED
            BY <2>2, <4>2 DEF Words
        <5> HIDE DEF y, g
        <5> QED
          BY <1>2, <4>2, <5>1, QuotientMonotone
      <4>6. p < q
        <5> SUFFICES ASSUME q <= p
                     PROVE  FALSE
          BY <4>2
        <5> HIDE DEF p, q, g, y
        <5>1. q * g <= p * g
          BY <1>2, <4>2
        <5> QED
          BY <1>2, <3>1, <4>2, <4>4, <5>1
      <4>7. range \subseteq Nat
        <5> HIDE DEF from, size
        <5> QED
          BY <2>2, GranulesOfWords DEF from, size
      <4> HIDE DEF p, q, range
      <4> QED
        BY <4>2, <4>5, <4>6, <4>7 DEF p
    <3>5. CASE ~(l <= GranuleLevel)
      <4>1. \A z \in range : z = b \div g
        <5> SUFFICES ASSUME NEW z \in Words(b + from, size)
                     PROVE  z \div g = b \div g
          <6> HIDE DEF from, size
          <6> QED
            BY <2>2, GranulesOfWords DEF from, size
        <5>1. GranuleLevel <= l
          <6>1. GranuleLevel \in Int /\ l \in Int
            BY <1>2, GeometryAssumption DEF Levels
          <6> HIDE DEF l
          <6> QED
            BY <3>5, <6>1
        <5>2. z \in Words(b, WordSize[l])
          BY <1>2, <2>2
        <5> QED
          BY <1>2, <5>1, <5>2, SmallInGranule
      <4> QED
        BY <3>2, <4>1
    <3> QED
      BY <3>3, <3>4, <3>5
  <2>5. Stands(t, b)
    BY <1>1, <1>3, <1>6, <2>3, <2>4 DEF Stands
  <2>6. ASSUME NEW c \in DOMAIN s.chunk, c # b
        PROVE  Stands(t, c)
    <3>1. Stands(s, c)
      BY DEF Backed
    <3>2. t.chunk[c] = s.chunk[c]
      BY <1>5, <2>6
    <3>3. s.mask \subseteq t.mask
      BY <2>1 DEF RangeEffect
    <3> QED
      BY <2>4, <3>1, <3>2, <3>3, FrameStands
  <2> QED
    BY <1>5, <2>5, <2>6 DEF Backed, t
<1>8. CASE ~(to > from)
  <2>1. t.mask = s.mask /\ t.data = s.data
    BY <1>1, <1>8 DEF CommitEffect
  <2>2. to = from
    <3> HIDE DEF to, from
    <3> QED
      BY <1>2, <1>4, <1>8
  <2>3. Stands(t, b)
    BY <1>1, <1>3, <1>6, <2>1, <2>2 DEF Stands
  <2> QED
    BY <1>5, <2>1, <2>3 DEF Backed, Stands, t
<1> QED
  BY <1>7, <1>8

\* Uncommitting a free chunk no smaller than a granule takes no granule from
\* another chunk.
LEMMA UncommitBacked ==
  ASSUME NEW s, NEW other \in Int, Accounts(s, other), Tiled(s), Backed(s),
         NEW b \in DOMAIN s.chunk, s.chunk[b].state = "free", s.chunk[b].level <= GranuleLevel
  PROVE  Backed(Uncommit(s, b))
<1> DEFINE t     == Uncommit(s, b)
           w     == SizeOf(s, b)
           range == GranulesOf(b, w)
<1>1. /\ ChangeSpec(s, t, b)
      /\ t.chunk[b].state = s.chunk[b].state /\ t.chunk[b].committed = 0
      /\ t.chunk[b].used = s.chunk[b].used /\ t.chunk[b].level = s.chunk[b].level
      /\ t.mask = s.mask \ range
      /\ t.data = {a \in s.data : a \div GranuleWords \notin range}
  BY UncommitTiled DEF ChangeSpec
<1>2. /\ Tiles(s.chunk, Handed(s)) /\ b \in Nat /\ w \in Nat \ {0}
      /\ Extent(s.chunk, b) = Words(b, w) /\ s.chunk[b].level \in Levels
  BY TiledChunk
<1> HIDE DEF t, w
<1>3. DOMAIN t.chunk = DOMAIN s.chunk /\ \A c \in DOMAIN s.chunk : c # b => t.chunk[c] = s.chunk[c]
  BY <1>1 DEF ChangeSpec
<1>4. t.chunk[b].used = 0
  BY <1>1 DEF Backed, Stands, Line
<1>5. Stands(t, b)
  <2>1. Words(b, 0) = {}
    BY <1>2 DEF Words
  <2>2. Line(t.chunk[b])
    <3>1. WordSize[t.chunk[b].level] \in Nat /\ GranuleWords \in Nat \ {0}
      BY <1>1, <1>2, SizesPositive
    <3>2. IsAligned(0, GranuleWords)
      BY <3>1 DEF IsAligned
    <3> QED
      BY <1>1, <1>4, <3>1, <3>2 DEF Line
  <2> QED
    BY <1>1, <1>4, <2>1, <2>2 DEF Stands, Covered
<1>6. ASSUME NEW c \in DOMAIN s.chunk, c # b
      PROVE  Stands(t, c)
  <2>1. Stands(s, c)
    BY DEF Backed
  <2>2. /\ Words(c, s.chunk[c].used) \subseteq Words(c, s.chunk[c].committed)
        /\ Words(c, s.chunk[c].committed) \subseteq Extent(s.chunk, c)
    BY <2>1, StandingWords
  <2>3. \A a \in Extent(s.chunk, c) : a \div GranuleWords \notin range
    BY <1>2, <1>6, OtherGranules
  <2>4. t.chunk[c] = s.chunk[c]
    BY <1>3, <1>6
  <2>5. \A a \in Words(c, s.chunk[c].committed) :
          a \div GranuleWords \in s.mask => a \div GranuleWords \in t.mask
    BY <1>1, <2>2, <2>3
  <2>6. \A a \in Words(c, s.chunk[c].used) : a \in s.data => a \in t.data
    BY <1>1, <2>2, <2>3
  <2> QED
    BY <2>1, <2>4, <2>5, <2>6, FrameStands
<1> QED
  BY <1>3, <1>5, <1>6 DEF Backed, t

\* A chunk changes its state: it is freed, which drops its data and no other
\* chunk's, or taken into use.
LEMMA SetFreeBacked ==
  ASSUME NEW s, NEW other \in Int, Accounts(s, other), Tiled(s), Backed(s), NEW b \in DOMAIN s.chunk
  PROVE  Backed(SetFree(s, b))
<1> DEFINE t == SetFree(s, b)
<1>1. /\ ChangeSpec(s, t, b) /\ t.mask = s.mask
      /\ t.chunk[b].state = "free" /\ t.chunk[b].committed = s.chunk[b].committed
      /\ t.chunk[b].used = 0 /\ t.data = s.data \ Words(b, SizeOf(s, b))
      /\ t.chunk[b].level = s.chunk[b].level
  BY SetFreeTiled DEF ChangeSpec
<1>2. /\ Tiles(s.chunk, Handed(s)) /\ b \in Nat /\ s.chunk[b].committed \in Nat
      /\ Extent(s.chunk, b) = Words(b, SizeOf(s, b))
  BY TiledChunk
<1> HIDE DEF t
<1>3. DOMAIN t.chunk = DOMAIN s.chunk /\ \A c \in DOMAIN s.chunk : c # b => t.chunk[c] = s.chunk[c]
  BY <1>1 DEF ChangeSpec
<1>4. Stands(t, b)
  <2>1. Words(b, 0) = {}
    BY <1>2 DEF Words
  <2>2. Stands(s, b)
    BY DEF Backed
  <2>3. Line(t.chunk[b])
    BY <1>1, <1>2, <2>2 DEF Stands, Line
  <2> QED
    BY <1>1, <2>1, <2>2, <2>3 DEF Stands
<1>5. ASSUME NEW c \in DOMAIN s.chunk, c # b
      PROVE  Stands(t, c)
  <2>1. Stands(s, c)
    BY DEF Backed
  <2>2. Words(c, s.chunk[c].used) \subseteq Extent(s.chunk, c)
    BY <2>1, StandingWords
  <2>3. \A a \in Words(c, s.chunk[c].used) : a \notin Words(b, SizeOf(s, b))
    BY <1>2, <1>5, <2>2, HolderUnique
  <2>4. t.chunk[c] = s.chunk[c]
    BY <1>3, <1>5
  <2> QED
    BY <1>1, <2>1, <2>3, <2>4, FrameStands
<1> QED
  BY <1>3, <1>4, <1>5 DEF Backed, t

\* Nothing is lost when a chunk is taken into use.
LEMMA TakeBacked ==
  ASSUME NEW s, NEW other \in Int, Accounts(s, other), Tiled(s), Backed(s), NEW b \in DOMAIN s.chunk
  PROVE  Backed([s EXCEPT !.chunk[b].state = "inuse"])
<1> DEFINE t == [s EXCEPT !.chunk[b].state = "inuse"]
<1>1. /\ ChangeSpec(s, t, b) /\ t.mask = s.mask /\ t.data = s.data
      /\ t.chunk[b].state = "inuse" /\ t.chunk[b].committed = s.chunk[b].committed
      /\ t.chunk[b].used = s.chunk[b].used /\ t.chunk[b].level = s.chunk[b].level
  BY TakeTiled DEF ChangeSpec
<1> HIDE DEF t
<1>2. DOMAIN t.chunk = DOMAIN s.chunk /\ \A c \in DOMAIN s.chunk : c # b => t.chunk[c] = s.chunk[c]
  BY <1>1 DEF ChangeSpec
<1>3. Stands(t, b)
  BY <1>1 DEF Backed, Stands, Line
<1> QED
  BY <1>1, <1>2, <1>3 DEF Backed, Stands, t

\* Metachunk::allocate stays below the commit line.
LEMMA BumpBacked ==
  ASSUME NEW s, NEW other \in Int, Accounts(s, other), Tiled(s), Backed(s),
         NEW b \in DOMAIN s.chunk, s.chunk[b].state = "inuse", NEW size \in Nat,
         s.chunk[b].used + size <= s.chunk[b].committed
  PROVE  Backed(Bump(s, b, size))
<1> DEFINE t == Bump(s, b, size)
           u == s.chunk[b].used
<1>1. /\ ChangeSpec(s, t, b) /\ t.mask = s.mask
      /\ t.chunk[b].state = "inuse" /\ t.chunk[b].committed = s.chunk[b].committed
      /\ t.chunk[b].used = u + size /\ t.chunk[b].level = s.chunk[b].level
      /\ t.data = s.data \cup Words(b + u, size)
  BY BumpTiled DEF ChangeSpec
<1>2. b \in Nat /\ u \in Nat /\ Stands(s, b)
  BY TiledChunk, StandingWords DEF Backed
<1> HIDE DEF t
<1>3. DOMAIN t.chunk = DOMAIN s.chunk /\ \A c \in DOMAIN s.chunk : c # b => t.chunk[c] = s.chunk[c]
  BY <1>1 DEF ChangeSpec
<1>4. Stands(t, b)
  <2>1. Words(b, u + size) \subseteq Words(b, u) \cup Words(b + u, size)
    <3> HIDE DEF u
    <3> QED
      BY <1>2 DEF Words
  <2>2. Line(t.chunk[b])
    <3>1. Line(s.chunk[b])
      BY <1>2 DEF Stands
    <3>2. u + size >= 0
      <4> HIDE DEF u
      <4> QED
        BY <1>2
    <3> HIDE DEF u
    <3> QED
      BY <1>1, <3>1, <3>2 DEF Line, u
  <2>3. Words(b, t.chunk[b].used) \subseteq t.data
    <3>1. Words(b, u) \subseteq s.data
      BY <1>2 DEF Stands
    <3> QED
      BY <1>1, <2>1, <3>1
  <2> QED
    BY <1>1, <1>2, <2>2, <2>3 DEF Stands
<1>5. \A c \in DOMAIN s.chunk : c # b => Stands(t, c)
  <2>1. s.data \subseteq t.data
    BY <1>1
  <2> QED
    BY <1>1, <1>3, <2>1 DEF Backed, Stands
<1> QED
  BY <1>3, <1>4, <1>5 DEF Backed, t

-----------------------------------------------------------------------------
(* Chunks are cut and joined.                                              *)

\* Splitting hands out the committed words in front first, rounded.
LEMMA SplitBacked ==
  ASSUME NEW s, NEW other \in Int, Accounts(s, other), Tiled(s), Backed(s),
         NEW b \in DOMAIN s.chunk, s.chunk[b].state = "free",
         NEW target \in Levels, s.chunk[b].level <= target
  PROVE  Backed(Split(s, b, target))
<1> DEFINE t    == Split(s, b, target)
           cuts == Cuts(s, b, target)
           C    == s.chunk[b].committed
           l    == s.chunk[b].level
           g    == GranuleWords
<1>1. Accounts(t, other) /\ Tiled(t) /\ SplitSpec(s, b, target)
  BY SplitTiled
<1>2. /\ DOMAIN t.chunk = DOMAIN s.chunk \cup {b + WordSize[k] : k \in cuts}
      /\ t.chunk[b].level = target /\ t.chunk[b].committed = Min({C, WordSize[target]})
      /\ t.chunk[b].state = "free" /\ t.chunk[b].used = s.chunk[b].used
      /\ \A a \in DOMAIN s.chunk : a # b => t.chunk[a] = s.chunk[a]
      /\ \A k \in cuts : /\ t.chunk[b + WordSize[k]].level = k
                         /\ t.chunk[b + WordSize[k]].committed = Spill(s, b, k)
                         /\ t.chunk[b + WordSize[k]].state = "free"
                         /\ t.chunk[b + WordSize[k]].used = 0
      /\ t.mask = s.mask /\ t.data = s.data
  BY <1>1 DEF SplitSpec, Pieces
<1>3. /\ b \in Nat /\ l \in Levels /\ C \in Nat /\ g \in Nat \ {0}
      /\ WordSize[target] \in Nat /\ WordSize[l] \in Nat /\ WordSize[target] <= WordSize[l]
      /\ cuts \subseteq Levels
  BY TiledChunk, SizesPositive, SizesFall, LevelRanges DEF Cuts
<1>4. /\ Line(s.chunk[b]) /\ Covered(s.mask, b, C) /\ s.chunk[b].used = 0
      /\ C <= WordSize[l] /\ (C = WordSize[l] \/ IsAligned(C, g))
  BY DEF Backed, Stands, Line
<1> HIDE DEF t, cuts
<1>5. \A x \in Nat : Words(x, 0) = {}
  BY DEF Words
<1>6. Stands(t, b)
  <2> DEFINE line == t.chunk[b].committed
  <2>1. line = IF C <= WordSize[target] THEN C ELSE WordSize[target]
    <3> HIDE DEF C
    <3> QED
      BY <1>2, <1>3, MinOfTwo
  <2>2. line \in Nat /\ line <= C /\ line <= WordSize[target]
    <3> HIDE DEF line, C
    <3> QED
      BY <1>3, <2>1
  <2>3. line = WordSize[target] \/ IsAligned(line, g)
    <3>1. CASE C <= WordSize[target] /\ C = WordSize[l]
      <4> HIDE DEF line, C, l
      <4> QED
        BY <1>3, <2>1, <3>1
    <3>2. CASE C <= WordSize[target] /\ IsAligned(C, g)
      BY <2>1, <3>2
    <3>3. CASE ~(C <= WordSize[target])
      BY <2>1, <3>3
    <3> QED
      BY <1>4, <3>1, <3>2, <3>3
  <2>4. Words(b, line) \subseteq Words(b, C)
    <3> HIDE DEF line, C
    <3> QED
      BY <1>3, <2>2 DEF Words
  <2>5. Line(t.chunk[b])
    <3> HIDE DEF C, l
    <3> QED
      BY <1>2, <1>4, <2>2, <2>3 DEF Line
  <2> HIDE DEF C, l
  <2> QED
    BY <1>2, <1>3, <1>4, <1>5, <2>4, <2>5 DEF Stands, Covered
<1>7. ASSUME NEW k \in cuts
      PROVE  Stands(t, b + WordSize[k])
  <2> DEFINE x     == b + WordSize[k]
             line  == Min({C, WordSize[k - 1]})
             spill == Spill(s, b, k)
             w     == line - WordSize[k]
  <2>1. /\ k \in Levels /\ WordSize[k] \in Nat /\ k # RootLevel
        /\ k - 1 \in Levels /\ WordSize[k - 1] \in Nat
    <3>1. k \in Levels /\ l \in Nat /\ l < k
      <4>1. l \in Nat /\ k \in Levels /\ k \in (l + 1)..target
        BY <1>3, LevelRanges DEF cuts, Cuts
      <4> HIDE DEF l
      <4> QED
        BY <4>1
    <3>2. k # RootLevel
      <4> HIDE DEF l
      <4> QED
        BY <3>1 DEF RootLevel
    <3> QED
      BY <3>1, <3>2, Halving, SizesPositive
  <2>2. x \in DOMAIN t.chunk /\ x \in Nat /\ Block(x, k) = x
    <3>1. x \in DOMAIN t.chunk /\ t.chunk[x].level = k
      BY <1>2
    <3> HIDE DEF x
    <3> QED
      BY <1>1, <3>1, TiledChunk
  <2>3. line \in Int /\ line <= C
    <3> HIDE DEF C
    <3>1. line = IF C <= WordSize[k - 1] THEN C ELSE WordSize[k - 1]
      BY <1>3, <2>1, MinOfTwo
    <3> HIDE DEF line
    <3> QED
      BY <1>3, <2>1, <3>1
  <2>4. spill = IF line > WordSize[k] THEN CommitLine(w, k) ELSE 0
    BY DEF Spill
  <2>5. /\ spill \in Nat /\ spill <= WordSize[k]
        /\ spill = WordSize[k] \/ IsAligned(spill, g)
        /\ Covered(s.mask, x, spill)
    <3>1. CASE line > WordSize[k]
      <4>1. w \in Nat
        <5> HIDE DEF line
        <5> QED
          BY <2>1, <2>3, <3>1
      <4>2. Words(x, w) \subseteq Words(b, C)
        <5> HIDE DEF line, C
        <5> QED
          BY <1>3, <2>1, <2>3, <3>1 DEF Words
      <4>3. Covered(s.mask, x, w)
        BY <1>4, <4>2 DEF Covered
      <4>4. spill = CommitLine(w, k)
        BY <2>4, <3>1
      <4> HIDE DEF w, x, spill
      <4> QED
        BY <2>1, <2>2, <4>1, <4>3, <4>4, RoundedCovered, CommitLineFacts
    <3>2. CASE ~(line > WordSize[k])
      <4>1. spill = 0
        BY <2>4, <3>2
      <4>2. IsAligned(0, g)
        BY <1>3 DEF IsAligned
      <4> HIDE DEF spill, x
      <4> QED
        BY <1>5, <2>1, <2>2, <4>1, <4>2 DEF Covered
    <3> QED
      BY <3>1, <3>2
  <2>6. /\ t.chunk[x].level = k /\ t.chunk[x].committed = spill
        /\ t.chunk[x].state = "free" /\ t.chunk[x].used = 0
    BY <1>2
  <2> HIDE DEF x, spill
  <2>7. Line(t.chunk[x])
    BY <2>5, <2>6 DEF Line
  <2>8. Stands(t, x)
    BY <1>2, <1>5, <2>2, <2>5, <2>6, <2>7 DEF Stands
  <2> QED
    BY <2>8 DEF x
<1>8. \A a \in DOMAIN s.chunk : a # b => Stands(t, a)
  BY <1>2 DEF Backed, Stands
<1> QED
  BY <1>2, <1>6, <1>7, <1>8 DEF Backed, t

\* A chunk that claims its buddy claims the committed words behind its own.
LEMMA EnlargeBacked ==
  ASSUME NEW s, NEW other \in Int, Accounts(s, other), Tiled(s), Backed(s),
         NEW b \in DOMAIN s.chunk, CanEnlarge(s, b), s.chunk[b].state = "inuse"
  PROVE  Backed(Enlarge(s, b))
<1> DEFINE t     == Enlarge(s, b)
           l     == s.chunk[b].level
           buddy == Buddy(b, l)
           C     == s.chunk[b].committed
           D     == s.chunk[buddy].committed
           full  == C = SizeOf(s, b)
           line  == C + (IF full THEN D ELSE 0)
           u     == s.chunk[b].used
<1>1. EnlargeSpec(s, b)
  BY EnlargeTiled
<1>2. /\ DOMAIN t.chunk = DOMAIN s.chunk \ {buddy}
      /\ t.chunk[b].level = l - 1 /\ t.chunk[b].state = "inuse" /\ t.chunk[b].used = u
      /\ t.chunk[b].committed = CommitLine(line, l - 1)
      /\ \A a \in DOMAIN s.chunk \ {buddy} : a # b => t.chunk[a] = s.chunk[a]
      /\ t.mask = s.mask /\ t.data = s.data
  BY <1>1 DEF EnlargeSpec
<1>3. /\ l \in Levels /\ l # RootLevel /\ l - 1 \in Levels /\ buddy \in DOMAIN s.chunk
      /\ buddy # b /\ s.chunk[buddy].level = l
      /\ Block(b, l) = b /\ Block(b, l - 1) = b
  BY ClaimedBuddy DEF Tiled
<1>4. /\ b \in Nat /\ C \in Nat /\ D \in Nat /\ u \in Nat
      /\ SizeOf(s, b) = WordSize[l] /\ WordSize[l] \in Nat \ {0} /\ WordSize[l - 1] \in Nat
      /\ WordSize[l - 1] = 2 * WordSize[l]
  <2>1. b \in Nat /\ C \in Nat /\ SizeOf(s, b) \in Nat \ {0}
    BY TiledChunk
  <2>2. D \in Nat
    <3> HIDE DEF buddy
    <3> QED
      BY <1>3, TiledChunk
  <2>3. u \in Nat
    BY StandingWords DEF Backed
  <2>4. WordSize[l - 1] = 2 * WordSize[l] /\ WordSize[l - 1] \in Nat
    BY <1>3, Halving, SizesPositive
  <2> QED
    BY <2>1, <2>2, <2>3, <2>4 DEF SizeOf
<1>5. /\ Stands(s, b) /\ Stands(s, buddy)
      /\ u <= C /\ C <= WordSize[l] /\ D <= WordSize[l]
      /\ Covered(s.mask, b, C) /\ Covered(s.mask, buddy, D)
      /\ Words(b, u) \subseteq s.data
  BY <1>3 DEF Backed, Stands, Line
<1>6. buddy = b + WordSize[l]
  BY <1>3 DEF Buddy, CanEnlarge
<1> HIDE DEF t, l, C, D, u
<1>7. line \in Nat /\ C <= line /\ line <= WordSize[l - 1]
  BY <1>4, <1>5
<1>8. Covered(s.mask, b, line)
  <2> SUFFICES ASSUME NEW a \in Words(b, line)
               PROVE  a \div GranuleWords \in s.mask
    BY DEF Covered
  <2>1. a \in Words(b, C) \/ (full /\ a \in Words(buddy, D))
    BY <1>4, <1>6 DEF Words
  <2> QED
    BY <1>5, <2>1 DEF Covered
<1> HIDE DEF line, full, buddy
<1> DEFINE new == CommitLine(line, l - 1)
<1>9. /\ Covered(s.mask, b, new) /\ new \in Nat /\ new <= WordSize[l - 1] /\ C <= new
      /\ new = WordSize[l - 1] \/ IsAligned(new, GranuleWords)
  <2>1. C <= WordSize[l - 1]
    BY <1>4, <1>5
  <2> QED
    BY <1>3, <1>4, <1>7, <1>8, <2>1, RoundedCovered, CommitLineFacts
<1>10. Stands(t, b)
  <2> HIDE DEF new
  <2>1. t.chunk[b].committed = new /\ u <= new
    BY <1>2, <1>4, <1>5, <1>9 DEF new
  <2>2. Line(t.chunk[b])
    BY <1>2, <1>4, <1>9, <2>1 DEF Line
  <2> QED
    BY <1>2, <1>5, <1>9, <2>1, <2>2 DEF Stands
<1>11. \A a \in DOMAIN s.chunk \ {buddy} : a # b => Stands(t, a)
  BY <1>2 DEF Backed, Stands
<1> QED
  BY <1>2, <1>10, <1>11 DEF Backed, t

\* An aligned address that lies in the granule of b, not before b, is b.
LEMMA AlignedInGranule ==
  ASSUME NEW x \in Nat, NEW b \in Nat, x \div GranuleWords = b \div GranuleWords,
         x % GranuleWords = 0, b <= x
  PROVE  x = b
<1> DEFINE g == GranuleWords
           q == b \div g
<1>1. g \in Nat \ {0}
  BY SizesPositive
<1>2. x = q * g /\ q * g <= b
  BY <1>1, AlignedIsMultiple, DivisionBounds DEF IsAligned
<1> HIDE DEF q, g
<1> QED
  BY <1>2

\* The first word of a block that lies in the granule of a: a chunk smaller
\* than a granule holds it only by starting there.
FirstIn(base, a, x) ==
  /\ x \in Nat /\ x <= a /\ x \div GranuleWords = a \div GranuleWords
  /\ x = base \/ x % GranuleWords = 0
  /\ \A p \in Nat : \A k \in Levels :
       /\ Block(p, k) = p /\ base <= p /\ GranuleLevel <= k
       /\ x \in Words(p, WordSize[k])
       => p = x

\* There is one for every word of an aligned block.
LEMMA FirstOfGranule ==
  ASSUME NEW base \in Nat, NEW m \in Levels, Block(base, m) = base,
         NEW a \in Words(base, WordSize[m])
  PROVE  \E x \in Words(base, WordSize[m]) : FirstIn(base, a, x)
<1>1. /\ a \in Nat /\ base <= a /\ GranuleLevel \in Nat /\ m \in Nat
      /\ base \in Words(base, WordSize[m])
  <2>1. WordSize[m] \in Nat \ {0}
    BY SizesPositive
  <2> QED
    BY <2>1, GeometryAssumption DEF Words, Levels
<1>2. ASSUME NEW x \in Nat, x = base \/ x % GranuleWords = 0, NEW p \in Nat, NEW k \in Levels,
             Block(p, k) = p, base <= p, GranuleLevel <= k, x \in Words(p, WordSize[k])
      PROVE  p = x
  <2>1. p <= x
    <3>1. WordSize[k] \in Nat
      BY SizesPositive
    <3> QED
      BY <1>2, <3>1 DEF Words
  <2>2. CASE x = base
    BY <1>2, <2>1, <2>2
  <2>3. CASE x % GranuleWords = 0
    <3>1. x \div GranuleWords = p \div GranuleWords
      BY <1>2, SmallInGranule
    <3> QED
      BY <2>1, <2>3, <3>1, AlignedInGranule
  <2> QED
    BY <1>2, <2>2, <2>3
<1>3. CASE m <= GranuleLevel
  <2> DEFINE x == Block(a, GranuleLevel)
  <2>1. x \in Nat /\ x <= a /\ x % GranuleWords = 0 /\ x \div GranuleWords = a \div GranuleWords
    <3>1. /\ GranuleLevel \in Levels /\ x \in Nat /\ x % GranuleWords = 0
          /\ x \in Words(x, GranuleWords) => x \div GranuleWords = a \div GranuleWords
      BY <1>1, GranuleBlock
    <3>2. x \in Words(x, GranuleWords)
      <4> HIDE DEF x
      <4> QED
        BY <3>1, SizesPositive DEF Words
    <3>3. x <= a
      BY <1>1, <3>1, BlockBounds
    <3> QED
      BY <3>1, <3>2, <3>3
  <2> HIDE DEF x
  <2>2. x \in Words(base, WordSize[m])
    BY <1>3, <2>1, LargeOfGranules
  <2> QED
    BY <1>2, <2>1, <2>2 DEF FirstIn
<1>4. CASE ~(m <= GranuleLevel)
  <2>1. GranuleLevel <= m
    BY <1>1, <1>4
  <2>2. base \div GranuleWords = a \div GranuleWords
    BY <2>1, SmallInGranule
  <2> QED
    BY <1>1, <1>2, <2>2 DEF FirstIn
<1> QED
  BY <1>3, <1>4

\* Merging adds no promise: a part counts only if everything before it is
\* committed, and what rounding hides lies in a granule that is committed.
LEMMA MergeBacked ==
  ASSUME NEW s, NEW other \in Int, Accounts(s, other), Tiled(s), Backed(s),
         NEW b \in DOMAIN s.chunk
  PROVE  Backed(MergeAll(s, b))
<1> DEFINE t     == MergeAll(s, b)
           m     == MergeLevel(s, b)
           base  == Base(s, b)
           parts == Parts(s, b)
           M     == MergedCommitted(s, parts, base, m)
           line  == base + M
           g     == GranuleWords
           c(q)  == s.chunk[q].committed
           w(q)  == SizeOf(s, q)
           gaps  == {q \in parts : c(q) < w(q) /\ (q = base \/ q % g = 0)}
<1>1. MergeSpec(s, b) /\ Tiles(s.chunk, Handed(s))
  BY MergeTiled DEF Tiled
<1>2. /\ DOMAIN t.chunk = (DOMAIN s.chunk \ parts) \cup {base}
      /\ t.chunk[base].level = m /\ t.chunk[base].committed = M
      /\ t.chunk[base].state = "free" /\ t.chunk[base].used = 0
      /\ \A a \in DOMAIN s.chunk \ parts : a # base => t.chunk[a] = s.chunk[a]
      /\ t.mask = s.mask /\ t.data = s.data
  BY <1>1 DEF MergeSpec
<1>3. /\ parts \subseteq DOMAIN s.chunk /\ IsFiniteSet(parts) /\ m \in Levels /\ base \in Nat
      /\ \A q \in parts : base <= q
      /\ Block(base, m) = base
      /\ Words(base, WordSize[m]) = UNION {Extent(s.chunk, q) : q \in parts}
      /\ WordSize[m] \in Nat \ {0} /\ g \in Nat \ {0}
  BY <1>1, PartsBounds, JoinedBuddies, PartsCover, SizesPositive
<1>4. ASSUME NEW q \in parts
      PROVE  /\ q \in Nat /\ c(q) \in Nat /\ w(q) \in Nat \ {0} /\ c(q) <= w(q)
             /\ s.chunk[q].level \in Levels /\ Block(q, s.chunk[q].level) = q
             /\ w(q) = WordSize[s.chunk[q].level]
             /\ Extent(s.chunk, q) = Words(q, w(q))
             /\ Covered(s.mask, q, c(q))
             /\ c(q) = w(q) \/ IsAligned(c(q), g)
             /\ q \in Extent(s.chunk, q)
  <2>1. q \in DOMAIN s.chunk
    BY <1>3
  <2>2. Stands(s, q)
    BY <2>1 DEF Backed
  <2>3. q \in Extent(s.chunk, q)
    BY <1>1, <2>1, ChunkOfTiling
  <2> QED
    BY <2>1, <2>2, <2>3, TiledChunk DEF Stands, Line, SizeOf
<1>5. /\ M \in Nat /\ line <= base + WordSize[m]
      /\ \A q \in gaps : line <= q + c(q)
      /\ line = base + WordSize[m] \/ \E q \in gaps : line = q + c(q)
  <2>1. \A q \in parts : base <= q /\ s.chunk[q].committed >= 0
    BY <1>3, <1>4
  <2> HIDE DEF parts, base, m
  <2> QED
    BY <1>3, <2>1, MergedLine
<1> HIDE DEF t, m, base, parts, M, c, w
<1>6. M <= WordSize[m] /\ line \in Nat
  BY <1>3, <1>5
<1>7. Covered(s.mask, base, M)
  <2> SUFFICES ASSUME NEW a \in Words(base, M)
               PROVE  a \div g \in s.mask
    BY DEF Covered
  <2>1. a \in Nat /\ base <= a /\ a < line /\ a \in Words(base, WordSize[m])
    BY <1>3, <1>5, <1>6 DEF Words
  <2>2. PICK q \in parts : a \in Extent(s.chunk, q)
    BY <1>3, <2>1
  <2>3. /\ q \in Nat /\ c(q) \in Nat /\ w(q) \in Nat \ {0} /\ c(q) <= w(q)
        /\ s.chunk[q].level \in Levels /\ Block(q, s.chunk[q].level) = q
        /\ Extent(s.chunk, q) = Words(q, w(q)) /\ Covered(s.mask, q, c(q))
    BY <1>4
  <2>4. CASE c(q) = w(q)
    BY <2>2, <2>3, <2>4 DEF Covered
  <2>5. CASE q \in gaps
    <3>1. line <= q + c(q)
      BY <1>5, <2>5
    <3>2. a \in Words(q, c(q))
      <4> HIDE DEF line, gaps
      <4> QED
        BY <1>6, <2>1, <2>2, <2>3, <3>1 DEF Words
    <3> QED
      BY <2>3, <3>2 DEF Covered
  <2>6. CASE c(q) # w(q) /\ q \notin gaps
    <3>1. c(q) < w(q)
      BY <2>3, <2>6
    <3>2. q # base /\ q % g # 0
      BY <2>6, <3>1
    <3>3. ~(s.chunk[q].level <= GranuleLevel)
      BY <2>3, <3>2, LargeIsAligned DEF IsAligned
    <3>12. PICK x \in Words(base, WordSize[m]) : FirstIn(base, a, x)
      BY <1>3, <2>1, FirstOfGranule
    <3>4. /\ x \in Words(base, WordSize[m])
          /\ x \in Nat /\ x <= a /\ x \div g = a \div g
          /\ x = base \/ x % g = 0
          /\ \A p \in Nat : \A k \in Levels :
               /\ Block(p, k) = p /\ base <= p /\ GranuleLevel <= k
               /\ x \in Words(p, WordSize[k])
               => p = x
      BY <3>12 DEF FirstIn
    <3>5. PICK p \in parts : x \in Extent(s.chunk, p)
      BY <1>3, <3>4
    <3>6. /\ p \in Nat /\ c(p) \in Nat /\ w(p) \in Nat \ {0} /\ c(p) <= w(p)
          /\ s.chunk[p].level \in Levels /\ Block(p, s.chunk[p].level) = p
          /\ w(p) = WordSize[s.chunk[p].level]
          /\ Extent(s.chunk, p) = Words(p, w(p)) /\ Covered(s.mask, p, c(p))
          /\ c(p) = w(p) \/ IsAligned(c(p), g)
      BY <1>4
    <3>7. ~(s.chunk[p].level <= GranuleLevel)
      <4> SUFFICES ASSUME s.chunk[p].level <= GranuleLevel
                   PROVE  FALSE
        OBVIOUS
      <4>1. a \in Extent(s.chunk, p)
        BY <2>1, <3>4, <3>5, <3>6, LargeOfGranules
      <4>2. p = q
        BY <1>1, <1>3, <2>2, <4>1, HolderUnique
      <4> QED
        BY <3>3, <4>2
    <3>8. /\ GranuleLevel <= s.chunk[p].level /\ GranuleLevel < s.chunk[p].level
          /\ GranuleLevel \in Levels
      <4>1. GranuleLevel \in Int /\ s.chunk[p].level \in Int /\ GranuleLevel \in Levels
        BY <3>6, GeometryAssumption DEF Levels
      <4> QED
        BY <3>7, <4>1
    <3>9. p = x
      BY <1>3, <3>4, <3>5, <3>6, <3>8
    <3>10. c(p) = w(p)
      <4> SUFFICES ASSUME c(p) # w(p)
                   PROVE  FALSE
        OBVIOUS
      <4>1. IsAligned(c(p), g) /\ c(p) < w(p)
        BY <3>6
      <4>2. w(p) < g
        <5>1. 2 * WordSize[s.chunk[p].level] <= WordSize[GranuleLevel]
          BY <3>6, <3>8, SizesFall
        <5> QED
          BY <1>3, <3>6, <5>1 DEF GranuleWords
      <4>3. c(p) = 0
        <5>1. c(p) % g = 0 /\ c(p) \in Nat /\ c(p) < g
          BY <1>3, <3>6, <4>1, <4>2 DEF IsAligned
        <5> HIDE DEF g
        <5> QED
          BY <1>3, <5>1
      <4>4. p \in gaps
        BY <3>4, <3>9, <4>1
      <4>5. line <= p + c(p)
        BY <1>5, <4>4
      <4> HIDE DEF line
      <4> QED
        BY <1>6, <2>1, <3>4, <3>6, <3>9, <4>3, <4>5
    <3>11. p \in Words(p, c(p))
      BY <3>6, <3>10 DEF Words
    <3> QED
      BY <3>4, <3>6, <3>9, <3>11 DEF Covered
  <2> QED
    BY <2>4, <2>5, <2>6
<1>8. M = WordSize[m] \/ IsAligned(M, g)
  <2>1. CASE line = base + WordSize[m]
    BY <1>3, <1>5, <2>1
  <2>2. ASSUME NEW q \in gaps, line = q + c(q)
        PROVE  IsAligned(M, g)
    <3>1. /\ q \in parts /\ c(q) < w(q) /\ (q = base \/ q % g = 0)
      BY <2>2
    <3>2. /\ q \in Nat /\ c(q) \in Nat /\ w(q) \in Nat /\ q \in Extent(s.chunk, q)
          /\ c(q) = w(q) \/ IsAligned(c(q), g)
      BY <1>4, <3>1
    <3>3. IsAligned(c(q), g) /\ q \in Words(base, WordSize[m]) /\ base <= q
      BY <1>3, <3>1, <3>2
    <3>4. CASE q = base
      <4>1. M = c(q)
        BY <1>3, <1>5, <2>2, <3>2, <3>4
      <4> QED
        BY <3>3, <4>1
    <3>5. CASE q # base /\ m <= GranuleLevel
      <4>1. IsAligned(base, g) /\ IsAligned(q, g)
        BY <1>3, <3>1, <3>5, LargeIsAligned DEF IsAligned
      <4>2. IsAligned(q + c(q), g) /\ q + c(q) \in Nat
        BY <1>3, <3>2, <3>3, <4>1, AlignedSum
      <4> DEFINE y == q + c(q)
      <4>3. y \in Nat /\ base <= y /\ M = y - base
        BY <1>3, <1>5, <2>2, <3>2, <3>3
      <4> HIDE DEF y, g
      <4>4. IsAligned(y, g)
        BY <4>2 DEF y
      <4> QED
        BY <1>3, <4>1, <4>3, <4>4, AlignedDifference
    <3>6. CASE q # base /\ ~(m <= GranuleLevel)
      <4>1. GranuleLevel <= m
        <5>1. GranuleLevel \in Int /\ m \in Int
          BY <1>3, GeometryAssumption DEF Levels
        <5> QED
          BY <3>6, <5>1
      <4>2. q \div g = base \div g
        BY <1>3, <3>3, <4>1, SmallInGranule
      <4> QED
        BY <1>3, <3>1, <3>2, <3>3, <3>6, <4>2, AlignedInGranule
    <3> QED
      BY <3>4, <3>5, <3>6
  <2> QED
    BY <1>5, <2>1, <2>2
<1>9. Stands(t, base)
  <2>1. Words(base, 0) = {}
    BY <1>3 DEF Words
  <2>2. Line(t.chunk[base])
    BY <1>2, <1>5, <1>6, <1>8 DEF Line
  <2> QED
    BY <1>2, <1>7, <2>1, <2>2 DEF Stands
<1>10. \A a \in DOMAIN s.chunk \ parts : a # base => Stands(t, a)
  BY <1>2 DEF Backed, Stands
<1> QED
  BY <1>2, <1>9, <1>10 DEF Backed, t


-----------------------------------------------------------------------------
(* Operations.                                                             *)

\* A returned chunk keeps its promises merged, and uncommitted if it is that
\* large.
LEMMA ReturnChunkBacked ==
  ASSUME NEW s, NEW other \in Int, Accounts(s, other), Tiled(s), Backed(s),
         NEW b \in DOMAIN s.chunk
  PROVE  Backed(ReturnChunk(s, b))
<1> DEFINE freed  == SetFree(s, b)
           m      == MergeLevel(freed, b)
           base   == Block(b, m)
           merged == MergeAll(freed, b)
           lean   == IF UncommitFreeChunks /\ WordSize[m] >= GranuleWords
                       THEN Uncommit(merged, base) ELSE merged
<1>1. /\ Accounts(freed, other) /\ Tiled(freed) /\ Backed(freed) /\ ChangeSpec(s, freed, b)
  BY SetFreeTiled, SetFreeBacked
<1>2. b \in DOMAIN freed.chunk
  BY <1>1 DEF ChangeSpec
<1> HIDE DEF freed
<1>3. /\ Accounts(merged, other) /\ Tiled(merged) /\ Backed(merged)
      /\ base \in DOMAIN merged.chunk /\ MergeSpec(freed, b)
  BY <1>1, <1>2, MergeTiled, MergeBacked DEF Base
<1>4. /\ merged.chunk[base].state = "free" /\ merged.chunk[base].level = m
  BY <1>3 DEF MergeSpec, Base
<1>5. m \in Levels
  BY <1>1, <1>2, PartsBounds
<1> HIDE DEF merged, base, m
<1>6. Accounts(lean, other) /\ Backed(lean)
  <2>1. CASE WordSize[m] >= GranuleWords
    <3>1. m <= GranuleLevel
      <4> SUFFICES ASSUME ~(m <= GranuleLevel)
                   PROVE  FALSE
        OBVIOUS
      <4>1. GranuleLevel \in Levels /\ GranuleLevel \in Int /\ m \in Int
        BY <1>5, GeometryAssumption DEF Levels
      <4>2. GranuleLevel < m /\ GranuleLevel <= m
        BY <4>1
      <4>3. 2 * WordSize[m] <= WordSize[GranuleLevel]
        BY <1>5, <4>1, <4>2, SizesFall
      <4>4. WordSize[m] \in Nat \ {0} /\ WordSize[GranuleLevel] \in Nat
        BY <1>5, <4>1, SizesPositive
      <4> QED
        BY <2>1, <4>3, <4>4 DEF GranuleWords
    <3>2. Accounts(Uncommit(merged, base), other) /\ Backed(Uncommit(merged, base))
      BY <1>3, <1>4, <3>1, UncommitTiled, UncommitBacked
    <3> QED
      BY <1>3, <3>2
  <2>2. CASE ~(WordSize[m] >= GranuleWords)
    BY <1>3, <2>2
  <2> QED
    BY <2>1, <2>2
<1>7. ReturnChunk(s, b) = Enlist(lean, base)
  BY DEF ReturnChunk, freed, merged, base, m
<1> HIDE DEF lean
<1> QED
  BY <1>6, <1>7, ListBacked

\* get_chunk commits only what the request lacks.
LEMMA HandOutBacked ==
  ASSUME NEW s, NEW other \in Int, Accounts(s, other), Tiled(s), Backed(s),
         NEW b \in DOMAIN s.chunk, s.chunk[b].state = "free", NEW r \in LegalRequests
  PROVE  Backed(HandOut(s, b, r))
<1> DEFINE t    == Cut(s, b, r)
           want == ToCommit(t, b, r)
           full == IF Short(t, b, r) THEN CommitUpTo(t, b, want) ELSE t
           took == [full EXCEPT !.chunk[b].state = "inuse"]
           back == [t EXCEPT !.chunk[b].state = "inuse"]
<1>1. r.pref \in Levels /\ r.min \in Nat
  BY RequestFacts
<1>2. Accounts(t, other) /\ b \in DOMAIN t.chunk /\ Tiled(t) /\ Backed(t)
  <2>1. CASE s.chunk[b].level < r.pref
    <3>1. s.chunk[b].level <= r.pref
      <4>1. s.chunk[b].level \in Nat /\ r.pref \in Nat
        BY <1>1, ChunkOf, LevelRanges
      <4> QED
        BY <2>1, <4>1
    <3> DEFINE u == Split(s, b, r.pref)
    <3>2. Accounts(u, other) /\ b \in DOMAIN u.chunk
      BY <1>1, SplitAccounts
    <3>3. Tiled(u) /\ Backed(u)
      BY <1>1, <3>1, SplitTiled, SplitBacked
    <3>4. t = u
      BY <2>1 DEF Cut
    <3> QED
      BY <3>2, <3>3, <3>4
  <2>2. CASE ~(s.chunk[b].level < r.pref)
    BY <2>2 DEF Cut
  <2> QED
    BY <2>1, <2>2
<1> HIDE DEF t
<1>3. want \in Nat
  BY <1>1, <1>2, ChunkOf DEF ToCommit
<1>4. CASE Serves(s, b, r)
  <2>1. Short(t, b, r) => CanCommit(t, b, want)
    BY <1>4 DEF Serves, t
  <2>2. Accounts(full, other) /\ Tiled(full) /\ Backed(full) /\ b \in DOMAIN full.chunk
    <3>1. CASE Short(t, b, r)
      <4> DEFINE u == CommitUpTo(t, b, want)
      <4>1. t.chunk[b].committed <= want
        <5>1. t.chunk[b].committed < want /\ t.chunk[b].committed \in Nat
          BY <1>2, <3>1, TiledChunk DEF Short
        <5> HIDE DEF want
        <5> QED
          BY <1>3, <5>1
      <4>2. Accounts(u, other) /\ Tiled(u) /\ Backed(u) /\ b \in DOMAIN u.chunk
        <5> HIDE DEF want
        <5> QED
          BY <1>2, <1>3, <2>1, <3>1, <4>1, CommitTiled, CommitBacked DEF ChangeSpec
      <4>3. full = u
        BY <3>1
      <4> QED
        BY <4>2, <4>3
    <3>2. CASE ~Short(t, b, r)
      BY <1>2, <3>2
    <3> QED
      BY <3>1, <3>2
  <2>3. HandOut(s, b, r) = took
    BY <1>4 DEF HandOut, t
  <2> HIDE DEF full
  <2> QED
    BY <2>2, <2>3, TakeBacked
<1>5. CASE ~Serves(s, b, r)
  <2>1. Accounts(back, other) /\ Tiled(back) /\ b \in DOMAIN back.chunk
    <3>1. Accounts(back, other) /\ Tiled(back) /\ ChangeSpec(t, back, b)
      BY <1>2, TakeTiled
    <3> HIDE DEF back
    <3> QED
      BY <1>2, <3>1 DEF ChangeSpec
  <2>3. Backed(back)
    BY <1>2, TakeBacked
  <2>2. HandOut(s, b, r) = ReturnChunk(back, b)
    BY <1>5 DEF HandOut, t
  <2> HIDE DEF back
  <2> QED
    BY <2>1, <2>2, <2>3, ReturnChunkBacked
<1> QED
  BY <1>4, <1>5

\* A new root chunk promises nothing, and neither does a new node.
LEMMA RootChunkBacked ==
  ASSUME NEW s, NEW other \in Int, Accounts(s, other), Sound(s, {}), Backed(s),
         ~HeadIsFull(s), NEW b \in Int, b = NextRoot(s)
  PROVE  LET t == AllocateRootChunk(s, b) IN Backed(t) /\ t.chunk[b].state = "free"
<1> DEFINE t == AllocateRootChunk(s, b)
<1>1. /\ t.mask = s.mask /\ t.data = s.data
      /\ t.chunk = [a \in DOMAIN s.chunk \cup {b} |->
                      IF a = b THEN FreshChunk(RootLevel) ELSE s.chunk[a]]
  BY DEF Accounts, Fields, AllocateRootChunk
<1>2. b \notin DOMAIN s.chunk
  BY RootChunkSound
<1> HIDE DEF t
<1>3. /\ DOMAIN t.chunk = DOMAIN s.chunk \cup {b}
      /\ \A a \in DOMAIN s.chunk : t.chunk[a] = s.chunk[a]
      /\ t.chunk[b] = FreshChunk(RootLevel)
  BY <1>1, <1>2
<1>4. /\ t.chunk[b].level = RootLevel /\ t.chunk[b].state = "free"
      /\ t.chunk[b].committed = 0 /\ t.chunk[b].used = 0
  BY <1>3 DEF FreshChunk
<1>5. Stands(t, b)
  <2>1. Words(b, 0) = {}
    BY DEF Words
  <2>2. WordSize[RootLevel] \in Nat /\ IsAligned(0, GranuleWords)
    <3>1. GranuleWords \in Nat \ {0}
      BY SizesPositive
    <3>2. 0 % GranuleWords = 0
      BY <3>1
    <3> QED
      BY <3>2, NodeSize DEF IsAligned
  <2>3. Line(t.chunk[b])
    BY <1>4, <2>2 DEF Line
  <2> QED
    BY <1>4, <2>1, <2>3 DEF Stands, Covered
<1> QED
  BY <1>1, <1>3, <1>4, <1>5 DEF Backed, Stands, t

\* The same for a new node.
LEMMA NewNodeBacked ==
  ASSUME NEW s, NEW other \in Int, Accounts(s, other), Backed(s), NEW n
  PROVE  Backed(NewNode(s, n))
<1>1. /\ NewNode(s, n).chunk = s.chunk /\ NewNode(s, n).mask = s.mask
      /\ NewNode(s, n).data = s.data
  BY DEF Accounts, Fields, NewNode
<1> QED
  BY <1>1 DEF Backed, Stands


\* Purging a node leaves the chunks of the other nodes their granules: no
\* granule lies in two nodes.
LEMMA PurgeNodesBacked ==
  ASSUME NEW s, NEW other \in Int, Accounts(s, other), Tiled(s), Backed(s)
  PROVE  Backed(PurgeNodes(s))
<1> DEFINE t        == PurgeNodes(s)
           dead     == DeadNodes(s)
           gone     == {b \in DOMAIN s.chunk : b \div NodeWords \in dead}
           granules == s.mask \cap UNION {NodeGranules(n) : n \in dead}
<1>1. /\ t.chunk = [a \in DOMAIN s.chunk \ gone |-> s.chunk[a]]
      /\ t.mask = s.mask \ granules /\ t.data = s.data
  <2> HIDE DEF dead
  <2> QED
    BY DEF Accounts, Fields, PurgeNodes, dead
<1>2. dead \subseteq Nat
  <2>1. s.nodes \in Seq(Nodes) /\ dead \subseteq Range(s.nodes)
    BY DEF DeadNodes, Tiled, NodesSound
  <2>2. Range(s.nodes) \subseteq Nodes
    BY <2>1 DEF Range
  <2> QED
    BY <2>1, <2>2, NodeSize
<1> HIDE DEF t, dead
<1>3. ASSUME NEW b \in DOMAIN t.chunk
      PROVE  Stands(t, b)
  <2>1. b \in DOMAIN s.chunk /\ b \div NodeWords \notin dead /\ t.chunk[b] = s.chunk[b]
    BY <1>1
  <2>2. Stands(s, b)
    BY <2>1 DEF Backed
  <2>3. ASSUME NEW a \in Words(b, s.chunk[b].committed), NEW n \in dead,
               a \div GranuleWords \in NodeGranules(n)
        PROVE  FALSE
    <3>1. /\ b \in Nat /\ s.chunk[b].level \in Levels /\ Block(b, s.chunk[b].level) = b
          /\ a \in Extent(s.chunk, b)
      BY <2>1, <2>2, TiledChunk, StandingWords
    <3>2. a \in Nat /\ a \div NodeWords = b \div NodeWords
      BY <3>1, ChunkInNode DEF Extent
    <3>3. n \in Nat /\ NodeWords \in Nat \ {0} /\ n * NodeWords \in Nat
      BY <1>2, NodeSize
    <3>4. PICK x \in Words(n * NodeWords, NodeWords) : x \div GranuleWords = a \div GranuleWords
      BY <2>3, <3>3, GranulesOfWords DEF NodeGranules
    <3>5. x \in Nat /\ x \div NodeWords = n
      <4> DEFINE y == n * NodeWords
                 i == x - y
      <4>1. y \in Nat /\ x \in y..(y + NodeWords - 1)
        BY <3>3 DEF Words
      <4>2. i \in 0..(NodeWords - 1) /\ x = y + i
        <5> HIDE DEF y
        <5> QED
          BY <3>3, <4>1
      <4> HIDE DEF i
      <4> QED
        BY <3>3, <4>2, WordOfNode
    <3>6. a \div NodeWords = x \div NodeWords
      BY <3>2, <3>4, <3>5, GranuleOfOneNode
    <3> QED
      BY <2>1, <3>2, <3>5, <3>6
  <2>4. \A a \in Words(b, s.chunk[b].committed) :
          a \div GranuleWords \in s.mask => a \div GranuleWords \in t.mask
    BY <1>1, <2>3
  <2> QED
    BY <1>1, <2>1, <2>2, <2>4, FrameStands
<1> QED
  BY <1>3 DEF Backed, t

\* The second pass of purge uncommits free chunks no smaller than a granule,
\* which share their granules with nobody.
LEMMA UncommitListedBacked ==
  ASSUME NEW s, NEW other \in Int, Accounts(s, other), Tiled(s), Backed(s), Listed(s, {})
  PROVE  Backed(UncommitListed(s))
<1> DEFINE t      == UncommitListed(s)
           walked == UNION {Range(s.list[l]) : l \in RootLevel..GranuleLevel}
           blocks == UNION {GranulesOf(b, SizeOf(s, b)) : b \in walked}
           bare(a) == [s.chunk[a] EXCEPT !.committed = 0]
<1>1. /\ t.chunk = [a \in DOMAIN s.chunk |-> IF a \in walked THEN bare(a) ELSE s.chunk[a]]
      /\ t.mask = s.mask \ blocks /\ t.data = s.data
  <2> HIDE DEF walked
  <2> QED
    BY DEF Accounts, Fields, UncommitListed, walked
<1>2. ASSUME NEW a \in walked
      PROVE  /\ a \in DOMAIN s.chunk /\ s.chunk[a].state = "free"
             /\ s.chunk[a].level <= GranuleLevel
  <2>1. RootLevel..GranuleLevel \subseteq Levels
    BY GeometryAssumption DEF Levels, RootLevel
  <2>2. PICK l \in RootLevel..GranuleLevel : a \in Range(s.list[l])
    OBVIOUS
  <2>3. a \in Idle(s, {}, l) /\ l <= GranuleLevel
    BY <2>1, <2>2 DEF Listed, Lists
  <2> QED
    BY <2>3 DEF Idle
<1> HIDE DEF t, walked
<1>3. ASSUME NEW c \in DOMAIN s.chunk
      PROVE  Stands(t, c)
  <2>1. Stands(s, c)
    BY DEF Backed
  <2>2. CASE c \in walked
    <3>1. t.chunk[c] = bare(c) /\ s.chunk[c] \in Metachunk /\ s.chunk[c].state = "free"
      BY <1>1, <1>2, <2>2, ChunkOf
    <3>2. /\ t.chunk[c].level = s.chunk[c].level /\ t.chunk[c].state = "free"
          /\ t.chunk[c].committed = 0 /\ t.chunk[c].used = s.chunk[c].used
      BY <3>1 DEF Metachunk
    <3>3. s.chunk[c].used = 0
      BY <2>1, <3>1 DEF Stands, Line
    <3>4. Words(c, 0) = {}
      BY TiledChunk DEF Words
    <3>5. Line(t.chunk[c])
      <4>1. WordSize[s.chunk[c].level] \in Nat
        BY TiledChunk, SizesPositive
      <4>2. IsAligned(0, GranuleWords)
        <5>1. GranuleWords \in Nat \ {0}
          BY SizesPositive
        <5>2. 0 % GranuleWords = 0
          BY <5>1
        <5> QED
          BY <5>2 DEF IsAligned
      <4> QED
        BY <3>2, <3>3, <4>1, <4>2 DEF Line
    <3> QED
      BY <3>2, <3>3, <3>4, <3>5 DEF Stands, Covered
  <2>3. CASE c \notin walked
    <3>1. t.chunk[c] = s.chunk[c]
      BY <1>1, <2>3
    <3>2. ASSUME NEW a \in Words(c, s.chunk[c].committed), NEW b \in walked
          PROVE  a \div GranuleWords \notin GranulesOf(b, SizeOf(s, b))
      <4>1. a \in Extent(s.chunk, c)
        BY <2>1, StandingWords
      <4>2. /\ b \in DOMAIN s.chunk /\ s.chunk[b].level <= GranuleLevel /\ b # c
        BY <1>2, <2>3
      <4>3. /\ Tiles(s.chunk, Handed(s)) /\ b \in Nat /\ SizeOf(s, b) \in Nat \ {0}
            /\ Words(b, SizeOf(s, b)) = Extent(s.chunk, b)
        BY <4>2, TiledChunk
      <4> QED
        BY <4>1, <4>2, <4>3, OtherGranules
    <3>3. \A a \in Words(c, s.chunk[c].committed) :
            a \div GranuleWords \in s.mask => a \div GranuleWords \in t.mask
      BY <1>1, <3>2
    <3> QED
      BY <1>1, <2>1, <3>1, <3>3, FrameStands
  <2> QED
    BY <2>2, <2>3
<1> QED
  BY <1>1, <1>3 DEF Backed, t

-----------------------------------------------------------------------------
(* The theorems.                                                           *)

\* A search that looks at levels hits a list that is not empty.
LEMMA FittingHits ==
  ASSUME NEW s, NEW L, L \subseteq Levels, NEW n, Fitting(s, L, n) # {}
  PROVE  LET F == Fitting(s, L, n) IN
         /\ Min(F) \in L /\ s.list[Min(F)] # <<>>
         /\ Max(F) \in L /\ s.list[Max(F)] # <<>>
<1> DEFINE F == Fitting(s, L, n)
<1>1. F \subseteq L /\ \A l \in F : s.list[l] # <<>>
  BY DEF Fitting
<1>2. F \in SUBSET Int /\ IsFiniteSet(F)
  <2>1. IsFiniteSet(Levels) /\ Levels \subseteq Int
    BY GeometryAssumption, FS_Interval DEF Levels
  <2> QED
    BY <1>1, <2>1, FS_Subset
<1> HIDE DEF F
<1>3. Min(F) \in F /\ Max(F) \in F
  BY <1>2, MinExists, MaxExists DEF F
<1> QED
  BY <1>1, <1>3 DEF F

\* So do the five searches together, and at most the highest level asked for.
LEMMA SearchHits ==
  ASSUME NEW s, NEW r \in LegalRequests, SearchLevel(s, r) # NoLevel
  PROVE  /\ SearchLevel(s, r) \in RootLevel..r.max /\ SearchLevel(s, r) \in Levels
         /\ s.list[SearchLevel(s, r)] # <<>>
<1> DEFINE near      == Fitting(s, r.pref..Min({r.pref + 2, r.max}), r.min)
           larger    == Fitting(s, RootLevel..r.pref, r.min)
           smaller   == Fitting(s, r.pref..r.max, r.min)
           anySmall  == Fitting(s, r.pref..r.max, 0)
           anyLarge  == Fitting(s, RootLevel..r.pref, 0)
           asked     == RootLevel..r.max
<1>1. r.pref \in Levels /\ r.max \in Levels /\ r.pref <= r.max
  BY RequestFacts
<1>2. /\ r.pref..r.max \subseteq asked /\ RootLevel..r.pref \subseteq asked
      /\ r.pref..Min({r.pref + 2, r.max}) \subseteq asked /\ asked \subseteq Levels
  <2>1. r.pref + 2 \in Int /\ r.max \in Int
    BY <1>1 DEF Levels
  <2>2. Min({r.pref + 2, r.max}) = IF r.pref + 2 <= r.max THEN r.pref + 2 ELSE r.max
    BY <2>1, MinOfTwo
  <2> DEFINE top == Min({r.pref + 2, r.max})
             p   == r.pref
             q   == r.max
             h   == HighestLevel
  <2>3. p \in 0..h /\ q \in 0..h /\ p <= q /\ h \in Int /\ top \in Int /\ top <= q
    <3> HIDE DEF top
    <3> QED
      BY <1>1, <2>1, <2>2, GeometryAssumption DEF Levels, top
  <2> HIDE DEF top, p, q, h
  <2>4. p..q \subseteq 0..q /\ 0..p \subseteq 0..q /\ p..top \subseteq 0..q /\ 0..q \subseteq 0..h
    BY <2>3
  <2> QED
    BY <2>4 DEF Levels, RootLevel, top, p, q, h
<1>3. /\ near # {} => Min(near) \in asked /\ s.list[Min(near)] # <<>>
      /\ larger # {} => Max(larger) \in asked /\ s.list[Max(larger)] # <<>>
      /\ smaller # {} => Min(smaller) \in asked /\ s.list[Min(smaller)] # <<>>
      /\ anySmall # {} => Min(anySmall) \in asked /\ s.list[Min(anySmall)] # <<>>
      /\ anyLarge # {} => Max(anyLarge) \in asked /\ s.list[Max(anyLarge)] # <<>>
  <2> DEFINE F1 == r.pref..Min({r.pref + 2, r.max})
             F2 == RootLevel..r.pref
             F3 == r.pref..r.max
  <2>1. F1 \subseteq asked /\ F2 \subseteq asked /\ F3 \subseteq asked /\ asked \subseteq Levels
    BY <1>2
  <2> HIDE DEF F1, F2, F3, asked
  <2>2. F1 \subseteq Levels /\ F2 \subseteq Levels /\ F3 \subseteq Levels
    BY <2>1
  <2>3. near = Fitting(s, F1, r.min) /\ larger = Fitting(s, F2, r.min)
        /\ smaller = Fitting(s, F3, r.min)
        /\ anySmall = Fitting(s, F3, 0) /\ anyLarge = Fitting(s, F2, 0)
    BY DEF F1, F2, F3
  <2> HIDE DEF near, larger, smaller, anySmall, anyLarge
  <2>4. near # {} => Min(near) \in F1 /\ s.list[Min(near)] # <<>>
    BY <2>2, <2>3, FittingHits
  <2>5. larger # {} => Max(larger) \in F2 /\ s.list[Max(larger)] # <<>>
    BY <2>2, <2>3, FittingHits
  <2>6. smaller # {} => Min(smaller) \in F3 /\ s.list[Min(smaller)] # <<>>
    BY <2>2, <2>3, FittingHits
  <2>7. anySmall # {} => Min(anySmall) \in F3 /\ s.list[Min(anySmall)] # <<>>
    BY <2>2, <2>3, FittingHits
  <2>8. anyLarge # {} => Max(anyLarge) \in F2 /\ s.list[Max(anyLarge)] # <<>>
    BY <2>2, <2>3, FittingHits
  <2> QED
    BY <2>1, <2>4, <2>5, <2>6, <2>7, <2>8
<1>4. SearchLevel(s, r) = IF near # {} THEN Min(near)
                          ELSE IF larger # {} THEN Max(larger)
                          ELSE IF smaller # {} THEN Min(smaller)
                          ELSE IF anySmall # {} THEN Min(anySmall)
                          ELSE IF anyLarge # {} THEN Max(anyLarge)
                          ELSE NoLevel
  BY DEF SearchLevel
<1> HIDE DEF near, larger, smaller, anySmall, anyLarge
<1>5. SearchLevel(s, r) \in asked /\ s.list[SearchLevel(s, r)] # <<>>
  <2> HIDE DEF asked
  <2> QED
    BY <1>3, <1>4
<1> QED
  BY <1>2, <1>5

\* What a search finds is free.
LEMMA HeadIsFree ==
  ASSUME NEW s, Listed(s, {}), NEW r \in LegalRequests, SearchLevel(s, r) # NoLevel,
         NEW b, b = Head(s.list[SearchLevel(s, r)])
  PROVE  /\ b \in DOMAIN s.chunk /\ s.chunk[b].state = "free"
         /\ s.chunk[b].level \in RootLevel..r.max
<1> DEFINE l == SearchLevel(s, r)
<1>1. l \in RootLevel..r.max /\ l \in Levels /\ s.list[l] # <<>>
  BY SearchHits
<1> HIDE DEF l
<1>2. Lists(s.list[l], Idle(s, {}, l), s.chunk)
  BY <1>1 DEF Listed
<1>3. 1 \in DOMAIN s.list[l] /\ b = s.list[l][1]
  <2>1. s.list[l] \in Seq(Int)
    BY <1>2 DEF Lists
  <2> QED
    BY <1>1, <2>1 DEF l
<1>4. b \in Idle(s, {}, l)
  BY <1>2, <1>3 DEF Lists, Range
<1> QED
  BY <1>1, <1>4 DEF Idle

\* At the start there is no chunk, and all lists are empty.
LEMMA EmptyListed == Listed(EmptyContext, {})
<1> DEFINE new == EmptyContext
<1>1. new.chunk = [a \in {} |-> FreshChunk(RootLevel)] /\ new.list = [l \in Levels |-> <<>>]
  BY DEF EmptyContext
<1> HIDE DEF new
<1>2. ASSUME NEW l \in Levels
      PROVE  Lists(new.list[l], Idle(new, {}, l), new.chunk)
  <2>1. new.list[l] = <<>> /\ Idle(new, {}, l) = {}
    BY <1>1 DEF Idle
  <2>2. <<>> \in Seq(Int) /\ Len(<<>>) = 0 /\ DOMAIN <<>> = {}
    OBVIOUS
  <2>3. IsInjective(<<>>) /\ Range(<<>>) = {}
    BY <2>2 DEF IsInjective, Range
  <2>4. LinedUp(new.chunk, <<>>)
    BY <2>2 DEF LinedUp
  <2> QED
    BY <2>1, <2>2, <2>3, <2>4 DEF Lists
<1>3. DOMAIN new.list = Levels
  BY <1>1
<1> QED
  BY <1>2, <1>3 DEF Listed, new

-----------------------------------------------------------------------------
(* What it means.                                                          *)

\* The free lists of a context are exact.
LEMMA ListedExact ==
  ASSUME Listed(ctx, {})
  PROVE  FreelistsExact
<1> SUFFICES ASSUME NEW l \in Levels
             PROVE  /\ IsInjective(ctx.list[l])
                    /\ Range(ctx.list[l]) = {b \in DOMAIN ctx.chunk : IsChunk(ctx, b, l) /\ IsFree(ctx, b)}
                    /\ CommittedFirst(l)
  BY DEF FreelistsExact
<1>1. Lists(ctx.list[l], Idle(ctx, {}, l), ctx.chunk)
  BY DEF Listed
<1>2. Idle(ctx, {}, l) = {b \in DOMAIN ctx.chunk : IsChunk(ctx, b, l) /\ IsFree(ctx, b)}
  BY DEF Idle, IsChunk, IsFree
<1>3. DOMAIN ctx.list[l] = 1..Len(ctx.list[l])
  BY <1>1 DEF Lists
<1> QED
  BY <1>1, <1>2, <1>3 DEF Lists, LinedUp, CommittedFirst

\* Its commit lines and its data are as they should be.
LEMMA BackedLines ==
  ASSUME Backed(ctx)
  PROVE  CommitLineBacked /\ LiveDataIntact
<1>1. CommitLineBacked
  BY DEF Backed, Stands, Line, Covered, CommitLineBacked, SizeOf
<1>2. LiveDataIntact
  BY DEF Backed, Stands, LiveDataIntact, InUse
<1> QED
  BY <1>1, <1>2

-----------------------------------------------------------------------------
(* Chunks in use.                                                          *)

\* From s to t nothing changes for the owners of chunks, except perhaps of
\* those in X.
Keeps(s, t, X) ==
  /\ InUse(t) \ X = InUse(s) \ X
  /\ \A a \in InUse(s) \ X : /\ t.chunk[a].level = s.chunk[a].level
                             /\ t.chunk[a].used = s.chunk[a].used

\* Every word of metadata lies in the used part of a chunk in use.
Known(s) == \A a \in s.data : \E b \in InUse(s) : a \in Words(b, s.chunk[b].used)

\* What two steps keep they keep together.
LEMMA KeepsTwice ==
  ASSUME NEW s, NEW t, NEW u, NEW X, NEW Y, NEW Z, Keeps(s, t, X), Keeps(t, u, Y),
         X \subseteq Z, Y \subseteq Z
  PROVE  Keeps(s, u, Z)
BY DEF Keeps

\* Changes of one chunk concern its owner only, and not even its owner if it
\* stays in use as far as it is used.
LEMMA ChangeKeeps ==
  ASSUME NEW s, NEW t, NEW b, ChangeSpec(s, t, b)
  PROVE  /\ Keeps(s, t, {b})
         /\ /\ b \in DOMAIN s.chunk /\ t.chunk[b].state = s.chunk[b].state
            /\ t.chunk[b].used = s.chunk[b].used
            => Keeps(s, t, {})
<1>1. Keeps(s, t, {b})
  BY DEF Keeps, ChangeSpec, InUse
<1>2. ASSUME b \in DOMAIN s.chunk, t.chunk[b].state = s.chunk[b].state,
             t.chunk[b].used = s.chunk[b].used
      PROVE  Keeps(s, t, {})
  BY <1>2 DEF Keeps, ChangeSpec, InUse
<1> QED
  BY <1>1, <1>2

\* No metadata is lost that is known to lie in chunks nobody touches.
LEMMA DataKept ==
  ASSUME NEW s, NEW t, NEW X, Keeps(s, t, X), Known(s), Backed(t),
         X \cap InUse(s) = {}, t.data \subseteq s.data
  PROVE  t.data = s.data /\ Known(t)
<1>1. ASSUME NEW a \in s.data
      PROVE  \E b \in InUse(t) : a \in Words(b, t.chunk[b].used)
  <2>1. PICK b \in InUse(s) : a \in Words(b, s.chunk[b].used)
    BY DEF Known
  <2>2. b \in InUse(s) \ X
    BY <2>1
  <2>3. b \in InUse(t) /\ t.chunk[b].used = s.chunk[b].used
    BY <2>2 DEF Keeps
  <2> QED
    BY <2>1, <2>3
<1>2. ASSUME NEW a \in s.data
      PROVE  a \in t.data
  BY <1>1 DEF InUse, Backed, Stands
<1> QED
  BY <1>1, <1>2 DEF Known

-----------------------------------------------------------------------------
(* What the methods keep.                                                  *)

\* Filing a chunk under a list does not concern owners.
LEMMA ListKeeps ==
  ASSUME NEW s, NEW other \in Int, Accounts(s, other), NEW b
  PROVE  /\ Keeps(s, Enlist(s, b), {}) /\ Enlist(s, b).data = s.data
         /\ Keeps(s, Delist(s, b), {}) /\ Delist(s, b).data = s.data
         /\ Enlist(s, b).mask = s.mask /\ Delist(s, b).mask = s.mask
<1>1. /\ Enlist(s, b).chunk = s.chunk /\ Delist(s, b).chunk = s.chunk
      /\ Enlist(s, b).data = s.data /\ Delist(s, b).data = s.data
      /\ Enlist(s, b).mask = s.mask /\ Delist(s, b).mask = s.mask
  BY DEF Accounts, Fields, Enlist, Delist
<1> QED
  BY <1>1 DEF Keeps, InUse

\* Neither does cutting a free chunk: the pieces are free.
LEMMA SplitKeeps ==
  ASSUME NEW s, NEW other \in Int, Accounts(s, other), Tiled(s), NEW b \in DOMAIN s.chunk,
         s.chunk[b].state = "free", NEW target \in Levels, s.chunk[b].level <= target
  PROVE  LET t == Split(s, b, target) IN
         /\ Keeps(s, t, {}) /\ t.data = s.data /\ t.mask = s.mask
         /\ t.chunk[b].state = "free"
<1> DEFINE t    == Split(s, b, target)
           cuts == Cuts(s, b, target)
<1>1. /\ DOMAIN t.chunk = DOMAIN s.chunk \cup Pieces(s, b, target)
      /\ t.chunk[b].state = s.chunk[b].state
      /\ \A a \in DOMAIN s.chunk : a # b => t.chunk[a] = s.chunk[a]
      /\ \A k \in cuts : /\ b + WordSize[k] \notin DOMAIN s.chunk
                         /\ t.chunk[b + WordSize[k]].state = "free"
      /\ t.data = s.data /\ t.mask = s.mask
  <2>1. SplitSpec(s, b, target)
    BY SplitTiled
  <2> QED
    BY <2>1 DEF SplitSpec
<1>2. \A a \in Pieces(s, b, target) : a \notin DOMAIN s.chunk /\ t.chunk[a].state = "free"
  <2> HIDE DEF t
  <2> QED
    BY <1>1 DEF Pieces
<1> HIDE DEF t
<1>3. InUse(t) = InUse(s)
  BY <1>1, <1>2 DEF InUse
<1> QED
  BY <1>1, <1>3 DEF Keeps, InUse, t

\* Merging a free chunk with its free buddies takes nothing from anyone.
LEMMA MergeKeeps ==
  ASSUME NEW s, NEW other \in Int, Accounts(s, other), Tiled(s), NEW b \in DOMAIN s.chunk,
         s.chunk[b].state = "free"
  PROVE  LET t == MergeAll(s, b) IN
         Keeps(s, t, {}) /\ t.data = s.data /\ t.mask = s.mask
<1> DEFINE t     == MergeAll(s, b)
           parts == Parts(s, b)
           base  == Base(s, b)
<1>1. /\ DOMAIN t.chunk = (DOMAIN s.chunk \ parts) \cup {base}
      /\ t.chunk[base].state = "free"
      /\ \A a \in DOMAIN s.chunk \ parts : a # base => t.chunk[a] = s.chunk[a]
      /\ t.data = s.data /\ t.mask = s.mask /\ base \notin DOMAIN s.chunk \ parts
  BY MergeTiled DEF MergeSpec
<1>2. parts \subseteq DOMAIN s.chunk /\ \A a \in parts : s.chunk[a].state = "free"
  BY JoinedBuddies DEF Tiled, Parts
<1> HIDE DEF t, parts, base
<1>3. InUse(t) = InUse(s)
  BY <1>1, <1>2 DEF InUse
<1>4. \A a \in InUse(s) : t.chunk[a] = s.chunk[a]
  BY <1>1, <1>2 DEF InUse
<1> QED
  BY <1>1, <1>3, <1>4 DEF Keeps, t

\* A chunk that claims its free buddy stays in use, one level higher.
LEMMA EnlargeKeeps ==
  ASSUME NEW s, NEW other \in Int, Accounts(s, other), Tiled(s), NEW b \in DOMAIN s.chunk,
         CanEnlarge(s, b), s.chunk[b].state = "inuse"
  PROVE  LET t == Enlarge(s, b) IN
         /\ Keeps(s, t, {b}) /\ t.data = s.data /\ t.mask = s.mask
         /\ b \in InUse(t) /\ InUse(t) = InUse(s)
         /\ t.chunk[b].level = s.chunk[b].level - 1 /\ t.chunk[b].used = s.chunk[b].used
<1> DEFINE t     == Enlarge(s, b)
           buddy == Buddy(b, s.chunk[b].level)
<1>1. /\ DOMAIN t.chunk = DOMAIN s.chunk \ {buddy}
      /\ t.chunk[b].level = s.chunk[b].level - 1 /\ t.chunk[b].state = s.chunk[b].state
      /\ t.chunk[b].used = s.chunk[b].used /\ t.data = s.data /\ t.mask = s.mask
      /\ \A a \in DOMAIN s.chunk \ {buddy} : a # b => t.chunk[a] = s.chunk[a]
  <2>1. EnlargeSpec(s, b)
    BY EnlargeTiled
  <2> QED
    BY <2>1 DEF EnlargeSpec
<1>2. s.chunk[buddy].state = "free" /\ buddy # b
  BY ClaimedBuddy DEF Tiled
<1> HIDE DEF t, buddy
<1>3. InUse(t) = InUse(s) /\ b \in InUse(t)
  BY <1>1, <1>2 DEF InUse
<1>4. \A a \in InUse(s) \ {b} : t.chunk[a] = s.chunk[a]
  BY <1>1, <1>2 DEF InUse
<1> QED
  BY <1>1, <1>3, <1>4 DEF Keeps, t

\* Granules of part of a chunk are granules of the chunk.
LEMMA GranulesWithin ==
  ASSUME NEW from \in Nat, NEW size \in Nat \ {0}, NEW b \in Nat, NEW all \in Nat \ {0},
         Words(from, size) \subseteq Words(b, all)
  PROVE  GranulesOf(from, size) \subseteq GranulesOf(b, all)
<1>1. ASSUME NEW g \in GranulesOf(from, size)
      PROVE  g \in GranulesOf(b, all)
  <2>1. PICK a \in Words(from, size) : a \div GranuleWords = g
    BY GranulesOfWords
  <2> QED
    BY <2>1, GranulesOfWords
<1> QED
  BY <1>1

\* Committing adds no data and changes no owner's chunk but in its line.
LEMMA CommitKeeps ==
  ASSUME NEW s, NEW other \in Int, Accounts(s, other), Tiled(s), NEW b \in DOMAIN s.chunk,
         NEW words \in Nat, CanCommit(s, b, words)
  PROVE  LET t == CommitUpTo(s, b, words) IN
         /\ Keeps(s, t, {}) /\ t.data \subseteq s.data
         /\ t.chunk[b].state = s.chunk[b].state /\ t.chunk[b].used = s.chunk[b].used
         /\ t.mask \subseteq s.mask \cup GranulesOf(b, SizeOf(s, b))
<1> DEFINE t  == CommitUpTo(s, b, words)
           to == CommitTo(s, b, words)
           c  == s.chunk[b].committed
<1>1. /\ ChangeSpec(s, t, b) /\ CommitEffect(s, t, b, CommitTo(s, b, words))
      /\ t.chunk[b].state = s.chunk[b].state /\ t.chunk[b].used = s.chunk[b].used
  BY CommitTiled
<1> HIDE DEF t
<1>2. Keeps(s, t, {})
  BY <1>1, ChangeKeeps
<1>3. t.data \subseteq s.data
  BY <1>1 DEF CommitEffect, RangeEffect
<1>4. to > c => GranulesOf(b + c, to - c) \subseteq GranulesOf(b, SizeOf(s, b))
  <2> SUFFICES ASSUME to > c
               PROVE  GranulesOf(b + c, to - c) \subseteq GranulesOf(b, SizeOf(s, b))
    OBVIOUS
  <2> DEFINE all == SizeOf(s, b)
  <2>1. b \in Nat /\ c \in Nat /\ all \in Nat \ {0} /\ to \in Nat /\ to <= all
    BY TiledChunk, CommitLineBounds DEF CommitTo, SizeOf
  <2> HIDE DEF c, to, all
  <2>2. b + c \in Nat /\ to - c \in Nat \ {0} /\ Words(b + c, to - c) \subseteq Words(b, all)
    BY <2>1 DEF Words
  <2>3. GranulesOf(b + c, to - c) \subseteq GranulesOf(b, all)
    BY <2>1, <2>2, GranulesWithin
  <2> QED
    BY <2>3 DEF all
<1>5. t.mask \subseteq s.mask \cup GranulesOf(b, SizeOf(s, b))
  BY <1>1, <1>4 DEF CommitEffect, RangeEffect
<1> QED
  BY <1>1, <1>2, <1>3, <1>5 DEF t

\* Returning a chunk ends one ownership and touches no other.
LEMMA ReturnChunkKeeps ==
  ASSUME NEW s, NEW other \in Int, Accounts(s, other), Tiled(s), NEW b \in DOMAIN s.chunk
  PROVE  LET t == ReturnChunk(s, b) IN
         /\ Keeps(s, t, {b}) /\ b \notin InUse(t)
         /\ t.data \subseteq s.data \ Words(b, SizeOf(s, b)) /\ t.mask \subseteq s.mask
<1> DEFINE freed  == SetFree(s, b)
           m      == MergeLevel(freed, b)
           base   == Block(b, m)
           merged == MergeAll(freed, b)
           lean   == IF UncommitFreeChunks /\ WordSize[m] >= GranuleWords
                       THEN Uncommit(merged, base) ELSE merged
<1>1. /\ Accounts(freed, other) /\ Tiled(freed) /\ ChangeSpec(s, freed, b)
      /\ freed.chunk[b].state = "free" /\ freed.data = s.data \ Words(b, SizeOf(s, b))
      /\ freed.mask = s.mask
  BY SetFreeTiled
<1> HIDE DEF freed
<1>2. /\ b \in DOMAIN freed.chunk /\ Keeps(s, freed, {b}) /\ b \notin InUse(freed)
  BY <1>1, ChangeKeeps DEF ChangeSpec, InUse
<1>3. /\ Accounts(merged, other) /\ Tiled(merged) /\ base \in DOMAIN merged.chunk
      /\ Keeps(freed, merged, {}) /\ merged.data = freed.data
      /\ merged.mask = freed.mask
  BY <1>1, <1>2, MergeTiled, MergeKeeps DEF Base
<1> HIDE DEF merged, base, m
<1>4. Accounts(lean, other) /\ Keeps(merged, lean, {}) /\ lean.data \subseteq merged.data
      /\ lean.mask \subseteq merged.mask
  <2> DEFINE v == Uncommit(merged, base)
  <2>1. /\ Accounts(v, other) /\ ChangeSpec(merged, v, base)
        /\ v.chunk[base].state = merged.chunk[base].state
        /\ v.chunk[base].used = merged.chunk[base].used
        /\ v.data \subseteq merged.data /\ v.mask \subseteq merged.mask
    BY <1>3, UncommitTiled
  <2> HIDE DEF v
  <2>2. Keeps(merged, v, {}) /\ Keeps(merged, merged, {})
    BY <1>3, <2>1, ChangeKeeps DEF Keeps
  <2>3. lean = v \/ lean = merged
    BY DEF v
  <2> HIDE DEF lean
  <2> QED
    BY <1>3, <2>1, <2>2, <2>3
<1>5. ReturnChunk(s, b) = Enlist(lean, base)
  BY DEF ReturnChunk, freed, merged, base, m
<1> HIDE DEF lean
<1>6. Keeps(lean, Enlist(lean, base), {}) /\ Enlist(lean, base).data = lean.data
      /\ Enlist(lean, base).mask = lean.mask
  BY <1>4, ListKeeps
<1> DEFINE t == Enlist(lean, base)
<1> HIDE DEF t
<1>7. Keeps(freed, t, {})
  BY <1>3, <1>4, <1>6, KeepsTwice DEF t
<1>8. Keeps(s, t, {b}) /\ b \notin InUse(t)
  BY <1>2, <1>7, KeepsTwice DEF Keeps
<1> QED
  BY <1>1, <1>3, <1>4, <1>5, <1>6, <1>8 DEF t

\* What get_chunk does with the free chunk b, as owners see it: b goes to a
\* new owner, without data, or to nobody.
Given(s, t, b) ==
  /\ Keeps(s, t, {b}) /\ t.data \subseteq s.data
  /\ b \in InUse(t) => /\ t.chunk[b].used = 0
                      /\ t.mask \subseteq s.mask \cup GranulesOf(b, SizeOf(t, b))
  /\ b \notin InUse(t) => t.mask \subseteq s.mask

\* get_chunk cuts, commits and hands out one chunk, or takes it back.
LEMMA HandOutGives ==
  ASSUME NEW s, NEW other \in Int, Accounts(s, other), Tiled(s), Backed(s),
         NEW b \in DOMAIN s.chunk, s.chunk[b].state = "free", NEW r \in LegalRequests
  PROVE  Given(s, HandOut(s, b, r), b)
<1> DEFINE t    == Cut(s, b, r)
           want == ToCommit(t, b, r)
           full == IF Short(t, b, r) THEN CommitUpTo(t, b, want) ELSE t
           took == [full EXCEPT !.chunk[b].state = "inuse"]
           back == [t EXCEPT !.chunk[b].state = "inuse"]
<1>1. r.pref \in Levels /\ r.min \in Nat
  BY RequestFacts
<1>2. /\ Accounts(t, other) /\ b \in DOMAIN t.chunk /\ Tiled(t) /\ Backed(t)
      /\ Keeps(s, t, {}) /\ t.data = s.data /\ t.mask = s.mask
      /\ t.chunk[b].state = "free"
  <2>1. CASE s.chunk[b].level < r.pref
    <3>1. s.chunk[b].level <= r.pref
      <4>1. s.chunk[b].level \in Nat /\ r.pref \in Nat
        BY <1>1, ChunkOf, LevelRanges
      <4> QED
        BY <2>1, <4>1
    <3> DEFINE u == Split(s, b, r.pref)
    <3>2. Accounts(u, other) /\ b \in DOMAIN u.chunk
      BY <1>1, SplitAccounts
    <3>3. Tiled(u) /\ Backed(u)
      BY <1>1, <3>1, SplitTiled, SplitBacked
    <3>4. Keeps(s, u, {}) /\ u.data = s.data /\ u.mask = s.mask /\ u.chunk[b].state = "free"
      BY <1>1, <3>1, SplitKeeps
    <3>5. t = u
      BY <2>1 DEF Cut
    <3> QED
      BY <3>2, <3>3, <3>4, <3>5
  <2>2. CASE ~(s.chunk[b].level < r.pref)
    BY <2>2 DEF Cut, Keeps
  <2> QED
    BY <2>1, <2>2
<1> HIDE DEF t
<1>3. want \in Nat
  BY <1>1, <1>2, ChunkOf DEF ToCommit
<1>4. t.chunk[b].used = 0
  BY <1>2 DEF Backed, Stands, Line
<1>5. CASE Serves(s, b, r)
  <2>1. Short(t, b, r) => CanCommit(t, b, want)
    BY <1>5 DEF Serves, t
  <2>2. /\ Accounts(full, other) /\ Tiled(full) /\ b \in DOMAIN full.chunk
        /\ Keeps(t, full, {}) /\ full.data \subseteq t.data
        /\ full.chunk[b].used = 0 /\ full.chunk[b].level = t.chunk[b].level
        /\ full.mask \subseteq t.mask \cup GranulesOf(b, SizeOf(t, b))
    <3>1. CASE Short(t, b, r)
      <4> DEFINE u == CommitUpTo(t, b, want)
      <4>1. /\ Accounts(u, other) /\ Tiled(u) /\ b \in DOMAIN u.chunk
            /\ Keeps(t, u, {}) /\ u.data \subseteq t.data
            /\ u.chunk[b].used = t.chunk[b].used /\ u.chunk[b].level = t.chunk[b].level
            /\ u.mask \subseteq t.mask \cup GranulesOf(b, SizeOf(t, b))
        <5> HIDE DEF want
        <5> QED
          BY <1>2, <1>3, <2>1, <3>1, CommitTiled, CommitKeeps DEF ChangeSpec
      <4> HIDE DEF u
      <4>2. full = u
        BY <3>1 DEF u
      <4> QED
        BY <1>4, <4>1, <4>2
    <3>2. CASE ~Short(t, b, r)
      BY <1>2, <1>4, <3>2 DEF Keeps
    <3> QED
      BY <3>1, <3>2
  <2>3. HandOut(s, b, r) = took
    BY <1>5 DEF HandOut, t
  <2> HIDE DEF full
  <2>4. /\ ChangeSpec(full, took, b) /\ took.data = full.data
        /\ took.chunk[b].used = full.chunk[b].used /\ took.mask = full.mask
        /\ took.chunk[b].state = "inuse"
    BY <2>2, TakeTiled
  <2> HIDE DEF took
  <2>5. Keeps(full, took, {b}) /\ Keeps(s, full, {})
    BY <1>2, <2>2, <2>4, ChangeKeeps, KeepsTwice
  <2>6. Keeps(s, took, {b})
    BY <2>5, KeepsTwice
  <2>7. /\ took.mask \subseteq s.mask \cup GranulesOf(b, SizeOf(took, b))
        /\ b \in InUse(took) /\ took.data \subseteq s.data
    BY <1>2, <2>2, <2>4 DEF ChangeSpec, SizeOf, InUse
  <2> QED
    BY <2>2, <2>3, <2>4, <2>6, <2>7 DEF Given
<1>6. CASE ~Serves(s, b, r)
  <2>1. /\ Accounts(back, other) /\ Tiled(back) /\ ChangeSpec(t, back, b)
        /\ back.data = t.data /\ back.mask = t.mask
    BY <1>2, TakeTiled
  <2>2. HandOut(s, b, r) = ReturnChunk(back, b)
    BY <1>6 DEF HandOut, t
  <2> HIDE DEF back
  <2>3. b \in DOMAIN back.chunk /\ Keeps(t, back, {b})
    BY <1>2, <2>1, ChangeKeeps DEF ChangeSpec
  <2> DEFINE u == ReturnChunk(back, b)
  <2>4. Keeps(back, u, {b}) /\ b \notin InUse(u) /\ u.data \subseteq back.data
        /\ u.mask \subseteq back.mask
    BY <2>1, <2>3, ReturnChunkKeeps
  <2> HIDE DEF u
  <2>5. Keeps(t, u, {b})
    BY <2>3, <2>4, KeepsTwice
  <2>6. Keeps(s, u, {b})
    BY <1>2, <2>5, KeepsTwice
  <2> QED
    BY <1>2, <2>1, <2>2, <2>4, <2>6 DEF Given, u
<1> QED
  BY <1>5, <1>6

\* A new root chunk is free, and a new node has no chunks.
LEMMA RootChunkKeeps ==
  ASSUME NEW s, NEW other \in Int, Accounts(s, other), Sound(s, {}), ~HeadIsFull(s),
         NEW b \in Int, b = NextRoot(s)
  PROVE  Keeps(s, AllocateRootChunk(s, b), {}) /\ AllocateRootChunk(s, b).data = s.data
         /\ AllocateRootChunk(s, b).mask = s.mask
<1> DEFINE t == AllocateRootChunk(s, b)
<1>1. /\ t.data = s.data /\ t.mask = s.mask
      /\ t.chunk = [a \in DOMAIN s.chunk \cup {b} |->
                      IF a = b THEN FreshChunk(RootLevel) ELSE s.chunk[a]]
  BY DEF Accounts, Fields, AllocateRootChunk
<1>2. b \notin DOMAIN s.chunk
  BY RootChunkSound
<1> HIDE DEF t
<1>3. /\ DOMAIN t.chunk = DOMAIN s.chunk \cup {b}
      /\ \A a \in DOMAIN s.chunk : t.chunk[a] = s.chunk[a]
      /\ t.chunk[b].state = "free"
  BY <1>1, <1>2 DEF FreshChunk
<1> QED
  BY <1>1, <1>2, <1>3 DEF Keeps, InUse, t

\* The same for a new node.
LEMMA NewNodeKeeps ==
  ASSUME NEW s, NEW other \in Int, Accounts(s, other), NEW n
  PROVE  Keeps(s, NewNode(s, n), {}) /\ NewNode(s, n).data = s.data
         /\ NewNode(s, n).mask = s.mask
<1>1. NewNode(s, n).chunk = s.chunk /\ NewNode(s, n).data = s.data /\ NewNode(s, n).mask = s.mask
  BY DEF Accounts, Fields, NewNode
<1> QED
  BY <1>1 DEF Keeps, InUse

\* A node is purged only when all its chunks are free.
LEMMA PurgeNodesKeeps ==
  ASSUME NEW s, NEW other \in Int, Accounts(s, other), Tiled(s)
  PROVE  Keeps(s, PurgeNodes(s), {}) /\ PurgeNodes(s).data = s.data
         /\ PurgeNodes(s).mask \subseteq s.mask
<1> DEFINE t    == PurgeNodes(s)
           dead == DeadNodes(s)
           gone == {b \in DOMAIN s.chunk : b \div NodeWords \in dead}
<1>1. /\ t.chunk = [a \in DOMAIN s.chunk \ gone |-> s.chunk[a]]
      /\ t.data = s.data /\ t.mask \subseteq s.mask
  <2> HIDE DEF dead
  <2> QED
    BY DEF Accounts, Fields, PurgeNodes, dead
<1>2. ASSUME NEW b \in gone
      PROVE  s.chunk[b].state = "free"
  BY DeadChunks
<1> HIDE DEF t, gone
<1>3. InUse(t) = InUse(s)
  BY <1>1, <1>2 DEF InUse, gone
<1>4. \A a \in InUse(s) : t.chunk[a] = s.chunk[a]
  BY <1>1, <1>2 DEF InUse
<1> QED
  BY <1>1, <1>3, <1>4 DEF Keeps, t

\* Uncommitting what is listed lowers lines and nothing else.
LEMMA UncommitListedKeeps ==
  ASSUME NEW s, NEW other \in Int, Accounts(s, other)
  PROVE  Keeps(s, UncommitListed(s), {}) /\ UncommitListed(s).data = s.data
         /\ UncommitListed(s).mask \subseteq s.mask
<1> DEFINE t       == UncommitListed(s)
           walked  == UNION {Range(s.list[l]) : l \in RootLevel..GranuleLevel}
           bare(a) == [s.chunk[a] EXCEPT !.committed = 0]
<1>1. /\ t.chunk = [a \in DOMAIN s.chunk |-> IF a \in walked THEN bare(a) ELSE s.chunk[a]]
      /\ t.data = s.data /\ t.mask \subseteq s.mask
  <2> HIDE DEF walked
  <2> QED
    BY DEF Accounts, Fields, UncommitListed, walked
<1> HIDE DEF t, walked
<1>2. ASSUME NEW a \in DOMAIN s.chunk
      PROVE  /\ t.chunk[a].level = s.chunk[a].level /\ t.chunk[a].state = s.chunk[a].state
             /\ t.chunk[a].used = s.chunk[a].used
  <2>1. s.chunk[a] \in Metachunk
    BY ChunkOf
  <2>2. bare(a).level = s.chunk[a].level /\ bare(a).state = s.chunk[a].state
        /\ bare(a).used = s.chunk[a].used
    BY <2>1 DEF Metachunk
  <2> QED
    BY <1>1, <2>2
<1> QED
  BY <1>1, <1>2 DEF Keeps, InUse, t

-----------------------------------------------------------------------------
(* The ledger of a context.                                                *)

\* The chunks in use, with their sizes.
Holdings(s) == [b \in InUse(s) |-> SizeOf(s, b)]

\* A chunk in use is one the ledger may know, and shares no word with another.
LEMMA HoldingsApart ==
  ASSUME NEW s, NEW other \in Int, Accounts(s, other), Tiled(s), NEW b \in InUse(s)
  PROVE  /\ b \in Addresses /\ SizeOf(s, b) \in Range(WordSize)
         /\ \A c \in InUse(s) \ {b} : Words(b, SizeOf(s, b)) \cap Words(c, SizeOf(s, c)) = {}
<1>1. /\ b \in DOMAIN s.chunk /\ Tiles(s.chunk, Handed(s)) /\ s.chunk[b].level \in Levels
      /\ Extent(s.chunk, b) = Words(b, SizeOf(s, b))
  BY TiledChunk DEF InUse
<1>2. b \in Addresses
  <2>1. b \in Extent(s.chunk, b) /\ Extent(s.chunk, b) \subseteq Handed(s)
    BY <1>1, ChunkOfTiling
  <2> QED
    BY <2>1 DEF Handed
<1>3. SizeOf(s, b) \in Range(WordSize)
  <2>1. DOMAIN WordSize = Levels
    BY GeometryAssumption DEF Levels
  <2> QED
    BY <1>1, <2>1 DEF SizeOf, Range
<1>4. ASSUME NEW c \in InUse(s) \ {b}
      PROVE  Words(b, SizeOf(s, b)) \cap Words(c, SizeOf(s, c)) = {}
  <2>1. c \in DOMAIN s.chunk /\ Extent(s.chunk, c) = Words(c, SizeOf(s, c)) /\ c # b
    BY TiledChunk DEF InUse
  <2> QED
    BY <1>1, <2>1, HolderUnique
<1> QED
  BY <1>2, <1>3, <1>4

\* A step that keeps everybody's chunks and adds no data does not show.
LEMMA Steady ==
  ASSUME NEW s, NEW t, Keeps(s, t, {}), Known(s), Backed(t), t.data \subseteq s.data
  PROVE  Holdings(t) = Holdings(s) /\ t.data = s.data /\ Known(t)
<1>1. InUse(t) = InUse(s) /\ \A a \in InUse(s) : t.chunk[a].level = s.chunk[a].level
  BY DEF Keeps
<1>2. \A a \in InUse(s) : SizeOf(t, a) = SizeOf(s, a)
  BY <1>1 DEF SizeOf
<1>3. t.data = s.data /\ Known(t)
  BY DataKept
<1> QED
  BY <1>1, <1>2, <1>3 DEF Holdings

-----------------------------------------------------------------------------
(* What the context gives back.                                            *)

\* Root chunk areas are handed out whole.
LEMMA AreaHanded ==
  ASSUME NEW s, Tiled(s), NEW a \in Handed(s), NEW x \in Words(Block(a, RootLevel), WordSize[RootLevel])
  PROVE  x \in Handed(s)
<1> DEFINE n == a \div NodeWords
           w == WordSize[RootLevel]
<1>1. /\ a \in Nat /\ n \in Range(s.nodes) /\ a % NodeWords < s.used[n]
  BY DEF Handed, Addresses
<1>2. n \in Nodes
  <2>1. s.nodes \in Seq(Nodes)
    BY DEF Tiled, NodesSound
  <2> QED
    BY <1>1, <2>1 DEF Range
<1>3. PICK i \in Nat : s.used[n] = i * w
  BY <1>2 DEF Tiled, NodesSound
<1>4. PICK k \in 0..(RootsPerNode - 1) : Block(a, RootLevel) = n * NodeWords + k * w
  BY <1>1, AreaOfWord DEF Areas
<1>5. w \in Nat \ {0} /\ RootsPerNode \in Nat \ {0} /\ NodeWords = RootsPerNode * w
      /\ NodeWords \in Nat \ {0} /\ RootLevel \in Levels
  BY NodeSize, GeometryAssumption
<1>6. k \in Nat /\ k + 1 <= RootsPerNode
  BY <1>5
<1>7. k * w < NodeWords /\ k * w \in Nat
  <2>1. (k + 1) * w <= RootsPerNode * w /\ (k + 1) * w = k * w + w /\ k * w \in Nat
    <3> HIDE DEF w
    <3> QED
      BY <1>5, <1>6
  <2> QED
    BY <1>5, <2>1
<1> DEFINE b == n * NodeWords + k * w
<1>8. /\ b \in Nat /\ Words(b, w) \subseteq Addresses
      /\ \A c \in Nat : c \in Words(b, w) <=>
           c \div NodeWords = n /\ k * w <= c % NodeWords /\ c % NodeWords < k * w + w
  <2> HIDE DEF n
  <2> QED
    BY <1>2, <1>6, <1>7, NextRootChunk
<1>9. a \in Words(b, w) /\ x \in Words(b, w) /\ x \in Nat
  <2>1. Block(a, RootLevel) = b /\ b <= a /\ a < b + w
    BY <1>1, <1>4, <1>5, BlockBounds
  <2>2. x \in Words(b, w)
    BY <2>1
  <2> HIDE DEF b, w, n
  <2> QED
    BY <1>1, <1>5, <1>8, <2>1, <2>2 DEF Words
<1>10. k * w + w <= i * w
  <2>1. k * w < i * w
    <3> DEFINE y == a % NodeWords
               p == k * w
               q == i * w
    <3>1. p <= y /\ y < q /\ p \in Nat /\ y \in Nat /\ q \in Nat
      <4>1. y \in Nat
        BY <1>1, NodeOfWord
      <4>2. q \in Nat
        <5> HIDE DEF w
        <5> QED
          BY <1>5
      <4> QED
        BY <1>1, <1>3, <1>7, <1>8, <1>9, <4>1, <4>2
    <3> HIDE DEF y, p, q
    <3>2. p < q
      BY <3>1
    <3> QED
      BY <3>2 DEF p, q
  <2> HIDE DEF w
  <2>2. k < i
    BY <1>5, <1>6, <2>1
  <2>3. (k + 1) * w <= i * w /\ (k + 1) * w = k * w + w
    BY <1>5, <1>6, <2>2
  <2> QED
    BY <2>3
<1>11. x % NodeWords < s.used[n] /\ x \div NodeWords = n
  <2>1. x \div NodeWords = n /\ x % NodeWords < k * w + w /\ x % NodeWords \in Nat
    BY <1>8, <1>9, NodeOfWord
  <2>2. k * w + w \in Nat /\ i * w \in Nat
    BY <1>5, <1>6
  <2> DEFINE y == x % NodeWords
             p == k * w + w
             q == i * w
  <2> HIDE DEF y, p, q
  <2>3. y < q
    BY <1>10, <2>1, <2>2 DEF y, p, q
  <2> QED
    BY <1>3, <2>1, <2>3 DEF y, q
<1> QED
  BY <1>1, <1>8, <1>9, <1>11 DEF Handed

\* A block whose chunks are all free is one free chunk: the smallest chunk in
\* it has a buddy that holds nothing smaller, hence is a chunk, hence merged.
LEMMA IdleBlock ==
  ASSUME NEW s, NEW other \in Int, Accounts(s, other), Sound(s, {}), NEW b \in DOMAIN s.chunk,
         NEW l \in Levels, l <= s.chunk[b].level,
         \A c \in DOMAIN s.chunk :
           Extent(s.chunk, c) \cap Words(Block(b, l), WordSize[l]) # {} => s.chunk[c].state = "free"
  PROVE  s.chunk[b].level = l
<1> DEFINE B == Words(Block(b, l), WordSize[l])
           D == {c \in DOMAIN s.chunk : c \in B}
           L == {s.chunk[c].level : c \in D}
           m == Max(L)
<1>1. Tiled(s) /\ Merged(s, {}) /\ Tiles(s.chunk, Handed(s))
  BY DEF Sound, Tiled
<1>2. \A c \in DOMAIN s.chunk : /\ c \in Nat /\ s.chunk[c].level \in Levels
                                /\ Block(c, s.chunk[c].level) = c
                                /\ c \in Extent(s.chunk, c) /\ c \in Handed(s)
                                /\ Extent(s.chunk, c) = Words(c, WordSize[s.chunk[c].level])
  BY <1>1, ChunkOfTiling DEF Extent
<1>3. b \in D
  <2>1. Block(b, l) \in Nat /\ Block(b, l) <= b /\ b < Block(b, l) + WordSize[l] /\ b \in Nat
        /\ WordSize[l] \in Nat
    BY <1>2, BlockBounds, SizesPositive
  <2> QED
    BY <2>1 DEF Words
<1>4. m \in L /\ \A k \in L : k <= m
  <2>1. L \subseteq Levels /\ L # {}
    BY <1>2, <1>3
  <2>2. IsFiniteSet(Levels) /\ Levels \subseteq Int
    BY GeometryAssumption, FS_Interval DEF Levels
  <2>3. IsFiniteSet(L) /\ L \in SUBSET Int
    BY <2>1, <2>2, FS_Subset
  <2> HIDE DEF L
  <2> QED
    BY <2>1, <2>3, MaxExists
<1>5. PICK c \in D : s.chunk[c].level = m
  BY <1>4
<1>6. m \in Levels /\ c \in Nat /\ Block(c, m) = c /\ s.chunk[b].level <= m
  BY <1>2, <1>3, <1>4, <1>5
<1> SUFFICES ASSUME l # s.chunk[b].level
             PROVE  FALSE
  OBVIOUS
<1>7. l < m /\ m # RootLevel /\ l \in Nat /\ m \in Nat
  <2>1. l \in Nat /\ m \in Nat /\ s.chunk[b].level \in Nat
    BY <1>2, <1>6, LevelRanges
  <2> HIDE DEF m
  <2> QED
    BY <1>6, <2>1 DEF RootLevel
<1> DEFINE y == Buddy(c, m)
<1> HIDE DEF m
<1>8. y \in Nat /\ Block(y, m) = y /\ y \in Words(y, WordSize[m])
  <2>1. y \in Nat /\ Block(y, m) = y /\ WordSize[m] \in Nat \ {0}
    BY <1>6, <1>7, BuddyOfBuddy, SizesPositive
  <2> HIDE DEF y
  <2> QED
    BY <2>1 DEF Words
<1>9. ASSUME NEW k \in Levels, k < m
      PROVE  y \in Words(Block(c, k), WordSize[k]) /\ c \in Words(Block(c, k), WordSize[k])
  <2>1. k <= m /\ m \in (k + 1)..m
    BY <1>6, <1>9 DEF Levels
  <2>2. Words(Block(c, k), WordSize[k])
          = Words(c, WordSize[m]) \cup (UNION {Words(Buddy(c, j), WordSize[j]) : j \in (k + 1)..m})
    BY <1>6, <2>1, BuddiesFillBlock
  <2>3. c \in Words(c, WordSize[m])
    BY <1>2, <1>5
  <2> QED
    BY <1>8, <2>1, <2>2, <2>3
<1>10. y \in B
  <2>1. Block(c, l) = Block(b, l)
    <3>1. Block(b, l) \in Nat /\ Block(Block(b, l), l) = Block(b, l)
      BY <1>2, BlockBounds
    <3>2. c \in Words(Block(b, l), WordSize[l]) /\ WordSize[l] \in Nat
      BY <1>5, SizesPositive
    <3>3. Block(b, l) <= c /\ c < Block(b, l) + WordSize[l]
      BY <3>1, <3>2, <1>6 DEF Words
    <3> QED
      BY <1>6, <3>1, <3>3, BlockOfWord
  <2> QED
    BY <1>7, <1>9, <2>1
<1>11. y \in Handed(s)
  <2>1. RootLevel \in Levels /\ RootLevel < m
    BY <1>6, <1>7, NodeSize DEF RootLevel, Levels
  <2>2. c \in Handed(s)
    BY <1>2, <1>5
  <2> QED
    BY <1>1, <1>9, <2>1, <2>2, AreaHanded
<1>12. PICK d \in DOMAIN s.chunk : y \in Extent(s.chunk, d)
  BY <1>1, <1>11 DEF Tiles
<1>13. s.chunk[d].state = "free" /\ s.chunk[c].state = "free"
  BY <1>2, <1>5, <1>10, <1>12
<1> DEFINE k == s.chunk[d].level
<1>14. k \in Levels /\ d \in Nat /\ Block(d, k) = d /\ y \in Words(d, WordSize[k])
  BY <1>2, <1>12
<1>15. k >= m
  <2> SUFFICES ASSUME k < m
               PROVE  FALSE
    BY <1>6, <1>14 DEF Levels
  <2>1. y \in Words(Block(c, k), WordSize[k]) /\ c \in Words(Block(c, k), WordSize[k])
    BY <1>9, <1>14
  <2>2. Block(c, k) \in Nat /\ Block(Block(c, k), k) = Block(c, k)
    BY <1>6, <1>14, BlockBounds
  <2>3. Block(c, k) = d
    <3> HIDE DEF y, k
    <3> QED
      BY <1>14, <2>1, <2>2, BlocksMeet
  <2>4. c \in Extent(s.chunk, d) /\ c \in Extent(s.chunk, c)
    BY <1>2, <1>5, <2>1, <2>3
  <2>5. c = d
    BY <1>1, <1>5, <2>4, HolderUnique
  <2> QED
    BY <1>5, <1>6, <2>5 DEF Levels
<1>16. d = y
  <2>1. Block(y, k) = y
    <3> HIDE DEF y, k
    <3> QED
      BY <1>6, <1>8, <1>14, <1>15, BlocksNest
  <2>2. y \in Words(y, WordSize[k])
    <3>1. WordSize[k] \in Nat \ {0}
      BY <1>14, SizesPositive
    <3> HIDE DEF y, k
    <3> QED
      BY <1>8, <3>1 DEF Words
  <2> HIDE DEF y, k
  <2> QED
    BY <1>8, <1>14, <2>1, <2>2, BlocksMeet
<1>17. k = m
  <2>1. k <= m
    BY <1>4, <1>10, <1>12, <1>16 DEF m
  <2> QED
    BY <1>6, <1>14, <1>15, <2>1 DEF Levels
<1>18. Mergeable(s, c)
  BY <1>5, <1>7, <1>12, <1>13, <1>16, <1>17 DEF Mergeable, Joins, IsChunk, IsFree
<1> QED
  BY <1>1, <1>5, <1>18 DEF Merged

\* A granule is committed only while a chunk in use lies in it.
Lean(s) ==
  UncommitFreeChunks => \A g \in s.mask : \E b \in InUse(s) : g \in GranulesOf(b, SizeOf(s, b))

\* That stays so when nothing is committed and nobody loses a chunk.
LEMMA SteadyLean ==
  ASSUME NEW s, NEW t, NEW X, Keeps(s, t, X), X \cap InUse(s) = {}, t.mask \subseteq s.mask, Lean(s)
  PROVE  Lean(t)
<1> SUFFICES ASSUME UncommitFreeChunks, NEW g \in t.mask
             PROVE  \E b \in InUse(t) : g \in GranulesOf(b, SizeOf(t, b))
  BY DEF Lean
<1>1. PICK b \in InUse(s) : g \in GranulesOf(b, SizeOf(s, b))
  BY DEF Lean
<1>2. b \in InUse(s) \ X
  BY <1>1
<1>3. b \in InUse(t) /\ SizeOf(t, b) = SizeOf(s, b)
  BY <1>2 DEF Keeps, SizeOf
<1> QED
  BY <1>1, <1>3

\* It stays so when get_chunk commits part of the chunk it gives away.
LEMMA GivenLean ==
  ASSUME NEW s, NEW t, NEW b, b \notin InUse(s), Given(s, t, b), Lean(s)
  PROVE  Lean(t)
<1>1. CASE b \notin InUse(t)
  BY <1>1, SteadyLean DEF Given
<1>2. CASE b \in InUse(t)
  <2> SUFFICES ASSUME UncommitFreeChunks, NEW g \in t.mask
               PROVE  \E c \in InUse(t) : g \in GranulesOf(c, SizeOf(t, c))
    BY DEF Lean
  <2>1. CASE g \in GranulesOf(b, SizeOf(t, b))
    BY <1>2, <2>1
  <2>2. CASE g \in s.mask
    <3>1. PICK c \in InUse(s) : g \in GranulesOf(c, SizeOf(s, c))
      BY <2>2 DEF Lean
    <3>2. c \in InUse(s) \ {b}
      BY <3>1
    <3>3. c \in InUse(t) /\ SizeOf(t, c) = SizeOf(s, c)
      BY <3>2 DEF Given, Keeps, SizeOf
    <3> QED
      BY <3>1, <3>3
  <2> QED
    BY <1>2, <2>1, <2>2 DEF Given
<1> QED
  BY <1>1, <1>2

\* What has become of a chunk when return_chunk is done with it: part of a free
\* chunk, uncommitted with it unless that is smaller than a granule.
LEMMA ReturnedChunk ==
  ASSUME NEW s, NEW other \in Int, Accounts(s, other), Tiled(s), NEW b \in DOMAIN s.chunk
  PROVE  LET t    == ReturnChunk(s, b)
             m    == MergeLevel(SetFree(s, b), b)
             base == Block(b, m)
         IN  /\ m \in Levels /\ base \in DOMAIN t.chunk /\ t.chunk[base].level = m
             /\ Words(b, SizeOf(s, b)) \subseteq Words(base, WordSize[m])
             /\ t.mask = IF UncommitFreeChunks /\ WordSize[m] >= GranuleWords
                           THEN s.mask \ GranulesOf(base, WordSize[m]) ELSE s.mask
<1> DEFINE freed  == SetFree(s, b)
           m      == MergeLevel(freed, b)
           base   == Block(b, m)
           merged == MergeAll(freed, b)
           lean   == IF UncommitFreeChunks /\ WordSize[m] >= GranuleWords
                       THEN Uncommit(merged, base) ELSE merged
<1>1. /\ Accounts(freed, other) /\ Tiled(freed) /\ ChangeSpec(s, freed, b)
      /\ freed.mask = s.mask
  BY SetFreeTiled
<1>2. b \in DOMAIN freed.chunk /\ freed.chunk[b].level = s.chunk[b].level
  BY <1>1 DEF ChangeSpec
<1> HIDE DEF freed
<1>3. Words(b, SizeOf(s, b)) \subseteq Words(base, WordSize[m])
  <2>1. Tiles(freed.chunk, Handed(freed))
    BY <1>1 DEF Tiled
  <2>2. Words(base, WordSize[m]) = UNION {Extent(freed.chunk, q) : q \in Parts(freed, b)}
    BY <1>1, <1>2, <2>1, PartsCover DEF Base
  <2>3. Extent(freed.chunk, b) = Words(b, SizeOf(s, b)) /\ b \in Parts(freed, b)
    BY <1>2 DEF Extent, SizeOf, Parts
  <2> HIDE DEF base, m
  <2> QED
    BY <2>2, <2>3
<1>4. /\ Accounts(merged, other) /\ Tiled(merged) /\ base \in DOMAIN merged.chunk
      /\ merged.chunk[base].level = m /\ merged.mask = freed.mask /\ m \in Levels
  <2>1. /\ Accounts(merged, other) /\ Tiled(merged) /\ MergeSpec(freed, b)
        /\ Base(freed, b) \in DOMAIN merged.chunk
    BY <1>1, <1>2, MergeTiled
  <2>2. m \in Levels
    BY <1>1, <1>2, MergeLevelReached
  <2>3. merged.chunk[base].level = m /\ merged.mask = freed.mask
    BY <2>1 DEF MergeSpec, Base
  <2> QED
    BY <2>1, <2>2, <2>3 DEF Base
<1> HIDE DEF merged, base, m
<1>5. /\ Accounts(lean, other) /\ base \in DOMAIN lean.chunk /\ lean.chunk[base].level = m
      /\ lean.mask = IF UncommitFreeChunks /\ WordSize[m] >= GranuleWords
                       THEN s.mask \ GranulesOf(base, WordSize[m]) ELSE s.mask
  <2> DEFINE v == Uncommit(merged, base)
  <2>1. /\ Accounts(v, other) /\ ChangeSpec(merged, v, base)
        /\ v.mask = merged.mask \ GranulesOf(base, SizeOf(merged, base))
    BY <1>4, UncommitTiled
  <2> HIDE DEF v
  <2>2. CASE UncommitFreeChunks /\ WordSize[m] >= GranuleWords
    <3>1. lean = v
      BY <2>2 DEF v
    <3> HIDE DEF lean
    <3> QED
      BY <1>1, <1>4, <2>1, <2>2, <3>1 DEF ChangeSpec, SizeOf
  <2>3. CASE ~(UncommitFreeChunks /\ WordSize[m] >= GranuleWords)
    <3>1. lean = merged
      BY <2>3
    <3> HIDE DEF lean
    <3> QED
      BY <1>1, <1>4, <2>3, <3>1
  <2> QED
    BY <2>2, <2>3
<1>6. ReturnChunk(s, b) = Enlist(lean, base)
  BY DEF ReturnChunk, freed, merged, base, m
<1> HIDE DEF lean
<1>7. Enlist(lean, base).chunk = lean.chunk /\ Enlist(lean, base).mask = lean.mask
  BY <1>5, ListAccounts, ListKeeps
<1> DEFINE t == Enlist(lean, base)
<1> HIDE DEF t
<1>8. t.chunk = lean.chunk /\ t.mask = lean.mask /\ ReturnChunk(s, b) = t
  BY <1>6, <1>7 DEF t
<1>9. /\ m \in Levels /\ base \in DOMAIN t.chunk /\ t.chunk[base].level = m
      /\ t.mask = IF UncommitFreeChunks /\ WordSize[m] >= GranuleWords
                    THEN s.mask \ GranulesOf(base, WordSize[m]) ELSE s.mask
  BY <1>4, <1>5, <1>8
<1> QED
  BY <1>3, <1>8, <1>9 DEF base, m, freed

\* It stays so when a chunk is returned: either its granules are uncommitted, or
\* it ends in a granule that is not free as a whole, where others live.
LEMMA ReturnLean ==
  ASSUME NEW s, NEW other \in Int, Accounts(s, other), Tiled(s), NEW b \in InUse(s),
         Lean(s), NEW t, t = ReturnChunk(s, b), Accounts(t, other), Sound(t, {})
  PROVE  Lean(t)
<1> DEFINE m    == MergeLevel(SetFree(s, b), b)
           base == Block(b, m)
           size == SizeOf(s, b)
<1>1. b \in DOMAIN s.chunk
  BY DEF InUse
<1>2. /\ m \in Levels /\ base \in DOMAIN t.chunk /\ t.chunk[base].level = m
      /\ Words(b, size) \subseteq Words(base, WordSize[m])
      /\ t.mask = IF UncommitFreeChunks /\ WordSize[m] >= GranuleWords
                    THEN s.mask \ GranulesOf(base, WordSize[m]) ELSE s.mask
  BY <1>1, ReturnedChunk
<1>3. Keeps(s, t, {b})
  BY <1>1, ReturnChunkKeeps
<1>4. /\ b \in Nat /\ size \in Nat \ {0} /\ base \in Nat /\ WordSize[m] \in Nat \ {0}
      /\ Block(base, m) = base /\ Tiled(t)
  <2>1. b \in Nat /\ size \in Nat \ {0}
    BY <1>1, TiledChunk
  <2>2. base \in Nat /\ Block(base, m) = base
    <3> HIDE DEF m
    <3> QED
      BY <1>2, <2>1, BlockBounds
  <2> HIDE DEF m, base, size
  <2> QED
    BY <1>2, <2>1, <2>2, SizesPositive DEF Sound
<1> HIDE DEF m, base, size
<1> SUFFICES ASSUME UncommitFreeChunks, NEW g \in t.mask
             PROVE  \E c \in InUse(t) : g \in GranulesOf(c, SizeOf(t, c))
  BY DEF Lean
<1>5. g \in s.mask
  BY <1>2
<1>6. PICK c \in InUse(s) : g \in GranulesOf(c, SizeOf(s, c))
  BY <1>5 DEF Lean
<1>7. CASE c # b
  <2>1. c \in InUse(t) /\ SizeOf(t, c) = SizeOf(s, c)
    BY <1>3, <1>7 DEF Keeps, SizeOf
  <2> QED
    BY <1>6, <2>1
<1>8. CASE c = b
  <2>1. g \in GranulesOf(b, size)
    BY <1>6, <1>8 DEF size
  <2>2. PICK x \in Words(b, size) : x \div GranuleWords = g
    BY <1>4, <2>1, GranulesOfWords
  <2>3. g \in GranulesOf(base, WordSize[m])
    BY <1>2, <1>4, <2>2, GranulesOfWords
  <2>4. ~(WordSize[m] >= GranuleWords)
    BY <1>2, <2>3
  <2>5. GranuleLevel \in Levels /\ GranuleLevel < m
    <3>1. GranuleLevel \in Levels /\ GranuleWords \in Nat
      BY GeometryAssumption, SizesPositive DEF Levels
    <3>2. m <= GranuleLevel => GranuleWords <= WordSize[m]
      BY <1>2, <3>1, SizesFall DEF GranuleWords
    <3> QED
      BY <1>2, <1>4, <2>4, <3>1, <3>2 DEF Levels
  <2>6. x \div GranuleWords = base \div GranuleWords
    BY <1>2, <1>4, <2>2, <2>5, SmallInGranule DEF Levels
  <2> DEFINE B == Words(Block(base, GranuleLevel), WordSize[GranuleLevel])
  <2>7. PICK d \in DOMAIN t.chunk :
          Extent(t.chunk, d) \cap B # {} /\ t.chunk[d].state # "free"
    <3>1. GranuleLevel <= t.chunk[base].level /\ GranuleLevel # t.chunk[base].level
      BY <1>2, <2>5 DEF Levels
    <3> QED
      BY <1>2, <2>5, <3>1, IdleBlock
  <2>8. d \in InUse(t)
    <3>1. t.chunk[d] \in Metachunk
      BY <2>7, ChunkOf
    <3> QED
      BY <2>7, <3>1 DEF InUse, Metachunk
  <2>9. PICK a \in B : a \in Extent(t.chunk, d)
    BY <2>7
  <2>10. d \in Nat /\ SizeOf(t, d) \in Nat \ {0} /\ Extent(t.chunk, d) = Words(d, SizeOf(t, d))
    BY <1>4, <2>7, TiledChunk
  <2>11. a \div GranuleWords = g
    <3>1. a \in Nat
      BY <2>9, <2>10 DEF Words
    <3>2. a \in Words(Block(base, GranuleLevel), GranuleWords)
      BY <2>9 DEF GranuleWords
    <3> QED
      BY <1>4, <2>2, <2>6, <3>1, <3>2, GranuleBlock
  <2>12. g \in GranulesOf(d, SizeOf(t, d))
    BY <2>9, <2>10, <2>11, GranulesOfWords
  <2> QED
    BY <2>8, <2>12
<1> QED
  BY <1>7, <1>8

-----------------------------------------------------------------------------
(* What get_chunk promises.                                                *)

\* f is s after the free chunk at b was cut to level target.
CutOff(s, f, b, target) ==
  /\ DOMAIN f.chunk = DOMAIN s.chunk \cup Pieces(s, b, target)
  /\ f.chunk[b].level = target /\ f.chunk[b].state = "free"
  /\ f.chunk[b].committed = Min({s.chunk[b].committed, WordSize[target]})
  /\ \A a \in DOMAIN s.chunk : a # b => f.chunk[a] = s.chunk[a]
  /\ \A k \in Cuts(s, b, target) : /\ b + WordSize[k] \notin DOMAIN s.chunk
                                   /\ f.chunk[b + WordSize[k]].level = k
                                   /\ f.chunk[b + WordSize[k]].committed = Spill(s, b, k)
                                   /\ f.chunk[b + WordSize[k]].state = "free"
  /\ f.mask = s.mask

\* The pieces of a chunk are the buddies it had on its way down.
LEMMA PiecesAreBuddies ==
  ASSUME NEW s, NEW other \in Int, Accounts(s, other), Tiled(s), NEW b \in DOMAIN s.chunk,
         NEW target \in Levels, NEW k \in Cuts(s, b, target)
  PROVE  /\ k \in Levels /\ k # RootLevel /\ s.chunk[b].level < k /\ k <= target
         /\ Block(b, k) = b /\ Buddy(b, k) = b + WordSize[k]
         /\ Block(b + WordSize[k], k) = b + WordSize[k] /\ b + WordSize[k] \in Nat
<1> DEFINE l == s.chunk[b].level
<1>1. b \in Nat /\ l \in Levels /\ Block(b, l) = b
  BY TiledChunk
<1>2. k \in Levels /\ k # RootLevel /\ l < k /\ k <= target
  <2>1. k \in Levels /\ k \in (l + 1)..target
    BY <1>1, LevelRanges DEF Cuts
  <2>2. l \in Nat /\ target \in Nat /\ k \in Nat
    BY <1>1, <2>1, LevelRanges
  <2> HIDE DEF l
  <2> QED
    BY <2>1, <2>2 DEF RootLevel
<1>3. Block(b, k) = b /\ Buddy(b, k) = b + WordSize[k]
  <2> HIDE DEF l
  <2> QED
    BY <1>1, <1>2, BuddyOfCut
<1>4. Buddy(b, k) \in Nat /\ Block(Buddy(b, k), k) = Buddy(b, k)
  BY <1>1, <1>2, BuddyOfBuddy
<1> QED
  BY <1>2, <1>3, <1>4

\* A chunk that was cut and not given away merges to what it was, and not
\* further, for it had no free buddy.
LEMMA RegrownLevel ==
  ASSUME NEW s, NEW other \in Int, Accounts(s, other), Sound(s, {}), NEW b \in DOMAIN s.chunk,
         s.chunk[b].state = "free", NEW target \in Levels, s.chunk[b].level <= target,
         NEW f, Accounts(f, other), CutOff(s, f, b, target)
  PROVE  MergeLevel(f, b) = s.chunk[b].level
<1> DEFINE l == s.chunk[b].level
           m == MergeLevel(f, b)
<1>1. Tiled(s) /\ Merged(s, {}) /\ Tiles(s.chunk, Handed(s))
  BY DEF Sound, Tiled
<1>2. l \in Levels /\ b \in Nat /\ Block(b, l) = b
  BY <1>1, TiledChunk
<1>3. b \in DOMAIN f.chunk /\ f.chunk[b].level = target
  BY DEF CutOff
<1>4. /\ m \in Levels /\ m <= target /\ \A k \in (m + 1)..target : Joins(f, b, k)
      /\ m # RootLevel => ~Joins(f, b, m)
  BY <1>3, MergeLevelReached
<1>5. \A k \in Cuts(s, b, target) : Joins(f, b, k)
  <2> SUFFICES ASSUME NEW k \in Cuts(s, b, target)
               PROVE  Joins(f, b, k)
    OBVIOUS
  <2>1. Buddy(b, k) = b + WordSize[k]
    BY <1>1, PiecesAreBuddies
  <2>2. b + WordSize[k] \in DOMAIN f.chunk
    BY DEF CutOff, Pieces
  <2> QED
    BY <2>1, <2>2 DEF CutOff, Joins, IsChunk, IsFree
<1>6. l # RootLevel => ~Joins(f, b, l)
  <2> SUFFICES ASSUME l # RootLevel, Joins(f, b, l)
               PROVE  FALSE
    OBVIOUS
  <2> DEFINE y == Buddy(b, l)
  <2>1. y \in DOMAIN f.chunk /\ f.chunk[y].level = l /\ f.chunk[y].state = "free"
    BY DEF Joins, IsChunk, IsFree
  <2>2. y # b
    <3>1. Buddy(b, l) # Block(b, l)
      BY <1>2, <2>1, BuddyOfBuddy
    <3> QED
      BY <1>2, <3>1
  <2>3. y \in DOMAIN s.chunk
    <3> SUFFICES ASSUME NEW k \in Cuts(s, b, target), y = b + WordSize[k]
                 PROVE  FALSE
      BY <2>1 DEF CutOff, Pieces
    <3>1. f.chunk[y].level = k /\ l < k /\ k \in Levels
      BY <1>1, PiecesAreBuddies DEF CutOff
    <3> QED
      BY <1>2, <2>1, <3>1 DEF Levels
  <2>4. Joins(s, b, l)
    BY <2>1, <2>2, <2>3 DEF CutOff, Joins, IsChunk, IsFree
  <2> QED
    BY <1>1, <2>4 DEF Merged, Mergeable, IsFree
<1> HIDE DEF m, l
<1>7. ~(m < l)
  <2> SUFFICES ASSUME m < l
               PROVE  FALSE
    OBVIOUS
  <2>1. l \in (m + 1)..target /\ l # RootLevel
    BY <1>2, <1>4 DEF Levels, RootLevel, l
  <2> QED
    BY <1>4, <1>6, <2>1
<1>8. ~(l < m)
  <2> SUFFICES ASSUME l < m
               PROVE  FALSE
    OBVIOUS
  <2>1. m \in Cuts(s, b, target) /\ m # RootLevel
    BY <1>2, <1>4 DEF Levels, RootLevel, l, Cuts
  <2> QED
    BY <1>4, <1>5, <2>1
<1> QED
  BY <1>2, <1>4, <1>7, <1>8 DEF Levels, l, m

\* No piece promises less than its share of the words committed before the cut.
LEMMA SpillEnough ==
  ASSUME NEW s, NEW other \in Int, Accounts(s, other), Tiled(s), NEW b \in DOMAIN s.chunk,
         NEW k \in Levels, k # RootLevel
  PROVE  /\ Spill(s, b, k) \in Nat
         /\ Spill(s, b, k) < WordSize[k] => s.chunk[b].committed <= WordSize[k] + Spill(s, b, k)
<1> DEFINE c    == s.chunk[b].committed
           w    == WordSize[k]
           line == Min({c, WordSize[k - 1]})
<1>1. c \in Nat /\ w \in Nat \ {0} /\ WordSize[k - 1] = 2 * w
  BY TiledChunk, SizesPositive, Halving
<1>2. line = IF c <= 2 * w THEN c ELSE 2 * w
  <2> HIDE DEF c, w
  <2>1. WordSize[k - 1] \in Int /\ c \in Int
    BY <1>1
  <2> QED
    BY <1>1, <2>1, MinOfTwo
<1>3. Spill(s, b, k) = IF line > w THEN CommitLine(line - w, k) ELSE 0
  BY DEF Spill
<1> HIDE DEF c, line
<1>4. CASE line > w
  <2>1. line - w \in Nat /\ line - w <= w
    <3> HIDE DEF w
    <3> QED
      BY <1>1, <1>2, <1>4
  <2>2. CommitLine(line - w, k) \in Nat /\ line - w <= CommitLine(line - w, k)
    <3> DEFINE x == line - w
    <3>1. x \in Nat /\ x <= WordSize[k]
      BY <2>1
    <3> HIDE DEF x
    <3>2. CommitLine(x, k) \in Nat /\ \A v \in Nat : v <= x /\ v <= WordSize[k] => v <= CommitLine(x, k)
      BY <3>1, CommitLineFacts
    <3> QED
      BY <3>1, <3>2 DEF x
  <2> DEFINE x == CommitLine(line - w, k)
  <2>3. Spill(s, b, k) = x /\ x \in Nat /\ line - w <= x
    BY <1>3, <1>4, <2>2
  <2> HIDE DEF x, w
  <2> QED
    BY <1>1, <1>2, <2>3 DEF c, w
<1>5. CASE ~(line > w)
  <2>1. Spill(s, b, k) = 0
    BY <1>3, <1>5
  <2> HIDE DEF w
  <2> QED
    BY <1>1, <1>2, <1>5, <2>1 DEF c, w
<1> QED
  BY <1>4, <1>5

\* Where the words committed before the cut end within a piece, the piece says
\* so exactly, and is a granule long at least.
LEMMA SpillExact ==
  ASSUME NEW s, NEW other \in Int, Accounts(s, other), Tiled(s), NEW b \in DOMAIN s.chunk,
         NEW target \in Levels, NEW k \in Cuts(s, b, target),
         IsAligned(s.chunk[b].committed, GranuleWords),
         WordSize[k] <= s.chunk[b].committed, s.chunk[b].committed < WordSize[k - 1]
  PROVE  /\ (b + WordSize[k]) % GranuleWords = 0
         /\ Spill(s, b, k) < WordSize[k]
         /\ WordSize[k] + Spill(s, b, k) = s.chunk[b].committed
<1> DEFINE c == s.chunk[b].committed
           w == WordSize[k]
           G == GranuleWords
           q == b + w
<1>1. /\ c \in Nat /\ w \in Nat \ {0} /\ WordSize[k - 1] = 2 * w /\ G \in Nat \ {0} /\ b \in Nat
      /\ k \in Levels /\ k # RootLevel /\ Block(b, k) = b /\ Block(q, k) = q /\ q \in Nat
  BY TiledChunk, SizesPositive, Halving, PiecesAreBuddies
<1>2. k <= GranuleLevel
  <2> SUFFICES ASSUME ~(k <= GranuleLevel)
               PROVE  FALSE
    OBVIOUS
  <2>1. GranuleLevel \in Levels /\ GranuleLevel < k /\ GranuleLevel <= k
    BY <1>1, GeometryAssumption DEF Levels
  <2>2. 2 * w <= G
    BY <1>1, <2>1, SizesFall DEF GranuleWords
  <2>3. c < G /\ c # 0
    <3> HIDE DEF w, G
    <3> QED
      BY <1>1, <2>2 DEF w
  <2>4. c = (c \div G) * G
    BY <1>1, AlignedIsMultiple
  <2>5. c \div G = 0
    <3>1. 0 * G = 0
      BY <1>1
    <3> HIDE DEF c, G
    <3>2. 0 * G <= c /\ c < 0 * G + G
      BY <1>1, <2>3, <3>1
    <3> QED
      BY <1>1, <3>2, QuotientUnique
  <2> HIDE DEF c, G
  <2> QED
    BY <1>1, <2>3, <2>4, <2>5
<1>3. IsAligned(q, G) /\ IsAligned(b, G)
  <2> HIDE DEF q
  <2> QED
    BY <1>1, <1>2, LargeIsAligned
<1>4. IsAligned(w, G)
  <2>1. q - b = w /\ b <= q
    <3> HIDE DEF w
    <3> QED
      BY <1>1
  <2>2. IsAligned(q - b, G)
    <3> HIDE DEF q, G
    <3> QED
      BY <1>1, <1>3, <2>1, AlignedDifference
  <2> QED
    BY <2>1, <2>2
<1>5. Spill(s, b, k) = IF c > w THEN CommitLine(c - w, k) ELSE 0
  <2>1. Min({c, WordSize[k - 1]}) = c
    <3> DEFINE v == WordSize[k - 1]
    <3>1. c \in Int /\ v \in Int /\ c <= v
      <4>1. c \in Int /\ v \in Int /\ c < v
        BY <1>1
      <4> HIDE DEF c, v
      <4> QED
        BY <4>1
    <3> HIDE DEF c, v
    <3>2. Min({c, v}) = c
      BY <3>1, MinOfTwo
    <3> QED
      BY <3>2 DEF c, v
  <2> QED
    BY <2>1 DEF Spill
<1>6. c > w => CommitLine(c - w, k) = c - w
  <2> SUFFICES ASSUME c > w
               PROVE  CommitLine(c - w, k) = c - w
    OBVIOUS
  <2> DEFINE x == c - w
  <2>1. x \in Nat /\ x <= w /\ w <= c
    <3> HIDE DEF c, w
    <3> QED
      BY <1>1 DEF c, w
  <2>2. IsAligned(x, G)
    <3> HIDE DEF c, w, G
    <3> QED
      BY <1>1, <1>4, <2>1, AlignedDifference DEF c, G
  <2> HIDE DEF x
  <2>3. AlignUp(x, G) <= x
    <3> HIDE DEF G
    <3> QED
      BY <1>1, <2>1, <2>2, AlignUpBelow
  <2>4. AlignUp(x, G) \in Nat /\ x <= AlignUp(x, G)
    <3> HIDE DEF G
    <3> QED
      BY <1>1, <2>1, AlignUpBounds
  <2>5. AlignUp(x, G) = x
    BY <2>1, <2>3, <2>4
  <2>6. CommitLine(x, k) = Min({x, w})
    BY <2>5 DEF CommitLine
  <2>7. Min({x, w}) = x
    <3> HIDE DEF w
    <3> QED
      BY <1>1, <2>1, MinOfTwo
  <2> QED
    BY <2>6, <2>7 DEF x
<1> DEFINE y == Spill(s, b, k)
<1>7. y = IF c > w THEN c - w ELSE 0
  BY <1>5, <1>6
<1>8. w <= c /\ c < 2 * w
  BY <1>1
<1> HIDE DEF c, w, y, q
<1>9. y < w /\ w + y = c
  BY <1>1, <1>7, <1>8
<1> QED
  BY <1>3, <1>9 DEF IsAligned, c, w, y, q

\* Merging the pieces gives the commit line the chunk had before the cut.
LEMMA RegrownLine ==
  ASSUME NEW s, NEW other \in Int, Accounts(s, other), Sound(s, {}), Backed(s),
         NEW b \in DOMAIN s.chunk, s.chunk[b].state = "free",
         NEW target \in Levels, s.chunk[b].level <= target,
         NEW f, Accounts(f, other), Tiled(f), CutOff(s, f, b, target)
  PROVE  MergedCommitted(f, Parts(f, b), b, s.chunk[b].level) = s.chunk[b].committed
<1> DEFINE l     == s.chunk[b].level
           c     == s.chunk[b].committed
           parts == Parts(f, b)
           gaps  == {q \in parts : /\ f.chunk[q].committed < SizeOf(f, q)
                                   /\ q = b \/ q % GranuleWords = 0}
           line  == b + MergedCommitted(f, parts, b, l)
<1>1. Tiled(s)
  BY DEF Sound
<1>2. /\ b \in Nat /\ l \in Levels /\ c \in Nat /\ c <= WordSize[l] /\ Block(b, l) = b
      /\ WordSize[l] \in Nat
      /\ c = WordSize[l] \/ IsAligned(c, GranuleWords)
  <2>1. Line(s.chunk[b])
    BY DEF Backed, Stands
  <2> QED
    BY <1>1, <2>1, TiledChunk, SizesPositive DEF Line
<1>3. b \in DOMAIN f.chunk /\ f.chunk[b].level = target
      /\ f.chunk[b].committed = Min({c, WordSize[target]})
  BY DEF CutOff
<1>4. MergeLevel(f, b) = l
  BY RegrownLevel
<1>5. parts = {b} \cup {b + WordSize[k] : k \in Cuts(s, b, target)}
  <2>1. Joined(f, b) = Cuts(s, b, target)
    BY <1>3, <1>4 DEF Joined, Cuts
  <2>2. \A k \in Cuts(s, b, target) : Buddy(b, k) = b + WordSize[k]
    BY <1>1, PiecesAreBuddies
  <2> QED
    BY <2>1, <2>2 DEF Parts
<1>6. parts \in SUBSET DOMAIN f.chunk /\ IsFiniteSet(parts)
      /\ \A q \in parts : b <= q /\ f.chunk[q].committed >= 0
  <2>1. Base(f, b) = b
    BY <1>2, <1>4 DEF Base
  <2>2. parts \subseteq DOMAIN f.chunk /\ IsFiniteSet(parts) /\ \A q \in parts : b <= q
    BY <1>3, <2>1, PartsBounds
  <2> QED
    BY <2>2 DEF Tiled, Lines
<1>7. /\ line <= b + WordSize[l] /\ MergedCommitted(f, parts, b, l) \in Nat
      /\ \A q \in gaps : line <= q + f.chunk[q].committed
      /\ line = b + WordSize[l] \/ \E q \in gaps : line = q + f.chunk[q].committed
  <2> HIDE DEF parts, l
  <2> QED
    BY <1>2, <1>6, MergedLine
<1>8. f.chunk[b].committed = IF c <= WordSize[target] THEN c ELSE WordSize[target]
  <2> DEFINE v == WordSize[target]
  <2>1. v \in Nat /\ c \in Nat
    BY <1>2, SizesPositive
  <2> HIDE DEF v, c
  <2>2. Min({c, v}) = IF c <= v THEN c ELSE v
    BY <2>1, MinOfTwo
  <2> QED
    BY <1>3, <2>2 DEF v, c
<1>9. ASSUME NEW q \in gaps
      PROVE  b + c <= q + f.chunk[q].committed
  <2>1. CASE q = b
    <3>1. f.chunk[b].committed < WordSize[target]
      BY <1>3, <2>1 DEF SizeOf
    <3>2. WordSize[target] \in Nat
      BY SizesPositive
    <3>3. f.chunk[b].committed = c
      BY <1>8, <3>1, <3>2
    <3> HIDE DEF c, gaps
    <3> QED
      BY <1>2, <2>1, <3>3
  <2>2. CASE q # b
    <3>1. PICK k \in Cuts(s, b, target) : q = b + WordSize[k]
      BY <1>5, <2>2
    <3>2. f.chunk[q].committed = Spill(s, b, k) /\ SizeOf(f, q) = WordSize[k]
      BY <3>1 DEF CutOff, SizeOf
    <3>3. k \in Levels /\ k # RootLevel /\ WordSize[k] \in Nat
      BY <1>1, PiecesAreBuddies, SizesPositive
    <3>4. Spill(s, b, k) < WordSize[k]
      BY <3>2
    <3>5. c <= WordSize[k] + Spill(s, b, k) /\ Spill(s, b, k) \in Nat
      BY <1>1, <3>3, <3>4, SpillEnough
    <3> DEFINE v == WordSize[k]
               y == Spill(s, b, k)
    <3> HIDE DEF v, y, c, gaps
    <3>6. b + c <= b + v + y
      BY <1>2, <3>3, <3>5 DEF v, y
    <3> QED
      BY <3>1, <3>2, <3>6 DEF v, y
  <2> QED
    BY <2>1, <2>2
<1>10. c = WordSize[l] \/ \E q \in gaps : q + f.chunk[q].committed = b + c
  <2> SUFFICES ASSUME c # WordSize[l]
               PROVE  \E q \in gaps : q + f.chunk[q].committed = b + c
    OBVIOUS
  <2>1. IsAligned(c, GranuleWords) /\ c < WordSize[l]
    BY <1>2
  <2>2. WordSize[target] \in Nat
    BY SizesPositive
  <2>3. CASE c < WordSize[target]
    <3>1. f.chunk[b].committed = c
      BY <1>2, <1>8, <2>2, <2>3
    <3>2. b \in gaps
      BY <1>3, <1>5, <2>3, <3>1 DEF SizeOf
    <3> QED
      BY <3>1, <3>2
  <2>4. CASE ~(c < WordSize[target])
    <3> DEFINE K == {k \in Cuts(s, b, target) : WordSize[k] <= c}
    <3>1. target \in K
      <4>1. target # l
        BY <2>1, <2>4
      <4>2. target \in (l + 1)..target
        <5>1. l \in Nat /\ target \in Nat /\ l <= target
          BY <1>2, LevelRanges
        <5> HIDE DEF l
        <5> QED
          BY <4>1, <5>1
      <4> QED
        BY <1>2, <2>2, <2>4, <4>2 DEF Cuts
    <3>2. K \in SUBSET Int /\ IsFiniteSet(K)
      <4>1. Cuts(s, b, target) \subseteq Levels
        BY <1>1, PiecesAreBuddies
      <4>2. IsFiniteSet(Levels) /\ Levels \subseteq Int
        BY GeometryAssumption, FS_Interval DEF Levels
      <4>3. K \subseteq Levels
        BY <4>1
      <4> HIDE DEF K
      <4> QED
        BY <4>2, <4>3, FS_Subset
    <3>3. PICK k \in K : \A j \in K : k <= j
      <4> HIDE DEF K
      <4> QED
        BY <3>1, <3>2, MinExists
    <3>4. /\ k \in Cuts(s, b, target) /\ WordSize[k] <= c
          /\ k \in Levels /\ l < k /\ k <= target /\ k # RootLevel
      BY <1>1, <3>3, PiecesAreBuddies
    <3>5. c < WordSize[k - 1]
      <4>1. k \in Nat /\ l \in Nat /\ target \in Nat /\ k - 1 \in Levels
        BY <1>2, <3>4, LevelRanges
      <4>2. CASE k - 1 = l
        BY <2>1, <4>2
      <4>3. CASE k - 1 # l
        <5>1. k - 1 \in (l + 1)..target
          <6> HIDE DEF l
          <6> QED
            BY <3>4, <4>1, <4>3 DEF l
        <5>2. k - 1 \notin K
          <6> HIDE DEF K
          <6> QED
            BY <3>3, <4>1
        <5>3. ~(WordSize[k - 1] <= c)
          BY <5>1, <5>2 DEF Cuts
        <5>4. WordSize[k - 1] \in Nat
          BY <4>1, SizesPositive
        <5> QED
          BY <1>2, <5>3, <5>4
      <4> QED
        BY <4>2, <4>3
    <3> DEFINE q == b + WordSize[k]
    <3>6. /\ q % GranuleWords = 0 /\ Spill(s, b, k) < WordSize[k]
          /\ WordSize[k] + Spill(s, b, k) = c
      BY <1>1, <2>1, <3>4, <3>5, SpillExact
    <3>7. q \in parts
      BY <1>5, <3>4
    <3>8. f.chunk[q].committed = Spill(s, b, k) /\ SizeOf(f, q) = WordSize[k]
      BY <3>4 DEF CutOff, SizeOf
    <3>9. q \in gaps
      <4> HIDE DEF q, parts
      <4> QED
        BY <3>6, <3>7, <3>8
    <3>10. q + Spill(s, b, k) = b + c
      <4> DEFINE v == WordSize[k]
                 y == Spill(s, b, k)
      <4>1. v \in Nat /\ y \in Nat /\ v + y = c
        BY <1>1, <3>4, <3>6, SizesPositive, SpillEnough
      <4> HIDE DEF v, y, c
      <4>2. (b + v) + y = b + c
        BY <1>2, <4>1
      <4> QED
        BY <4>2 DEF v, y
    <3> QED
      BY <3>8, <3>9, <3>10
  <2> QED
    BY <2>3, <2>4
<1> DEFINE z == MergedCommitted(f, parts, b, l)
           w == WordSize[l]
<1>11. z \in Nat /\ w \in Nat /\ b + z <= b + w
  BY <1>2, <1>7
<1>12. b + c <= b + z
  <2>1. CASE line = b + w
    <3>1. line = b + z
      OBVIOUS
    <3>2. c <= w /\ z = w
      <4> HIDE DEF z, w, c
      <4>1. b + z = b + w
        BY <2>1, <3>1 DEF z
      <4> QED
        BY <1>2, <1>11, <4>1 DEF w
    <3> HIDE DEF z, w, c, gaps
    <3> QED
      BY <1>2, <1>11, <3>2
  <2>2. CASE \E q \in gaps : line = q + f.chunk[q].committed
    BY <1>9, <2>2
  <2> QED
    BY <1>7, <2>1, <2>2
<1>13. b + z <= b + c
  <2>1. CASE c = w
    BY <1>11, <2>1
  <2>2. CASE \E q \in gaps : q + f.chunk[q].committed = b + c
    BY <1>7, <2>2
  <2> QED
    BY <1>10, <2>1, <2>2
<1>14. z = c
  <2> HIDE DEF z, c
  <2> QED
    BY <1>2, <1>11, <1>12, <1>13
<1> QED
  BY <1>14

\* Chunks of s are in t as they were.
AsBefore(s, t) == \A a \in DOMAIN s.chunk : a \in DOMAIN t.chunk /\ t.chunk[a] = s.chunk[a]

\* Merging the pieces gives back the chunk as it was before the cut.
LEMMA RegrownChunk ==
  ASSUME NEW s, NEW other \in Int, Accounts(s, other), Sound(s, {}), Backed(s),
         NEW b \in DOMAIN s.chunk, s.chunk[b].state = "free",
         NEW target \in Levels, s.chunk[b].level <= target,
         NEW f, Accounts(f, other), Tiled(f), CutOff(s, f, b, target)
  PROVE  AsBefore(s, MergeAll(f, b)) /\ MergeAll(f, b).mask = s.mask
<1> DEFINE t     == MergeAll(f, b)
           l     == s.chunk[b].level
           parts == Parts(f, b)
<1>1. Tiled(s) /\ b \in DOMAIN f.chunk
  BY DEF Sound, CutOff
<1>2. b \in Nat /\ l \in Levels /\ Block(b, l) = b
  BY <1>1, TiledChunk
<1>3. MergeLevel(f, b) = l /\ Base(f, b) = b
  BY <1>2, RegrownLevel DEF Base
<1>4. Accounts(t, other) /\ MergeSpec(f, b)
  BY <1>1, MergeTiled
<1>5. /\ DOMAIN t.chunk = (DOMAIN f.chunk \ parts) \cup {b}
      /\ t.chunk[b].level = l /\ t.chunk[b].committed = MergedCommitted(f, parts, b, l)
      /\ t.chunk[b].state = "free" /\ t.chunk[b].used = 0
      /\ \A a \in DOMAIN f.chunk \ parts : a # b => t.chunk[a] = f.chunk[a]
      /\ t.mask = f.mask
  BY <1>3, <1>4 DEF MergeSpec
<1>6. MergedCommitted(f, parts, b, l) = s.chunk[b].committed
  BY RegrownLine
<1>7. ASSUME NEW a \in DOMAIN s.chunk, a # b
      PROVE  a \in DOMAIN f.chunk \ parts /\ f.chunk[a] = s.chunk[a]
  <2>1. a \in DOMAIN f.chunk /\ f.chunk[a] = s.chunk[a]
    BY <1>7 DEF CutOff
  <2>2. ASSUME a \in parts
        PROVE  FALSE
    <3>1. PICK k \in Joined(f, b) : a = Buddy(b, k)
      BY <1>7, <2>2 DEF Parts
    <3>2. k \in Cuts(s, b, target)
      BY <1>3 DEF Joined, Cuts, CutOff
    <3>3. a = b + WordSize[k]
      BY <1>1, <3>1, <3>2, PiecesAreBuddies
    <3> QED
      BY <3>2, <3>3 DEF CutOff
  <2> QED
    BY <2>1, <2>2
<1>8. t.chunk[b] = s.chunk[b]
  <2>1. s.chunk[b] \in Metachunk /\ t.chunk[b] \in Metachunk
    BY <1>4, <1>5, ChunkOf
  <2>2. s.chunk[b].used = 0
    BY DEF Backed, Stands, Line
  <2> HIDE DEF t, parts
  <2>3. /\ t.chunk[b].level = s.chunk[b].level /\ t.chunk[b].state = s.chunk[b].state
        /\ t.chunk[b].committed = s.chunk[b].committed /\ t.chunk[b].used = s.chunk[b].used
    BY <1>5, <1>6, <2>2
  <2> QED
    BY <2>1, <2>3 DEF Metachunk
<1>9. f.mask = s.mask
  BY DEF CutOff
<1> HIDE DEF t, parts
<1> QED
  BY <1>5, <1>7, <1>8, <1>9 DEF AsBefore, t

\* get_chunk cuts no further than it was asked to.
CutLevel(s, b, r) == IF s.chunk[b].level < r.pref THEN r.pref ELSE s.chunk[b].level

\* The chunk that get_chunk cut for r and then frees again.
Freed(s, b, r) == SetFree([Cut(s, b, r) EXCEPT !.chunk[b].state = "inuse"], b)

\* Nothing but the cut has changed when get_chunk gives the chunk back.
LEMMA CutAndFreed ==
  ASSUME NEW s, NEW other \in Int, Accounts(s, other), Tiled(s), Backed(s),
         NEW b \in DOMAIN s.chunk, s.chunk[b].state = "free", NEW r \in LegalRequests
  PROVE  /\ CutLevel(s, b, r) \in Levels /\ s.chunk[b].level <= CutLevel(s, b, r)
         /\ Accounts(Freed(s, b, r), other) /\ Tiled(Freed(s, b, r))
         /\ CutOff(s, Freed(s, b, r), b, CutLevel(s, b, r))
<1> DEFINE l      == s.chunk[b].level
           target == CutLevel(s, b, r)
           t      == Cut(s, b, r)
           back   == [t EXCEPT !.chunk[b].state = "inuse"]
           f      == Freed(s, b, r)
<1>1. /\ r.pref \in Levels /\ l \in Levels /\ l \in Nat /\ r.pref \in Nat
      /\ s.chunk[b].committed \in Nat /\ WordSize[l] \in Nat
      /\ s.chunk[b].committed <= WordSize[l]
  <2>1. Line(s.chunk[b])
    BY DEF Backed, Stands
  <2> QED
    BY <2>1, RequestFacts, TiledChunk, LevelRanges, SizesPositive DEF Line
<1>2. target \in Levels /\ l <= target
  BY <1>1 DEF CutLevel
<1>3. Accounts(t, other) /\ Tiled(t) /\ CutOff(s, t, b, target)
  <2>1. CASE l < r.pref
    <3>1. t = Split(s, b, r.pref) /\ target = r.pref
      BY <2>1 DEF Cut, CutLevel
    <3>2. /\ Accounts(Split(s, b, r.pref), other) /\ Tiled(Split(s, b, r.pref))
          /\ SplitSpec(s, b, r.pref)
      BY <1>1, <1>2, <3>1, SplitTiled
    <3> QED
      BY <3>1, <3>2 DEF SplitSpec, CutOff
  <2>2. CASE ~(l < r.pref)
    <3>1. t = s /\ target = l
      BY <2>2 DEF Cut, CutLevel
    <3>2. Cuts(s, b, target) = {} /\ Pieces(s, b, target) = {}
      <4>1. (l + 1)..l = {}
        <5> HIDE DEF l
        <5> QED
          BY <1>1
      <4> QED
        BY <3>1, <4>1 DEF Cuts, Pieces
    <3>3. Min({s.chunk[b].committed, WordSize[l]}) = s.chunk[b].committed
      <4> DEFINE c == s.chunk[b].committed
                 w == WordSize[l]
      <4>1. c \in Int /\ w \in Int /\ c <= w
        BY <1>1
      <4> HIDE DEF c, w
      <4>2. Min({c, w}) = c
        BY <4>1, MinOfTwo
      <4> QED
        BY <4>2 DEF c, w
    <3> QED
      BY <3>1, <3>2, <3>3 DEF CutOff
  <2> QED
    BY <2>1, <2>2
<1> HIDE DEF t, target, l
<1>4. b \in DOMAIN t.chunk
  BY <1>3 DEF CutOff
<1>5. /\ Accounts(back, other) /\ Tiled(back) /\ ChangeSpec(t, back, b) /\ back.mask = t.mask
      /\ back.chunk[b].committed = t.chunk[b].committed
  BY <1>3, <1>4, TakeTiled
<1>6. f = SetFree(back, b)
  BY DEF Freed, t
<1> HIDE DEF back, f
<1>7. b \in DOMAIN back.chunk
  BY <1>4, <1>5 DEF ChangeSpec
<1>8. /\ Accounts(f, other) /\ Tiled(f) /\ ChangeSpec(back, f, b) /\ f.mask = back.mask
      /\ f.chunk[b].state = "free" /\ f.chunk[b].committed = back.chunk[b].committed
  BY <1>5, <1>6, <1>7, SetFreeTiled
<1>9. /\ DOMAIN f.chunk = DOMAIN t.chunk /\ f.chunk[b].level = t.chunk[b].level
      /\ \A a \in DOMAIN t.chunk : a # b => f.chunk[a] = t.chunk[a]
  BY <1>5, <1>8 DEF ChangeSpec
<1>10. ASSUME NEW k \in Cuts(s, b, target)
       PROVE  f.chunk[b + WordSize[k]] = t.chunk[b + WordSize[k]]
  <2>1. b + WordSize[k] \in DOMAIN t.chunk /\ b + WordSize[k] # b
    BY <1>3 DEF CutOff, Pieces
  <2> QED
    BY <1>9, <2>1
<1>11. CutOff(s, f, b, target)
  BY <1>3, <1>5, <1>8, <1>9, <1>10 DEF CutOff
<1> QED
  BY <1>1, <1>2, <1>8, <1>11 DEF f, target, l

\* With uncommit_free_chunks a free chunk of a granule or more has nothing
\* committed.
LEMMA FreeIsBare ==
  ASSUME NEW s, NEW other \in Int, Accounts(s, other), Tiled(s), Backed(s), Lean(s),
         UncommitFreeChunks, NEW b \in DOMAIN s.chunk, s.chunk[b].state = "free",
         WordSize[s.chunk[b].level] >= GranuleWords
  PROVE  /\ s.mask \cap GranulesOf(b, SizeOf(s, b)) = {}
         /\ s.chunk[b].committed = 0
<1> DEFINE size == SizeOf(s, b)
           l    == s.chunk[b].level
<1>1. /\ b \in Nat /\ size \in Nat \ {0} /\ Extent(s.chunk, b) = Words(b, size) /\ l \in Levels
      /\ Tiles(s.chunk, Handed(s)) /\ s.chunk[b].committed \in Nat
  BY TiledChunk
<1>2. l <= GranuleLevel
  <2> SUFFICES ASSUME ~(l <= GranuleLevel)
               PROVE  FALSE
    OBVIOUS
  <2>1. GranuleLevel \in Levels
    BY GeometryAssumption DEF Levels
  <2>2. GranuleLevel <= l /\ GranuleLevel < l
    BY <1>1, <2>1 DEF Levels
  <2>3. 2 * WordSize[l] <= GranuleWords /\ WordSize[l] \in Nat \ {0} /\ GranuleWords \in Nat
    BY <1>1, <2>1, <2>2, SizesFall, SizesPositive DEF GranuleWords
  <2> QED
    BY <2>3
<1> HIDE DEF size
<1>3. ASSUME NEW g \in s.mask, g \in GranulesOf(b, size)
      PROVE  FALSE
  <2>1. PICK c \in InUse(s) : g \in GranulesOf(c, SizeOf(s, c))
    BY DEF Lean
  <2>2. c \in DOMAIN s.chunk /\ c # b
    BY <2>1 DEF InUse
  <2>3. c \in Nat /\ SizeOf(s, c) \in Nat \ {0} /\ Extent(s.chunk, c) = Words(c, SizeOf(s, c))
    BY <2>2, TiledChunk
  <2>4. PICK a \in Words(c, SizeOf(s, c)) : a \div GranuleWords = g
    BY <2>1, <2>3, GranulesOfWords
  <2>5. a \div GranuleWords \notin GranulesOf(b, size)
    BY <1>1, <1>2, <2>2, <2>3, OtherGranules
  <2> QED
    BY <1>3, <2>4, <2>5
<1>4. s.chunk[b].committed = 0
  <2> SUFFICES ASSUME s.chunk[b].committed # 0
               PROVE  FALSE
    OBVIOUS
  <2>1. b \in Words(b, s.chunk[b].committed) /\ b \in Words(b, size)
    BY <1>1 DEF Words
  <2>2. b \div GranuleWords \in s.mask
    BY <2>1 DEF Backed, Stands, Covered
  <2>3. b \div GranuleWords \in GranulesOf(b, size)
    BY <1>1, <2>1, GranulesOfWords
  <2> QED
    BY <1>3, <2>2, <2>3
<1> QED
  BY <1>3, <1>4 DEF size

\* A request the limiter refuses leaves every chunk as it was.
LEMMA FailedRequest ==
  ASSUME NEW s, NEW other \in Int, Accounts(s, other), Sound(s, {}), Backed(s), Lean(s),
         NEW b \in DOMAIN s.chunk, s.chunk[b].state = "free", NEW r \in LegalRequests,
         ~Serves(s, b, r)
  PROVE  AsBefore(s, HandOut(s, b, r)) /\ HandOut(s, b, r).mask = s.mask
<1> DEFINE l      == s.chunk[b].level
           f      == Freed(s, b, r)
           merged == MergeAll(f, b)
           lean   == IF UncommitFreeChunks /\ WordSize[l] >= GranuleWords
                       THEN Uncommit(merged, b) ELSE merged
<1>1. Tiled(s) /\ l \in Levels /\ b \in Nat /\ Block(b, l) = b
  BY TiledChunk DEF Sound
<1>2. /\ CutLevel(s, b, r) \in Levels /\ l <= CutLevel(s, b, r)
      /\ Accounts(f, other) /\ Tiled(f) /\ CutOff(s, f, b, CutLevel(s, b, r))
  BY <1>1, CutAndFreed
<1>3. HandOut(s, b, r) = ReturnChunk([Cut(s, b, r) EXCEPT !.chunk[b].state = "inuse"], b)
  BY DEF HandOut
<1>4. HandOut(s, b, r)
        = LET m    == MergeLevel(f, b)
              base == Block(b, m)
          IN  Enlist(IF UncommitFreeChunks /\ WordSize[m] >= GranuleWords
                       THEN Uncommit(MergeAll(f, b), base) ELSE MergeAll(f, b), base)
  BY <1>3 DEF ReturnChunk, Freed
<1> HIDE DEF f
<1>5. MergeLevel(f, b) = l /\ b \in DOMAIN f.chunk
  BY <1>2, RegrownLevel DEF CutOff
<1>6. HandOut(s, b, r) = Enlist(lean, b)
  BY <1>1, <1>4, <1>5
<1>7. Accounts(merged, other) /\ Tiled(merged)
  BY <1>2, <1>5, MergeTiled
<1>8. AsBefore(s, merged) /\ merged.mask = s.mask
  BY <1>2, RegrownChunk
<1> HIDE DEF merged
<1>9. b \in DOMAIN merged.chunk /\ merged.chunk[b] = s.chunk[b]
  BY <1>8 DEF AsBefore
<1>10. Accounts(lean, other) /\ AsBefore(s, lean) /\ lean.mask = s.mask
  <2>1. CASE UncommitFreeChunks /\ WordSize[l] >= GranuleWords
    <3> DEFINE u == Uncommit(merged, b)
    <3>1. s.mask \cap GranulesOf(b, SizeOf(s, b)) = {} /\ s.chunk[b].committed = 0
      BY <1>1, <2>1, FreeIsBare
    <3>2. /\ Accounts(u, other) /\ ChangeSpec(merged, u, b)
          /\ u.chunk[b].state = merged.chunk[b].state /\ u.chunk[b].committed = 0
          /\ u.chunk[b].used = merged.chunk[b].used
          /\ u.mask = merged.mask \ GranulesOf(b, SizeOf(merged, b))
      BY <1>7, <1>9, UncommitTiled
    <3> HIDE DEF u
    <3>3. u.mask = s.mask
      BY <1>8, <1>9, <3>1, <3>2 DEF SizeOf
    <3>4. u.chunk[b] = s.chunk[b]
      <4>1. b \in DOMAIN u.chunk
        BY <1>9, <3>2 DEF ChangeSpec
      <4>2. u.chunk[b] \in Metachunk /\ s.chunk[b] \in Metachunk
        BY <3>2, <4>1, ChunkOf
      <4>3. /\ u.chunk[b].level = s.chunk[b].level /\ u.chunk[b].state = s.chunk[b].state
            /\ u.chunk[b].committed = s.chunk[b].committed
            /\ u.chunk[b].used = s.chunk[b].used
        BY <1>9, <3>1, <3>2 DEF ChangeSpec
      <4> QED
        BY <4>2, <4>3 DEF Metachunk
    <3>5. AsBefore(s, u)
      BY <1>8, <3>2, <3>4 DEF AsBefore, ChangeSpec
    <3>6. lean = u
      BY <2>1 DEF u
    <3> QED
      BY <3>2, <3>3, <3>5, <3>6
  <2>2. CASE ~(UncommitFreeChunks /\ WordSize[l] >= GranuleWords)
    BY <1>7, <1>8, <2>2
  <2> QED
    BY <2>1, <2>2
<1> HIDE DEF lean
<1>11. Enlist(lean, b).chunk = lean.chunk /\ Enlist(lean, b).mask = lean.mask
  BY <1>10, ListAccounts, ListKeeps
<1> QED
  BY <1>6, <1>10, <1>11 DEF AsBefore

\* t has a chunk at b that serves r.
Serving(t, b, r) == /\ b \in InUse(t) /\ t.chunk[b].level \in r.pref..r.max
                    /\ t.chunk[b].committed >= r.min /\ t.chunk[b].used = 0

\* A request the limiter lets through gets what it asked for.
LEMMA ServedRequest ==
  ASSUME NEW s, NEW other \in Int, Accounts(s, other), Tiled(s), Backed(s),
         NEW b \in DOMAIN s.chunk, s.chunk[b].state = "free", NEW r \in LegalRequests,
         s.chunk[b].level <= r.max, Serves(s, b, r)
  PROVE  Serving(HandOut(s, b, r), b, r)
<1> DEFINE l      == s.chunk[b].level
           target == CutLevel(s, b, r)
           t      == Cut(s, b, r)
           want   == ToCommit(t, b, r)
           full   == IF Short(t, b, r) THEN CommitUpTo(t, b, want) ELSE t
           took   == [full EXCEPT !.chunk[b].state = "inuse"]
<1>1. /\ r.pref \in Levels /\ r.max \in Levels /\ r.pref \in Nat /\ r.max \in Nat
      /\ r.pref <= r.max /\ r.min \in Nat /\ r.min <= WordSize[r.max]
      /\ l \in Levels /\ l \in Nat
  BY RequestFacts, TiledChunk, LevelRanges
<1>2. target \in Levels /\ target \in r.pref..r.max /\ l <= target
  <2>1. target = IF l < r.pref THEN r.pref ELSE l
    BY DEF CutLevel
  <2> HIDE DEF target, l
  <2> QED
    BY <1>1, <2>1 DEF l
<1>3. /\ Accounts(t, other) /\ Tiled(t) /\ b \in DOMAIN t.chunk /\ t.chunk[b].level = target
      /\ t.chunk[b].used = 0
  <2>1. s.chunk[b].used = 0
    BY DEF Backed, Stands, Line
  <2>2. CASE l < r.pref
    <3>1. t = Split(s, b, r.pref) /\ target = r.pref
      BY <2>2 DEF Cut, CutLevel
    <3>2. /\ Accounts(Split(s, b, r.pref), other) /\ Tiled(Split(s, b, r.pref))
          /\ SplitSpec(s, b, r.pref)
      BY <1>1, <1>2, <3>1, SplitTiled
    <3> QED
      BY <2>1, <3>1, <3>2 DEF SplitSpec
  <2>3. CASE ~(l < r.pref)
    BY <2>1, <2>3 DEF Cut, CutLevel
  <2> QED
    BY <2>2, <2>3
<1> HIDE DEF t, target, l
<1>4. r.min <= WordSize[target] /\ WordSize[target] \in Nat /\ t.chunk[b].committed \in Nat
  <2>1. target <= r.max
    BY <1>1, <1>2
  <2>2. WordSize[r.max] <= WordSize[target]
    BY <1>1, <1>2, <2>1, SizesFall
  <2>3. WordSize[r.max] \in Nat /\ WordSize[target] \in Nat
    BY <1>1, <1>2, SizesPositive
  <2> QED
    BY <1>1, <1>3, <2>2, <2>3, TiledChunk
<1>5. want \in Nat /\ r.min <= want
  BY <1>1, <1>3, <1>4 DEF ToCommit, SizeOf
<1>6. Short(t, b, r) <=> t.chunk[b].committed < want
  BY DEF Short
<1>7. Short(t, b, r) => CanCommit(t, b, want)
  BY DEF Serves, t
<1> HIDE DEF want
<1>8. /\ Accounts(full, other) /\ Tiled(full) /\ b \in DOMAIN full.chunk
      /\ full.chunk[b].level = target /\ full.chunk[b].used = 0
      /\ full.chunk[b].committed >= r.min
  <2>1. CASE Short(t, b, r)
    <3> DEFINE u == CommitUpTo(t, b, want)
    <3>1. /\ Accounts(u, other) /\ Tiled(u) /\ ChangeSpec(t, u, b)
          /\ u.chunk[b].used = t.chunk[b].used
          /\ u.chunk[b].committed = CommitTo(t, b, want)
      BY <1>3, <1>5, <1>7, <2>1, CommitTiled
    <3>2. CommitTo(t, b, want) = CommitLine(want, target)
      BY <1>3 DEF CommitTo
    <3>3. r.min <= CommitLine(want, target) /\ CommitLine(want, target) \in Nat
      BY <1>1, <1>2, <1>4, <1>5, CommitLineFacts
    <3> HIDE DEF u
    <3>4. full = u
      BY <2>1 DEF u
    <3> QED
      BY <1>1, <1>3, <3>1, <3>2, <3>3, <3>4 DEF ChangeSpec
  <2>2. CASE ~Short(t, b, r)
    <3>1. t.chunk[b].committed >= r.min
      BY <1>1, <1>4, <1>5, <1>6, <2>2
    <3> QED
      BY <1>3, <2>2, <3>1
  <2> QED
    BY <2>1, <2>2
<1>9. HandOut(s, b, r) = took
  BY DEF HandOut, t, want
<1> HIDE DEF full
<1>10. /\ ChangeSpec(full, took, b) /\ took.chunk[b].state = "inuse"
       /\ took.chunk[b].used = full.chunk[b].used
       /\ took.chunk[b].committed = full.chunk[b].committed
  BY <1>8, TakeTiled
<1> HIDE DEF took
<1> QED
  BY <1>2, <1>8, <1>9, <1>10 DEF ChangeSpec, Serving, InUse

\* Either way get_chunk does to a free chunk what it promises.
LEMMA HandOutHonours ==
  ASSUME NEW s, NEW other \in Int, Accounts(s, other), Sound(s, {}), Backed(s), Lean(s),
         NEW b \in DOMAIN s.chunk, s.chunk[b].state = "free", NEW r \in LegalRequests,
         s.chunk[b].level <= r.max
  PROVE  LET t == HandOut(s, b, r) IN
         Serving(t, b, r) \/ (AsBefore(s, t) /\ t.mask = s.mask)
<1>1. Tiled(s)
  BY DEF Sound
<1> QED
  BY <1>1, ServedRequest, FailedRequest

-----------------------------------------------------------------------------
(* The headers of chunks in use.                                           *)

\* The headers of the chunks in use, but for those of X, are as they were.
Untouched(s, t, X) ==
  \A a \in InUse(s) \ X : a \in InUse(t) /\ t.chunk[a] = s.chunk[a]

\* One after the other.
LEMMA UntouchedTwice ==
  ASSUME NEW s, NEW t, NEW u, NEW X, NEW Y, NEW Z, Untouched(s, t, X), Untouched(t, u, Y),
         X \subseteq Z, Y \subseteq Z
  PROVE  Untouched(s, u, Z)
BY DEF Untouched

\* What is done to one chunk touches no other; if it is free it does not count.
LEMMA ChangeUntouched ==
  ASSUME NEW s, NEW t, NEW b, ChangeSpec(s, t, b)
  PROVE  Untouched(s, t, {b}) /\ (b \notin InUse(s) => Untouched(s, t, {}))
BY DEF ChangeSpec, Untouched, InUse

\* return_chunk merges and uncommits free chunks only.
LEMMA ReturnUntouched ==
  ASSUME NEW s, NEW other \in Int, Accounts(s, other), Tiled(s), NEW b \in DOMAIN s.chunk
  PROVE  Untouched(s, ReturnChunk(s, b), {b})
<1> DEFINE freed  == SetFree(s, b)
           m      == MergeLevel(freed, b)
           base   == Block(b, m)
           merged == MergeAll(freed, b)
           lean   == IF UncommitFreeChunks /\ WordSize[m] >= GranuleWords
                       THEN Uncommit(merged, base) ELSE merged
<1>1. /\ Accounts(freed, other) /\ Tiled(freed) /\ ChangeSpec(s, freed, b)
      /\ freed.chunk[b].state = "free"
  BY SetFreeTiled
<1> HIDE DEF freed
<1>2. b \in DOMAIN freed.chunk /\ Untouched(s, freed, {b})
  BY <1>1, ChangeUntouched DEF ChangeSpec
<1>3. /\ Accounts(merged, other) /\ Tiled(merged) /\ base \in DOMAIN merged.chunk
      /\ base \notin InUse(merged) /\ Untouched(freed, merged, {})
  <2>1. /\ Accounts(merged, other) /\ Tiled(merged) /\ MergeSpec(freed, b)
        /\ Base(freed, b) \in DOMAIN merged.chunk
        /\ Base(freed, b) \notin DOMAIN freed.chunk \ Parts(freed, b)
    BY <1>1, <1>2, MergeTiled
  <2>2. \A a \in Parts(freed, b) : freed.chunk[a].state = "free"
    <3>1. \A k \in Joined(freed, b) : freed.chunk[Buddy(b, k)].state = "free"
      BY <1>1, <1>2, JoinedBuddies DEF Tiled
    <3> QED
      BY <1>1, <3>1 DEF Parts
  <2> HIDE DEF merged
  <2>3. ASSUME NEW a \in InUse(freed)
        PROVE  a \in InUse(merged) /\ merged.chunk[a] = freed.chunk[a]
    <3>1. a \in DOMAIN freed.chunk \ Parts(freed, b) /\ a # Base(freed, b)
      BY <2>1, <2>2 DEF InUse
    <3>2. merged.chunk[a] = freed.chunk[a] /\ a \in DOMAIN merged.chunk
      BY <2>1, <3>1 DEF MergeSpec, merged
    <3> QED
      BY <3>2 DEF InUse
  <2>4. merged.chunk[base].state = "free" /\ base = Base(freed, b)
    BY <2>1 DEF MergeSpec, merged, Base
  <2> QED
    BY <2>1, <2>3, <2>4 DEF Untouched, InUse
<1> HIDE DEF merged, base, m
<1>4. Accounts(lean, other) /\ Untouched(merged, lean, {})
  <2> DEFINE v == Uncommit(merged, base)
  <2>1. Accounts(v, other) /\ ChangeSpec(merged, v, base)
    BY <1>3, UncommitTiled
  <2> HIDE DEF v
  <2>2. Untouched(merged, v, {}) /\ Untouched(merged, merged, {})
    BY <1>3, <2>1, ChangeUntouched DEF Untouched
  <2>3. lean = v \/ lean = merged
    BY DEF v
  <2> HIDE DEF lean
  <2> QED
    BY <1>3, <2>1, <2>2, <2>3
<1>5. ReturnChunk(s, b) = Enlist(lean, base)
  BY DEF ReturnChunk, freed, merged, base, m
<1> HIDE DEF lean
<1>6. Untouched(lean, Enlist(lean, base), {})
  BY <1>4, ListAccounts DEF Untouched, InUse
<1>7. Untouched(freed, Enlist(lean, base), {b})
  BY <1>3, <1>4, <1>6, UntouchedTwice
<1> QED
  BY <1>2, <1>5, <1>7, UntouchedTwice

\* get_chunk touches the chunk that it hands out, or tried to.
LEMMA HandOutUntouched ==
  ASSUME NEW s, NEW other \in Int, Accounts(s, other), Tiled(s), Backed(s),
         NEW b \in DOMAIN s.chunk, s.chunk[b].state = "free", NEW r \in LegalRequests
  PROVE  Untouched(s, HandOut(s, b, r), {b})
<1> DEFINE t    == Cut(s, b, r)
           want == ToCommit(t, b, r)
           full == IF Short(t, b, r) THEN CommitUpTo(t, b, want) ELSE t
           took == [full EXCEPT !.chunk[b].state = "inuse"]
           back == [t EXCEPT !.chunk[b].state = "inuse"]
<1>1. r.pref \in Levels /\ r.min \in Nat
  BY RequestFacts
<1>2. /\ Accounts(t, other) /\ b \in DOMAIN t.chunk /\ Tiled(t) /\ Untouched(s, t, {b})
  <2>1. CASE s.chunk[b].level < r.pref
    <3>1. s.chunk[b].level <= r.pref
      <4>1. s.chunk[b].level \in Nat /\ r.pref \in Nat
        BY <1>1, ChunkOf, LevelRanges
      <4> QED
        BY <2>1, <4>1
    <3> DEFINE u == Split(s, b, r.pref)
    <3>2. /\ Accounts(u, other) /\ b \in DOMAIN u.chunk /\ Tiled(u)
          /\ SplitSpec(s, b, r.pref)
      BY <1>1, <3>1, SplitAccounts, SplitTiled
    <3>3. t = u
      BY <2>1 DEF Cut
    <3>4. Untouched(s, u, {b})
      BY <3>2 DEF SplitSpec, Untouched, InUse
    <3> QED
      BY <3>2, <3>3, <3>4
  <2>2. CASE ~(s.chunk[b].level < r.pref)
    BY <2>2 DEF Cut, Untouched
  <2> QED
    BY <2>1, <2>2
<1> HIDE DEF t
<1>3. want \in Nat
  BY <1>1, <1>2, ChunkOf DEF ToCommit
<1>4. CASE Serves(s, b, r)
  <2>1. Short(t, b, r) => CanCommit(t, b, want)
    BY <1>4 DEF Serves, t
  <2>2. /\ Accounts(full, other) /\ Tiled(full) /\ b \in DOMAIN full.chunk
        /\ Untouched(t, full, {b})
    <3>1. CASE Short(t, b, r)
      <4> DEFINE u == CommitUpTo(t, b, want)
      <4>1. Accounts(u, other) /\ Tiled(u) /\ ChangeSpec(t, u, b)
        <5> HIDE DEF want
        <5> QED
          BY <1>2, <1>3, <2>1, <3>1, CommitTiled
      <4> HIDE DEF u
      <4>2. full = u
        BY <3>1 DEF u
      <4>3. Untouched(t, u, {b}) /\ b \in DOMAIN u.chunk
        BY <1>2, <4>1, ChangeUntouched DEF ChangeSpec
      <4> QED
        BY <4>1, <4>2, <4>3
    <3>2. CASE ~Short(t, b, r)
      BY <1>2, <3>2 DEF Untouched
    <3> QED
      BY <3>1, <3>2
  <2>3. HandOut(s, b, r) = took
    BY <1>4 DEF HandOut, t
  <2> HIDE DEF full
  <2>4. ChangeSpec(full, took, b)
    BY <2>2, TakeTiled
  <2> HIDE DEF took
  <2>5. Untouched(t, took, {b})
    BY <2>2, <2>4, ChangeUntouched, UntouchedTwice
  <2> QED
    BY <1>2, <2>3, <2>5, UntouchedTwice
<1>5. CASE ~Serves(s, b, r)
  <2>1. Accounts(back, other) /\ Tiled(back) /\ ChangeSpec(t, back, b)
    BY <1>2, TakeTiled
  <2>2. HandOut(s, b, r) = ReturnChunk(back, b)
    BY <1>5 DEF HandOut, t
  <2> HIDE DEF back
  <2>3. b \in DOMAIN back.chunk /\ Untouched(t, back, {b})
    BY <1>2, <2>1, ChangeUntouched DEF ChangeSpec
  <2> DEFINE u == ReturnChunk(back, b)
  <2>4. Untouched(back, u, {b})
    BY <2>1, <2>3, ReturnUntouched
  <2> HIDE DEF u
  <2>5. Untouched(t, u, {b})
    BY <2>3, <2>4, UntouchedTwice
  <2> QED
    BY <1>2, <2>2, <2>5, UntouchedTwice DEF u
<1> QED
  BY <1>4, <1>5

\* purge removes and uncommits free chunks only.
LEMMA PurgeUntouched ==
  ASSUME NEW s, NEW other \in Int, Accounts(s, other), Tiled(s)
  PROVE  /\ Untouched(s, PurgeNodes(s), {})
         /\ Listed(s, {}) => Untouched(s, UncommitListed(s), {})
<1>1. Untouched(s, PurgeNodes(s), {})
  <2> DEFINE t    == PurgeNodes(s)
             dead == DeadNodes(s)
             gone == {b \in DOMAIN s.chunk : b \div NodeWords \in dead}
  <2>1. t.chunk = [a \in DOMAIN s.chunk \ gone |-> s.chunk[a]]
    <3> HIDE DEF dead
    <3> QED
      BY DEF Accounts, Fields, PurgeNodes, dead
  <2>2. ASSUME NEW b \in gone
        PROVE  s.chunk[b].state = "free"
    BY DeadChunks
  <2> HIDE DEF t, gone
  <2> QED
    BY <2>1, <2>2 DEF Untouched, InUse, t
<1>2. ASSUME Listed(s, {})
      PROVE  Untouched(s, UncommitListed(s), {})
  <2> DEFINE t       == UncommitListed(s)
             walked  == UNION {Range(s.list[l]) : l \in RootLevel..GranuleLevel}
             bare(a) == [s.chunk[a] EXCEPT !.committed = 0]
  <2>1. t.chunk = [a \in DOMAIN s.chunk |-> IF a \in walked THEN bare(a) ELSE s.chunk[a]]
    <3> HIDE DEF walked
    <3> QED
      BY DEF Accounts, Fields, UncommitListed, walked
  <2>2. ASSUME NEW a \in walked
        PROVE  s.chunk[a].state = "free"
    <3>1. PICK l \in RootLevel..GranuleLevel : a \in Range(s.list[l])
      OBVIOUS
    <3>2. l \in Levels
      BY GeometryAssumption DEF Levels, RootLevel
    <3> QED
      BY <1>2, <3>1, <3>2 DEF Listed, Lists, Idle
  <2> HIDE DEF t, walked, bare
  <2> QED
    BY <2>1, <2>2 DEF Untouched, InUse, t
<1> QED
  BY <1>1, <1>2

-----------------------------------------------------------------------------
(* The counters of the free lists.                                         *)

\* The committed words of the chunks at S.
CommittedIn(f, S) == Total([a \in DOMAIN f |-> f[a].committed], S)

\* Every list's counter is the sum over its chunks, but for the chunks X in limbo.
Counted(s, X) ==
  /\ DOMAIN s.listed = Levels
  /\ \A l \in Levels : s.listed[l] = CommittedIn(s.chunk, Idle(s, X, l))

\* What is in a list are chunks.
LEMMA IdleChunks ==
  ASSUME NEW s, NEW X, NEW l
  PROVE  Idle(s, X, l) \subseteq DOMAIN s.chunk
BY DEF Idle

\* The chunks of a context stand at addresses of the reservation.
LEMMA ChunkAddresses ==
  ASSUME NEW s, Tiled(s)
  PROVE  DOMAIN s.chunk \subseteq Addresses
<1> SUFFICES ASSUME NEW b \in DOMAIN s.chunk
             PROVE  b \in Addresses
  OBVIOUS
<1>1. b \in Handed(s)
  BY ChunkOfTiling DEF Tiled
<1> QED
  BY <1>1 DEF Handed

\* There are finitely many.
LEMMA IdleFinite ==
  ASSUME NEW s, Tiled(s), NEW X, NEW l
  PROVE  IsFiniteSet(DOMAIN s.chunk) /\ IsFiniteSet(Idle(s, X, l))
<1>1. DOMAIN s.chunk \subseteq Addresses
  BY ChunkAddresses
<1>2. IsFiniteSet(Addresses)
  <2>1. NumNodes * NodeWords - 1 \in Int
    BY NodeSize, GeometryAssumption
  <2> QED
    BY <2>1, FS_Interval DEF Addresses
<1> QED
  BY <1>1, <1>2, IdleChunks, FS_Subset

\* n is the sum over the chunks S of f: from it follows the sum over the chunks
\* T of g, when T differs from S by at most one chunk.
Moves(n, f, S, g, T) ==
  /\ n \in Int
  /\ T = S => CommittedIn(g, T) = n
  /\ \A p : p \notin S /\ T = S \cup {p} => CommittedIn(g, T) = n + g[p].committed
  /\ \A p \in S : T = S \ {p} => CommittedIn(g, T) = n - f[p].committed

\* So it is when the chunks in both have the same line in g as in f.
LEMMA CountMoves ==
  ASSUME NEW f, ChunkMap(f), NEW g, ChunkMap(g),
         NEW S, IsFiniteSet(S), S \subseteq DOMAIN f, NEW T, T \subseteq DOMAIN g,
         \A a \in S \cap T : g[a].committed = f[a].committed, NEW n, n = CommittedIn(f, S)
  PROVE  Moves(n, f, S, g, T)
<1> DEFINE F == [a \in DOMAIN f |-> f[a].committed]
           G == [a \in DOMAIN g |-> g[a].committed]
<1>1. /\ \A a \in S : F[a] \in Int /\ F[a] = f[a].committed
      /\ \A a \in T : G[a] \in Int /\ G[a] = g[a].committed
      /\ \A a \in S \cap T : G[a] = F[a]
  BY DEF ChunkMap, Metachunk
<1>2. CommittedIn(f, S) = Total(F, S) /\ CommittedIn(g, T) = Total(G, T)
  BY DEF CommittedIn
<1> HIDE DEF F, G
<1>3. n = Total(F, S) /\ n \in Int
  BY <1>1, <1>2, TotalIsNumber
<1>4. ASSUME T = S
      PROVE  CommittedIn(g, T) = n
  BY <1>1, <1>2, <1>3, <1>4, TotalSame
<1>5. ASSUME NEW p, p \notin S, T = S \cup {p}
      PROVE  CommittedIn(g, T) = n + g[p].committed
  <2>1. Total(G, S) = Total(F, S)
    BY <1>1, <1>5, TotalSame
  <2>2. Total(G, S \cup {p}) = Total(G, S) + G[p]
    <3>1. \A a \in S \cup {p} : G[a] \in Int
      BY <1>1, <1>5
    <3> QED
      BY <1>5, <3>1, TotalAdd
  <2> QED
    BY <1>1, <1>2, <1>3, <1>5, <2>1, <2>2
<1>6. ASSUME NEW p \in S, T = S \ {p}
      PROVE  CommittedIn(g, T) = n - f[p].committed
  <2>1. IsFiniteSet(T)
    BY <1>6, FS_Subset
  <2>2. Total(G, T) = Total(F, T)
    BY <1>1, <1>6, <2>1, TotalSame
  <2>3. Total(F, S) = Total(F, T) + F[p]
    BY <1>1, <1>6, TotalRemove
  <2>4. Total(F, T) \in Int /\ F[p] \in Int
    BY <1>1, <1>6, <2>1, TotalIsNumber
  <2> QED
    BY <1>1, <1>2, <1>3, <2>2, <2>3, <2>4
<1> QED
  BY <1>3, <1>4, <1>5, <1>6 DEF Moves

\* The same for the list of level l.
LEMMA LevelMoves ==
  ASSUME NEW s, NEW other \in Int, Accounts(s, other), Tiled(s), NEW X, Counted(s, X),
         NEW t, ChunkMap(t.chunk), NEW Y, NEW l \in Levels,
         \A a \in Idle(s, X, l) \cap Idle(t, Y, l) : t.chunk[a].committed = s.chunk[a].committed
  PROVE  Moves(s.listed[l], s.chunk, Idle(s, X, l), t.chunk, Idle(t, Y, l))
<1>1. s.listed[l] = CommittedIn(s.chunk, Idle(s, X, l)) /\ ChunkMap(s.chunk)
  BY DEF Counted, Accounts
<1>2. /\ IsFiniteSet(Idle(s, X, l)) /\ Idle(s, X, l) \subseteq DOMAIN s.chunk
      /\ Idle(t, Y, l) \subseteq DOMAIN t.chunk
  BY IdleFinite, IdleChunks
<1> QED
  BY <1>1, <1>2, CountMoves

\* An operation that touches no listed chunk.
LEMMA FrameCounted ==
  ASSUME NEW s, NEW other \in Int, Accounts(s, other), Tiled(s), NEW X, Counted(s, X),
         NEW t, ChunkMap(t.chunk), NEW Y, t.listed = s.listed,
         \A l \in Levels : Idle(t, Y, l) = Idle(s, X, l),
         \A l \in Levels : \A b \in Idle(s, X, l) :
           t.chunk[b].committed = s.chunk[b].committed
  PROVE  Counted(t, Y)
<1> SUFFICES ASSUME NEW l \in Levels
             PROVE  s.listed[l] = CommittedIn(t.chunk, Idle(t, Y, l))
  BY DEF Counted
<1>1. Moves(s.listed[l], s.chunk, Idle(s, X, l), t.chunk, Idle(t, Y, l))
  BY LevelMoves
<1> QED
  BY <1>1 DEF Moves

\* A chunk in limbo or in use changes in place, and is in limbo or in use then.
LEMMA ChangeCounted ==
  ASSUME NEW s, NEW other \in Int, Accounts(s, other), Tiled(s), NEW X, Counted(s, X),
         NEW b \in DOMAIN s.chunk, NEW t, ChangeSpec(s, t, b), Accounts(t, other),
         t.listed = s.listed, b \in X \/ s.chunk[b].state # "free",
         NEW Y, b \in Y \/ t.chunk[b].state # "free", X \ {b} = Y \ {b}
  PROVE  Counted(t, Y)
<1>1. /\ DOMAIN t.chunk = DOMAIN s.chunk /\ ChunkMap(t.chunk)
      /\ \A a \in DOMAIN s.chunk : a # b => t.chunk[a] = s.chunk[a]
  BY DEF ChangeSpec, Accounts
<1>2. \A l \in Levels : Idle(t, Y, l) = Idle(s, X, l)
  BY <1>1 DEF Idle
<1>3. \A l \in Levels : \A a \in Idle(s, X, l) : t.chunk[a].committed = s.chunk[a].committed
  BY <1>1 DEF Idle
<1> QED
  BY <1>1, <1>2, <1>3, FrameCounted

\* A free chunk leaves its list, and its committed words the counter.
LEMMA DelistCounted ==
  ASSUME NEW s, NEW other \in Int, Accounts(s, other), Tiled(s), Counted(s, {}),
         NEW b \in DOMAIN s.chunk, s.chunk[b].state = "free"
  PROVE  Counted(Delist(s, b), {b})
<1> DEFINE t == Delist(s, b)
           k == s.chunk[b].level
           c == s.chunk[b].committed
<1>1. t.chunk = s.chunk /\ t.listed = [s.listed EXCEPT ![k] = @ - c]
  BY DEF Accounts, Fields, Delist
<1>2. DOMAIN s.listed = Levels /\ k \in Levels /\ ChunkMap(s.chunk)
  BY ChunkOf DEF Counted, Accounts
<1> HIDE DEF t
<1>3. /\ DOMAIN t.listed = Levels /\ t.listed[k] = s.listed[k] - c
      /\ \A l \in Levels : l # k => t.listed[l] = s.listed[l]
  <2> HIDE DEF k, c
  <2> QED
    BY <1>1, <1>2
<1>4. ASSUME NEW l \in Levels
      PROVE  t.listed[l] = CommittedIn(t.chunk, Idle(t, {b}, l))
  <2> DEFINE S == Idle(s, {}, l)
             T == Idle(t, {b}, l)
  <2>1. /\ l = k => b \in S /\ T = S \ {b}
        /\ l # k => T = S
    BY <1>1 DEF Idle
  <2>2. Moves(s.listed[l], s.chunk, S, t.chunk, T)
    BY <1>1, <1>2, LevelMoves
  <2> HIDE DEF S, T, k
  <2> QED
    BY <1>3, <2>1, <2>2 DEF Moves, T
<1> QED
  BY <1>3, <1>4 DEF Counted, t

\* A free chunk in limbo enters the list of its level, its words the counter.
LEMMA EnlistCounted ==
  ASSUME NEW s, NEW other \in Int, Accounts(s, other), Tiled(s), NEW b \in DOMAIN s.chunk,
         Counted(s, {b}), s.chunk[b].state = "free"
  PROVE  Counted(Enlist(s, b), {})
<1> DEFINE t == Enlist(s, b)
           k == s.chunk[b].level
           c == s.chunk[b].committed
<1>1. t.chunk = s.chunk /\ t.listed = [s.listed EXCEPT ![k] = @ + c]
  BY DEF Accounts, Fields, Enlist
<1>2. DOMAIN s.listed = Levels /\ k \in Levels /\ ChunkMap(s.chunk)
  BY ChunkOf DEF Counted, Accounts
<1> HIDE DEF t
<1>3. /\ DOMAIN t.listed = Levels /\ t.listed[k] = s.listed[k] + c
      /\ \A l \in Levels : l # k => t.listed[l] = s.listed[l]
  <2> HIDE DEF k, c
  <2> QED
    BY <1>1, <1>2
<1>4. ASSUME NEW l \in Levels
      PROVE  t.listed[l] = CommittedIn(t.chunk, Idle(t, {}, l))
  <2> DEFINE S == Idle(s, {b}, l)
             T == Idle(t, {}, l)
  <2>1. /\ l = k => b \notin S /\ T = S \cup {b}
        /\ l # k => T = S
    BY <1>1 DEF Idle
  <2>2. Moves(s.listed[l], s.chunk, S, t.chunk, T)
    BY <1>1, <1>2, LevelMoves
  <2> HIDE DEF S, T, k
  <2> QED
    BY <1>1, <1>3, <2>1, <2>2 DEF Moves, T
<1> QED
  BY <1>3, <1>4 DEF Counted, t

\* Splitting counts every splinter in the list of its level.
LEMMA SplitCounted ==
  ASSUME NEW s, NEW other \in Int, Accounts(s, other), Tiled(s), NEW b \in DOMAIN s.chunk,
         Counted(s, {b}), NEW target \in Levels, s.chunk[b].level <= target
  PROVE  Counted(Split(s, b, target), {b})
<1> DEFINE t    == Split(s, b, target)
           cuts == Cuts(s, b, target)
<1>1. SplitSpec(s, b, target) /\ Accounts(t, other)
  BY SplitTiled
<1>2. /\ DOMAIN t.chunk = DOMAIN s.chunk \cup {b + WordSize[k] : k \in cuts}
      /\ \A a \in DOMAIN s.chunk : a # b => t.chunk[a] = s.chunk[a]
      /\ \A k \in cuts : /\ b + WordSize[k] \notin DOMAIN s.chunk
                         /\ t.chunk[b + WordSize[k]].level = k
                         /\ t.chunk[b + WordSize[k]].committed = Spill(s, b, k)
                         /\ t.chunk[b + WordSize[k]].state = "free"
  BY <1>1 DEF SplitSpec, Pieces
<1>3. /\ DOMAIN t.listed = Levels /\ ChunkMap(t.chunk)
      /\ \A k \in Levels : t.listed[k] = IF k \in cuts THEN s.listed[k] + Spill(s, b, k)
                                                       ELSE s.listed[k]
  <2>1. t.listed = [k \in Levels |-> IF k \in cuts THEN s.listed[k] + Spill(s, b, k)
                                                   ELSE s.listed[k]]
    BY DEF Accounts, Fields, Split, Cuts, Spill
  <2> HIDE DEF t, cuts
  <2> QED
    BY <1>1, <2>1 DEF Accounts
<1> HIDE DEF t, cuts
<1>4. ASSUME NEW l \in Levels
      PROVE  t.listed[l] = CommittedIn(t.chunk, Idle(t, {b}, l))
  <2> DEFINE S == Idle(s, {b}, l)
             T == Idle(t, {b}, l)
             p == b + WordSize[l]
  <2>1. \A a \in S : a \in DOMAIN s.chunk /\ t.chunk[a] = s.chunk[a]
    BY <1>2 DEF Idle
  <2>2. \A a \in T : a \in S \/ (l \in cuts /\ a = p)
    BY <1>2 DEF Idle
  <2>3. S \subseteq T
    BY <1>2 DEF Idle
  <2>4. l \in cuts => /\ p \notin S /\ T = S \cup {p}
                      /\ t.chunk[p].committed = Spill(s, b, l)
    <3> SUFFICES ASSUME l \in cuts
                 PROVE  /\ p \notin S /\ T = S \cup {p}
                        /\ t.chunk[p].committed = Spill(s, b, l)
      OBVIOUS
    <3>1. p \notin S /\ p # b /\ t.chunk[p].committed = Spill(s, b, l)
      BY <1>2, <2>1
    <3>2. p \in T
      BY <1>2, <3>1 DEF Idle
    <3> QED
      BY <2>2, <2>3, <3>1, <3>2
  <2>5. l \notin cuts => T = S
    BY <2>2, <2>3
  <2>6. Moves(s.listed[l], s.chunk, S, t.chunk, T)
    BY <1>3, <2>1, LevelMoves
  <2> HIDE DEF S, T, p
  <2> QED
    BY <1>3, <2>4, <2>5, <2>6 DEF Moves, T
<1> QED
  BY <1>3, <1>4 DEF Counted, t

\* Merging takes every joined buddy out of the counter of its list.
LEMMA MergeCounted ==
  ASSUME NEW s, NEW other \in Int, Accounts(s, other), Tiled(s), NEW b \in DOMAIN s.chunk,
         Counted(s, {b})
  PROVE  Counted(MergeAll(s, b), {Base(s, b)})
<1> DEFINE t      == MergeAll(s, b)
           base   == Base(s, b)
           parts  == Parts(s, b)
           joined == Joined(s, b)
<1>1. /\ MergeSpec(s, b) /\ base \notin DOMAIN s.chunk \ parts /\ Accounts(t, other)
  BY MergeTiled
<1>2. /\ DOMAIN t.chunk = (DOMAIN s.chunk \ parts) \cup {base}
      /\ \A a \in DOMAIN s.chunk \ parts : a # base => t.chunk[a] = s.chunk[a]
  BY <1>1 DEF MergeSpec
<1>3. /\ parts = {b} \cup {Buddy(b, k) : k \in joined}
      /\ \A k \in joined : /\ Buddy(b, k) \in DOMAIN s.chunk /\ Buddy(b, k) # b
                           /\ s.chunk[Buddy(b, k)].level = k
                           /\ s.chunk[Buddy(b, k)].state = "free"
  BY JoinedBuddies DEF Tiled, Parts
<1>4. /\ DOMAIN t.listed = Levels /\ ChunkMap(t.chunk)
      /\ \A k \in Levels : t.listed[k] =
           IF k \in joined THEN s.listed[k] - s.chunk[Buddy(b, k)].committed ELSE s.listed[k]
  <2>1. t.listed = [k \in Levels |-> IF k \in joined
                                       THEN s.listed[k] - s.chunk[Buddy(b, k)].committed
                                       ELSE s.listed[k]]
    BY DEF Accounts, Fields, MergeAll, Merge, Joined
  <2> HIDE DEF t, joined
  <2> QED
    BY <1>1, <2>1 DEF Accounts
<1> HIDE DEF t, base, parts, joined
<1>5. ASSUME NEW l \in Levels
      PROVE  t.listed[l] = CommittedIn(t.chunk, Idle(t, {base}, l))
  <2> DEFINE S == Idle(s, {b}, l)
             T == Idle(t, {base}, l)
             p == Buddy(b, l)
  <2>1. \A a \in T : a \in S /\ a \notin parts /\ t.chunk[a] = s.chunk[a]
    BY <1>2, <1>3 DEF Idle
  <2>2. \A a \in S : a \notin parts => a \in T
    BY <1>1, <1>2 DEF Idle
  <2>3. \A a \in S : a \in parts => l \in joined /\ a = p
    BY <1>3 DEF Idle
  <2>4. l \in joined => p \in S /\ p \in parts
    BY <1>3 DEF Idle
  <2>5. PICK X : X = {b} /\ Counted(s, X) /\ S = Idle(s, X, l) /\ T = Idle(t, {base}, l)
    OBVIOUS
  <2>6. Moves(s.listed[l], s.chunk, S, t.chunk, T)
    BY <1>4, <2>1, LevelMoves
  <2> HIDE DEF S, T, p
  <2>7. /\ l \in joined => T = S \ {p}
        /\ l \notin joined => T = S
    BY <2>1, <2>2, <2>3, <2>4
  <2> QED
    BY <1>4, <2>4, <2>5, <2>6, <2>7 DEF Moves, T, p
<1> QED
  BY <1>4, <1>5 DEF Counted, t, base

\* The claimed buddy leaves the counter of its list.
LEMMA EnlargeCounted ==
  ASSUME NEW s, NEW other \in Int, Accounts(s, other), Tiled(s), NEW b \in DOMAIN s.chunk,
         CanEnlarge(s, b), Counted(s, {}), s.chunk[b].state = "inuse"
  PROVE  Counted(Enlarge(s, b), {})
<1> DEFINE t     == Enlarge(s, b)
           k     == s.chunk[b].level
           buddy == Buddy(b, k)
           u     == Delist(s, buddy)
           limbo == {buddy}
<1>1. EnlargeSpec(s, b) /\ Accounts(t, other)
  BY EnlargeTiled
<1>2. /\ DOMAIN t.chunk = DOMAIN s.chunk \ {buddy}
      /\ t.chunk[b].state = "inuse"
      /\ \A a \in DOMAIN s.chunk \ {buddy} : a # b => t.chunk[a] = s.chunk[a]
  BY <1>1 DEF EnlargeSpec
<1>3. buddy \in DOMAIN s.chunk /\ buddy # b /\ s.chunk[buddy].state = "free"
  BY ClaimedBuddy DEF Tiled
<1>4. Counted(u, limbo) /\ Accounts(u, other) /\ Tiled(u) /\ u.chunk = s.chunk
  <2> HIDE DEF buddy
  <2> QED
    BY <1>3, DelistCounted, ListAccounts, ListTiled
<1>5. t.listed = u.listed
  <2>1. DOMAIN u = Fields
    BY <1>4 DEF Accounts
  <2> HIDE DEF u
  <2> QED
    BY <2>1 DEF Enlarge, Fields, u
<1> HIDE DEF t, u, k, buddy
<1>6. \A l \in Levels : Idle(t, {}, l) = Idle(u, limbo, l)
  BY <1>2, <1>4 DEF Idle
<1>7. \A l \in Levels : \A a \in Idle(u, limbo, l) :
        t.chunk[a].committed = u.chunk[a].committed
  BY <1>2, <1>4, <1>3 DEF Idle
<1>8. ChunkMap(t.chunk)
  BY <1>1 DEF Accounts
<1> HIDE DEF limbo
<1>9. Counted(t, {})
  BY <1>4, <1>5, <1>6, <1>7, <1>8, FrameCounted
<1> QED
  BY <1>9 DEF t

\* A chunk in use is in no list, in limbo or not.
LEMMA UsedIsUncounted ==
  ASSUME NEW s, NEW b, s.chunk[b].state # "free"
  PROVE  Counted(s, {}) <=> Counted(s, {b})
<1>1. \A l \in Levels : Idle(s, {}, l) = Idle(s, {b}, l)
  BY DEF Idle
<1> QED
  BY <1>1 DEF Counted

\* The counters are nobody else's business.
LEMMA SameCounters ==
  ASSUME NEW s, NEW other \in Int, Accounts(s, other), NEW b, NEW words, NEW size, NEW n
  PROVE  /\ SetFree(s, b).listed = s.listed /\ Uncommit(s, b).listed = s.listed
         /\ CommitUpTo(s, b, words).listed = s.listed
         /\ [s EXCEPT !.chunk[b].state = "inuse"].listed = s.listed
         /\ Bump(s, b, size).listed = s.listed
         /\ NewNode(s, n).listed = s.listed
         /\ AllocateRootChunk(s, b).listed = s.listed
         /\ UncommitListed(s).listed = s.listed
<1>1. DOMAIN s = Fields
  BY DEF Accounts
<1>2. SetFree(s, b).listed = s.listed /\ [s EXCEPT !.chunk[b].state = "inuse"].listed = s.listed
  BY <1>1 DEF Fields, SetFree
<1>3. Uncommit(s, b).listed = s.listed
  <2> DEFINE u == UncommitRange(s, b, SizeOf(s, b))
  <2>1. DOMAIN u = Fields /\ u.listed = s.listed
    BY <1>1 DEF Fields, UncommitRange
  <2> HIDE DEF u
  <2> QED
    BY <2>1 DEF Fields, Uncommit, u
<1>4. CommitUpTo(s, b, words).listed = s.listed
  <2>1. \A from, n2 : /\ DOMAIN CommitRange(s, from, n2) = Fields
                      /\ CommitRange(s, from, n2).listed = s.listed
    BY <1>1 DEF Fields, CommitRange
  <2> QED
    BY <1>1, <2>1 DEF Fields, CommitUpTo
<1>5. Bump(s, b, size).listed = s.listed
  BY <1>1 DEF Fields, Bump
<1>6. NewNode(s, n).listed = s.listed /\ AllocateRootChunk(s, b).listed = s.listed
  BY <1>1 DEF Fields, NewNode, AllocateRootChunk
<1>7. UncommitListed(s).listed = s.listed
  BY <1>1 DEF Fields, UncommitListed
<1> QED
  BY <1>2, <1>3, <1>4, <1>5, <1>6, <1>7

\* return_chunk_locked counts what the returned chunk was merged into.
LEMMA ReturnChunkCounted ==
  ASSUME NEW s, NEW other \in Int, Accounts(s, other), Tiled(s), NEW b \in DOMAIN s.chunk,
         Counted(s, {b})
  PROVE  Counted(ReturnChunk(s, b), {})
<1> DEFINE freed  == SetFree(s, b)
           m      == MergeLevel(freed, b)
           base   == Block(b, m)
           merged == MergeAll(freed, b)
           lean   == IF UncommitFreeChunks /\ WordSize[m] >= GranuleWords
                       THEN Uncommit(merged, base) ELSE merged
<1>1. /\ Accounts(freed, other) /\ Tiled(freed) /\ ChangeSpec(s, freed, b)
      /\ freed.listed = s.listed
  BY SetFreeTiled, SameCounters
<1>2. b \in DOMAIN freed.chunk
  BY <1>1 DEF ChangeSpec
<1> HIDE DEF freed
<1>3. Counted(freed, {b})
  BY <1>1, ChangeCounted
<1>4. /\ Accounts(merged, other) /\ Tiled(merged) /\ base \in DOMAIN merged.chunk
      /\ MergeSpec(freed, b)
  BY <1>1, <1>2, MergeTiled DEF Base
<1>5. Counted(merged, {base})
  BY <1>1, <1>2, <1>3, MergeCounted DEF Base
<1>6. merged.chunk[base].state = "free"
  BY <1>4 DEF MergeSpec, Base
<1> HIDE DEF merged, base
<1>7. /\ Accounts(lean, other) /\ Tiled(lean) /\ Counted(lean, {base})
      /\ base \in DOMAIN lean.chunk /\ lean.chunk[base].state = "free"
  <2> DEFINE v == Uncommit(merged, base)
  <2>1. /\ Accounts(v, other) /\ Tiled(v) /\ ChangeSpec(merged, v, base)
        /\ v.chunk[base].state = "free" /\ v.listed = merged.listed
    <3>1. v.listed = merged.listed
      BY <1>4, SameCounters
    <3>2. /\ Accounts(v, other) /\ Tiled(v) /\ ChangeSpec(merged, v, base)
          /\ v.chunk[base].state = merged.chunk[base].state
      BY <1>4, UncommitTiled
    <3> HIDE DEF v
    <3> QED
      BY <1>6, <3>1, <3>2
  <2> HIDE DEF v
  <2>2. Counted(v, {base}) /\ base \in DOMAIN v.chunk
    BY <1>4, <1>5, <2>1, ChangeCounted DEF ChangeSpec
  <2>3. lean = v \/ lean = merged
    BY DEF v
  <2> HIDE DEF lean
  <2> QED
    BY <1>4, <1>5, <1>6, <2>1, <2>2, <2>3
<1>8. ReturnChunk(s, b) = Enlist(lean, base)
  BY DEF ReturnChunk, freed, merged, base
<1> HIDE DEF lean
<1> QED
  BY <1>7, <1>8, EnlistCounted

\* get_chunk, once it has found a chunk: whether it succeeds or fails, the
\* counters are exact.
LEMMA HandOutCounted ==
  ASSUME NEW s, NEW other \in Int, Accounts(s, other), Tiled(s), NEW b \in DOMAIN s.chunk,
         Counted(s, {b}), NEW r \in LegalRequests
  PROVE  Counted(HandOut(s, b, r), {})
<1> DEFINE t    == Cut(s, b, r)
           want == ToCommit(t, b, r)
           full == IF Short(t, b, r) THEN CommitUpTo(t, b, want) ELSE t
           took == [full EXCEPT !.chunk[b].state = "inuse"]
           back == [t EXCEPT !.chunk[b].state = "inuse"]
<1>1. r.pref \in Levels /\ r.min \in Nat
  BY RequestFacts
<1>2. Accounts(t, other) /\ b \in DOMAIN t.chunk /\ Tiled(t) /\ Counted(t, {b})
  <2>1. CASE s.chunk[b].level < r.pref
    <3>1. s.chunk[b].level <= r.pref
      <4>1. s.chunk[b].level \in Nat /\ r.pref \in Nat
        BY <1>1, ChunkOf, LevelRanges
      <4> QED
        BY <2>1, <4>1
    <3> DEFINE u == Split(s, b, r.pref)
    <3>2. Accounts(u, other) /\ b \in DOMAIN u.chunk /\ Tiled(u) /\ Counted(u, {b})
      BY <1>1, <3>1, SplitAccounts, SplitTiled, SplitCounted
    <3>3. t = u
      BY <2>1 DEF Cut
    <3> QED
      BY <3>2, <3>3
  <2>2. CASE ~(s.chunk[b].level < r.pref)
    BY <2>2 DEF Cut
  <2> QED
    BY <2>1, <2>2
<1> HIDE DEF t
<1>3. want \in Nat
  BY <1>1, <1>2, ChunkOf DEF ToCommit
<1>4. CASE Serves(s, b, r)
  <2>1. Short(t, b, r) => CanCommit(t, b, want)
    BY <1>4 DEF Serves, t
  <2>2. /\ Accounts(full, other) /\ Tiled(full) /\ Counted(full, {b}) /\ b \in DOMAIN full.chunk
    <3>1. CASE Short(t, b, r)
      <4> DEFINE u == CommitUpTo(t, b, want)
      <4>1. /\ Accounts(u, other) /\ Tiled(u) /\ ChangeSpec(t, u, b)
        <5> HIDE DEF want
        <5> QED
          BY <1>2, <1>3, <2>1, <3>1, CommitTiled
      <4> HIDE DEF u
      <4>2. u.listed = t.listed
        BY <1>2, SameCounters DEF u
      <4>3. Counted(u, {b}) /\ b \in DOMAIN u.chunk
        BY <1>2, <4>1, <4>2, ChangeCounted DEF ChangeSpec
      <4>4. full = u
        BY <3>1 DEF u
      <4> QED
        BY <4>1, <4>3, <4>4
    <3>2. CASE ~Short(t, b, r)
      BY <1>2, <3>2
    <3> QED
      BY <3>1, <3>2
  <2>3. HandOut(s, b, r) = took
    BY <1>4 DEF HandOut, t
  <2> HIDE DEF full
  <2>4. /\ ChangeSpec(full, took, b) /\ took.chunk[b].state = "inuse"
        /\ Accounts(took, other) /\ took.listed = full.listed
    BY <2>2, TakeTiled, SameCounters
  <2> HIDE DEF took
  <2> QED
    BY <2>2, <2>3, <2>4, ChangeCounted
<1>5. CASE ~Serves(s, b, r)
  <2>1. /\ Accounts(back, other) /\ Tiled(back) /\ ChangeSpec(t, back, b)
        /\ back.listed = t.listed
    BY <1>2, TakeTiled, SameCounters
  <2>2. HandOut(s, b, r) = ReturnChunk(back, b)
    BY <1>5 DEF HandOut, t
  <2> HIDE DEF back
  <2>3. b \in DOMAIN back.chunk /\ Counted(back, {b})
    BY <1>2, <2>1, ChangeCounted DEF ChangeSpec
  <2> QED
    BY <2>1, <2>2, <2>3, ReturnChunkCounted
<1> QED
  BY <1>4, <1>5

\* A root chunk is taken from its node straight into limbo.
LEMMA RootChunkCounted ==
  ASSUME NEW s, NEW other \in Int, Accounts(s, other), Sound(s, {}), Counted(s, {}),
         ~HeadIsFull(s), NEW b \in Int, b = NextRoot(s)
  PROVE  Counted(AllocateRootChunk(s, b), {b})
<1> DEFINE t     == AllocateRootChunk(s, b)
           limbo == {b}
<1>1. /\ t.listed = s.listed
      /\ t.chunk = [a \in DOMAIN s.chunk \cup {b} |->
                      IF a = b THEN FreshChunk(RootLevel) ELSE s.chunk[a]]
  BY SameCounters DEF Accounts, Fields, AllocateRootChunk
<1>2. b \notin DOMAIN s.chunk /\ ChunkMap(t.chunk) /\ Tiled(s)
  BY RootChunkSound DEF Accounts, Sound
<1> HIDE DEF t
<1>3. \A l \in Levels : Idle(t, limbo, l) = Idle(s, {}, l)
  BY <1>1, <1>2 DEF Idle
<1>4. \A l \in Levels : \A a \in Idle(s, {}, l) : t.chunk[a].committed = s.chunk[a].committed
  BY <1>1, <1>2 DEF Idle
<1> HIDE DEF limbo
<1>5. Counted(t, limbo)
  BY <1>1, <1>2, <1>3, <1>4, FrameCounted
<1> QED
  BY <1>5 DEF t, limbo

\* A new node has no chunk yet.
LEMMA NewNodeCounted ==
  ASSUME NEW s, NEW other \in Int, Accounts(s, other), Counted(s, {}), NEW n
  PROVE  Counted(NewNode(s, n), {})
<1>1. NewNode(s, n).listed = s.listed /\ NewNode(s, n).chunk = s.chunk
  BY SameCounters DEF Accounts, Fields, NewNode
<1> QED
  BY <1>1 DEF Counted, Idle

\* MapThenSumSet adds up committed words: its fold, as a function of the subsets.
CommittedSums(F, f, S) ==
  F = [d \in SUBSET S |-> IF d = {} THEN 0 ELSE f[Pick(d)].committed + F[d \ {Pick(d)}]]

\* The fold adds up what is committed in the chunks of S.
LEMMA CommittedSum ==
  ASSUME NEW f, ChunkMap(f), NEW S, IsFiniteSet(S), S \subseteq DOMAIN f
  PROVE  (CHOOSE F : CommittedSums(F, f, S))[S] = CommittedIn(f, S)
<1> DEFINE g == [a \in DOMAIN f |-> f[a].committed]
           H == CHOOSE F : CommittedSums(F, f, S)
<1>1. \A a \in S : g[a] \in Int /\ g[a] = f[a].committed
  BY DEF ChunkMap, Metachunk
<1>2. CommittedIn(f, S) = Total(g, S)
  BY DEF CommittedIn
<1> HIDE DEF g
<1>3. PICK F : AddsUp(F, g, S)
  BY <1>1, SumsExist
<1>4. SumsUp(F, g, S) /\ Total(g, S) = F[S]
  BY <1>3, AddsUpSumsUp, TotalAddsUp
<1>5. ASSUME NEW G
      PROVE  CommittedSums(G, f, S) <=> SumsUp(G, g, S)
  <2>1. \A d \in SUBSET S : d # {} => Pick(d) \in S
    BY DEF Pick
  <2>2. [d \in SUBSET S |-> IF d = {} THEN 0 ELSE f[Pick(d)].committed + G[d \ {Pick(d)}]]
        = [d \in SUBSET S |-> IF d = {} THEN 0 ELSE g[Pick(d)] + G[d \ {Pick(d)}]]
    BY <1>1, <2>1
  <2> QED
    BY <2>2 DEF CommittedSums, SumsUp
<1>6. CommittedSums(H, f, S)
  BY <1>4, <1>5
<1> HIDE DEF H
<1>7. H[S] = F[S]
  BY <1>4, <1>5, <1>6, SumsAgree
<1> QED
  BY <1>2, <1>4, <1>7 DEF H

\* The chunks of a purged node leave the counter of their list, all at once.
LEMMA PurgeNodesCounted ==
  ASSUME NEW s, NEW other \in Int, Accounts(s, other), Tiled(s), Counted(s, {})
  PROVE  Counted(PurgeNodes(s), {})
<1> DEFINE t    == PurgeNodes(s)
           gone == {b \in DOMAIN s.chunk : b \div NodeWords \in DeadNodes(s)}
           kept == DOMAIN s.chunk \ gone
           lost == MapThenSumSet(LAMBDA b : s.chunk[b].committed, gone)
<1>1. /\ t.chunk = [a \in kept |-> s.chunk[a]]
      /\ t.listed = [s.listed EXCEPT ![RootLevel] = @ - lost]
  BY DEF Accounts, Fields, PurgeNodes
<1>2. \A b \in gone : s.chunk[b].level = RootLevel /\ s.chunk[b].state = "free"
  BY DeadChunks
<1>3. gone \subseteq DOMAIN s.chunk /\ IsFiniteSet(gone)
  <2>1. gone \subseteq DOMAIN s.chunk
    OBVIOUS
  <2> HIDE DEF gone
  <2> QED
    BY <2>1, IdleFinite, FS_Subset
<1>4. ChunkMap(s.chunk) /\ ChunkMap(t.chunk)
  BY PurgeNodesAccounts DEF Accounts
<1>5. lost = CommittedIn(s.chunk, gone)
  <2>1. lost = (CHOOSE F : CommittedSums(F, s.chunk, gone))[gone]
    BY DEF MapThenSumSet, MapThenFoldSet, CommittedSums, Pick
  <2> HIDE DEF lost, gone
  <2> QED
    BY <1>3, <1>4, <2>1, CommittedSum
<1>6. kept \subseteq DOMAIN s.chunk /\ \A b \in DOMAIN s.chunk : b \notin kept <=> b \in gone
  OBVIOUS
<1> HIDE DEF t, gone, kept, lost
<1>7. DOMAIN s.listed = Levels /\ RootLevel \in Levels
  BY NodeSize DEF Counted
<1>8. /\ DOMAIN t.listed = Levels /\ t.listed[RootLevel] = s.listed[RootLevel] - lost
      /\ \A l \in Levels : l # RootLevel => t.listed[l] = s.listed[l]
  BY <1>1, <1>7
<1>9. ASSUME NEW l \in Levels
      PROVE  t.listed[l] = CommittedIn(t.chunk, Idle(t, {}, l))
  <2> DEFINE S == Idle(s, {}, l)
             T == Idle(t, {}, l)
  <2>1. T = S \cap kept /\ \A a \in T : t.chunk[a].committed = s.chunk[a].committed
    BY <1>1, <1>6 DEF Idle
  <2>2. /\ l = RootLevel => gone \subseteq S
        /\ l # RootLevel => T = S
    BY <1>2, <1>3, <1>6, <2>1 DEF Idle
  <2>3. Moves(s.listed[l], s.chunk, S, t.chunk, T)
    BY <1>4, <2>1, LevelMoves
  <2>4. s.listed[l] = CommittedIn(s.chunk, S)
    BY DEF Counted
  <2>5. IsFiniteSet(S) /\ S \subseteq DOMAIN s.chunk
    BY IdleFinite, IdleChunks
  <2> HIDE DEF S, T
  <2>6. CASE l # RootLevel
    BY <1>8, <2>2, <2>3, <2>6 DEF Moves, T
  <2>7. CASE l = RootLevel
    <3> DEFINE f == [a \in DOMAIN s.chunk |-> s.chunk[a].committed]
    <3>1. S = T \cup gone /\ T \cap gone = {}
      BY <1>3, <1>6, <2>1, <2>2, <2>5, <2>7
    <3>2. IsFiniteSet(T)
      BY <2>5, <3>1, FS_Subset
    <3>3. \A a \in T \cup gone : f[a] \in Int
      BY <1>4, <2>5, <3>1 DEF ChunkMap, Metachunk
    <3>4. \A R : CommittedIn(s.chunk, R) = Total(f, R)
      BY DEF CommittedIn
    <3> HIDE DEF f
    <3>5. Total(f, S) = Total(f, T) + Total(f, gone)
      BY <1>3, <3>1, <3>2, <3>3, TotalUnion
    <3>6. Total(f, T) \in Int /\ Total(f, gone) \in Int
      BY <1>3, <3>2, <3>3, TotalIsNumber
    <3>7. CommittedIn(t.chunk, T) = CommittedIn(s.chunk, T)
      <4>1. T \subseteq DOMAIN s.chunk /\ T \subseteq DOMAIN t.chunk
        BY <2>5, <3>1, IdleChunks DEF T
      <4> DEFINE n == CommittedIn(s.chunk, T)
      <4>2. Moves(n, s.chunk, T, t.chunk, T)
        BY <1>4, <2>1, <3>2, <4>1, CountMoves
      <4> QED
        BY <4>2 DEF Moves
    <3> QED
      BY <1>5, <1>8, <2>4, <2>7, <3>4, <3>5, <3>6, <3>7 DEF T
  <2> QED
    BY <2>6, <2>7
<1> QED
  BY <1>8, <1>9 DEF Counted, t

\* The second pass of purge does not tell the counters, and need not: the
\* listed chunks that cover granules are uncommitted already.
LEMMA UncommitListedCounted ==
  ASSUME NEW s, NEW other \in Int, Accounts(s, other), Tiled(s), Listed(s, {}), Backed(s),
         Lean(s), UncommitFreeChunks, Counted(s, {})
  PROVE  Counted(UncommitListed(s), {})
<1> DEFINE t      == UncommitListed(s)
           walked == UNION {Range(s.list[l]) : l \in RootLevel..GranuleLevel}
           bare(a) == [s.chunk[a] EXCEPT !.committed = 0]
<1>1. /\ t.chunk = [a \in DOMAIN s.chunk |-> IF a \in walked THEN bare(a) ELSE s.chunk[a]]
      /\ t.listed = s.listed
  <2> HIDE DEF walked
  <2> QED
    BY SameCounters DEF Accounts, Fields, UncommitListed, walked
<1>2. ASSUME NEW a \in DOMAIN s.chunk
      PROVE  bare(a).level = s.chunk[a].level /\ bare(a).state = s.chunk[a].state
             /\ bare(a).committed = 0
  BY ChunkOf DEF Metachunk
<1>3. ASSUME NEW a \in walked
      PROVE  a \in DOMAIN s.chunk /\ s.chunk[a].committed = 0
  <2>1. PICK l \in RootLevel..GranuleLevel : a \in Range(s.list[l])
    OBVIOUS
  <2>2. l \in Levels /\ GranuleLevel \in Levels /\ l <= GranuleLevel
    BY GeometryAssumption DEF Levels, RootLevel
  <2>3. a \in DOMAIN s.chunk /\ s.chunk[a].state = "free" /\ s.chunk[a].level = l
    BY <2>1, <2>2 DEF Listed, Lists, Idle
  <2>4. WordSize[l] >= GranuleWords
    BY <2>2, SizesFall, SizesPositive, LevelRanges DEF GranuleWords
  <2> QED
    BY <2>3, <2>4, FreeIsBare
<1>4. ChunkMap(t.chunk)
  BY UncommitListedAccounts DEF Accounts
<1> HIDE DEF t, walked, bare
<1>5. /\ DOMAIN t.chunk = DOMAIN s.chunk
      /\ \A a \in DOMAIN s.chunk : /\ t.chunk[a].level = s.chunk[a].level
                                   /\ t.chunk[a].state = s.chunk[a].state
                                   /\ t.chunk[a].committed = s.chunk[a].committed
  BY <1>1, <1>2, <1>3
<1>6. /\ \A l \in Levels : Idle(t, {}, l) = Idle(s, {}, l)
      /\ \A l \in Levels : \A a \in Idle(s, {}, l) :
           t.chunk[a].committed = s.chunk[a].committed
  BY <1>5 DEF Idle
<1>7. Counted(t, {})
  BY <1>1, <1>4, <1>6, FrameCounted
<1> QED
  BY <1>7 DEF t

\* Nothing is listed in a new context.
LEMMA EmptyCounted == Counted(EmptyContext, {})
<1>1. /\ EmptyContext.listed = [l \in Levels |-> 0]
      /\ \A l \in Levels : Idle(EmptyContext, {}, l) = {}
  BY DEF EmptyContext, Idle
<1>2. CommittedIn(EmptyContext.chunk, {}) = 0
  BY TotalEmpty DEF CommittedIn
<1> QED
  BY <1>1, <1>2 DEF Counted

-----------------------------------------------------------------------------
(* All that the methods keep, for whoever calls them.                      *)

\* The state of a context between two calls; `other` words of the limiter are
\* charged by somebody else.
Whole(s, other) ==
  /\ other \in Int
  /\ Accounts(s, other) /\ Sound(s, {}) /\ Listed(s, {}) /\ Counted(s, {})
  /\ Backed(s) /\ Known(s) /\ Lean(s)

\* The facts that the lemmas about methods want.
LEMMA WholeFacts ==
  ASSUME NEW s, NEW other, Whole(s, other)
  PROVE  /\ other \in Int /\ Accounts(s, other) /\ Tiled(s) /\ Sound(s, {})
         /\ Listed(s, {}) /\ Counted(s, {}) /\ Backed(s) /\ Known(s) /\ Lean(s)
BY DEF Whole, Sound

\* A chunk in use: its words, its line, and that a caller who exempts it from
\* the free lists exempts nothing.
LEMMA UsedChunk ==
  ASSUME NEW s, NEW other, Whole(s, other), NEW b \in InUse(s)
  PROVE  /\ b \in DOMAIN s.chunk /\ s.chunk[b].state = "inuse" /\ b \in Nat
         /\ Stands(s, b) /\ s.chunk[b].level \in Levels
         /\ s.chunk[b].used \in Nat /\ s.chunk[b].committed \in Nat
         /\ SizeOf(s, b) \in Nat \ {0}
         /\ s.chunk[b].used <= s.chunk[b].committed
         /\ s.chunk[b].committed <= SizeOf(s, b)
         /\ Words(b, s.chunk[b].used) \subseteq Words(b, SizeOf(s, b))
         /\ Sound(s, {b}) /\ Listed(s, {b}) /\ Counted(s, {b})
<1>1. b \in DOMAIN s.chunk /\ s.chunk[b].state = "inuse"
  BY DEF InUse
<1>2. Stands(s, b)
  BY <1>1, WholeFacts DEF Backed
<1>3. /\ b \in Nat /\ s.chunk[b].level \in Levels /\ s.chunk[b].committed \in Nat
      /\ SizeOf(s, b) \in Nat \ {0} /\ s.chunk[b].used \in Nat
      /\ Words(b, s.chunk[b].used) \subseteq Words(b, SizeOf(s, b))
  BY <1>1, <1>2, WholeFacts, TiledChunk, StandingWords
<1>4. Sound(s, {b}) /\ Listed(s, {b}) /\ Counted(s, {b})
  BY <1>1, WholeFacts, UsedIsUnlisted, UsedIsUncounted DEF Sound, Merged
<1> QED
  BY <1>1, <1>2, <1>3, <1>4 DEF Stands, Line, SizeOf

\* Two chunks in use share no word.
LEMMA UsedApart ==
  ASSUME NEW s, NEW other, Whole(s, other), NEW b \in InUse(s), NEW c \in InUse(s), b # c
  PROVE  Words(b, SizeOf(s, b)) \cap Words(c, SizeOf(s, c)) = {}
BY WholeFacts, HoldingsApart

\* A new context.
LEMMA EmptyWhole == Whole(EmptyContext, 0)
BY EmptyAccounts, EmptySound, EmptyListed, EmptyCounted DEF Whole, Backed, Known, Lean, EmptyContext

\* t is s after `size` words were stored at the end of what the chunk at b holds.
Stored(s, t, b, size) ==
  LET new == Words(b + s.chunk[b].used, size) IN
  /\ Keeps(s, t, {b}) /\ Untouched(s, t, {b}) /\ InUse(t) = InUse(s)
  /\ t.chunk[b].level = s.chunk[b].level
  /\ t.chunk[b].committed = s.chunk[b].committed
  /\ t.chunk[b].used = s.chunk[b].used + size
  /\ t.data = s.data \cup new
  /\ new \subseteq Words(b, SizeOf(s, b))
  /\ size # 0 => b + s.chunk[b].used \in new \ s.data

\* Metachunk::allocate stores metadata where none is.
LEMMA BumpWhole ==
  ASSUME NEW s, NEW other, Whole(s, other), NEW b \in InUse(s), NEW size \in Nat,
         s.chunk[b].used + size <= s.chunk[b].committed
  PROVE  Whole(Bump(s, b, size), other) /\ Stored(s, Bump(s, b, size), b, size)
<1> DEFINE t    == Bump(s, b, size)
           used == s.chunk[b].used
           all  == SizeOf(s, b)
           c    == s.chunk[b].committed
           new  == Words(b + used, size)
<1>1. /\ other \in Int /\ Accounts(s, other) /\ Tiled(s) /\ Backed(s) /\ Known(s) /\ Lean(s)
      /\ Sound(s, {}) /\ Listed(s, {}) /\ Listed(s, {b}) /\ Counted(s, {})
      /\ b \in DOMAIN s.chunk /\ s.chunk[b].state = "inuse"
  BY WholeFacts, UsedChunk
<1>2. /\ b \in Nat /\ used \in Nat /\ all \in Nat /\ c \in Nat
      /\ used + size <= c /\ c <= all
  BY UsedChunk
<1>3. /\ Accounts(t, other) /\ Tiled(t) /\ ChangeSpec(s, t, b) /\ t.mask = s.mask
      /\ t.chunk[b].state = "inuse" /\ t.chunk[b].committed = c
      /\ t.chunk[b].used = used + size /\ t.data = s.data \cup new
  BY <1>1, BumpTiled
<1>4. /\ new \subseteq Words(b, all) /\ new \subseteq Words(b, used + size)
      /\ Words(b, used) \subseteq Words(b, used + size)
      /\ size # 0 => b + used \in new
      /\ b + used \notin Words(b, used)
  <2> HIDE DEF used, all, c
  <2> QED
    BY <1>2 DEF Words
<1>5. Backed(t)
  BY <1>1, <1>2, BumpBacked
<1> HIDE DEF t
<1>6. Sound(t, {}) /\ Listed(t, {}) /\ Counted(t, {})
  <2>1. Merged(t, {})
    BY <1>1, <1>3, SameStateMerged DEF Sound
  <2>2. Listed(t, {})
    BY <1>1, <1>3, ChangeListed
  <2>3. Counted(t, {})
    <3>1. t.listed = s.listed
      BY <1>1, SameCounters DEF t
    <3> QED
      BY <1>1, <1>3, <3>1, ChangeCounted
  <2> QED
    BY <1>3, <2>1, <2>2, <2>3 DEF Sound
<1>7. /\ Keeps(s, t, {b}) /\ InUse(t) = InUse(s) /\ t.chunk[b].level = s.chunk[b].level
      /\ \A a \in InUse(s) : SizeOf(t, a) = SizeOf(s, a)
      /\ Untouched(s, t, {b})
  BY <1>1, <1>3, ChangeKeeps, ChangeUntouched DEF ChangeSpec, InUse, SizeOf
<1>8. size # 0 => b + used \in new \ s.data
  <2> SUFFICES ASSUME size # 0, b + used \in s.data
               PROVE  FALSE
    BY <1>4
  <2>1. PICK d \in InUse(s) : b + used \in Words(d, s.chunk[d].used)
    BY <1>1 DEF Known
  <2>2. d # b
    BY <1>4, <2>1
  <2>3. b + used \in Words(b, SizeOf(s, b)) \cap Words(d, SizeOf(s, d))
    BY <1>4, <2>1, UsedChunk
  <2> QED
    BY <2>2, <2>3, UsedApart
<1>9. Known(t)
  <2>1. ASSUME NEW a \in t.data
        PROVE  \E d \in InUse(t) : a \in Words(d, t.chunk[d].used)
    <3>1. CASE a \in new
      BY <1>3, <1>4, <1>7, <3>1
    <3>2. CASE a \in s.data
      <4>1. PICK d \in InUse(s) : a \in Words(d, s.chunk[d].used)
        BY <1>1, <3>2 DEF Known
      <4>2. CASE d = b
        BY <1>3, <1>4, <1>7, <4>1, <4>2
      <4>3. CASE d # b
        BY <1>7, <4>1, <4>3 DEF Keeps
      <4> QED
        BY <4>2, <4>3
    <3> QED
      BY <1>3, <3>1, <3>2
  <2> QED
    BY <2>1 DEF Known
<1>10. Lean(t)
  BY <1>1, <1>3, <1>7 DEF Lean
<1>11. Whole(t, other)
  BY <1>1, <1>3, <1>5, <1>6, <1>9, <1>10 DEF Whole
<1>12. Stored(s, t, b, size)
  <2>1. \A x : x = used => /\ size # 0 => b + x \in new \ s.data
                           /\ new = Words(b + x, size)
                           /\ t.chunk[b].used = x + size
    BY <1>3, <1>8
  <2> HIDE DEF new, c, all
  <2> QED
    BY <1>3, <1>4, <1>7, <2>1 DEF Stored, c, all
<1> QED
  BY <1>11, <1>12 DEF t

\* Metachunk::ensure_committed, which no owner sees but in the commit line.
LEMMA CommitWhole ==
  ASSUME NEW s, NEW other, Whole(s, other), NEW b \in InUse(s), NEW words \in Nat,
         s.chunk[b].committed <= words, CanCommit(s, b, words)
  PROVE  LET t == CommitUpTo(s, b, words) IN
         /\ Whole(t, other) /\ Keeps(s, t, {}) /\ Untouched(s, t, {b})
         /\ t.data = s.data /\ Holdings(t) = Holdings(s)
         /\ t.chunk[b].committed = CommitTo(s, b, words)
<1> DEFINE t == CommitUpTo(s, b, words)
<1>1. /\ other \in Int /\ Accounts(s, other) /\ Tiled(s) /\ Backed(s) /\ Known(s) /\ Lean(s)
      /\ Sound(s, {}) /\ Listed(s, {}) /\ Listed(s, {b}) /\ Counted(s, {})
      /\ b \in DOMAIN s.chunk /\ s.chunk[b].state = "inuse"
  BY WholeFacts, UsedChunk
<1>2. /\ Accounts(t, other) /\ Tiled(t) /\ ChangeSpec(s, t, b)
      /\ t.chunk[b].state = "inuse" /\ t.chunk[b].committed = CommitTo(s, b, words)
  BY <1>1, CommitTiled
<1>3. Backed(t)
  BY <1>1, CommitBacked
<1>4. /\ Keeps(s, t, {}) /\ t.data \subseteq s.data
      /\ t.mask \subseteq s.mask \cup GranulesOf(b, SizeOf(s, b))
  BY <1>1, CommitKeeps
<1> HIDE DEF t
<1>5. Sound(t, {}) /\ Listed(t, {}) /\ Counted(t, {})
  <2>1. Merged(t, {})
    BY <1>1, <1>2, SameStateMerged DEF Sound
  <2>2. Listed(t, {})
    BY <1>1, <1>2, ChangeListed
  <2>3. Counted(t, {})
    <3>1. t.listed = s.listed
      BY <1>1, SameCounters DEF t
    <3> QED
      BY <1>1, <1>2, <3>1, ChangeCounted
  <2> QED
    BY <1>2, <2>1, <2>2, <2>3 DEF Sound
<1>6. Holdings(t) = Holdings(s) /\ t.data = s.data /\ Known(t)
  BY <1>1, <1>3, <1>4, Steady
<1>7. Lean(t)
  <2>1. InUse(t) = InUse(s) /\ \A c \in InUse(s) : SizeOf(t, c) = SizeOf(s, c)
    BY <1>4 DEF Keeps, SizeOf
  <2> QED
    BY <1>1, <1>4, <2>1 DEF Lean
<1>8. Whole(t, other)
  BY <1>1, <1>2, <1>3, <1>5, <1>6, <1>7 DEF Whole
<1>9. Untouched(s, t, {b})
  BY <1>2, ChangeUntouched
<1> QED
  BY <1>2, <1>4, <1>6, <1>8, <1>9 DEF t

\* ChunkManager::attempt_enlarge_chunk
LEMMA EnlargeWhole ==
  ASSUME NEW s, NEW other, Whole(s, other), NEW b \in InUse(s), CanEnlarge(s, b)
  PROVE  LET t == Enlarge(s, b) IN
         /\ Whole(t, other) /\ Keeps(s, t, {b}) /\ Untouched(s, t, {b})
         /\ InUse(t) = InUse(s) /\ t.data = s.data
         /\ t.chunk[b].level = s.chunk[b].level - 1 /\ t.chunk[b].used = s.chunk[b].used
         /\ SizeOf(t, b) = 2 * SizeOf(s, b)
<1> DEFINE t == Enlarge(s, b)
<1>1. /\ other \in Int /\ Accounts(s, other) /\ Tiled(s) /\ Backed(s) /\ Known(s) /\ Lean(s)
      /\ Sound(s, {}) /\ Merged(s, {}) /\ Listed(s, {}) /\ Counted(s, {})
      /\ b \in DOMAIN s.chunk /\ s.chunk[b].state = "inuse"
  BY WholeFacts, UsedChunk DEF Sound
<1>2. /\ Accounts(t, other) /\ Tiled(t) /\ Merged(t, {}) /\ Listed(t, {}) /\ Backed(t)
      /\ Counted(t, {})
  BY <1>1, EnlargeTiled, EnlargeMerged, EnlargeListed, EnlargeBacked, EnlargeCounted
<1>3. Untouched(s, t, {b})
  <2>1. EnlargeSpec(s, b) /\ s.chunk[Buddy(b, s.chunk[b].level)].state = "free"
    BY <1>1, EnlargeTiled, ClaimedBuddy DEF Tiled
  <2> HIDE DEF t
  <2> QED
    BY <2>1 DEF EnlargeSpec, Untouched, InUse, t
<1>4. /\ Keeps(s, t, {b}) /\ t.data = s.data /\ t.mask = s.mask
      /\ b \in InUse(t) /\ InUse(t) = InUse(s)
      /\ t.chunk[b].level = s.chunk[b].level - 1
      /\ t.chunk[b].used = s.chunk[b].used
  BY <1>1, EnlargeKeeps
<1> HIDE DEF t
<1>5. Known(t)
  BY <1>1, <1>4 DEF Known, Keeps
<1>6. s.chunk[b].level \in Levels /\ s.chunk[b].level # RootLevel
  BY <1>1, ChunkOf DEF CanEnlarge
<1>7. SizeOf(t, b) = 2 * SizeOf(s, b) /\ SizeOf(s, b) \in Nat \ {0} /\ b \in Nat
  BY <1>1, <1>4, <1>6, Halving, TiledChunk DEF SizeOf
<1>8. Lean(t)
  <2>1. GranulesOf(b, SizeOf(s, b)) \subseteq GranulesOf(b, SizeOf(t, b))
    <3>1. Words(b, SizeOf(s, b)) \subseteq Words(b, SizeOf(t, b))
          /\ SizeOf(t, b) \in Nat \ {0}
      BY <1>7 DEF Words
    <3> QED
      BY <1>7, <3>1, GranulesWithin
  <2>2. \A c \in InUse(s) : GranulesOf(c, SizeOf(s, c)) \subseteq GranulesOf(c, SizeOf(t, c))
    BY <1>4, <2>1 DEF Keeps, SizeOf
  <2> QED
    BY <1>1, <1>4, <2>2 DEF Lean
<1>9. Whole(t, other)
  BY <1>1, <1>2, <1>5, <1>8 DEF Whole, Sound
<1> QED
  BY <1>4, <1>7, <1>9, <1>3 DEF t

\* ChunkManager::return_chunk takes what was stored in the chunk and no more.
LEMMA ReturnedWhole ==
  ASSUME NEW s, NEW other, Whole(s, other), NEW b \in InUse(s)
  PROVE  LET t == ReturnChunk(s, b) IN
         /\ Whole(t, other) /\ Keeps(s, t, {b}) /\ Untouched(s, t, {b})
         /\ InUse(t) = InUse(s) \ {b}
         /\ t.data = s.data \ Words(b, SizeOf(s, b))
<1> DEFINE t == ReturnChunk(s, b)
<1>1. /\ other \in Int /\ Accounts(s, other) /\ Tiled(s) /\ Backed(s) /\ Known(s) /\ Lean(s)
      /\ Sound(s, {b}) /\ Listed(s, {b}) /\ Counted(s, {b}) /\ b \in DOMAIN s.chunk
  BY WholeFacts, UsedChunk
<1>2. Accounts(t, other) /\ Sound(t, {}) /\ Listed(t, {}) /\ Backed(t) /\ Counted(t, {})
  BY <1>1, ReturnChunkSound, ReturnChunkListed, ReturnChunkBacked, ReturnChunkCounted
<1>3. /\ Keeps(s, t, {b}) /\ b \notin InUse(t)
      /\ t.data \subseteq s.data \ Words(b, SizeOf(s, b))
  BY <1>1, ReturnChunkKeeps
<1>4. Lean(t) /\ Untouched(s, t, {b})
  BY <1>1, <1>2, ReturnLean, ReturnUntouched
<1> HIDE DEF t
<1>5. ASSUME NEW a \in s.data \ Words(b, SizeOf(s, b))
      PROVE  a \in t.data /\ \E c \in InUse(t) : a \in Words(c, t.chunk[c].used)
  <2>1. PICK c \in InUse(s) : a \in Words(c, s.chunk[c].used)
    BY <1>1 DEF Known
  <2>2. c # b
    BY <2>1, UsedChunk
  <2>3. c \in InUse(t) /\ t.chunk[c].used = s.chunk[c].used
    BY <1>3, <2>1, <2>2 DEF Keeps
  <2> QED
    BY <1>2, <2>1, <2>3 DEF Backed, Stands, InUse
<1>6. Known(t)
  BY <1>3, <1>5 DEF Known
<1>7. t.data = s.data \ Words(b, SizeOf(s, b))
  BY <1>3, <1>5
<1>8. InUse(t) = InUse(s) \ {b}
  BY <1>3 DEF Keeps
<1>9. Whole(t, other)
  BY <1>1, <1>2, <1>4, <1>6 DEF Whole
<1> QED
  BY <1>3, <1>4, <1>7, <1>8, <1>9 DEF t

\* ChunkManager::purge does not show to the owners of chunks.
LEMMA PurgeWhole ==
  ASSUME NEW other, Whole(ctx, other), Purge
  PROVE  /\ Whole(ctx', other) /\ Keeps(ctx, ctx', {}) /\ Untouched(ctx, ctx', {})
         /\ ctx'.data = ctx.data /\ Holdings(ctx') = Holdings(ctx)
<1> DEFINE s == PurgeNodes(ctx)
           u == UncommitListed(s)
<1>1. /\ other \in Int /\ Accounts(ctx, other) /\ Tiled(ctx) /\ Sound(ctx, {})
      /\ Listed(ctx, {}) /\ Backed(ctx) /\ Known(ctx) /\ Lean(ctx) /\ Counted(ctx, {})
  BY WholeFacts
<1>2. ctx' = s \/ (UncommitFreeChunks /\ ctx' = u)
  BY DEF Purge
<1>3. /\ Accounts(s, other) /\ Sound(s, {}) /\ Listed(s, {}) /\ Backed(s)
      /\ Keeps(ctx, s, {}) /\ s.data = ctx.data /\ s.mask \subseteq ctx.mask
      /\ Untouched(ctx, s, {}) /\ Counted(s, {})
  BY <1>1, PurgeNodesSound, PurgeNodesListed, PurgeNodesBacked, PurgeNodesKeeps, PurgeUntouched,
     PurgeNodesCounted
<1> HIDE DEF s
<1>4. Holdings(s) = Holdings(ctx) /\ Known(s) /\ Lean(s) /\ Tiled(s)
  BY <1>1, <1>3, Steady, SteadyLean DEF Sound
<1>5. /\ Accounts(u, other) /\ Sound(u, {}) /\ Listed(u, {}) /\ Backed(u)
      /\ Keeps(s, u, {}) /\ u.data = s.data /\ u.mask \subseteq s.mask
      /\ Untouched(s, u, {}) /\ (UncommitFreeChunks => Counted(u, {}))
  BY <1>1, <1>3, <1>4, UncommitListedAccounts, UncommitListedSound, UncommitListedListed,
     UncommitListedBacked, UncommitListedKeeps, UncommitListedCounted, PurgeUntouched
<1> HIDE DEF u
<1>6. Holdings(u) = Holdings(s) /\ Known(u) /\ Lean(u)
  BY <1>4, <1>5, Steady, SteadyLean
<1>7. Keeps(ctx, u, {}) /\ Untouched(ctx, u, {})
  BY <1>3, <1>5, KeepsTwice, UntouchedTwice
<1>8. CASE ctx' = s
  BY <1>1, <1>3, <1>4, <1>8 DEF Whole
<1>9. CASE UncommitFreeChunks /\ ctx' = u
  BY <1>1, <1>3, <1>4, <1>5, <1>6, <1>7, <1>9 DEF Whole
<1> QED
  BY <1>2, <1>8, <1>9

\* s is ctx when get_chunk has found or made the free chunk b for request r.
Found(s, b, r, other) ==
  /\ b \in Int /\ b \in DOMAIN s.chunk /\ s.chunk[b].state = "free"
  /\ s.chunk[b].level <= r.max /\ b \notin InUse(ctx)
  /\ Accounts(s, other) /\ Sound(s, {}) /\ Sound(s, {b}) /\ Listed(s, {b}) /\ Counted(s, {b})
  /\ Backed(s) /\ Known(s) /\ Lean(s)
  /\ Keeps(ctx, s, {}) /\ s.data = ctx.data /\ s.mask = ctx.mask /\ AsBefore(ctx, s)

\* The first chunk of the list that the search returns.
LEMMA ListedFound ==
  ASSUME NEW other, Whole(ctx, other), NEW r \in LegalRequests, GetListedChunk(r)
  PROVE  \E s, b : Found(s, b, r, other) /\ ctx' = HandOut(s, b, r)
<1>1. /\ other \in Int /\ Accounts(ctx, other) /\ Sound(ctx, {}) /\ Tiled(ctx)
      /\ Listed(ctx, {}) /\ Backed(ctx) /\ Known(ctx) /\ Lean(ctx) /\ Counted(ctx, {})
  BY WholeFacts
<1> DEFINE l == SearchLevel(ctx, r)
<1>2. PICK b \in DOMAIN ctx.chunk :
        l # NoLevel /\ b = Head(ctx.list[l]) /\ ctx' = HandOut(Delist(ctx, b), b, r)
  BY DEF GetListedChunk
<1>3. ctx.chunk[b].state = "free" /\ ctx.chunk[b].level \in RootLevel..r.max
  BY <1>1, <1>2, HeadIsFree
<1>4. b \in Int /\ b \notin InUse(ctx) /\ ctx.chunk[b].level <= r.max
  <2>1. r.max \in Int /\ ctx.chunk[b].level \in Int /\ RootLevel \in Int
    BY <1>1, ChunkOf, RequestFacts, GeometryAssumption DEF Levels, RootLevel
  <2> QED
    BY <1>1, <1>3, <2>1, ChunkOf DEF InUse
<1> HIDE DEF l
<1> DEFINE s == Delist(ctx, b)
<1>5. Accounts(s, other) /\ s.chunk = ctx.chunk
  BY <1>1, ListAccounts
<1>6. /\ Sound(s, {}) /\ Backed(s) /\ Keeps(ctx, s, {}) /\ s.data = ctx.data
      /\ s.mask = ctx.mask /\ Listed(s, {b}) /\ Counted(s, {b})
  BY <1>1, <1>3, ListSound, ListBacked, ListKeeps, DelistListed, DelistCounted
<1>7. ctx' = HandOut(s, b, r)
  BY <1>2
<1> HIDE DEF s
<1>8. Known(s) /\ Lean(s)
  BY <1>1, <1>6, Steady, SteadyLean
<1>9. Sound(s, {b}) /\ AsBefore(ctx, s)
  BY <1>5, <1>6 DEF Sound, Merged, AsBefore
<1> QED
  BY <1>3, <1>4, <1>5, <1>6, <1>7, <1>8, <1>9 DEF Found

\* A new root chunk of the first node of the list.
LEMMA RootFound ==
  ASSUME NEW other \in Int, NEW s, Accounts(s, other), Sound(s, {}), Listed(s, {}), Backed(s),
         Known(s), Lean(s), Counted(s, {}), ~HeadIsFull(s), NEW r \in LegalRequests,
         Keeps(ctx, s, {}), s.data = ctx.data, s.mask = ctx.mask, s.chunk = ctx.chunk,
         NEW b \in Int, b = NextRoot(s)
  PROVE  Found(AllocateRootChunk(s, b), b, r, other)
<1> DEFINE q == AllocateRootChunk(s, b)
<1>1. /\ Accounts(q, other) /\ Sound(q, {}) /\ b \in DOMAIN q.chunk
      /\ b \notin DOMAIN s.chunk
  BY RootChunkSound
<1>2. Backed(q) /\ q.chunk[b].state = "free" /\ Listed(q, {b}) /\ Counted(q, {b})
  BY RootChunkBacked, RootChunkListed, RootChunkCounted
<1>3. Keeps(s, q, {}) /\ q.data = s.data /\ q.mask = s.mask
  BY RootChunkKeeps
<1>4. q.chunk[b].level = RootLevel /\ AsBefore(s, q)
  <2>1. q.chunk = [a \in DOMAIN s.chunk \cup {b} |->
                     IF a = b THEN FreshChunk(RootLevel) ELSE s.chunk[a]]
    BY DEF Accounts, Fields, AllocateRootChunk
  <2> HIDE DEF q
  <2> QED
    BY <1>1, <2>1 DEF FreshChunk, AsBefore
<1>5. RootLevel <= r.max
  BY RequestFacts, GeometryAssumption DEF Levels, RootLevel
<1> HIDE DEF q
<1>6. Known(q) /\ Lean(q)
  BY <1>2, <1>3, Steady, SteadyLean
<1>7. Sound(q, {b}) /\ AsBefore(ctx, q) /\ Keeps(ctx, q, {}) /\ b \notin InUse(ctx)
  <2>1. Keeps(ctx, q, {})
    BY <1>3, KeepsTwice
  <2> QED
    BY <1>1, <1>4, <2>1 DEF Sound, Merged, AsBefore, InUse
<1> QED
  BY <1>1, <1>2, <1>3, <1>4, <1>5, <1>6, <1>7 DEF Found, q

\* One of the two, so that get_chunk always hands out such a chunk.
LEMMA GetChunkFinds ==
  ASSUME NEW other, Whole(ctx, other), NEW r \in LegalRequests, GetChunk(r)
  PROVE  \E s, b : Found(s, b, r, other) /\ ctx' = HandOut(s, b, r)
<1>1. /\ other \in Int /\ Accounts(ctx, other) /\ Sound(ctx, {}) /\ Tiled(ctx)
      /\ Listed(ctx, {}) /\ Backed(ctx) /\ Known(ctx) /\ Lean(ctx) /\ Counted(ctx, {})
  BY WholeFacts
<1>2. CASE GetListedChunk(r)
  BY <1>2, ListedFound
<1>3. CASE GetRootChunk(r)
  <2>1. PICK b \in Addresses :
          \/ /\ ~HeadIsFull(ctx) /\ b = NextRoot(ctx)
             /\ ctx' = HandOut(AllocateRootChunk(ctx, b), b, r)
          \/ \E n \in Unreserved(ctx) :
               /\ HeadIsFull(ctx) /\ b = NextRoot(NewNode(ctx, n))
               /\ ctx' = HandOut(AllocateRootChunk(NewNode(ctx, n), b), b, r)
    BY <1>3 DEF GetRootChunk
  <2>2. b \in Int
    BY DEF Addresses
  <2>3. CASE ~HeadIsFull(ctx) /\ b = NextRoot(ctx)
             /\ ctx' = HandOut(AllocateRootChunk(ctx, b), b, r)
    <3>1. Keeps(ctx, ctx, {})
      BY DEF Keeps
    <3> QED
      BY <1>1, <2>2, <2>3, <3>1, RootFound
  <2>4. ASSUME NEW n \in Unreserved(ctx), HeadIsFull(ctx), b = NextRoot(NewNode(ctx, n)),
               ctx' = HandOut(AllocateRootChunk(NewNode(ctx, n), b), b, r)
        PROVE  \E s, d : Found(s, d, r, other) /\ ctx' = HandOut(s, d, r)
    <3> DEFINE s == NewNode(ctx, n)
    <3>1. /\ Accounts(s, other) /\ Sound(s, {}) /\ Backed(s) /\ ~HeadIsFull(s)
          /\ Keeps(ctx, s, {}) /\ s.data = ctx.data /\ s.mask = ctx.mask
          /\ Listed(s, {}) /\ Counted(s, {}) /\ b = NextRoot(s)
      BY <1>1, <2>4, NewNodeSound, NewNodeBacked, NewNodeKeeps, NewNodeListed, NewNodeCounted
    <3>2. s.chunk = ctx.chunk
      BY <1>1 DEF Accounts, Fields, NewNode
    <3>3. ctx' = HandOut(AllocateRootChunk(s, b), b, r)
      BY <2>4
    <3> HIDE DEF s
    <3>4. Known(s) /\ Lean(s)
      BY <1>1, <3>1, Steady, SteadyLean
    <3>5. Found(AllocateRootChunk(s, b), b, r, other)
      BY <1>1, <2>2, <3>1, <3>2, <3>4, RootFound
    <3> QED
      BY <3>3, <3>5
  <2> QED
    BY <2>1, <2>3, <2>4
<1> QED
  BY <1>2, <1>3 DEF GetChunk

\* ChunkManager::get_chunk gives its caller a chunk that nobody had, as it was
\* requested, or puts everything back.
LEMMA GetChunkWhole ==
  ASSUME NEW other, Whole(ctx, other), NEW r \in LegalRequests, GetChunk(r)
  PROVE  /\ Whole(ctx', other) /\ ctx'.data = ctx.data
         /\ Untouched(ctx, ctx', {})
         /\ \E b \in Int : /\ b \notin InUse(ctx) /\ Keeps(ctx, ctx', {b})
                           /\ \/ Serving(ctx', b, r) /\ InUse(ctx') = InUse(ctx) \cup {b}
                              \/ /\ AsBefore(ctx, ctx') /\ ctx'.mask = ctx.mask
                                 /\ InUse(ctx') = InUse(ctx)
<1>1. other \in Int /\ Lean(ctx) /\ Known(ctx)
  BY WholeFacts
<1>2. PICK s, b : Found(s, b, r, other) /\ ctx' = HandOut(s, b, r)
  BY GetChunkFinds
<1>3. /\ b \in Int /\ b \in DOMAIN s.chunk /\ s.chunk[b].state = "free"
      /\ s.chunk[b].level <= r.max /\ b \notin InUse(ctx)
      /\ Accounts(s, other) /\ Sound(s, {}) /\ Sound(s, {b}) /\ Tiled(s) /\ Listed(s, {b})
      /\ Counted(s, {b}) /\ Backed(s) /\ Known(s) /\ Lean(s)
      /\ Keeps(ctx, s, {}) /\ s.data = ctx.data /\ s.mask = ctx.mask /\ AsBefore(ctx, s)
  BY <1>2 DEF Found, Sound
<1> DEFINE t == HandOut(s, b, r)
<1>4. Accounts(t, other) /\ Sound(t, {}) /\ Listed(t, {}) /\ Backed(t) /\ Counted(t, {})
  BY <1>1, <1>3, HandOutAccounts, HandOutSound, HandOutListed, HandOutBacked, HandOutCounted
<1>5. Given(s, t, b) /\ Untouched(s, t, {b})
  BY <1>1, <1>3, HandOutGives, HandOutUntouched
<1>6. Serving(t, b, r) \/ (AsBefore(s, t) /\ t.mask = s.mask)
  BY <1>1, <1>3, HandOutHonours
<1>7. ctx' = t
  BY <1>2
<1> HIDE DEF t
<1>8. Keeps(ctx, t, {b}) /\ t.data \subseteq ctx.data /\ Given(ctx, t, b)
  BY <1>3, <1>5, KeepsTwice DEF Given
<1>9. Untouched(ctx, t, {})
  BY <1>3, <1>5 DEF Untouched, AsBefore, InUse
<1>10. t.data = ctx.data /\ Known(t) /\ Lean(t)
  BY <1>1, <1>3, <1>4, <1>8, DataKept, GivenLean
<1>11. b \in InUse(t) => InUse(t) = InUse(ctx) \cup {b}
  BY <1>8 DEF Keeps
<1>12. b \notin InUse(t) => InUse(t) = InUse(ctx)
  <2> DEFINE U == InUse(ctx)  V == InUse(t)
  <2>1. V \ {b} = U \ {b} /\ b \notin U
    BY <1>3, <1>8 DEF Keeps
  <2> HIDE DEF U, V
  <2>2. b \notin V => V = U
    BY <2>1
  <2> QED
    BY <2>2 DEF U, V
<1>13. AsBefore(s, t) => AsBefore(ctx, t) /\ b \notin InUse(t)
  <2> SUFFICES ASSUME AsBefore(s, t)
               PROVE  AsBefore(ctx, t) /\ b \notin InUse(t)
    OBVIOUS
  <2>1. t.chunk[b].state = "free"
    BY <1>3 DEF AsBefore
  <2> QED
    BY <1>3, <2>1 DEF AsBefore, InUse
<1>14. Whole(t, other)
  BY <1>1, <1>4, <1>10 DEF Whole
<1>15. \/ Serving(t, b, r) /\ InUse(t) = InUse(ctx) \cup {b}
       \/ AsBefore(ctx, t) /\ t.mask = ctx.mask /\ InUse(t) = InUse(ctx)
  BY <1>3, <1>6, <1>11, <1>12, <1>13 DEF Serving
<1> QED
  BY <1>3, <1>7, <1>8, <1>10, <1>14, <1>15, <1>9

\* A loader's granules are all that stays committed.
LEMMA LeanIsLean ==
  ASSUME Lean(ctx)
  PROVE  NoIdleCommit
BY DEF Lean, NoIdleCommit

-----------------------------------------------------------------------------
(* Refusals.                                                               *)

-----------------------------------------------------------------------------
(* What it means for the counters and the fields.                          *)

\* The counter of each list is the sum that ListedWordsExact takes.
LEMMA CountedExact ==
  ASSUME NEW other, Whole(ctx, other)
  PROVE  ListedWordsExact
<1> SUFFICES ASSUME NEW l \in Levels
             PROVE  ctx.listed[l]
                      = MapThenSumSet(LAMBDA b : ctx.chunk[b].committed, Range(ctx.list[l]))
  BY DEF ListedWordsExact
<1> DEFINE S == Range(ctx.list[l])
<1>1. /\ Tiled(ctx) /\ ChunkMap(ctx.chunk)
      /\ Listed(ctx, {}) /\ Counted(ctx, {})
  BY WholeFacts DEF Accounts
<1>2. S = Idle(ctx, {}, l)
  BY <1>1 DEF Listed, Lists
<1>3. ctx.listed[l] = CommittedIn(ctx.chunk, S)
  BY <1>1, <1>2 DEF Counted
<1>4. IsFiniteSet(S) /\ S \subseteq DOMAIN ctx.chunk
  BY <1>1, <1>2, IdleFinite, IdleChunks
<1>5. MapThenSumSet(LAMBDA b : ctx.chunk[b].committed, S)
        = (CHOOSE F : CommittedSums(F, ctx.chunk, S))[S]
  BY DEF MapThenSumSet, MapThenFoldSet, CommittedSums, Pick
<1> HIDE DEF S
<1>6. (CHOOSE F : CommittedSums(F, ctx.chunk, S))[S] = CommittedIn(ctx.chunk, S)
  BY <1>1, <1>4, CommittedSum
<1> QED
  BY <1>3, <1>5, <1>6 DEF S

\* Each field has its type, and no counter is negative.
LEMMA WholeTypes ==
  ASSUME NEW s, NEW other, Whole(s, other)
  PROVE  /\ DOMAIN s.chunk \subseteq Addresses
         /\ \A b \in DOMAIN s.chunk : s.chunk[b] \in Chunk
         /\ \A l \in Levels : s.list[l] \in Seq(Addresses) /\ s.listed[l] \in Nat
         /\ s.nodes \in Seq(Nodes) /\ s.used \in [Nodes -> 0..NodeWords]
         /\ s.mask \subseteq Granules /\ s.data \subseteq Addresses
         /\ s.committed \in Nat /\ s.reserved \in Nat
<1>1. /\ Accounts(s, other) /\ Tiled(s) /\ NodesSound(s) /\ ChunkMap(s.chunk)
      /\ Listed(s, {}) /\ Counted(s, {}) /\ Backed(s) /\ Known(s)
  BY WholeFacts DEF Accounts, Tiled
<1>2. DOMAIN s.chunk \subseteq Addresses
  BY <1>1, ChunkAddresses
<1>3. ASSUME NEW b \in DOMAIN s.chunk
      PROVE  s.chunk[b] \in Chunk
  <2>1. s.chunk[b] \in Metachunk /\ Line(s.chunk[b])
    BY <1>1 DEF ChunkMap, Backed, Stands
  <2>2. s.chunk[b].used >= 0 /\ s.chunk[b].used <= s.chunk[b].committed
    BY <2>1 DEF Line
  <2>3. s.chunk[b].used \in Int /\ s.chunk[b].committed \in Int
    BY <2>1 DEF Metachunk
  <2>4. s.chunk[b].used \in Nat /\ s.chunk[b].committed \in Nat
    BY <2>2, <2>3
  <2> QED
    BY <2>1, <2>4 DEF Metachunk, Chunk
<1>4. ASSUME NEW l \in Levels
      PROVE  s.list[l] \in Seq(Addresses)
  <2> DEFINE q == s.list[l]
  <2>1. q \in Seq(Int) /\ Range(q) = Idle(s, {}, l)
    BY <1>1 DEF Listed, Lists
  <2>2. Range(q) \subseteq Addresses
    BY <1>2, <2>1, IdleChunks
  <2> HIDE DEF q
  <2>3. \A i \in 1..Len(q) : q[i] \in Addresses
    BY <2>1, <2>2 DEF Range
  <2>4. q \in Seq(Addresses)
    BY <2>1, <2>3
  <2> QED
    BY <2>4 DEF q
<1>5. ASSUME NEW l \in Levels
      PROVE  s.listed[l] \in Nat
  <2> DEFINE f == [a \in DOMAIN s.chunk |-> s.chunk[a].committed]
             S == Idle(s, {}, l)
  <2>1. s.listed[l] = Total(f, S)
    BY <1>1 DEF Counted, CommittedIn
  <2>2. IsFiniteSet(S) /\ S \subseteq DOMAIN s.chunk
    BY <1>1, IdleFinite, IdleChunks
  <2>3. \A a \in S : f[a] \in Nat
    BY <1>3, <2>2 DEF Chunk
  <2> HIDE DEF f, S
  <2> QED
    BY <2>1, <2>2, <2>3, TotalIsNumber
<1>6. s.nodes \in Seq(Nodes) /\ s.reserved = NodeWords * Len(s.nodes)
  BY <1>1 DEF NodesSound
<1>7. s.used \in [Nodes -> 0..NodeWords]
  <2>1. s.used \in [Nodes -> Int]
    BY <1>1 DEF NodesSound
  <2>2. ASSUME NEW n \in Nodes
        PROVE  s.used[n] \in 0..NodeWords
    <3>1. s.used[n] <= NodeWords /\ NodeWords \in Nat
      BY <1>1, NodeSize DEF NodesSound
    <3>2. PICK i \in Nat : s.used[n] = i * WordSize[RootLevel]
      BY <1>1 DEF NodesSound
    <3>3. WordSize[RootLevel] \in Nat
      BY NodeSize
    <3>4. s.used[n] \in Nat
      BY <3>2, <3>3
    <3> QED
      BY <3>1, <3>4
  <2> QED
    BY <2>1, <2>2
<1>8. s.mask \subseteq Granules
  <2>1. Range(s.nodes) \subseteq Nodes
    BY <1>6 DEF Range
  <2> QED
    BY <1>1, <2>1, NodeGranulesExist DEF Tiled, LiveGranules
<1>9. s.data \subseteq Addresses
  <2> SUFFICES ASSUME NEW a \in s.data
               PROVE  a \in Addresses
    OBVIOUS
  <2>1. PICK b \in InUse(s) : a \in Words(b, s.chunk[b].used)
    BY <1>1 DEF Known
  <2>2. b \in DOMAIN s.chunk /\ a \in Words(b, SizeOf(s, b))
    BY <2>1, UsedChunk
  <2>3. a \in Extent(s.chunk, b)
    BY <2>2 DEF Extent, Words, SizeOf
  <2>4. a \in Handed(s)
    BY <1>1, <2>2, <2>3, ChunkOfTiling DEF Tiled
  <2> QED
    BY <2>4 DEF Handed
<1>10. s.committed \in Nat /\ s.reserved \in Nat
  <2>1. Cardinality(s.mask) \in Nat
    BY <1>1, FS_CardinalityType DEF Accounts
  <2>2. s.committed = GranuleWords * Cardinality(s.mask)
    BY <1>1 DEF Accounts
  <2>3. GranuleWords \in Nat /\ NodeWords \in Nat /\ Len(s.nodes) \in Nat
    BY <1>6, SizesPositive, NodeSize
  <2> QED
    BY <1>6, <2>1, <2>2, <2>3
<1> QED
  BY <1>2, <1>3, <1>4, <1>5, <1>6, <1>7, <1>8, <1>9, <1>10
=============================================================================
