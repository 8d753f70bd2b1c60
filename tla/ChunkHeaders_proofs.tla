------------------------ MODULE ChunkHeaders_proofs ------------------------
(***************************************************************************)
(* Theorems about chunk headers: for any geometry, any number of areas and *)
(* arenas and any size of slabs, the links of the neighbours and of the    *)
(* free lists are sound, each header stands for a chunk or lies in the     *)
(* pool, and an arena reaches its own chunks and no others.                *)
(*                                                                         *)
(* A list is described by the set of its members and by numbers that rise  *)
(* along it.  Some such numbers exist; which does not matter, and taking   *)
(* a member out changes none of them.                                      *)
(***************************************************************************)
EXTENDS ChunkHeaders, BasicLemmas, SequenceTheorems

-----------------------------------------------------------------------------
(* Sizes, blocks and buddies: what of the geometry headers need, as        *)
(* ContextMethods_proofs has it, whose constants are none of theirs.       *)

\* Chunks and granules are not empty.
LEMMA SizesPositive ==
  /\ GranuleWords \in Nat \ {0}
  /\ \A l \in Levels : WordSize[l] \in Nat \ {0}
BY GeometryAssumption DEF GranuleWords, Levels

\* Levels are the numbers from the root level to the highest.
LEMMA LevelRanges ==
  ASSUME NEW l \in Levels
  PROVE  /\ l \in Nat
         /\ \A m \in Levels : (l + 1)..m \subseteq Levels
         /\ RootLevel..l \subseteq Levels /\ l \in RootLevel..l
         /\ l # RootLevel => l - 1 \in Levels
<1>1. HighestLevel \in Nat
  BY GeometryAssumption
<1> QED
  BY <1>1 DEF Levels, RootLevel

\* The next smaller chunks are half as long.
LEMMA Halving ==
  ASSUME NEW l \in Levels, l # RootLevel
  PROVE  l - 1 \in Levels /\ WordSize[l - 1] = 2 * WordSize[l]
BY GeometryAssumption DEF Levels, RootLevel

\* An address lies in its block, which is its own block.
LEMMA BlockBounds ==
  ASSUME NEW a \in Nat, NEW l \in Levels
  PROVE  /\ Block(a, l) \in Nat /\ Block(a, l) <= a /\ a < Block(a, l) + WordSize[l]
         /\ Block(Block(a, l), l) = Block(a, l)
         /\ \E q \in Nat : Block(a, l) = q * WordSize[l]
<1> DEFINE d == WordSize[l]
           q == a \div d
<1>1. d \in Nat \ {0}
  BY SizesPositive
<1>2. q \in Nat /\ q * d <= a /\ a < q * d + d
  BY <1>1, DivisionBounds
<1>3. Block(a, l) = q * d
  BY DEF Block, AlignDown
<1> HIDE DEF d, q
<1>4. q * d \in Nat
  BY <1>1, <1>2
<1>5. (q * d) \div d = q
  BY <1>1, <1>2, <1>4, QuotientUnique
<1>6. Block(q * d, l) = q * d
  BY <1>5 DEF Block, AlignDown, d
<1> QED
  BY <1>2, <1>3, <1>4, <1>6 DEF d

\* A multiple of the size is the block of every address in it.
LEMMA BlockOfMultiple ==
  ASSUME NEW q \in Nat, NEW l \in Levels, NEW a \in Nat,
         q * WordSize[l] <= a, a < q * WordSize[l] + WordSize[l]
  PROVE  Block(a, l) = q * WordSize[l]
<1>1. WordSize[l] \in Nat \ {0}
  BY SizesPositive
<1>2. a \div WordSize[l] = q
  BY <1>1, QuotientUnique
<1> QED
  BY <1>2 DEF Block, AlignDown

\* A block is the block of every address in it.
LEMMA BlockOfWord ==
  ASSUME NEW x \in Nat, NEW l \in Levels, Block(x, l) = x,
         NEW a \in Nat, x <= a, a < x + WordSize[l]
  PROVE  Block(a, l) = x
<1>1. PICK q \in Nat : x = q * WordSize[l]
  BY BlockBounds
<1> QED
  BY <1>1, BlockOfMultiple

\* A block consists of two blocks of the next level: the one an address of it
\* lies in, and the buddy.
LEMMA Halves ==
  ASSUME NEW a \in Nat, NEW l \in Levels, l # RootLevel
  PROVE  LET B == Block(a, l - 1)
             w == WordSize[l]
         IN  /\ B \in Nat /\ w \in Nat \ {0}
             /\ Block(B, l) = B /\ Block(B + w, l) = B + w
             /\ Block(B, l - 1) = B /\ Block(B + w, l - 1) = B
             /\ \/ Block(a, l) = B /\ Buddy(a, l) = B + w
                \/ Block(a, l) = B + w /\ Buddy(a, l) = B
<1> DEFINE B == Block(a, l - 1)
           w == WordSize[l]
<1>1. /\ l - 1 \in Levels /\ WordSize[l - 1] = 2 * w /\ w \in Nat \ {0}
  BY Halving, SizesPositive
<1>2. B \in Nat /\ B <= a /\ a < B + 2 * w /\ Block(B, l - 1) = B
  BY <1>1, BlockBounds
<1>3. PICK p \in Nat : B = p * (2 * w)
  BY <1>1, BlockBounds
<1>4. 2 * p \in Nat /\ B = (2 * p) * w /\ 2 * p + 1 \in Nat /\ B + w = (2 * p + 1) * w
  BY <1>1, <1>3
<1> HIDE DEF B
<1>5. Block(B, l) = B
  BY <1>1, <1>2, <1>4, BlockOfMultiple
<1>6. B + w \in Nat /\ Block(B + w, l) = B + w
  <2> DEFINE q == 2 * p + 1
  <2>1. q \in Nat /\ B + w = q * w /\ q * w \in Nat
    BY <1>1, <1>2, <1>4
  <2> HIDE DEF q
  <2>2. q * w <= q * w /\ q * w < q * w + w
    BY <1>1, <2>1
  <2>3. Block(q * w, l) = q * w
    BY <2>1, <2>2, BlockOfMultiple
  <2> QED
    BY <2>1, <2>3
<1>7. Block(B + w, l - 1) = B
  BY <1>1, <1>2, <1>6, BlockOfWord
<1>8. CASE a < B + w
  <2>1. Block(a, l) = B
    BY <1>2, <1>5, <1>8, BlockOfWord
  <2> QED
    BY <1>1, <1>2, <1>5, <1>6, <1>7, <2>1 DEF Buddy, IsLeader, B
<1>9. CASE ~(a < B + w)
  <2>1. Block(a, l) = B + w
    BY <1>1, <1>2, <1>6, <1>9, BlockOfWord
  <2>2. Block(a, l) # B
    BY <1>1, <1>2, <2>1
  <2>3. B + w - w = B
    BY <1>1, <1>2
  <2> QED
    BY <1>1, <1>2, <1>5, <1>6, <1>7, <2>1, <2>2, <2>3 DEF Buddy, IsLeader, B
<1> QED
  BY <1>8, <1>9

\* What the two halves cover.
LEMMA HalvesCover ==
  ASSUME NEW a \in Nat, NEW l \in Levels, l # RootLevel
  PROVE  /\ Words(Block(a, l - 1), WordSize[l - 1])
              = Words(Block(a, l), WordSize[l]) \cup Words(Buddy(a, l), WordSize[l])
         /\ Words(Block(a, l), WordSize[l]) \cap Words(Buddy(a, l), WordSize[l]) = {}
<1> DEFINE B == Block(a, l - 1)
           w == WordSize[l]
<1>1. /\ B \in Nat /\ w \in Nat \ {0} /\ WordSize[l - 1] = 2 * w
      /\ \/ Block(a, l) = B /\ Buddy(a, l) = B + w
         \/ Block(a, l) = B + w /\ Buddy(a, l) = B
  BY Halves, Halving
<1> HIDE DEF B, w
<1>2. /\ Words(B, 2 * w) = Words(B, w) \cup Words(B + w, w)
      /\ Words(B, w) \cap Words(B + w, w) = {}
  BY <1>1 DEF Words
<1> QED
  BY <1>1, <1>2 DEF B, w

\* A statement about levels that carries over to the next level holds from
\* where it starts to hold: the least level without it would have none before.
LEMMA LevelInduction ==
  ASSUME NEW first \in Levels, NEW Holds \in SUBSET Levels, first \in Holds,
         \A l \in Levels : l > first /\ l - 1 \in Holds => l \in Holds
  PROVE  \A l \in Levels : l >= first => l \in Holds
<1> DEFINE Bad == {l \in Levels : l >= first /\ l \notin Holds}
<1> SUFFICES ASSUME Bad # {}
             PROVE  FALSE
  OBVIOUS
<1>1. HighestLevel \in Nat /\ Levels \subseteq Int /\ IsFiniteSet(Levels)
  BY GeometryAssumption, FS_Interval DEF Levels
<1>2. Bad \in SUBSET Int /\ IsFiniteSet(Bad)
  <2>1. Bad \in SUBSET Levels
    OBVIOUS
  <2> QED
    BY <1>1, <2>1, FS_Subset
<1>3. Min(Bad) \in Bad /\ \A l \in Bad : Min(Bad) <= l
  BY <1>2, MinExists
<1> DEFINE l == Min(Bad)
<1>4. l \in Levels /\ l > first /\ l - 1 \in Levels /\ l - 1 >= first /\ l - 1 < l
  BY <1>1, <1>3 DEF Levels
<1>5. l - 1 \notin Bad
  <2> HIDE DEF l, Bad
  <2>1. l - 1 \in Bad => l <= l - 1
    BY <1>3 DEF l
  <2> QED
    BY <1>1, <1>4, <2>1
<1>6. l - 1 \in Holds
  BY <1>4, <1>5
<1> QED
  BY <1>3, <1>4, <1>6

\* Chunks of a higher level are shorter, at most half as long.
LEMMA SizesFall ==
  ASSUME NEW i \in Levels, NEW j \in Levels, i <= j
  PROVE  WordSize[j] <= WordSize[i] /\ (i < j => 2 * WordSize[j] <= WordSize[i])
<1> DEFINE Holds == {l \in Levels : /\ WordSize[l] <= WordSize[i]
                                    /\ i < l => 2 * WordSize[l] <= WordSize[i]}
<1>1. i \in Holds
  BY SizesPositive, LevelRanges
<1>2. ASSUME NEW l \in Levels, l > i, l - 1 \in Holds
      PROVE  l \in Holds
  <2>1. l # RootLevel
    <3>1. l \in Nat /\ i \in Nat
      BY LevelRanges
    <3> QED
      BY <1>2, <3>1 DEF RootLevel
  <2>2. l - 1 \in Levels /\ WordSize[l - 1] = 2 * WordSize[l]
    BY <2>1, Halving
  <2>3. WordSize[l] \in Nat /\ WordSize[i] \in Nat
    BY SizesPositive
  <2> QED
    BY <1>2, <2>2, <2>3
<1>3. Holds \in SUBSET Levels
  OBVIOUS
<1> HIDE DEF Holds
<1>4. \A l \in Levels : l >= i => l \in Holds
  BY <1>1, <1>2, <1>3, LevelInduction
<1>5. j \in Holds
  BY <1>4, LevelRanges
<1> QED
  BY <1>5 DEF Holds

\* Where a block starts, a block of each higher level starts.
LEMMA BlocksNest ==
  ASSUME NEW i \in Levels, NEW j \in Levels, i <= j, NEW x \in Nat, Block(x, i) = x
  PROVE  Block(x, j) = x
<1> DEFINE Holds == {l \in Levels : Block(x, l) = x}
<1>1. i \in Holds
  OBVIOUS
<1>2. ASSUME NEW l \in Levels, l > i, l - 1 \in Holds
      PROVE  l \in Holds
  <2>1. l # RootLevel
    <3>1. l \in Nat /\ i \in Nat
      BY LevelRanges
    <3> QED
      BY <1>2, <3>1 DEF RootLevel
  <2>2. Block(x, l - 1) = x
    BY <1>2
  <2>3. Block(x, l) = x
    BY <2>1, <2>2, Halves
  <2> QED
    BY <2>3
<1>3. Holds \in SUBSET Levels
  OBVIOUS
<1> HIDE DEF Holds
<1>4. \A l \in Levels : l >= i => l \in Holds
  BY <1>1, <1>2, <1>3, LevelInduction
<1>5. j \in Holds
  BY <1>4, LevelRanges
<1> QED
  BY <1>5 DEF Holds

\* Merging a block of level l with its buddies from level l down to level
\* m + 1 gives the block of level m.
LEMMA BuddiesFillBlock ==
  ASSUME NEW b \in Nat, NEW l \in Levels, Block(b, l) = b, NEW m \in Levels, m <= l
  PROVE  Words(Block(b, m), WordSize[m])
           = Words(b, WordSize[l])
               \cup (UNION {Words(Buddy(b, k), WordSize[k]) : k \in (m + 1)..l})
<1> DEFINE Joined(i) == UNION {Words(Buddy(b, k), WordSize[k]) : k \in (m + 1)..i}
           Holds == {i \in Levels : i >= m /\ i <= l =>
                       Words(Block(b, m), WordSize[m])
                         = Words(Block(b, i), WordSize[i]) \cup Joined(i)}
<1>1. m \in Holds
  <2>1. (m + 1)..m = {}
    BY LevelRanges
  <2> QED
    BY <2>1
<1>2. ASSUME NEW i \in Levels, i > m, i - 1 \in Holds
      PROVE  i \in Holds
  <2> SUFFICES ASSUME i <= l
               PROVE  Words(Block(b, m), WordSize[m])
                        = Words(Block(b, i), WordSize[i]) \cup Joined(i)
    OBVIOUS
  <2>1. i # RootLevel /\ i \in Nat /\ m \in Nat /\ l \in Nat
    BY <1>2, LevelRanges DEF RootLevel
  <2>2. Words(Block(b, m), WordSize[m])
          = Words(Block(b, i - 1), WordSize[i - 1]) \cup Joined(i - 1)
    BY <1>2, <2>1
  <2>3. Words(Block(b, i - 1), WordSize[i - 1])
          = Words(Block(b, i), WordSize[i]) \cup Words(Buddy(b, i), WordSize[i])
    BY <2>1, HalvesCover
  <2>4. (m + 1)..i = ((m + 1)..(i - 1)) \cup {i}
    BY <1>2, <2>1
  <2>5. Joined(i) = Joined(i - 1) \cup Words(Buddy(b, i), WordSize[i])
    BY <2>4
  <2> HIDE DEF Joined
  <2> QED
    BY <2>2, <2>3, <2>5
<1>3. Holds \in SUBSET Levels
  OBVIOUS
<1>4. l \in Holds
  <2> HIDE DEF Holds
  <2>1. \A i \in Levels : i >= m => i \in Holds
    BY <1>1, <1>2, <1>3, LevelInduction
  <2> QED
    BY <2>1, LevelRanges
<1> QED
  BY <1>4, LevelRanges

\* An area is as long as a root chunk.
LEMMA AreaSize ==
  /\ RootWords \in Nat \ {0} /\ RootWords = WordSize[RootLevel]
  /\ RootLevel \in Levels
  /\ NumAreas \in Nat \ {0} /\ Areas \subseteq Nat
  /\ NumNodes * NodeWords = NumAreas * RootWords
<1>1. RootLevel \in Levels
  BY GeometryAssumption DEF RootLevel, Levels
<1>2. /\ WordSize[RootLevel] \in Nat \ {0}
      /\ RootsPerNode \in Nat \ {0} /\ NumNodes \in Nat \ {0}
  BY <1>1, SizesPositive, GeometryAssumption
<1>3. NumAreas \in Nat \ {0}
  BY <1>2 DEF NumAreas
<1>4. NumNodes * NodeWords = NumAreas * RootWords
  BY <1>2 DEF NumAreas, NodeWords, RootWords
<1> QED
  BY <1>1, <1>2, <1>3, <1>4 DEF RootWords, Areas

\* A root block is one area.
LEMMA RootInArea ==
  ASSUME NEW q \in Nat, NEW a \in Words(q * WordSize[RootLevel], WordSize[RootLevel])
  PROVE  a \in Nat /\ a \div RootWords = q
<1> DEFINE w == WordSize[RootLevel]
<1>1. w \in Nat \ {0} /\ RootWords = w
  BY AreaSize
<1>2. q * w <= a /\ a < q * w + w /\ q * w \in Nat /\ a \in Nat
  BY <1>1 DEF Words
<1> HIDE DEF w
<1> QED
  BY <1>1, <1>2, QuotientUnique

\* A chunk lies in one area.
LEMMA ChunkInArea ==
  ASSUME NEW b \in Nat, NEW l \in Levels, Block(b, l) = b, NEW a \in Words(b, WordSize[l])
  PROVE  a \in Nat /\ a \div RootWords = b \div RootWords
<1>1. RootLevel \in Levels /\ RootLevel <= l
  BY AreaSize, LevelRanges DEF RootLevel
<1>2. Words(b, WordSize[l]) \subseteq Words(Block(b, RootLevel), WordSize[RootLevel])
  BY <1>1, BuddiesFillBlock
<1>3. b \in Words(b, WordSize[l])
  BY SizesPositive DEF Words
<1>4. PICK q \in Nat : Block(b, RootLevel) = q * WordSize[RootLevel]
  BY <1>1, BlockBounds
<1>5. /\ a \in Words(q * WordSize[RootLevel], WordSize[RootLevel])
      /\ b \in Words(q * WordSize[RootLevel], WordSize[RootLevel])
  BY <1>2, <1>3, <1>4
<1>6. a \in Nat /\ a \div RootWords = q
  BY <1>5, RootInArea
<1>7. b \div RootWords = q
  BY <1>5, RootInArea
<1> QED
  BY <1>6, <1>7

-----------------------------------------------------------------------------
(* Lists as sets in an order.                                              *)

\* From first the links nxt lead through all of S, along which pos rises.
InLine(S, pos, first, nxt) ==
  /\ S \subseteq Nat \ {Null}
  /\ pos \in [Nat -> Int]
  /\ \A x, y \in S : pos[x] = pos[y] => x = y
  /\ S = {} => first = Null
  /\ S # {} => first \in S /\ \A y \in S : pos[first] <= pos[y]
  /\ \A x \in S :
       /\ nxt[x] = Null => \A y \in S : pos[y] <= pos[x]
       /\ nxt[x] # Null => /\ nxt[x] \in S /\ pos[x] < pos[nxt[x]]
                           /\ \A y \in S : pos[y] <= pos[x] \/ pos[nxt[x]] <= pos[y]

OneWay(S, first, nxt) == \E pos : InLine(S, pos, first, nxt)

\* The links prv lead the same way back, from last.
TwoWay(S, first, last, nxt, prv) ==
  /\ OneWay(S, first, nxt)
  /\ S = {} => last = Null
  /\ S # {} => last \in S /\ nxt[last] = Null
  /\ first \in S => prv[first] = Null
  /\ \A x \in S \ {first} : prv[x] \in S /\ nxt[prv[x]] = x

\* Links that agree on the members lead the same way.
LEMMA OneWaySame ==
  ASSUME NEW S, NEW first, NEW nxt, NEW mxt, OneWay(S, first, nxt),
         \A x \in S : mxt[x] = nxt[x]
  PROVE  OneWay(S, first, mxt)
<1>1. PICK pos : InLine(S, pos, first, nxt)
  BY DEF OneWay
<1>2. InLine(S, pos, first, mxt)
  BY <1>1 DEF InLine
<1> QED
  BY <1>2 DEF OneWay

\* What comes before all others gets a smaller number.
LEMMA OneWayFront ==
  ASSUME NEW S, NEW first, NEW nxt, NEW mxt, OneWay(S, first, nxt),
         NEW h \in Nat \ {Null}, h \notin S, mxt[h] = first, \A x \in S : mxt[x] = nxt[x]
  PROVE  OneWay(S \cup {h}, h, mxt)
<1>1. PICK pos : InLine(S, pos, first, nxt)
  BY DEF OneWay
<1> DEFINE p == IF S = {} THEN 0 ELSE pos[first] - 1
           qos == [pos EXCEPT ![h] = p]
           T == S \cup {h}
<1>2. p \in Int /\ \A x \in S : p < pos[x] /\ pos[x] \in Int
  <2>1. \A x \in S : pos[x] \in Int
    BY <1>1 DEF InLine
  <2>2. CASE S = {}
    BY <2>2
  <2>3. CASE S # {}
    <3>1. p = pos[first] - 1 /\ pos[first] \in Int /\ \A x \in S : pos[first] <= pos[x]
      BY <1>1, <2>1, <2>3 DEF InLine
    <3> HIDE DEF p
    <3> QED
      BY <2>1, <3>1
  <2> QED
    BY <2>2, <2>3
<1>3. qos \in [Nat -> Int] /\ qos[h] = p /\ \A x \in S : qos[x] = pos[x] /\ x # h
  BY <1>1, <1>2 DEF InLine
<1> HIDE DEF qos, p
<1>4. T \subseteq Nat \ {Null} /\ T # {} /\ h \in T
  BY <1>1 DEF InLine
<1>5. \A x, y \in T : qos[x] = qos[y] => x = y
  <2>1. \A x, y \in S : qos[x] = qos[y] => x = y
    BY <1>1, <1>3 DEF InLine
  <2>2. \A x \in S : qos[x] # qos[h]
    BY <1>2, <1>3
  <2> QED
    BY <2>1, <2>2
<1>6. \A y \in T : qos[h] <= qos[y]
  BY <1>2, <1>3
<1>7. ASSUME NEW x \in T
      PROVE  /\ mxt[x] = Null => \A y \in T : qos[y] <= qos[x]
             /\ mxt[x] # Null => /\ mxt[x] \in T /\ qos[x] < qos[mxt[x]]
                                 /\ \A y \in T : qos[y] <= qos[x] \/ qos[mxt[x]] <= qos[y]
  <2>1. CASE x = h
    <3>1. CASE S = {}
      BY <1>1, <1>3, <1>6, <2>1, <3>1 DEF InLine
    <3>2. CASE S # {}
      <4>1. first \in S /\ first # Null /\ \A y \in S : pos[first] <= pos[y]
        BY <1>1, <3>2 DEF InLine
      <4>2. qos[first] = pos[first] /\ qos[h] < qos[first]
        BY <1>2, <1>3, <4>1
      <4>3. \A y \in T : qos[y] <= qos[h] \/ qos[first] <= qos[y]
        BY <1>2, <1>3, <4>1, <4>2
      <4> QED
        BY <2>1, <4>1, <4>2, <4>3
    <3> QED
      BY <3>1, <3>2
  <2>2. CASE x \in S
    <3>1. mxt[x] = nxt[x] /\ qos[x] = pos[x]
      BY <1>3, <2>2
    <3>2. qos[h] <= qos[x]
      BY <1>6, <2>2
    <3>3. nxt[x] # Null => nxt[x] \in S /\ qos[nxt[x]] = pos[nxt[x]] /\ pos[x] < pos[nxt[x]]
      BY <1>1, <1>3, <2>2 DEF InLine
    <3>4. nxt[x] = Null => \A y \in S : qos[y] <= qos[x]
      BY <1>1, <1>3, <2>2 DEF InLine
    <3>5. nxt[x] # Null => \A y \in S : qos[y] <= qos[x] \/ qos[nxt[x]] <= qos[y]
      BY <1>1, <1>3, <2>2 DEF InLine
    <3> QED
      BY <3>1, <3>2, <3>3, <3>4, <3>5
  <2> QED
    BY <2>1, <2>2
<1>8. InLine(T, qos, h, mxt)
  BY <1>3, <1>4, <1>5, <1>6, <1>7 DEF InLine
<1> QED
  BY <1>8 DEF OneWay

\* What comes behind all others gets a larger number.
LEMMA OneWayBack ==
  ASSUME NEW S, NEW first, NEW nxt, NEW mxt, OneWay(S, first, nxt),
         NEW last \in S, nxt[last] = Null,
         NEW h \in Nat \ {Null}, h \notin S, mxt[h] = Null, mxt[last] = h,
         \A x \in S \ {last} : mxt[x] = nxt[x]
  PROVE  OneWay(S \cup {h}, first, mxt)
<1>1. PICK pos : InLine(S, pos, first, nxt)
  BY DEF OneWay
<1> DEFINE p == pos[last] + 1
           qos == [pos EXCEPT ![h] = p]
           T == S \cup {h}
<1>2. p \in Int /\ \A x \in S : p > pos[x] /\ pos[x] \in Int /\ pos[x] <= pos[last]
  BY <1>1 DEF InLine
<1>3. qos \in [Nat -> Int] /\ qos[h] = p /\ \A x \in S : qos[x] = pos[x] /\ x # h
  BY <1>1, <1>2 DEF InLine
<1>4. qos[h] = qos[last] + 1 /\ h # last
  BY <1>3
<1> HIDE DEF qos, p
<1>5. T \subseteq Nat \ {Null} /\ T # {} /\ first \in T /\ first \in S
  BY <1>1 DEF InLine
<1>6. \A x, y \in T : qos[x] = qos[y] => x = y
  <2>1. \A x, y \in S : qos[x] = qos[y] => x = y
    BY <1>1, <1>3 DEF InLine
  <2>2. \A x \in S : qos[x] # qos[h]
    BY <1>2, <1>3
  <2> QED
    BY <2>1, <2>2
<1>7. \A y \in T : qos[first] <= qos[y]
  <2>1. \A y \in S : qos[first] <= qos[y]
    BY <1>1, <1>3 DEF InLine
  <2>2. qos[first] <= qos[h]
    BY <1>2, <1>3, <1>5
  <2> QED
    BY <2>1, <2>2
<1>8. \A y \in T : qos[y] <= qos[h]
  BY <1>2, <1>3
<1>9. ASSUME NEW x \in T
      PROVE  /\ mxt[x] = Null => \A y \in T : qos[y] <= qos[x]
             /\ mxt[x] # Null => /\ mxt[x] \in T /\ qos[x] < qos[mxt[x]]
                                 /\ \A y \in T : qos[y] <= qos[x] \/ qos[mxt[x]] <= qos[y]
  <2>1. CASE x = h
    BY <1>8, <2>1
  <2>2. CASE x = last
    <3>1. \A y \in T : qos[y] <= qos[last] \/ qos[h] <= qos[y]
      BY <1>2, <1>3
    <3>2. qos[last] < qos[h] /\ h # Null
      BY <1>2, <1>3
    <3> QED
      BY <2>2, <3>1, <3>2
  <2>3. CASE x \in S \ {last}
    <3>1. mxt[x] = nxt[x] /\ qos[x] = pos[x]
      BY <1>3, <2>3
    <3>2. nxt[x] # Null
      <4>1. SUFFICES ASSUME nxt[x] = Null PROVE FALSE
        OBVIOUS
      <4>2. pos[last] <= pos[x] /\ pos[x] <= pos[last]
        BY <1>1, <1>2, <2>3, <4>1 DEF InLine
      <4>3. pos[last] = pos[x]
        BY <1>2, <2>3, <4>2
      <4> QED
        BY <1>1, <2>3, <4>3 DEF InLine
    <3>3. nxt[x] \in S /\ qos[nxt[x]] = pos[nxt[x]] /\ pos[x] < pos[nxt[x]]
      BY <1>1, <1>3, <2>3, <3>2 DEF InLine
    <3>4. \A y \in S : qos[y] <= qos[x] \/ qos[nxt[x]] <= qos[y]
      BY <1>1, <1>3, <2>3, <3>2 DEF InLine
    <3>5. qos[nxt[x]] <= qos[h]
      BY <1>8, <3>3
    <3> QED
      BY <3>1, <3>2, <3>3, <3>4, <3>5
  <2> QED
    BY <2>1, <2>2, <2>3
<1>10. InLine(T, qos, first, mxt)
  BY <1>3, <1>5, <1>6, <1>7, <1>9 DEF InLine
<1> QED
  BY <1>10 DEF OneWay

\* Nothing leads to the first, and two links do not lead to the same.
LEMMA OneBefore ==
  ASSUME NEW S, NEW first, NEW nxt, OneWay(S, first, nxt)
  PROVE  /\ \A x \in S : nxt[x] # first \/ nxt[x] = Null
         /\ \A x, y \in S : nxt[x] = nxt[y] => x = y
<1>1. PICK pos : InLine(S, pos, first, nxt)
  BY DEF OneWay
<1>2. \A x \in S : pos[x] \in Int
  BY <1>1 DEF InLine
<1>3. ASSUME NEW x \in S, nxt[x] = first, nxt[x] # Null PROVE FALSE
  <2>1. pos[x] < pos[first] /\ pos[first] <= pos[x] /\ first \in S
    BY <1>1, <1>3 DEF InLine
  <2> QED
    BY <1>2, <2>1
<1>4. ASSUME NEW x \in S, NEW y \in S, nxt[x] = nxt[y] PROVE x = y
  <2>1. CASE nxt[x] = Null
    <3>1. pos[x] <= pos[y] /\ pos[y] <= pos[x]
      BY <1>1, <1>4, <2>1 DEF InLine
    <3> QED
      BY <1>1, <1>2, <3>1 DEF InLine
  <2>2. CASE nxt[x] # Null
    <3>1. /\ nxt[x] \in S /\ pos[x] < pos[nxt[x]] /\ pos[y] < pos[nxt[x]]
          /\ pos[y] <= pos[x] \/ pos[nxt[x]] <= pos[y]
          /\ pos[x] <= pos[y] \/ pos[nxt[x]] <= pos[x]
      BY <1>1, <1>4, <2>2 DEF InLine
    <3>2. pos[x] = pos[y]
      BY <1>2, <3>1
    <3> QED
      BY <1>1, <3>2 DEF InLine
  <2> QED
    BY <2>1, <2>2
<1> QED
  BY <1>3, <1>4

\* A member is taken out: what led to it leads to the next one.
LEMMA OneWayWithout ==
  ASSUME NEW S, NEW first, NEW nxt, NEW mxt, OneWay(S, first, nxt), NEW h \in S,
         \A x \in S \ {h} : mxt[x] = IF nxt[x] = h THEN nxt[h] ELSE nxt[x]
  PROVE  OneWay(S \ {h}, IF first = h THEN nxt[h] ELSE first, mxt)
<1>1. PICK pos : InLine(S, pos, first, nxt)
  BY DEF OneWay
<1>2. \A x \in S : pos[x] \in Int
  BY <1>1 DEF InLine
<1> DEFINE T == S \ {h}
           fst == IF first = h THEN nxt[h] ELSE first
<1>3. T \subseteq Nat \ {Null} /\ pos \in [Nat -> Int] /\ \A x, y \in T : pos[x] = pos[y] => x = y
  BY <1>1 DEF InLine
<1>4. first \in S /\ h # Null /\ \A y \in S : pos[first] <= pos[y]
  BY <1>1 DEF InLine
<1>5. nxt[h] # Null => /\ nxt[h] \in T /\ pos[h] < pos[nxt[h]]
                       /\ \A y \in S : pos[y] <= pos[h] \/ pos[nxt[h]] <= pos[y]
  <2>1. nxt[h] # Null => /\ nxt[h] \in S /\ pos[h] < pos[nxt[h]]
                         /\ \A y \in S : pos[y] <= pos[h] \/ pos[nxt[h]] <= pos[y]
    BY <1>1 DEF InLine
  <2>2. nxt[h] # Null => nxt[h] # h
    BY <1>2, <2>1
  <2> QED
    BY <2>1, <2>2
<1>6. nxt[h] = Null => \A y \in S : pos[y] <= pos[h]
  BY <1>1 DEF InLine
<1>7. ASSUME T = {} PROVE fst = Null
  BY <1>4, <1>5, <1>7
<1>8. ASSUME T # {} PROVE fst \in T /\ \A y \in T : pos[fst] <= pos[y]
  <2>1. CASE first # h
    BY <1>4, <2>1
  <2>2. CASE first = h
    <3>1. \A y \in T : pos[h] < pos[y]
      <4>1. \A y \in T : pos[h] <= pos[y] /\ pos[h] # pos[y]
        BY <1>1, <1>4, <2>2 DEF InLine
      <4> QED
        BY <1>2, <4>1
    <3>2. nxt[h] # Null
      <4>1. PICK y \in T : TRUE
        BY <1>8
      <4> QED
        BY <1>2, <1>6, <3>1, <4>1
    <3>3. nxt[h] \in T /\ \A y \in T : pos[nxt[h]] <= pos[y]
      BY <1>2, <1>5, <3>1, <3>2
    <3> QED
      BY <2>2, <3>3
  <2> QED
    BY <2>1, <2>2
<1>9. ASSUME NEW x \in T
      PROVE  /\ mxt[x] = Null => \A y \in T : pos[y] <= pos[x]
             /\ mxt[x] # Null => /\ mxt[x] \in T /\ pos[x] < pos[mxt[x]]
                                 /\ \A y \in T : pos[y] <= pos[x] \/ pos[mxt[x]] <= pos[y]
  <2>1. CASE nxt[x] = h
    <3>1. mxt[x] = nxt[h]
      BY <2>1
    <3>2. pos[x] < pos[h] /\ \A y \in S : pos[y] <= pos[x] \/ pos[h] <= pos[y]
      BY <1>1, <1>4, <2>1 DEF InLine
    <3>3. \A y \in T : pos[y] <= pos[x] \/ pos[h] < pos[y]
      <4>1. \A y \in T : pos[y] # pos[h]
        BY <1>1 DEF InLine
      <4> QED
        BY <1>2, <3>2, <4>1
    <3>4. CASE nxt[h] = Null
      <4>1. \A y \in T : pos[y] <= pos[x]
        BY <1>2, <1>6, <3>3, <3>4
      <4> QED
        BY <3>1, <3>4, <4>1
    <3>5. CASE nxt[h] # Null
      <4>1. pos[x] < pos[nxt[h]]
        BY <1>2, <1>5, <3>2, <3>5
      <4>2. \A y \in T : pos[y] <= pos[x] \/ pos[nxt[h]] <= pos[y]
        BY <1>2, <1>5, <3>3, <3>5
      <4> QED
        BY <1>5, <3>1, <3>5, <4>1, <4>2
    <3> QED
      BY <3>4, <3>5
  <2>2. CASE nxt[x] # h
    <3>1. mxt[x] = nxt[x]
      BY <2>2
    <3> QED
      BY <1>1, <2>2, <3>1 DEF InLine
  <2> QED
    BY <2>1, <2>2
<1>10. InLine(T, pos, fst, mxt)
  BY <1>3, <1>7, <1>8, <1>9 DEF InLine
<1> QED
  BY <1>10 DEF OneWay

\* A list of nothing.
LEMMA NoneInLine ==
  ASSUME NEW nxt, NEW prv
  PROVE  OneWay({}, Null, nxt) /\ TwoWay({}, Null, Null, nxt, prv)
<1>1. InLine({}, [x \in Nat |-> 0], Null, nxt)
  BY DEF InLine
<1> QED
  BY <1>1 DEF OneWay, TwoWay

-----------------------------------------------------------------------------

\* Links that agree on the members lead both ways as before.
LEMMA TwoWaySame ==
  ASSUME NEW S, NEW first, NEW last, NEW nxt, NEW prv, NEW mxt, NEW qrv,
         TwoWay(S, first, last, nxt, prv),
         \A x \in S : mxt[x] = nxt[x] /\ qrv[x] = prv[x]
  PROVE  TwoWay(S, first, last, mxt, qrv)
<1>1. OneWay(S, first, mxt)
  BY OneWaySame DEF TwoWay
<1> QED
  BY <1>1 DEF TwoWay

\* The ends of a list with members.
LEMMA Ends ==
  ASSUME NEW S, NEW first, NEW last, NEW nxt, NEW prv, TwoWay(S, first, last, nxt, prv)
  PROVE  /\ S \subseteq Nat \ {Null} /\ (S = {} <=> first = Null) /\ (S = {} <=> last = Null)
         /\ S # {} => first \in S /\ last \in S
         /\ \A x \in S : /\ nxt[x] \in S \cup {Null} /\ prv[x] \in S \cup {Null}
                         /\ (prv[x] = Null <=> x = first) /\ (nxt[x] = Null <=> x = last)
                         /\ nxt[x] # x /\ prv[x] # x
<1>1. PICK pos : InLine(S, pos, first, nxt)
  BY DEF TwoWay, OneWay
<1>2. S \subseteq Nat \ {Null} /\ \A x \in S : nxt[x] \in S \cup {Null}
  BY <1>1 DEF InLine
<1>3. (S = {} <=> first = Null) /\ (S # {} => first \in S)
  BY <1>1, <1>2 DEF InLine
<1>4. (S = {} <=> last = Null) /\ (S # {} => last \in S)
  BY <1>2 DEF TwoWay
<1>5. \A x \in S : prv[x] \in S \cup {Null} /\ (prv[x] = Null <=> x = first)
  BY <1>2, <1>3 DEF TwoWay
<1>6. \A x \in S : nxt[x] = Null <=> x = last
  BY OneBefore, <1>4 DEF TwoWay
<1>7. \A x \in S : nxt[x] # x
  <2>1. \A x \in S : pos[x] \in Int
    BY <1>1 DEF InLine
  <2> QED
    BY <1>1, <1>2, <2>1 DEF InLine
<1>8. \A x \in S : prv[x] # x
  BY <1>2, <1>5, <1>7 DEF TwoWay
<1> QED
  BY <1>2, <1>3, <1>4, <1>5, <1>6, <1>7, <1>8

\* A header alone is a list.
LEMMA TwoWayOnly ==
  ASSUME NEW h \in Nat \ {Null}, NEW nxt, NEW prv, nxt[h] = Null, prv[h] = Null
  PROVE  TwoWay({h}, h, h, nxt, prv)
<1>1. InLine({h}, [x \in Nat |-> 0], h, nxt)
  BY DEF InLine
<1> QED
  BY <1>1 DEF OneWay, TwoWay

\* A header comes before the first.
LEMMA TwoWayFront ==
  ASSUME NEW S, NEW first, NEW last, NEW nxt, NEW prv, NEW mxt, NEW qrv,
         TwoWay(S, first, last, nxt, prv), S # {},
         NEW h \in Nat \ {Null}, h \notin S, mxt[h] = first, qrv[h] = Null, qrv[first] = h,
         \A x \in S : mxt[x] = nxt[x], \A x \in S \ {first} : qrv[x] = prv[x]
  PROVE  TwoWay(S \cup {h}, h, last, mxt, qrv)
<1>1. OneWay(S \cup {h}, h, mxt)
  BY OneWayFront DEF TwoWay
<1>2. last \in S /\ mxt[last] = Null /\ first \in S
  BY Ends
<1>3. \A x \in S \ {first} : qrv[x] \in S /\ mxt[qrv[x]] = x
  BY DEF TwoWay
<1>4. \A x \in (S \cup {h}) \ {h} : qrv[x] \in S \cup {h} /\ mxt[qrv[x]] = x
  BY <1>3
<1> QED
  BY <1>1, <1>2, <1>4 DEF TwoWay

\* A header comes after the last.
LEMMA TwoWayBack ==
  ASSUME NEW S, NEW first, NEW last, NEW nxt, NEW prv, NEW mxt, NEW qrv,
         TwoWay(S, first, last, nxt, prv), S # {},
         NEW h \in Nat \ {Null}, h \notin S, qrv[h] = last, mxt[h] = Null, mxt[last] = h,
         \A x \in S \ {last} : mxt[x] = nxt[x], \A x \in S : qrv[x] = prv[x]
  PROVE  TwoWay(S \cup {h}, first, h, mxt, qrv)
<1>1. last \in S /\ nxt[last] = Null /\ first \in S
  BY Ends
<1>2. OneWay(S \cup {h}, first, mxt)
  BY OneWayBack, <1>1 DEF TwoWay
<1>3. \A x \in S \ {first} : qrv[x] \in S /\ nxt[qrv[x]] = x /\ x # Null
  <2>1. \A x \in S \ {first} : prv[x] \in S /\ nxt[prv[x]] = x
    BY DEF TwoWay
  <2>2. S \subseteq Nat \ {Null}
    BY Ends
  <2> QED
    BY <2>1, <2>2
<1>4. \A x \in S \ {first} : qrv[x] \in S \ {last} /\ mxt[qrv[x]] = x
  BY <1>1, <1>3
<1>5. qrv[h] \in S /\ mxt[qrv[h]] = h /\ qrv[first] = Null
  BY <1>1 DEF TwoWay
<1>6. \A x \in (S \cup {h}) \ {first} : qrv[x] \in S \cup {h} /\ mxt[qrv[x]] = x
  BY <1>4, <1>5
<1> QED
  BY <1>1, <1>2, <1>5, <1>6 DEF TwoWay

\* A member leaves: those beside it are linked with each other.
LEMMA TwoWayWithout ==
  ASSUME NEW S, NEW first, NEW last, NEW nxt, NEW prv, NEW mxt, NEW qrv,
         TwoWay(S, first, last, nxt, prv), NEW h \in S,
         \A x \in S \ {h} : /\ mxt[x] = IF x = prv[h] THEN nxt[h] ELSE nxt[x]
                            /\ qrv[x] = IF x = nxt[h] THEN prv[h] ELSE prv[x]
  PROVE  TwoWay(S \ {h}, IF first = h THEN nxt[h] ELSE first, IF last = h THEN prv[h] ELSE last,
                mxt, qrv)
<1> DEFINE T   == S \ {h}
           fst == IF first = h THEN nxt[h] ELSE first
           lst == IF last = h THEN prv[h] ELSE last
<1>1. /\ S \subseteq Nat \ {Null} /\ first \in S /\ last \in S
      /\ \A x \in S : /\ nxt[x] \in S \cup {Null} /\ prv[x] \in S \cup {Null}
                      /\ (prv[x] = Null <=> x = first) /\ (nxt[x] = Null <=> x = last)
                      /\ nxt[x] # x /\ prv[x] # x
  BY Ends
<1>2. /\ \A x \in S : nxt[x] # first \/ nxt[x] = Null
      /\ \A x, y \in S : nxt[x] = nxt[y] => x = y
  BY OneBefore DEF TwoWay
<1>3. \A x \in S \ {first} : prv[x] \in S /\ nxt[prv[x]] = x
  BY DEF TwoWay
<1>4. \A x \in S : nxt[x] = h <=> h # first /\ x = prv[h]
  <2>1. h # Null
    BY <1>1
  <2>2. h # first => prv[h] \in S /\ nxt[prv[h]] = h
    BY <1>3
  <2>3. \A x \in S : nxt[x] = h => h # first
    BY <1>2, <2>1
  <2>4. \A x \in S : nxt[x] = h /\ h # first => x = prv[h]
    BY <1>2, <2>2
  <2> QED
    BY <2>2, <2>3, <2>4
<1>5. \A x \in S : prv[x] = h <=> h # last /\ x = nxt[h]
  <2>1. \A x \in S : prv[x] = h => x = nxt[h] /\ h # last
    BY <1>1, <1>3
  <2>2. h # last => nxt[h] \in S \ {first} /\ nxt[prv[nxt[h]]] = nxt[h]
    BY <1>1, <1>2, <1>3
  <2>3. h # last => prv[nxt[h]] = h
    BY <1>1, <1>2, <1>3, <2>2
  <2> QED
    BY <2>1, <2>3
<1>6. OneWay(T, fst, mxt)
  <2>1. \A x \in T : mxt[x] = IF nxt[x] = h THEN nxt[h] ELSE nxt[x]
    BY <1>1, <1>4
  <2>2. OneWay(S, first, nxt)
    BY DEF TwoWay
  <2> QED
    BY <2>1, <2>2, OneWayWithout
<1>7. ASSUME T = {} PROVE lst = Null
  BY <1>1, <1>7
<1>8. ASSUME T # {} PROVE lst \in T /\ mxt[lst] = Null
  <2>1. CASE last # h
    <3>1. lst = last /\ nxt[last] = Null /\ last # prv[h]
      BY <1>1, <1>4, <2>1
    <3> QED
      BY <1>1, <2>1, <3>1
  <2>2. CASE last = h
    <3>1. h # first
      <4>1. SUFFICES ASSUME h = first PROVE FALSE
        OBVIOUS
      <4>2. PICK pos : InLine(S, pos, first, nxt)
        BY DEF TwoWay, OneWay
      <4>3. PICK y \in S \ {h} : TRUE
        BY <1>8
      <4>4. pos[y] <= pos[h] /\ pos[h] <= pos[y] /\ pos[y] # pos[h]
        BY <1>1, <2>2, <4>1, <4>2, <4>3 DEF InLine
      <4>5. pos[y] \in Int /\ pos[h] \in Int
        BY <4>2 DEF InLine
      <4> QED
        BY <4>4, <4>5
    <3>2. prv[h] \in T /\ nxt[h] = Null
      BY <1>1, <2>2, <3>1
    <3> QED
      BY <2>2, <3>2
  <2> QED
    BY <2>1, <2>2
<1>9. ASSUME fst \in T PROVE qrv[fst] = Null
  <2>1. CASE first = h
    BY <1>1, <1>9, <2>1
  <2>2. CASE first # h
    BY <1>1, <1>2, <1>9, <2>2
  <2> QED
    BY <2>1, <2>2
<1>10. ASSUME NEW x \in T \ {fst} PROVE qrv[x] \in T /\ mxt[qrv[x]] = x
  <2>1. x # first
    BY <1>1, <1>10
  <2>2. CASE x = nxt[h]
    <3>1. qrv[x] = prv[h] /\ h # first
      BY <1>10, <2>2
    <3> QED
      BY <1>1, <2>2, <3>1
  <2>3. CASE x # nxt[h]
    <3>1. qrv[x] = prv[x] /\ prv[x] \in T /\ nxt[prv[x]] = x /\ prv[x] # prv[h]
      BY <1>1, <1>3, <1>5, <1>10, <2>1, <2>3
    <3> QED
      BY <3>1
  <2> QED
    BY <2>2, <2>3
<1> HIDE DEF T, fst, lst
<1>11. TwoWay(T, fst, lst, mxt, qrv)
  BY <1>6, <1>7, <1>8, <1>9, <1>10 DEF TwoWay
<1> QED
  BY <1>11 DEF T, fst, lst

-----------------------------------------------------------------------------

(* Walks.                                                                  *)

\* One step of a walk that has met m.
Onward(m, i, nxt) == IF Len(m) < i \/ nxt[m[i]] = Null THEN m ELSE Append(m, nxt[m[i]])

Walks(F, first, nxt, n) ==
  F = [i \in 0..n |-> IF i = 0 THEN IF first = Null THEN <<>> ELSE <<first>>
                      ELSE Onward(F[i - 1], i, nxt)]

\* After i steps a walk through a list has met its first members, all up to
\* the last it met, in their order.
OnTheWay(w, i, S, pos, first, nxt) ==
  /\ w \in Seq(S) /\ Len(w) \in 1..(i + 1) /\ w[1] = first
  /\ \A j \in 1..(Len(w) - 1) : nxt[w[j]] = w[j + 1]
  /\ \A j, k \in 1..Len(w) : j < k => pos[w[j]] < pos[w[k]]
  /\ \A x \in S : pos[x] <= pos[w[Len(w)]] => \E j \in 1..Len(w) : w[j] = x
  /\ Len(w) <= i => nxt[w[Len(w)]] = Null

\* The recursive function of Walk exists, for each number of steps.
LEMMA WalkExists ==
  ASSUME NEW first, NEW nxt, NEW n \in Nat
  PROVE  \E F : Walks(F, first, nxt, n)
<1> DEFINE Start == IF first = Null THEN <<>> ELSE <<first>>
           Some == {k \in Nat : \E F : Walks(F, first, nxt, k)}
<1>1. 0 \in Some
  <2> DEFINE F == [i \in 0..0 |-> Start]
  <2>1. Walks(F, first, nxt, 0)
    BY DEF Walks
  <2> QED
    BY <2>1
<1>2. ASSUME NEW k \in Nat, k \in Some PROVE k + 1 \in Some
  <2>1. PICK F : Walks(F, first, nxt, k)
    BY <1>2
  <2> DEFINE G == [i \in 0..(k + 1) |-> IF i = k + 1 THEN Onward(F[k], k + 1, nxt) ELSE F[i]]
  <2>2. \A i \in 0..k : F[i] = IF i = 0 THEN Start ELSE Onward(F[i - 1], i, nxt)
    BY <2>1 DEF Walks
  <2> HIDE DEF Start
  <2>3. ASSUME NEW i \in 0..(k + 1)
        PROVE  G[i] = IF i = 0 THEN Start ELSE Onward(G[i - 1], i, nxt)
    <3>1. CASE i = k + 1
      <4>1. G[i] = Onward(F[k], k + 1, nxt) /\ i - 1 = k /\ i # 0 /\ G[k] = F[k]
        BY <3>1
      <4> QED
        BY <3>1, <4>1
    <3>2. CASE i # k + 1
      <4>1. i \in 0..k /\ G[i] = F[i]
        BY <3>2
      <4>2. i # 0 => i - 1 \in 0..k /\ G[i - 1] = F[i - 1]
        BY <4>1
      <4> QED
        BY <2>2, <4>1, <4>2
    <3> QED
      BY <3>1, <3>2
  <2>4. G = [i \in 0..(k + 1) |-> G[i]]
    OBVIOUS
  <2> HIDE DEF G
  <2>5. G = [i \in 0..(k + 1) |-> IF i = 0 THEN Start ELSE Onward(G[i - 1], i, nxt)]
    BY <2>3, <2>4
  <2>6. Walks(G, first, nxt, k + 1)
    BY <2>5 DEF Walks, Start
  <2> QED
    BY <2>6
<1> HIDE DEF Some
<1>3. Nat \subseteq Some
  BY <1>1, <1>2, NumberInduction
<1> QED
  BY <1>3 DEF Some

\* One more step.
LEMMA WalkGoesOn ==
  ASSUME NEW S, NEW pos, NEW first, NEW nxt, InLine(S, pos, first, nxt),
         NEW i \in Nat \ {0}, NEW m, OnTheWay(m, i - 1, S, pos, first, nxt)
  PROVE  OnTheWay(Onward(m, i, nxt), i, S, pos, first, nxt)
<1>1. /\ m \in Seq(S) /\ Len(m) \in Nat /\ Len(m) >= 1 /\ Len(m) <= i /\ m[1] = first
      /\ Len(m) < i => nxt[m[Len(m)]] = Null
      /\ m[Len(m)] \in S
  BY DEF OnTheWay
<1>2. CASE Len(m) < i \/ nxt[m[i]] = Null
  <2>1. Onward(m, i, nxt) = m
    BY <1>2 DEF Onward
  <2>2. Len(m) <= i => nxt[m[Len(m)]] = Null
    BY <1>1, <1>2
  <2> QED
    BY <1>1, <2>1, <2>2 DEF OnTheWay
<1>3. CASE ~(Len(m) < i \/ nxt[m[i]] = Null)
  <2> DEFINE y == nxt[m[i]]
             w == Append(m, y)
  <2>1. Onward(m, i, nxt) = w /\ Len(m) = i /\ y # Null
    BY <1>1, <1>3 DEF Onward
  <2>2. y \in S /\ pos[m[i]] < pos[y] /\ \A x \in S : pos[x] <= pos[m[i]] \/ pos[y] <= pos[x]
    BY <1>1, <2>1 DEF InLine
  <2>3. \A x \in S : pos[x] \in Int
    BY DEF InLine
  <2>4. w \in Seq(S) /\ Len(w) = i + 1 /\ w[i + 1] = y /\ \A j \in 1..i : w[j] = m[j] /\ m[j] \in S
    BY <1>1, <2>1, <2>2, AppendProperties
  <2> HIDE DEF w
  <2>5. \A j \in 1..i : pos[m[j]] <= pos[m[i]]
    BY <1>1, <2>1, <2>3, <2>4 DEF OnTheWay
  <2>6. \A j \in 1..i : nxt[w[j]] = w[j + 1]
    BY <1>1, <2>1, <2>4 DEF OnTheWay
  <2>7. ASSUME NEW j \in 1..(i + 1), NEW k \in 1..(i + 1), j < k PROVE pos[w[j]] < pos[w[k]]
    <3>1. CASE k \in 1..i
      <4>1. j \in 1..i
        BY <2>7, <3>1
      <4> QED
        BY <2>1, <2>4, <2>7, <3>1, <4>1 DEF OnTheWay
    <3>2. CASE k = i + 1
      <4>1. j \in 1..i /\ w[j] = m[j] /\ m[j] \in S /\ w[k] = y /\ pos[m[j]] <= pos[m[i]]
        BY <2>4, <2>5, <2>7, <3>2
      <4>2. pos[m[i]] \in Int /\ pos[y] \in Int /\ pos[m[j]] \in Int
        BY <2>2, <2>3, <2>4, <4>1
      <4> QED
        BY <2>2, <4>1, <4>2
    <3> QED
      BY <2>7, <3>1, <3>2
  <2>8. ASSUME NEW x \in S, pos[x] <= pos[y] PROVE \E j \in 1..(i + 1) : w[j] = x
    <3>1. CASE pos[x] <= pos[m[i]]
      <4>1. PICK j \in 1..Len(m) : m[j] = x
        BY <2>1, <3>1 DEF OnTheWay
      <4> QED
        BY <2>1, <2>4, <4>1
    <3>2. CASE pos[y] <= pos[x]
      <4>1. x = y
        <5>1. pos[x] = pos[y]
          BY <2>2, <2>3, <2>8, <3>2
        <5> QED
          BY <2>2, <5>1 DEF InLine
      <4> QED
        BY <2>4, <4>1
    <3> QED
      BY <2>2, <3>1, <3>2
  <2>9. w[1] = first
    BY <1>1, <2>4
  <2>10. OnTheWay(w, i, S, pos, first, nxt)
    BY <2>4, <2>6, <2>7, <2>8, <2>9 DEF OnTheWay
  <2> QED
    BY <2>1, <2>10
<1> QED
  BY <1>2, <1>3

\* What a walk through a list meets: each member once, in order.
Meets(w, S, first, nxt) ==
  /\ w \in Seq(S) /\ IsInjective(w) /\ ToSet(w) = S /\ Len(w) = Cardinality(S)
  /\ S = {} => w = <<>>
  /\ S # {} => Len(w) > 0 /\ w[1] = first /\ nxt[w[Len(w)]] = Null
  /\ \A j \in 1..(Len(w) - 1) : nxt[w[j]] = w[j + 1]

\* A walk of as many steps as there are headers meets all members.
LEMMA WalkMeetsAll ==
  ASSUME NEW S, NEW n \in Nat, S \subseteq 1..n, NEW first, NEW nxt, OneWay(S, first, nxt),
         NEW F, Walks(F, first, nxt, n)
  PROVE  Meets(F[n], S, first, nxt)
<1>1. PICK pos : InLine(S, pos, first, nxt)
  BY DEF OneWay
<1> DEFINE Start == IF first = Null THEN <<>> ELSE <<first>>
<1>2. \A i \in 0..n : F[i] = IF i = 0 THEN Start ELSE Onward(F[i - 1], i, nxt)
  BY DEF Walks
<1>3. CASE S = {}
  <2>1. first = Null
    BY <1>1, <1>3 DEF InLine
  <2> DEFINE P == {i \in Nat : i <= n => F[i] = <<>>}
  <2>2. 0 \in P
    BY <1>2, <2>1
  <2>3. ASSUME NEW i \in Nat, i \in P PROVE i + 1 \in P
    <3>1. SUFFICES ASSUME i + 1 <= n PROVE F[i + 1] = <<>>
      OBVIOUS
    <3>2. F[i] = <<>> /\ F[i + 1] = Onward(F[i], i + 1, nxt)
      BY <1>2, <2>3, <3>1
    <3>3. Len(F[i]) < i + 1
      BY <3>2
    <3> QED
      BY <3>2, <3>3 DEF Onward
  <2> HIDE DEF P
  <2>4. Nat \subseteq P
    BY <2>2, <2>3, NumberInduction
  <2>5. F[n] = <<>>
    BY <2>4 DEF P
  <2>6. Len(F[n]) = 0 /\ F[n] \in Seq(S) /\ DOMAIN F[n] = {}
    BY <2>5
  <2>7. ToSet(F[n]) = {}
    BY <2>6 DEF ToSet
  <2>8. Cardinality(S) = 0
    BY <1>3, FS_EmptySet
  <2> QED
    BY <1>3, <2>5, <2>6, <2>7, <2>8 DEF Meets, IsInjective
<1>4. CASE S # {}
  <2>1. first \in S /\ first # Null /\ \A y \in S : pos[first] <= pos[y] /\ pos[y] \in Int
    BY <1>1, <1>4 DEF InLine
  <2> DEFINE P == {i \in Nat : i <= n => OnTheWay(F[i], i, S, pos, first, nxt)}
  <2>2. 0 \in P
    <3>1. F[0] = <<first>>
      BY <1>2, <2>1
    <3>2. <<first>> \in Seq(S) /\ Len(<<first>>) = 1 /\ <<first>>[1] = first
      BY <2>1
    <3>3. \A x \in S : pos[x] <= pos[first] => x = first
      BY <1>1, <2>1 DEF InLine
    <3>4. OnTheWay(<<first>>, 0, S, pos, first, nxt)
      BY <3>2, <3>3 DEF OnTheWay
    <3> QED
      BY <3>1, <3>4
  <2>3. ASSUME NEW i \in Nat, i \in P PROVE i + 1 \in P
    <3>1. SUFFICES ASSUME i + 1 <= n PROVE OnTheWay(F[i + 1], i + 1, S, pos, first, nxt)
      OBVIOUS
    <3>2. OnTheWay(F[i], i, S, pos, first, nxt) /\ F[i + 1] = Onward(F[i], i + 1, nxt)
      BY <1>2, <2>3, <3>1
    <3> DEFINE k == i + 1
    <3>3. k \in Nat \ {0} /\ k - 1 = i
      OBVIOUS
    <3> HIDE DEF k
    <3>4. OnTheWay(Onward(F[i], k, nxt), k, S, pos, first, nxt)
      BY <1>1, <3>2, <3>3, WalkGoesOn
    <3> QED
      BY <3>2, <3>4 DEF k
  <2> HIDE DEF P
  <2>4. Nat \subseteq P
    BY <2>2, <2>3, NumberInduction
  <2> DEFINE w == F[n]
  <2>5. OnTheWay(w, n, S, pos, first, nxt)
    BY <2>4 DEF P
  <2> HIDE DEF w
  <2>6. /\ w \in Seq(S) /\ Len(w) \in Nat /\ Len(w) >= 1 /\ Len(w) <= n + 1 /\ DOMAIN w = 1..Len(w)
        /\ \A j \in 1..Len(w) : w[j] \in S
    BY <2>5 DEF OnTheWay
  <2>7. ASSUME NEW j \in 1..Len(w), NEW k \in 1..Len(w), w[j] = w[k] PROVE j = k
    <3>1. j < k => pos[w[j]] < pos[w[k]]
      BY <2>5 DEF OnTheWay
    <3>2. k < j => pos[w[k]] < pos[w[j]]
      BY <2>5 DEF OnTheWay
    <3>3. pos[w[j]] \in Int
      BY <2>1, <2>6
    <3> QED
      BY <2>7, <3>1, <3>2, <3>3
  <2>8. IsInjective(w)
    BY <2>6, <2>7 DEF IsInjective
  <2>9. Len(w) <= n
    <3>1. IsFiniteSet(1..n) /\ Cardinality(1..n) = n
      BY FS_Interval
    <3>2. IsFiniteSet(S) /\ Cardinality(S) <= n
      BY <3>1, FS_Subset
    <3>3. IsFiniteSet(1..Len(w)) /\ Cardinality(1..Len(w)) = Len(w)
      BY <2>6, FS_Interval
    <3>4. w \in Injection(1..Len(w), S)
      BY <2>6, <2>7 DEF Injection, IsInjective
    <3>5. Cardinality(1..Len(w)) <= Cardinality(S)
      BY <3>2, <3>4, FS_Injection
    <3>6. Cardinality(S) \in Nat
      BY <3>2, FS_CardinalityType
    <3> QED
      BY <2>6, <3>2, <3>3, <3>5, <3>6
  <2>10. nxt[w[Len(w)]] = Null
    BY <2>5, <2>9 DEF OnTheWay
  <2>11. \A x \in S : \E j \in 1..Len(w) : w[j] = x
    <3>1. \A x \in S : pos[x] <= pos[w[Len(w)]]
      <4>1. w[Len(w)] \in S
        BY <2>6
      <4> QED
        BY <1>1, <2>10, <4>1 DEF InLine
    <3> QED
      BY <2>5, <3>1 DEF OnTheWay
  <2>12. ToSet(w) = S
    BY <2>6, <2>11 DEF ToSet
  <2>13. Len(w) = Cardinality(S)
    <3>1. w \in Bijection(1..Len(w), S)
      BY <2>6, <2>7, <2>11 DEF Bijection, Injection, Surjection, IsInjective
    <3>2. ExistsBijection(1..Len(w), S)
      BY <3>1 DEF ExistsBijection
    <3> QED
      BY <2>6, <3>2, FS_CountingElements
  <2>14. \A j \in 1..(Len(w) - 1) : nxt[w[j]] = w[j + 1]
    BY <2>5 DEF OnTheWay
  <2>15. Meets(w, S, first, nxt)
    <3>1. w[1] = first /\ Len(w) > 0
      BY <2>5, <2>6 DEF OnTheWay
    <3> QED
      BY <1>4, <2>6, <2>8, <2>10, <2>12, <2>13, <2>14, <3>1 DEF Meets
  <2> QED
    BY <2>15 DEF w
<1> QED
  BY <1>3, <1>4

\* Walk is such a walk.
LEMMA WalkMeets ==
  ASSUME Len(heap.header) \in Nat, NEW S, S \subseteq 1..Len(heap.header),
         NEW first, NEW nxt, OneWay(S, first, nxt)
  PROVE  Meets(Walk(first, nxt), S, first, nxt)
<1> DEFINE n == Len(heap.header)
           F == CHOOSE F : Walks(F, first, nxt, n)
<1>1. Walk(first, nxt) = F[n]
  BY DEF Walk, Walks, Onward
<1>2. \E G : Walks(G, first, nxt, n)
  BY WalkExists
<1>3. Walks(F, first, nxt, n)
  BY <1>2
<1> HIDE DEF F
<1> QED
  BY <1>1, <1>3, WalkMeetsAll

-----------------------------------------------------------------------------

(* Headers and heaps.                                                      *)

HeaderSet == [base : Nat, level : Levels, state : {"free", "inuse", "dead"},
              prev : Nat, next : Nat, prevInVs : Nat, nextInVs : Nat]

ListSet == [first : Nat, last : Nat, count : Int]

HeapSet == [header : Seq(HeaderSet), slabs : Nat, handedOut : Int,
            chain : [Arenas \cup {"pool"} -> ListSet], free : [Levels -> ListSet],
            firstOf : [Areas -> Nat]]

Live(s)  == {h \in DOMAIN s.header : s.header[h].state # "dead"}
Spare(s) == {h \in DOMAIN s.header : s.header[h].state = "dead"}
InUse(s) == {h \in DOMAIN s.header : s.header[h].state = "inuse"}

\* The chunks that belong into the free list of level l.  While one is cut or
\* merged it is in none: it is in X.
Idle(s, l, X) == {h \in DOMAIN s.header : Free(s, h) /\ s.header[h].level = l} \ X

Nexts(s) == [h \in DOMAIN s.header |-> s.header[h].next]
Prevs(s) == [h \in DOMAIN s.header |-> s.header[h].prev]

FreeLinked(s, X) ==
  \A l \in Levels :
    /\ TwoWay(Idle(s, l, X), s.free[l].first, s.free[l].last, Nexts(s), Prevs(s))
    /\ s.free[l].count = Cardinality(Idle(s, l, X))

PoolLinked(s) ==
  /\ OneWay(Spare(s), s.chain["pool"].first, Nexts(s))
  /\ s.chain["pool"].count = Cardinality(Spare(s))
  /\ s.handedOut = Cardinality(Live(s))
  /\ s.slabs = (Len(s.header) + SlabCapacity - 1) \div SlabCapacity

\* From s to t only the links of free lists change.
Relinked(s, t) ==
  /\ t \in HeapSet /\ Len(t.header) = Len(s.header) /\ DOMAIN t.header = DOMAIN s.header
  /\ t.slabs = s.slabs /\ t.handedOut = s.handedOut /\ t.chain = s.chain /\ t.firstOf = s.firstOf
  /\ \A x \in DOMAIN s.header :
       /\ t.header[x].base = s.header[x].base /\ t.header[x].level = s.header[x].level
       /\ t.header[x].state = s.header[x].state
       /\ t.header[x].prevInVs = s.header[x].prevInVs
       /\ t.header[x].nextInVs = s.header[x].nextInVs
       /\ ~Free(s, x) => t.header[x].prev = s.header[x].prev /\ t.header[x].next = s.header[x].next

\* From s to t nothing changes but header h.
Changed(s, t, h) ==
  /\ t \in HeapSet /\ Len(t.header) = Len(s.header) /\ DOMAIN t.header = DOMAIN s.header
  /\ t.slabs = s.slabs /\ t.handedOut = s.handedOut /\ t.chain = s.chain
  /\ t.free = s.free /\ t.firstOf = s.firstOf
  /\ \A x \in DOMAIN s.header \ {h} : t.header[x] = s.header[x]

\* A header is replaced.
LEMMA HeaderPut ==
  ASSUME NEW s \in HeapSet, NEW h \in DOMAIN s.header, NEW r \in HeaderSet, NEW t,
         t = [s EXCEPT !.header = [s.header EXCEPT ![h] = r]]
  PROVE  Changed(s, t, h) /\ t.header[h] = r
<1> DEFINE hs == [s.header EXCEPT ![h] = r]
<1>1. s.header \in Seq(HeaderSet)
  BY DEF HeapSet
<1>2. hs \in Seq(HeaderSet) /\ Len(hs) = Len(s.header) /\ DOMAIN hs = DOMAIN s.header
  BY <1>1, ExceptSeq
<1>3. hs[h] = r /\ \A x \in DOMAIN s.header \ {h} : hs[x] = s.header[x]
  OBVIOUS
<1> HIDE DEF hs
<1>4. t = [s EXCEPT !.header = hs]
  BY DEF hs
<1>5. t.header = hs /\ t \in HeapSet
  BY <1>2, <1>4 DEF HeapSet
<1>6. /\ t.slabs = s.slabs /\ t.handedOut = s.handedOut /\ t.chain = s.chain
      /\ t.free = s.free /\ t.firstOf = s.firstOf
  BY <1>4 DEF HeapSet
<1> QED
  BY <1>2, <1>3, <1>5, <1>6 DEF Changed

\* From s to t headers change only in the fields F, and nothing else.
SameFields(s, t, F) ==
  /\ t \in HeapSet /\ Len(t.header) = Len(s.header) /\ DOMAIN t.header = DOMAIN s.header
  /\ t.slabs = s.slabs /\ t.handedOut = s.handedOut /\ t.chain = s.chain
  /\ t.free = s.free /\ t.firstOf = s.firstOf
  /\ \A x \in DOMAIN s.header :
       /\ t.header[x].base = s.header[x].base
       /\ "level" \in F \/ t.header[x].level = s.header[x].level
       /\ "state" \in F \/ t.header[x].state = s.header[x].state
       /\ "prev" \in F \/ t.header[x].prev = s.header[x].prev
       /\ "next" \in F \/ t.header[x].next = s.header[x].next
       /\ "prevInVs" \in F \/ t.header[x].prevInVs = s.header[x].prevInVs
       /\ "nextInVs" \in F \/ t.header[x].nextInVs = s.header[x].nextInVs

\* The setters: one link of one header is set.
LEMMA SetNextPut ==
  ASSUME NEW s \in HeapSet, NEW h \in DOMAIN s.header \cup {Null}, NEW v \in Nat
  PROVE  /\ SameFields(s, SetNext(s, h, v), {"next"})
         /\ \A x \in DOMAIN s.header :
              SetNext(s, h, v).header[x].next = IF x = h THEN v ELSE s.header[x].next
<1> DEFINE t == SetNext(s, h, v)
<1>1. \A x \in DOMAIN s.header : x # Null /\ s.header[x] \in HeaderSet
  BY DEF HeapSet, Null
<1>2. CASE h = Null
  <2>1. t = s
    BY <1>2 DEF SetNext
  <2> QED
    BY <1>1, <1>2, <2>1 DEF SameFields
<1>3. CASE h # Null
  <2> DEFINE r == [s.header[h] EXCEPT !.next = v]
  <2>1. t = [s EXCEPT !.header = [s.header EXCEPT ![h] = r]]
    BY <1>3 DEF SetNext
  <2>2. h \in DOMAIN s.header /\ r \in HeaderSet
    BY <1>1, <1>3 DEF HeaderSet
  <2> HIDE DEF t, r
  <2>3. Changed(s, t, h) /\ t.header[h] = r
    BY <2>1, <2>2, HeaderPut
  <2>4. \A x \in DOMAIN s.header \ {h} : t.header[x] = s.header[x]
    BY <2>3 DEF Changed
  <2>5. s.header[h] \in HeaderSet
    BY <1>1, <2>2
  <2>6. r.next = v /\ r.base = s.header[h].base /\ r.level = s.header[h].level /\ r.state = s.header[h].state /\ r.prev = s.header[h].prev /\ r.prevInVs = s.header[h].prevInVs /\ r.nextInVs = s.header[h].nextInVs
    BY <2>5 DEF HeaderSet, r
  <2>7. SameFields(s, t, {"next"})
    BY <2>3, <2>4, <2>6 DEF Changed, SameFields
  <2> QED
    BY <2>3, <2>4, <2>6, <2>7 DEF t
<1> QED
  BY <1>2, <1>3

\* set_prev writes one link of one header.
LEMMA SetPrevPut ==
  ASSUME NEW s \in HeapSet, NEW h \in DOMAIN s.header \cup {Null}, NEW v \in Nat
  PROVE  /\ SameFields(s, SetPrev(s, h, v), {"prev"})
         /\ \A x \in DOMAIN s.header :
              SetPrev(s, h, v).header[x].prev = IF x = h THEN v ELSE s.header[x].prev
<1> DEFINE t == SetPrev(s, h, v)
<1>1. \A x \in DOMAIN s.header : x # Null /\ s.header[x] \in HeaderSet
  BY DEF HeapSet, Null
<1>2. CASE h = Null
  <2>1. t = s
    BY <1>2 DEF SetPrev
  <2> QED
    BY <1>1, <1>2, <2>1 DEF SameFields
<1>3. CASE h # Null
  <2> DEFINE r == [s.header[h] EXCEPT !.prev = v]
  <2>1. t = [s EXCEPT !.header = [s.header EXCEPT ![h] = r]]
    BY <1>3 DEF SetPrev
  <2>2. h \in DOMAIN s.header /\ r \in HeaderSet
    BY <1>1, <1>3 DEF HeaderSet
  <2> HIDE DEF t, r
  <2>3. Changed(s, t, h) /\ t.header[h] = r
    BY <2>1, <2>2, HeaderPut
  <2>4. \A x \in DOMAIN s.header \ {h} : t.header[x] = s.header[x]
    BY <2>3 DEF Changed
  <2>5. s.header[h] \in HeaderSet
    BY <1>1, <2>2
  <2>6. r.prev = v /\ r.base = s.header[h].base /\ r.level = s.header[h].level /\ r.state = s.header[h].state /\ r.next = s.header[h].next /\ r.prevInVs = s.header[h].prevInVs /\ r.nextInVs = s.header[h].nextInVs
    BY <2>5 DEF HeaderSet, r
  <2>7. SameFields(s, t, {"prev"})
    BY <2>3, <2>4, <2>6 DEF Changed, SameFields
  <2> QED
    BY <2>3, <2>4, <2>6, <2>7 DEF t
<1> QED
  BY <1>2, <1>3

\* set_next_in_vs writes one link of one header.
LEMMA SetNextInVsPut ==
  ASSUME NEW s \in HeapSet, NEW h \in DOMAIN s.header \cup {Null}, NEW v \in Nat
  PROVE  /\ SameFields(s, SetNextInVs(s, h, v), {"nextInVs"})
         /\ \A x \in DOMAIN s.header :
              SetNextInVs(s, h, v).header[x].nextInVs = IF x = h THEN v ELSE s.header[x].nextInVs
<1> DEFINE t == SetNextInVs(s, h, v)
<1>1. \A x \in DOMAIN s.header : x # Null /\ s.header[x] \in HeaderSet
  BY DEF HeapSet, Null
<1>2. CASE h = Null
  <2>1. t = s
    BY <1>2 DEF SetNextInVs
  <2> QED
    BY <1>1, <1>2, <2>1 DEF SameFields
<1>3. CASE h # Null
  <2> DEFINE r == [s.header[h] EXCEPT !.nextInVs = v]
  <2>1. t = [s EXCEPT !.header = [s.header EXCEPT ![h] = r]]
    BY <1>3 DEF SetNextInVs
  <2>2. h \in DOMAIN s.header /\ r \in HeaderSet
    BY <1>1, <1>3 DEF HeaderSet
  <2> HIDE DEF t, r
  <2>3. Changed(s, t, h) /\ t.header[h] = r
    BY <2>1, <2>2, HeaderPut
  <2>4. \A x \in DOMAIN s.header \ {h} : t.header[x] = s.header[x]
    BY <2>3 DEF Changed
  <2>5. s.header[h] \in HeaderSet
    BY <1>1, <2>2
  <2>6. r.nextInVs = v /\ r.base = s.header[h].base /\ r.level = s.header[h].level /\ r.state = s.header[h].state /\ r.prev = s.header[h].prev /\ r.next = s.header[h].next /\ r.prevInVs = s.header[h].prevInVs
    BY <2>5 DEF HeaderSet, r
  <2>7. SameFields(s, t, {"nextInVs"})
    BY <2>3, <2>4, <2>6 DEF Changed, SameFields
  <2> QED
    BY <2>3, <2>4, <2>6, <2>7 DEF t
<1> QED
  BY <1>2, <1>3

\* set_prev_in_vs writes one link of one header.
LEMMA SetPrevInVsPut ==
  ASSUME NEW s \in HeapSet, NEW h \in DOMAIN s.header \cup {Null}, NEW v \in Nat
  PROVE  /\ SameFields(s, SetPrevInVs(s, h, v), {"prevInVs"})
         /\ \A x \in DOMAIN s.header :
              SetPrevInVs(s, h, v).header[x].prevInVs = IF x = h THEN v ELSE s.header[x].prevInVs
<1> DEFINE t == SetPrevInVs(s, h, v)
<1>1. \A x \in DOMAIN s.header : x # Null /\ s.header[x] \in HeaderSet
  BY DEF HeapSet, Null
<1>2. CASE h = Null
  <2>1. t = s
    BY <1>2 DEF SetPrevInVs
  <2> QED
    BY <1>1, <1>2, <2>1 DEF SameFields
<1>3. CASE h # Null
  <2> DEFINE r == [s.header[h] EXCEPT !.prevInVs = v]
  <2>1. t = [s EXCEPT !.header = [s.header EXCEPT ![h] = r]]
    BY <1>3 DEF SetPrevInVs
  <2>2. h \in DOMAIN s.header /\ r \in HeaderSet
    BY <1>1, <1>3 DEF HeaderSet
  <2> HIDE DEF t, r
  <2>3. Changed(s, t, h) /\ t.header[h] = r
    BY <2>1, <2>2, HeaderPut
  <2>4. \A x \in DOMAIN s.header \ {h} : t.header[x] = s.header[x]
    BY <2>3 DEF Changed
  <2>5. s.header[h] \in HeaderSet
    BY <1>1, <2>2
  <2>6. r.prevInVs = v /\ r.base = s.header[h].base /\ r.level = s.header[h].level /\ r.state = s.header[h].state /\ r.prev = s.header[h].prev /\ r.next = s.header[h].next /\ r.nextInVs = s.header[h].nextInVs
    BY <2>5 DEF HeaderSet, r
  <2>7. SameFields(s, t, {"prevInVs"})
    BY <2>3, <2>4, <2>6 DEF Changed, SameFields
  <2> QED
    BY <2>3, <2>4, <2>6, <2>7 DEF t
<1> QED
  BY <1>2, <1>3

\* The state or the level of a header is set.
LEMMA StateSet ==
  ASSUME NEW s \in HeapSet, NEW h \in DOMAIN s.header, NEW v \in {"free", "inuse", "dead"}
  PROVE  LET t == [s EXCEPT !.header[h].state = v] IN
         /\ SameFields(s, t, {"state"})
         /\ \A x \in DOMAIN s.header : t.header[x].state = IF x = h THEN v ELSE s.header[x].state
<1> DEFINE r == [s.header[h] EXCEPT !.state = v]
           t == [s EXCEPT !.header = [s.header EXCEPT ![h] = r]]
<1>1. \A x \in DOMAIN s.header : s.header[x] \in HeaderSet
  BY DEF HeapSet
<1>2. r \in HeaderSet
  BY <1>1 DEF HeaderSet
<1>3. Changed(s, t, h) /\ t.header[h] = r
  <2> HIDE DEF r
  <2> QED
    BY <1>2, HeaderPut
<1>4. /\ r.state = v /\ r.base = s.header[h].base /\ r.level = s.header[h].level
      /\ r.prev = s.header[h].prev /\ r.next = s.header[h].next
      /\ r.prevInVs = s.header[h].prevInVs /\ r.nextInVs = s.header[h].nextInVs
  BY <1>1 DEF HeaderSet
<1> HIDE DEF r
<1>5. SameFields(s, t, {"state"})
  <2> HIDE DEF t
  <2> QED
    BY <1>3, <1>4 DEF Changed, SameFields
<1>6. \A x \in DOMAIN s.header : t.header[x].state = IF x = h THEN v ELSE s.header[x].state
  <2> HIDE DEF t
  <2> QED
    BY <1>3, <1>4 DEF Changed
<1> QED
  BY <1>5, <1>6 DEF r

\* set_level writes the level of one header.
LEMMA LevelSet ==
  ASSUME NEW s \in HeapSet, NEW h \in DOMAIN s.header, NEW v \in Levels
  PROVE  LET t == [s EXCEPT !.header[h].level = v] IN
         /\ SameFields(s, t, {"level"})
         /\ \A x \in DOMAIN s.header : t.header[x].level = IF x = h THEN v ELSE s.header[x].level
<1> DEFINE r == [s.header[h] EXCEPT !.level = v]
           t == [s EXCEPT !.header = [s.header EXCEPT ![h] = r]]
<1>1. \A x \in DOMAIN s.header : s.header[x] \in HeaderSet
  BY DEF HeapSet
<1>2. r \in HeaderSet
  BY <1>1 DEF HeaderSet
<1>3. Changed(s, t, h) /\ t.header[h] = r
  <2> HIDE DEF r
  <2> QED
    BY <1>2, HeaderPut
<1>4. /\ r.level = v /\ r.base = s.header[h].base /\ r.state = s.header[h].state
      /\ r.prev = s.header[h].prev /\ r.next = s.header[h].next
      /\ r.prevInVs = s.header[h].prevInVs /\ r.nextInVs = s.header[h].nextInVs
  BY <1>1 DEF HeaderSet
<1> HIDE DEF r
<1>5. SameFields(s, t, {"level"})
  <2> HIDE DEF t
  <2> QED
    BY <1>3, <1>4 DEF Changed, SameFields
<1>6. \A x \in DOMAIN s.header : t.header[x].level = IF x = h THEN v ELSE s.header[x].level
  <2> HIDE DEF t
  <2> QED
    BY <1>3, <1>4 DEF Changed
<1> QED
  BY <1>5, <1>6 DEF r

-----------------------------------------------------------------------------

\* One of the lists is set.
LEMMA FreePut ==
  ASSUME NEW s \in HeapSet, NEW l \in Levels, NEW list \in ListSet
  PROVE  LET t == [s EXCEPT !.free[l] = list] IN
         /\ t \in HeapSet /\ t.header = s.header /\ t.slabs = s.slabs
         /\ t.handedOut = s.handedOut /\ t.chain = s.chain /\ t.firstOf = s.firstOf
         /\ t.free[l] = list /\ \A k \in Levels \ {l} : t.free[k] = s.free[k]
<1>1. s.free \in [Levels -> ListSet]
  BY DEF HeapSet
<1>2. [s.free EXCEPT ![l] = list] \in [Levels -> ListSet]
  BY <1>1
<1> QED
  BY <1>1, <1>2 DEF HeapSet

\* Free lists without the chunks in hand are finite sets of headers.
LEMMA IdleFacts ==
  ASSUME NEW s \in HeapSet, NEW X, NEW l \in Levels
  PROVE  /\ IsFiniteSet(Idle(s, l, X))
         /\ Idle(s, l, X) \subseteq Nat \ {Null}
         /\ Idle(s, l, X) \subseteq DOMAIN s.header
         /\ DOMAIN s.header = 1..Len(s.header) /\ Len(s.header) \in Nat
         /\ s.free[l] \in ListSet
<1>1. s.header \in Seq(HeaderSet) /\ s.free \in [Levels -> ListSet]
  BY DEF HeapSet
<1>2. DOMAIN s.header = 1..Len(s.header) /\ Len(s.header) \in Nat
  BY <1>1
<1>3. Idle(s, l, X) \subseteq 1..Len(s.header)
  BY <1>2 DEF Idle
<1>4. IsFiniteSet(1..Len(s.header))
  BY <1>2, FS_Interval
<1>5. IsFiniteSet(Idle(s, l, X))
  BY <1>3, <1>4, FS_Subset
<1> QED
  BY <1>1, <1>2, <1>3, <1>5 DEF Null

\* The fields of a header.
LEMMA HeaderFields ==
  ASSUME NEW s \in HeapSet, NEW h \in DOMAIN s.header
  PROVE  /\ h \in Nat \ {Null} /\ h # Null
         /\ s.header[h].base \in Nat /\ s.header[h].level \in Levels
         /\ s.header[h].prev \in Nat /\ s.header[h].next \in Nat
         /\ s.header[h].prevInVs \in Nat /\ s.header[h].nextInVs \in Nat
         /\ s.header[h].state \in {"free", "inuse", "dead"}
         /\ Nexts(s)[h] = s.header[h].next /\ Prevs(s)[h] = s.header[h].prev
<1>1. s.header \in Seq(HeaderSet)
  BY DEF HeapSet
<1>2. s.header[h] \in HeaderSet /\ h \in Nat \ {Null}
  BY <1>1 DEF Null
<1> QED
  BY <1>2 DEF HeaderSet, Nexts, Prevs

\* Lists whose members and their links do not change stay.
LEMMA FreeLinkedSame ==
  ASSUME NEW s \in HeapSet, NEW X, FreeLinked(s, X), NEW t \in HeapSet, NEW Y, t.free = s.free,
         DOMAIN s.header \subseteq DOMAIN t.header,
         \A l \in Levels : Idle(t, l, Y) = Idle(s, l, X),
         \A l \in Levels : \A x \in Idle(s, l, X) : /\ t.header[x].next = s.header[x].next
                                                    /\ t.header[x].prev = s.header[x].prev
  PROVE  FreeLinked(t, Y)
<1> SUFFICES ASSUME NEW l \in Levels
             PROVE  /\ TwoWay(Idle(t, l, Y), t.free[l].first, t.free[l].last, Nexts(t), Prevs(t))
                    /\ t.free[l].count = Cardinality(Idle(t, l, Y))
  BY DEF FreeLinked
<1> DEFINE S == Idle(s, l, X)
<1>1. TwoWay(S, s.free[l].first, s.free[l].last, Nexts(s), Prevs(s)) /\ s.free[l].count = Cardinality(S)
  BY DEF FreeLinked
<1>2. \A x \in S : Nexts(t)[x] = Nexts(s)[x] /\ Prevs(t)[x] = Prevs(s)[x]
  BY DEF Nexts, Prevs, Idle
<1> HIDE DEF S
<1>3. TwoWay(S, s.free[l].first, s.free[l].last, Nexts(t), Prevs(t))
  BY <1>1, <1>2, TwoWaySame
<1> QED
  BY <1>1, <1>3 DEF S

\* A chunk is taken out of its list.
LEMMA DelistKeeps ==
  ASSUME NEW s \in HeapSet, NEW X, FreeLinked(s, X),
         NEW h \in DOMAIN s.header, Free(s, h), h \notin X
  PROVE  Relinked(s, Delist(s, h)) /\ FreeLinked(Delist(s, h), X \cup {h})
<1> DEFINE l    == s.header[h].level
           S    == Idle(s, l, X)
           pred == s.header[h].prev
           succ == s.header[h].next
           a == SetNext(s, pred, succ)
           b == SetPrev(a, succ, pred)
           fst == IF s.free[l].first = h THEN succ ELSE s.free[l].first
           lst == IF s.free[l].last = h THEN pred ELSE s.free[l].last
           list == [first |-> fst, last |-> lst, count |-> s.free[l].count - 1]
           c == [b EXCEPT !.free[l] = list]
           d == SetPrev(c, h, Null)
           t == SetNext(d, h, Null)
<1>1. l \in Levels /\ h \in S /\ pred \in Nat /\ succ \in Nat /\ h # Null
  BY HeaderFields DEF Idle
<1>2. /\ IsFiniteSet(S) /\ S \subseteq Nat \ {Null} /\ S \subseteq DOMAIN s.header
      /\ s.free[l] \in ListSet
  BY <1>1, IdleFacts
<1>3. TwoWay(S, s.free[l].first, s.free[l].last, Nexts(s), Prevs(s))
  BY <1>1 DEF FreeLinked
<1>4. Nexts(s)[h] = succ /\ Prevs(s)[h] = pred
  BY HeaderFields
<1>5. /\ pred \in S \cup {Null} /\ succ \in S \cup {Null} /\ pred # h /\ succ # h
  <2> HIDE DEF S, pred, succ
  <2> QED
    BY <1>1, <1>3, <1>4, Ends
<1>6. ASSUME NEW x \in DOMAIN s.header
      PROVE  /\ x \in S => Free(s, x) /\ s.header[x].level = l
             /\ Free(s, x) <=> s.header[x].state = "free"
  BY DEF S, Idle, Free
<1>7. Delist(s, h) = t
  BY DEF Delist
<1> HIDE DEF l, S, pred, succ
<1>8. /\ SameFields(s, a, {"next"})
      /\ \A x \in DOMAIN s.header : a.header[x].next = IF x = pred THEN succ ELSE s.header[x].next
  <2>1. pred \in DOMAIN s.header \cup {Null}
    BY <1>2, <1>5
  <2> QED
    BY <1>1, <2>1, SetNextPut
<1> HIDE DEF a
<1>9. a \in HeapSet /\ DOMAIN a.header = DOMAIN s.header
  BY <1>8 DEF SameFields
<1>10. /\ SameFields(a, b, {"prev"})
       /\ \A x \in DOMAIN s.header : b.header[x].prev = IF x = succ THEN pred ELSE a.header[x].prev
  <2>1. succ \in DOMAIN a.header \cup {Null}
    BY <1>2, <1>5, <1>9
  <2>2. /\ SameFields(a, b, {"prev"})
        /\ \A x \in DOMAIN a.header : b.header[x].prev = IF x = succ THEN pred ELSE a.header[x].prev
    BY <1>1, <1>9, <2>1, SetPrevPut
  <2> QED
    BY <1>9, <2>2
<1> HIDE DEF b
<1>11. b \in HeapSet /\ DOMAIN b.header = DOMAIN s.header
  BY <1>9, <1>10 DEF SameFields
<1>12. list \in ListSet
  BY <1>1, <1>2 DEF ListSet
<1> HIDE DEF list
<1>13. /\ c \in HeapSet /\ c.header = b.header /\ c.slabs = b.slabs
       /\ c.handedOut = b.handedOut /\ c.chain = b.chain /\ c.firstOf = b.firstOf
       /\ c.free[l] = list /\ \A k \in Levels \ {l} : c.free[k] = b.free[k]
  BY <1>1, <1>11, <1>12, FreePut
<1> HIDE DEF c
<1>14. /\ SameFields(c, d, {"prev"})
       /\ \A x \in DOMAIN s.header : d.header[x].prev = IF x = h THEN Null ELSE c.header[x].prev
  BY <1>11, <1>13, SetPrevPut DEF Null
<1> HIDE DEF d
<1>15. d \in HeapSet /\ DOMAIN d.header = DOMAIN s.header
  BY <1>11, <1>13, <1>14 DEF SameFields
<1>16. /\ SameFields(d, t, {"next"})
       /\ \A x \in DOMAIN s.header : t.header[x].next = IF x = h THEN Null ELSE d.header[x].next
  BY <1>15, SetNextPut DEF Null
<1> HIDE DEF t
<1>17. /\ t \in HeapSet /\ Len(t.header) = Len(s.header) /\ DOMAIN t.header = DOMAIN s.header
       /\ t.slabs = s.slabs /\ t.handedOut = s.handedOut /\ t.chain = s.chain
       /\ t.firstOf = s.firstOf /\ t.free[l] = list /\ \A k \in Levels \ {l} : t.free[k] = s.free[k]
  BY <1>8, <1>10, <1>13, <1>14, <1>16 DEF SameFields
<1>18. ASSUME NEW x \in DOMAIN s.header
       PROVE  /\ t.header[x].base = s.header[x].base /\ t.header[x].level = s.header[x].level
              /\ t.header[x].state = s.header[x].state
              /\ t.header[x].prevInVs = s.header[x].prevInVs
              /\ t.header[x].nextInVs = s.header[x].nextInVs
              /\ x # h => t.header[x].next = IF x = pred THEN succ ELSE s.header[x].next
              /\ x # h => t.header[x].prev = IF x = succ THEN pred ELSE s.header[x].prev
  BY <1>8, <1>9, <1>10, <1>11, <1>13, <1>14, <1>15, <1>16 DEF SameFields
<1>19. Relinked(s, t)
  <2>1. \A x \in DOMAIN s.header : x # Null
    BY HeaderFields
  <2>2. \A x \in DOMAIN s.header : ~Free(s, x) => x \notin {h, pred, succ}
    BY <1>5, <1>6, <2>1
  <2> QED
    BY <1>17, <1>18, <2>2 DEF Relinked
<1>20. ASSUME NEW k \in Levels
       PROVE  Idle(t, k, X \cup {h}) = IF k = l THEN S \ {h} ELSE Idle(s, k, X)
  BY <1>17, <1>18 DEF Idle, Free, l, S
<1>21. ASSUME NEW x \in DOMAIN s.header
       PROVE  /\ Nexts(t)[x] = t.header[x].next /\ Nexts(s)[x] = s.header[x].next
              /\ Prevs(t)[x] = t.header[x].prev /\ Prevs(s)[x] = s.header[x].prev
  BY <1>17 DEF Nexts, Prevs
<1>22. ASSUME NEW k \in Levels
       PROVE  /\ TwoWay(Idle(t, k, X \cup {h}), t.free[k].first, t.free[k].last, Nexts(t), Prevs(t))
              /\ t.free[k].count = Cardinality(Idle(t, k, X \cup {h}))
  <2>1. CASE k = l
    <3>1. t.free[k] = list /\ Idle(t, k, X \cup {h}) = S \ {h}
      BY <1>17, <1>20, <2>1
    <3>2. \A x \in S \ {h} :
            /\ Nexts(t)[x] = IF x = Prevs(s)[h] THEN Nexts(s)[h] ELSE Nexts(s)[x]
            /\ Prevs(t)[x] = IF x = Nexts(s)[h] THEN Prevs(s)[h] ELSE Prevs(s)[x]
      BY <1>2, <1>4, <1>18, <1>21
    <3>3. TwoWay(S \ {h}, IF s.free[l].first = h THEN Nexts(s)[h] ELSE s.free[l].first,
                 IF s.free[l].last = h THEN Prevs(s)[h] ELSE s.free[l].last, Nexts(t), Prevs(t))
      <4> DEFINE f0 == s.free[l].first
                 l0 == s.free[l].last
                 n0 == Nexts(s)
                 p0 == Prevs(s)
                 n1 == Nexts(t)
                 p1 == Prevs(t)
      <4>1. TwoWay(S, f0, l0, n0, p0)
        BY <1>3
      <4>2. \A x \in S \ {h} : /\ n1[x] = IF x = p0[h] THEN n0[h] ELSE n0[x]
                               /\ p1[x] = IF x = n0[h] THEN p0[h] ELSE p0[x]
        BY <3>2
      <4> HIDE DEF f0, l0, n0, p0, n1, p1
      <4>3. TwoWay(S \ {h}, IF f0 = h THEN n0[h] ELSE f0, IF l0 = h THEN p0[h] ELSE l0, n1, p1)
        BY <1>1, <4>1, <4>2, TwoWayWithout, ZenonT(60)
      <4> QED
        BY <4>3 DEF f0, l0, n0, p0, n1, p1
    <3>4. TwoWay(S \ {h}, list.first, list.last, Nexts(t), Prevs(t))
      BY <1>4, <3>3 DEF list
    <3>5. s.free[l].count = Cardinality(S)
      BY <1>1 DEF FreeLinked, S
    <3>6. Cardinality(S \ {h}) = Cardinality(S) - 1
      BY <1>1, <1>2, FS_RemoveElement
    <3>7. list.count = s.free[l].count - 1
      BY DEF list
    <3> QED
      BY <3>1, <3>4, <3>5, <3>6, <3>7
  <2>2. CASE k # l
    <3>1. t.free[k] = s.free[k] /\ Idle(t, k, X \cup {h}) = Idle(s, k, X)
      BY <1>17, <1>20, <2>2
    <3>2. \A x \in Idle(s, k, X) : x \in DOMAIN s.header /\ x # Null /\ x \notin S
      BY <2>2, HeaderFields DEF Idle, S
    <3>3. \A x \in Idle(s, k, X) : Nexts(t)[x] = Nexts(s)[x] /\ Prevs(t)[x] = Prevs(s)[x]
      BY <1>1, <1>5, <1>18, <1>21, <3>2
    <3>4. /\ TwoWay(Idle(s, k, X), s.free[k].first, s.free[k].last, Nexts(s), Prevs(s))
          /\ s.free[k].count = Cardinality(Idle(s, k, X))
      BY DEF FreeLinked
    <3>5. TwoWay(Idle(s, k, X), s.free[k].first, s.free[k].last, Nexts(t), Prevs(t))
      BY <3>3, <3>4, TwoWaySame
    <3> QED
      BY <3>1, <3>4, <3>5
  <2> QED
    BY <2>1, <2>2
<1>23. FreeLinked(t, X \cup {h})
  BY <1>22 DEF FreeLinked
<1> QED
  BY <1>7, <1>19, <1>23

-----------------------------------------------------------------------------

\* A chunk in hand, whose links are cleared, comes to one end of its list.
LEMMA AttachKeeps ==
  ASSUME NEW s \in HeapSet, NEW X, FreeLinked(s, X), NEW place \in Places,
         NEW h \in DOMAIN s.header, Free(s, h), h \in X,
         s.header[h].next = Null, s.header[h].prev = Null
  PROVE  Relinked(s, Attach(s, h, place)) /\ FreeLinked(Attach(s, h, place), X \ {h})
<1> DEFINE l     == s.header[h].level
           S     == Idle(s, l, X)
           first == s.free[l].first
           last  == s.free[l].last
           front == place = "front"
           none  == first = Null
           a == SetPrev(SetNext(s, h, first), first, h)
           b == SetNext(SetPrev(s, h, last), last, h)
           c == IF none THEN s ELSE IF front THEN a ELSE b
           list == [first |-> IF none \/ front THEN h ELSE first,
                    last  |-> IF none \/ place = "back" THEN h ELSE last,
                    count |-> s.free[l].count + 1]
           t == [c EXCEPT !.free[l] = list]
<1>1. l \in Levels /\ h \notin S /\ h \in Nat \ {Null} /\ h # Null
  BY HeaderFields DEF Idle
<1>2. /\ IsFiniteSet(S) /\ S \subseteq Nat \ {Null} /\ S \subseteq DOMAIN s.header
      /\ s.free[l] \in ListSet
  BY <1>1, IdleFacts
<1>3. TwoWay(S, first, last, Nexts(s), Prevs(s)) /\ s.free[l].count = Cardinality(S)
  BY <1>1 DEF FreeLinked
<1>4. /\ S = {} <=> none
      /\ ~none => first \in S /\ last \in S
      /\ ~none => Prevs(s)[first] = Null /\ Nexts(s)[last] = Null
  <2> HIDE DEF S, first, last
  <2> QED
    BY <1>3, Ends DEF none
<1>5. ASSUME NEW x \in DOMAIN s.header
      PROVE  /\ x \in S => Free(s, x) /\ s.header[x].level = l
             /\ Free(s, x) <=> s.header[x].state = "free"
  BY DEF S, Idle, Free
<1>6. Attach(s, h, place) = t
  BY DEF Attach
<1>7. first \in Nat /\ last \in Nat
  BY <1>2 DEF ListSet
<1> HIDE DEF l, S, first, last, none
\* The links of the chunk and of the one that was at this end.
<1>8. /\ SameFields(s, c, {"next", "prev"})
      /\ \A x \in DOMAIN s.header :
           /\ c.header[x].next = IF none THEN s.header[x].next
                                 ELSE IF front /\ x = h THEN first
                                 ELSE IF ~front /\ x = last THEN h ELSE s.header[x].next
           /\ c.header[x].prev = IF none THEN s.header[x].prev
                                 ELSE IF front /\ x = first THEN h
                                 ELSE IF ~front /\ x = h THEN last ELSE s.header[x].prev
  <2>1. CASE none
    BY <2>1 DEF SameFields
  <2>2. CASE ~none /\ front
    <3> DEFINE d == SetNext(s, h, first)
    <3>1. /\ SameFields(s, d, {"next"})
          /\ \A x \in DOMAIN s.header : d.header[x].next = IF x = h THEN first ELSE s.header[x].next
      BY <1>7, SetNextPut
    <3>2. c = SetPrev(d, first, h)
      BY <2>2
    <3> HIDE DEF d, c
    <3>3. d \in HeapSet /\ DOMAIN d.header = DOMAIN s.header /\ first \in DOMAIN d.header \cup {Null}
      BY <1>2, <1>4, <2>2, <3>1 DEF SameFields
    <3>4. /\ SameFields(d, c, {"prev"})
          /\ \A x \in DOMAIN d.header : c.header[x].prev = IF x = first THEN h ELSE d.header[x].prev
      <4>1. /\ SameFields(d, SetPrev(d, first, h), {"prev"})
            /\ \A x \in DOMAIN d.header :
                 SetPrev(d, first, h).header[x].prev = IF x = first THEN h ELSE d.header[x].prev
        BY <1>1, <3>3, SetPrevPut, ZenonT(60)
      <4> QED
        BY <3>2, <4>1
    <3> QED
      BY <2>2, <3>1, <3>3, <3>4 DEF SameFields
  <2>3. CASE ~none /\ ~front
    <3> DEFINE d == SetPrev(s, h, last)
    <3>1. /\ SameFields(s, d, {"prev"})
          /\ \A x \in DOMAIN s.header : d.header[x].prev = IF x = h THEN last ELSE s.header[x].prev
      BY <1>7, SetPrevPut
    <3>2. c = SetNext(d, last, h)
      BY <2>3
    <3> HIDE DEF d, c
    <3>3. d \in HeapSet /\ DOMAIN d.header = DOMAIN s.header /\ last \in DOMAIN d.header \cup {Null}
      BY <1>2, <1>4, <2>3, <3>1 DEF SameFields
    <3>4. /\ SameFields(d, c, {"next"})
          /\ \A x \in DOMAIN d.header : c.header[x].next = IF x = last THEN h ELSE d.header[x].next
      <4>1. /\ SameFields(d, SetNext(d, last, h), {"next"})
            /\ \A x \in DOMAIN d.header :
                 SetNext(d, last, h).header[x].next = IF x = last THEN h ELSE d.header[x].next
        BY <1>1, <3>3, SetNextPut, ZenonT(60)
      <4> QED
        BY <3>2, <4>1
    <3> QED
      BY <2>3, <3>1, <3>3, <3>4 DEF SameFields
  <2> QED
    BY <2>1, <2>2, <2>3
<1> HIDE DEF c
<1>9. c \in HeapSet /\ DOMAIN c.header = DOMAIN s.header
  BY <1>8 DEF SameFields
<1>10. list \in ListSet
  BY <1>1, <1>2, <1>7 DEF ListSet
<1>11. /\ list.first = IF none \/ front THEN h ELSE first
       /\ list.last = IF none \/ place = "back" THEN h ELSE last
       /\ list.count = Cardinality(S) + 1
  BY <1>3 DEF list
<1>24. place = "back" <=> ~front
  BY DEF Places
<1> HIDE DEF list
<1>12. /\ t \in HeapSet /\ t.header = c.header /\ t.slabs = c.slabs
       /\ t.handedOut = c.handedOut /\ t.chain = c.chain /\ t.firstOf = c.firstOf
       /\ t.free[l] = list /\ \A k \in Levels \ {l} : t.free[k] = c.free[k]
  BY <1>1, <1>9, <1>10, FreePut
<1> HIDE DEF t
<1>13. /\ t \in HeapSet /\ Len(t.header) = Len(s.header) /\ DOMAIN t.header = DOMAIN s.header
       /\ t.slabs = s.slabs /\ t.handedOut = s.handedOut /\ t.chain = s.chain
       /\ t.firstOf = s.firstOf /\ t.free[l] = list /\ \A k \in Levels \ {l} : t.free[k] = s.free[k]
  BY <1>8, <1>12 DEF SameFields
<1>14. ASSUME NEW x \in DOMAIN s.header
       PROVE  /\ t.header[x].base = s.header[x].base /\ t.header[x].level = s.header[x].level
              /\ t.header[x].state = s.header[x].state
              /\ t.header[x].prevInVs = s.header[x].prevInVs
              /\ t.header[x].nextInVs = s.header[x].nextInVs
  BY <1>8, <1>12 DEF SameFields
<1>15. Relinked(s, t)
  <2>1. \A x \in DOMAIN s.header : ~Free(s, x) => x # h /\ (~none => x # first /\ x # last)
    BY <1>4, <1>5
  <2>2. \A x \in DOMAIN s.header :
          ~Free(s, x) => t.header[x].prev = s.header[x].prev /\ t.header[x].next = s.header[x].next
    BY <1>8, <1>12, <2>1
  <2> QED
    BY <1>13, <1>14, <2>2 DEF Relinked
<1>16. ASSUME NEW k \in Levels
       PROVE  Idle(t, k, X \ {h}) = IF k = l THEN S \cup {h} ELSE Idle(s, k, X)
  BY <1>13, <1>14 DEF Idle, Free, l, S
<1>17. ASSUME NEW x \in DOMAIN s.header
       PROVE  /\ Nexts(t)[x] = t.header[x].next /\ Nexts(s)[x] = s.header[x].next
              /\ Prevs(t)[x] = t.header[x].prev /\ Prevs(s)[x] = s.header[x].prev
  BY <1>13 DEF Nexts, Prevs
<1>18. ASSUME NEW x \in DOMAIN s.header
       PROVE  /\ Nexts(t)[x] = IF none THEN Nexts(s)[x] ELSE IF front /\ x = h THEN first
                               ELSE IF ~front /\ x = last THEN h ELSE Nexts(s)[x]
              /\ Prevs(t)[x] = IF none THEN Prevs(s)[x] ELSE IF front /\ x = first THEN h
                               ELSE IF ~front /\ x = h THEN last ELSE Prevs(s)[x]
  BY <1>8, <1>12, <1>17
<1>19. Nexts(s)[h] = Null /\ Prevs(s)[h] = Null
  BY <1>17
<1>20. Cardinality(S \cup {h}) = Cardinality(S) + 1
  BY <1>1, <1>2, FS_AddElement
<1>21. TwoWay(S \cup {h}, list.first, IF none \/ ~front THEN h ELSE last, Nexts(t), Prevs(t))
  <2> DEFINE n0 == Nexts(s)
             p0 == Prevs(s)
             n1 == Nexts(t)
             p1 == Prevs(t)
  <2> HIDE DEF n0, p0, n1, p1
  <2>1. TwoWay(S, first, last, n0, p0)
    BY <1>3 DEF n0, p0
  <2>2. ASSUME NEW x \in DOMAIN s.header
        PROVE  /\ n1[x] = IF none THEN n0[x] ELSE IF front /\ x = h THEN first
                          ELSE IF ~front /\ x = last THEN h ELSE n0[x]
               /\ p1[x] = IF none THEN p0[x] ELSE IF front /\ x = first THEN h
                          ELSE IF ~front /\ x = h THEN last ELSE p0[x]
    BY <1>18 DEF n0, p0, n1, p1
  <2>3. n0[h] = Null /\ p0[h] = Null
    BY <1>19 DEF n0, p0
  <2>4. CASE none
    <3>1. n1[h] = Null /\ p1[h] = Null
      BY <2>2, <2>3, <2>4
    <3>2. TwoWay({h}, h, h, n1, p1)
      BY <1>1, <3>1, TwoWayOnly
    <3>3. S \cup {h} = {h}
      BY <1>4, <2>4
    <3> QED
      BY <1>11, <2>4, <3>2, <3>3 DEF n1, p1
  <2>5. CASE ~none /\ front
    <3>1. n1[h] = first /\ p1[first] = h /\ p1[h] = Null
      <4>1. h # first /\ first \in DOMAIN s.header
        BY <1>1, <1>2, <1>4, <2>5
      <4> QED
        BY <2>2, <2>3, <2>5, <4>1
    <3>2. /\ \A x \in S : n1[x] = n0[x]
          /\ \A x \in S \ {first} : p1[x] = p0[x]
      BY <1>1, <1>2, <2>2, <2>5
    <3>3. TwoWay(S \cup {h}, h, last, n1, p1)
      BY <1>1, <1>4, <2>1, <2>5, <3>1, <3>2, TwoWayFront
    <3> QED
      BY <1>11, <2>5, <3>3 DEF n1, p1
  <2>6. CASE ~none /\ ~front
    <3>1. p1[h] = last /\ n1[last] = h /\ n1[h] = Null
      <4>1. h # last /\ last \in DOMAIN s.header
        BY <1>1, <1>2, <1>4, <2>6
      <4> QED
        BY <2>2, <2>3, <2>6, <4>1
    <3>2. /\ \A x \in S \ {last} : n1[x] = n0[x]
          /\ \A x \in S : p1[x] = p0[x]
      BY <1>1, <1>2, <2>2, <2>6
    <3>3. TwoWay(S \cup {h}, first, h, n1, p1)
      BY <1>1, <1>4, <2>1, <2>6, <3>1, <3>2, TwoWayBack
    <3> QED
      BY <1>11, <2>6, <3>3 DEF n1, p1
  <2> QED
    BY <2>4, <2>5, <2>6
<1>22. ASSUME NEW k \in Levels
       PROVE  /\ TwoWay(Idle(t, k, X \ {h}), t.free[k].first, t.free[k].last, Nexts(t), Prevs(t))
              /\ t.free[k].count = Cardinality(Idle(t, k, X \ {h}))
  <2>1. CASE k = l
    <3>1. t.free[k] = list /\ Idle(t, k, X \ {h}) = S \cup {h}
      BY <1>13, <1>16, <2>1
    <3>2. list.last = IF none \/ ~front THEN h ELSE last
      BY <1>11, <1>24
    <3> QED
      BY <1>11, <1>20, <1>21, <3>1, <3>2
  <2>2. CASE k # l
    <3>1. t.free[k] = s.free[k] /\ Idle(t, k, X \ {h}) = Idle(s, k, X)
      BY <1>13, <1>16, <2>2
    <3>2. \A x \in Idle(s, k, X) : x \in DOMAIN s.header /\ x # h /\ x \notin S
      BY <2>2 DEF Idle, S
    <3>3. \A x \in Idle(s, k, X) : Nexts(t)[x] = Nexts(s)[x] /\ Prevs(t)[x] = Prevs(s)[x]
      BY <1>4, <1>18, <3>2
    <3>4. /\ TwoWay(Idle(s, k, X), s.free[k].first, s.free[k].last, Nexts(s), Prevs(s))
          /\ s.free[k].count = Cardinality(Idle(s, k, X))
      BY DEF FreeLinked
    <3>5. TwoWay(Idle(s, k, X), s.free[k].first, s.free[k].last, Nexts(t), Prevs(t))
      BY <3>3, <3>4, TwoWaySame
    <3> QED
      BY <3>1, <3>4, <3>5
  <2> QED
    BY <2>1, <2>2
<1>23. FreeLinked(t, X \ {h})
  BY <1>22 DEF FreeLinked
<1> QED
  BY <1>6, <1>15, <1>23

\* A chunk in hand comes to its list.
LEMMA EnlistKeeps ==
  ASSUME NEW s \in HeapSet, NEW X, FreeLinked(s, X), NEW place \in Places,
         NEW h \in DOMAIN s.header, Free(s, h), h \in X
  PROVE  Relinked(s, Enlist(s, h, place)) /\ FreeLinked(Enlist(s, h, place), X \ {h})
<1> DEFINE a == SetPrev(s, h, Null)
           b == SetNext(a, h, Null)
           t == Attach(b, h, place)
<1>1. /\ SameFields(s, a, {"prev"})
      /\ \A x \in DOMAIN s.header : a.header[x].prev = IF x = h THEN Null ELSE s.header[x].prev
  BY SetPrevPut DEF Null
<1> HIDE DEF a
<1>2. a \in HeapSet /\ DOMAIN a.header = DOMAIN s.header
  BY <1>1 DEF SameFields
<1>3. /\ SameFields(a, b, {"next"})
      /\ \A x \in DOMAIN a.header : b.header[x].next = IF x = h THEN Null ELSE a.header[x].next
  BY <1>2, SetNextPut DEF Null
<1>4. Enlist(s, h, place) = t
  BY DEF Enlist, a
<1> HIDE DEF b
<1>5. /\ b \in HeapSet /\ DOMAIN b.header = DOMAIN s.header /\ b.free = s.free
      /\ \A x \in DOMAIN s.header :
           /\ b.header[x].state = s.header[x].state /\ b.header[x].level = s.header[x].level
           /\ x # h => b.header[x].next = s.header[x].next /\ b.header[x].prev = s.header[x].prev
      /\ b.header[h].next = Null /\ b.header[h].prev = Null
  BY <1>1, <1>2, <1>3 DEF SameFields
<1>6. \A l \in Levels : Idle(b, l, X) = Idle(s, l, X)
  BY <1>5 DEF Idle, Free
<1>7. \A l \in Levels : \A x \in Idle(s, l, X) : x \in DOMAIN s.header /\ x # h
  BY DEF Idle
<1>8. FreeLinked(b, X)
  BY <1>5, <1>6, <1>7, FreeLinkedSame
<1>9. Free(b, h) /\ h \in DOMAIN b.header
  BY <1>5 DEF Free
<1> HIDE DEF t
<1>10. Relinked(b, t) /\ FreeLinked(t, X \ {h})
  BY <1>5, <1>8, <1>9, AttachKeeps DEF t
<1>11. Relinked(s, t)
  <2>1. \A x \in DOMAIN s.header : Free(s, x) <=> Free(b, x)
    BY <1>5 DEF Free
  <2>2. \A x \in DOMAIN s.header : ~Free(s, x) => x # h
    OBVIOUS
  <2>3. SameFields(s, b, {"next", "prev"})
    BY <1>1, <1>3 DEF SameFields
  <2> QED
    BY <1>5, <1>10, <2>1, <2>2, <2>3 DEF Relinked, SameFields
<1> QED
  BY <1>4, <1>10, <1>11

-----------------------------------------------------------------------------

\* From s to t only links of list o and its ends change.
Chained(s, t, o) ==
  /\ t \in HeapSet /\ Len(t.header) = Len(s.header) /\ DOMAIN t.header = DOMAIN s.header
  /\ t.slabs = s.slabs /\ t.handedOut = s.handedOut /\ t.free = s.free /\ t.firstOf = s.firstOf
  /\ \A p \in (Arenas \cup {"pool"}) \ {o} : t.chain[p] = s.chain[p]
  /\ \A x \in DOMAIN s.header :
       /\ t.header[x].base = s.header[x].base /\ t.header[x].level = s.header[x].level
       /\ t.header[x].state = s.header[x].state
       /\ t.header[x].prevInVs = s.header[x].prevInVs
       /\ t.header[x].nextInVs = s.header[x].nextInVs

\* Heap s with another first chunk and count of list o.
WithChain(s, o, f, n) == [s EXCEPT !.chain[o].first = f, !.chain[o].count = n]

\* The first chunk and the count of a list are set.
LEMMA ChainPut ==
  ASSUME NEW s \in HeapSet, NEW o \in Arenas \cup {"pool"}, NEW f \in Nat, NEW n \in Int
  PROVE  /\ Chained(s, WithChain(s, o, f, n), o) /\ WithChain(s, o, f, n).header = s.header
         /\ WithChain(s, o, f, n).chain[o].first = f
         /\ WithChain(s, o, f, n).chain[o].count = n
<1> DEFINE t == WithChain(s, o, f, n)
           list == [s.chain[o] EXCEPT !.first = f, !.count = n]
<1>1. s.chain \in [Arenas \cup {"pool"} -> ListSet]
  BY DEF HeapSet
<1>2. s.chain[o] \in ListSet
  BY <1>1
<1>3. list \in ListSet /\ list.first = f /\ list.count = n
  BY <1>2 DEF ListSet
<1>4. t = [s EXCEPT !.chain = [s.chain EXCEPT ![o] = list]]
  BY <1>1, <1>2 DEF HeapSet, ListSet, WithChain
<1> HIDE DEF list, t
<1>5. [s.chain EXCEPT ![o] = list] \in [Arenas \cup {"pool"} -> ListSet]
  BY <1>1, <1>3
<1>6. t \in HeapSet
  BY <1>4, <1>5 DEF HeapSet
<1>7. /\ t.header = s.header /\ t.slabs = s.slabs /\ t.handedOut = s.handedOut
      /\ t.free = s.free /\ t.firstOf = s.firstOf
      /\ t.chain = [s.chain EXCEPT ![o] = list]
  BY <1>4 DEF HeapSet
<1>8. t.chain[o] = list /\ \A p \in (Arenas \cup {"pool"}) \ {o} : t.chain[p] = s.chain[p]
  BY <1>1, <1>7
<1>9. Chained(s, t, o)
  BY <1>6, <1>7, <1>8 DEF Chained
<1> QED
  BY <1>3, <1>7, <1>8, <1>9 DEF t

\* MetachunkList::add
LEMMA AddPut ==
  ASSUME NEW s \in HeapSet, NEW o \in Arenas \cup {"pool"}, NEW h \in DOMAIN s.header,
         s.chain[o].first \in DOMAIN s.header \cup {Null}
  PROVE  /\ Chained(s, Add(s, o, h), o)
         /\ Add(s, o, h).chain[o].first = h
         /\ Add(s, o, h).chain[o].count = s.chain[o].count + 1
         /\ \A x \in DOMAIN s.header :
              /\ Add(s, o, h).header[x].next = IF x = h THEN s.chain[o].first ELSE s.header[x].next
              /\ Add(s, o, h).header[x].prev = IF x = s.chain[o].first THEN h ELSE s.header[x].prev
<1> DEFINE first == s.chain[o].first
           a == SetNext(s, h, first)
           b == SetPrev(a, first, h)
           t == [b EXCEPT !.chain[o].first = h, !.chain[o].count = @ + 1]
<1>1. s.chain \in [Arenas \cup {"pool"} -> ListSet]
  BY DEF HeapSet
<1>2. first \in Nat /\ s.chain[o].count \in Int /\ h \in Nat \ {Null}
  BY <1>1, HeaderFields DEF ListSet
<1>3. Add(s, o, h) = t
  BY DEF Add
<1> HIDE DEF first
<1>4. /\ SameFields(s, a, {"next"})
      /\ \A x \in DOMAIN s.header : a.header[x].next = IF x = h THEN first ELSE s.header[x].next
  BY <1>2, SetNextPut
<1> HIDE DEF a
<1>5. a \in HeapSet /\ DOMAIN a.header = DOMAIN s.header
  BY <1>4 DEF SameFields
<1>13. first \in DOMAIN a.header \cup {Null}
  BY <1>5 DEF first
<1>6. /\ SameFields(a, b, {"prev"})
      /\ \A x \in DOMAIN a.header : b.header[x].prev = IF x = first THEN h ELSE a.header[x].prev
  BY <1>2, <1>5, <1>13, SetPrevPut
<1> HIDE DEF b
<1>7. b \in HeapSet /\ b.chain = s.chain
  BY <1>4, <1>6 DEF SameFields
<1> DEFINE n == b.chain[o].count + 1
           u == WithChain(b, o, h, n)
<1>8. n \in Int /\ n = s.chain[o].count + 1
  BY <1>2, <1>7
<1>9. t = u
  BY <1>1, <1>7 DEF HeapSet, ListSet, WithChain
<1> HIDE DEF t, n
<1>10. /\ Chained(b, u, o) /\ u.header = b.header
       /\ u.chain[o].first = h /\ u.chain[o].count = n
  BY <1>2, <1>7, <1>8, ChainPut
<1> HIDE DEF u
<1>11. Chained(s, u, o)
  BY <1>4, <1>6, <1>10 DEF SameFields, Chained
<1>12. \A x \in DOMAIN s.header :
         /\ u.header[x].next = IF x = h THEN first ELSE s.header[x].next
         /\ u.header[x].prev = IF x = first THEN h ELSE s.header[x].prev
  BY <1>4, <1>5, <1>6, <1>10 DEF SameFields
<1> QED
  BY <1>3, <1>8, <1>9, <1>10, <1>11, <1>12 DEF first

\* MetachunkList::remove_first
LEMMA PopPut ==
  ASSUME NEW s \in HeapSet, NEW o \in Arenas \cup {"pool"}, NEW h \in DOMAIN s.header,
         h = s.chain[o].first, s.header[h].next \in DOMAIN s.header \cup {Null}
  PROVE  /\ Chained(s, Pop(s, o), o)
         /\ Pop(s, o).chain[o].first = s.header[h].next
         /\ Pop(s, o).chain[o].count = s.chain[o].count - 1
         /\ \A x \in DOMAIN s.header :
              /\ Pop(s, o).header[x].next = IF x = h THEN Null ELSE s.header[x].next
              /\ x \notin {h, s.header[h].next} => Pop(s, o).header[x].prev = s.header[x].prev
<1> DEFINE first == s.header[h].next
           a == SetPrev(s, first, Null)
           b == SetPrev(a, h, Null)
           c == SetNext(b, h, Null)
           t == [c EXCEPT !.chain[o].first = first, !.chain[o].count = @ - 1]
<1>1. s.chain \in [Arenas \cup {"pool"} -> ListSet]
  BY DEF HeapSet
<1>2. first \in Nat /\ s.chain[o].count \in Int
  BY <1>1, HeaderFields DEF ListSet
<1>3. Pop(s, o) = t
  BY DEF Pop
<1> HIDE DEF first
<1>15. first \in DOMAIN s.header \cup {Null} /\ Null \in Nat
  BY DEF first, Null
<1>4. /\ SameFields(s, a, {"prev"})
      /\ \A x \in DOMAIN s.header : a.header[x].prev = IF x = first THEN Null ELSE s.header[x].prev
  BY <1>15, SetPrevPut, ZenonT(60)
<1> HIDE DEF a
<1>5. a \in HeapSet /\ DOMAIN a.header = DOMAIN s.header
  BY <1>4 DEF SameFields
<1>6. /\ SameFields(a, b, {"prev"})
      /\ \A x \in DOMAIN a.header : b.header[x].prev = IF x = h THEN Null ELSE a.header[x].prev
  BY <1>5, SetPrevPut DEF Null
<1> HIDE DEF b
<1>7. b \in HeapSet /\ DOMAIN b.header = DOMAIN s.header
  BY <1>5, <1>6 DEF SameFields
<1>8. /\ SameFields(b, c, {"next"})
      /\ \A x \in DOMAIN b.header : c.header[x].next = IF x = h THEN Null ELSE b.header[x].next
  BY <1>7, SetNextPut DEF Null
<1> HIDE DEF c
<1>9. c \in HeapSet /\ c.chain = s.chain
  BY <1>4, <1>6, <1>8 DEF SameFields
<1> DEFINE n == c.chain[o].count - 1
           u == WithChain(c, o, first, n)
<1>10. n \in Int /\ n = s.chain[o].count - 1
  BY <1>2, <1>9
<1>11. t = u
  BY <1>1, <1>9 DEF HeapSet, ListSet, WithChain
<1> HIDE DEF t, n
<1>12. /\ Chained(c, u, o) /\ u.header = c.header
       /\ u.chain[o].first = first /\ u.chain[o].count = n
  BY <1>2, <1>9, <1>10, ChainPut
<1> HIDE DEF u
<1>13. Chained(s, u, o)
  BY <1>4, <1>6, <1>8, <1>12 DEF SameFields, Chained
<1>14. \A x \in DOMAIN s.header :
         /\ u.header[x].next = IF x = h THEN Null ELSE s.header[x].next
         /\ x \notin {h, first} => u.header[x].prev = s.header[x].prev
  BY <1>4, <1>5, <1>6, <1>7, <1>8, <1>12 DEF SameFields
<1> QED
  BY <1>3, <1>10, <1>11, <1>12, <1>13, <1>14 DEF first

-----------------------------------------------------------------------------

\* The same header but for its number.
Same(p, q) ==
  /\ p.base = q.base /\ p.level = q.level /\ p.state = q.state /\ p.prev = q.prev
  /\ p.next = q.next /\ p.prevInVs = q.prevInVs /\ p.nextInVs = q.nextInVs

\* From s to t header h, which stood for no chunk, comes to stand for one.  If
\* no header was spare, none is.
Allocated(s, t, h, content) ==
  /\ t \in HeapSet /\ h \in Nat \ {Null} /\ h \notin Live(s)
  /\ DOMAIN t.header = DOMAIN s.header \cup {h}
  /\ Len(t.header) = Len(s.header) \/ Spare(t) = {}
  /\ t.header[h] = content
  /\ t.free = s.free /\ t.firstOf = s.firstOf /\ \A a \in Arenas : t.chain[a] = s.chain[a]
  /\ Live(t) = Live(s) \cup {h} /\ Spare(t) = Spare(s) \ {h}
  /\ \A x \in Live(s) : Same(t.header[x], s.header[x])

\* From s to t header h ceases to stand for a chunk.
Released(s, t, h) ==
  /\ t \in HeapSet /\ Len(t.header) = Len(s.header) /\ DOMAIN t.header = DOMAIN s.header
  /\ t.free = s.free /\ t.firstOf = s.firstOf /\ \A a \in Arenas : t.chain[a] = s.chain[a]
  /\ Live(t) = Live(s) \ {h} /\ Spare(t) = Spare(s) \cup {h}
  /\ \A x \in Live(s) \ {h} : Same(t.header[x], s.header[x])

\* Headers that stand for a chunk and those that do not.
LEMMA LiveAndSpare ==
  ASSUME NEW s \in HeapSet
  PROVE  /\ DOMAIN s.header = 1..Len(s.header) /\ Len(s.header) \in Nat
         /\ Live(s) \cup Spare(s) = DOMAIN s.header /\ Live(s) \cap Spare(s) = {}
         /\ IsFiniteSet(Live(s)) /\ IsFiniteSet(Spare(s))
         /\ InUse(s) \subseteq Live(s) /\ \A x \in DOMAIN s.header : Free(s, x) => x \in Live(s)
<1>1. s.header \in Seq(HeaderSet)
  BY DEF HeapSet
<1>2. DOMAIN s.header = 1..Len(s.header) /\ Len(s.header) \in Nat
  BY <1>1
<1>3. Live(s) \cup Spare(s) = DOMAIN s.header /\ Live(s) \cap Spare(s) = {}
  BY DEF Live, Spare
<1>4. IsFiniteSet(1..Len(s.header))
  BY <1>2, FS_Interval
<1>5. IsFiniteSet(Live(s)) /\ IsFiniteSet(Spare(s))
  BY <1>2, <1>3, <1>4, FS_Subset
<1> QED
  BY <1>2, <1>3, <1>5 DEF Live, InUse, Free

\* One more header starts a slab when the last one is full.
LEMMA SlabsFill ==
  ASSUME NEW n \in Nat, NEW q \in Nat, q = (n + SlabCapacity - 1) \div SlabCapacity
  PROVE  (IF n = q * SlabCapacity THEN q + 1 ELSE q) = (n + 1 + SlabCapacity - 1) \div SlabCapacity
<1>1. SlabCapacity \in Nat \ {0}
  BY HeaderAssumption
<1>2. n + SlabCapacity - 1 \in Nat
  BY <1>1
<1>3. /\ q * SlabCapacity <= n + SlabCapacity - 1
      /\ n + SlabCapacity - 1 < q * SlabCapacity + SlabCapacity
  BY <1>1, <1>2, DivisionBounds
<1>4. q * SlabCapacity \in Nat /\ (q + 1) * SlabCapacity = q * SlabCapacity + SlabCapacity
  BY <1>1
<1>5. CASE n = q * SlabCapacity
  <2>1. (n + 1 + SlabCapacity - 1) \div SlabCapacity = q + 1
    <3>1. /\ (q + 1) * SlabCapacity <= n + 1 + SlabCapacity - 1
          /\ n + 1 + SlabCapacity - 1 < (q + 1) * SlabCapacity + SlabCapacity
          /\ n + 1 + SlabCapacity - 1 \in Nat
      BY <1>1, <1>4, <1>5
    <3> QED
      BY <1>1, <3>1, QuotientUnique
  <2> QED
    BY <1>5, <2>1
<1>6. CASE n # q * SlabCapacity
  <2>1. (n + 1 + SlabCapacity - 1) \div SlabCapacity = q
    <3> DEFINE p == q * SlabCapacity
    <3>1. p \in Nat /\ p <= n + SlabCapacity - 1 /\ n + SlabCapacity - 1 < p + SlabCapacity /\ n # p
      BY <1>3, <1>4, <1>6
    <3> HIDE DEF p
    <3>2. /\ p <= n + 1 + SlabCapacity - 1
          /\ n + 1 + SlabCapacity - 1 < p + SlabCapacity
          /\ n + 1 + SlabCapacity - 1 \in Nat
      BY <1>1, <3>1
    <3> QED
      BY <1>1, <3>2, QuotientUnique DEF p
  <2> QED
    BY <1>6, <2>1
<1> QED
  BY <1>5, <1>6

-----------------------------------------------------------------------------

\* Heap s with another number of headers handed out.
WithHanded(s, n) == [s EXCEPT !.handedOut = n]

\* The counter of the pool is set.
LEMMA HandedPut ==
  ASSUME NEW s \in HeapSet, NEW n \in Int
  PROVE  /\ WithHanded(s, n) \in HeapSet /\ WithHanded(s, n).handedOut = n
         /\ WithHanded(s, n).header = s.header /\ WithHanded(s, n).slabs = s.slabs
         /\ WithHanded(s, n).chain = s.chain /\ WithHanded(s, n).free = s.free
         /\ WithHanded(s, n).firstOf = s.firstOf
BY DEF HeapSet, WithHanded

\* The spare headers are linked: their links in the pool.
LEMMA SpareLinked ==
  ASSUME NEW s \in HeapSet, PoolLinked(s)
  PROVE  /\ s.chain["pool"].first \in Spare(s) \cup {Null}
         /\ s.chain["pool"].first \in DOMAIN s.header \cup {Null}
         /\ (s.chain["pool"].first = Null <=> Spare(s) = {})
         /\ \A x \in Spare(s) : /\ s.header[x].next \in Spare(s) \cup {Null} /\ s.header[x].next # x
                                /\ s.header[x].next # s.chain["pool"].first \/ s.header[x].next = Null
<1> DEFINE S == Spare(s)
           first == s.chain["pool"].first
           nxt == Nexts(s)
<1>1. OneWay(S, first, nxt)
  BY DEF PoolLinked
<1>2. \A x \in S : nxt[x] = s.header[x].next /\ x \in DOMAIN s.header
  BY DEF Nexts, Spare
<1> HIDE DEF S, first, nxt
<1>3. \A x \in S : nxt[x] # first \/ nxt[x] = Null
  BY <1>1, OneBefore
<1>4. PICK pos : InLine(S, pos, first, nxt)
  BY <1>1 DEF OneWay
<1>5. /\ S \subseteq Nat \ {Null} /\ (S = {} <=> first = Null) /\ first \in S \cup {Null}
  BY <1>4 DEF InLine
<1>6. \A x \in S : nxt[x] \in S \cup {Null} /\ nxt[x] # x
  BY <1>4 DEF InLine
<1>7. first \in DOMAIN s.header \cup {Null}
  BY <1>2, <1>5
<1> QED
  BY <1>2, <1>3, <1>5, <1>6, <1>7 DEF S, first

\* A header goes back to the pool.
LEMMA ReleaseKeeps ==
  ASSUME NEW s \in HeapSet, PoolLinked(s), NEW h \in Live(s)
  PROVE  Released(s, Release(s, h), h) /\ PoolLinked(Release(s, h))
<1> DEFINE a == [s EXCEPT !.header[h].state = "dead"]
           b == Add(a, "pool", h)
           t == WithHanded(b, b.handedOut - 1)
           first == s.chain["pool"].first
<1>1. Release(s, h) = t
  BY DEF Release, WithHanded
<1>2. h \in DOMAIN s.header /\ h \in Nat \ {Null} /\ h \notin Spare(s)
  BY HeaderFields DEF Live, Spare
<1>3. /\ SameFields(s, a, {"state"})
      /\ \A x \in DOMAIN s.header : a.header[x].state = IF x = h THEN "dead" ELSE s.header[x].state
  BY <1>2, StateSet
<1> HIDE DEF a
<1>4. a \in HeapSet /\ DOMAIN a.header = DOMAIN s.header /\ a.chain = s.chain
  BY <1>3 DEF SameFields
<1>5. a.chain["pool"].first \in DOMAIN a.header \cup {Null}
  BY <1>4, SpareLinked
<1>6. /\ Chained(a, b, "pool")
      /\ b.chain["pool"].first = h
      /\ b.chain["pool"].count = a.chain["pool"].count + 1
      /\ \A x \in DOMAIN a.header :
           /\ b.header[x].next = IF x = h THEN a.chain["pool"].first ELSE a.header[x].next
           /\ b.header[x].prev = IF x = a.chain["pool"].first THEN h ELSE a.header[x].prev
  <2>1. h \in DOMAIN a.header /\ "pool" \in Arenas \cup {"pool"}
    BY <1>2, <1>4
  <2> QED
    BY <1>4, <1>5, <2>1, AddPut
<1> HIDE DEF b
<1>7. b \in HeapSet /\ b.handedOut = s.handedOut /\ s.handedOut \in Int
  BY <1>3, <1>6 DEF SameFields, Chained, HeapSet
<1>8. b.handedOut - 1 \in Int
  BY <1>7
<1>9. /\ t \in HeapSet /\ t.handedOut = s.handedOut - 1
      /\ t.header = b.header /\ t.slabs = b.slabs
      /\ t.chain = b.chain /\ t.free = b.free /\ t.firstOf = b.firstOf
  BY <1>7, <1>8, HandedPut
<1> HIDE DEF t
<1>10. /\ Len(t.header) = Len(s.header) /\ DOMAIN t.header = DOMAIN s.header
       /\ t.slabs = s.slabs /\ t.free = s.free /\ t.firstOf = s.firstOf
       /\ t.chain["pool"].first = h /\ t.chain["pool"].count = s.chain["pool"].count + 1
       /\ \A o \in Arenas : t.chain[o] = s.chain[o]
  BY <1>3, <1>6, <1>9, HeaderAssumption DEF SameFields, Chained
<1>11. ASSUME NEW x \in DOMAIN s.header
       PROVE  /\ t.header[x].base = s.header[x].base /\ t.header[x].level = s.header[x].level
              /\ t.header[x].state = IF x = h THEN "dead" ELSE s.header[x].state
              /\ t.header[x].next = IF x = h THEN first ELSE s.header[x].next
              /\ t.header[x].prev = IF x = first THEN h ELSE s.header[x].prev
              /\ t.header[x].prevInVs = s.header[x].prevInVs
              /\ t.header[x].nextInVs = s.header[x].nextInVs
  BY <1>3, <1>4, <1>6, <1>9 DEF SameFields, Chained
<1>12. Live(t) = Live(s) \ {h} /\ Spare(t) = Spare(s) \cup {h}
  BY <1>2, <1>10, <1>11 DEF Live, Spare
<1>13. \A x \in Live(s) \ {h} : x \in DOMAIN s.header /\ x # h /\ x # first
  <2>1. first \in Spare(s) \cup {Null}
    BY SpareLinked
  <2> QED
    BY <2>1, HeaderFields DEF Live, Spare
<1>14. Released(s, t, h)
  BY <1>9, <1>10, <1>11, <1>12, <1>13 DEF Released, Same
<1>15. OneWay(Spare(t), t.chain["pool"].first, Nexts(t))
  <2>1. OneWay(Spare(s), first, Nexts(s))
    BY DEF PoolLinked
  <2>2. Nexts(t)[h] = first /\ \A x \in Spare(s) : Nexts(t)[x] = Nexts(s)[x]
    BY <1>2, <1>10, <1>11 DEF Nexts, Spare
  <2>3. OneWay(Spare(s) \cup {h}, h, Nexts(t))
    <3> HIDE DEF first
    <3> QED
      BY <1>2, <2>1, <2>2, OneWayFront
  <2> QED
    BY <1>10, <1>12, <2>3
<1>16. /\ Cardinality(Spare(t)) = Cardinality(Spare(s)) + 1
       /\ Cardinality(Live(t)) = Cardinality(Live(s)) - 1
  <2>1. IsFiniteSet(Live(s)) /\ IsFiniteSet(Spare(s))
    BY LiveAndSpare
  <2>2. Cardinality(Spare(s) \cup {h}) = Cardinality(Spare(s)) + 1
    BY <1>2, <2>1, FS_AddElement
  <2>3. Cardinality(Live(s) \ {h}) = Cardinality(Live(s)) - 1
    BY <2>1, FS_RemoveElement
  <2> QED
    BY <1>12, <2>2, <2>3
<1>17. PoolLinked(t)
  BY <1>9, <1>10, <1>15, <1>16 DEF PoolLinked
<1> QED
  BY <1>1, <1>14, <1>17

-----------------------------------------------------------------------------

\* Heap s with another number of slabs.
WithSlabs(s, n) == [s EXCEPT !.slabs = n]

\* The counter of slabs is set.
LEMMA SlabsPut ==
  ASSUME NEW s \in HeapSet, NEW n \in Nat
  PROVE  /\ WithSlabs(s, n) \in HeapSet /\ WithSlabs(s, n).slabs = n
         /\ WithSlabs(s, n).header = s.header /\ WithSlabs(s, n).handedOut = s.handedOut
         /\ WithSlabs(s, n).chain = s.chain /\ WithSlabs(s, n).free = s.free
         /\ WithSlabs(s, n).firstOf = s.firstOf
BY DEF HeapSet, WithSlabs

\* The spare header that Allocate takes.
LEMMA AllocateSpare ==
  ASSUME NEW s \in HeapSet, PoolLinked(s), Spare(s) # {},
         NEW content \in HeaderSet, content.state # "dead"
  PROVE  /\ Allocated(s, Allocate(s, content), NextHeader(s), content)
         /\ PoolLinked(Allocate(s, content))
<1> DEFINE h == NextHeader(s)
           first == s.header[h].next
           a == Pop(s, "pool")
           b == [a EXCEPT !.header = [a.header EXCEPT ![h] = content]]
           t == WithHanded(b, b.handedOut + 1)
<1>1. h = s.chain["pool"].first /\ h \in Spare(s) /\ h \in DOMAIN s.header
      /\ first \in Spare(s) \cup {Null} /\ first # h
  BY SpareLinked DEF NextHeader, Spare
<1>2. h \in Nat \ {Null} /\ h \notin Live(s)
  BY <1>1, HeaderFields DEF Live, Spare
<1>3. Allocate(s, content) = t
  BY <1>1 DEF Allocate, WithHanded
<1> HIDE DEF h, first
<1>4. /\ Chained(s, a, "pool")
      /\ a.chain["pool"].first = first
      /\ a.chain["pool"].count = s.chain["pool"].count - 1
      /\ \A x \in DOMAIN s.header :
           /\ a.header[x].next = IF x = h THEN Null ELSE s.header[x].next
           /\ x \notin {h, first} => a.header[x].prev = s.header[x].prev
  <2>1. first \in DOMAIN s.header \cup {Null}
    BY <1>1 DEF Spare
  <2>2. "pool" \in Arenas \cup {"pool"}
    OBVIOUS
  <2> QED
    BY <1>1, <2>1, <2>2, PopPut DEF first
<1> HIDE DEF a
<1>5. a \in HeapSet /\ DOMAIN a.header = DOMAIN s.header
  BY <1>4 DEF Chained
<1>6. Changed(a, b, h) /\ b.header[h] = content
  <2>1. h \in DOMAIN a.header
    BY <1>1, <1>5
  <2> QED
    BY <1>5, <2>1, HeaderPut
<1> HIDE DEF b
<1>7. b \in HeapSet /\ b.handedOut = s.handedOut /\ s.handedOut \in Int
  BY <1>4, <1>6 DEF Changed, Chained, HeapSet
<1>8. b.handedOut + 1 \in Int
  BY <1>7
<1>9. /\ t \in HeapSet /\ t.handedOut = s.handedOut + 1
      /\ t.header = b.header /\ t.slabs = b.slabs
      /\ t.chain = b.chain /\ t.free = b.free /\ t.firstOf = b.firstOf
  BY <1>7, <1>8, HandedPut
<1> HIDE DEF t
<1>10. /\ Len(t.header) = Len(s.header) /\ DOMAIN t.header = DOMAIN s.header
       /\ t.slabs = s.slabs /\ t.free = s.free /\ t.firstOf = s.firstOf
       /\ t.chain["pool"].first = first /\ t.chain["pool"].count = s.chain["pool"].count - 1
       /\ \A o \in Arenas : t.chain[o] = s.chain[o]
       /\ t.header[h] = content
  BY <1>4, <1>6, <1>9, HeaderAssumption DEF Changed, Chained
<1>11. ASSUME NEW x \in DOMAIN s.header \ {h}
       PROVE  /\ t.header[x].base = s.header[x].base /\ t.header[x].level = s.header[x].level
              /\ t.header[x].state = s.header[x].state
              /\ t.header[x].next = s.header[x].next
              /\ x # first => t.header[x].prev = s.header[x].prev
              /\ t.header[x].prevInVs = s.header[x].prevInVs
              /\ t.header[x].nextInVs = s.header[x].nextInVs
  BY <1>4, <1>5, <1>6, <1>9 DEF Changed, Chained
<1>12. Live(t) = Live(s) \cup {h} /\ Spare(t) = Spare(s) \ {h}
  BY <1>1, <1>10, <1>11 DEF Live, Spare
<1>13. \A x \in Live(s) : x \in DOMAIN s.header \ {h} /\ x # first
  BY <1>1, <1>2, HeaderFields DEF Live, Spare
<1>14. Allocated(s, t, h, content)
  <2>1. \A x \in Live(s) : Same(t.header[x], s.header[x])
    BY <1>11, <1>13 DEF Same
  <2>2. DOMAIN t.header = DOMAIN s.header \cup {h}
    BY <1>1, <1>10
  <2> QED
    BY <1>2, <1>9, <1>10, <1>12, <2>1, <2>2 DEF Allocated
<1>15. OneWay(Spare(t), t.chain["pool"].first, Nexts(t))
  <2>1. OneWay(Spare(s), h, Nexts(s))
    BY <1>1 DEF PoolLinked
  <2>2. Nexts(s)[h] = first
    BY <1>1 DEF Nexts, first
  <2>3. \A x \in Spare(s) \ {h} : Nexts(t)[x] = Nexts(s)[x] /\ Nexts(s)[x] # h
    <3>1. \A x \in Spare(s) : s.header[x].next # h
      BY <1>1, <1>2, SpareLinked
    <3> QED
      BY <1>10, <1>11, <3>1 DEF Nexts, Spare
  <2>4. OneWay(Spare(s) \ {h}, first, Nexts(t))
    <3> DEFINE S == Spare(s)
               n == Nexts(s)
               m == Nexts(t)
    <3> HIDE DEF S, n, m
    <3>1. OneWay(S, h, n) /\ h \in S /\ n[h] = first
      BY <1>1, <2>1, <2>2 DEF S, n
    <3>2. \A x \in S \ {h} : m[x] = IF n[x] = h THEN n[h] ELSE n[x]
      BY <2>3 DEF S, n, m
    <3>3. OneWay(S \ {h}, IF h = h THEN n[h] ELSE h, m)
      BY <3>1, <3>2, OneWayWithout
    <3> QED
      BY <3>1, <3>3 DEF S, m
  <2> QED
    BY <1>10, <1>12, <2>4
<1>16. /\ Cardinality(Spare(t)) = Cardinality(Spare(s)) - 1
       /\ Cardinality(Live(t)) = Cardinality(Live(s)) + 1
  <2>1. IsFiniteSet(Live(s)) /\ IsFiniteSet(Spare(s))
    BY LiveAndSpare
  <2>2. Cardinality(Live(s) \cup {h}) = Cardinality(Live(s)) + 1
    BY <1>2, <2>1, FS_AddElement
  <2>3. Cardinality(Spare(s) \ {h}) = Cardinality(Spare(s)) - 1
    <3>1. h \in Spare(s) /\ IsFiniteSet(Spare(s))
      BY <1>1, <2>1
    <3> QED
      BY <3>1, FS_RemoveElement
  <2> QED
    BY <1>12, <2>2, <2>3
<1>17. PoolLinked(t)
  BY <1>9, <1>10, <1>15, <1>16 DEF PoolLinked
<1> QED
  BY <1>3, <1>14, <1>17 DEF h

\* When no header is spare it takes one from a slab.
LEMMA AllocateNew ==
  ASSUME NEW s \in HeapSet, PoolLinked(s), Spare(s) = {},
         NEW content \in HeaderSet, content.state # "dead"
  PROVE  /\ Allocated(s, Allocate(s, content), NextHeader(s), content)
         /\ PoolLinked(Allocate(s, content))
<1> DEFINE h == NextHeader(s)
           n == IF SlabFull(s) THEN s.slabs + 1 ELSE s.slabs
           a == [s EXCEPT !.header = Append(s.header, content)]
           b == WithSlabs(a, n)
           t == WithHanded(b, b.handedOut + 1)
<1>1. s.header \in Seq(HeaderSet) /\ s.slabs \in Nat /\ s.handedOut \in Int
  BY DEF HeapSet
<1>2. /\ h = Len(s.header) + 1 /\ h \notin DOMAIN s.header /\ h \in Nat \ {Null}
      /\ DOMAIN s.header = 1..Len(s.header) /\ Len(s.header) \in Nat
  BY <1>1, SpareLinked DEF NextHeader, Null
<1>3. Allocate(s, content) = t
  BY <1>2 DEF Allocate, WithHanded, WithSlabs, SlabFull, HeapSet
<1>4. /\ Append(s.header, content) \in Seq(HeaderSet)
      /\ Len(Append(s.header, content)) = Len(s.header) + 1
      /\ DOMAIN Append(s.header, content) = DOMAIN s.header \cup {h}
      /\ Append(s.header, content)[h] = content
      /\ \A x \in DOMAIN s.header : Append(s.header, content)[x] = s.header[x]
  BY <1>1, <1>2, AppendProperties
<1> HIDE DEF h
<1>5. /\ a \in HeapSet /\ a.header = Append(s.header, content)
      /\ a.slabs = s.slabs /\ a.handedOut = s.handedOut /\ a.chain = s.chain
      /\ a.free = s.free /\ a.firstOf = s.firstOf
  BY <1>4 DEF HeapSet
<1> HIDE DEF a
<1>6. n \in Nat /\ n = IF Len(s.header) = s.slabs * SlabCapacity THEN s.slabs + 1 ELSE s.slabs
  BY <1>1 DEF SlabFull
<1> HIDE DEF n
<1>7. /\ b \in HeapSet /\ b.slabs = n
      /\ b.header = a.header /\ b.handedOut = a.handedOut
      /\ b.chain = a.chain /\ b.free = a.free /\ b.firstOf = a.firstOf
  BY <1>5, <1>6, SlabsPut
<1> HIDE DEF b
<1>8. b.handedOut + 1 \in Int
  BY <1>1, <1>5, <1>7
<1>9. /\ t \in HeapSet /\ t.handedOut = b.handedOut + 1
      /\ t.header = b.header /\ t.slabs = b.slabs
      /\ t.chain = b.chain /\ t.free = b.free /\ t.firstOf = b.firstOf
  BY <1>7, <1>8, HandedPut
<1> HIDE DEF t
<1>10. /\ t.header = Append(s.header, content) /\ Len(t.header) = Len(s.header) + 1
       /\ DOMAIN t.header = DOMAIN s.header \cup {h} /\ t.header[h] = content
       /\ \A x \in DOMAIN s.header : t.header[x] = s.header[x]
       /\ t.slabs = n /\ t.handedOut = s.handedOut + 1
       /\ t.chain = s.chain /\ t.free = s.free /\ t.firstOf = s.firstOf
  BY <1>4, <1>5, <1>7, <1>9
<1>11. Live(t) = Live(s) \cup {h} /\ Spare(t) = {} /\ h \notin Live(s)
  BY <1>2, <1>10 DEF Live, Spare
<1>12. Allocated(s, t, h, content)
  <2>1. \A x \in Live(s) : Same(t.header[x], s.header[x])
    BY <1>10 DEF Same, Live
  <2> QED
    BY <1>2, <1>9, <1>10, <1>11, <2>1 DEF Allocated
<1>13. t.slabs = (Len(t.header) + SlabCapacity - 1) \div SlabCapacity
  <2>1. s.slabs = (Len(s.header) + SlabCapacity - 1) \div SlabCapacity
    BY DEF PoolLinked
  <2>2. n = (Len(s.header) + 1 + SlabCapacity - 1) \div SlabCapacity
    <3> DEFINE k == Len(s.header)
               q == s.slabs
    <3> HIDE DEF k, q
    <3>1. k \in Nat /\ q \in Nat /\ q = (k + SlabCapacity - 1) \div SlabCapacity
      BY <1>1, <1>2, <2>1 DEF k, q
    <3>2. (IF k = q * SlabCapacity THEN q + 1 ELSE q) = (k + 1 + SlabCapacity - 1) \div SlabCapacity
      BY <3>1, SlabsFill
    <3> QED
      BY <1>6, <3>2 DEF k, q
  <2> QED
    BY <1>10, <2>2
<1>14. Cardinality(Live(t)) = Cardinality(Live(s)) + 1
  <2>1. IsFiniteSet(Live(s))
    BY LiveAndSpare
  <2>2. Cardinality(Live(s) \cup {h}) = Cardinality(Live(s)) + 1
    BY <1>11, <2>1, FS_AddElement
  <2> QED
    BY <1>11, <2>2
<1>15. /\ OneWay(Spare(t), t.chain["pool"].first, Nexts(t))
       /\ t.chain["pool"].count = Cardinality(Spare(t))
  <2>1. s.chain["pool"].first = Null /\ s.chain["pool"].count = Cardinality(Spare(s))
    BY SpareLinked DEF PoolLinked
  <2> QED
    BY <1>10, <1>11, <2>1, NoneInLine
<1>16. PoolLinked(t)
  BY <1>10, <1>13, <1>14, <1>15 DEF PoolLinked
<1> QED
  BY <1>3, <1>12, <1>16 DEF h

\* A header of the pool or a new one.
LEMMA AllocateKeeps ==
  ASSUME NEW s \in HeapSet, PoolLinked(s), NEW content \in HeaderSet, content.state # "dead"
  PROVE  /\ Allocated(s, Allocate(s, content), NextHeader(s), content)
         /\ PoolLinked(Allocate(s, content))
BY AllocateSpare, AllocateNew

-----------------------------------------------------------------------------

\* Chunks in place: where chunk h ends, and where an area begins.
End(s, h)   == s.header[h].base + WordSize[s.header[h].level]
AtBorder(a) == Block(a, RootLevel) = a

InPlace(s, h) == /\ Block(s.header[h].base, s.header[h].level) = s.header[h].base
                 /\ End(s, h) <= NumAreas * RootWords

Apart(s, g, h) == End(s, g) <= s.header[h].base \/ End(s, h) <= s.header[g].base

NextRight(s, h) ==
  LET n == s.header[h].nextInVs IN
  /\ n = Null <=> AtBorder(End(s, h))
  /\ n # Null => n \in Live(s) /\ s.header[n].base = End(s, h) /\ s.header[n].prevInVs = h

PrevRight(s, h) ==
  LET p == s.header[h].prevInVs IN
  /\ p = Null <=> AtBorder(s.header[h].base)
  /\ p # Null => p \in Live(s) /\ End(s, p) = s.header[h].base /\ s.header[p].nextInVs = h

FirstRight(s, r) ==
  /\ s.firstOf[r] = Null => \A h \in Live(s) : s.header[h].base \div RootWords # r
  /\ s.firstOf[r] # Null => /\ s.firstOf[r] \in Live(s)
                            /\ s.header[s.firstOf[r]].base = r * RootWords

\* Chunks are aligned and apart, and linked to their neighbours.
Placed(s) ==
  /\ \A h \in Live(s) : InPlace(s, h) /\ NextRight(s, h) /\ PrevRight(s, h)
  /\ \A g, h \in Live(s) : g # h => Apart(s, g, h)
  /\ \A r \in Areas : FirstRight(s, r)

\* Root chunks fill their area.
LEMMA Borders ==
  /\ RootWords \in Nat \ {0} /\ RootWords = WordSize[RootLevel] /\ RootLevel \in Levels
  /\ \A q \in Nat : q * RootWords \in Nat /\ AtBorder(q * RootWords)
  /\ \A a \in Nat : AtBorder(a) => a = (a \div RootWords) * RootWords
<1>1. RootWords \in Nat \ {0} /\ RootWords = WordSize[RootLevel] /\ RootLevel \in Levels
  BY AreaSize, HeaderAssumption
<1>2. ASSUME NEW q \in Nat
      PROVE  q * RootWords \in Nat /\ AtBorder(q * RootWords)
  <2>1. q * WordSize[RootLevel] \in Nat
    BY <1>1
  <2>2. Block(q * WordSize[RootLevel], RootLevel) = q * WordSize[RootLevel]
    <3>1. /\ q * WordSize[RootLevel] <= q * WordSize[RootLevel]
          /\ q * WordSize[RootLevel] < q * WordSize[RootLevel] + WordSize[RootLevel]
      BY <1>1, <2>1
    <3> QED
      BY <1>1, <2>1, <3>1, BlockOfMultiple
  <2> QED
    BY <1>1, <2>1, <2>2 DEF AtBorder
<1>3. ASSUME NEW a \in Nat, AtBorder(a)
      PROVE  a = (a \div RootWords) * RootWords
  <2>1. PICK q \in Nat : a = q * WordSize[RootLevel]
    BY <1>1, <1>3, BlockBounds DEF AtBorder
  <2>2. a \div RootWords = q
    <3>1. q * RootWords <= a /\ a < q * RootWords + RootWords
      BY <1>1, <2>1
    <3> QED
      BY <1>1, <3>1, QuotientUnique
  <2> QED
    BY <1>1, <2>1, <2>2
<1> QED
  BY <1>1, <1>2, <1>3

\* No area begins inside a chunk.
LEMMA NoBorderInside ==
  ASSUME NEW b \in Nat, NEW l \in Levels, Block(b, l) = b,
         NEW a \in Nat, b < a, a < b + WordSize[l]
  PROVE  ~AtBorder(a)
<1>1. Block(a, l) = b
  BY SizesPositive, BlockOfWord
<1>2. RootLevel \in Levels /\ RootLevel <= l
  BY AreaSize, LevelRanges DEF RootLevel
<1>3. AtBorder(a) => Block(a, l) = a
  BY <1>2, BlocksNest DEF AtBorder
<1> QED
  BY <1>1, <1>3

\* A chunk lies in one area.
LEMMA AreaSpan ==
  ASSUME NEW b \in Nat, NEW l \in Levels, Block(b, l) = b
  PROVE  LET q == b \div RootWords IN
         /\ q \in Nat /\ q * RootWords \in Nat /\ q * RootWords <= b
         /\ b + WordSize[l] <= q * RootWords + RootWords
         /\ b + WordSize[l] \in Nat
<1> DEFINE q == b \div RootWords
           a == b + WordSize[l] - 1
<1>1. RootWords \in Nat \ {0} /\ WordSize[l] \in Nat \ {0}
  BY Borders, SizesPositive
<1>2. q \in Nat /\ q * RootWords <= b /\ q * RootWords \in Nat
  BY <1>1, DivisionBounds
<1>3. a \in Nat /\ a \in Words(b, WordSize[l])
  BY <1>1 DEF Words
<1>4. a \div RootWords = q
  <2> HIDE DEF a
  <2> QED
    BY <1>3, ChunkInArea
<1>5. a < q * RootWords + RootWords
  <2> HIDE DEF a, q
  <2> QED
    BY <1>1, <1>3, <1>4, DivisionBounds
<1> QED
  BY <1>1, <1>2, <1>5

-----------------------------------------------------------------------------

\* The numbers of a chunk in place.
LEMMA PlaceFacts ==
  ASSUME NEW s \in HeapSet, Placed(s), NEW h \in Live(s)
  PROVE  /\ h \in DOMAIN s.header /\ h \in Nat \ {Null} /\ h # Null
         /\ s.header[h].base \in Nat /\ s.header[h].level \in Levels
         /\ WordSize[s.header[h].level] \in Nat \ {0} /\ End(s, h) \in Nat
         /\ s.header[h].base < End(s, h) /\ End(s, h) = s.header[h].base + WordSize[s.header[h].level]
         /\ InPlace(s, h) /\ NextRight(s, h) /\ PrevRight(s, h)
<1>1. h \in DOMAIN s.header
  BY DEF Live
<1>2. /\ h \in Nat \ {Null} /\ h # Null
      /\ s.header[h].base \in Nat /\ s.header[h].level \in Levels
  BY <1>1, HeaderFields
<1>3. WordSize[s.header[h].level] \in Nat \ {0}
  BY <1>2, SizesPositive
<1>4. End(s, h) \in Nat /\ s.header[h].base < End(s, h)
  <2> DEFINE b == s.header[h].base
             w == WordSize[s.header[h].level]
  <2>1. b \in Nat /\ w \in Nat \ {0}
    BY <1>2, <1>3
  <2> HIDE DEF b, w
  <2>2. b + w \in Nat /\ b < b + w
    BY <2>1
  <2> QED
    BY <2>2 DEF End, b, w
<1> QED
  BY <1>1, <1>2, <1>3, <1>4 DEF Placed, End

\* Chunks in place stay so when only what is not about places changes.
LEMMA PlacedSame ==
  ASSUME NEW s \in HeapSet, Placed(s), NEW t, Live(t) = Live(s), t.firstOf = s.firstOf,
         \A x \in Live(s) :
           /\ t.header[x].base = s.header[x].base /\ t.header[x].level = s.header[x].level
           /\ t.header[x].prevInVs = s.header[x].prevInVs
           /\ t.header[x].nextInVs = s.header[x].nextInVs
  PROVE  Placed(t)
<1>1. \A x \in Live(s) : End(t, x) = End(s, x)
  BY DEF End
<1>2. \A x \in Live(s) : InPlace(t, x) /\ NextRight(t, x) /\ PrevRight(t, x)
  BY <1>1 DEF Placed, InPlace, NextRight, PrevRight
<1>3. \A g, h \in Live(s) : g # h => Apart(t, g, h)
  BY <1>1 DEF Placed, Apart
<1>4. \A r \in Areas : FirstRight(t, r)
  BY DEF Placed, FirstRight
<1> QED
  BY <1>2, <1>3, <1>4 DEF Placed

\* From s to t chunk c is cut in two, h is its second half.
Cut(s, t, c, h) ==
  LET l == s.header[c].level + 1
      n == s.header[c].nextInVs
  IN  /\ c \in Live(s) /\ h \notin Live(s) /\ h # Null /\ l \in Levels
      /\ Live(t) = Live(s) \cup {h} /\ t.firstOf = s.firstOf
      /\ \A x \in Live(s) :
           /\ t.header[x].base = s.header[x].base
           /\ t.header[x].level = IF x = c THEN l ELSE s.header[x].level
           /\ t.header[x].nextInVs = IF x = c THEN h ELSE s.header[x].nextInVs
           /\ t.header[x].prevInVs = IF x = n THEN h ELSE s.header[x].prevInVs
      /\ t.header[h].base = s.header[c].base + WordSize[l] /\ t.header[h].level = l
      /\ t.header[h].nextInVs = n /\ t.header[h].prevInVs = c

\* The halves are in place.
LEMMA CutPlaced ==
  ASSUME NEW s \in HeapSet, Placed(s), NEW t \in HeapSet, NEW c, NEW h, Cut(s, t, c, h)
  PROVE  Placed(t)
<1> DEFINE l == s.header[c].level + 1
           b == s.header[c].base
           w == WordSize[l]
           n == s.header[c].nextInVs
<1>1. /\ c \in Live(s) /\ h \notin Live(s) /\ l \in Levels /\ h # Null /\ c # h
      /\ Live(t) = Live(s) \cup {h} /\ t.firstOf = s.firstOf
      /\ \A x \in Live(s) :
           /\ t.header[x].base = s.header[x].base
           /\ t.header[x].level = IF x = c THEN l ELSE s.header[x].level
           /\ t.header[x].nextInVs = IF x = c THEN h ELSE s.header[x].nextInVs
           /\ t.header[x].prevInVs = IF x = n THEN h ELSE s.header[x].prevInVs
      /\ t.header[h].base = b + w /\ t.header[h].level = l
      /\ t.header[h].nextInVs = n /\ t.header[h].prevInVs = c
  BY DEF Cut
<1>2. /\ b \in Nat /\ s.header[c].level \in Levels /\ c # Null
      /\ InPlace(s, c) /\ NextRight(s, c) /\ PrevRight(s, c)
  BY <1>1, PlaceFacts
<1>3. l # RootLevel /\ l - 1 = s.header[c].level
  BY <1>2, LevelRanges DEF RootLevel
<1>4. WordSize[s.header[c].level] = 2 * w /\ w \in Nat \ {0}
  BY <1>1, <1>3, Halving, SizesPositive
<1>5. Block(b, l) = b /\ Block(b + w, l) = b + w /\ Block(b, l - 1) = b
  <2>1. Block(b, l - 1) = b
    BY <1>2, <1>3 DEF InPlace
  <2> QED
    BY <1>1, <1>2, <1>3, <2>1, Halves
<1>6. End(s, c) = b + 2 * w /\ End(t, c) = b + w /\ End(t, h) = b + 2 * w /\ End(t, h) = End(s, c)
  <2>1. End(s, c) = b + 2 * w
    BY <1>4 DEF End
  <2>2. End(t, c) = b + w
    BY <1>1 DEF End
  <2>3. End(t, h) = b + w + w
    BY <1>1 DEF End
  <2> QED
    BY <1>2, <1>4, <2>1, <2>2, <2>3
<1>7. \A x \in Live(s) \ {c} : End(t, x) = End(s, x)
  BY <1>1 DEF End
<1>8. ~AtBorder(b + w)
  <2>1. b + w \in Nat /\ b < b + w /\ b + w < b + WordSize[s.header[c].level]
    BY <1>2, <1>4
  <2>2. Block(b, s.header[c].level) = b
    BY <1>2 DEF InPlace
  <2> QED
    BY <1>2, <2>1, <2>2, NoBorderInside
<1>9. b \in Nat /\ w \in Nat \ {0} /\ NumAreas * RootWords \in Nat /\ End(s, c) <= NumAreas * RootWords
  BY <1>2, <1>4, Borders, AreaSize DEF InPlace
<1> HIDE DEF l, b, w, n
\* Both halves.
<1>10. InPlace(t, c) /\ InPlace(t, h)
  BY <1>1, <1>5, <1>6, <1>9 DEF InPlace, b, l
<1>11. NextRight(t, c) /\ PrevRight(t, h)
  <2>1. /\ t.header[c].nextInVs = h /\ h \in Live(t) /\ t.header[h].base = End(t, c)
        /\ t.header[h].prevInVs = c /\ h # Null /\ c # Null /\ c \in Live(t)
    BY <1>1, <1>2, <1>6
  <2>2. ~AtBorder(End(t, c)) /\ ~AtBorder(t.header[h].base)
    BY <1>6, <1>8, <2>1
  <2> QED
    BY <2>1, <2>2 DEF NextRight, PrevRight
<1>12. NextRight(t, h)
  <2>1. t.header[h].nextInVs = n /\ End(t, h) = End(s, c)
    BY <1>1, <1>6
  <2>2. /\ n = Null <=> AtBorder(End(s, c))
        /\ n # Null => n \in Live(s) /\ s.header[n].base = End(s, c)
    BY <1>2 DEF NextRight, n
  <2>3. n # Null => n \in Live(t) /\ t.header[n].base = s.header[n].base /\ t.header[n].prevInVs = h
    BY <1>1, <2>2
  <2> QED
    BY <2>1, <2>2, <2>3 DEF NextRight
<1>13. PrevRight(t, c)
  <2> DEFINE p == s.header[c].prevInVs
  <2>1. /\ p = Null <=> AtBorder(b)
        /\ p # Null => p \in Live(s) /\ End(s, p) = b /\ s.header[p].nextInVs = c
    BY <1>2 DEF PrevRight, b
  <2>2. c # n
    <3>1. n # Null => s.header[n].base = End(s, c)
      BY <1>2 DEF NextRight, n
    <3>2. s.header[c].base < End(s, c) /\ s.header[c].base \in Nat /\ End(s, c) \in Nat
      BY <1>1, PlaceFacts
    <3> QED
      BY <1>2, <3>1, <3>2
  <2>3. p # c
    <3>1. p # Null => End(s, p) = b
      BY <2>1
    <3>2. b < End(s, c) /\ b \in Nat /\ End(s, c) \in Nat
      BY <1>1, PlaceFacts DEF b
    <3> QED
      BY <1>2, <3>1, <3>2
  <2>4. t.header[c].prevInVs = p /\ t.header[c].base = b
    BY <1>1, <2>2 DEF b
  <2>5. p # Null => p \in Live(t) /\ End(t, p) = End(s, p) /\ t.header[p].nextInVs = s.header[p].nextInVs
    BY <1>1, <1>7, <2>1, <2>3
  <2> HIDE DEF p
  <2> QED
    BY <2>1, <2>4, <2>5 DEF PrevRight
\* The other chunks.
<1>14. ASSUME NEW x \in Live(s), x # c
       PROVE  InPlace(t, x) /\ NextRight(t, x) /\ PrevRight(t, x)
  <2>1. InPlace(s, x) /\ NextRight(s, x) /\ PrevRight(s, x)
    BY DEF Placed
  <2>2. /\ t.header[x].base = s.header[x].base /\ t.header[x].level = s.header[x].level
        /\ End(t, x) = End(s, x) /\ t.header[x].nextInVs = s.header[x].nextInVs
    BY <1>1, <1>7, <1>14
  <2>3. InPlace(t, x)
    BY <2>1, <2>2 DEF InPlace
  <2>4. NextRight(t, x)
    <3> DEFINE m == s.header[x].nextInVs
    <3>1. /\ m = Null <=> AtBorder(End(s, x))
          /\ m # Null => m \in Live(s) /\ s.header[m].base = End(s, x) /\ s.header[m].prevInVs = x
      BY <2>1 DEF NextRight
    <3>2. m # Null => m # n
      <4>1. n # Null => s.header[n].prevInVs = c
        BY <1>2 DEF NextRight, n
      <4> QED
        BY <1>14, <3>1, <4>1
    <3>3. t.header[x].nextInVs = m
      BY <2>2
    <3> HIDE DEF m
    <3>4. m # Null => m \in Live(t) /\ t.header[m].base = s.header[m].base /\ t.header[m].prevInVs = x
      BY <1>1, <3>1, <3>2
    <3> QED
      BY <2>2, <3>1, <3>3, <3>4 DEF NextRight
  <2>5. PrevRight(t, x)
    <3> DEFINE p == s.header[x].prevInVs
    <3>1. /\ p = Null <=> AtBorder(s.header[x].base)
          /\ p # Null => p \in Live(s) /\ End(s, p) = s.header[x].base /\ s.header[p].nextInVs = x
      BY <2>1 DEF PrevRight
    <3> HIDE DEF p
    <3>2. CASE x = n
      <4>1. p = c
        <5>1. x # Null
          BY PlaceFacts
        <5> QED
          BY <1>2, <3>2, <5>1 DEF NextRight, n, p
      <4>2. /\ t.header[x].prevInVs = h /\ h \in Live(t) /\ h # Null
            /\ End(t, h) = t.header[x].base /\ t.header[h].nextInVs = x
        BY <1>1, <1>2, <1>6, <2>2, <3>1, <3>2, <4>1
      <4>3. ~AtBorder(t.header[x].base)
        BY <1>2, <2>2, <3>1, <4>1
      <4> QED
        BY <4>2, <4>3 DEF PrevRight
    <3>3. CASE x # n
      <4>1. p # c
        BY <1>2, <3>1, <3>3 DEF n
      <4>2. t.header[x].prevInVs = p
        BY <1>1, <3>3 DEF p
      <4>3. p # Null => p \in Live(t) /\ End(t, p) = End(s, p) /\ t.header[p].nextInVs = x
        BY <1>1, <1>7, <3>1, <4>1
      <4> QED
        BY <2>2, <3>1, <4>2, <4>3 DEF PrevRight
    <3> QED
      BY <3>2, <3>3
  <2> QED
    BY <2>3, <2>4, <2>5
<1>15. ASSUME NEW g \in Live(t), NEW k \in Live(t), g # k
       PROVE  Apart(t, g, k)
  <2>1. ASSUME NEW x \in Live(s), x # c
        PROVE  Apart(t, x, c) /\ Apart(t, c, x) /\ Apart(t, x, h) /\ Apart(t, h, x)
    <3>1. End(s, x) <= b \/ End(s, c) <= s.header[x].base
      BY <1>1, <2>1 DEF Placed, Apart, b
    <3>2. End(s, x) \in Nat /\ s.header[x].base \in Nat
      BY PlaceFacts
    <3>3. End(t, x) = End(s, x) /\ t.header[x].base = s.header[x].base /\ t.header[c].base = b
      BY <1>1, <1>7, <2>1 DEF b
    <3>4. \/ End(t, x) <= b /\ End(t, x) <= b + w
          \/ End(t, c) <= t.header[x].base /\ End(t, h) <= t.header[x].base
      BY <1>6, <1>9, <3>1, <3>2, <3>3
    <3> QED
      BY <1>1, <3>3, <3>4 DEF Apart
  <2>2. Apart(t, c, h) /\ Apart(t, h, c)
    BY <1>1, <1>6, <1>9 DEF Apart
  <2>3. ASSUME NEW x \in Live(s), NEW y \in Live(s), x # y, x # c, y # c
        PROVE  Apart(t, x, y)
    BY <1>1, <1>7, <2>3 DEF Placed, Apart
  <2> QED
    BY <1>1, <1>15, <2>1, <2>2, <2>3
<1>16. ASSUME NEW r \in Areas
       PROVE  FirstRight(t, r)
  <2>1. FirstRight(s, r) /\ t.firstOf[r] = s.firstOf[r]
    BY <1>1 DEF Placed
  <2>2. CASE t.firstOf[r] # Null
    BY <1>1, <2>1, <2>2 DEF FirstRight
  <2>3. CASE t.firstOf[r] = Null
    <3>1. \A x \in Live(s) : t.header[x].base \div RootWords # r
      BY <1>1, <2>1, <2>3 DEF FirstRight
    <3>2. t.header[h].base \div RootWords = b \div RootWords
      <4>1. Block(b, s.header[c].level) = b
        BY <1>2 DEF InPlace, b
      <4>2. b + w \in Words(b, WordSize[s.header[c].level])
        BY <1>4, <1>9 DEF Words
      <4> QED
        BY <1>1, <1>2, <1>9, <4>1, <4>2, ChunkInArea
    <3>3. t.header[c].base = b
      BY <1>1 DEF b
    <3> QED
      BY <1>1, <2>3, <3>1, <3>2, <3>3 DEF FirstRight
  <2> QED
    BY <2>2, <2>3
<1>17. \A x \in Live(t) : InPlace(t, x) /\ NextRight(t, x) /\ PrevRight(t, x)
  BY <1>1, <1>10, <1>11, <1>12, <1>13, <1>14
<1> QED
  BY <1>15, <1>16, <1>17 DEF Placed

-----------------------------------------------------------------------------

\* From s to t chunk f, the second half of a block whose first half is c, is
\* joined to it.
Joined(s, t, c, f) ==
  LET k == s.header[c].level
      n == s.header[f].nextInVs
  IN  /\ c \in Live(s) /\ f \in Live(s) /\ k > 0 /\ s.header[f].level = k
      /\ Block(s.header[c].base, k - 1) = s.header[c].base
      /\ s.header[c].nextInVs = f
      /\ Live(t) = Live(s) \ {f} /\ t.firstOf = s.firstOf
      /\ \A x \in Live(s) \ {f} :
           /\ t.header[x].base = s.header[x].base
           /\ t.header[x].level = IF x = c THEN k - 1 ELSE s.header[x].level
           /\ t.header[x].nextInVs = IF x = c THEN n ELSE s.header[x].nextInVs
           /\ t.header[x].prevInVs = IF x = n THEN c ELSE s.header[x].prevInVs

\* The whole is in place.
LEMMA JoinedPlaced ==
  ASSUME NEW s \in HeapSet, Placed(s), NEW t \in HeapSet, NEW c, NEW f, Joined(s, t, c, f)
  PROVE  Placed(t)
<1> DEFINE k == s.header[c].level
           b == s.header[c].base
           w == WordSize[k]
           n == s.header[f].nextInVs
<1>1. /\ c \in Live(s) /\ f \in Live(s) /\ k > 0 /\ s.header[f].level = k
      /\ Block(b, k - 1) = b /\ s.header[c].nextInVs = f
      /\ Live(t) = Live(s) \ {f} /\ t.firstOf = s.firstOf
      /\ \A x \in Live(s) \ {f} :
           /\ t.header[x].base = s.header[x].base
           /\ t.header[x].level = IF x = c THEN k - 1 ELSE s.header[x].level
           /\ t.header[x].nextInVs = IF x = c THEN n ELSE s.header[x].nextInVs
           /\ t.header[x].prevInVs = IF x = n THEN c ELSE s.header[x].prevInVs
  BY DEF Joined
<1>2. /\ b \in Nat /\ k \in Levels /\ w \in Nat \ {0} /\ c # Null
      /\ InPlace(s, c) /\ NextRight(s, c) /\ PrevRight(s, c) /\ End(s, c) = b + w
  BY <1>1, PlaceFacts
<1>3. /\ f # Null /\ InPlace(s, f) /\ NextRight(s, f) /\ PrevRight(s, f)
      /\ s.header[f].base \in Nat /\ End(s, f) = s.header[f].base + w
  BY <1>1, PlaceFacts
<1>4. k - 1 \in Levels /\ WordSize[k - 1] = 2 * w
  BY <1>1, <1>2, Halving DEF RootLevel
<1>5. s.header[f].base = b + w /\ s.header[f].prevInVs = c /\ End(s, f) = b + 2 * w /\ c # f
  <2>1. s.header[f].base = b + w /\ s.header[f].prevInVs = c
    BY <1>1, <1>2, <1>3 DEF NextRight
  <2> QED
    BY <1>2, <1>3, <2>1
<1>6. End(t, c) = b + 2 * w /\ c \in Live(t) /\ t.header[c].base = b
  <2>1. c \in Live(t) /\ t.header[c].base = b /\ t.header[c].level = k - 1
    BY <1>1, <1>5
  <2> QED
    BY <1>4, <2>1 DEF End
<1>7. \A x \in Live(t) \ {c} : End(t, x) = End(s, x)
  BY <1>1 DEF End
<1>8. ~AtBorder(b + w)
  <2>1. b + w \in Nat /\ b < b + w /\ b + w < b + WordSize[k - 1]
    BY <1>2, <1>4
  <2> QED
    BY <1>1, <1>2, <1>4, <2>1, NoBorderInside
<1>9. End(s, f) <= NumAreas * RootWords
  BY <1>3 DEF InPlace
<1> HIDE DEF k, b, w, n
<1>10. InPlace(t, c)
  <2>1. t.header[c].level = k - 1 /\ t.header[c].base = b
    BY <1>1, <1>5, <1>6
  <2> QED
    BY <1>1, <1>5, <1>6, <1>9, <2>1 DEF InPlace
<1>11. NextRight(t, c)
  <2>1. /\ n = Null <=> AtBorder(End(s, f))
        /\ n # Null => n \in Live(s) /\ s.header[n].base = End(s, f)
    BY <1>3 DEF NextRight, n
  <2>2. t.header[c].nextInVs = n /\ End(t, c) = End(s, f)
    BY <1>1, <1>5, <1>6
  <2>3. n # Null => n # f
    <3>1. s.header[f].base < End(s, f) /\ s.header[f].base \in Nat /\ End(s, f) \in Nat
      BY <1>1, PlaceFacts
    <3> QED
      BY <2>1, <3>1
  <2>4. n # Null => n \in Live(t) /\ t.header[n].base = s.header[n].base /\ t.header[n].prevInVs = c
    BY <1>1, <2>1, <2>3
  <2> QED
    BY <2>1, <2>2, <2>4 DEF NextRight
<1>12. PrevRight(t, c)
  <2> DEFINE p == s.header[c].prevInVs
  <2>1. /\ p = Null <=> AtBorder(b)
        /\ p # Null => p \in Live(s) /\ End(s, p) = b /\ s.header[p].nextInVs = c
    BY <1>2 DEF PrevRight, b
  <2>2. c # n
    <3>1. n # Null => s.header[n].base = End(s, f)
      BY <1>3 DEF NextRight, n
    <3>2. b \in Nat /\ w \in Nat \ {0} /\ s.header[c].base = b
      BY <1>2 DEF b
    <3> QED
      BY <1>2, <1>5, <3>1, <3>2
  <2>3. p # Null => p # c /\ p # f
    <3>1. b < End(s, c) /\ b \in Nat /\ End(s, c) \in Nat
      BY <1>1, PlaceFacts DEF b
    <3>2. w \in Nat \ {0}
      BY <1>2
    <3> QED
      BY <1>5, <2>1, <3>1, <3>2
  <2>4. t.header[c].prevInVs = p
    BY <1>1, <1>5, <2>2
  <2> HIDE DEF p
  <2>5. p # Null => p \in Live(t) /\ End(t, p) = End(s, p) /\ t.header[p].nextInVs = s.header[p].nextInVs
    BY <1>1, <1>7, <2>1, <2>3
  <2> QED
    BY <1>6, <2>1, <2>4, <2>5 DEF PrevRight
<1>13. ASSUME NEW x \in Live(t), x # c
       PROVE  InPlace(t, x) /\ NextRight(t, x) /\ PrevRight(t, x)
  <2>1. InPlace(s, x) /\ NextRight(s, x) /\ PrevRight(s, x) /\ x \in Live(s) /\ x # f /\ x # Null
    BY <1>1, PlaceFacts DEF Placed
  <2>2. /\ t.header[x].base = s.header[x].base /\ t.header[x].level = s.header[x].level
        /\ End(t, x) = End(s, x) /\ t.header[x].nextInVs = s.header[x].nextInVs
    BY <1>1, <1>7, <1>13, <2>1
  <2>3. InPlace(t, x)
    BY <2>1, <2>2 DEF InPlace
  <2>4. NextRight(t, x)
    <3> DEFINE m == s.header[x].nextInVs
    <3>1. /\ m = Null <=> AtBorder(End(s, x))
          /\ m # Null => m \in Live(s) /\ s.header[m].base = End(s, x) /\ s.header[m].prevInVs = x
      BY <2>1 DEF NextRight
    <3>2. m # Null => m # f /\ m # n
      <4>1. n # Null => s.header[n].prevInVs = f
        BY <1>3 DEF NextRight, n
      <4> QED
        BY <1>5, <1>13, <2>1, <3>1, <4>1
    <3>3. t.header[x].nextInVs = m
      BY <2>2
    <3> HIDE DEF m
    <3>4. m # Null => m \in Live(t) /\ t.header[m].base = s.header[m].base /\ t.header[m].prevInVs = x
      BY <1>1, <3>1, <3>2
    <3> QED
      BY <2>2, <3>1, <3>3, <3>4 DEF NextRight
  <2>5. PrevRight(t, x)
    <3> DEFINE p == s.header[x].prevInVs
    <3>1. /\ p = Null <=> AtBorder(s.header[x].base)
          /\ p # Null => p \in Live(s) /\ End(s, p) = s.header[x].base /\ s.header[p].nextInVs = x
      BY <2>1 DEF PrevRight
    <3> HIDE DEF p
    <3>2. CASE x = n
      <4>1. p = f
        BY <1>3, <2>1, <3>2 DEF NextRight, n, p
      <4>2. /\ t.header[x].prevInVs = c /\ c \in Live(t) /\ c # Null
            /\ End(t, c) = t.header[x].base /\ t.header[c].nextInVs = x
        BY <1>1, <1>2, <1>3, <1>5, <1>6, <2>1, <2>2, <3>1, <3>2, <4>1
      <4>3. ~AtBorder(t.header[x].base)
        BY <1>3, <2>2, <3>1, <4>1
      <4> QED
        BY <4>2, <4>3 DEF PrevRight
    <3>3. CASE x # n
      <4>1. p # Null => p # f /\ p # c
        BY <1>1, <2>1, <3>1, <3>3 DEF n
      <4>2. t.header[x].prevInVs = p
        BY <1>1, <2>1, <3>3 DEF p
      <4>3. p # Null => p \in Live(t) /\ End(t, p) = End(s, p) /\ t.header[p].nextInVs = x
        BY <1>1, <1>7, <3>1, <4>1
      <4> QED
        BY <2>2, <3>1, <4>2, <4>3 DEF PrevRight
    <3> QED
      BY <3>2, <3>3
  <2> QED
    BY <2>3, <2>4, <2>5
<1>14. ASSUME NEW g \in Live(t), NEW h \in Live(t), g # h
       PROVE  Apart(t, g, h)
  <2>1. ASSUME NEW x \in Live(t), x # c
        PROVE  Apart(t, x, c) /\ Apart(t, c, x)
    <3>1. x \in Live(s) /\ x # f
      BY <1>1
    <3>2. /\ End(s, x) <= b \/ b + w <= s.header[x].base
          /\ End(s, x) <= b + w \/ b + 2 * w <= s.header[x].base
      BY <1>1, <1>2, <1>5, <2>1, <3>1 DEF Placed, Apart, b
    <3>3. End(s, x) \in Nat /\ s.header[x].base \in Nat /\ s.header[x].base < End(s, x)
      BY <3>1, PlaceFacts
    <3>4. End(s, x) <= b \/ b + 2 * w <= s.header[x].base
      <4>1. b \in Nat /\ w \in Nat \ {0}
        BY <1>2
      <4> QED
        BY <3>2, <3>3, <4>1
    <3>5. End(t, x) = End(s, x) /\ t.header[x].base = s.header[x].base /\ t.header[c].base = b
      BY <1>1, <1>6, <1>7, <2>1, <3>1
    <3> QED
      BY <1>6, <3>4, <3>5 DEF Apart
  <2>2. ASSUME NEW x \in Live(t), NEW y \in Live(t), x # y, x # c, y # c
        PROVE  Apart(t, x, y)
    BY <1>1, <1>7, <2>2 DEF Placed, Apart
  <2> QED
    BY <1>14, <2>1, <2>2
<1>15. ASSUME NEW r \in Areas
       PROVE  FirstRight(t, r)
  <2>1. FirstRight(s, r) /\ t.firstOf[r] = s.firstOf[r]
    BY <1>1 DEF Placed
  <2>2. CASE t.firstOf[r] # Null
    <3>1. s.firstOf[r] \in Live(s) /\ s.header[s.firstOf[r]].base = r * RootWords
      BY <2>1, <2>2 DEF FirstRight
    <3>2. s.firstOf[r] # f
      <4>1. AtBorder(r * RootWords)
        BY Borders, AreaSize
      <4> QED
        BY <1>5, <1>8, <3>1, <4>1
    <3> QED
      BY <1>1, <2>1, <2>2, <3>1, <3>2 DEF FirstRight
  <2>3. CASE t.firstOf[r] = Null
    BY <1>1, <2>1, <2>3 DEF FirstRight
  <2> QED
    BY <2>2, <2>3
<1>16. \A x \in Live(t) : InPlace(t, x) /\ NextRight(t, x) /\ PrevRight(t, x)
  BY <1>10, <1>11, <1>12, <1>13
<1> QED
  BY <1>14, <1>15, <1>16 DEF Placed

\* From s to t header h comes to stand for the root chunk of area r.
Rooted(s, t, h, r) ==
  /\ h \notin Live(s) /\ h # Null /\ s.firstOf[r] = Null
  /\ Live(t) = Live(s) \cup {h} /\ t.firstOf = [s.firstOf EXCEPT ![r] = h]
  /\ \A x \in Live(s) :
       /\ t.header[x].base = s.header[x].base /\ t.header[x].level = s.header[x].level
       /\ t.header[x].prevInVs = s.header[x].prevInVs
       /\ t.header[x].nextInVs = s.header[x].nextInVs
  /\ t.header[h].base = r * RootWords /\ t.header[h].level = 0
  /\ t.header[h].nextInVs = Null /\ t.header[h].prevInVs = Null

\* It is in place.
LEMMA RootedPlaced ==
  ASSUME NEW s \in HeapSet, Placed(s), NEW t \in HeapSet, NEW h, NEW r \in Areas, Rooted(s, t, h, r)
  PROVE  Placed(t)
<1> DEFINE b == r * RootWords
<1>1. /\ h \notin Live(s) /\ h # Null /\ s.firstOf[r] = Null
      /\ Live(t) = Live(s) \cup {h} /\ t.firstOf = [s.firstOf EXCEPT ![r] = h]
      /\ \A x \in Live(s) :
           /\ t.header[x].base = s.header[x].base /\ t.header[x].level = s.header[x].level
           /\ t.header[x].prevInVs = s.header[x].prevInVs
           /\ t.header[x].nextInVs = s.header[x].nextInVs
      /\ t.header[h].base = b /\ t.header[h].level = 0
      /\ t.header[h].nextInVs = Null /\ t.header[h].prevInVs = Null
  BY DEF Rooted
<1>2. s.firstOf \in [Areas -> Nat]
  BY DEF HeapSet
<1>3. r \in Nat /\ r < NumAreas /\ NumAreas \in Nat
  BY AreaSize DEF Areas
<1>4. /\ b \in Nat /\ RootWords \in Nat \ {0} /\ AtBorder(b) /\ AtBorder(b + RootWords)
      /\ b + RootWords = (r + 1) * RootWords /\ b + RootWords <= NumAreas * RootWords
  <2>1. RootWords \in Nat \ {0} /\ b \in Nat /\ AtBorder(b) /\ AtBorder((r + 1) * RootWords)
    BY <1>3, Borders
  <2>2. b + RootWords = (r + 1) * RootWords
    BY <1>3, <2>1
  <2>3. (r + 1) * RootWords <= NumAreas * RootWords
    BY <1>3, <2>1
  <2> QED
    BY <2>1, <2>2, <2>3
<1>5. End(t, h) = b + RootWords /\ \A x \in Live(s) : End(t, x) = End(s, x)
  BY <1>1, Borders DEF End, RootLevel
<1>6. \A x \in Live(s) : s.header[x].base \div RootWords # r
  BY <1>1 DEF Placed, FirstRight
<1> HIDE DEF b
<1>7. InPlace(t, h) /\ NextRight(t, h) /\ PrevRight(t, h)
  <2>1. Block(b, 0) = b
    BY <1>4 DEF AtBorder, RootLevel
  <2> QED
    BY <1>1, <1>4, <1>5, <2>1 DEF InPlace, NextRight, PrevRight
<1>8. ASSUME NEW x \in Live(s)
      PROVE  InPlace(t, x) /\ NextRight(t, x) /\ PrevRight(t, x)
  <2>1. InPlace(s, x) /\ NextRight(s, x) /\ PrevRight(s, x)
    BY DEF Placed
  <2> QED
    BY <1>1, <1>5, <2>1 DEF InPlace, NextRight, PrevRight
<1>9. ASSUME NEW x \in Live(s)
      PROVE  Apart(t, x, h) /\ Apart(t, h, x)
  <2> DEFINE y == s.header[x].base
             e == End(s, x)
             q == y \div RootWords
  <2>1. /\ q \in Nat /\ q * RootWords \in Nat /\ q * RootWords <= y
        /\ e <= q * RootWords + RootWords /\ y \in Nat /\ e \in Nat
    <3>1. /\ y \in Nat /\ s.header[x].level \in Levels /\ Block(y, s.header[x].level) = y
          /\ e = y + WordSize[s.header[x].level] /\ e \in Nat
      BY PlaceFacts DEF InPlace
    <3> HIDE DEF y, e
    <3> QED
      BY <3>1, AreaSpan
  <2>2. q # r
    BY <1>6
  <2> HIDE DEF q
  <2>3. e <= b \/ b + RootWords <= y
    <3>1. CASE q < r
      <4>1. q * RootWords + RootWords = (q + 1) * RootWords /\ (q + 1) * RootWords <= r * RootWords
        BY <1>3, <1>4, <2>1, <3>1
      <4>2. e <= q * RootWords + RootWords /\ q * RootWords + RootWords <= b
        BY <2>1, <4>1 DEF b
      <4>3. q * RootWords + RootWords \in Nat /\ e \in Nat /\ b \in Nat
        BY <1>4, <2>1
      <4> HIDE DEF e
      <4> QED
        BY <4>2, <4>3
    <3>2. CASE q > r
      <4>1. (r + 1) * RootWords <= q * RootWords
        BY <1>3, <1>4, <2>1, <3>2
      <4>2. b + RootWords <= q * RootWords /\ q * RootWords <= y
        BY <1>4, <2>1, <4>1
      <4>3. q * RootWords \in Nat /\ y \in Nat /\ b + RootWords \in Nat
        BY <1>4, <2>1
      <4> HIDE DEF y
      <4> QED
        BY <4>2, <4>3
    <3> QED
      BY <1>3, <2>1, <2>2, <3>1, <3>2
  <2> QED
    BY <1>1, <1>5, <2>3 DEF Apart
<1>10. \A x, y \in Live(s) : x # y => Apart(t, x, y)
  BY <1>1, <1>5 DEF Placed, Apart
<1>11. ASSUME NEW m \in Areas
       PROVE  FirstRight(t, m)
  <2>1. CASE m = r
    <3>1. t.firstOf[m] = h
      BY <1>1, <1>2, <2>1
    <3> QED
      BY <1>1, <2>1, <3>1 DEF FirstRight, b
  <2>2. CASE m # r
    <3>1. t.firstOf[m] = s.firstOf[m] /\ FirstRight(s, m)
      BY <1>1, <1>2, <2>2 DEF Placed
    <3>2. b \div RootWords = r
      <4>1. r * RootWords <= b /\ b < r * RootWords + RootWords
        BY <1>4 DEF b
      <4> QED
        BY <1>3, <1>4, <4>1, QuotientUnique
    <3> QED
      BY <1>1, <2>2, <3>1, <3>2 DEF FirstRight
  <2> QED
    BY <2>1, <2>2
<1>12. \A x \in Live(t) : InPlace(t, x) /\ NextRight(t, x) /\ PrevRight(t, x)
  BY <1>1, <1>7, <1>8
<1>13. \A x, y \in Live(t) : x # y => Apart(t, x, y)
  BY <1>1, <1>9, <1>10
<1> QED
  BY <1>11, <1>12, <1>13 DEF Placed

\* From s to t the root chunk c of area r is gone with its node.
Uprooted(s, t, c, r) ==
  /\ c \in Live(s) /\ s.firstOf[r] = c /\ s.header[c].level = 0
  /\ Live(t) = Live(s) \ {c} /\ t.firstOf = [s.firstOf EXCEPT ![r] = Null]
  /\ \A x \in Live(s) \ {c} :
       /\ t.header[x].base = s.header[x].base /\ t.header[x].level = s.header[x].level
       /\ t.header[x].prevInVs = s.header[x].prevInVs
       /\ t.header[x].nextInVs = s.header[x].nextInVs

\* The other chunks are in place.
LEMMA UprootedPlaced ==
  ASSUME NEW s \in HeapSet, Placed(s), NEW t \in HeapSet, NEW c, NEW r \in Areas, Uprooted(s, t, c, r)
  PROVE  Placed(t)
<1> DEFINE b == r * RootWords
<1>1. /\ c \in Live(s) /\ s.firstOf[r] = c /\ s.header[c].level = 0 /\ c # Null
      /\ Live(t) = Live(s) \ {c} /\ t.firstOf = [s.firstOf EXCEPT ![r] = Null]
      /\ \A x \in Live(s) \ {c} :
           /\ t.header[x].base = s.header[x].base /\ t.header[x].level = s.header[x].level
           /\ t.header[x].prevInVs = s.header[x].prevInVs
           /\ t.header[x].nextInVs = s.header[x].nextInVs
  BY PlaceFacts DEF Uprooted
<1>2. s.firstOf \in [Areas -> Nat] /\ r \in Nat
  BY AreaSize DEF HeapSet
<1>3. s.header[c].base = b
  BY <1>1 DEF Placed, FirstRight
<1>4. b \in Nat /\ RootWords \in Nat \ {0} /\ AtBorder(b) /\ AtBorder(b + RootWords)
  <2>1. RootWords \in Nat \ {0} /\ b \in Nat /\ AtBorder(b) /\ AtBorder((r + 1) * RootWords)
    BY <1>2, Borders
  <2>2. b + RootWords = (r + 1) * RootWords
    BY <1>2, <2>1
  <2> QED
    BY <2>1, <2>2
<1>5. End(s, c) = b + RootWords
  BY <1>1, <1>3, Borders DEF End, RootLevel
<1>6. \A x \in Live(t) : x \in Live(s) /\ x # c /\ End(t, x) = End(s, x) /\ x # Null
  BY <1>1, PlaceFacts DEF End
<1> HIDE DEF b
<1>7. ASSUME NEW x \in Live(t)
      PROVE  InPlace(t, x) /\ NextRight(t, x) /\ PrevRight(t, x)
  <2>1. InPlace(s, x) /\ NextRight(s, x) /\ PrevRight(s, x)
    BY <1>6 DEF Placed
  <2>2. s.header[x].nextInVs # c
    BY <1>1, <1>3, <1>4, <2>1 DEF NextRight
  <2>3. s.header[x].prevInVs # c
    BY <1>1, <1>4, <1>5, <2>1 DEF PrevRight
  <2>4. InPlace(t, x)
    BY <1>1, <1>6, <2>1 DEF InPlace
  <2>5. NextRight(t, x)
    BY <1>1, <1>6, <2>1, <2>2 DEF NextRight
  <2>6. PrevRight(t, x)
    BY <1>1, <1>6, <2>1, <2>3 DEF PrevRight
  <2> QED
    BY <2>4, <2>5, <2>6
<1>8. \A x, y \in Live(t) : x # y => Apart(t, x, y)
  BY <1>1, <1>6 DEF Placed, Apart
<1>9. ASSUME NEW m \in Areas
      PROVE  FirstRight(t, m)
  <2>1. CASE m = r
    <3>1. ASSUME NEW x \in Live(t)
          PROVE  t.header[x].base \div RootWords # r
      <4> DEFINE y == s.header[x].base
      <4>1. End(s, x) <= b \/ b + RootWords <= y
        BY <1>1, <1>3, <1>5, <1>6 DEF Placed, Apart
      <4>2. y \in Nat /\ End(s, x) \in Nat /\ y < End(s, x)
        BY <1>6, PlaceFacts
      <4>3. y \div RootWords \in Nat /\ (y \div RootWords) * RootWords <= y
            /\ y < (y \div RootWords) * RootWords + RootWords
        BY <1>4, <4>2, DivisionBounds
      <4>4. y \div RootWords # r
        <5>1. y < b \/ b + RootWords <= y
          <6> HIDE DEF y
          <6> QED
            BY <1>4, <4>1, <4>2
        <5> HIDE DEF y
        <5> QED
          BY <1>2, <1>4, <4>2, <4>3, <5>1 DEF b
      <4> QED
        BY <1>1, <1>6, <4>4
    <3>2. t.firstOf[m] = Null
      BY <1>1, <1>2, <2>1
    <3> QED
      BY <2>1, <3>1, <3>2 DEF FirstRight
  <2>2. CASE m # r
    <3>1. t.firstOf[m] = s.firstOf[m] /\ FirstRight(s, m)
      BY <1>1, <1>2, <2>2 DEF Placed
    <3>2. s.firstOf[m] # c
      <4>1. s.firstOf[m] = c => m * RootWords = r * RootWords
        BY <1>1, <1>3, <3>1 DEF FirstRight, b
      <4>2. m \in Nat
        BY AreaSize
      <4> QED
        BY <1>2, <1>4, <2>2, <4>1, <4>2
    <3> QED
      BY <1>1, <1>6, <3>1, <3>2 DEF FirstRight
  <2> QED
    BY <2>1, <2>2
<1> QED
  BY <1>7, <1>8, <1>9 DEF Placed

-----------------------------------------------------------------------------

\* More headers than can be placed are never handed out: chunks apart from each
\* other start in blocks of their own.
LEMMA PlacedFew ==
  ASSUME NEW s \in HeapSet, Placed(s)
  PROVE  MostChunks \in Nat /\ Cardinality(Live(s)) <= MostChunks
<1> DEFINE w == WordSize[HighestLevel]
           f == [h \in Live(s) |-> s.header[h].base \div w]
           total == NumAreas * RootWords
<1>1. w \in Nat \ {0} /\ total \in Nat /\ HighestLevel \in Levels
  <2>1. HighestLevel \in Levels /\ NumAreas \in Nat
    BY GeometryAssumption, AreaSize DEF Levels
  <2> QED
    BY <2>1, SizesPositive, Borders
<1>2. MostChunks = total \div w /\ total \div w \in Nat
      /\ (total \div w) * w <= total /\ total < (total \div w) * w + w
  BY <1>1, DivisionBounds DEF MostChunks
<1>3. ASSUME NEW h \in Live(s)
      PROVE  /\ s.header[h].base \in Nat /\ End(s, h) \in Nat
             /\ s.header[h].base + w <= End(s, h) /\ End(s, h) <= total
  <2>1. /\ s.header[h].base \in Nat /\ s.header[h].level \in Levels /\ End(s, h) \in Nat
        /\ End(s, h) = s.header[h].base + WordSize[s.header[h].level] /\ InPlace(s, h)
        /\ WordSize[s.header[h].level] \in Nat \ {0}
    BY PlaceFacts
  <2>2. w <= WordSize[s.header[h].level]
    <3>1. s.header[h].level <= HighestLevel
      BY <2>1, GeometryAssumption DEF Levels
    <3> QED
      BY <1>1, <2>1, <3>1, SizesFall
  <2>3. End(s, h) <= total
    BY <2>1 DEF InPlace
  <2> QED
    BY <1>1, <2>1, <2>2, <2>3
<1> HIDE DEF w, total
<1>4. ASSUME NEW h \in Live(s)
      PROVE  f[h] \in 0..(MostChunks - 1)
  <2> DEFINE b == s.header[h].base
             q == b \div w
  <2>1. b \in Nat /\ b + w <= total
    BY <1>1, <1>3
  <2> HIDE DEF b
  <2>2. q \in Nat /\ q * w <= b /\ q * w \in Nat
    BY <1>1, <2>1, DivisionBounds
  <2> HIDE DEF q
  <2>3. q * w + w <= total
    BY <1>1, <2>1, <2>2
  <2>4. q < total \div w
    <3>1. q * w + w < (total \div w) * w + w + 1
      BY <1>1, <1>2, <2>2, <2>3
    <3>2. CASE q >= total \div w
      <4>1. q * w >= (total \div w) * w
        BY <1>1, <1>2, <2>2, <3>2
      <4> QED
        BY <1>1, <1>2, <2>2, <2>3, <4>1
    <3> QED
      BY <1>2, <2>2, <3>2
  <2>5. f[h] = q
    BY DEF q, b
  <2> QED
    BY <1>2, <2>2, <2>4, <2>5
<1>5. ASSUME NEW g \in Live(s), NEW h \in Live(s), f[g] = f[h]
      PROVE  g = h
  <2> DEFINE b == s.header[g].base
             c == s.header[h].base
             q == b \div w
  <2>1. b \in Nat /\ c \in Nat /\ b \div w = q /\ c \div w = q
    BY <1>3, <1>5
  <2>2. q \in Nat /\ q * w \in Nat /\ q * w <= b /\ b < q * w + w /\ q * w <= c /\ c < q * w + w
    <3> HIDE DEF b, c
    <3> QED
      BY <1>1, <2>1, DivisionBounds
  <2>3. g # h => b + w <= c \/ c + w <= b
    <3>1. g # h => End(s, g) <= c \/ End(s, h) <= b
      BY DEF Placed, Apart
    <3>2. b + w <= End(s, g) /\ End(s, g) \in Nat /\ c + w <= End(s, h) /\ End(s, h) \in Nat
      BY <1>3
    <3> HIDE DEF b, c
    <3> QED
      BY <1>1, <2>1, <3>1, <3>2
  <2> HIDE DEF b, c, q
  <2> QED
    BY <1>1, <2>1, <2>2, <2>3
<1>6. f \in Injection(Live(s), 0..(MostChunks - 1))
  BY <1>4, <1>5 DEF Injection, IsInjective
<1>7. IsFiniteSet(0..(MostChunks - 1)) /\ Cardinality(0..(MostChunks - 1)) = MostChunks
  <2>1. 0 \in Int /\ MostChunks - 1 \in Int
    BY <1>2
  <2> QED
    BY <1>2, <2>1, FS_Interval
<1>8. IsFiniteSet(Live(s))
  BY LiveAndSpare
<1> QED
  BY <1>2, <1>6, <1>7, <1>8, FS_Injection

\* What Wire does with the neighbour n, and Unwire.
Wired(s, c, h, n)   == SetNextInVs(SetPrevInVs(SetNextInVs(SetPrevInVs(s, n, h), h, n), h, c), c, h)
Unwired(s, c, n) == SetNextInVs(SetPrevInVs(s, n, c), c, n)

\* A header comes between c and its neighbour.
LEMMA WirePut ==
  ASSUME NEW s \in HeapSet, NEW c \in DOMAIN s.header, NEW h \in DOMAIN s.header,
         NEW n \in DOMAIN s.header \cup {Null}, c # h, n # c, n # h
  PROVE  /\ SameFields(s, Wired(s, c, h, n), {"nextInVs", "prevInVs"})
         /\ \A x \in DOMAIN s.header :
              /\ Wired(s, c, h, n).header[x].nextInVs
                   = IF x = c THEN h ELSE IF x = h THEN n ELSE s.header[x].nextInVs
              /\ Wired(s, c, h, n).header[x].prevInVs
                   = IF x = h THEN c ELSE IF x = n THEN h ELSE s.header[x].prevInVs
<1> DEFINE a == SetPrevInVs(s, n, h)
           b == SetNextInVs(a, h, n)
           d == SetPrevInVs(b, h, c)
           t == SetNextInVs(d, c, h)
<1>1. c \in Nat /\ h \in Nat /\ n \in Nat
  BY HeaderFields DEF Null
<1>12. n \in DOMAIN s.header \cup {Null}
  OBVIOUS
<1>2. Wired(s, c, h, n) = t
  BY DEF Wired
<1>3. /\ SameFields(s, a, {"prevInVs"})
      /\ \A x \in DOMAIN s.header : a.header[x].prevInVs = IF x = n THEN h ELSE s.header[x].prevInVs
  BY <1>1, <1>12, SetPrevInVsPut
<1> HIDE DEF a
<1>4. a \in HeapSet /\ DOMAIN a.header = DOMAIN s.header
  BY <1>3 DEF SameFields
<1>5. /\ SameFields(a, b, {"nextInVs"})
      /\ \A x \in DOMAIN a.header : b.header[x].nextInVs = IF x = h THEN n ELSE a.header[x].nextInVs
  BY <1>1, <1>4, SetNextInVsPut
<1> HIDE DEF b
<1>6. b \in HeapSet /\ DOMAIN b.header = DOMAIN s.header
  BY <1>4, <1>5 DEF SameFields
<1>7. /\ SameFields(b, d, {"prevInVs"})
      /\ \A x \in DOMAIN b.header : d.header[x].prevInVs = IF x = h THEN c ELSE b.header[x].prevInVs
  BY <1>1, <1>6, SetPrevInVsPut
<1> HIDE DEF d
<1>8. d \in HeapSet /\ DOMAIN d.header = DOMAIN s.header
  BY <1>6, <1>7 DEF SameFields
<1>9. /\ SameFields(d, t, {"nextInVs"})
      /\ \A x \in DOMAIN d.header : t.header[x].nextInVs = IF x = c THEN h ELSE d.header[x].nextInVs
  BY <1>1, <1>8, SetNextInVsPut
<1> HIDE DEF t
<1>10. SameFields(s, t, {"nextInVs", "prevInVs"})
  BY <1>3, <1>5, <1>7, <1>9 DEF SameFields
<1>11. \A x \in DOMAIN s.header :
         /\ t.header[x].nextInVs = IF x = c THEN h ELSE IF x = h THEN n ELSE s.header[x].nextInVs
         /\ t.header[x].prevInVs = IF x = h THEN c ELSE IF x = n THEN h ELSE s.header[x].prevInVs
  BY <1>3, <1>4, <1>5, <1>6, <1>7, <1>8, <1>9 DEF SameFields
<1> QED
  BY <1>2, <1>10, <1>11

\* A header goes from between c and its neighbour.
LEMMA UnwirePut ==
  ASSUME NEW s \in HeapSet, NEW c \in DOMAIN s.header,
         NEW n \in DOMAIN s.header \cup {Null}
  PROVE  /\ SameFields(s, Unwired(s, c, n), {"nextInVs", "prevInVs"})
         /\ \A x \in DOMAIN s.header :
              /\ Unwired(s, c, n).header[x].nextInVs = IF x = c THEN n ELSE s.header[x].nextInVs
              /\ Unwired(s, c, n).header[x].prevInVs = IF x = n THEN c ELSE s.header[x].prevInVs
<1>1. c \in Nat /\ n \in Nat
  BY HeaderFields DEF Null
<1>9. n \in DOMAIN s.header \cup {Null}
  OBVIOUS
<1> DEFINE b == SetPrevInVs(s, n, c)
           u == SetNextInVs(b, c, n)
<1>3. /\ SameFields(s, b, {"prevInVs"})
      /\ \A x \in DOMAIN s.header : b.header[x].prevInVs = IF x = n THEN c ELSE s.header[x].prevInVs
  BY <1>1, <1>9, SetPrevInVsPut
<1>4. Unwired(s, c, n) = u
  BY DEF Unwired
<1> HIDE DEF b
<1>5. b \in HeapSet /\ DOMAIN b.header = DOMAIN s.header
  BY <1>3 DEF SameFields
<1>6. /\ SameFields(b, u, {"nextInVs"})
      /\ \A x \in DOMAIN b.header : u.header[x].nextInVs = IF x = c THEN n ELSE b.header[x].nextInVs
  BY <1>1, <1>5, SetNextInVsPut
<1> HIDE DEF u
<1>7. SameFields(s, u, {"nextInVs", "prevInVs"})
  BY <1>3, <1>6 DEF SameFields
<1>8. \A x \in DOMAIN s.header :
        /\ u.header[x].nextInVs = IF x = c THEN n ELSE s.header[x].nextInVs
        /\ u.header[x].prevInVs = IF x = n THEN c ELSE s.header[x].prevInVs
  BY <1>3, <1>5, <1>6 DEF SameFields
<1> QED
  BY <1>4, <1>7, <1>8

-----------------------------------------------------------------------------

\* The pool stays when no header it holds, or lacks, changes.
LEMMA PoolLinkedSame ==
  ASSUME NEW s \in HeapSet, PoolLinked(s), NEW t \in HeapSet, Len(t.header) = Len(s.header),
         t.slabs = s.slabs, t.handedOut = s.handedOut, t.chain["pool"] = s.chain["pool"],
         Live(t) = Live(s), Spare(t) = Spare(s),
         \A x \in Spare(s) : t.header[x].next = s.header[x].next
  PROVE  PoolLinked(t)
<1> DEFINE S == Spare(s)
           first == s.chain["pool"].first
           n == Nexts(s)
           m == Nexts(t)
<1>1. OneWay(S, first, n)
  BY DEF PoolLinked
<1>2. \A x \in S : m[x] = n[x]
  BY DEF Nexts, Spare
<1> HIDE DEF S, first, n, m
<1>3. OneWay(S, first, m)
  BY <1>1, <1>2, OneWaySame
<1>4. OneWay(Spare(t), t.chain["pool"].first, Nexts(t))
  BY <1>3 DEF S, first, m
<1> QED
  BY <1>4 DEF PoolLinked

\* The lists stay when a header that is in none comes into hand.
LEMMA AllocatedFree ==
  ASSUME NEW s \in HeapSet, NEW X, FreeLinked(s, X), NEW t, NEW h, NEW content,
         Allocated(s, t, h, content)
  PROVE  FreeLinked(t, X \cup {h})
<1>1. /\ t \in HeapSet /\ t.free = s.free /\ h \notin Live(s)
      /\ DOMAIN t.header = DOMAIN s.header \cup {h} /\ Live(t) = Live(s) \cup {h}
      /\ \A x \in Live(s) : Same(t.header[x], s.header[x])
  BY DEF Allocated
<1>2. \A x \in DOMAIN s.header : Free(s, x) => x \in Live(s)
  BY DEF Live, Free
<1>3. \A x \in DOMAIN t.header : Free(t, x) => x \in Live(t)
  BY DEF Live, Free
<1>4. \A x \in Live(s) : /\ x \in DOMAIN s.header /\ x # h
                         /\ Free(t, x) <=> Free(s, x)
                         /\ t.header[x].level = s.header[x].level
                         /\ t.header[x].next = s.header[x].next
                         /\ t.header[x].prev = s.header[x].prev
  BY <1>1 DEF Live, Free, Same
<1>5. \A l \in Levels : Idle(t, l, X \cup {h}) = Idle(s, l, X)
  BY <1>1, <1>2, <1>3, <1>4 DEF Idle
<1>6. \A l \in Levels : \A x \in Idle(s, l, X) : x \in Live(s)
  BY <1>2 DEF Idle
<1> DEFINE Y == X \cup {h}
<1>7. /\ t \in HeapSet /\ t.free = s.free /\ DOMAIN s.header \subseteq DOMAIN t.header
      /\ \A l \in Levels : Idle(t, l, Y) = Idle(s, l, X)
      /\ \A l \in Levels : \A x \in Idle(s, l, X) : /\ t.header[x].next = s.header[x].next
                                                      /\ t.header[x].prev = s.header[x].prev
  BY <1>1, <1>4, <1>5, <1>6
<1> HIDE DEF Y
<1>8. FreeLinked(t, Y)
  BY <1>7, FreeLinkedSame
<1> QED
  BY <1>8 DEF Y

\* And when one in hand goes to the pool.
LEMMA ReleasedFree ==
  ASSUME NEW s \in HeapSet, NEW X, FreeLinked(s, X), NEW t, NEW h \in X, Released(s, t, h)
  PROVE  FreeLinked(t, X \ {h})
<1>1. /\ t \in HeapSet /\ t.free = s.free /\ DOMAIN t.header = DOMAIN s.header
      /\ Live(t) = Live(s) \ {h}
      /\ \A x \in Live(s) \ {h} : Same(t.header[x], s.header[x])
  BY DEF Released
<1>2. \A x \in DOMAIN s.header : Free(s, x) => x \in Live(s)
  BY DEF Live, Free
<1>3. \A x \in DOMAIN t.header : Free(t, x) => x \in Live(s) /\ x # h
  BY <1>1 DEF Live, Free
<1>4. \A x \in Live(s) \ {h} : /\ Free(t, x) <=> Free(s, x)
                               /\ t.header[x].level = s.header[x].level
                               /\ t.header[x].next = s.header[x].next
                               /\ t.header[x].prev = s.header[x].prev
  BY <1>1 DEF Live, Free, Same
<1>5. \A l \in Levels : Idle(t, l, X \ {h}) = Idle(s, l, X)
  BY <1>1, <1>2, <1>3, <1>4 DEF Idle
<1>6. \A l \in Levels : \A x \in Idle(s, l, X) : x \in Live(s) \ {h}
  BY <1>2 DEF Idle
<1> DEFINE Y == X \ {h}
<1>7. /\ t \in HeapSet /\ t.free = s.free /\ DOMAIN s.header \subseteq DOMAIN t.header
      /\ \A l \in Levels : Idle(t, l, Y) = Idle(s, l, X)
      /\ \A l \in Levels : \A x \in Idle(s, l, X) : /\ t.header[x].next = s.header[x].next
                                                      /\ t.header[x].prev = s.header[x].prev
  BY <1>1, <1>4, <1>5, <1>6
<1> HIDE DEF Y
<1>8. FreeLinked(t, Y)
  BY <1>7, FreeLinkedSame
<1> QED
  BY <1>8 DEF Y

\* From s to t, but for the chunks in C, what the arenas see stays.
Spared(s, t, C) ==
  /\ \A a \in Arenas : t.chain[a] = s.chain[a]
  /\ InUse(t) \ C = InUse(s) \ C
  /\ \A x \in InUse(s) \ C :
       /\ t.header[x].next = s.header[x].next
       /\ t.header[x].base = s.header[x].base /\ t.header[x].level = s.header[x].level

\* Step after step.
LEMMA SparedOn ==
  ASSUME NEW s, NEW t, NEW u, NEW C, Spared(s, t, C), Spared(t, u, C)
  PROVE  Spared(s, u, C)
BY DEF Spared

\* What spares all chunks but those in C spares all but those in a larger set.
LEMMA SparedMore ==
  ASSUME NEW s, NEW t, NEW C, NEW D, Spared(s, t, C), C \subseteq D
  PROVE  Spared(s, t, D)
BY DEF Spared

\* The heap but for the chunks in hand: those of X are free and in no list.
Sound(s, X) ==
  /\ s \in HeapSet /\ Placed(s) /\ FreeLinked(s, X) /\ PoolLinked(s)
  /\ Len(s.header) <= MostChunks

\* Free lists are all that changes: this concerns nobody else.
LEMMA RelinkedFrame ==
  ASSUME NEW s \in HeapSet, NEW t, Relinked(s, t)
  PROVE  /\ t \in HeapSet /\ DOMAIN t.header = DOMAIN s.header /\ Len(t.header) = Len(s.header)
         /\ Live(t) = Live(s) /\ Spare(t) = Spare(s) /\ InUse(t) = InUse(s)
         /\ \A x \in DOMAIN s.header : Free(t, x) <=> Free(s, x)
         /\ Spared(s, t, {})
         /\ Placed(s) => Placed(t)
         /\ PoolLinked(s) => PoolLinked(t)
<1>1. /\ t \in HeapSet /\ Len(t.header) = Len(s.header) /\ DOMAIN t.header = DOMAIN s.header
      /\ t.slabs = s.slabs /\ t.handedOut = s.handedOut /\ t.chain = s.chain /\ t.firstOf = s.firstOf
      /\ \A x \in DOMAIN s.header :
           /\ t.header[x].base = s.header[x].base /\ t.header[x].level = s.header[x].level
           /\ t.header[x].state = s.header[x].state
           /\ t.header[x].prevInVs = s.header[x].prevInVs
           /\ t.header[x].nextInVs = s.header[x].nextInVs
           /\ ~Free(s, x) => t.header[x].prev = s.header[x].prev /\ t.header[x].next = s.header[x].next
  BY DEF Relinked
<1>2. /\ Live(t) = Live(s) /\ Spare(t) = Spare(s) /\ InUse(t) = InUse(s)
      /\ \A x \in DOMAIN s.header : Free(t, x) <=> Free(s, x)
  BY <1>1 DEF Live, Spare, InUse, Free
<1>3. \A x \in InUse(s) \cup Spare(s) : x \in DOMAIN s.header /\ ~Free(s, x)
  BY DEF InUse, Spare, Free
<1>4. Spared(s, t, {})
  BY <1>1, <1>2, <1>3 DEF Spared
<1>5. \A x \in Live(s) : x \in DOMAIN s.header
  BY DEF Live
<1>6. Placed(s) => Placed(t)
  BY <1>1, <1>2, <1>5, PlacedSame
<1>7. PoolLinked(s) => PoolLinked(t)
  BY <1>1, <1>2, <1>3, PoolLinkedSame
<1> QED
  BY <1>1, <1>2, <1>4, <1>6, <1>7

-----------------------------------------------------------------------------

\* What a chunk in hand becomes does not concern the lists.
LEMMA HandFrame ==
  ASSUME NEW s \in HeapSet, NEW t, SameFields(s, t, {"level", "state"}),
         NEW c \in Live(s), t.header[c].state # "dead",
         \A x \in DOMAIN s.header \ {c} : /\ t.header[x].level = s.header[x].level
                                          /\ t.header[x].state = s.header[x].state
  PROVE  /\ t \in HeapSet /\ DOMAIN t.header = DOMAIN s.header /\ Len(t.header) = Len(s.header)
         /\ Live(t) = Live(s) /\ Spare(t) = Spare(s)
         /\ Spared(s, t, {c})
         /\ PoolLinked(s) => PoolLinked(t)
         /\ \A X : c \in X /\ FreeLinked(s, X) => FreeLinked(t, X)
<1>1. /\ t \in HeapSet /\ DOMAIN t.header = DOMAIN s.header /\ Len(t.header) = Len(s.header)
      /\ t.slabs = s.slabs /\ t.handedOut = s.handedOut /\ t.chain = s.chain /\ t.free = s.free
      /\ \A x \in DOMAIN s.header : /\ t.header[x].base = s.header[x].base
                                    /\ t.header[x].next = s.header[x].next
                                    /\ t.header[x].prev = s.header[x].prev
  BY DEF SameFields
<1>2. Live(t) = Live(s) /\ Spare(t) = Spare(s)
  BY <1>1 DEF Live, Spare
<1>3. Spared(s, t, {c})
  BY <1>1 DEF Spared, InUse
<1>4. PoolLinked(s) => PoolLinked(t)
  <2>1. \A x \in Spare(s) : t.header[x].next = s.header[x].next
    BY <1>1 DEF Spare
  <2> QED
    BY <1>1, <1>2, <2>1, PoolLinkedSame
<1>5. ASSUME NEW X, c \in X, FreeLinked(s, X)
      PROVE  FreeLinked(t, X)
  <2>1. \A l \in Levels : Idle(t, l, X) = Idle(s, l, X)
    BY <1>1, <1>5 DEF Idle, Free
  <2>2. \A l \in Levels : \A x \in Idle(s, l, X) : /\ t.header[x].next = s.header[x].next
                                                   /\ t.header[x].prev = s.header[x].prev
    BY <1>1 DEF Idle
  <2>3. DOMAIN s.header \subseteq DOMAIN t.header
    BY <1>1
  <2> QED
    BY <1>1, <1>5, <2>1, <2>2, <2>3, FreeLinkedSame
<1> QED
  BY <1>1, <1>2, <1>3, <1>4, <1>5

\* Nor do the links to the neighbours.
LEMMA WireFrame ==
  ASSUME NEW s \in HeapSet, NEW t, SameFields(s, t, {"nextInVs", "prevInVs"})
  PROVE  /\ t \in HeapSet /\ DOMAIN t.header = DOMAIN s.header /\ Len(t.header) = Len(s.header)
         /\ Live(t) = Live(s) /\ Spare(t) = Spare(s) /\ InUse(t) = InUse(s)
         /\ \A x \in DOMAIN s.header : Free(t, x) <=> Free(s, x)
         /\ Spared(s, t, {})
         /\ PoolLinked(s) => PoolLinked(t)
         /\ \A X : FreeLinked(s, X) => FreeLinked(t, X)
<1>1. /\ t \in HeapSet /\ DOMAIN t.header = DOMAIN s.header /\ Len(t.header) = Len(s.header)
      /\ t.slabs = s.slabs /\ t.handedOut = s.handedOut /\ t.chain = s.chain /\ t.free = s.free
      /\ \A x \in DOMAIN s.header : /\ t.header[x].base = s.header[x].base
                                    /\ t.header[x].level = s.header[x].level
                                    /\ t.header[x].state = s.header[x].state
                                    /\ t.header[x].next = s.header[x].next
                                    /\ t.header[x].prev = s.header[x].prev
  BY DEF SameFields
<1>2. /\ Live(t) = Live(s) /\ Spare(t) = Spare(s) /\ InUse(t) = InUse(s)
      /\ \A x \in DOMAIN s.header : Free(t, x) <=> Free(s, x)
  BY <1>1 DEF Live, Spare, InUse, Free
<1>3. Spared(s, t, {})
  BY <1>1, <1>2 DEF Spared, InUse
<1>4. PoolLinked(s) => PoolLinked(t)
  <2>1. \A x \in Spare(s) : t.header[x].next = s.header[x].next
    BY <1>1 DEF Spare
  <2> QED
    BY <1>1, <1>2, <2>1, PoolLinkedSame
<1>5. ASSUME NEW X, FreeLinked(s, X)
      PROVE  FreeLinked(t, X)
  <2>1. \A l \in Levels : Idle(t, l, X) = Idle(s, l, X)
    BY <1>1, <1>2 DEF Idle
  <2>2. \A l \in Levels : \A x \in Idle(s, l, X) : /\ t.header[x].next = s.header[x].next
                                                   /\ t.header[x].prev = s.header[x].prev
    BY <1>1 DEF Idle
  <2>3. DOMAIN s.header \subseteq DOMAIN t.header
    BY <1>1
  <2> QED
    BY <1>1, <1>5, <2>1, <2>2, <2>3, FreeLinkedSame
<1> QED
  BY <1>1, <1>2, <1>3, <1>4, <1>5

\* There is a chunk for each header when none is spare.
LEMMA Bounded ==
  ASSUME NEW s \in HeapSet, Placed(s), Len(s.header) <= MostChunks \/ Spare(s) = {}
  PROVE  Len(s.header) <= MostChunks
<1>1. CASE Spare(s) = {}
  <2>1. Live(s) = 1..Len(s.header) /\ Len(s.header) \in Nat
    BY <1>1, LiveAndSpare
  <2>2. Cardinality(1..Len(s.header)) = Len(s.header)
    <3>1. 1 \in Int /\ Len(s.header) \in Int /\ Len(s.header) \in Nat
      BY <2>1
    <3> QED
      BY <3>1, FS_Interval
  <2>3. Cardinality(Live(s)) <= MostChunks
    BY PlacedFew
  <2> QED
    BY <2>1, <2>2, <2>3
<1> QED
  BY <1>1

-----------------------------------------------------------------------------

\* The neighbour of a chunk is another.
LEMMA NextIsOther ==
  ASSUME NEW s \in HeapSet, Placed(s), NEW c \in Live(s)
  PROVE  /\ s.header[c].nextInVs \in Live(s) \cup {Null}
         /\ s.header[c].nextInVs \in DOMAIN s.header \cup {Null}
         /\ s.header[c].nextInVs # c
<1>1. /\ s.header[c].base \in Nat /\ End(s, c) \in Nat /\ s.header[c].base < End(s, c)
      /\ NextRight(s, c) /\ c # Null
  BY PlaceFacts
<1>2. Live(s) \subseteq DOMAIN s.header
  BY DEF Live
<1> QED
  BY <1>1, <1>2 DEF NextRight

\* split, one step.
LEMMA SplitOnceKeeps ==
  ASSUME NEW s, NEW c, NEW place \in Places, Sound(s, {c}), c \in Live(s), Free(s, c),
         s.header[c].level < HighestLevel
  PROVE  LET t == SplitOnce(s, c, place) IN
         /\ Sound(t, {c}) /\ c \in Live(t) /\ Free(t, c) /\ Spared(s, t, {})
         /\ t.header[c].base = s.header[c].base /\ t.header[c].level = s.header[c].level + 1
<1> DEFINE l == s.header[c].level + 1
           n == s.header[c].nextInVs
           h == NextHeader(s)
           content == Header(s.header[c].base + WordSize[l], l)
           a == [s EXCEPT !.header[c].level = l]
           b == Allocate(a, content)
           d == Wired(b, c, h, n)
           t == Enlist(d, h, place)
<1>1. s \in HeapSet /\ Placed(s) /\ FreeLinked(s, {c}) /\ PoolLinked(s) /\ Len(s.header) <= MostChunks
  BY DEF Sound
<1>2. /\ c \in DOMAIN s.header /\ c # Null /\ s.header[c].base \in Nat
      /\ s.header[c].level \in Levels /\ NextRight(s, c)
  BY <1>1, PlaceFacts
<1>3. l \in Levels
  <2>1. HighestLevel \in Nat
    BY GeometryAssumption
  <2> QED
    BY <1>2, <2>1 DEF Levels
<1>4. n \in Live(s) \cup {Null} /\ n \in DOMAIN s.header \cup {Null} /\ n # c
  BY <1>1, NextIsOther
<1>5. content \in HeaderSet /\ content.state = "free" /\ content.level = l
      /\ content.base = s.header[c].base + WordSize[l]
  <2>1. WordSize[l] \in Nat
    BY <1>3, SizesPositive
  <2> QED
    BY <1>2, <1>3, <2>1 DEF HeaderSet, Header, Null
<1>6. /\ SameFields(s, a, {"level"})
      /\ \A x \in DOMAIN s.header : a.header[x].level = IF x = c THEN l ELSE s.header[x].level
  BY <1>1, <1>2, <1>3, LevelSet
<1>7. SplitOnce(s, c, place) = Enlist(Wire(b, c, h), h, place)
  BY DEF SplitOnce
<1> HIDE DEF a, content, l, n
<1>8. /\ a \in HeapSet /\ DOMAIN a.header = DOMAIN s.header /\ Len(a.header) = Len(s.header)
      /\ Live(a) = Live(s) /\ Spare(a) = Spare(s) /\ PoolLinked(a) /\ FreeLinked(a, {c})
      /\ a.firstOf = s.firstOf /\ \A o \in Arenas : a.chain[o] = s.chain[o]
      /\ InUse(a) = InUse(s)
      /\ \A x \in DOMAIN s.header :
           /\ a.header[x].base = s.header[x].base /\ a.header[x].state = s.header[x].state
           /\ a.header[x].next = s.header[x].next
           /\ a.header[x].prevInVs = s.header[x].prevInVs
           /\ a.header[x].nextInVs = s.header[x].nextInVs
  <2>1. SameFields(s, a, {"level", "state"}) /\ a.header[c].state # "dead"
    BY <1>2, <1>6 DEF SameFields, Free
  <2>2. \A x \in DOMAIN s.header \ {c} : /\ a.header[x].level = s.header[x].level
                                         /\ a.header[x].state = s.header[x].state
    BY <1>6 DEF SameFields
  <2>3. c \in {c}
    OBVIOUS
  <2>4. /\ a \in HeapSet /\ DOMAIN a.header = DOMAIN s.header /\ Len(a.header) = Len(s.header)
        /\ Live(a) = Live(s) /\ Spare(a) = Spare(s) /\ PoolLinked(a) /\ FreeLinked(a, {c})
    BY <1>1, <2>1, <2>2, <2>3, HandFrame
  <2>5. /\ a.firstOf = s.firstOf /\ \A o \in Arenas : a.chain[o] = s.chain[o]
        /\ \A x \in DOMAIN s.header :
             /\ a.header[x].base = s.header[x].base /\ a.header[x].state = s.header[x].state
             /\ a.header[x].next = s.header[x].next
             /\ a.header[x].prevInVs = s.header[x].prevInVs
             /\ a.header[x].nextInVs = s.header[x].nextInVs
    BY <1>6 DEF SameFields
  <2>6. InUse(a) = InUse(s)
    BY <2>4, <2>5 DEF InUse
  <2> QED
    BY <2>4, <2>5, <2>6
<1>9. h = NextHeader(a)
  BY <1>6 DEF NextHeader, SameFields
<1> HIDE DEF h, b
<1>10. Allocated(a, b, h, content) /\ PoolLinked(b)
  <2>1. content.state # "dead"
    BY <1>5
  <2> QED
    BY <1>5, <1>8, <1>9, <2>1, AllocateKeeps DEF b
<1>11. FreeLinked(b, {c} \cup {h})
  BY <1>8, <1>10, AllocatedFree
<1>12. /\ b \in HeapSet /\ h \in Nat \ {Null} /\ h # Null /\ h \notin Live(s) /\ h \in DOMAIN b.header
       /\ DOMAIN s.header \subseteq DOMAIN b.header
       /\ Len(b.header) <= MostChunks \/ Spare(b) = {}
       /\ b.header[h] = content
       /\ b.firstOf = s.firstOf /\ \A o \in Arenas : b.chain[o] = s.chain[o]
       /\ Live(b) = Live(s) \cup {h}
       /\ \A x \in Live(s) : Same(b.header[x], a.header[x])
  BY <1>1, <1>8, <1>10 DEF Allocated
<1>13. Wire(b, c, h) = d
  <2>1. b.header[c].nextInVs = n
    BY <1>2, <1>8, <1>12 DEF Same, n
  <2> QED
    BY <2>1 DEF Wire, Wired
<1>14. /\ SameFields(b, d, {"nextInVs", "prevInVs"})
       /\ \A x \in DOMAIN b.header :
            /\ d.header[x].nextInVs = IF x = c THEN h ELSE IF x = h THEN n ELSE b.header[x].nextInVs
            /\ d.header[x].prevInVs = IF x = h THEN c ELSE IF x = n THEN h ELSE b.header[x].prevInVs
  <2>1. c \in DOMAIN b.header /\ h \in DOMAIN b.header /\ c # h /\ n # h
    BY <1>2, <1>4, <1>12
  <2>2. n \in DOMAIN b.header \cup {Null}
    BY <1>4, <1>12
  <2> QED
    BY <1>4, <1>12, <2>1, <2>2, WirePut
<1> HIDE DEF d
<1>15. /\ d \in HeapSet /\ DOMAIN d.header = DOMAIN b.header /\ Len(d.header) = Len(b.header)
       /\ Live(d) = Live(b) /\ Spare(d) = Spare(b) /\ PoolLinked(d) /\ FreeLinked(d, {c} \cup {h})
       /\ \A x \in DOMAIN b.header : Free(d, x) <=> Free(b, x)
       /\ Spared(b, d, {})
  BY <1>10, <1>11, <1>12, <1>14, WireFrame
<1> HIDE DEF t
<1>16. Relinked(d, t) /\ FreeLinked(t, ({c} \cup {h}) \ {h})
  <2>1. Free(d, h) /\ h \in DOMAIN d.header /\ h \in {c} \cup {h}
    BY <1>5, <1>12, <1>15 DEF Free
  <2> QED
    BY <1>15, <2>1, EnlistKeeps DEF t
<1>17. FreeLinked(t, {c})
  <2>1. ({c} \cup {h}) \ {h} = {c}
    BY <1>12
  <2> QED
    BY <1>16, <2>1
<1>18. /\ t \in HeapSet /\ DOMAIN t.header = DOMAIN d.header /\ Len(t.header) = Len(d.header)
       /\ Live(t) = Live(d) /\ Spare(t) = Spare(d) /\ PoolLinked(t) /\ InUse(t) = InUse(d)
       /\ \A x \in DOMAIN d.header : Free(t, x) <=> Free(d, x)
       /\ Spared(d, t, {})
  BY <1>15, <1>16, RelinkedFrame
\* What the fields are in the end.
<1>19. ASSUME NEW x \in Live(s)
       PROVE  /\ x \in DOMAIN s.header /\ x # h
              /\ t.header[x].base = s.header[x].base
              /\ t.header[x].state = s.header[x].state
              /\ t.header[x].level = IF x = c THEN l ELSE s.header[x].level
              /\ t.header[x].nextInVs = IF x = c THEN h ELSE s.header[x].nextInVs
              /\ t.header[x].prevInVs = IF x = n THEN h ELSE s.header[x].prevInVs
  <2>1. x \in DOMAIN s.header /\ x \in DOMAIN b.header /\ x \in DOMAIN d.header /\ x # h
    BY <1>12, <1>15 DEF Live
  <2>2. /\ b.header[x].base = s.header[x].base /\ b.header[x].state = s.header[x].state
        /\ b.header[x].level = IF x = c THEN l ELSE s.header[x].level
        /\ b.header[x].nextInVs = s.header[x].nextInVs
        /\ b.header[x].prevInVs = s.header[x].prevInVs
    BY <1>6, <1>8, <1>12, <2>1 DEF Same
  <2>3. /\ d.header[x].base = b.header[x].base /\ d.header[x].state = b.header[x].state
        /\ d.header[x].level = b.header[x].level
        /\ d.header[x].nextInVs = IF x = c THEN h ELSE b.header[x].nextInVs
        /\ d.header[x].prevInVs = IF x = n THEN h ELSE b.header[x].prevInVs
    BY <1>14, <2>1 DEF SameFields
  <2>4. /\ t.header[x].base = d.header[x].base /\ t.header[x].state = d.header[x].state
        /\ t.header[x].level = d.header[x].level
        /\ t.header[x].nextInVs = d.header[x].nextInVs
        /\ t.header[x].prevInVs = d.header[x].prevInVs
    BY <1>16, <2>1 DEF Relinked
  <2> QED
    BY <2>1, <2>2, <2>3, <2>4
<1>20. /\ t.header[h].base = content.base /\ t.header[h].level = content.level
       /\ t.header[h].state = content.state
       /\ t.header[h].nextInVs = n /\ t.header[h].prevInVs = c
  <2>1. /\ d.header[h].base = content.base /\ d.header[h].state = content.state
        /\ d.header[h].level = content.level
        /\ d.header[h].nextInVs = n /\ d.header[h].prevInVs = c
    BY <1>12, <1>14 DEF SameFields
  <2> QED
    BY <1>12, <1>15, <1>16, <2>1 DEF Relinked
<1>21. t.firstOf = s.firstOf
  BY <1>12, <1>14, <1>16 DEF SameFields, Relinked
<1>22. Live(t) = Live(s) \cup {h}
  BY <1>12, <1>15, <1>18
<1>23. Cut(s, t, c, h)
  <2>1. /\ l = s.header[c].level + 1 /\ n = s.header[c].nextInVs
        /\ content.base = s.header[c].base + WordSize[l] /\ content.level = l
    BY <1>5 DEF l, n
  <2> QED
    BY <1>3, <1>12, <1>19, <1>20, <1>21, <1>22, <2>1 DEF Cut
<1>24. Placed(t)
  BY <1>1, <1>18, <1>23, CutPlaced
<1>25. Len(t.header) <= MostChunks
  BY <1>12, <1>15, <1>18, <1>24, Bounded
<1>26. Spared(s, t, {})
  <2>1. Spared(b, t, {})
    BY <1>15, <1>18, SparedOn
  <2>2. InUse(b) = InUse(s)
    <3>1. \A x \in DOMAIN b.header : x \in InUse(b) => x \in Live(s)
      BY <1>5, <1>12 DEF InUse, Live
    <3>2. \A x \in Live(s) : b.header[x].state = s.header[x].state /\ x \in DOMAIN b.header
      BY <1>8, <1>12 DEF Same, Live
    <3> QED
      BY <3>1, <3>2, LiveAndSpare, <1>1 DEF InUse, Live
  <2>3. ASSUME NEW x \in InUse(s)
        PROVE  /\ b.header[x].next = s.header[x].next /\ b.header[x].base = s.header[x].base
               /\ b.header[x].level = s.header[x].level
    <3>1. x \in Live(s) /\ x # c /\ x \in DOMAIN s.header
      BY <1>1 DEF InUse, Live, Free
    <3> QED
      BY <1>6, <1>8, <1>12, <3>1 DEF Same
  <2>4. Spared(s, b, {})
    BY <1>12, <2>2, <2>3 DEF Spared
  <2> QED
    BY <2>1, <2>4, SparedOn
<1>27. c \in Live(t) /\ Free(t, c)
  <2>1. t.header[c].state = s.header[c].state
    BY <1>19
  <2> QED
    BY <1>22, <2>1 DEF Free
<1>28. SplitOnce(s, c, place) = t
  BY <1>7, <1>13 DEF t
<1>29. t.header[c].base = s.header[c].base /\ t.header[c].level = s.header[c].level + 1
  BY <1>19 DEF l
<1>30. Sound(t, {c})
  BY <1>17, <1>18, <1>24, <1>25 DEF Sound
<1> QED
  BY <1>26, <1>27, <1>28, <1>29, <1>30

-----------------------------------------------------------------------------

\* Free chunks that are in hand either way.
LEMMA FreeLinkedElse ==
  ASSUME NEW s \in HeapSet, NEW X, NEW Y, FreeLinked(s, X),
         \A x \in DOMAIN s.header : Free(s, x) => (x \in X <=> x \in Y)
  PROVE  FreeLinked(s, Y)
<1>1. \A l \in Levels : Idle(s, l, Y) = Idle(s, l, X)
  BY DEF Idle
<1> QED
  BY <1>1 DEF FreeLinked

\* A chunk that is not in use before and after does not concern the arenas.
LEMMA SparedAll ==
  ASSUME NEW s, NEW t, NEW c, Spared(s, t, {c}), c \notin InUse(s), c \notin InUse(t)
  PROVE  Spared(s, t, {})
BY DEF Spared

\* A header that goes to the pool does not concern them if it was not in use.
LEMMA ReleasedFrame ==
  ASSUME NEW s \in HeapSet, NEW h, NEW t, Released(s, t, h)
  PROVE  /\ Spared(s, t, {h}) /\ h \notin InUse(t)
         /\ h \notin InUse(s) => Spared(s, t, {}) /\ InUse(t) = InUse(s)
<1>1. /\ DOMAIN t.header = DOMAIN s.header /\ \A a \in Arenas : t.chain[a] = s.chain[a]
      /\ Live(t) = Live(s) \ {h}
      /\ \A x \in Live(s) \ {h} : Same(t.header[x], s.header[x])
  BY DEF Released
<1>2. h \notin InUse(t)
  BY <1>1 DEF InUse, Live
<1>3. \A x \in InUse(s) \ {h} : x \in Live(s) \ {h}
  BY DEF InUse, Live
<1>4. InUse(t) \ {h} = InUse(s) \ {h}
  <2>1. \A x \in InUse(t) \ {h} : x \in Live(s) \ {h}
    BY <1>1 DEF InUse, Live
  <2>2. \A x \in Live(s) \ {h} : x \in DOMAIN t.header /\ t.header[x].state = s.header[x].state
    BY <1>1 DEF Same, Live
  <2> QED
    BY <1>1, <1>3, <2>1, <2>2 DEF InUse
<1>5. Spared(s, t, {h})
  BY <1>1, <1>3, <1>4 DEF Spared, Same
<1> QED
  BY <1>2, <1>4, <1>5, SparedAll

\* The buddy that a chunk merges with is the other half of their block.
LEMMA BuddyPlaced ==
  ASSUME NEW s \in HeapSet, Placed(s), NEW c \in Live(s), s.header[c].level > 0,
         s.header[BuddyOf(s, c)].level = s.header[c].level
  PROVE  LET buddy == BuddyOf(s, c)
             first == IF Leads(s, c) THEN c ELSE buddy
             other == IF Leads(s, c) THEN buddy ELSE c
             k     == s.header[c].level
         IN  /\ buddy \in Live(s) /\ buddy # c
             /\ s.header[first].level = k /\ s.header[other].level = k
             /\ Block(s.header[first].base, k - 1) = s.header[first].base
             /\ s.header[first].nextInVs = other
<1> DEFINE buddy == BuddyOf(s, c)
           k == s.header[c].level
           b == s.header[c].base
           w == WordSize[k]
<1>1. /\ b \in Nat /\ k \in Levels /\ w \in Nat \ {0} /\ Block(b, k) = b /\ c # Null
      /\ NextRight(s, c) /\ PrevRight(s, c) /\ End(s, c) = b + w
  BY PlaceFacts DEF InPlace
<1>2. k > 0 /\ k # RootLevel /\ k - 1 \in Levels /\ WordSize[k - 1] = 2 * w
  BY <1>1, Halving DEF RootLevel
<1>3. Leads(s, c) <=> Block(b, k) = Block(b, k - 1)
  BY DEF Leads, IsLeader
<1>4. s.header[buddy].level = k
  OBVIOUS
<1>5. CASE Leads(s, c)
  <2>1. Block(b, k - 1) = b
    BY <1>1, <1>3, <1>5
  <2>2. b + w \in Nat /\ b < b + w /\ b + w < b + WordSize[k - 1]
    <3> HIDE DEF b, w, k
    <3> QED
      BY <1>1, <1>2
  <2>3. ~AtBorder(End(s, c))
    <3> HIDE DEF b, w, k
    <3> QED
      BY <1>1, <1>2, <2>1, <2>2, NoBorderInside
  <2>4. buddy = s.header[c].nextInVs
    BY <1>5 DEF BuddyOf
  <2>5. buddy \in Live(s) /\ s.header[buddy].base = b + w
    BY <1>1, <2>3, <2>4 DEF NextRight
  <2>6. buddy # c
    BY <1>1, <2>5
  <2> QED
    BY <1>4, <1>5, <2>1, <2>4, <2>5, <2>6
<1>6. CASE ~Leads(s, c)
  <2> DEFINE B == Block(b, k - 1)
  <2>1. B \in Nat /\ b = B + w /\ Block(B, k - 1) = B
    <3>1. Block(b, k) # Block(b, k - 1)
      BY <1>3, <1>6
    <3> HIDE DEF b, k
    <3> QED
      BY <1>1, <1>2, <3>1, Halves
  <2>2. ~AtBorder(b)
    <3>1. B < B + w /\ B + w < B + WordSize[k - 1] /\ B + w \in Nat
      <4> HIDE DEF B, w
      <4> QED
        BY <1>1, <1>2, <2>1
    <3> HIDE DEF b, w, k, B
    <3> QED
      BY <1>2, <2>1, <3>1, NoBorderInside
  <2>3. buddy = s.header[c].prevInVs
    BY <1>6 DEF BuddyOf
  <2>4. buddy \in Live(s) /\ End(s, buddy) = b /\ s.header[buddy].nextInVs = c
    BY <1>1, <2>2, <2>3 DEF PrevRight
  <2>5. s.header[buddy].base \in Nat /\ End(s, buddy) = s.header[buddy].base + w
    BY <1>4, <2>4, PlaceFacts
  <2>6. s.header[buddy].base = B
    <3> HIDE DEF b, w, B, buddy
    <3> QED
      BY <1>1, <2>1, <2>4, <2>5
  <2>7. buddy # c
    <3>1. s.header[buddy].base # b
      <4> HIDE DEF b, w, B, buddy
      <4> QED
        BY <1>1, <2>1, <2>6
    <3> QED
      BY <3>1
  <2> QED
    BY <1>4, <1>6, <2>1, <2>4, <2>6, <2>7
<1> QED
  BY <1>5, <1>6

-----------------------------------------------------------------------------

\* merge, one step.
LEMMA MergeOnceKeeps ==
  ASSUME NEW s, NEW c, Sound(s, {c}), c \in Live(s), Free(s, c), Merges(s, c)
  PROVE  LET m == MergeOnce(s, c) IN
         /\ Sound(m.heap, {m.chunk}) /\ m.chunk \in Live(m.heap) /\ Free(m.heap, m.chunk)
         /\ Spared(s, m.heap, {})
<1> DEFINE buddy == BuddyOf(s, c)
           h == IF Leads(s, c) THEN c ELSE buddy
           f == IF Leads(s, c) THEN buddy ELSE c
           k == s.header[c].level
           n == s.header[f].nextInVs
           a == Delist(s, buddy)
           b == Unwired(a, h, n)
           d == Release(b, f)
           t == [d EXCEPT !.header[h].level = k - 1]
<1>1. s \in HeapSet /\ Placed(s) /\ FreeLinked(s, {c}) /\ PoolLinked(s) /\ Len(s.header) <= MostChunks
  BY DEF Sound
<1>2. k > 0 /\ s.header[buddy].level = k /\ Free(s, buddy)
  BY DEF Merges
<1>3. /\ buddy \in Live(s) /\ buddy # c
      /\ s.header[h].level = k /\ s.header[f].level = k
      /\ Block(s.header[h].base, k - 1) = s.header[h].base
      /\ s.header[h].nextInVs = f
  BY <1>1, <1>2, BuddyPlaced
<1>4. /\ h \in Live(s) /\ f \in Live(s) /\ h # f /\ {c, buddy} = {h, f}
      /\ Free(s, h) /\ Free(s, f)
  BY <1>2, <1>3
<1>5. Live(s) \subseteq DOMAIN s.header
  BY DEF Live
<1>6. /\ h \in DOMAIN s.header /\ f \in DOMAIN s.header /\ k \in Levels /\ k - 1 \in Levels
  <2>1. k \in Levels
    BY <1>1, PlaceFacts
  <2> QED
    BY <1>2, <1>4, <1>5, <2>1, Halving DEF RootLevel
<1>7. n \in Live(s) \cup {Null} /\ n \in DOMAIN s.header \cup {Null}
  BY <1>1, <1>4, NextIsOther
<1>8. MergeOnce(s, c) = [heap |-> [Release(Unwire(a, h, f), f) EXCEPT !.header[h].level = @ - 1],
                         chunk |-> h]
  <2>1. f = IF h = c THEN buddy ELSE c
    BY <1>3
  <2> QED
    BY <2>1 DEF MergeOnce
<1> HIDE DEF buddy, h, f, k, n, a
\* The buddy leaves its list.
<1>9. Relinked(s, a) /\ FreeLinked(a, {c} \cup {buddy})
  <2>1. buddy \in DOMAIN s.header /\ buddy \notin {c}
    BY <1>3, <1>5
  <2> QED
    BY <1>1, <1>2, <2>1, DelistKeeps DEF a
<1>10. /\ a \in HeapSet /\ DOMAIN a.header = DOMAIN s.header /\ Len(a.header) = Len(s.header)
       /\ Live(a) = Live(s) /\ Spare(a) = Spare(s) /\ InUse(a) = InUse(s) /\ PoolLinked(a)
       /\ Spared(s, a, {})
  BY <1>1, <1>9, RelinkedFrame
<1>11. Unwire(a, h, f) = b
  <2>1. a.header[f].nextInVs = n
    BY <1>6, <1>9 DEF Relinked, n
  <2> QED
    BY <2>1 DEF Unwire, Unwired
<1>12. /\ SameFields(a, b, {"nextInVs", "prevInVs"})
       /\ \A x \in DOMAIN a.header :
            /\ b.header[x].nextInVs = IF x = h THEN n ELSE a.header[x].nextInVs
            /\ b.header[x].prevInVs = IF x = n THEN h ELSE a.header[x].prevInVs
  <2>1. h \in DOMAIN a.header /\ n \in DOMAIN a.header \cup {Null}
    BY <1>6, <1>7, <1>10
  <2> QED
    BY <1>10, <2>1, UnwirePut
<1> HIDE DEF b
<1>13. /\ b \in HeapSet /\ DOMAIN b.header = DOMAIN a.header /\ Len(b.header) = Len(a.header)
       /\ Live(b) = Live(a) /\ Spare(b) = Spare(a) /\ InUse(b) = InUse(a)
       /\ PoolLinked(b) /\ FreeLinked(b, {c} \cup {buddy})
       /\ Spared(a, b, {})
  BY <1>9, <1>10, <1>12, WireFrame
\* The follower's header goes back.
<1>14. Released(b, d, f) /\ PoolLinked(d)
  <2>1. f \in Live(b)
    BY <1>4, <1>10, <1>13
  <2> QED
    BY <1>13, <2>1, ReleaseKeeps
<1> HIDE DEF d
<1>15. FreeLinked(d, {h})
  <2>1. f \in {c} \cup {buddy} /\ ({c} \cup {buddy}) \ {f} = {h}
    BY <1>4
  <2>2. FreeLinked(d, ({c} \cup {buddy}) \ {f})
    BY <1>13, <1>14, <2>1, ReleasedFree
  <2> QED
    BY <2>1, <2>2
<1>16. Spared(b, d, {}) /\ InUse(d) = InUse(b)
  <2>1. f \notin InUse(b)
    BY <1>4, <1>10, <1>13 DEF InUse, Free
  <2> QED
    BY <1>13, <1>14, <2>1, ReleasedFrame
<1>17. /\ d \in HeapSet /\ DOMAIN d.header = DOMAIN s.header /\ Len(d.header) = Len(s.header)
       /\ Live(d) = Live(s) \ {f} /\ d.firstOf = s.firstOf
  BY <1>9, <1>10, <1>12, <1>13, <1>14 DEF Released, SameFields, Relinked
<1>18. ASSUME NEW x \in Live(s) \ {f}
       PROVE  /\ x \in DOMAIN s.header
              /\ d.header[x].base = s.header[x].base
              /\ d.header[x].level = s.header[x].level
              /\ d.header[x].state = s.header[x].state
              /\ d.header[x].nextInVs = IF x = h THEN n ELSE s.header[x].nextInVs
              /\ d.header[x].prevInVs = IF x = n THEN h ELSE s.header[x].prevInVs
  <2>1. x \in DOMAIN s.header /\ x \in DOMAIN a.header /\ x \in Live(b) \ {f}
    BY <1>5, <1>10, <1>13
  <2>2. /\ a.header[x].base = s.header[x].base /\ a.header[x].level = s.header[x].level
        /\ a.header[x].state = s.header[x].state
        /\ a.header[x].nextInVs = s.header[x].nextInVs
        /\ a.header[x].prevInVs = s.header[x].prevInVs
    BY <1>9, <2>1 DEF Relinked
  <2>3. /\ b.header[x].base = a.header[x].base /\ b.header[x].level = a.header[x].level
        /\ b.header[x].state = a.header[x].state
        /\ b.header[x].nextInVs = IF x = h THEN n ELSE a.header[x].nextInVs
        /\ b.header[x].prevInVs = IF x = n THEN h ELSE a.header[x].prevInVs
    BY <1>12, <2>1 DEF SameFields
  <2>4. Same(d.header[x], b.header[x])
    BY <1>14, <2>1 DEF Released
  <2> QED
    BY <2>1, <2>2, <2>3, <2>4 DEF Same
\* The leader is twice as long.
<1>19. h \in Live(d) /\ h \in DOMAIN d.header /\ d.header[h].level = k
  BY <1>3, <1>4, <1>6, <1>17, <1>18
<1>20. /\ SameFields(d, t, {"level"})
       /\ \A x \in DOMAIN d.header : t.header[x].level = IF x = h THEN k - 1 ELSE d.header[x].level
  BY <1>6, <1>17, <1>19, LevelSet
<1>21. MergeOnce(s, c) = [heap |-> t, chunk |-> h]
  BY <1>8, <1>11, <1>19 DEF d
<1> HIDE DEF t
<1>22. /\ t \in HeapSet /\ DOMAIN t.header = DOMAIN d.header /\ Len(t.header) = Len(d.header)
       /\ Live(t) = Live(d) /\ Spare(t) = Spare(d) /\ PoolLinked(t) /\ FreeLinked(t, {h})
       /\ Spared(d, t, {h})
  <2>1. SameFields(d, t, {"level", "state"})
    BY <1>20 DEF SameFields
  <2>2. /\ t.header[h].state # "dead"
        /\ \A x \in DOMAIN d.header \ {h} : /\ t.header[x].level = d.header[x].level
                                            /\ t.header[x].state = d.header[x].state
    BY <1>19, <1>20 DEF SameFields, Live
  <2>3. h \in {h}
    OBVIOUS
  <2> QED
    BY <1>14, <1>15, <1>17, <1>19, <2>1, <2>2, <2>3, HandFrame
<1>23. t.header[h].state = "free"
  BY <1>4, <1>18, <1>19, <1>20 DEF SameFields, Free
<1>24. ASSUME NEW x \in Live(s) \ {f}
       PROVE  /\ t.header[x].base = s.header[x].base
              /\ t.header[x].level = IF x = h THEN k - 1 ELSE s.header[x].level
              /\ t.header[x].nextInVs = IF x = h THEN n ELSE s.header[x].nextInVs
              /\ t.header[x].prevInVs = IF x = n THEN h ELSE s.header[x].prevInVs
  <2>1. x \in DOMAIN d.header
    BY <1>17, <1>18
  <2> QED
    BY <1>18, <1>20, <2>1 DEF SameFields
<1>25. Joined(s, t, h, f)
  <2>1. s.header[h].level = k /\ n = s.header[f].nextInVs
    BY <1>3 DEF n
  <2>2. Live(t) = Live(s) \ {f} /\ t.firstOf = s.firstOf
    BY <1>17, <1>20, <1>22 DEF SameFields
  <2> QED
    BY <1>2, <1>3, <1>4, <1>24, <2>1, <2>2 DEF Joined
<1>26. Placed(t)
  BY <1>1, <1>22, <1>25, JoinedPlaced
<1>27. Len(t.header) <= MostChunks
  BY <1>1, <1>17, <1>22
<1>28. Spared(s, t, {})
  <2>1. Spared(s, d, {})
    BY <1>10, <1>13, <1>16, SparedOn
  <2>2. h \notin InUse(d) /\ h \notin InUse(t)
    BY <1>4, <1>18, <1>23 DEF InUse, Free
  <2>3. Spared(d, t, {})
    BY <1>22, <2>2, SparedAll
  <2> QED
    BY <2>1, <2>3, SparedOn
<1>29. Sound(t, {h}) /\ h \in Live(t) /\ Free(t, h)
  BY <1>19, <1>22, <1>23, <1>26, <1>27 DEF Sound, Free
<1> QED
  BY <1>21, <1>28, <1>29

-----------------------------------------------------------------------------

\* F are the heaps of the rounds of split.
Cuts(F, s, c, first, target, places) ==
  F = [l \in first..target |-> IF l = first THEN s ELSE SplitOnce(F[l - 1], c, places[l])]

\* There are such.
LEMMA CutsExist ==
  ASSUME NEW s, NEW c, NEW first \in Nat, NEW target \in Nat, first <= target, NEW places
  PROVE  \E F : Cuts(F, s, c, first, target, places)
<1> DEFINE Some == {k \in Nat : \E F : Cuts(F, s, c, first, first + k, places)}
<1>1. 0 \in Some
  <2> DEFINE F == [l \in first..(first + 0) |-> s]
  <2>1. F = [l \in first..(first + 0) |-> IF l = first THEN s ELSE SplitOnce(F[l - 1], c, places[l])]
    OBVIOUS
  <2>2. Cuts(F, s, c, first, first + 0, places)
    BY <2>1 DEF Cuts
  <2> QED
    BY <2>2
<1>2. ASSUME NEW k \in Nat, k \in Some PROVE k + 1 \in Some
  <2>1. PICK F : Cuts(F, s, c, first, first + k, places)
    BY <1>2
  <2> DEFINE n == first + k
             m == first + (k + 1)
             G == [l \in first..m |-> IF l = m THEN SplitOnce(F[n], c, places[m]) ELSE F[l]]
  <2>2. \A l \in first..n : F[l] = IF l = first THEN s ELSE SplitOnce(F[l - 1], c, places[l])
    BY <2>1 DEF Cuts
  <2>3. m = n + 1 /\ n \in Nat /\ first <= n
    OBVIOUS
  <2> HIDE DEF n
  <2>4. ASSUME NEW l \in first..m
        PROVE  G[l] = IF l = first THEN s ELSE SplitOnce(G[l - 1], c, places[l])
    <3>1. CASE l = m
      <4>1. G[l] = SplitOnce(F[n], c, places[m]) /\ l - 1 = n /\ l # first /\ G[n] = F[n]
        BY <2>3, <3>1
      <4> QED
        BY <3>1, <4>1
    <3>2. CASE l # m
      <4>1. l \in first..n /\ G[l] = F[l]
        BY <2>3, <3>2
      <4>2. l # first => l - 1 \in first..n /\ G[l - 1] = F[l - 1]
        BY <2>3, <4>1
      <4> QED
        BY <2>2, <4>1, <4>2
    <3> QED
      BY <3>1, <3>2
  <2>5. G = [l \in first..m |-> G[l]]
    OBVIOUS
  <2> HIDE DEF G
  <2>6. G = [l \in first..m |-> IF l = first THEN s ELSE SplitOnce(G[l - 1], c, places[l])]
    BY <2>4, <2>5
  <2>7. Cuts(G, s, c, first, m, places)
    BY <2>6 DEF Cuts
  <2> QED
    BY <2>7
<1> HIDE DEF Some
<1>3. Nat \subseteq Some
  BY <1>1, <1>2, NumberInduction
<1>4. target - first \in Nat /\ first + (target - first) = target
  OBVIOUS
<1> QED
  BY <1>3, <1>4 DEF Some

\* What cutting chunk c comes to.
SplitTo(s, c, t, l) ==
  /\ Sound(t, {c}) /\ c \in Live(t) /\ Free(t, c) /\ Spared(s, t, {})
  /\ t.header[c].base = s.header[c].base /\ t.header[c].level = l

\* split
LEMMA SplitKeeps ==
  ASSUME NEW s, NEW c, NEW target \in Levels, Sound(s, {c}), c \in Live(s), Free(s, c),
         s.header[c].level <= target, NEW places \in [s.header[c].level + 1..target -> Places]
  PROVE  SplitTo(s, c, Split(s, c, target, places), target)
<1> DEFINE first == s.header[c].level
           F == CHOOSE F : Cuts(F, s, c, first, target, places)
<1>1. first \in Levels /\ first \in Nat /\ target \in Nat /\ target <= HighestLevel
  <2>1. first \in Levels
    BY PlaceFacts DEF Sound
  <2>2. HighestLevel \in Nat
    BY GeometryAssumption
  <2> HIDE DEF first
  <2> QED
    BY <2>1, <2>2 DEF Levels
<1>2. Split(s, c, target, places) = F[target]
  BY DEF Split, Cuts
<1>3. \E G : Cuts(G, s, c, first, target, places)
  <2> HIDE DEF first
  <2>1. first <= target
    BY DEF first
  <2> QED
    BY <1>1, <2>1, CutsExist
<1>4. Cuts(F, s, c, first, target, places)
  BY <1>3
<1>10. places \in [first + 1..target -> Places]
  OBVIOUS
<1> HIDE DEF F, first
<1>5. \A l \in first..target : F[l] = IF l = first THEN s ELSE SplitOnce(F[l - 1], c, places[l])
  BY <1>4 DEF Cuts
<1> DEFINE Done == {l \in Levels : l \in first..target => SplitTo(s, c, F[l], l)}
<1>6. first \in Done
  <2>1. first <= target
    BY DEF first
  <2>2. first \in first..target /\ F[first] = s
    BY <1>1, <1>5, <2>1
  <2>3. SplitTo(s, c, s, first)
    BY DEF SplitTo, Spared, first
  <2> QED
    BY <1>1, <2>2, <2>3
<1>7. ASSUME NEW l \in Levels, l > first, l - 1 \in Done
      PROVE  l \in Done
  <2> SUFFICES ASSUME l \in first..target
               PROVE  SplitTo(s, c, F[l], l)
    OBVIOUS
  <2> DEFINE u == F[l - 1]
  <2>1. l - 1 \in first..target /\ l # first /\ l - 1 < HighestLevel /\ l \in Nat
    <3>1. HighestLevel \in Nat
      BY GeometryAssumption
    <3> HIDE DEF Done, u
    <3> QED
      BY <1>1, <1>7, <3>1 DEF Levels
  <2>2. F[l] = SplitOnce(u, c, places[l]) /\ places[l] \in Places
    <3>1. l \in first + 1..target
      BY <1>1, <1>7, <2>1
    <3> HIDE DEF Done
    <3> QED
      BY <1>5, <1>10, <2>1, <3>1
  <2>3. SplitTo(s, c, u, l - 1)
    BY <1>7, <2>1
  <2> HIDE DEF u
  <2>4. /\ Sound(u, {c}) /\ c \in Live(u) /\ Free(u, c) /\ Spared(s, u, {})
        /\ u.header[c].base = s.header[c].base /\ u.header[c].level = l - 1
    BY <2>3 DEF SplitTo
  <2> DEFINE t == SplitOnce(u, c, places[l])
  <2>5. /\ Sound(t, {c}) /\ c \in Live(t) /\ Free(t, c) /\ Spared(u, t, {})
        /\ t.header[c].base = u.header[c].base /\ t.header[c].level = u.header[c].level + 1
    BY <2>1, <2>2, <2>4, SplitOnceKeeps
  <2> HIDE DEF t
  <2>6. Spared(s, t, {})
    BY <2>4, <2>5, SparedOn
  <2>7. SplitTo(s, c, t, l)
    BY <2>1, <2>4, <2>5, <2>6 DEF SplitTo
  <2> QED
    BY <2>2, <2>7 DEF t
<1>8. \A l \in Levels : l >= first => l \in Done
  <2>1. Done \in SUBSET Levels
    OBVIOUS
  <2> HIDE DEF Done
  <2> QED
    BY <1>1, <1>6, <1>7, <2>1, LevelInduction
<1>9. target >= first /\ target \in first..target
  BY <1>1 DEF first
<1> QED
  BY <1>2, <1>8, <1>9

\* One round of merge.
Fused(m) == IF Merges(m.heap, m.chunk) THEN MergeOnce(m.heap, m.chunk) ELSE m

\* F are its rounds.
Fuses(F, s, c, n) ==
  F = [k \in 0..n |-> IF k = 0 THEN [heap |-> s, chunk |-> c] ELSE Fused(F[k - 1])]

\* There are such.
LEMMA FusesExist ==
  ASSUME NEW s, NEW c, NEW n \in Nat
  PROVE  \E F : Fuses(F, s, c, n)
<1> DEFINE Start == [heap |-> s, chunk |-> c]
           Some == {k \in Nat : \E F : Fuses(F, s, c, k)}
<1>1. 0 \in Some
  <2> DEFINE F == [i \in 0..0 |-> Start]
  <2>1. Fuses(F, s, c, 0)
    BY DEF Fuses
  <2> QED
    BY <2>1
<1>2. ASSUME NEW k \in Nat, k \in Some PROVE k + 1 \in Some
  <2>1. PICK F : Fuses(F, s, c, k)
    BY <1>2
  <2> DEFINE G == [i \in 0..(k + 1) |-> IF i = k + 1 THEN Fused(F[k]) ELSE F[i]]
  <2>2. \A i \in 0..k : F[i] = IF i = 0 THEN Start ELSE Fused(F[i - 1])
    BY <2>1 DEF Fuses
  <2> HIDE DEF Start
  <2>3. ASSUME NEW i \in 0..(k + 1)
        PROVE  G[i] = IF i = 0 THEN Start ELSE Fused(G[i - 1])
    <3>1. CASE i = k + 1
      <4>1. G[i] = Fused(F[k]) /\ i - 1 = k /\ i # 0 /\ G[k] = F[k]
        BY <3>1
      <4> QED
        BY <3>1, <4>1
    <3>2. CASE i # k + 1
      <4>1. i \in 0..k /\ G[i] = F[i]
        BY <3>2
      <4>2. i # 0 => i - 1 \in 0..k /\ G[i - 1] = F[i - 1]
        BY <4>1
      <4> QED
        BY <2>2, <4>1, <4>2
    <3> QED
      BY <3>1, <3>2
  <2>4. G = [i \in 0..(k + 1) |-> G[i]]
    OBVIOUS
  <2> HIDE DEF G
  <2>5. G = [i \in 0..(k + 1) |-> IF i = 0 THEN Start ELSE Fused(G[i - 1])]
    BY <2>3, <2>4
  <2>6. Fuses(G, s, c, k + 1)
    BY <2>5 DEF Fuses, Start
  <2> QED
    BY <2>6
<1> HIDE DEF Some
<1>3. Nat \subseteq Some
  BY <1>1, <1>2, NumberInduction
<1> QED
  BY <1>3 DEF Some

\* What merging comes to.
MergedTo(s, m) ==
  /\ Sound(m.heap, {m.chunk}) /\ m.chunk \in Live(m.heap) /\ Free(m.heap, m.chunk)
  /\ Spared(s, m.heap, {})

\* merge
LEMMA MergeKeeps ==
  ASSUME NEW s, NEW c, Sound(s, {c}), c \in Live(s), Free(s, c)
  PROVE  MergedTo(s, Merge(s, c))
<1> DEFINE F == CHOOSE F : Fuses(F, s, c, HighestLevel)
<1>1. HighestLevel \in Nat
  BY GeometryAssumption
<1>2. Merge(s, c) = F[HighestLevel]
  BY DEF Merge, Fuses, Fused, Levels
<1>3. \E G : Fuses(G, s, c, HighestLevel)
  BY <1>1, FusesExist
<1>4. Fuses(F, s, c, HighestLevel)
  BY <1>3
<1> HIDE DEF F
<1>5. \A k \in 0..HighestLevel : F[k] = IF k = 0 THEN [heap |-> s, chunk |-> c] ELSE Fused(F[k - 1])
  BY <1>4 DEF Fuses
<1> DEFINE Done == {k \in Levels : MergedTo(s, F[k])}
<1>6. 0 \in Levels /\ 0 \in Done
  <2>1. 0 \in 0..HighestLevel /\ F[0] = [heap |-> s, chunk |-> c]
    BY <1>1, <1>5
  <2>2. MergedTo(s, [heap |-> s, chunk |-> c])
    BY DEF MergedTo, Spared
  <2> QED
    BY <2>1, <2>2 DEF Levels
<1>7. ASSUME NEW k \in Levels, k > 0, k - 1 \in Done
      PROVE  k \in Done
  <2> DEFINE m == F[k - 1]
  <2>1. F[k] = Fused(m)
    BY <1>1, <1>5, <1>7 DEF Levels
  <2>2. MergedTo(s, m)
    BY <1>7
  <2> HIDE DEF m
  <2>3. MergedTo(s, Fused(m))
    <3> DEFINE u == m.heap
               e == m.chunk
               v == MergeOnce(u, e)
    <3>1. Sound(u, {e}) /\ e \in Live(u) /\ Free(u, e) /\ Spared(s, u, {})
      BY <2>2 DEF MergedTo
    <3>2. Fused(m) = IF Merges(u, e) THEN v ELSE m
      BY DEF Fused
    <3>3. CASE Merges(u, e)
      <4> HIDE DEF u, e
      <4>1. /\ Sound(v.heap, {v.chunk}) /\ v.chunk \in Live(v.heap) /\ Free(v.heap, v.chunk)
            /\ Spared(u, v.heap, {})
        BY <3>1, <3>3, MergeOnceKeeps
      <4> HIDE DEF v
      <4>2. Spared(s, v.heap, {})
        BY <3>1, <4>1, SparedOn
      <4>3. MergedTo(s, v)
        BY <4>1, <4>2 DEF MergedTo
      <4> QED
        BY <3>2, <3>3, <4>3
    <3>4. CASE ~Merges(u, e)
      BY <2>2, <3>2, <3>4
    <3> QED
      BY <3>3, <3>4
  <2> QED
    BY <2>1, <2>3
<1>8. \A k \in Levels : k >= 0 => k \in Done
  <2>1. Done \in SUBSET Levels
    OBVIOUS
  <2> HIDE DEF Done
  <2> QED
    BY <1>6, <1>7, <2>1, LevelInduction
<1>9. HighestLevel \in Levels /\ HighestLevel >= 0
  BY <1>1 DEF Levels
<1> QED
  BY <1>2, <1>8, <1>9

-----------------------------------------------------------------------------

\* return_chunk_locked
LEMMA ReturnKeeps ==
  ASSUME NEW s, NEW c, NEW place \in Places, Sound(s, {}), c \in InUse(s)
  PROVE  LET t == ReturnChunk(s, c, place) IN
         Sound(t, {}) /\ Spared(s, t, {c}) /\ InUse(t) = InUse(s) \ {c}
<1> DEFINE a == [s EXCEPT !.header[c].state = "free"]
           m == Merge(a, c)
           t == Enlist(m.heap, m.chunk, place)
<1>1. s \in HeapSet /\ Placed(s) /\ FreeLinked(s, {}) /\ PoolLinked(s) /\ Len(s.header) <= MostChunks
  BY DEF Sound
<1>2. c \in DOMAIN s.header /\ c \in Live(s) /\ ~Free(s, c)
  BY DEF InUse, Live, Free
<1>3. /\ SameFields(s, a, {"state"})
      /\ \A x \in DOMAIN s.header : a.header[x].state = IF x = c THEN "free" ELSE s.header[x].state
  BY <1>1, <1>2, StateSet
<1>4. ReturnChunk(s, c, place) = t
  BY DEF ReturnChunk
<1> HIDE DEF a
<1>5. FreeLinked(s, {c})
  BY <1>1, <1>2, FreeLinkedElse
<1>6. /\ a \in HeapSet /\ DOMAIN a.header = DOMAIN s.header /\ Len(a.header) = Len(s.header)
      /\ Live(a) = Live(s) /\ Spare(a) = Spare(s) /\ PoolLinked(a) /\ FreeLinked(a, {c})
      /\ Spared(s, a, {c})
  <2>1. SameFields(s, a, {"level", "state"}) /\ a.header[c].state # "dead"
    BY <1>2, <1>3 DEF SameFields
  <2>2. \A x \in DOMAIN s.header \ {c} : /\ a.header[x].level = s.header[x].level
                                         /\ a.header[x].state = s.header[x].state
    BY <1>3 DEF SameFields
  <2>3. c \in {c}
    OBVIOUS
  <2> QED
    BY <1>1, <1>2, <1>5, <2>1, <2>2, <2>3, HandFrame
<1>7. Placed(a)
  <2>1. \A x \in Live(s) : x \in DOMAIN s.header
    BY DEF Live
  <2>2. /\ a.firstOf = s.firstOf
        /\ \A x \in Live(s) :
             /\ a.header[x].base = s.header[x].base /\ a.header[x].level = s.header[x].level
             /\ a.header[x].prevInVs = s.header[x].prevInVs
             /\ a.header[x].nextInVs = s.header[x].nextInVs
    BY <1>3, <2>1 DEF SameFields
  <2> QED
    BY <1>1, <1>6, <2>2, PlacedSame
<1>8. InUse(a) = InUse(s) \ {c}
  BY <1>3, <1>6 DEF InUse
<1>9. Sound(a, {c}) /\ c \in Live(a) /\ Free(a, c)
  BY <1>1, <1>2, <1>3, <1>6, <1>7 DEF Sound, Free
<1>10. MergedTo(a, m)
  BY <1>9, MergeKeeps
<1> HIDE DEF m
<1> DEFINE u == m.heap
           e == m.chunk
<1>11. Sound(u, {e}) /\ e \in Live(u) /\ Free(u, e) /\ Spared(a, u, {})
  BY <1>10 DEF MergedTo
<1>12. t = Enlist(u, e, place)
  OBVIOUS
<1> HIDE DEF u, e, t
<1>13. u \in HeapSet /\ Placed(u) /\ FreeLinked(u, {e}) /\ PoolLinked(u) /\ Len(u.header) <= MostChunks
  BY <1>11 DEF Sound
<1>14. Relinked(u, t) /\ FreeLinked(t, {})
  <2>1. e \in DOMAIN u.header /\ e \in {e} /\ {e} \ {e} = {}
    BY <1>11 DEF Live
  <2>2. Relinked(u, t) /\ FreeLinked(t, {e} \ {e})
    BY <1>11, <1>12, <1>13, <2>1, EnlistKeeps
  <2> QED
    BY <2>1, <2>2
<1>15. /\ t \in HeapSet /\ Len(t.header) = Len(u.header) /\ Placed(t) /\ PoolLinked(t)
       /\ Spared(u, t, {})
  BY <1>13, <1>14, RelinkedFrame
<1>16. Sound(t, {})
  BY <1>13, <1>14, <1>15 DEF Sound
<1>17. Spared(a, t, {})
  BY <1>11, <1>15, SparedOn
<1>18. InUse(t) = InUse(s) \ {c}
  BY <1>8, <1>17 DEF Spared
<1>19. Spared(s, t, {c})
  <2>1. Spared(a, t, {c})
    BY <1>17, SparedMore
  <2> QED
    BY <1>6, <2>1, SparedOn
<1> QED
  BY <1>4, <1>16, <1>18, <1>19

\* alloc_root_chunk_header
LEMMA RootKeeps ==
  ASSUME NEW s, NEW r \in Areas, Sound(s, {}), s.firstOf[r] = Null
  PROVE  LET t == RootChunk(s, r)
             h == NextHeader(s)
         IN  /\ Sound(t, {h}) /\ h \in Live(t) /\ Free(t, h) /\ Spared(s, t, {}) /\ h \notin Live(s)
             /\ t.header[h].level = 0
<1> DEFINE h == NextHeader(s)
           content == Header(r * RootWords, 0)
           a == Allocate(s, content)
           t == [a EXCEPT !.firstOf = [a.firstOf EXCEPT ![r] = h]]
<1>1. s \in HeapSet /\ Placed(s) /\ FreeLinked(s, {}) /\ PoolLinked(s) /\ Len(s.header) <= MostChunks
  BY DEF Sound
<1>2. RootChunk(s, r) = t
  BY DEF RootChunk
<1>3. /\ content \in HeaderSet /\ content.state = "free" /\ content.level = 0
      /\ content.base = r * RootWords /\ content.nextInVs = Null /\ content.prevInVs = Null
  <2>1. r * RootWords \in Nat /\ 0 \in Levels
    BY AreaSize, Borders DEF RootLevel
  <2> QED
    BY <2>1 DEF HeaderSet, Header, Null
<1> HIDE DEF content, h
<1>4. Allocated(s, a, h, content) /\ PoolLinked(a)
  <2>1. content.state # "dead"
    BY <1>3
  <2> QED
    BY <1>1, <1>3, <2>1, AllocateKeeps DEF h
<1> HIDE DEF a
<1>5. /\ a \in HeapSet /\ h \in Nat \ {Null} /\ h # Null /\ h \notin Live(s)
      /\ Len(a.header) <= MostChunks \/ Spare(a) = {}
      /\ a.header[h] = content
      /\ a.firstOf = s.firstOf /\ \A o \in Arenas : a.chain[o] = s.chain[o]
      /\ Live(a) = Live(s) \cup {h}
      /\ \A x \in Live(s) : Same(a.header[x], s.header[x])
  BY <1>1, <1>4 DEF Allocated
<1>6. FreeLinked(a, {h})
  <2>1. FreeLinked(a, {} \cup {h})
    BY <1>1, <1>4, AllocatedFree
  <2> QED
    BY <2>1
<1>7. a.firstOf \in [Areas -> Nat]
  BY <1>5 DEF HeapSet
<1>8. /\ t \in HeapSet /\ t.header = a.header /\ t.slabs = a.slabs /\ t.handedOut = a.handedOut
      /\ t.chain = a.chain /\ t.free = a.free /\ t.firstOf = [s.firstOf EXCEPT ![r] = h]
  <2>1. [a.firstOf EXCEPT ![r] = h] \in [Areas -> Nat]
    BY <1>5, <1>7
  <2> QED
    BY <1>5, <2>1 DEF HeapSet
<1> HIDE DEF t
<1>9. Live(t) = Live(a) /\ Spare(t) = Spare(a) /\ InUse(t) = InUse(a)
  BY <1>8 DEF Live, Spare, InUse
<1>10. FreeLinked(t, {h}) /\ PoolLinked(t)
  <2> DEFINE Y == {h}
  <2>1. \A l \in Levels : Idle(t, l, Y) = Idle(a, l, Y)
    BY <1>8 DEF Idle, Free
  <2>2. /\ t \in HeapSet /\ t.free = a.free /\ DOMAIN a.header \subseteq DOMAIN t.header
        /\ a \in HeapSet /\ FreeLinked(a, Y)
        /\ \A l \in Levels : \A x \in Idle(a, l, Y) : /\ t.header[x].next = a.header[x].next
                                                     /\ t.header[x].prev = a.header[x].prev
    BY <1>5, <1>6, <1>8
  <2> HIDE DEF Y
  <2>5. FreeLinked(t, Y)
    BY <2>1, <2>2, FreeLinkedSame
  <2>3. FreeLinked(t, {h})
    BY <2>5 DEF Y
  <2>4. PoolLinked(t)
    <3>1. /\ Len(t.header) = Len(a.header) /\ t.chain["pool"] = a.chain["pool"]
          /\ \A x \in Spare(a) : t.header[x].next = a.header[x].next
      BY <1>8
    <3> QED
      BY <1>4, <1>5, <1>8, <1>9, <3>1, PoolLinkedSame
  <2> QED
    BY <2>3, <2>4
<1>11. Rooted(s, t, h, r)
  BY <1>3, <1>5, <1>8, <1>9 DEF Rooted, Same
<1>12. Placed(t)
  BY <1>1, <1>8, <1>11, RootedPlaced
<1>13. Len(t.header) <= MostChunks
  BY <1>5, <1>8, <1>9, <1>12, Bounded
<1>14. Spared(s, t, {})
  <2>1. InUse(t) = InUse(s)
    <3>1. \A x \in DOMAIN a.header : x \in InUse(a) => x \in Live(s)
      BY <1>3, <1>5 DEF InUse, Live
    <3>2. \A x \in Live(s) : x \in DOMAIN a.header /\ a.header[x].state = s.header[x].state
      BY <1>5 DEF Live, Same
    <3>3. InUse(s) \subseteq Live(s) /\ Live(s) \subseteq DOMAIN s.header
      BY DEF InUse, Live
    <3> QED
      BY <1>9, <3>1, <3>2, <3>3 DEF InUse
  <2>2. \A x \in InUse(s) : x \in Live(s)
    BY DEF InUse, Live
  <2> QED
    BY <1>5, <1>8, <2>1, <2>2 DEF Spared, Same
<1>15. Sound(t, {h}) /\ h \in Live(t) /\ Free(t, h) /\ t.header[h].level = 0
  BY <1>3, <1>5, <1>8, <1>9, <1>10, <1>12, <1>13 DEF Sound, Free
<1> QED
  BY <1>2, <1>5, <1>14, <1>15 DEF h

-----------------------------------------------------------------------------

\* attempt_enlarge_chunk: the chunk stays in use, where it is and linked as it is.
LEMMA EnlargeKeeps ==
  ASSUME NEW s, NEW c, Sound(s, {}), c \in InUse(s), CanEnlarge(s, c)
  PROVE  LET t == Enlarge(s, c) IN
         /\ Sound(t, {}) /\ Spared(s, t, {c}) /\ InUse(t) = InUse(s)
         /\ t.header[c].next = s.header[c].next /\ t.header[c].base = s.header[c].base
         /\ s.header[c].level \in Levels /\ s.header[c].level > 0
         /\ t.header[c].level = s.header[c].level - 1
<1> DEFINE f == s.header[c].nextInVs
           k == s.header[c].level
           n == s.header[f].nextInVs
           a == Unwired(s, c, n)
           b == Delist(a, f)
           d == Release(b, f)
           t == [d EXCEPT !.header[c].level = k - 1]
<1>1. s \in HeapSet /\ Placed(s) /\ FreeLinked(s, {}) /\ PoolLinked(s) /\ Len(s.header) <= MostChunks
  BY DEF Sound
<1>2. k > 0 /\ f = BuddyOf(s, c) /\ s.header[f].level = k /\ Free(s, f) /\ Leads(s, c)
  BY DEF CanEnlarge, Merges, BuddyOf
<1>3. c \in Live(s) /\ c \in DOMAIN s.header /\ ~Free(s, c)
  BY DEF InUse, Live, Free
<1>4. f \in Live(s) /\ f # c /\ Block(s.header[c].base, k - 1) = s.header[c].base
  BY <1>1, <1>2, <1>3, BuddyPlaced
<1>5. Live(s) \subseteq DOMAIN s.header
  BY DEF Live
<1>6. f \in DOMAIN s.header /\ k \in Levels /\ k - 1 \in Levels
  <2>1. k \in Levels
    BY <1>1, <1>3, PlaceFacts
  <2> QED
    BY <1>2, <1>4, <1>5, <2>1, Halving DEF RootLevel
<1>7. n \in Live(s) \cup {Null} /\ n \in DOMAIN s.header \cup {Null}
  BY <1>1, <1>4, NextIsOther
<1>8. Enlarge(s, c) = [Release(Delist(Unwire(s, c, f), f), f) EXCEPT !.header[c].level = @ - 1]
  BY DEF Enlarge
<1>9. Unwire(s, c, f) = a
  BY DEF Unwire, Unwired
<1>10. s.header[c].nextInVs = f
  OBVIOUS
<1>11. n = s.header[f].nextInVs /\ s.header[c].level = k
  OBVIOUS
<1> HIDE DEF f, k, n
\* The neighbours are linked past the follower.
<1>12. /\ SameFields(s, a, {"nextInVs", "prevInVs"})
       /\ \A x \in DOMAIN s.header :
            /\ a.header[x].nextInVs = IF x = c THEN n ELSE s.header[x].nextInVs
            /\ a.header[x].prevInVs = IF x = n THEN c ELSE s.header[x].prevInVs
  BY <1>1, <1>3, <1>7, UnwirePut
<1> HIDE DEF a
<1>13. /\ a \in HeapSet /\ DOMAIN a.header = DOMAIN s.header /\ Len(a.header) = Len(s.header)
       /\ Live(a) = Live(s) /\ Spare(a) = Spare(s) /\ InUse(a) = InUse(s)
       /\ PoolLinked(a) /\ FreeLinked(a, {}) /\ Spared(s, a, {})
       /\ \A x \in DOMAIN s.header : Free(a, x) <=> Free(s, x)
  BY <1>1, <1>12, WireFrame
\* It leaves its list.
<1>14. Relinked(a, b) /\ FreeLinked(b, {f})
  <2>1. f \in DOMAIN a.header /\ f \notin {} /\ Free(a, f) /\ {} \cup {f} = {f}
    BY <1>2, <1>6, <1>13
  <2>2. Relinked(a, b) /\ FreeLinked(b, {} \cup {f})
    BY <1>13, <2>1, DelistKeeps
  <2> QED
    BY <2>1, <2>2
<1> HIDE DEF b
<1>15. /\ b \in HeapSet /\ DOMAIN b.header = DOMAIN a.header /\ Len(b.header) = Len(a.header)
       /\ Live(b) = Live(a) /\ Spare(b) = Spare(a) /\ InUse(b) = InUse(a) /\ PoolLinked(b)
       /\ Spared(a, b, {})
  BY <1>13, <1>14, RelinkedFrame
\* Its header goes back.
<1>16. Released(b, d, f) /\ PoolLinked(d)
  <2>1. f \in Live(b)
    BY <1>4, <1>13, <1>15
  <2> QED
    BY <1>15, <2>1, ReleaseKeeps
<1> HIDE DEF d
<1>17. FreeLinked(d, {})
  <2>1. f \in {f} /\ {f} \ {f} = {}
    OBVIOUS
  <2>2. FreeLinked(d, {f} \ {f})
    BY <1>14, <1>15, <1>16, <2>1, ReleasedFree
  <2> QED
    BY <2>1, <2>2
<1>18. Spared(b, d, {}) /\ InUse(d) = InUse(b)
  <2>1. f \notin InUse(b)
    BY <1>2, <1>13, <1>15 DEF InUse, Free
  <2> QED
    BY <1>15, <1>16, <2>1, ReleasedFrame
<1>19. /\ d \in HeapSet /\ DOMAIN d.header = DOMAIN s.header /\ Len(d.header) = Len(s.header)
       /\ Live(d) = Live(s) \ {f} /\ d.firstOf = s.firstOf
  BY <1>12, <1>13, <1>14, <1>15, <1>16 DEF Released, SameFields, Relinked
<1>20. ASSUME NEW x \in Live(s) \ {f}
       PROVE  /\ x \in DOMAIN s.header
              /\ d.header[x].base = s.header[x].base
              /\ d.header[x].level = s.header[x].level
              /\ d.header[x].state = s.header[x].state
              /\ ~Free(s, x) => d.header[x].next = s.header[x].next
              /\ d.header[x].nextInVs = IF x = c THEN n ELSE s.header[x].nextInVs
              /\ d.header[x].prevInVs = IF x = n THEN c ELSE s.header[x].prevInVs
  <2>1. x \in DOMAIN s.header /\ x \in DOMAIN a.header /\ x \in Live(b) \ {f}
    BY <1>5, <1>13, <1>15
  <2>2. /\ a.header[x].base = s.header[x].base /\ a.header[x].level = s.header[x].level
        /\ a.header[x].state = s.header[x].state /\ a.header[x].next = s.header[x].next
        /\ a.header[x].nextInVs = IF x = c THEN n ELSE s.header[x].nextInVs
        /\ a.header[x].prevInVs = IF x = n THEN c ELSE s.header[x].prevInVs
    BY <1>12, <2>1 DEF SameFields
  <2>3. /\ b.header[x].base = a.header[x].base /\ b.header[x].level = a.header[x].level
        /\ b.header[x].state = a.header[x].state
        /\ ~Free(a, x) => b.header[x].next = a.header[x].next
        /\ b.header[x].nextInVs = a.header[x].nextInVs
        /\ b.header[x].prevInVs = a.header[x].prevInVs
    BY <1>14, <2>1 DEF Relinked
  <2>4. Same(d.header[x], b.header[x])
    BY <1>16, <2>1 DEF Released
  <2> QED
    BY <1>13, <2>1, <2>2, <2>3, <2>4 DEF Same
\* The chunk is twice as long.
<1>21. c \in Live(d) /\ c \in DOMAIN d.header /\ d.header[c].level = k
  BY <1>3, <1>4, <1>11, <1>19, <1>20
<1>22. /\ SameFields(d, t, {"level"})
       /\ \A x \in DOMAIN d.header : t.header[x].level = IF x = c THEN k - 1 ELSE d.header[x].level
  BY <1>6, <1>19, <1>21, LevelSet
<1>23. Enlarge(s, c) = t
  BY <1>8, <1>9, <1>21 DEF b, d
<1> HIDE DEF t
<1>24. /\ t.header[c].next = s.header[c].next /\ t.header[c].base = s.header[c].base
       /\ t.header[c].state = "inuse" /\ t.header[c].level = k - 1
  <2>1. /\ d.header[c].next = s.header[c].next /\ d.header[c].base = s.header[c].base
        /\ d.header[c].state = "inuse"
    <3>1. c \in Live(s) \ {f} /\ s.header[c].state = "inuse"
      BY <1>3, <1>4 DEF InUse
    <3> QED
      BY <1>3, <1>20, <3>1
  <2> QED
    BY <1>21, <1>22, <2>1 DEF SameFields
<1>25. /\ t \in HeapSet /\ DOMAIN t.header = DOMAIN d.header /\ Len(t.header) = Len(d.header)
       /\ Live(t) = Live(d) /\ Spare(t) = Spare(d) /\ PoolLinked(t) /\ FreeLinked(t, {c})
       /\ Spared(d, t, {c})
  <2>1. SameFields(d, t, {"level", "state"})
    BY <1>22 DEF SameFields
  <2>2. /\ t.header[c].state # "dead"
        /\ \A x \in DOMAIN d.header \ {c} : /\ t.header[x].level = d.header[x].level
                                            /\ t.header[x].state = d.header[x].state
    BY <1>22, <1>24 DEF SameFields
  <2>3. c \in {c}
    OBVIOUS
  <2>4. FreeLinked(d, {c})
    <3>1. \A x \in DOMAIN d.header : Free(d, x) => (x \in {} <=> x \in {c})
      BY <1>3, <1>4, <1>20 DEF Free
    <3> QED
      BY <1>17, <1>19, <3>1, FreeLinkedElse
  <2> QED
    BY <1>16, <1>19, <1>21, <2>1, <2>2, <2>3, <2>4, HandFrame
<1>26. FreeLinked(t, {})
  <2>1. \A x \in DOMAIN t.header : Free(t, x) => (x \in {c} <=> x \in {})
    BY <1>24 DEF Free
  <2> QED
    BY <1>25, <2>1, FreeLinkedElse
<1>27. ASSUME NEW x \in Live(s) \ {f}
       PROVE  /\ t.header[x].base = s.header[x].base
              /\ t.header[x].level = IF x = c THEN k - 1 ELSE s.header[x].level
              /\ t.header[x].nextInVs = IF x = c THEN n ELSE s.header[x].nextInVs
              /\ t.header[x].prevInVs = IF x = n THEN c ELSE s.header[x].prevInVs
  <2>1. x \in DOMAIN d.header
    BY <1>19, <1>20
  <2> QED
    BY <1>20, <1>22, <2>1 DEF SameFields
<1>28. Joined(s, t, c, f)
  <2>1. Live(t) = Live(s) \ {f} /\ t.firstOf = s.firstOf
    BY <1>19, <1>22, <1>25 DEF SameFields
  <2> QED
    BY <1>2, <1>3, <1>4, <1>10, <1>11, <1>27, <2>1 DEF Joined
<1>29. Placed(t)
  BY <1>1, <1>25, <1>28, JoinedPlaced
<1>30. Len(t.header) <= MostChunks
  BY <1>1, <1>19, <1>25
<1>31. Sound(t, {})
  BY <1>25, <1>26, <1>29, <1>30 DEF Sound
<1>32. Spared(s, t, {c})
  <2>1. Spared(s, d, {})
    BY <1>13, <1>15, <1>18, SparedOn
  <2>2. Spared(s, d, {c})
    BY <2>1, SparedMore
  <2> QED
    BY <1>25, <2>2, SparedOn
<1>33. InUse(t) = InUse(s)
  <2>1. c \in InUse(t)
    BY <1>21, <1>24, <1>25 DEF InUse
  <2> QED
    BY <1>32, <2>1 DEF Spared
<1> QED
  BY <1>2, <1>6, <1>11, <1>23, <1>24, <1>31, <1>32, <1>33

-----------------------------------------------------------------------------

\* ~RootChunkArea, when the area is free: other areas that are free stay so.
LEMMA PurgeAreaKeeps ==
  ASSUME NEW s, NEW r \in Areas, Sound(s, {}), AreaIsFree(s, r)
  PROVE  LET t == PurgeArea(s, r) IN
         /\ Sound(t, {}) /\ Spared(s, t, {}) /\ InUse(t) = InUse(s)
         /\ \A q \in Areas \ {r} : AreaIsFree(s, q) => AreaIsFree(t, q)
<1> DEFINE c == s.firstOf[r]
           a == Delist(s, c)
           b == Release(a, c)
           t == [b EXCEPT !.firstOf = [b.firstOf EXCEPT ![r] = Null]]
<1>1. s \in HeapSet /\ Placed(s) /\ FreeLinked(s, {}) /\ PoolLinked(s) /\ Len(s.header) <= MostChunks
  BY DEF Sound
<1>2. CASE c = Null
  <2>1. PurgeArea(s, r) = s
    BY <1>2 DEF PurgeArea
  <2>2. Spared(s, s, {})
    BY DEF Spared
  <2> QED
    BY <2>1, <2>2
<1>3. CASE c # Null
  <2>18. s.header[c].level = 0 /\ Free(s, c)
    BY <1>3 DEF AreaIsFree
  <2>1. PurgeArea(s, r) = t
    BY <1>3 DEF PurgeArea
  <2>2. c \in Live(s) /\ c \in DOMAIN s.header /\ c \notin InUse(s)
    BY <1>1, <1>3, <2>18 DEF Placed, FirstRight, Live, InUse, Free
  <2>3. s.firstOf[r] = c
    OBVIOUS
  <2> HIDE DEF c, a
  <2>4. Relinked(s, a) /\ FreeLinked(a, {c})
    <3>1. c \notin {} /\ {} \cup {c} = {c}
      OBVIOUS
    <3>2. Relinked(s, a) /\ FreeLinked(a, {} \cup {c})
      BY <1>1, <2>2, <2>18, <3>1, DelistKeeps DEF a
    <3> QED
      BY <3>1, <3>2
  <2>5. /\ a \in HeapSet /\ DOMAIN a.header = DOMAIN s.header /\ Len(a.header) = Len(s.header)
        /\ Live(a) = Live(s) /\ InUse(a) = InUse(s) /\ PoolLinked(a) /\ Spared(s, a, {})
    BY <1>1, <2>4, RelinkedFrame
  <2> HIDE DEF b
  <2>6. Released(a, b, c) /\ PoolLinked(b)
    BY <2>2, <2>5, ReleaseKeeps DEF b
  <2>7. FreeLinked(b, {})
    <3>1. c \in {c} /\ {c} \ {c} = {}
      OBVIOUS
    <3>2. FreeLinked(b, {c} \ {c})
      BY <2>4, <2>5, <2>6, <3>1, ReleasedFree
    <3> QED
      BY <3>1, <3>2
  <2>8. Spared(a, b, {}) /\ InUse(b) = InUse(a)
    BY <2>2, <2>5, <2>6, ReleasedFrame
  <2>9. /\ b \in HeapSet /\ Len(b.header) = Len(s.header) /\ Live(b) = Live(s) \ {c}
        /\ b.firstOf = s.firstOf
    BY <2>4, <2>5, <2>6 DEF Released, Relinked
  <2>10. ASSUME NEW x \in Live(s) \ {c}
         PROVE  /\ b.header[x].base = s.header[x].base /\ b.header[x].level = s.header[x].level
                /\ b.header[x].prevInVs = s.header[x].prevInVs
                /\ b.header[x].nextInVs = s.header[x].nextInVs
                /\ b.header[x].state = s.header[x].state
    <3>1. x \in DOMAIN s.header /\ x \in Live(a) \ {c}
      BY <2>5 DEF Live
    <3>2. Same(b.header[x], a.header[x])
      BY <2>6, <3>1 DEF Released
    <3> QED
      BY <2>4, <3>1, <3>2 DEF Relinked, Same
  <2>11. /\ t \in HeapSet /\ t.header = b.header /\ t.slabs = b.slabs /\ t.handedOut = b.handedOut
         /\ t.chain = b.chain /\ t.free = b.free /\ t.firstOf = [s.firstOf EXCEPT ![r] = Null]
    <3>1. [b.firstOf EXCEPT ![r] = Null] \in [Areas -> Nat]
      BY <2>9 DEF HeapSet, Null
    <3> QED
      BY <2>9, <3>1 DEF HeapSet
  <2> HIDE DEF t
  <2>12. Live(t) = Live(b) /\ Spare(t) = Spare(b) /\ InUse(t) = InUse(b)
    BY <2>11 DEF Live, Spare, InUse
  <2>13. FreeLinked(t, {})
    <3> DEFINE Y == {}
    <3>1. /\ \A l \in Levels : Idle(t, l, Y) = Idle(b, l, Y)
          /\ FreeLinked(b, Y) /\ t.free = b.free /\ DOMAIN b.header \subseteq DOMAIN t.header
          /\ \A l \in Levels : \A x \in Idle(b, l, Y) : /\ t.header[x].next = b.header[x].next
                                                       /\ t.header[x].prev = b.header[x].prev
      BY <2>7, <2>11 DEF Idle, Free
    <3>2. t \in HeapSet /\ b \in HeapSet
      BY <2>9, <2>11
    <3> HIDE DEF Y
    <3>3. FreeLinked(t, Y)
      BY <3>1, <3>2, FreeLinkedSame
    <3> QED
      BY <3>3 DEF Y
  <2>14. PoolLinked(t)
    <3>1. /\ Len(t.header) = Len(b.header) /\ t.chain["pool"] = b.chain["pool"]
          /\ \A x \in Spare(b) : t.header[x].next = b.header[x].next
      BY <2>11
    <3> QED
      BY <2>6, <2>9, <2>11, <2>12, <3>1, PoolLinkedSame
  <2>15. Placed(t)
    <3>1. Uprooted(s, t, c, r)
      BY <2>2, <2>3, <2>9, <2>10, <2>11, <2>12, <2>18 DEF Uprooted
    <3> QED
      BY <1>1, <2>11, <3>1, UprootedPlaced
  <2>16. Spared(s, t, {}) /\ InUse(t) = InUse(s)
    <3>1. Spared(s, b, {})
      BY <2>5, <2>8, SparedOn
    <3>2. Spared(b, t, {})
      BY <2>11, <2>12 DEF Spared
    <3> QED
      BY <2>5, <2>8, <2>12, <3>1, <3>2, SparedOn
  <2>17. Len(t.header) <= MostChunks
    BY <1>1, <2>9, <2>11
  \* Root chunks of two areas are two.
  <2>19. ASSUME NEW q \in Areas \ {r}, AreaIsFree(s, q)
         PROVE  AreaIsFree(t, q)
    <3> DEFINE x == s.firstOf[q]
    <3>1. t.firstOf[q] = x
      <4>1. s.firstOf \in [Areas -> Nat]
        BY <1>1 DEF HeapSet
      <4> QED
        BY <2>11, <4>1
    <3>2. ASSUME x # Null
          PROVE  x \in Live(s) \ {c}
      <4>1. x \in Live(s) /\ s.header[x].base = q * RootWords
        BY <1>1, <3>2 DEF Placed, FirstRight
      <4>2. s.header[c].base = r * RootWords
        BY <1>1, <1>3, <2>3 DEF Placed, FirstRight
      <4>3. q * RootWords # r * RootWords
        <5>1. q \in Nat /\ r \in Nat /\ q # r /\ RootWords \in Nat \ {0}
          BY AreaSize
        <5>2. ASSUME NEW p \in Nat
              PROVE  (p * RootWords) \div RootWords = p
          <6> DEFINE y == p * RootWords
          <6>1. y \in Nat /\ p * RootWords <= y
            BY Borders
          <6>2. y < y + RootWords
            <7> HIDE DEF y
            <7> QED
              BY <5>1, <6>1
          <6>3. y < p * RootWords + RootWords
            BY <6>2
          <6> HIDE DEF y
          <6>4. y \div RootWords = p
            BY <5>1, <6>1, <6>3, QuotientUnique
          <6> QED
            BY <6>4 DEF y
        <5> QED
          BY <5>1, <5>2
      <4> QED
        BY <4>1, <4>2, <4>3
    <3> HIDE DEF x
    <3>3. x # Null => s.header[x].level = 0 /\ s.header[x].state = "free"
      BY <2>19 DEF AreaIsFree, Free, x
    <3>4. x # Null => t.header[x].level = 0 /\ t.header[x].state = "free"
      BY <2>10, <2>11, <3>2, <3>3
    <3> QED
      BY <3>1, <3>4 DEF AreaIsFree, Free
  <2> QED
    BY <2>1, <2>11, <2>13, <2>14, <2>15, <2>16, <2>17, <2>19 DEF Sound
<1> QED
  BY <1>2, <1>3

-----------------------------------------------------------------------------

\* A round of purge comes to area r of a list that was s when it began; F are
\* the heaps of all rounds.
Round(s, u, r) == IF NodeIsFree(s, r \div RootsPerNode) THEN PurgeArea(u, r) ELSE u

Purges(F, s, n) == F = [k \in 0..n |-> IF k = 0 THEN s ELSE Round(s, F[k - 1], k - 1)]

\* There are such.
LEMMA PurgesExist ==
  ASSUME NEW s, NEW n \in Nat
  PROVE  \E F : Purges(F, s, n)
<1> DEFINE Some == {k \in Nat : \E F : Purges(F, s, k)}
<1>1. 0 \in Some
  <2>1. Purges([k \in 0..0 |-> s], s, 0)
    BY DEF Purges
  <2> QED
    BY <2>1
<1>2. ASSUME NEW k \in Nat, k \in Some
      PROVE  k + 1 \in Some
  <2>1. PICK F : Purges(F, s, k)
    BY <1>2
  <2> DEFINE G == [i \in 0..(k + 1) |-> IF i \in 0..k THEN F[i] ELSE Round(s, F[k], k)]
  <2>2. \A i \in 0..k : G[i] = F[i]
    OBVIOUS
  <2>3. G[k + 1] = Round(s, F[k], k)
    OBVIOUS
  <2> HIDE DEF G
  <2>4. ASSUME NEW i \in 0..(k + 1)
        PROVE  G[i] = IF i = 0 THEN s ELSE Round(s, G[i - 1], i - 1)
    <3>1. CASE i \in 0..k
      <4>1. F[i] = IF i = 0 THEN s ELSE Round(s, F[i - 1], i - 1)
        BY <2>1, <3>1 DEF Purges
      <4>2. i # 0 => i - 1 \in 0..k
        BY <3>1
      <4> QED
        BY <2>2, <3>1, <4>1, <4>2
    <3>2. CASE i = k + 1
      <4>1. i # 0 /\ i - 1 = k /\ k \in 0..k
        BY <3>2
      <4> QED
        BY <2>2, <2>3, <3>2, <4>1
    <3> QED
      BY <3>1, <3>2
  <2>5. Purges(G, s, k + 1)
    <3>1. G = [i \in 0..(k + 1) |-> G[i]]
      BY DEF G
    <3> QED
      BY <2>4, <3>1 DEF Purges
  <2> QED
    BY <2>5
<1> HIDE DEF Some
<1>3. Nat \subseteq Some
  BY <1>1, <1>2, NumberInduction
<1> QED
  BY <1>3 DEF Some

-----------------------------------------------------------------------------

\* What purging comes to.
Purged(s, t) == Sound(t, {}) /\ Spared(s, t, {}) /\ InUse(t) = InUse(s)

\* VirtualSpaceList::purge, one area after the other: that a node is free was
\* asked when it began, and nothing a round does changes it.
LEMMA PurgeKeeps ==
  ASSUME Sound(heap, {}), Purge
  PROVE  Purged(heap, heap')
<1> DEFINE F == CHOOSE F : Purges(F, heap, NumAreas)
<1>1. NumAreas \in Nat
  BY AreaSize
<1>2. heap' = F[NumAreas]
  BY DEF Purge, Purges, Round
<1>3. \E G : Purges(G, heap, NumAreas)
  BY <1>1, PurgesExist
<1>4. Purges(F, heap, NumAreas)
  BY <1>3
<1> HIDE DEF F
<1>5. \A k \in 0..NumAreas : F[k] = IF k = 0 THEN heap ELSE Round(heap, F[k - 1], k - 1)
  BY <1>4 DEF Purges
\* The areas to come are as free as they were.
<1> DEFINE StillFree(k) == \A r \in Areas : r >= k /\ AreaIsFree(heap, r) => AreaIsFree(F[k], r)
           Done == {k \in Nat : k <= NumAreas => Purged(heap, F[k]) /\ StillFree(k)}
<1>6. 0 \in Done
  <2>1. 0 \in 0..NumAreas /\ F[0] = heap
    BY <1>1, <1>5
  <2>2. Purged(heap, heap)
    BY DEF Purged, Spared
  <2>3. StillFree(0)
    BY <2>1
  <2> QED
    BY <2>2, <2>1, <2>3
<1>7. ASSUME NEW k \in Nat, k \in Done
      PROVE  k + 1 \in Done
  <2> SUFFICES ASSUME k + 1 <= NumAreas
               PROVE  Purged(heap, F[k + 1]) /\ StillFree(k + 1)
    OBVIOUS
  <2> DEFINE u == F[k]
             v == PurgeArea(u, k)
  <2>1. /\ F[k + 1] = IF NodeIsFree(heap, k \div RootsPerNode) THEN v ELSE u
        /\ k \in Areas
    <3>1. k + 1 \in 0..NumAreas /\ k + 1 # 0 /\ (k + 1) - 1 = k /\ k \in Areas
      BY <1>1 DEF Areas
    <3>2. F[k + 1] = Round(heap, F[k], k)
      BY <1>5, <3>1
    <3> QED
      BY <3>1, <3>2 DEF Round
  <2>2. Purged(heap, u) /\ StillFree(k)
    BY <1>1, <1>7
  <2>3. Sound(u, {}) /\ Spared(heap, u, {}) /\ InUse(u) = InUse(heap)
    BY <2>2 DEF Purged
  <2>4. CASE ~NodeIsFree(heap, k \div RootsPerNode)
    <3>1. F[k + 1] = u
      BY <2>1, <2>4
    <3>2. \A r \in Areas : r >= k + 1 => r >= k
      BY AreaSize
    <3> QED
      BY <2>2, <3>1, <3>2
  <2>5. CASE NodeIsFree(heap, k \div RootsPerNode)
    <3>1. AreaIsFree(heap, k)
      BY <2>1, <2>5 DEF NodeIsFree, AreasOf
    <3>2. k >= k
      OBVIOUS
    <3>3. AreaIsFree(u, k)
      BY <2>1, <2>2, <3>1, <3>2
    <3>4. /\ Sound(v, {}) /\ Spared(u, v, {}) /\ InUse(v) = InUse(u)
          /\ \A q \in Areas \ {k} : AreaIsFree(u, q) => AreaIsFree(v, q)
      BY <2>1, <2>3, <3>3, PurgeAreaKeeps
    <3>5. F[k + 1] = v
      BY <2>1, <2>5
    <3> HIDE DEF v
    <3>6. Purged(heap, v)
      BY <2>3, <3>4, SparedOn DEF Purged
    <3>7. \A r \in Areas : r >= k + 1 => r >= k /\ r # k
      BY AreaSize
    <3>8. StillFree(k + 1)
      BY <2>2, <3>4, <3>5, <3>7
    <3> QED
      BY <3>5, <3>6, <3>8
  <2> QED
    BY <2>4, <2>5
<1> HIDE DEF Done
<1>8. Nat \subseteq Done
  BY <1>6, <1>7, NumberInduction
<1>9. Purged(heap, F[NumAreas])
  BY <1>1, <1>8 DEF Done
<1> QED
  BY <1>2, <1>9

-----------------------------------------------------------------------------
(* Handing out a chunk                                                     *)

\* Chunk c of s was marked as in use: it was free and in no list.
Handed(s, t, c) ==
  /\ Sound(t, {}) /\ Spared(s, t, {c}) /\ c \notin InUse(s) /\ InUse(t) = InUse(s) \cup {c}

\* The chunk get_chunk has found, cut to size if it is larger, and marked.
CutAndMarked(s, c, target, places) ==
  LET cut == IF s.header[c].level < target THEN Split(s, c, target, places) ELSE s IN
  [cut EXCEPT !.header[c].state = "inuse"]

\* get_chunk from where it has found a chunk: what it hands out, and what is
\* left when it puts the chunk back.
LEMMA HandOutKeeps ==
  ASSUME NEW s, NEW c, Sound(s, {c}), c \in Live(s), Free(s, c), NEW target \in Levels,
         NEW places \in [s.header[c].level + 1..target -> Places]
  PROVE  LET t == CutAndMarked(s, c, target, places) IN
         Handed(s, t, c) /\ \A place \in Places : Purged(s, ReturnChunk(t, c, place))
<1> DEFINE a == IF s.header[c].level < target THEN Split(s, c, target, places) ELSE s
           t == [a EXCEPT !.header[c].state = "inuse"]
<1>1. /\ Sound(a, {c}) /\ c \in Live(a) /\ Free(a, c) /\ Spared(s, a, {})
  <2>1. CASE s.header[c].level < target
    <3>1. s.header[c].level <= target
      <4>1. s.header[c].level \in Levels
        BY PlaceFacts DEF Sound
      <4> QED
        BY <2>1, <4>1 DEF Levels
    <3> QED
      BY <2>1, <3>1, SplitKeeps DEF SplitTo
  <2>2. CASE ~(s.header[c].level < target)
    BY <2>2 DEF Spared
  <2> QED
    BY <2>1, <2>2
<1>2. /\ Sound(a, {c}) /\ c \in Live(a) /\ c \in DOMAIN a.header /\ Free(a, c) /\ Spared(s, a, {})
  BY <1>1 DEF Live
<1>15. CutAndMarked(s, c, target, places) = t
  BY DEF CutAndMarked
<1> HIDE DEF a
<1>3. a \in HeapSet /\ Placed(a) /\ FreeLinked(a, {c}) /\ PoolLinked(a) /\ Len(a.header) <= MostChunks
  BY <1>2 DEF Sound
<1>4. /\ SameFields(a, t, {"state"})
      /\ \A x \in DOMAIN a.header : t.header[x].state = IF x = c THEN "inuse" ELSE a.header[x].state
  BY <1>2, <1>3, StateSet
<1> HIDE DEF t
<1>5. /\ t \in HeapSet /\ DOMAIN t.header = DOMAIN a.header /\ Len(t.header) = Len(a.header)
      /\ Live(t) = Live(a) /\ Spare(t) = Spare(a) /\ PoolLinked(t) /\ FreeLinked(t, {c})
      /\ Spared(a, t, {c})
  <2>1. SameFields(a, t, {"level", "state"}) /\ t.header[c].state # "dead"
    BY <1>2, <1>4 DEF SameFields
  <2>2. \A x \in DOMAIN a.header \ {c} : /\ t.header[x].level = a.header[x].level
                                         /\ t.header[x].state = a.header[x].state
    BY <1>4 DEF SameFields
  <2>3. c \in {c}
    OBVIOUS
  <2> QED
    BY <1>2, <1>3, <2>1, <2>2, <2>3, HandFrame
<1>6. FreeLinked(t, {})
  <2>1. \A x \in DOMAIN t.header : Free(t, x) => (x \in {c} <=> x \in {})
    BY <1>4, <1>5 DEF Free
  <2> QED
    BY <1>5, <2>1, FreeLinkedElse
<1>7. Placed(t)
  <2>1. \A x \in Live(a) : x \in DOMAIN a.header
    BY DEF Live
  <2>2. /\ t.firstOf = a.firstOf
        /\ \A x \in Live(a) :
             /\ t.header[x].base = a.header[x].base /\ t.header[x].level = a.header[x].level
             /\ t.header[x].prevInVs = a.header[x].prevInVs
             /\ t.header[x].nextInVs = a.header[x].nextInVs
    BY <1>4, <2>1 DEF SameFields
  <2> QED
    BY <1>3, <1>5, <2>2, PlacedSame
<1>8. Sound(t, {})
  BY <1>3, <1>5, <1>6, <1>7 DEF Sound
<1>9. InUse(a) = InUse(s) /\ c \notin InUse(s) /\ InUse(t) = InUse(a) \cup {c}
  BY <1>2, <1>4, <1>5 DEF Spared, InUse, Free
<1>10. Spared(s, t, {c})
  <2>1. Spared(s, a, {c})
    BY <1>2, SparedMore
  <2> QED
    BY <1>5, <2>1, SparedOn
<1>11. Handed(s, t, c)
  BY <1>8, <1>9, <1>10 DEF Handed
<1>12. ASSUME NEW place \in Places
       PROVE  Purged(s, ReturnChunk(t, c, place))
  <2> DEFINE u == ReturnChunk(t, c, place)
  <2>1. Sound(u, {}) /\ Spared(t, u, {c}) /\ InUse(u) = InUse(t) \ {c}
    BY <1>8, <1>9, ReturnKeeps
  <2> HIDE DEF u
  <2>2. InUse(u) = InUse(s)
    BY <1>9, <2>1
  <2>3. Spared(s, u, {c})
    BY <1>10, <2>1, SparedOn
  <2>4. Spared(s, u, {})
    BY <1>9, <2>2, <2>3, SparedAll
  <2>5. Purged(s, u)
    BY <2>1, <2>2, <2>4 DEF Purged
  <2> QED
    BY <2>5 DEF u
<1> QED
  BY <1>11, <1>12, <1>15

-----------------------------------------------------------------------------

\* The chunk get_chunk takes from a free list.
LEMMA FindKeeps ==
  ASSUME NEW s, Sound(s, {}), NEW l \in Levels, s.free[l].first # Null
  PROVE  LET c == s.free[l].first
             t == Delist(s, c)
         IN  /\ Sound(t, {c}) /\ c \in Live(t) /\ Free(t, c) /\ t.header[c].level = l
             /\ Spared(s, t, {}) /\ InUse(t) = InUse(s)
<1> DEFINE c == s.free[l].first
           t == Delist(s, c)
<1>1. s \in HeapSet /\ Placed(s) /\ FreeLinked(s, {}) /\ PoolLinked(s) /\ Len(s.header) <= MostChunks
  BY DEF Sound
<1>2. c \in Idle(s, l, {})
  <2>1. TwoWay(Idle(s, l, {}), s.free[l].first, s.free[l].last, Nexts(s), Prevs(s))
    BY <1>1 DEF FreeLinked
  <2> QED
    BY <2>1, Ends
<1>3. c \in DOMAIN s.header /\ Free(s, c) /\ s.header[c].level = l /\ c \in Live(s)
  BY <1>2 DEF Idle, Live, Free
<1> HIDE DEF c
<1>4. Relinked(s, t) /\ FreeLinked(t, {c})
  <2>1. c \notin {} /\ {} \cup {c} = {c}
    OBVIOUS
  <2>2. Relinked(s, t) /\ FreeLinked(t, {} \cup {c})
    BY <1>1, <1>3, <2>1, DelistKeeps
  <2> QED
    BY <2>1, <2>2
<1> HIDE DEF t
<1>5. /\ t \in HeapSet /\ Len(t.header) = Len(s.header) /\ Live(t) = Live(s)
      /\ InUse(t) = InUse(s) /\ Spared(s, t, {}) /\ Placed(t) /\ PoolLinked(t)
      /\ \A x \in DOMAIN s.header : Free(t, x) <=> Free(s, x)
  BY <1>1, <1>4, RelinkedFrame
<1>6. t.header[c].level = l
  BY <1>3, <1>4 DEF Relinked
<1>7. Sound(t, {c})
  BY <1>1, <1>4, <1>5 DEF Sound
<1> QED
  BY <1>3, <1>5, <1>6, <1>7 DEF t, c

-----------------------------------------------------------------------------
(* What an arena reaches.  own tells for every chunk in use which arena has *)
(* it, k what the arenas have taken and not listed, d which of them die.   *)

\* Where the chunks of arena a begin.
Start(s, d, a) == IF a \in DOMAIN d THEN d[a] ELSE s.chain[a].first

\* Those it has listed.
Mine(s, own, k, a) == {h \in InUse(s) : own[h] = a} \ {k[a]}

Reachable(s, k, d, own) ==
  /\ own \in [InUse(s) -> Arenas] /\ k \in [Arenas -> Nat] /\ DOMAIN d \subseteq Arenas
  /\ \A a \in Arenas : k[a] # Null => k[a] \in InUse(s) /\ own[k[a]] = a /\ a \notin DOMAIN d
  /\ \A a \in Arenas : OneWay(Mine(s, own, k, a), Start(s, d, a), Nexts(s))

\* From s to t the chunks in use stay what they are, and are linked as they were.
Kept(s, t) ==
  /\ InUse(t) = InUse(s) /\ \A a \in Arenas : t.chain[a] = s.chain[a]
  /\ \A x \in InUse(s) : t.header[x].next = s.header[x].next

\* Links of chunks that a step leaves alone.
LEMMA MineKept ==
  ASSUME NEW s, NEW t, NEW M, NEW first, OneWay(M, first, Nexts(s)), M \subseteq InUse(s),
         M \subseteq InUse(t), \A x \in M : t.header[x].next = s.header[x].next
  PROVE  OneWay(M, first, Nexts(t))
<1>1. \A x \in M : Nexts(t)[x] = Nexts(s)[x]
  BY DEF Nexts, InUse
<1> QED
  BY <1>1, OneWaySame

\* A step that keeps all of them.
LEMMA ReachKept ==
  ASSUME NEW s, NEW k, NEW d, NEW own, Reachable(s, k, d, own), NEW t, Kept(s, t)
  PROVE  Reachable(t, k, d, own)
<1>1. InUse(t) = InUse(s)
  BY DEF Kept
<1>2. ASSUME NEW a \in Arenas
      PROVE  OneWay(Mine(t, own, k, a), Start(t, d, a), Nexts(t))
  <2> DEFINE M == Mine(s, own, k, a)
             first == Start(s, d, a)
  <2>1. Mine(t, own, k, a) = M /\ Start(t, d, a) = first
    BY <1>1 DEF Mine, Start, Kept
  <2>2. M \subseteq InUse(s) /\ M \subseteq InUse(t)
    BY <1>1 DEF Mine
  <2>3. OneWay(M, first, Nexts(s))
    BY DEF Reachable
  <2>4. \A x \in M : t.header[x].next = s.header[x].next
    BY <2>2 DEF Kept
  <2> HIDE DEF M, first
  <2>5. OneWay(M, first, Nexts(t))
    BY <2>2, <2>3, <2>4, MineKept
  <2> QED
    BY <2>1, <2>5
<1> QED
  BY <1>1, <1>2 DEF Reachable

WithOwner(t, own, c, a) == [h \in InUse(t) |-> IF h = c THEN a ELSE own[h]]

\* An arena takes a chunk.
LEMMA ReachTaken ==
  ASSUME NEW s \in HeapSet, NEW k, NEW d, NEW own, Reachable(s, k, d, own),
         NEW t, NEW c \in Nat, Handed(s, t, c), NEW a \in Arenas, k[a] = Null, a \notin DOMAIN d
  PROVE  Reachable(t, [k EXCEPT ![a] = c], d, WithOwner(t, own, c, a))
<1> DEFINE j == [k EXCEPT ![a] = c]
           its == WithOwner(t, own, c, a)
<1>1. /\ own \in [InUse(s) -> Arenas] /\ k \in [Arenas -> Nat]
      /\ DOMAIN d \subseteq Arenas
      /\ \A b \in Arenas : k[b] # Null => k[b] \in InUse(s) /\ own[k[b]] = b /\ b \notin DOMAIN d
  BY DEF Reachable
<1>2. c \notin InUse(s) /\ InUse(t) = InUse(s) \cup {c} /\ Spared(s, t, {c})
  BY DEF Handed
<1>3. its \in [InUse(t) -> Arenas] /\ its[c] = a /\ \A h \in InUse(s) : its[h] = own[h]
  BY <1>1, <1>2 DEF WithOwner
<1>4. j \in [Arenas -> Nat] /\ j[a] = c /\ \A b \in Arenas \ {a} : j[b] = k[b]
  BY <1>1
<1>5. Null \notin InUse(s)
  <2>1. InUse(s) \subseteq 1..Len(s.header) /\ Len(s.header) \in Nat
    BY LiveAndSpare DEF InUse
  <2> QED
    BY <2>1 DEF Null
<1> HIDE DEF j, its
<1>6. ASSUME NEW b \in Arenas, j[b] # Null
      PROVE  j[b] \in InUse(t) /\ its[j[b]] = b /\ b \notin DOMAIN d
  <2>1. CASE b = a
    BY <1>2, <1>3, <1>4, <2>1
  <2>2. CASE b # a
    BY <1>1, <1>2, <1>3, <1>4, <1>6, <2>2
  <2> QED
    BY <2>1, <2>2
<1>7. ASSUME NEW b \in Arenas
      PROVE  OneWay(Mine(t, its, j, b), Start(t, d, b), Nexts(t))
  <2> DEFINE M == Mine(s, own, k, b)
             first == Start(s, d, b)
  <2>1. Mine(t, its, j, b) = M
    <3>1. CASE b = a
      <4>1. {h \in InUse(t) : its[h] = a} = {h \in InUse(s) : own[h] = a} \cup {c}
        BY <1>2, <1>3
      <4> QED
        BY <1>2, <1>4, <1>5, <3>1, <4>1 DEF Mine
    <3>2. CASE b # a
      <4>1. {h \in InUse(t) : its[h] = b} = {h \in InUse(s) : own[h] = b}
        BY <1>2, <1>3, <3>2
      <4> QED
        BY <1>4, <3>2, <4>1 DEF Mine
    <3> QED
      BY <3>1, <3>2
  <2>2. Start(t, d, b) = first
    BY <1>2 DEF Start, Spared
  <2>3. M \subseteq InUse(s) /\ M \subseteq InUse(t) /\ c \notin M
    BY <1>2 DEF Mine
  <2>4. OneWay(M, first, Nexts(s))
    BY DEF Reachable
  <2>5. \A x \in M : t.header[x].next = s.header[x].next
    BY <1>2, <2>3 DEF Spared
  <2> HIDE DEF M, first
  <2>6. OneWay(M, first, Nexts(t))
    BY <2>3, <2>4, <2>5, MineKept
  <2> QED
    BY <2>1, <2>2, <2>6
<1>8. Reachable(t, j, d, its)
  BY <1>1, <1>3, <1>4, <1>6, <1>7 DEF Reachable
<1> QED
  BY <1>8 DEF j, its

-----------------------------------------------------------------------------

\* The free lists, the pool and the neighbours, when headers in use are linked
\* anew in the chain of an arena.
LEMMA ChainFrame ==
  ASSUME NEW s, Sound(s, {}), NEW t, NEW a \in Arenas, Chained(s, t, a),
         \A x \in DOMAIN s.header : s.header[x].state # "inuse" =>
           t.header[x].next = s.header[x].next /\ t.header[x].prev = s.header[x].prev
  PROVE  Sound(t, {}) /\ InUse(t) = InUse(s)
<1>1. s \in HeapSet /\ Placed(s) /\ FreeLinked(s, {}) /\ PoolLinked(s) /\ Len(s.header) <= MostChunks
  BY DEF Sound
<1>2. /\ t \in HeapSet /\ Len(t.header) = Len(s.header) /\ DOMAIN t.header = DOMAIN s.header
      /\ t.slabs = s.slabs /\ t.handedOut = s.handedOut /\ t.free = s.free
      /\ t.firstOf = s.firstOf
      /\ \A x \in DOMAIN s.header :
           /\ t.header[x].base = s.header[x].base /\ t.header[x].level = s.header[x].level
           /\ t.header[x].state = s.header[x].state
           /\ t.header[x].prevInVs = s.header[x].prevInVs
           /\ t.header[x].nextInVs = s.header[x].nextInVs
  BY DEF Chained
<1>3. t.chain["pool"] = s.chain["pool"]
  <2>1. "pool" \in (Arenas \cup {"pool"}) \ {a}
    BY HeaderAssumption
  <2> QED
    BY <2>1 DEF Chained
<1>4. Live(t) = Live(s) /\ Spare(t) = Spare(s) /\ InUse(t) = InUse(s)
  BY <1>2 DEF Live, Spare, InUse
<1>5. FreeLinked(t, {})
  <2> DEFINE Y == {}
  <2>1. FreeLinked(s, Y) /\ DOMAIN s.header \subseteq DOMAIN t.header /\ t.free = s.free
    BY <1>1, <1>2
  <2>2. \A l \in Levels : Idle(t, l, Y) = Idle(s, l, Y)
    BY <1>2 DEF Idle, Free
  <2>3. \A l \in Levels : \A x \in Idle(s, l, Y) : /\ t.header[x].next = s.header[x].next
                                                   /\ t.header[x].prev = s.header[x].prev
    BY DEF Idle, Free
  <2> HIDE DEF Y
  <2>4. FreeLinked(t, Y)
    BY <1>1, <1>2, <2>1, <2>2, <2>3, FreeLinkedSame
  <2> QED
    BY <2>4 DEF Y
<1>6. PoolLinked(t)
  <2>1. \A x \in Spare(s) : t.header[x].next = s.header[x].next
    BY DEF Spare
  <2> QED
    BY <1>1, <1>2, <1>3, <1>4, <2>1, PoolLinkedSame
<1>7. Placed(t)
  <2>1. \A x \in Live(s) : /\ t.header[x].base = s.header[x].base
                           /\ t.header[x].level = s.header[x].level
                           /\ t.header[x].prevInVs = s.header[x].prevInVs
                           /\ t.header[x].nextInVs = s.header[x].nextInVs
    BY <1>2 DEF Live
  <2> QED
    BY <1>1, <1>2, <1>4, <2>1, PlacedSame
<1> QED
  BY <1>1, <1>2, <1>4, <1>5, <1>6, <1>7 DEF Sound

\* What an arena has listed.
LEMMA MineFacts ==
  ASSUME NEW s \in HeapSet, NEW k, NEW d, NEW own, Reachable(s, k, d, own), NEW a \in Arenas
  PROVE  /\ Mine(s, own, k, a) \subseteq InUse(s)
         /\ Start(s, d, a) \in Mine(s, own, k, a) \cup {Null}
         /\ Start(s, d, a) = Null <=> Mine(s, own, k, a) = {}
         /\ InUse(s) \subseteq Nat \ {Null}
         /\ InUse(s) \subseteq DOMAIN s.header
<1>1. InUse(s) \subseteq DOMAIN s.header
  BY DEF InUse
<1>2. InUse(s) \subseteq Nat \ {Null}
  <2>1. DOMAIN s.header = 1..Len(s.header) /\ Len(s.header) \in Nat
    BY LiveAndSpare
  <2> QED
    BY <1>1, <2>1 DEF Null
<1>3. Mine(s, own, k, a) \subseteq InUse(s)
  BY DEF Mine
<1>4. OneWay(Mine(s, own, k, a), Start(s, d, a), Nexts(s))
  BY DEF Reachable
<1>5. /\ Mine(s, own, k, a) = {} => Start(s, d, a) = Null
      /\ Mine(s, own, k, a) # {} => Start(s, d, a) \in Mine(s, own, k, a)
  BY <1>4 DEF OneWay, InLine
<1> QED
  BY <1>1, <1>2, <1>3, <1>5

\* MetachunkList::add, when the arena lists what it has taken.
LEMMA AddKeeps ==
  ASSUME NEW s, Sound(s, {}), NEW k, NEW d, NEW own, Reachable(s, k, d, own),
         NEW a \in Arenas, k[a] # Null
  PROVE  LET t == Add(s, a, k[a]) IN
         /\ Sound(t, {}) /\ InUse(t) = InUse(s)
         /\ \A x \in InUse(s) : /\ t.header[x].base = s.header[x].base
                                /\ t.header[x].level = s.header[x].level
         /\ Reachable(t, [k EXCEPT ![a] = Null], d, own)
<1> DEFINE c == k[a]
           f == s.chain[a].first
           t == Add(s, a, c)
           j == [k EXCEPT ![a] = Null]
<1>1. s \in HeapSet
  BY DEF Sound
<1>2. /\ own \in [InUse(s) -> Arenas] /\ k \in [Arenas -> Nat] /\ DOMAIN d \subseteq Arenas
      /\ \A b \in Arenas : k[b] # Null => k[b] \in InUse(s) /\ own[k[b]] = b /\ b \notin DOMAIN d
  BY DEF Reachable
<1>3. c \in InUse(s) /\ own[c] = a /\ a \notin DOMAIN d
  BY <1>2
<1>4. f = Start(s, d, a)
  BY <1>3 DEF Start
<1>5. /\ f \in Mine(s, own, k, a) \cup {Null} /\ Mine(s, own, k, a) \subseteq InUse(s)
      /\ InUse(s) \subseteq Nat \ {Null} /\ InUse(s) \subseteq DOMAIN s.header
  BY <1>1, <1>4, MineFacts
<1>6. j \in [Arenas -> Nat] /\ j[a] = Null /\ \A b \in Arenas \ {a} : j[b] = k[b]
  BY <1>2 DEF Null
<1> HIDE DEF f, c, j
<1>7. /\ Chained(s, t, a) /\ t.chain[a].first = c
      /\ \A x \in DOMAIN s.header :
           /\ t.header[x].next = IF x = c THEN f ELSE s.header[x].next
           /\ t.header[x].prev = IF x = f THEN c ELSE s.header[x].prev
  <2>1. /\ c \in DOMAIN s.header /\ a \in Arenas \cup {"pool"}
        /\ s.chain[a].first \in DOMAIN s.header \cup {Null}
    BY <1>3, <1>5 DEF f
  <2> QED
    BY <1>1, <2>1, AddPut DEF f
<1> HIDE DEF t
<1>8. Sound(t, {}) /\ InUse(t) = InUse(s)
  <2>1. \A x \in DOMAIN s.header : s.header[x].state # "inuse" =>
          t.header[x].next = s.header[x].next /\ t.header[x].prev = s.header[x].prev
    <3>1. \A x \in DOMAIN s.header : s.header[x].state # "inuse" => x # c /\ x # f
      <4>1. DOMAIN s.header = 1..Len(s.header) /\ Len(s.header) \in Nat
        BY <1>1, LiveAndSpare
      <4>2. Null \notin DOMAIN s.header
        BY <4>1 DEF Null
      <4> QED
        BY <1>3, <1>5, <4>2 DEF InUse
    <3> QED
      BY <1>7, <3>1
  <2> QED
    BY <1>7, <2>1, ChainFrame
<1>9. ASSUME NEW b \in Arenas
      PROVE  OneWay(Mine(t, own, j, b), Start(t, d, b), Nexts(t))
  <2> DEFINE M == Mine(s, own, k, b)
             first == Start(s, d, b)
  <2>1. OneWay(M, first, Nexts(s))
    BY DEF Reachable
  <2>2. M \subseteq InUse(s) /\ M \subseteq InUse(t) /\ c \notin M
    BY <1>3, <1>8 DEF Mine, c
  <2>3. \A x \in M : t.header[x].next = s.header[x].next
    BY <1>5, <1>7, <2>2
  <2>4. CASE b # a
    <3>1. Mine(t, own, j, b) = M
      BY <1>6, <1>8, <2>4 DEF Mine
    <3>2. Start(t, d, b) = first
      BY <1>7, <2>4 DEF Start, Chained
    <3> HIDE DEF M, first
    <3>3. OneWay(M, first, Nexts(t))
      BY <2>1, <2>2, <2>3, MineKept
    <3> QED
      BY <3>1, <3>2, <3>3
  <2>5. CASE b = a
    <3>1. Mine(t, own, j, b) = M \cup {c}
      BY <1>3, <1>5, <1>6, <1>8, <2>5 DEF Mine, c
    <3>2. Start(t, d, b) = c /\ first = f
      BY <1>3, <1>4, <1>7, <2>5 DEF Start
    <3> HIDE DEF M, first
    <3>3. \A x \in M : Nexts(t)[x] = Nexts(s)[x]
      BY <2>2, <2>3 DEF Nexts, InUse
    <3>4. Nexts(t)[c] = first /\ c \in Nat \ {Null} /\ c \notin M
      BY <1>3, <1>5, <1>7, <1>8, <2>2, <3>2 DEF Nexts, InUse
    <3>5. OneWay(M \cup {c}, c, Nexts(t))
      BY <2>1, <3>3, <3>4, OneWayFront
    <3> QED
      BY <3>1, <3>2, <3>5
  <2> QED
    BY <2>4, <2>5
<1>10. Reachable(t, j, d, own)
  <2>1. \A b \in Arenas : j[b] # Null => j[b] \in InUse(t) /\ own[j[b]] = b /\ b \notin DOMAIN d
    BY <1>2, <1>6, <1>8
  <2> QED
    BY <1>2, <1>6, <1>8, <1>9, <2>1 DEF Reachable
<1>11. \A x \in InUse(s) : /\ t.header[x].base = s.header[x].base
                           /\ t.header[x].level = s.header[x].level
  BY <1>5, <1>7 DEF Chained
<1> QED
  BY <1>8, <1>10, <1>11 DEF t, j, c

-----------------------------------------------------------------------------

\* The destructor of arena a begins.
LEMMA ReachDying ==
  ASSUME NEW s, NEW k, NEW d, NEW own, Reachable(s, k, d, own), NEW a \in Arenas,
         a \notin DOMAIN d, k[a] = Null
  PROVE  Reachable(s, k, [b \in DOMAIN d \cup {a} |-> IF b = a THEN s.chain[a].first ELSE d[b]], own)
<1> DEFINE e == [b \in DOMAIN d \cup {a} |-> IF b = a THEN s.chain[a].first ELSE d[b]]
<1>1. DOMAIN e = DOMAIN d \cup {a} /\ DOMAIN d \subseteq Arenas
  BY DEF Reachable
<1>2. \A b \in Arenas : Start(s, e, b) = Start(s, d, b)
  BY DEF Start
<1> HIDE DEF e
<1>3. Reachable(s, k, e, own)
  BY <1>1, <1>2 DEF Reachable
<1> QED
  BY <1>3 DEF e

OwnersIn(t, own) == [h \in InUse(t) |-> own[h]]

GoneOn(s, d, a) == [d EXCEPT ![a] = s.header[d[a]].next]

\* The destructor of arena a returns the chunk it is at, and goes on with the
\* one it read of before.
LEMMA ReachReturned ==
  ASSUME NEW s \in HeapSet, NEW k, NEW d, NEW own, Reachable(s, k, d, own),
         NEW t, NEW a \in DOMAIN d, d[a] # Null,
         Spared(s, t, {d[a]}), InUse(t) = InUse(s) \ {d[a]}
  PROVE  Reachable(t, k, GoneOn(s, d, a), OwnersIn(t, own))
<1> DEFINE c == d[a]
           n == s.header[c].next
           e == [d EXCEPT ![a] = n]
           its == OwnersIn(t, own)
<1>1. /\ own \in [InUse(s) -> Arenas] /\ k \in [Arenas -> Nat] /\ DOMAIN d \subseteq Arenas
      /\ \A b \in Arenas : k[b] # Null => k[b] \in InUse(s) /\ own[k[b]] = b /\ b \notin DOMAIN d
  BY DEF Reachable
<1>2. a \in Arenas /\ k[a] = Null /\ Start(s, d, a) = c
  BY <1>1 DEF Start
<1>3. /\ c \in Mine(s, own, k, a) /\ c \in InUse(s) /\ own[c] = a
      /\ InUse(s) \subseteq Nat \ {Null} /\ InUse(s) \subseteq DOMAIN s.header
  <2>1. /\ c \in Mine(s, own, k, a) \cup {Null} /\ InUse(s) \subseteq Nat \ {Null}
        /\ InUse(s) \subseteq DOMAIN s.header
    BY <1>2, MineFacts
  <2> QED
    BY <2>1 DEF Mine
<1>4. its \in [InUse(t) -> Arenas] /\ \A h \in InUse(t) : its[h] = own[h]
  BY <1>1 DEF OwnersIn
<1>5. DOMAIN e = DOMAIN d /\ \A b \in Arenas : Start(t, e, b) = IF b = a THEN n ELSE Start(s, d, b)
  <2>1. DOMAIN e = DOMAIN d /\ e[a] = n /\ \A b \in DOMAIN d \ {a} : e[b] = d[b]
    OBVIOUS
  <2>2. \A b \in Arenas : t.chain[b] = s.chain[b]
    BY DEF Spared
  <2> HIDE DEF e, n, c
  <2> QED
    BY <2>1, <2>2 DEF Start
<1>6. InUse(t) = InUse(s) \ {c} /\ \A x \in InUse(s) \ {c} : t.header[x].next = s.header[x].next
  BY DEF Spared
<1>7. Nexts(s)[c] = n
  BY <1>3 DEF Nexts
<1> HIDE DEF e, its, n, c
<1>8. ASSUME NEW b \in Arenas, k[b] # Null
      PROVE  k[b] \in InUse(t) /\ its[k[b]] = b /\ b \notin DOMAIN e
  <2>1. k[b] \in InUse(s) /\ own[k[b]] = b /\ b \notin DOMAIN d /\ b # a
    BY <1>1, <1>2, <1>8
  <2> QED
    BY <1>3, <1>4, <1>5, <1>6, <2>1
<1>9. ASSUME NEW b \in Arenas
      PROVE  OneWay(Mine(t, its, k, b), Start(t, e, b), Nexts(t))
  <2> DEFINE M == Mine(s, own, k, b)
             first == Start(s, d, b)
  <2>1. OneWay(M, first, Nexts(s))
    BY DEF Reachable
  <2>2. Mine(t, its, k, b) = M \ {c}
    BY <1>4, <1>6 DEF Mine
  <2>3. M \ {c} \subseteq InUse(s) \ {c} /\ M \subseteq InUse(s)
    BY DEF Mine
  <2>4. CASE b # a
    <3>1. c \notin M
      BY <1>3, <2>4 DEF Mine
    <3>2. Start(t, e, b) = first
      BY <1>5, <2>4
    <3>3. M \subseteq InUse(t) /\ M \ {c} = M /\ \A x \in M : t.header[x].next = s.header[x].next
      BY <1>6, <2>3, <3>1
    <3> HIDE DEF M, first
    <3>4. OneWay(M, first, Nexts(t))
      BY <2>1, <2>3, <3>3, MineKept
    <3> QED
      BY <2>2, <3>2, <3>3, <3>4
  <2>5. CASE b = a
    <3>1. first = c /\ c \in M /\ Start(t, e, b) = n
      BY <1>2, <1>3, <1>5, <2>5
    <3>2. \A x \in M \ {c} : Nexts(t)[x] = Nexts(s)[x]
      BY <1>6, <2>3 DEF Nexts, InUse
    <3> HIDE DEF M, first
    <3>3. \A x \in M : Nexts(s)[x] # first \/ Nexts(s)[x] = Null
      BY <2>1, OneBefore
    <3>4. \A x \in M \ {c} :
            Nexts(t)[x] = IF Nexts(s)[x] = c THEN Nexts(s)[c] ELSE Nexts(s)[x]
      BY <1>3, <3>1, <3>2, <3>3
    <3>5. OneWay(M \ {c}, IF first = c THEN Nexts(s)[c] ELSE first, Nexts(t))
      BY <2>1, <3>1, <3>4, OneWayWithout
    <3> QED
      BY <1>7, <2>2, <3>1, <3>5
  <2> QED
    BY <2>4, <2>5
<1>10. Reachable(t, k, e, its)
  BY <1>1, <1>4, <1>5, <1>8, <1>9 DEF Reachable
<1> QED
  BY <1>10 DEF e, its, n, c, GoneOn

\* The destructor has returned them all: its list goes.
LEMMA ReachDead ==
  ASSUME NEW s, Sound(s, {}), NEW k, NEW d, NEW own, Reachable(s, k, d, own),
         NEW a \in DOMAIN d, d[a] = Null
  PROVE  LET t == [s EXCEPT !.chain[a] = NoList] IN
         /\ Sound(t, {}) /\ t.header = s.header
         /\ Reachable(t, k, Restrict(d, DOMAIN d \ {a}), own)
<1> DEFINE t == [s EXCEPT !.chain = [s.chain EXCEPT ![a] = NoList]]
           e == Restrict(d, DOMAIN d \ {a})
<1>1. s \in HeapSet
  BY DEF Sound
<1>2. DOMAIN d \subseteq Arenas /\ a \in Arenas
  BY DEF Reachable
<1>3. /\ t \in HeapSet /\ t.header = s.header /\ t.slabs = s.slabs /\ t.handedOut = s.handedOut
      /\ t.free = s.free /\ t.firstOf = s.firstOf
      /\ t.chain[a] = NoList /\ \A p \in (Arenas \cup {"pool"}) \ {a} : t.chain[p] = s.chain[p]
  <2>1. s.chain \in [Arenas \cup {"pool"} -> ListSet] /\ NoList \in ListSet
    BY <1>1 DEF HeapSet, ListSet, NoList, Null
  <2>2. [s.chain EXCEPT ![a] = NoList] \in [Arenas \cup {"pool"} -> ListSet]
    BY <2>1
  <2> QED
    BY <1>1, <1>2, <2>1, <2>2 DEF HeapSet
<1>4. [s EXCEPT !.chain[a] = NoList] = t
  OBVIOUS
<1> HIDE DEF t
<1>5. Sound(t, {}) /\ InUse(t) = InUse(s)
  <2>1. Chained(s, t, a)
    BY <1>3 DEF Chained
  <2>2. \A x \in DOMAIN s.header : s.header[x].state # "inuse" =>
          t.header[x].next = s.header[x].next /\ t.header[x].prev = s.header[x].prev
    BY <1>3
  <2> QED
    BY <1>2, <2>1, <2>2, ChainFrame
<1>6. DOMAIN e = DOMAIN d \ {a} /\ \A b \in DOMAIN d \ {a} : e[b] = d[b]
  BY DEF Restrict
<1> HIDE DEF e
<1>7. Nexts(t) = Nexts(s)
  BY <1>3 DEF Nexts
<1>8. ASSUME NEW b \in Arenas
      PROVE  Start(t, e, b) = Start(s, d, b) /\ Mine(t, own, k, b) = Mine(s, own, k, b)
  <2>1. Mine(t, own, k, b) = Mine(s, own, k, b)
    BY <1>5 DEF Mine
  <2>2. CASE b = a
    BY <1>3, <1>6, <2>1, <2>2 DEF Start, NoList
  <2>3. CASE b # a
    BY <1>3, <1>6, <2>1, <2>3 DEF Start
  <2> QED
    BY <2>2, <2>3
<1>9. Reachable(t, k, e, own)
  BY <1>5, <1>6, <1>7, <1>8 DEF Reachable
<1> QED
  BY <1>3, <1>4, <1>5, <1>9 DEF e

-----------------------------------------------------------------------------

(* The inductive invariant, and what each action does to the chunks in use. *)

Intact(s, k, d) == Sound(s, {}) /\ \E own : Reachable(s, k, d, own)

HeaderInv == Intact(heap, taken, dying)

Alike(p, q) == p.base = q.base /\ p.level = q.level

\* From s to t the chunks in use stay.
Stays(s, t) ==
  InUse(t) = InUse(s) /\ \A x \in InUse(s) : Alike(t.header[x], s.header[x])

\* One is taken.
Gains(s, t) ==
  \E c : /\ c \notin InUse(s) /\ InUse(t) = InUse(s) \cup {c}
         /\ \A x \in InUse(s) : Alike(t.header[x], s.header[x])

\* One is twice as long as it was.
Grows(s, t) ==
  /\ InUse(t) = InUse(s)
  /\ \E c \in InUse(s) :
       /\ s.header[c].level \in Levels /\ s.header[c].level > 0
       /\ t.header[c].level = s.header[c].level - 1 /\ t.header[c].base = s.header[c].base
       /\ \A x \in InUse(s) \ {c} : Alike(t.header[x], s.header[x])

\* One is given back.
Loses(s, t) ==
  \E c \in InUse(s) : /\ InUse(t) = InUse(s) \ {c}
                      /\ \A x \in InUse(t) : Alike(t.header[x], s.header[x])

\* No header, no chunk.
LEMMA EmptyIntact ==
  ASSUME NEW k, k = [a \in Arenas |-> Null], NEW d, d = [a \in {} |-> Null]
  PROVE  Intact(Empty, k, d)
<1> DEFINE s == Empty
<1>1. /\ s.header = <<>> /\ s.slabs = 0 /\ s.handedOut = 0
      /\ s.chain = [o \in Arenas \cup {"pool"} |-> NoList] /\ s.free = [l \in Levels |-> NoList]
      /\ s.firstOf = [r \in Areas |-> Null]
  BY DEF Empty
<1>2. s \in HeapSet
  <2>1. NoList \in ListSet /\ Null \in Nat /\ 0 \in Nat /\ 0 \in Int
    BY DEF NoList, ListSet, Null
  <2>2. /\ [o \in Arenas \cup {"pool"} |-> NoList] \in [Arenas \cup {"pool"} -> ListSet]
        /\ [l \in Levels |-> NoList] \in [Levels -> ListSet]
        /\ [r \in Areas |-> Null] \in [Areas -> Nat]
        /\ <<>> \in Seq(HeaderSet)
    BY <2>1
  <2> QED
    BY <2>1, <2>2 DEF HeapSet, Empty
<1> HIDE DEF s
<1>3. DOMAIN s.header = {} /\ Len(s.header) = 0
  BY <1>1
<1>4. Live(s) = {} /\ Spare(s) = {} /\ InUse(s) = {} /\ \A l \in Levels : Idle(s, l, {}) = {}
  BY <1>3 DEF Live, Spare, InUse, Idle
<1>5. Cardinality({}) = 0
  BY FS_EmptySet
<1>6. Placed(s)
  BY <1>1, <1>4 DEF Placed, FirstRight
<1>7. FreeLinked(s, {})
  <2> SUFFICES ASSUME NEW l \in Levels
               PROVE  /\ TwoWay(Idle(s, l, {}), s.free[l].first, s.free[l].last, Nexts(s), Prevs(s))
                      /\ s.free[l].count = Cardinality(Idle(s, l, {}))
    BY DEF FreeLinked
  <2>1. /\ Idle(s, l, {}) = {}
        /\ s.free[l].first = Null /\ s.free[l].last = Null /\ s.free[l].count = 0
    BY <1>1, <1>4 DEF NoList
  <2> QED
    BY <1>5, <2>1, NoneInLine
<1>8. PoolLinked(s)
  <2>1. OneWay(Spare(s), s.chain["pool"].first, Nexts(s)) /\ s.chain["pool"].count = 0
    BY <1>1, <1>4, NoneInLine DEF NoList
  <2>2. (0 + SlabCapacity - 1) \div SlabCapacity = 0
    <3>1. SlabCapacity \in Nat /\ SlabCapacity > 0
      BY HeaderAssumption
    <3> HIDE DEF s
    <3> QED
      BY <3>1, QuotientUnique
  <2> QED
    BY <1>1, <1>3, <1>4, <1>5, <2>1, <2>2 DEF PoolLinked
<1>9. Len(s.header) <= MostChunks
  <2>1. MostChunks \in Nat
    BY <1>2, <1>6, PlacedFew
  <2> QED
    BY <1>3, <2>1
<1>10. Sound(s, {})
  BY <1>2, <1>6, <1>7, <1>8, <1>9 DEF Sound
<1>11. Reachable(s, k, d, [h \in {} |-> Null])
  <2> DEFINE own == [h \in {} |-> Null]
  <2>1. own \in [InUse(s) -> Arenas] /\ DOMAIN d = {} /\ k \in [Arenas -> Nat]
        /\ \A a \in Arenas : k[a] = Null
    BY <1>4 DEF Null
  <2>2. ASSUME NEW a \in Arenas
        PROVE  OneWay(Mine(s, own, k, a), Start(s, d, a), Nexts(s))
    <3>1. Mine(s, own, k, a) = {} /\ Start(s, d, a) = Null
      BY <1>1, <1>4, <2>1 DEF Mine, Start, NoList
    <3> QED
      BY <3>1, NoneInLine
  <2> QED
    BY <2>1, <2>2 DEF Reachable
<1> QED
  BY <1>10, <1>11 DEF Intact, s

\* A heap that differs in nothing an arena can reach.
LEMMA PurgedKept ==
  ASSUME NEW s, NEW t, Purged(s, t)
  PROVE  Kept(s, t) /\ Stays(s, t)
<1>1. Spared(s, t, {}) /\ InUse(t) = InUse(s)
  BY DEF Purged
<1>2. /\ \A a \in Arenas : t.chain[a] = s.chain[a]
      /\ \A x \in InUse(s) : /\ t.header[x].next = s.header[x].next
                             /\ t.header[x].base = s.header[x].base
                             /\ t.header[x].level = s.header[x].level
  BY <1>1 DEF Spared
<1> QED
  BY <1>1, <1>2 DEF Kept, Stays, Alike

\* A purge of nodes leaves what is sound sound.
LEMMA PurgedIntact ==
  ASSUME NEW s, NEW t, NEW k, NEW d, Intact(s, k, d), Purged(s, t)
  PROVE  Intact(t, k, d) /\ Stays(s, t)
<1>1. PICK own : Reachable(s, k, d, own)
  BY DEF Intact
<1>2. Kept(s, t) /\ Stays(s, t)
  BY PurgedKept
<1>3. Reachable(t, k, d, own)
  BY <1>1, <1>2, ReachKept
<1> QED
  BY <1>2, <1>3 DEF Intact, Purged

\* What get_chunk does once it has found chunk c.
LEMMA HandOutIntact ==
  ASSUME HeaderInv, NEW a \in Arenas, a \notin DOMAIN dying, taken[a] = Null,
         NEW s, Spared(heap, s, {}), InUse(s) = InUse(heap),
         NEW c, Sound(s, {c}), c \in Live(s), Free(s, c),
         NEW target \in Levels, HandOut(a, s, c, target), UNCHANGED dying
  PROVE  /\ Intact(heap', taken', dying')
         /\ Gains(heap, heap') \/ Stays(heap, heap')
<1>1. Sound(heap, {}) /\ heap \in HeapSet
  BY DEF HeaderInv, Intact, Sound
<1>2. PICK own : Reachable(heap, taken, dying, own)
  BY DEF HeaderInv, Intact
<1>8. PICK places \in [s.header[c].level + 1..target -> Places] :
        LET t == CutAndMarked(s, c, target, places) IN
        \/ heap' = t /\ taken' = [taken EXCEPT ![a] = c]
        \/ \E place \in Places : heap' = ReturnChunk(t, c, place) /\ UNCHANGED taken
  BY DEF HandOut, CutAndMarked
<1> DEFINE t == CutAndMarked(s, c, target, places)
<1>3. Handed(s, t, c) /\ \A place \in Places : Purged(s, ReturnChunk(t, c, place))
  BY HandOutKeeps
<1>4. \/ heap' = t /\ taken' = [taken EXCEPT ![a] = c]
      \/ \E place \in Places : heap' = ReturnChunk(t, c, place) /\ UNCHANGED taken
  BY <1>8
<1> HIDE DEF t
<1>5. Spared(heap, s, {}) /\ InUse(s) = InUse(heap)
  OBVIOUS
<1>6. CASE heap' = t /\ taken' = [taken EXCEPT ![a] = c]
  <2>1. Sound(t, {}) /\ Spared(s, t, {c}) /\ c \notin InUse(s) /\ InUse(t) = InUse(s) \cup {c}
    BY <1>3 DEF Handed
  <2>2. Spared(heap, t, {c})
    <3>1. Spared(heap, s, {c})
      BY <1>5, SparedMore
    <3> QED
      BY <2>1, <3>1, SparedOn
  <2>3. Handed(heap, t, c)
    BY <1>5, <2>1, <2>2 DEF Handed
  <2>4. c \in Nat
    <3>1. s \in HeapSet
      BY DEF Sound
    <3>2. DOMAIN s.header = 1..Len(s.header) /\ Len(s.header) \in Nat
      BY <3>1, LiveAndSpare
    <3> QED
      BY <3>2 DEF Live
  <2>5. Reachable(t, [taken EXCEPT ![a] = c], dying, WithOwner(t, own, c, a))
    BY <1>1, <1>2, <2>3, <2>4, ReachTaken
  <2>6. Intact(t, taken', dying)
    BY <1>6, <2>1, <2>5 DEF Intact
  <2>7. Gains(heap, t)
    <3>1. \A x \in InUse(heap) : Alike(t.header[x], heap.header[x])
      BY <1>5, <2>1, <2>2 DEF Spared, Alike
    <3> QED
      BY <1>5, <2>1, <3>1 DEF Gains
  <2> QED
    BY <1>6, <2>6, <2>7
<1>7. ASSUME NEW place \in Places, heap' = ReturnChunk(t, c, place), UNCHANGED taken
      PROVE  /\ Intact(heap', taken', dying')
             /\ Gains(heap, heap') \/ Stays(heap, heap')
  <2> DEFINE u == ReturnChunk(t, c, place)
  <2>3. heap' = u /\ Purged(s, u)
    BY <1>3, <1>7
  <2> HIDE DEF u
  <2>1. Purged(heap, u)
    BY <2>3, <1>5, SparedOn DEF Purged
  <2>2. Intact(u, taken, dying) /\ Stays(heap, u)
    BY <2>1, PurgedIntact DEF HeaderInv
  <2> QED
    BY <1>7, <2>2, <2>3
<1> QED
  BY <1>4, <1>6, <1>7

-----------------------------------------------------------------------------

\* What a step may do to the chunks in use.
Counted(s, t) == Stays(s, t) \/ Gains(s, t) \/ Grows(s, t) \/ Loses(s, t)

\* get_chunk leaves headers and lists sound, and counts the chunk it hands out.
LEMMA GetChunkIntact ==
  ASSUME HeaderInv, NEW a \in Arenas, NEW target \in Levels, GetChunk(a, target)
  PROVE  Intact(heap', taken', dying') /\ Counted(heap, heap')
<1>1. Sound(heap, {})
  BY DEF HeaderInv, Intact
<1>2. a \notin DOMAIN dying /\ taken[a] = Null /\ UNCHANGED dying
  BY DEF GetChunk
<1>3. ASSUME NEW l \in Levels, heap.free[l].first # Null,
             HandOut(a, Delist(heap, heap.free[l].first), heap.free[l].first, target)
      PROVE  Intact(heap', taken', dying') /\ Counted(heap, heap')
  <2> DEFINE c == heap.free[l].first
             s == Delist(heap, c)
  <2>2. /\ Sound(s, {c}) /\ c \in Live(s) /\ Free(s, c) /\ s.header[c].level = l
        /\ Spared(heap, s, {}) /\ InUse(s) = InUse(heap)
    BY <1>1, <1>3, FindKeeps
  <2>3. HandOut(a, s, c, target)
    BY <1>3
  <2> HIDE DEF s, c
  <2>5. Intact(heap', taken', dying') /\ (Gains(heap, heap') \/ Stays(heap, heap'))
    BY <1>2, <2>2, <2>3, HandOutIntact
  <2> QED
    BY <2>5 DEF Counted
<1>4. ASSUME NEW r \in Areas, heap.firstOf[r] = Null,
             HandOut(a, RootChunk(heap, r), NextHeader(heap), target)
      PROVE  Intact(heap', taken', dying') /\ Counted(heap, heap')
  <2> DEFINE c == NextHeader(heap)
             s == RootChunk(heap, r)
  <2>1. /\ Sound(s, {c}) /\ c \in Live(s) /\ Free(s, c) /\ Spared(heap, s, {})
        /\ s.header[c].level = 0
    BY <1>1, <1>4, RootKeeps
  <2>2. HandOut(a, s, c, target)
    BY <1>4
  <2> HIDE DEF s, c
  <2>3. InUse(s) = InUse(heap)
    BY <2>1 DEF Spared
  <2>5. Intact(heap', taken', dying') /\ (Gains(heap, heap') \/ Stays(heap, heap'))
    BY <1>2, <2>1, <2>2, <2>3, HandOutIntact
  <2> QED
    BY <2>5 DEF Counted
\* The next area is one that has not been handed out.
<1>5. ASSUME NEW r \in Areas, NextArea(heap, r)
      PROVE  heap.firstOf[r] = Null
  <2>1. r \in AreasOf(r \div RootsPerNode) /\ r <= r
    BY AreaSize DEF AreasOf
  <2> QED
    BY <1>5, <2>1 DEF NextArea
<1> QED
  BY <1>3, <1>4, <1>5 DEF GetChunk

\* So does listing the new chunk in its arena.
LEMMA AddChunkIntact ==
  ASSUME HeaderInv, NEW a \in Arenas, AddChunk(a)
  PROVE  Intact(heap', taken', dying') /\ Counted(heap, heap')
<1> DEFINE t == Add(heap, a, taken[a])
           j == [taken EXCEPT ![a] = Null]
<1>1. Sound(heap, {})
  BY DEF HeaderInv, Intact
<1>2. PICK own : Reachable(heap, taken, dying, own)
  BY DEF HeaderInv, Intact
<1>3. taken[a] # Null /\ heap' = t /\ taken' = j /\ dying' = dying
  BY DEF AddChunk
<1>4. /\ Sound(t, {}) /\ InUse(t) = InUse(heap)
      /\ \A x \in InUse(heap) : /\ t.header[x].base = heap.header[x].base
                                /\ t.header[x].level = heap.header[x].level
      /\ Reachable(t, j, dying, own)
  BY <1>1, <1>2, <1>3, AddKeeps
<1> HIDE DEF t, j
<1>5. Intact(t, j, dying) /\ Stays(heap, t)
  BY <1>4 DEF Intact, Stays, Alike
<1> QED
  BY <1>3, <1>5 DEF Counted

\* So does enlarging a chunk in place.
LEMMA AttemptEnlargeIntact ==
  ASSUME HeaderInv, NEW a \in Arenas, AttemptEnlarge(a)
  PROVE  Intact(heap', taken', dying') /\ Counted(heap, heap')
<1> DEFINE c == heap.chain[a].first
           t == Enlarge(heap, c)
<1>1. Sound(heap, {}) /\ heap \in HeapSet
  BY DEF HeaderInv, Intact, Sound
<1>2. PICK own : Reachable(heap, taken, dying, own)
  BY DEF HeaderInv, Intact
<1>3. a \notin DOMAIN dying /\ c # Null /\ CanEnlarge(heap, c) /\ heap' = t /\ taken' = taken /\ dying' = dying
  BY DEF AttemptEnlarge
<1>4. c \in InUse(heap)
  <2>1. c = Start(heap, dying, a)
    BY <1>3 DEF Start
  <2> HIDE DEF c
  <2>2. /\ Mine(heap, own, taken, a) \subseteq InUse(heap)
        /\ Start(heap, dying, a) \in Mine(heap, own, taken, a) \cup {Null}
    BY <1>1, <1>2, MineFacts
  <2> QED
    BY <1>3, <2>1, <2>2
<1>5. /\ Sound(t, {}) /\ Spared(heap, t, {c}) /\ InUse(t) = InUse(heap)
      /\ t.header[c].next = heap.header[c].next /\ t.header[c].base = heap.header[c].base
      /\ heap.header[c].level \in Levels /\ heap.header[c].level > 0
      /\ t.header[c].level = heap.header[c].level - 1
  BY <1>1, <1>3, <1>4, EnlargeKeeps
<1> HIDE DEF t, c
<1>6. Kept(heap, t)
  BY <1>5 DEF Spared, Kept
<1>7. Intact(t, taken, dying)
  <2>1. Reachable(t, taken, dying, own)
    BY <1>2, <1>6, ReachKept
  <2> QED
    BY <1>5, <2>1 DEF Intact
<1>8. Grows(heap, t)
  BY <1>4, <1>5 DEF Spared, Grows, Alike
<1> QED
  BY <1>3, <1>7, <1>8 DEF Counted

\* So does the beginning of the destructor.
LEMMA DieIntact ==
  ASSUME HeaderInv, NEW a \in Arenas, Die(a)
  PROVE  Intact(heap', taken', dying') /\ Counted(heap, heap')
<1> DEFINE e == [b \in DOMAIN dying \cup {a} |-> IF b = a THEN heap.chain[a].first ELSE dying[b]]
<1>1. PICK own : Reachable(heap, taken, dying, own)
  BY DEF HeaderInv, Intact
<1>2. a \notin DOMAIN dying /\ taken[a] = Null /\ heap' = heap /\ taken' = taken /\ dying' = e
  BY DEF Die
<1>3. Reachable(heap, taken, e, own)
  BY <1>1, <1>2, ReachDying
<1> HIDE DEF e
<1>4. Intact(heap, taken, e)
  BY <1>3 DEF HeaderInv, Intact
<1>5. Stays(heap, heap)
  BY DEF Stays, Alike
<1> QED
  BY <1>2, <1>4, <1>5 DEF Counted

\* So does the return of the chunk it is at.
LEMMA ReturnNextIntact ==
  ASSUME HeaderInv, NEW a \in DOMAIN dying, NEW place \in Places, ReturnNext(a, place)
  PROVE  Intact(heap', taken', dying') /\ Counted(heap, heap')
<1> DEFINE c == dying[a]
           t == ReturnChunk(heap, c, place)
           e == GoneOn(heap, dying, a)
<1>1. Sound(heap, {}) /\ heap \in HeapSet
  BY DEF HeaderInv, Intact, Sound
<1>2. PICK own : Reachable(heap, taken, dying, own)
  BY DEF HeaderInv, Intact
<1>3. c # Null /\ heap' = t /\ taken' = taken /\ dying' = e
  BY DEF ReturnNext, GoneOn
<1>4. c \in InUse(heap)
  <2>1. a \in Arenas /\ c = Start(heap, dying, a)
    BY <1>2 DEF Reachable, Start
  <2> HIDE DEF c
  <2>2. /\ Mine(heap, own, taken, a) \subseteq InUse(heap)
        /\ Start(heap, dying, a) \in Mine(heap, own, taken, a) \cup {Null}
    BY <1>1, <1>2, <2>1, MineFacts
  <2> QED
    BY <1>3, <2>1, <2>2
<1>5. Sound(t, {}) /\ Spared(heap, t, {c}) /\ InUse(t) = InUse(heap) \ {c}
  BY <1>1, <1>4, ReturnKeeps
<1> HIDE DEF t
<1>6. Reachable(t, taken, e, OwnersIn(t, own))
  BY <1>1, <1>2, <1>3, <1>5, ReachReturned
<1> HIDE DEF c, e
<1>7. Intact(t, taken, e)
  BY <1>5, <1>6 DEF Intact
<1>8. Loses(heap, t)
  BY <1>4, <1>5 DEF Spared, Loses, Alike
<1> QED
  BY <1>3, <1>7, <1>8 DEF Counted

\* So does the end of the destructor.
LEMMA DeadIntact ==
  ASSUME HeaderInv, NEW a \in DOMAIN dying, Dead(a)
  PROVE  Intact(heap', taken', dying') /\ Counted(heap, heap')
<1> DEFINE t == [heap EXCEPT !.chain[a] = NoList]
           e == Restrict(dying, DOMAIN dying \ {a})
<1>1. Sound(heap, {})
  BY DEF HeaderInv, Intact
<1>2. PICK own : Reachable(heap, taken, dying, own)
  BY DEF HeaderInv, Intact
<1>3. dying[a] = Null /\ heap' = t /\ taken' = taken /\ dying' = e
  BY DEF Dead
<1>4. Sound(t, {}) /\ t.header = heap.header /\ Reachable(t, taken, e, own)
  BY <1>1, <1>2, <1>3, ReachDead
<1> HIDE DEF t, e
<1>5. Intact(t, taken, e)
  BY <1>4 DEF Intact
<1>6. Stays(heap, t)
  BY <1>4 DEF Stays, Alike, InUse
<1> QED
  BY <1>3, <1>5, <1>6 DEF Counted

-----------------------------------------------------------------------------

\* The invariant holds at first, and every step keeps it.
LEMMA InvInitially == Init => HeaderInv
  BY EmptyIntact DEF Init, HeaderInv

\* So does every step.
LEMMA InvNext ==
  ASSUME HeaderInv, [Next]_vars
  PROVE  HeaderInv' /\ Counted(heap, heap')
<1>1. Intact(heap', taken', dying') /\ Counted(heap, heap')
  <2>1. CASE UNCHANGED vars
    <3>1. Stays(heap, heap)
      BY DEF Stays, Alike
    <3> QED
      BY <2>1, <3>1 DEF HeaderInv, Counted, vars
  <2>2. ASSUME NEW a \in Arenas, NEW target \in Levels, GetChunk(a, target)
        PROVE  Intact(heap', taken', dying') /\ Counted(heap, heap')
    BY <2>2, GetChunkIntact
  <2>3. ASSUME NEW a \in DOMAIN dying, NEW place \in Places, ReturnNext(a, place)
        PROVE  Intact(heap', taken', dying') /\ Counted(heap, heap')
    BY <2>3, ReturnNextIntact
  <2>4. ASSUME NEW a \in Arenas, AddChunk(a)
        PROVE  Intact(heap', taken', dying') /\ Counted(heap, heap')
    BY <2>4, AddChunkIntact
  <2>5. ASSUME NEW a \in Arenas, AttemptEnlarge(a)
        PROVE  Intact(heap', taken', dying') /\ Counted(heap, heap')
    BY <2>5, AttemptEnlargeIntact
  <2>6. ASSUME NEW a \in Arenas, Die(a)
        PROVE  Intact(heap', taken', dying') /\ Counted(heap, heap')
    BY <2>6, DieIntact
  <2>7. ASSUME NEW a \in DOMAIN dying, Dead(a)
        PROVE  Intact(heap', taken', dying') /\ Counted(heap, heap')
    BY <2>7, DeadIntact
  <2>8. CASE Purge
    <3>1. taken' = taken /\ dying' = dying
      BY <2>8 DEF Purge
    <3>2. Purged(heap, heap')
      BY <2>8, PurgeKeeps DEF HeaderInv, Intact
    <3>3. Intact(heap', taken, dying) /\ Stays(heap, heap')
      BY <3>2, PurgedIntact DEF HeaderInv
    <3> QED
      BY <3>1, <3>3 DEF Counted
  <2> QED
    BY <2>1, <2>2, <2>3, <2>4, <2>5, <2>6, <2>7, <2>8 DEF Next
<1> QED
  BY <1>1 DEF HeaderInv

\* The headers, their links and what arenas reach, always.
THEOREM HeadersIntact == Spec => []HeaderInv
<1>1. HeaderInv /\ [Next]_vars => HeaderInv'
  BY InvNext
<1> QED
  BY InvInitially, <1>1, PTL DEF Spec

-----------------------------------------------------------------------------

(* What arenas reach                                                       *)

\* The walks of the properties meet exactly the headers that are linked.
LEMMA Met ==
  ASSUME heap \in HeapSet, NEW S, S \subseteq DOMAIN heap.header, NEW first, NEW nxt,
         OneWay(S, first, nxt)
  PROVE  Meets(Walk(first, nxt), S, first, nxt)
<1>1. DOMAIN heap.header = 1..Len(heap.header) /\ Len(heap.header) \in Nat
  BY LiveAndSpare
<1>2. S \subseteq 1..Len(heap.header)
  BY <1>1
<1> QED
  BY <1>1, <1>2, WalkMeets

\* From the first header of its list an arena reaches its chunks.
LEMMA ReachTheirs == HeaderInv => ArenasReachTheirs
<1> SUFFICES ASSUME HeaderInv
             PROVE  ArenasReachTheirs
  OBVIOUS
<1>1. heap \in HeapSet
  BY DEF HeaderInv, Intact, Sound
<1>2. PICK own : Reachable(heap, taken, dying, own)
  BY DEF HeaderInv, Intact
<1>3. /\ own \in [InUse(heap) -> Arenas] /\ taken \in [Arenas -> Nat]
      /\ \A a \in Arenas : taken[a] # Null => taken[a] \in InUse(heap) /\ own[taken[a]] = a
  BY <1>2 DEF Reachable
<1> DEFINE M(a) == Mine(heap, own, taken, a)
           Its(a) == {h \in InUse(heap) : own[h] = a}
<1>4. ASSUME NEW a \in Arenas
      PROVE  /\ IsInjective(Reached(a)) /\ ToSet(Reached(a)) = M(a)
             /\ taken[a] \notin M(a) /\ Held(a) = Its(a)
  <2>1. Reached(a) = Walk(Start(heap, dying, a), Nexts(heap))
    BY DEF Reached, Start, NextLinks, Nexts
  <2>2. OneWay(M(a), Start(heap, dying, a), Nexts(heap))
    BY <1>2 DEF Reachable
  <2>3. M(a) \subseteq DOMAIN heap.header /\ Null \notin InUse(heap)
    <3>1. /\ M(a) \subseteq InUse(heap) /\ InUse(heap) \subseteq DOMAIN heap.header
          /\ InUse(heap) \subseteq Nat \ {Null}
      BY <1>1, <1>2, MineFacts
    <3> QED
      BY <3>1
  <2>4. taken[a] \notin M(a) /\ M(a) \cup ({taken[a]} \ {Null}) = Its(a)
    BY <1>3, <2>3 DEF Mine
  <2> HIDE DEF M, Its
  <2>5. Meets(Walk(Start(heap, dying, a), Nexts(heap)), M(a), Start(heap, dying, a), Nexts(heap))
    BY <1>1, <2>2, <2>3, Met
  <2>6. IsInjective(Reached(a)) /\ ToSet(Reached(a)) = M(a)
    BY <2>1, <2>5 DEF Meets
  <2> QED
    BY <2>4, <2>6 DEF Held
<1>5. \A a, b \in Arenas : a # b => Held(a) \cap Held(b) = {}
  BY <1>4
<1>6. UNION {Held(a) : a \in Arenas} = InUse(heap)
  <2>1. ASSUME NEW h \in InUse(heap)
        PROVE  \E a \in Arenas : h \in Held(a)
    <3>1. own[h] \in Arenas /\ h \in Its(own[h])
      BY <1>3
    <3> QED
      BY <1>4, <3>1
  <2>2. \A a \in Arenas : Held(a) \subseteq InUse(heap)
    BY <1>4
  <2> QED
    BY <2>1, <2>2
<1> QED
  BY <1>4, <1>5, <1>6 DEF ArenasReachTheirs, InUse

\* Each chunk in use can be reached from one arena, once, and nothing else can.
THEOREM ArenasReach == Spec => []ArenasReachTheirs
  BY HeadersIntact, ReachTheirs, PTL

-----------------------------------------------------------------------------
(* What lies where                                                         *)

\* The chunks of area r.
ChunksOf(s, r) == {h \in Live(s) : s.header[h].base \div RootWords = r}

NextsInVs(s) == [h \in DOMAIN s.header |-> s.header[h].nextInVs]

\* Where the area of a chunk is.
LEMMA AreaOf ==
  ASSUME NEW s \in HeapSet, Placed(s), NEW h \in Live(s)
  PROVE  LET r == s.header[h].base \div RootWords IN
         /\ r \in Areas /\ r * RootWords \in Nat /\ RootWords \in Nat \ {0}
         /\ r * RootWords <= s.header[h].base
         /\ End(s, h) <= r * RootWords + RootWords
         /\ AtBorder(End(s, h)) <=> End(s, h) = r * RootWords + RootWords
<1> DEFINE b == s.header[h].base
           e == End(s, h)
           r == b \div RootWords
<1>1. /\ b \in Nat /\ e \in Nat /\ b < e /\ s.header[h].level \in Levels
      /\ e = b + WordSize[s.header[h].level] /\ Block(b, s.header[h].level) = b
      /\ e <= NumAreas * RootWords
  BY PlaceFacts DEF InPlace
<1>2. r \in Nat /\ r * RootWords \in Nat /\ r * RootWords <= b /\ e <= r * RootWords + RootWords
  BY <1>1, AreaSpan
<1>3. RootWords \in Nat \ {0} /\ NumAreas \in Nat /\ NumAreas * RootWords \in Nat
  <2>1. NumAreas \in Nat /\ RootWords \in Nat \ {0}
    BY Borders, AreaSize
  <2> HIDE DEF b, e, r
  <2> QED
    BY <2>1, Borders
<1> HIDE DEF b, e
<1>4. r \in Areas
  <2>1. b < NumAreas * RootWords
    BY <1>1, <1>3
  <2>2. r < NumAreas
    BY <1>1, <1>3, <2>1, DivisionBounds
  <2> QED
    BY <1>2, <1>3, <2>2 DEF Areas
<1> HIDE DEF r
<1>5. AtBorder(e) => e = r * RootWords + RootWords
  <2> SUFFICES ASSUME AtBorder(e)
               PROVE  e = r * RootWords + RootWords
    OBVIOUS
  <2> DEFINE q == e \div RootWords
  <2>1. e = q * RootWords /\ q \in Nat
    BY <1>1, <1>3, Borders, DivisionBounds
  <2> HIDE DEF q
  <2>2. q > r
    <3> SUFFICES ASSUME q <= r
                 PROVE  FALSE
      BY <1>2, <2>1
    <3>1. q * RootWords <= r * RootWords
      BY <1>2, <1>3, <2>1
    <3> QED
      BY <1>1, <1>2, <2>1, <3>1
  <2>3. q * RootWords >= (r + 1) * RootWords
    BY <1>2, <1>3, <2>1, <2>2
  <2>4. (r + 1) * RootWords = r * RootWords + RootWords
    BY <1>2, <1>3
  <2> QED
    BY <1>1, <1>2, <1>3, <2>1, <2>3, <2>4
<1>6. e = r * RootWords + RootWords => AtBorder(e)
  <2>1. (r + 1) * RootWords = r * RootWords + RootWords /\ r + 1 \in Nat
    BY <1>2, <1>3
  <2> QED
    BY <2>1, Borders
<1> QED
  BY <1>2, <1>3, <1>4, <1>5, <1>6 DEF b, e, r

-----------------------------------------------------------------------------

\* The neighbours of an area are in one line.
LEMMA NeighboursInLine ==
  ASSUME NEW s \in HeapSet, Placed(s), NEW r \in Areas
  PROVE  OneWay(ChunksOf(s, r), s.firstOf[r], NextsInVs(s))
<1> DEFINE S == ChunksOf(s, r)
           first == s.firstOf[r]
           nxt == NextsInVs(s)
           pos == [h \in Nat |-> IF h \in DOMAIN s.header THEN s.header[h].base ELSE 0]
<1>1. DOMAIN s.header = 1..Len(s.header) /\ Len(s.header) \in Nat /\ Live(s) \subseteq DOMAIN s.header
  BY LiveAndSpare
<1>2. r \in Nat /\ RootWords \in Nat \ {0} /\ r * RootWords \in Nat
  <2>1. r \in Nat /\ NumAreas \in Nat
    BY AreaSize DEF Areas
  <2> QED
    BY <2>1, Borders
<1>3. ASSUME NEW h \in S
      PROVE  /\ h \in Live(s) /\ h \in Nat \ {Null} /\ pos[h] = s.header[h].base
             /\ nxt[h] = s.header[h].nextInVs
             /\ s.header[h].base \in Nat /\ End(s, h) \in Nat /\ s.header[h].base < End(s, h)
             /\ r * RootWords <= s.header[h].base
             /\ End(s, h) <= r * RootWords + RootWords
             /\ AtBorder(End(s, h)) <=> End(s, h) = r * RootWords + RootWords
             /\ NextRight(s, h)
  <2>1. h \in Live(s) /\ s.header[h].base \div RootWords = r
    BY DEF ChunksOf
  <2>2. /\ h \in DOMAIN s.header /\ h \in Nat \ {Null} /\ s.header[h].base \in Nat
        /\ End(s, h) \in Nat /\ s.header[h].base < End(s, h) /\ NextRight(s, h)
    BY <2>1, PlaceFacts
  <2>3. pos[h] = s.header[h].base /\ nxt[h] = s.header[h].nextInVs
    BY <2>2 DEF NextsInVs
  <2>4. /\ r * RootWords <= s.header[h].base /\ End(s, h) <= r * RootWords + RootWords
        /\ AtBorder(End(s, h)) <=> End(s, h) = r * RootWords + RootWords
    BY <2>1, AreaOf
  <2> QED
    BY <2>1, <2>2, <2>3, <2>4
<1>4. pos \in [Nat -> Int]
  <2>1. \A h \in DOMAIN s.header : s.header[h].base \in Nat
    BY HeaderFields
  <2> QED
    BY <2>1
<1> HIDE DEF pos, nxt, first
<1>5. ASSUME NEW x \in S, NEW y \in S, x # y
      PROVE  End(s, x) <= s.header[y].base \/ End(s, y) <= s.header[x].base
  BY <1>3, <1>5 DEF Placed, Apart
<1>6. /\ first = Null => \A h \in Live(s) : s.header[h].base \div RootWords # r
      /\ first # Null => first \in Live(s) /\ s.header[first].base = r * RootWords
  BY DEF Placed, FirstRight, first
<1>7. first # Null => first \in S
  <2>1. (r * RootWords) \div RootWords = r
    BY <1>2, QuotientUnique
  <2> QED
    BY <1>6, <2>1 DEF ChunksOf
<1>8. S # {} => first # Null
  BY <1>6 DEF ChunksOf
<1> HIDE DEF S
<1>9. \A x, y \in S : pos[x] = pos[y] => x = y
  <2> SUFFICES ASSUME NEW x \in S, NEW y \in S, pos[x] = pos[y], x # y
               PROVE  FALSE
    OBVIOUS
  <2> QED
    BY <1>3, <1>5
<1>10. S # {} => first \in S /\ \A y \in S : pos[first] <= pos[y]
  BY <1>2, <1>3, <1>6, <1>7, <1>8
<1>11. ASSUME NEW x \in S, nxt[x] = Null, NEW y \in S
       PROVE  pos[y] <= pos[x]
  <2>1. AtBorder(End(s, x))
    BY <1>3, <1>11 DEF NextRight
  <2> SUFFICES ASSUME pos[x] < pos[y]
               PROVE  FALSE
    BY <1>3
  <2>2. End(s, x) <= s.header[y].base
    BY <1>3, <1>5
  <2> QED
    BY <1>2, <1>3, <2>1, <2>2
<1>12. ASSUME NEW x \in S, nxt[x] # Null
       PROVE  /\ nxt[x] \in S /\ pos[x] < pos[nxt[x]]
              /\ \A y \in S : pos[y] <= pos[x] \/ pos[nxt[x]] <= pos[y]
  <2> DEFINE n == nxt[x]
  <2>1. /\ n \in Live(s) /\ s.header[n].base = End(s, x) /\ ~AtBorder(End(s, x))
    BY <1>3, <1>12 DEF NextRight
  <2>2. n \in S
    <3>1. End(s, x) < r * RootWords + RootWords /\ r * RootWords <= End(s, x)
      BY <1>2, <1>3, <2>1
    <3>2. End(s, x) \div RootWords = r
      BY <1>2, <1>3, <3>1, QuotientUnique
    <3> QED
      BY <2>1, <3>2 DEF ChunksOf, S
  <2> HIDE DEF n
  <2>3. pos[n] = End(s, x) /\ pos[x] < pos[n]
    BY <1>3, <2>1, <2>2
  <2>4. ASSUME NEW y \in S, pos[x] < pos[y]
        PROVE  pos[n] <= pos[y]
    BY <1>3, <1>5, <2>3, <2>4
  <2>5. \A y \in S : pos[y] <= pos[x] \/ pos[n] <= pos[y]
    BY <1>3, <2>4
  <2> QED
    BY <2>2, <2>3, <2>5 DEF n
<1>13. S \subseteq Nat \ {Null}
  BY <1>3
<1>14. InLine(S, pos, first, nxt)
  BY <1>4, <1>8, <1>7, <1>9, <1>10, <1>11, <1>12, <1>13 DEF InLine
<1>15. OneWay(S, first, nxt)
  BY <1>14 DEF OneWay
<1> QED
  BY <1>15 DEF S, first, nxt

\* The walks along the neighbours meet the chunks of the areas.
LEMMA NeighboursMet ==
  ASSUME heap \in HeapSet, Placed(heap)
  PROVE  /\ \A r \in Areas :
              Meets(Neighbours(r), ChunksOf(heap, r), heap.firstOf[r], NextsInVs(heap))
         /\ InAreas = Live(heap)
<1>1. ASSUME NEW r \in Areas
      PROVE  Meets(Neighbours(r), ChunksOf(heap, r), heap.firstOf[r], NextsInVs(heap))
  <2>1. OneWay(ChunksOf(heap, r), heap.firstOf[r], NextsInVs(heap))
    BY NeighboursInLine
  <2>2. ChunksOf(heap, r) \subseteq DOMAIN heap.header
    BY DEF ChunksOf, Live
  <2>3. Neighbours(r) = Walk(heap.firstOf[r], NextsInVs(heap))
    BY DEF Neighbours, NextInVsLinks, NextsInVs
  <2> QED
    BY <2>1, <2>2, <2>3, Met
<1>2. \A r \in Areas : ToSet(Neighbours(r)) = ChunksOf(heap, r)
  BY <1>1 DEF Meets
<1>3. \A h \in Live(heap) : heap.header[h].base \div RootWords \in Areas
  BY AreaOf
<1>4. InAreas = Live(heap)
  BY <1>2, <1>3 DEF ChunksOf, InAreas
<1> QED
  BY <1>1, <1>4

\* Side by side from base to end, and the links back are the same way back.
LEMMA SideBySide ==
  ASSUME heap \in HeapSet, Placed(heap)
  PROVE  NeighboursLinked
<1> SUFFICES ASSUME NEW r \in Areas, Neighbours(r) # <<>>
             PROVE  LET chunks  == Neighbours(r)
                        c(i)    == heap.header[chunks[i]]
                        base(i) == IF i > Len(chunks) THEN (r + 1) * RootWords ELSE c(i).base
                    IN  /\ base(1) = r * RootWords /\ c(1).prevInVs = Null
                        /\ \A i \in DOMAIN chunks :
                             /\ base(i) + WordSize[c(i).level] = base(i + 1)
                             /\ i > 1 => c(i).prevInVs = chunks[i - 1]
  BY DEF NeighboursLinked
<1> DEFINE w       == Neighbours(r)
           S       == ChunksOf(heap, r)
           first   == heap.firstOf[r]
           nxt     == NextsInVs(heap)
           c(i)    == heap.header[w[i]]
           base(i) == IF i > Len(w) THEN (r + 1) * RootWords ELSE c(i).base
<1>1. Meets(w, S, first, nxt)
  BY NeighboursMet
<1>2. /\ w \in Seq(S) /\ Len(w) \in Nat /\ DOMAIN w = 1..Len(w)
      /\ Len(w) > 0 /\ w[1] = first /\ nxt[w[Len(w)]] = Null
      /\ \A i \in 1..(Len(w) - 1) : nxt[w[i]] = w[i + 1]
  BY <1>1 DEF Meets
<1>3. \A i \in DOMAIN w : w[i] \in S
  BY <1>2
<1>4. ASSUME NEW h \in S
      PROVE  /\ h \in Live(heap) /\ h # Null /\ nxt[h] = heap.header[h].nextInVs
             /\ NextRight(heap, h) /\ PrevRight(heap, h)
             /\ End(heap, h) = heap.header[h].base + WordSize[heap.header[h].level]
             /\ AtBorder(End(heap, h)) <=> End(heap, h) = r * RootWords + RootWords
  <2>1. h \in Live(heap) /\ heap.header[h].base \div RootWords = r
    BY DEF ChunksOf
  <2>2. /\ h \in DOMAIN heap.header /\ h # Null /\ NextRight(heap, h) /\ PrevRight(heap, h)
        /\ End(heap, h) = heap.header[h].base + WordSize[heap.header[h].level]
    BY <2>1, PlaceFacts
  <2>3. AtBorder(End(heap, h)) <=> End(heap, h) = r * RootWords + RootWords
    BY <2>1, AreaOf
  <2> QED
    BY <2>1, <2>2, <2>3 DEF NextsInVs
<1>5. /\ r \in Nat /\ RootWords \in Nat \ {0} /\ r * RootWords \in Nat
      /\ AtBorder(r * RootWords) /\ (r + 1) * RootWords = r * RootWords + RootWords
  <2>1. r \in Nat /\ RootWords \in Nat \ {0}
    BY AreaSize, Borders DEF Areas
  <2> QED
    BY <2>1, Borders
<1>6. first = w[1] /\ first \in S
  BY <1>2, <1>3
<1>7. heap.header[first].base = r * RootWords
  <2>1. FirstRight(heap, r) /\ heap.firstOf[r] # Null
    BY <1>4, <1>6 DEF Placed
  <2> QED
    BY <2>1 DEF FirstRight
<1> HIDE DEF w, S, first, nxt
<1>8. base(1) = r * RootWords /\ c(1).prevInVs = Null
  <2>1. base(1) = c(1).base
    BY <1>2
  <2>2. heap.header[first].prevInVs = Null
    BY <1>4, <1>5, <1>6, <1>7 DEF PrevRight
  <2> QED
    BY <1>6, <1>7, <2>1, <2>2
<1>9. ASSUME NEW i \in DOMAIN w
      PROVE  base(i) + WordSize[c(i).level] = base(i + 1)
  <2>1. w[i] \in S /\ base(i) = c(i).base /\ i \in 1..Len(w)
    BY <1>2, <1>3
  <2>2. base(i) + WordSize[c(i).level] = End(heap, w[i])
    BY <1>4, <2>1
  <2>3. CASE i = Len(w)
    <3>1. heap.header[w[i]].nextInVs = Null
      BY <1>2, <1>4, <2>1, <2>3
    <3>2. AtBorder(End(heap, w[i])) /\ End(heap, w[i]) = r * RootWords + RootWords
      BY <1>4, <2>1, <3>1 DEF NextRight
    <3>3. base(i + 1) = (r + 1) * RootWords
      BY <1>2, <2>3
    <3> QED
      BY <1>5, <2>2, <3>2, <3>3
  <2>4. CASE i # Len(w)
    <3>1. i \in 1..(Len(w) - 1) /\ i + 1 \in DOMAIN w /\ ~(i + 1 > Len(w))
      BY <1>2, <2>1, <2>4
    <3>2. heap.header[w[i]].nextInVs = w[i + 1] /\ w[i + 1] # Null
      BY <1>2, <1>3, <1>4, <2>1, <3>1
    <3>3. c(i + 1).base = End(heap, w[i])
      BY <1>4, <2>1, <3>2 DEF NextRight
    <3> QED
      BY <2>2, <3>1, <3>3
  <2> QED
    BY <2>3, <2>4
<1>10. ASSUME NEW i \in DOMAIN w, i > 1
       PROVE  c(i).prevInVs = w[i - 1]
  <2>1. i - 1 \in 1..(Len(w) - 1) /\ i - 1 \in DOMAIN w /\ (i - 1) + 1 = i
    BY <1>2, <1>10
  <2>2. nxt[w[i - 1]] = w[i] /\ w[i - 1] \in S /\ w[i] \in S
    BY <1>2, <1>3, <2>1
  <2>3. heap.header[w[i - 1]].nextInVs = w[i] /\ w[i] # Null /\ NextRight(heap, w[i - 1])
    BY <1>4, <2>2
  <2> QED
    BY <2>3 DEF NextRight
<1> QED
  BY <1>8, <1>9, <1>10 DEF w

-----------------------------------------------------------------------------

\* Both links, both ends and the count of each free list.
LEMMA ListsLinked ==
  ASSUME heap \in HeapSet, Placed(heap), FreeLinked(heap, {})
  PROVE  FreeListsLinked
<1> SUFFICES ASSUME NEW l \in Levels
             PROVE  LET list == Listed(l)
                        c(i) == heap.header[list[i]]
                    IN  /\ IsInjective(list)
                        /\ ToSet(list) = {h \in {g \in InAreas : Free(heap, g)} : heap.header[h].level = l}
                        /\ heap.free[l].count = Len(list)
                        /\ heap.free[l].last = IF list = <<>> THEN Null ELSE Last(list)
                        /\ \A i \in DOMAIN list : c(i).prev = IF i = 1 THEN Null ELSE list[i - 1]
  BY DEF FreeListsLinked
<1> DEFINE S     == Idle(heap, l, {})
           w     == Listed(l)
           first == heap.free[l].first
           last  == heap.free[l].last
           nxt   == Nexts(heap)
           prv   == Prevs(heap)
<1>1. TwoWay(S, first, last, nxt, prv) /\ heap.free[l].count = Cardinality(S)
  BY DEF FreeLinked
<1>2. S \subseteq DOMAIN heap.header
  BY DEF Idle
<1>3. OneWay(S, first, nxt)
  BY <1>1 DEF TwoWay
<1>4. w = Walk(first, nxt)
  BY DEF Listed, NextLinks, Nexts
<1>5. Meets(w, S, first, nxt)
  <2> HIDE DEF w, S, first, nxt
  <2> QED
    BY <1>2, <1>3, <1>4, Met
<1>6. S = {h \in {g \in InAreas : Free(heap, g)} : heap.header[h].level = l}
  <2>1. InAreas = Live(heap)
    BY NeighboursMet
  <2>2. S = {h \in Live(heap) : Free(heap, h) /\ heap.header[h].level = l}
    BY DEF Idle, Live, Free
  <2> QED
    BY <2>1, <2>2
<1>7. \A x \in S : prv[x] = heap.header[x].prev
  BY <1>2 DEF Prevs
<1> HIDE DEF w, S, first, last, nxt, prv
<1>8. /\ w \in Seq(S) /\ IsInjective(w) /\ ToSet(w) = S /\ Len(w) = Cardinality(S)
      /\ S = {} => w = <<>>
      /\ S # {} => Len(w) > 0 /\ w[1] = first /\ nxt[w[Len(w)]] = Null
      /\ \A j \in 1..(Len(w) - 1) : nxt[w[j]] = w[j + 1]
  BY <1>5 DEF Meets
<1>9. Len(w) \in Nat /\ DOMAIN w = 1..Len(w) /\ \A i \in DOMAIN w : w[i] \in S
  BY <1>8
<1>10. last = IF w = <<>> THEN Null ELSE Last(w)
  <2>1. CASE S = {}
    BY <1>1, <1>8, <2>1 DEF TwoWay
  <2>2. CASE S # {}
    <3>1. Len(w) > 0 /\ w # <<>> /\ w[Len(w)] \in S /\ nxt[w[Len(w)]] = Null
      BY <1>8, <1>9, <2>2
    <3>2. w[Len(w)] = last
      BY <1>1, <3>1, Ends
    <3> QED
      BY <3>1, <3>2 DEF Last
  <2> QED
    BY <2>1, <2>2
<1>11. ASSUME NEW i \in DOMAIN w
       PROVE  heap.header[w[i]].prev = IF i = 1 THEN Null ELSE w[i - 1]
  <2>1. w[i] \in S /\ S # {} /\ w[1] = first /\ prv[w[i]] = heap.header[w[i]].prev /\ i \in 1..Len(w)
    BY <1>7, <1>8, <1>9
  <2>2. CASE i = 1
    BY <1>1, <2>1, <2>2, Ends
  <2>3. CASE i # 1
    <3>1. i - 1 \in 1..(Len(w) - 1) /\ i - 1 \in DOMAIN w /\ (i - 1) + 1 = i /\ 1 \in DOMAIN w
      BY <1>9, <2>1, <2>3
    <3>2. nxt[w[i - 1]] = w[i] /\ w[i - 1] \in S
      BY <1>8, <1>9, <3>1
    <3>3. w[i] # first
      BY <1>8, <2>1, <2>3, <3>1 DEF IsInjective
    <3>4. prv[w[i]] \in S /\ nxt[prv[w[i]]] = w[i]
      BY <1>1, <2>1, <3>3 DEF TwoWay
    <3>5. prv[w[i]] = w[i - 1]
      BY <1>3, <3>2, <3>4, OneBefore
    <3> QED
      BY <2>1, <2>3, <3>5
  <2> QED
    BY <2>2, <2>3
<1> QED
  BY <1>1, <1>6, <1>8, <1>10, <1>11 DEF w, last

\* The invariant implies what the code verifies of the links.
LEMMA Linked == HeaderInv => LinksSound
  BY SideBySide, ListsLinked DEF HeaderInv, Intact, Sound, LinksSound

\* The links of the neighbours and of the free lists are what RootChunkArea and
\* FreeChunkList verify.
THEOREM LinksAlwaysSound == Spec => []LinksSound
  BY HeadersIntact, Linked, PTL

-----------------------------------------------------------------------------
(* The pool                                                                *)

\* The headers that stand for nothing are those in the pool.
LEMMA Accounted == HeaderInv => HeadersAccounted
<1> SUFFICES ASSUME HeaderInv
             PROVE  HeadersAccounted
  OBVIOUS
<1>1. /\ heap \in HeapSet /\ Placed(heap) /\ PoolLinked(heap)
      /\ Len(heap.header) <= MostChunks
  BY DEF HeaderInv, Intact, Sound
<1>2. InAreas = Live(heap)
  BY <1>1, NeighboursMet
<1>3. /\ OneWay(Spare(heap), heap.chain["pool"].first, Nexts(heap))
      /\ heap.chain["pool"].count = Cardinality(Spare(heap))
      /\ heap.handedOut = Cardinality(Live(heap))
      /\ heap.slabs = (Len(heap.header) + SlabCapacity - 1) \div SlabCapacity
  BY <1>1 DEF PoolLinked
<1>4. Meets(Pooled, Spare(heap), heap.chain["pool"].first, Nexts(heap))
  <2>1. Pooled = Walk(heap.chain["pool"].first, Nexts(heap))
    BY DEF Pooled, NextLinks, Nexts
  <2>2. Spare(heap) \subseteq DOMAIN heap.header
    BY DEF Spare
  <2> QED
    BY <1>1, <1>3, <2>1, <2>2, Met
<1>5. IsInjective(Pooled) /\ ToSet(Pooled) = Spare(heap) /\ Len(Pooled) = Cardinality(Spare(heap))
  BY <1>4 DEF Meets
<1>6. Spare(heap) = DOMAIN heap.header \ Live(heap)
  BY DEF Spare, Live
<1> QED
  BY <1>1, <1>2, <1>3, <1>5, <1>6 DEF HeadersAccounted

\* Every header stands for a chunk or lies in the pool, and there are never
\* more of them than there can be chunks.
THEOREM HeadersAlwaysAccounted == Spec => []HeadersAccounted
  BY HeadersIntact, Accounted, PTL

-----------------------------------------------------------------------------

(* The ledger                                                              *)

\* The chunks in use by their bases.
Books(s) ==
  LET chunks == {c \in ToSet(s.header) : c.state = "inuse"} IN
  [b \in {c.base : c \in chunks} |-> WordSize[(CHOOSE c \in chunks : c.base = b).level]]

\* A chunk in use and its words.
LEMMA BookOf ==
  ASSUME NEW s \in HeapSet, Placed(s), NEW h \in InUse(s)
  PROVE  /\ h \in Live(s) /\ h \in DOMAIN s.header /\ s.header[h].level \in Levels
         /\ s.header[h].base \in Addresses /\ s.header[h].base \in Nat
         /\ WordSize[s.header[h].level] \in Nat \ {0}
         /\ WordSize[s.header[h].level] \in {WordSize[l] : l \in Levels}
         /\ End(s, h) = s.header[h].base + WordSize[s.header[h].level]
<1>1. h \in Live(s) /\ h \in DOMAIN s.header
  BY DEF InUse, Live
<1>2. /\ s.header[h].base \in Nat /\ s.header[h].level \in Levels
      /\ WordSize[s.header[h].level] \in Nat \ {0} /\ End(s, h) \in Nat
      /\ s.header[h].base < End(s, h)
      /\ End(s, h) = s.header[h].base + WordSize[s.header[h].level]
      /\ End(s, h) <= NumAreas * RootWords
  BY <1>1, PlaceFacts DEF InPlace
<1>3. NumAreas * RootWords \in Nat
  BY Borders, AreaSize
<1>4. s.header[h].base \in Addresses
  <2> DEFINE b == s.header[h].base
             e == End(s, h)
             m == NumAreas * RootWords
  <2>1. b \in Nat /\ e \in Nat /\ b < e /\ e <= m /\ m \in Nat
    BY <1>2, <1>3
  <2> HIDE DEF b, e, m
  <2>2. b \in 0..(m - 1)
    BY <2>1
  <2> QED
    BY <2>2, AreaSize DEF Addresses, b, m
<1> QED
  BY <1>1, <1>2, <1>4

\* No two chunks in use start at the same word.
LEMMA OneBase ==
  ASSUME NEW s \in HeapSet, Placed(s), NEW g \in Live(s), NEW h \in Live(s),
         s.header[g].base = s.header[h].base
  PROVE  g = h
<1> SUFFICES ASSUME g # h
             PROVE  FALSE
  OBVIOUS
<1>1. End(s, g) <= s.header[h].base \/ End(s, h) <= s.header[g].base
  BY DEF Placed, Apart
<1>2. /\ s.header[g].base \in Nat /\ End(s, g) \in Nat /\ s.header[g].base < End(s, g)
      /\ s.header[h].base \in Nat /\ End(s, h) \in Nat /\ s.header[h].base < End(s, h)
  BY PlaceFacts
<1> QED
  BY <1>1, <1>2

\* What the books say of each.
LEMMA BooksAre ==
  ASSUME NEW s \in HeapSet, Placed(s)
  PROVE  /\ Books(s) = [b \in DOMAIN Books(s) |-> Books(s)[b]]
         /\ DOMAIN Books(s) = {s.header[h].base : h \in InUse(s)}
         /\ \A h \in InUse(s) : Books(s)[s.header[h].base] = WordSize[s.header[h].level]
<1> DEFINE chunks == {c \in ToSet(s.header) : c.state = "inuse"}
<1>1. chunks = {s.header[h] : h \in InUse(s)}
  BY DEF ToSet, InUse
<1>2. Books(s) = [b \in {c.base : c \in chunks} |-> WordSize[(CHOOSE c \in chunks : c.base = b).level]]
  BY DEF Books
<1> HIDE DEF chunks
<1>3. ASSUME NEW h \in InUse(s)
      PROVE  (CHOOSE c \in chunks : c.base = s.header[h].base) = s.header[h]
  <2>1. s.header[h] \in chunks
    BY <1>1
  <2>2. ASSUME NEW c \in chunks, c.base = s.header[h].base
        PROVE  c = s.header[h]
    <3>1. PICK g \in InUse(s) : c = s.header[g]
      BY <1>1
    <3>2. g \in Live(s) /\ h \in Live(s)
      BY DEF InUse, Live
    <3>3. s.header[g].base = s.header[h].base
      BY <2>2, <3>1
    <3>4. g = h
      BY <3>2, <3>3, OneBase
    <3> QED
      BY <3>1, <3>4
  <2> QED
    BY <2>1, <2>2
<1>4. DOMAIN Books(s) = {s.header[h].base : h \in InUse(s)}
  BY <1>1, <1>2
<1>5. \A h \in InUse(s) : Books(s)[s.header[h].base] = WordSize[s.header[h].level]
  <2>1. \A h \in InUse(s) : s.header[h].base \in {c.base : c \in chunks}
    BY <1>1
  <2> QED
    BY <1>2, <1>3, <2>1
<1>6. Books(s) = [b \in DOMAIN Books(s) |-> Books(s)[b]]
  BY <1>2
<1> QED
  BY <1>4, <1>5, <1>6

\* Chunks in use share no words.
LEMMA ExtentsApart ==
  ASSUME NEW s \in HeapSet, Placed(s), NEW g \in InUse(s), NEW h \in InUse(s), g # h
  PROVE  Ledger!Extent(s.header[g].base, WordSize[s.header[g].level])
           \cap Ledger!Extent(s.header[h].base, WordSize[s.header[h].level]) = {}
<1> DEFINE a == s.header[g].base
           b == s.header[h].base
           n == WordSize[s.header[g].level]
           m == WordSize[s.header[h].level]
<1>1. a + n <= b \/ b + m <= a
  BY BookOf DEF Placed, Apart
<1>2. a \in Nat /\ b \in Nat /\ n \in Nat /\ m \in Nat
  BY BookOf
<1> HIDE DEF a, b, n, m
<1>3. (a..(a + n - 1)) \cap (b..(b + m - 1)) = {}
  BY <1>1, <1>2
<1> QED
  BY <1>3 DEF Ledger!Extent, a, b, n, m

\* Two functions with the same values.
LEMMA SameBooks ==
  ASSUME NEW f, NEW g, f = [x \in DOMAIN f |-> f[x]], g = [x \in DOMAIN g |-> g[x]],
         DOMAIN f = DOMAIN g, \A x \in DOMAIN g : f[x] = g[x]
  PROVE  f = g
<1>1. [x \in DOMAIN f |-> f[x]] = [x \in DOMAIN g |-> g[x]]
  OBVIOUS
<1> QED
  BY <1>1

\* A step that keeps the chunks in use does not show.
LEMMA BooksStay ==
  ASSUME NEW s \in HeapSet, Placed(s), NEW t \in HeapSet, Placed(t), Stays(s, t)
  PROVE  Books(t) = Books(s)
<1>1. /\ Books(s) = [b \in DOMAIN Books(s) |-> Books(s)[b]]
      /\ DOMAIN Books(s) = {s.header[h].base : h \in InUse(s)}
      /\ \A h \in InUse(s) : Books(s)[s.header[h].base] = WordSize[s.header[h].level]
  BY BooksAre
<1>2. /\ Books(t) = [b \in DOMAIN Books(t) |-> Books(t)[b]]
      /\ DOMAIN Books(t) = {t.header[h].base : h \in InUse(t)}
      /\ \A h \in InUse(t) : Books(t)[t.header[h].base] = WordSize[t.header[h].level]
  BY BooksAre
<1>3. InUse(t) = InUse(s)
  BY DEF Stays
<1>4. \A h \in InUse(s) : /\ t.header[h].base = s.header[h].base
                          /\ t.header[h].level = s.header[h].level
  BY DEF Stays, Alike
<1>5. DOMAIN Books(t) = DOMAIN Books(s)
  BY <1>1, <1>2, <1>3, <1>4
<1>6. \A b \in DOMAIN Books(s) : Books(t)[b] = Books(s)[b]
  <2> SUFFICES ASSUME NEW h \in InUse(s)
               PROVE  Books(t)[s.header[h].base] = Books(s)[s.header[h].base]
    BY <1>1
  <2> QED
    BY <1>1, <1>2, <1>3, <1>4
<1> QED
  BY <1>1, <1>2, <1>5, <1>6, SameBooks

\* A chunk is given back.
LEMMA BooksLose ==
  ASSUME NEW s \in HeapSet, Placed(s), NEW t \in HeapSet, Placed(t), Loses(s, t)
  PROVE  \E b \in DOMAIN Books(s) : Books(t) = Restrict(Books(s), DOMAIN Books(s) \ {b})
<1>1. /\ DOMAIN Books(s) = {s.header[h].base : h \in InUse(s)}
      /\ \A h \in InUse(s) : Books(s)[s.header[h].base] = WordSize[s.header[h].level]
  BY BooksAre
<1>2. /\ Books(t) = [b \in DOMAIN Books(t) |-> Books(t)[b]]
      /\ DOMAIN Books(t) = {t.header[h].base : h \in InUse(t)}
      /\ \A h \in InUse(t) : Books(t)[t.header[h].base] = WordSize[t.header[h].level]
  BY BooksAre
<1>3. PICK c \in InUse(s) : /\ InUse(t) = InUse(s) \ {c}
                            /\ \A x \in InUse(t) : Alike(t.header[x], s.header[x])
  BY DEF Loses
<1>4. \A h \in InUse(t) : /\ t.header[h].base = s.header[h].base
                          /\ t.header[h].level = s.header[h].level
  BY <1>3 DEF Alike
<1> DEFINE b == s.header[c].base
           f == Restrict(Books(s), DOMAIN Books(s) \ {b})
<1>5. /\ f = [x \in DOMAIN f |-> f[x]] /\ DOMAIN f = DOMAIN Books(s) \ {b}
      /\ \A x \in DOMAIN Books(s) \ {b} : f[x] = Books(s)[x]
  BY DEF Restrict
<1> HIDE DEF f
<1>6. ASSUME NEW h \in InUse(s)
      PROVE  s.header[h].base = b <=> h = c
  <2>1. h \in Live(s) /\ c \in Live(s)
    BY DEF InUse, Live
  <2>2. s.header[h].base = s.header[c].base => h = c
    BY <2>1, OneBase
  <2> QED
    BY <2>2
<1>7. DOMAIN Books(t) = DOMAIN f
  <2>1. DOMAIN Books(t) = {s.header[h].base : h \in InUse(s) \ {c}}
    BY <1>2, <1>3, <1>4
  <2>2. {s.header[h].base : h \in InUse(s) \ {c}} = {s.header[h].base : h \in InUse(s)} \ {b}
    BY <1>6
  <2> QED
    BY <1>1, <1>5, <2>1, <2>2
<1>8. \A x \in DOMAIN f : Books(t)[x] = f[x]
  <2> SUFFICES ASSUME NEW h \in InUse(t)
               PROVE  Books(t)[t.header[h].base] = f[t.header[h].base]
    BY <1>2, <1>7
  <2>1. h \in InUse(s) /\ h # c /\ s.header[h].base \in DOMAIN Books(s) \ {b}
    BY <1>1, <1>3, <1>6
  <2> QED
    BY <1>1, <1>2, <1>4, <1>5, <2>1
<1>9. Books(t) = f
  BY <1>2, <1>5, <1>7, <1>8, SameBooks
<1>10. b \in DOMAIN Books(s)
  BY <1>1
<1> QED
  BY <1>9, <1>10 DEF f

-----------------------------------------------------------------------------

\* A chunk is taken, of words that were nobody's.
LEMMA BooksGain ==
  ASSUME NEW s \in HeapSet, Placed(s), NEW t \in HeapSet, Placed(t), Gains(s, t)
  PROVE  \E b \in Addresses, size \in {WordSize[l] : l \in Levels} :
           /\ Ledger!Extent(b, size) \cap UNION {Ledger!Extent(x, Books(s)[x]) : x \in DOMAIN Books(s)} = {}
           /\ Books(t) = [x \in DOMAIN Books(s) \cup {b} |-> IF x = b THEN size ELSE Books(s)[x]]
<1>1. /\ DOMAIN Books(s) = {s.header[h].base : h \in InUse(s)}
      /\ \A h \in InUse(s) : Books(s)[s.header[h].base] = WordSize[s.header[h].level]
  BY BooksAre
<1>2. /\ Books(t) = [x \in DOMAIN Books(t) |-> Books(t)[x]]
      /\ DOMAIN Books(t) = {t.header[h].base : h \in InUse(t)}
      /\ \A h \in InUse(t) : Books(t)[t.header[h].base] = WordSize[t.header[h].level]
  BY BooksAre
<1>3. PICK c : /\ c \notin InUse(s) /\ InUse(t) = InUse(s) \cup {c}
               /\ \A x \in InUse(s) : Alike(t.header[x], s.header[x])
  BY DEF Gains
<1>4. \A h \in InUse(s) : /\ h \in InUse(t) /\ h # c
                          /\ t.header[h].base = s.header[h].base
                          /\ t.header[h].level = s.header[h].level
  BY <1>3 DEF Alike
<1>5. c \in InUse(t)
  BY <1>3
<1> DEFINE b    == t.header[c].base
           size == WordSize[t.header[c].level]
           f    == [x \in DOMAIN Books(s) \cup {b} |-> IF x = b THEN size ELSE Books(s)[x]]
<1>6. b \in Addresses /\ size \in {WordSize[l] : l \in Levels}
  BY <1>5, BookOf
<1>7. ASSUME NEW h \in InUse(s)
      PROVE  s.header[h].base # b
  <2>1. h \in Live(t) /\ c \in Live(t) /\ h # c /\ t.header[h].base = s.header[h].base
    BY <1>4, <1>5 DEF InUse, Live
  <2> QED
    BY <2>1, OneBase
<1>8. /\ f = [x \in DOMAIN f |-> f[x]] /\ DOMAIN f = DOMAIN Books(s) \cup {b}
      /\ f[b] = size /\ \A x \in DOMAIN Books(s) : x # b => f[x] = Books(s)[x]
  OBVIOUS
<1> HIDE DEF f
<1>9. DOMAIN Books(t) = DOMAIN f
  <2>1. {t.header[h].base : h \in InUse(t)} = {s.header[h].base : h \in InUse(s)} \cup {b}
    BY <1>3, <1>4
  <2> QED
    BY <1>1, <1>2, <1>8, <2>1
<1>10. \A x \in DOMAIN f : Books(t)[x] = f[x]
  <2> SUFFICES ASSUME NEW h \in InUse(t)
               PROVE  Books(t)[t.header[h].base] = f[t.header[h].base]
    BY <1>2, <1>9
  <2>1. CASE h = c
    BY <1>2, <1>5, <1>8, <2>1
  <2>2. CASE h # c
    <3>1. h \in InUse(s) /\ s.header[h].base \in DOMAIN Books(s) /\ s.header[h].base # b
      BY <1>1, <1>3, <1>7, <2>2
    <3> QED
      BY <1>1, <1>2, <1>4, <1>8, <3>1
  <2> QED
    BY <2>1, <2>2
<1>11. Books(t) = f
  BY <1>2, <1>8, <1>9, <1>10, SameBooks
<1>12. ASSUME NEW x \in DOMAIN Books(s)
       PROVE  Ledger!Extent(b, size) \cap Ledger!Extent(x, Books(s)[x]) = {}
  <2>1. PICK h \in InUse(s) : x = s.header[h].base
    BY <1>1
  <2>2. h \in InUse(t) /\ h # c /\ x = t.header[h].base /\ Books(s)[x] = WordSize[t.header[h].level]
    BY <1>1, <1>4, <2>1
  <2> QED
    BY <1>5, <2>2, ExtentsApart
<1>13. Ledger!Extent(b, size) \cap UNION {Ledger!Extent(x, Books(s)[x]) : x \in DOMAIN Books(s)} = {}
  BY <1>12
<1> HIDE DEF b, size
<1> QED
  BY <1>6, <1>11, <1>13 DEF f

\* A chunk has grown, over words that were nobody's.
LEMMA BooksGrow ==
  ASSUME NEW s \in HeapSet, Placed(s), NEW t \in HeapSet, Placed(t), Grows(s, t)
  PROVE  \E b \in DOMAIN Books(s), size \in {WordSize[l] : l \in Levels} :
           /\ size > Books(s)[b]
           /\ Ledger!Extent(b, size)
                \cap UNION {Ledger!Extent(x, Books(s)[x]) : x \in DOMAIN Books(s) \ {b}} = {}
           /\ Books(t) = [Books(s) EXCEPT ![b] = size]
<1>1. /\ Books(s) = [x \in DOMAIN Books(s) |-> Books(s)[x]]
      /\ DOMAIN Books(s) = {s.header[h].base : h \in InUse(s)}
      /\ \A h \in InUse(s) : Books(s)[s.header[h].base] = WordSize[s.header[h].level]
  BY BooksAre
<1>2. /\ Books(t) = [x \in DOMAIN Books(t) |-> Books(t)[x]]
      /\ DOMAIN Books(t) = {t.header[h].base : h \in InUse(t)}
      /\ \A h \in InUse(t) : Books(t)[t.header[h].base] = WordSize[t.header[h].level]
  BY BooksAre
<1>3. PICK c \in InUse(s) :
        /\ s.header[c].level \in Levels /\ s.header[c].level > 0
        /\ t.header[c].level = s.header[c].level - 1 /\ t.header[c].base = s.header[c].base
        /\ \A x \in InUse(s) \ {c} : Alike(t.header[x], s.header[x])
  BY DEF Grows
<1>4. InUse(t) = InUse(s) /\ c \in InUse(t)
  BY DEF Grows
<1>5. \A h \in InUse(s) : /\ t.header[h].base = s.header[h].base
                          /\ h # c => t.header[h].level = s.header[h].level
  BY <1>3 DEF Alike
<1> DEFINE b    == s.header[c].base
           size == WordSize[t.header[c].level]
           f    == [Books(s) EXCEPT ![b] = size]
<1>6. b \in DOMAIN Books(s) /\ size \in {WordSize[l] : l \in Levels}
  BY <1>1, <1>4, BookOf
<1>7. size > Books(s)[b]
  <2> DEFINE k == s.header[c].level
  <2>1. WordSize[k - 1] = 2 * WordSize[k] /\ WordSize[k] \in Nat \ {0}
    <3>1. k \in 1..HighestLevel
      <4>1. HighestLevel \in Nat
        BY GeometryAssumption
      <4> QED
        BY <1>3, <4>1 DEF Levels
    <3>2. WordSize[k - 1] = 2 * WordSize[k]
      BY <3>1, GeometryAssumption
    <3> QED
      BY <3>2, BookOf
  <2>2. Books(s)[b] = WordSize[k] /\ size = WordSize[k - 1]
    BY <1>1, <1>3
  <2> HIDE DEF k, b, size
  <2> QED
    BY <2>1, <2>2
<1>8. ASSUME NEW h \in InUse(s)
      PROVE  s.header[h].base = b <=> h = c
  <2>1. h \in Live(s) /\ c \in Live(s)
    BY DEF InUse, Live
  <2>2. s.header[h].base = s.header[c].base => h = c
    BY <2>1, OneBase
  <2> QED
    BY <2>2
<1>9. /\ f = [x \in DOMAIN f |-> f[x]] /\ DOMAIN f = DOMAIN Books(s)
      /\ f[b] = size /\ \A x \in DOMAIN Books(s) \ {b} : f[x] = Books(s)[x]
  BY <1>1, <1>6
<1> HIDE DEF f
<1>10. DOMAIN Books(t) = DOMAIN f
  BY <1>1, <1>2, <1>4, <1>5, <1>9
<1>11. \A x \in DOMAIN f : Books(t)[x] = f[x]
  <2> SUFFICES ASSUME NEW h \in InUse(s)
               PROVE  Books(t)[s.header[h].base] = f[s.header[h].base]
    BY <1>1, <1>9
  <2>1. CASE h = c
    BY <1>2, <1>4, <1>5, <1>9, <2>1
  <2>2. CASE h # c
    <3>1. s.header[h].base \in DOMAIN Books(s) \ {b}
      BY <1>1, <1>8, <2>2
    <3> QED
      BY <1>1, <1>2, <1>4, <1>5, <1>9, <2>2, <3>1
  <2> QED
    BY <2>1, <2>2
<1>12. Books(t) = f
  BY <1>2, <1>9, <1>10, <1>11, SameBooks
<1>13. ASSUME NEW x \in DOMAIN Books(s) \ {b}
       PROVE  Ledger!Extent(b, size) \cap Ledger!Extent(x, Books(s)[x]) = {}
  <2>1. PICK h \in InUse(s) : x = s.header[h].base
    BY <1>1
  <2>2. /\ h \in InUse(t) /\ h # c /\ x = t.header[h].base /\ b = t.header[c].base
        /\ Books(s)[x] = WordSize[t.header[h].level]
    BY <1>1, <1>4, <1>5, <1>8, <2>1
  <2> QED
    BY <1>4, <2>2, ExtentsApart
<1>14. Ledger!Extent(b, size)
         \cap UNION {Ledger!Extent(x, Books(s)[x]) : x \in DOMAIN Books(s) \ {b}} = {}
  BY <1>13
<1> HIDE DEF b, size
<1> QED
  BY <1>6, <1>7, <1>12, <1>14 DEF f

-----------------------------------------------------------------------------

\* A step that does something to the chunks in use is a step of the ledger.
LEMMA StepIsBooked ==
  ASSUME HeaderInv, HeaderInv', Counted(heap, heap')
  PROVE  [Ledger!Next]_(Ledger!ledger)
<1>1. heap \in HeapSet /\ Placed(heap)
  BY DEF HeaderInv, Intact, Sound
<1>2. heap' \in HeapSet /\ Placed(heap')
  BY DEF HeaderInv, Intact, Sound
<1>3. Owned = Books(heap) /\ Owned' = Books(heap')
  BY DEF Owned, Books
<1>4. CASE Stays(heap, heap')
  <2>1. Owned' = Owned
    BY <1>1, <1>2, <1>3, <1>4, BooksStay
  <2> QED
    BY <2>1 DEF Ledger!ledger
<1>5. CASE Gains(heap, heap')
  <2>1. PICK b \in Addresses, size \in {WordSize[l] : l \in Levels} :
          /\ Ledger!Extent(b, size)
               \cap UNION {Ledger!Extent(x, Books(heap)[x]) : x \in DOMAIN Books(heap)} = {}
          /\ Books(heap') = [x \in DOMAIN Books(heap) \cup {b} |-> IF x = b THEN size ELSE Books(heap)[x]]
    BY <1>1, <1>2, <1>5, BooksGain
  <2>2. Ledger!Take(b, size)
    BY <1>3, <2>1 DEF Ledger!Take, Ledger!Owned
  <2> QED
    BY <2>2 DEF Ledger!Next
<1>6. CASE Grows(heap, heap')
  <2>1. PICK b \in DOMAIN Books(heap), size \in {WordSize[l] : l \in Levels} :
          /\ size > Books(heap)[b]
          /\ Ledger!Extent(b, size)
               \cap UNION {Ledger!Extent(x, Books(heap)[x]) : x \in DOMAIN Books(heap) \ {b}} = {}
          /\ Books(heap') = [Books(heap) EXCEPT ![b] = size]
    BY <1>1, <1>2, <1>6, BooksGrow
  <2>2. Ledger!Grow(b, size)
    BY <1>3, <2>1 DEF Ledger!Grow, Ledger!OwnedByOthers
  <2> QED
    BY <1>3, <2>2 DEF Ledger!Next
<1>7. CASE Loses(heap, heap')
  <2>1. PICK b \in DOMAIN Books(heap) : Books(heap') = Restrict(Books(heap), DOMAIN Books(heap) \ {b})
    BY <1>1, <1>2, <1>7, BooksLose
  <2>2. Ledger!Give(b)
    BY <1>3, <2>1 DEF Ledger!Give, Ledger!Restrict, Restrict
  <2> QED
    BY <1>3, <2>2 DEF Ledger!Next
<1> QED
  BY <1>4, <1>5, <1>6, <1>7 DEF Counted

\* At first nobody has a chunk.
LEMMA BookedInitially == Init => Ledger!Init
<1> SUFFICES ASSUME Init
             PROVE  Ledger!Init
  OBVIOUS
<1>1. {c \in ToSet(heap.header) : c.state = "inuse"} = {}
  <2>1. heap.header = <<>>
    BY DEF Init, Empty
  <2> QED
    BY <2>1 DEF ToSet
<1>2. Owned = [b \in {} |-> 0]
  BY <1>1 DEF Owned
<1> QED
  BY <1>2 DEF Ledger!Init

\* Whichever headers come and go, to the arenas the chunks are a ledger.
THEOREM HeadersAreALedger == Spec => ImplementsLedger
<1>1. HeaderInv /\ [Next]_vars => HeaderInv'
  BY InvNext
<1>2. HeaderInv /\ [Next]_vars => [Ledger!Next]_(Ledger!ledger)
  BY InvNext, StepIsBooked
<1> QED
  BY InvInitially, BookedInitially, <1>1, <1>2, PTL DEF Spec, ImplementsLedger, Ledger!Spec

=============================================================================
