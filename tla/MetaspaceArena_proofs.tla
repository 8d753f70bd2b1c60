------------------------ MODULE MetaspaceArena_proofs ------------------------
(***************************************************************************)
(* The arenas of class loaders on one context: whatever they, and purge,   *)
(* do between two calls of an arena, every chunk in use belongs to one     *)
(* arena, the blocks of a loader stay apart and intact, what an arena has  *)
(* found out holds when it uses it, and the counter of used words is the   *)
(* sum over the chunks.                                                    *)
(*                                                                         *)
(* The methods of the context keep all they keep together (Whole, in       *)
(* ContextMethods_proofs); what a step of one arena does to the others is  *)
(* dealt with once, in StepSound.                                          *)
(***************************************************************************)
EXTENDS MetaspaceArena, ContextMethods_proofs

Places == {"none", "idle", "enlarge", "commit", "new", "taken", "dying"}

BlockMaps == UNION {[D -> Nat \ {0}] : D \in SUBSET Nat}

ArenaType == [ pc: Places, size: Nat, chunks: Seq(Int), taken: Int, returned: Nat,
               live: BlockMaps, free: BlockMaps ]

\* What loaders ask for, as blocks.
RawSizes == {RawSize(size) : size \in Sizes}

\* The chunks of an arena r.
Own(r) == Range(r.chunks) \cup ({r.taken} \ {NoChunk})

\* Its blocks, held or free.
BlocksOf(r) == [p \in DOMAIN r.live \cup DOMAIN r.free |->
                  IF p \in DOMAIN r.live THEN r.live[p] ELSE r.free[p]]

\* What can be said of an arena from where its operation stands.
Placed(r) ==
  /\ r.pc = "none" => r = NoArena
  /\ r.pc = "taken" <=> r.taken # NoChunk
  /\ r.pc \in {"enlarge", "commit"} => r.chunks # <<>>
  /\ r.pc \in {"enlarge", "commit", "new", "taken"} => r.size \in RawSizes
  /\ r.pc = "dying" => r.live = NoBlocks /\ r.free = NoBlocks

\* The words from p on lie within the used part of one of the chunks C.
Within(s, C, p, size) ==
  Words(p, size) \subseteq s.data /\ \E b \in C : Words(p, size) \subseteq Words(b, s.chunk[b].used)

\* The blocks f are apart, and within chunks C.
Packed(s, C, f) ==
  /\ \A p \in DOMAIN f : Within(s, C, p, f[p])
  /\ \A p, q \in DOMAIN f : p # q => Words(p, f[p]) \cap Words(q, f[q]) = {}

\* What an arena that is about to call the context relies on.
Checked(s, r) ==
  /\ r.pc = "enlarge" =>
       LET b == Head(r.chunks)
           l == s.chunk[b].level
       IN  /\ l # RootLevel /\ IsLeader(b, l)
           /\ s.chunk[b].used + r.size \in (WordSize[l] + 1)..WordSize[l - 1]
  /\ r.pc = "commit" =>
       LET c == s.chunk[Head(r.chunks)] IN
       c.used + r.size \in (c.committed + 1)..WordSize[c.level]
  /\ r.pc = "taken" => s.chunk[r.taken].used = 0 /\ s.chunk[r.taken].committed >= r.size

\* An arena r on the context s.
ArenaSound(s, r) ==
  /\ r \in ArenaType
  /\ IsInjective(r.chunks) /\ r.taken \notin Range(r.chunks)
  /\ Own(r) \subseteq InUse(s)
  /\ Placed(r)
  /\ DOMAIN r.live \cap DOMAIN r.free = {}
  /\ Packed(s, Range(r.chunks), BlocksOf(r))
  /\ Checked(s, r)

\* All chunks in use belong to one of the arenas rs.
Shared(s, rs) ==
  /\ \A d \in InUse(s) : \E a \in Arenas : d \in Own(rs[a])
  /\ \A a, c \in Arenas : a # c => Own(rs[a]) \cap Own(rs[c]) = {}

\* The words used in the chunks of an arena, and in those it has given back.
UsedOf(s)    == [b \in DOMAIN s.chunk |-> s.chunk[b].used]
UsedBy(s, r) == Total(UsedOf(s), Own(r)) + r.returned

\* The words used by all of the arenas rs.
Uses(s, rs) == Total([a \in Arenas |-> UsedBy(s, rs[a])], Arenas)

\* The inductive invariant.
AInv ==
  /\ Whole(ctx, 0)
  /\ arena \in [Arenas -> ArenaType]
  /\ \A a \in Arenas : ArenaSound(ctx, arena[a])
  /\ Shared(ctx, arena)
  /\ usedWords = Uses(ctx, arena)

-----------------------------------------------------------------------------
(* Requests.                                                               *)

\* The larger of two numbers.
LEMMA MaxOfTwo ==
  ASSUME NEW a \in Int, NEW b \in Int
  PROVE  Max({a, b}) = IF a >= b THEN a ELSE b
BY DEF Max

\* Blocks are at least as large as asked for, and no larger than a root chunk.
LEMMA RawSizesFit ==
  /\ \A size \in Sizes : RawSize(size) \in RawSizes
  /\ RawSizes \subseteq 1..WordSize[RootLevel]
  /\ RawSizes \subseteq Nat \ {0}
<1>1. WordSize[RootLevel] \in Nat
  BY SizesPositive, NodeSize
<1>2. ASSUME NEW size \in Sizes
      PROVE  RawSize(size) \in 1..WordSize[RootLevel] /\ RawSize(size) \in Nat \ {0}
  <2>1. size \in 1..WordSize[RootLevel] /\ MinBlock \in 1..WordSize[RootLevel]
    BY ArenaAssumption
  <2>2. RawSize(size) = IF size >= MinBlock THEN size ELSE MinBlock
    BY <2>1, MaxOfTwo DEF RawSize
  <2> QED
    BY <1>1, <2>1, <2>2
<1> QED
  BY <1>2 DEF RawSizes

\* level_fitting_word_size finds a level, and a chunk of it is large enough.
LEMMA FittingLevel ==
  ASSUME NEW size \in Int, size <= WordSize[RootLevel]
  PROVE  LevelFitting(size) \in Levels /\ size <= WordSize[LevelFitting(size)]
<1> DEFINE F == {l \in Levels : WordSize[l] >= size}
<1>1. RootLevel \in F
  BY NodeSize
<1>2. F \in SUBSET Int /\ IsFiniteSet(F)
  <2>1. IsFiniteSet(Levels) /\ Levels \subseteq Int
    BY GeometryAssumption, FS_Interval DEF Levels
  <2> QED
    BY <2>1, FS_Subset
<1>3. Max(F) \in F
  BY <1>1, <1>2, MaxExists
<1>4. WordSize[Max(F)] \in Nat
  BY <1>3, SizesPositive
<1> QED
  BY <1>3, <1>4 DEF LevelFitting

\* An arena asks get_chunk for what it may ask for.
LEMMA RequestIsLegal ==
  ASSUME NEW a \in Arenas, arena[a] \in ArenaType, arena[a].size \in RawSizes
  PROVE  Request(a) \in LegalRequests /\ Request(a).min = arena[a].size
<1> DEFINE max  == LevelFitting(arena[a].size)
           next == NextLevel(a)
<1>1. arena[a].size \in Nat /\ arena[a].size <= WordSize[RootLevel]
  <2>1. arena[a].size \in 1..WordSize[RootLevel] /\ arena[a].size \in Nat \ {0}
    BY RawSizesFit
  <2>2. WordSize[RootLevel] \in Nat
    BY NodeSize
  <2> QED
    BY <2>1, <2>2
<1>2. max \in Levels /\ arena[a].size <= WordSize[max]
  BY <1>1, FittingLevel
<1>3. next \in Levels
  <2> DEFINE n == Len(arena[a].chunks) + 1
  <2>1. Policy \in Seq(Levels) /\ Len(Policy) \in Nat /\ Len(Policy) # 0 /\ n \in Nat \ {0}
    BY ArenaAssumption DEF ArenaType
  <2>2. Min({n, Len(Policy)}) \in 1..Len(Policy)
    <3> HIDE DEF n
    <3> QED
      BY <2>1, MinOfTwo
  <2> QED
    BY <2>1, <2>2 DEF NextLevel
<1> HIDE DEF max, next
<1>4. Min({max, next}) \in Levels /\ Min({max, next}) <= max
  BY <1>2, <1>3, MinOfTwo DEF Levels
<1>5. Request(a) = [pref |-> Min({max, next}), max |-> max, min |-> arena[a].size]
  BY DEF Request, max, next
<1> QED
  BY <1>1, <1>2, <1>4, <1>5 DEF LegalRequests

-----------------------------------------------------------------------------
(* Blocks.                                                                 *)

\* A map of blocks is a function.
LEMMA BlockMap ==
  ASSUME NEW f \in BlockMaps
  PROVE  /\ DOMAIN f \subseteq Nat /\ \A p \in DOMAIN f : f[p] \in Nat \ {0}
         /\ f = [p \in DOMAIN f |-> f[p]]
BY DEF BlockMaps

\* Every such function is one.
LEMMA IsBlockMap ==
  ASSUME NEW f, DOMAIN f \subseteq Nat, \A p \in DOMAIN f : f[p] \in Nat \ {0},
         f = [p \in DOMAIN f |-> f[p]]
  PROVE  f \in BlockMaps
<1>1. f \in [DOMAIN f -> Nat \ {0}]
  OBVIOUS
<1> QED
  BY <1>1 DEF BlockMaps

\* The map without blocks.
LEMMA NoBlockMap == NoBlocks \in BlockMaps /\ DOMAIN NoBlocks = {}
<1>1. DOMAIN NoBlocks = {} /\ NoBlocks = [p \in DOMAIN NoBlocks |-> NoBlocks[p]]
  BY DEF NoBlocks
<1> QED
  BY <1>1, IsBlockMap

\* The map g has one more block than f.
OneMore(f, g, p, size) ==
  /\ g \in BlockMaps /\ DOMAIN g = DOMAIN f \cup {p} /\ g[p] = size
  /\ \A q \in DOMAIN f : q # p => g[q] = f[q]

\* With adds one block.
LEMMA WithBlock ==
  ASSUME NEW f \in BlockMaps, NEW p \in Nat, NEW size \in Nat \ {0}
  PROVE  OneMore(f, With(f, p, size), p, size)
<1> DEFINE g == With(f, p, size)
<1>1. /\ DOMAIN g = DOMAIN f \cup {p} /\ g[p] = size
      /\ \A q \in DOMAIN f : q # p => g[q] = f[q]
      /\ g = [q \in DOMAIN g |-> g[q]]
  BY DEF With
<1> HIDE DEF g
<1>2. DOMAIN g \subseteq Nat /\ \A q \in DOMAIN g : g[q] \in Nat \ {0}
  BY <1>1, BlockMap
<1>3. g \in BlockMaps
  BY <1>1, <1>2, IsBlockMap
<1> QED
  BY <1>1, <1>3 DEF OneMore, g

\* A map with one block less.
LEMMA WithoutBlock ==
  ASSUME NEW f \in BlockMaps, NEW p
  PROVE  /\ Without(f, p) \in BlockMaps /\ DOMAIN Without(f, p) = DOMAIN f \ {p}
         /\ \A q \in DOMAIN f \ {p} : Without(f, p)[q] = f[q]
<1> DEFINE g == Without(f, p)
<1>1. /\ DOMAIN g = DOMAIN f \ {p} /\ \A q \in DOMAIN g : g[q] = f[q]
      /\ g = [q \in DOMAIN g |-> g[q]]
  BY DEF Without, Restrict
<1> HIDE DEF g
<1>2. DOMAIN g \subseteq Nat /\ \A q \in DOMAIN g : g[q] \in Nat \ {0}
  BY <1>1, BlockMap
<1>3. g \in BlockMaps
  BY <1>1, <1>2, IsBlockMap
<1> QED
  BY <1>1, <1>3 DEF g

\* The blocks of an arena, held or free.
LEMMA BlocksOfArena ==
  ASSUME NEW r \in ArenaType
  PROVE  /\ BlocksOf(r) \in BlockMaps
         /\ DOMAIN BlocksOf(r) = DOMAIN r.live \cup DOMAIN r.free
         /\ \A p \in DOMAIN r.live : BlocksOf(r)[p] = r.live[p]
         /\ \A p \in DOMAIN r.free \ DOMAIN r.live : BlocksOf(r)[p] = r.free[p]
<1> DEFINE g == BlocksOf(r)
<1>1. r.live \in BlockMaps /\ r.free \in BlockMaps
  BY DEF ArenaType
<1>2. /\ DOMAIN g = DOMAIN r.live \cup DOMAIN r.free
      /\ \A p \in DOMAIN r.live : g[p] = r.live[p]
      /\ \A p \in DOMAIN r.free \ DOMAIN r.live : g[p] = r.free[p]
      /\ g = [p \in DOMAIN g |-> g[p]]
  BY DEF BlocksOf
<1> HIDE DEF g
<1>3. DOMAIN g \subseteq Nat /\ \A p \in DOMAIN g : g[p] \in Nat \ {0}
  BY <1>1, <1>2, BlockMap
<1>4. g \in BlockMaps
  BY <1>2, <1>3, IsBlockMap
<1> QED
  BY <1>2, <1>4 DEF g

\* A block starts with a word of its own.
LEMMA FirstWord ==
  ASSUME NEW p \in Nat, NEW size \in Nat \ {0}
  PROVE  p \in Words(p, size)
BY DEF Words

\* Used parts grow, and data is added: the blocks are where they were.
LEMMA PackedStays ==
  ASSUME NEW s, NEW C, NEW f, Packed(s, C, f), NEW t, NEW D, C \subseteq D,
         \A d \in C : Words(d, s.chunk[d].used) \subseteq Words(d, t.chunk[d].used),
         \A d \in C : \A w \in Words(d, s.chunk[d].used) : w \in s.data => w \in t.data
  PROVE  Packed(t, D, f)
<1>1. ASSUME NEW p \in DOMAIN f
      PROVE  Within(t, D, p, f[p])
  <2>1. Words(p, f[p]) \subseteq s.data
    BY DEF Packed, Within
  <2>2. PICK d \in C : Words(p, f[p]) \subseteq Words(d, s.chunk[d].used)
    BY DEF Packed, Within
  <2> QED
    BY <2>1, <2>2 DEF Within
<1> QED
  BY <1>1 DEF Packed

\* A block goes where none is.
LEMMA PackedMore ==
  ASSUME NEW s, NEW C, NEW f \in BlockMaps, Packed(s, C, f),
         NEW p \in Nat, NEW size \in Nat \ {0}, Within(s, C, p, size),
         \A q \in DOMAIN f : Words(q, f[q]) \cap Words(p, size) = {}
  PROVE  p \notin DOMAIN f /\ Packed(s, C, With(f, p, size))
<1>1. p \notin DOMAIN f
  BY FirstWord, BlockMap
<1> DEFINE g == With(f, p, size)
<1>2. /\ DOMAIN g = DOMAIN f \cup {p} /\ g[p] = size
      /\ \A q \in DOMAIN f : q # p => g[q] = f[q]
  <2>1. OneMore(f, g, p, size)
    BY WithBlock
  <2> HIDE DEF g
  <2> QED
    BY <2>1 DEF OneMore
<1> HIDE DEF g
<1>3. Packed(s, C, g)
  BY <1>1, <1>2 DEF Packed
<1> QED
  BY <1>1, <1>3 DEF g

\* Blocks that are pieces of other blocks: each p of g lies in the block
\* from[p] of f.
LEMMA PackedPieces ==
  ASSUME NEW s, NEW C, NEW f, Packed(s, C, f), NEW g, NEW from,
         \A p \in DOMAIN g : from[p] \in DOMAIN f /\ Words(p, g[p]) \subseteq Words(from[p], f[from[p]]),
         \A p, q \in DOMAIN g : p # q /\ from[p] = from[q] =>
           Words(p, g[p]) \cap Words(q, g[q]) = {}
  PROVE  Packed(s, C, g)
<1>1. ASSUME NEW p \in DOMAIN g
      PROVE  Within(s, C, p, g[p])
  <2>1. Within(s, C, from[p], f[from[p]]) /\ Words(p, g[p]) \subseteq Words(from[p], f[from[p]])
    BY DEF Packed
  <2> QED
    BY <2>1 DEF Within
<1>2. ASSUME NEW p \in DOMAIN g, NEW q \in DOMAIN g, p # q
      PROVE  Words(p, g[p]) \cap Words(q, g[q]) = {}
  <2>1. CASE from[p] = from[q]
    BY <1>2, <2>1
  <2>2. CASE from[p] # from[q]
    <3>1. Words(from[p], f[from[p]]) \cap Words(from[q], f[from[q]]) = {}
      BY <2>2 DEF Packed
    <3> QED
      BY <3>1
  <2> QED
    BY <2>1, <2>2
<1> QED
  BY <1>1, <1>2 DEF Packed

\* The unused words of a chunk are in no block: they are beyond the used part
\* of their chunk.
LEMMA FreshWords ==
  ASSUME NEW s, NEW other, Whole(s, other), NEW b \in InUse(s), NEW size \in Nat,
         s.chunk[b].used + size <= SizeOf(s, b), NEW c \in InUse(s)
  PROVE  Words(b + s.chunk[b].used, size) \cap Words(c, s.chunk[c].used) = {}
<1> DEFINE used == s.chunk[b].used
           all  == SizeOf(s, b)
<1>1. b \in Nat /\ used \in Nat /\ all \in Nat
  BY UsedChunk
<1>2. /\ Words(b + used, size) \subseteq Words(b, all)
      /\ Words(b + used, size) \cap Words(b, used) = {}
  <2>1. used + size <= all
    OBVIOUS
  <2> HIDE DEF used, all
  <2> QED
    BY <1>1, <2>1 DEF Words
<1>3. CASE c = b
  BY <1>2, <1>3
<1>4. CASE c # b
  <2>1. Words(c, s.chunk[c].used) \subseteq Words(c, SizeOf(s, c))
    BY UsedChunk
  <2>2. Words(b, all) \cap Words(c, SizeOf(s, c)) = {}
    BY <1>4, UsedApart
  <2> HIDE DEF used, all
  <2> QED
    BY <1>2, <2>1, <2>2 DEF used
<1> QED
  BY <1>3, <1>4


\* What follows the first element of a list without doubles.
LEMMA TailFacts ==
  ASSUME NEW X, NEW list \in Seq(X), list # <<>>, IsInjective(list)
  PROVE  /\ Tail(list) \in Seq(X) /\ Range(Tail(list)) = Range(list) \ {Head(list)}
         /\ IsInjective(Tail(list)) /\ Head(list) \in Range(list)
<1> DEFINE n == Len(list)
           t == Tail(list)
<1>1. /\ n \in Nat \ {0} /\ DOMAIN list = 1..n /\ Head(list) = list[1]
      /\ t \in Seq(X) /\ Len(t) = n - 1 /\ \A i \in 1..(n - 1) : t[i] = list[i + 1]
  OBVIOUS
<1>2. DOMAIN t = 1..(n - 1)
  BY <1>1
<1> HIDE DEF n, t
<1>3. \A i \in 1..n, j \in 1..n : list[i] = list[j] => i = j
  BY <1>1 DEF IsInjective
<1>4. IsInjective(t)
  <2> SUFFICES ASSUME NEW i \in 1..(n - 1), NEW j \in 1..(n - 1), t[i] = t[j]
               PROVE  i = j
    BY <1>2 DEF IsInjective
  <2>1. i + 1 \in 1..n /\ j + 1 \in 1..n /\ list[i + 1] = list[j + 1]
    BY <1>1
  <2>2. i + 1 = j + 1
    BY <1>3, <2>1
  <2> QED
    BY <2>2
<1>5. ASSUME NEW x
      PROVE  x \in Range(t) <=> x \in Range(list) \ {Head(list)}
  <2>1. ASSUME x \in Range(t)
        PROVE  x \in Range(list) \ {Head(list)}
    <3>1. PICK i \in 1..(n - 1) : x = t[i]
      BY <1>2, <2>1 DEF Range
    <3>2. i + 1 \in 1..n /\ x = list[i + 1] /\ 1 \in 1..n /\ i + 1 # 1
      BY <1>1, <3>1
    <3>3. list[i + 1] # list[1]
      BY <1>3, <3>2
    <3> QED
      BY <1>1, <3>2, <3>3 DEF Range
  <2>2. ASSUME x \in Range(list) \ {Head(list)}
        PROVE  x \in Range(t)
    <3>1. PICK i \in 1..n : x = list[i]
      BY <1>1, <2>2 DEF Range
    <3>2. i # 1
      BY <1>1, <2>2, <3>1
    <3>3. i - 1 \in 1..(n - 1) /\ (i - 1) + 1 = i
      BY <1>1, <3>2
    <3>4. t[i - 1] = x
      BY <1>1, <3>1, <3>3
    <3> QED
      BY <1>2, <3>3, <3>4 DEF Range
  <2> QED
    BY <2>1, <2>2
<1>6. Head(list) \in Range(list)
  BY <1>1 DEF Range
<1> QED
  BY <1>1, <1>4, <1>5, <1>6 DEF t

-----------------------------------------------------------------------------
(* Steps.                                                                  *)

\* A sound arena.
LEMMA ArenaFacts ==
  ASSUME NEW s, NEW other, Whole(s, other), NEW r, ArenaSound(s, r)
  PROVE  /\ r \in ArenaType /\ r.chunks \in Seq(Int) /\ r.live \in BlockMaps /\ r.free \in BlockMaps
         /\ Range(r.chunks) \subseteq Own(r) /\ Own(r) \subseteq InUse(s)
         /\ r.chunks # <<>> => Head(r.chunks) \in Range(r.chunks)
         /\ r.taken # NoChunk => r.taken \in Own(r)
<1>1. r \in ArenaType /\ r.chunks \in Seq(Int) /\ r.live \in BlockMaps /\ r.free \in BlockMaps
  BY DEF ArenaSound, ArenaType
<1>2. r.chunks # <<>> => Head(r.chunks) \in Range(r.chunks)
  BY <1>1 DEF Range
<1> QED
  BY <1>1, <1>2 DEF ArenaSound, Own

\* No arena.
LEMMA NoArenaSound ==
  ASSUME NEW s
  PROVE  ArenaSound(s, NoArena) /\ Own(NoArena) = {} /\ NoArena \in ArenaType
<1> DEFINE r == NoArena
<1>1. /\ r.pc = "none" /\ r.size = 0 /\ r.chunks = <<>> /\ r.taken = NoChunk /\ r.returned = 0
      /\ r.live = NoBlocks /\ r.free = NoBlocks
  BY DEF NoArena
<1>2. NoBlocks \in BlockMaps /\ DOMAIN NoBlocks = {}
  BY NoBlockMap
<1>3. r \in ArenaType
  <2>1. NoChunk \in Int /\ "none" \in Places /\ <<>> \in Seq(Int)
    BY DEF NoChunk, Places
  <2> QED
    BY <1>2, <2>1 DEF NoArena, ArenaType
<1> HIDE DEF r
<1>4. Range(r.chunks) = {} /\ Own(r) = {} /\ DOMAIN BlocksOf(r) = {}
  BY <1>1, <1>2 DEF Range, Own, BlocksOf
<1>5. IsInjective(r.chunks)
  BY <1>1 DEF IsInjective
<1>6. Placed(r) /\ Checked(s, r)
  BY <1>1 DEF Placed, Checked, r
<1>7. Packed(s, Range(r.chunks), BlocksOf(r))
  BY <1>4 DEF Packed
<1>8. ArenaSound(s, r)
  BY <1>1, <1>2, <1>3, <1>4, <1>5, <1>6, <1>7 DEF ArenaSound
<1> QED
  BY <1>3, <1>4, <1>8 DEF r

\* What is done to the chunks of others does not concern an arena.
LEMMA OtherSound ==
  ASSUME NEW s, NEW other, Whole(s, other), NEW r, ArenaSound(s, r), NEW t,
         \A d \in Own(r) : /\ d \in InUse(t) /\ t.chunk[d] = s.chunk[d]
                           /\ \A w \in Words(d, s.chunk[d].used) : w \in s.data => w \in t.data
  PROVE  ArenaSound(t, r)
<1>1. /\ Range(r.chunks) \subseteq Own(r)
      /\ r.chunks # <<>> => Head(r.chunks) \in Own(r)
      /\ r.taken # NoChunk => r.taken \in Own(r)
      /\ Placed(r) /\ Packed(s, Range(r.chunks), BlocksOf(r)) /\ Checked(s, r)
  BY ArenaFacts DEF ArenaSound
<1>2. Packed(t, Range(r.chunks), BlocksOf(r))
  BY <1>1, PackedStays
<1>3. r.pc = "enlarge" \/ r.pc = "commit" => t.chunk[Head(r.chunks)] = s.chunk[Head(r.chunks)]
  BY <1>1 DEF Placed
<1>4. r.pc = "taken" => t.chunk[r.taken] = s.chunk[r.taken]
  BY <1>1 DEF Placed
<1>5. Checked(t, r)
  BY <1>1, <1>3, <1>4 DEF Checked
<1>6. Own(r) \subseteq InUse(t)
  OBVIOUS
<1> QED
  BY <1>2, <1>5, <1>6 DEF ArenaSound

\* An arena r with chunks on the context s.
Owns(s, r) == Whole(s, 0) /\ Own(r) \subseteq InUse(s) /\ r.returned \in Int

\* Such is every arena that is sound.
LEMMA SoundOwns ==
  ASSUME NEW s, Whole(s, 0), NEW r, ArenaSound(s, r)
  PROVE  Owns(s, r)
<1>1. Own(r) \subseteq InUse(s) /\ r.returned \in Int
  BY DEF ArenaSound, ArenaType
<1> QED
  BY <1>1 DEF Owns

\* It has finitely many, and its words can be counted.
LEMMA OwnUsed ==
  ASSUME NEW s, NEW r, Owns(s, r)
  PROVE  /\ IsFiniteSet(Own(r))
         /\ \A d \in Own(r) : UsedOf(s)[d] = s.chunk[d].used /\ s.chunk[d].used \in Int
         /\ Total(UsedOf(s), Own(r)) \in Int /\ UsedBy(s, r) \in Int
<1>1. Tiled(s) /\ Whole(s, 0) /\ Own(r) \subseteq InUse(s) /\ r.returned \in Int
  BY WholeFacts DEF Owns
<1>2. IsFiniteSet(Own(r))
  <2>1. Own(r) \subseteq DOMAIN s.chunk /\ IsFiniteSet(DOMAIN s.chunk)
    BY <1>1, IdleFinite DEF InUse
  <2> QED
    BY <2>1, FS_Subset
<1>3. \A d \in Own(r) : UsedOf(s)[d] = s.chunk[d].used /\ s.chunk[d].used \in Int
  <2> SUFFICES ASSUME NEW d \in Own(r)
               PROVE  UsedOf(s)[d] = s.chunk[d].used /\ s.chunk[d].used \in Int
    OBVIOUS
  <2>1. d \in DOMAIN s.chunk /\ s.chunk[d].used \in Nat
    BY <1>1, UsedChunk
  <2> QED
    BY <2>1 DEF UsedOf
<1>4. Total(UsedOf(s), Own(r)) \in Int
  BY <1>2, <1>3, TotalIsNumber
<1> QED
  BY <1>1, <1>2, <1>3, <1>4 DEF UsedBy

\* Nothing is used or freed in its chunks.
LEMMA UsedSame ==
  ASSUME NEW s, NEW r, Owns(s, r), NEW t, NEW x, Owns(t, x), Own(x) = Own(r),
         \A d \in Own(r) : t.chunk[d].used = s.chunk[d].used
  PROVE  UsedBy(t, x) = UsedBy(s, r) + x.returned - r.returned
<1>1. r.returned \in Int /\ x.returned \in Int
  BY DEF Owns
<1>2. /\ IsFiniteSet(Own(r)) /\ Total(UsedOf(s), Own(r)) \in Int
      /\ \A d \in Own(r) : UsedOf(s)[d] \in Int /\ UsedOf(t)[d] = UsedOf(s)[d]
  BY OwnUsed
<1>3. Total(UsedOf(t), Own(r)) = Total(UsedOf(s), Own(r))
  BY <1>2, TotalSame
<1> QED
  BY <1>1, <1>2, <1>3 DEF UsedBy

\* n more words are used in one of them.
LEMMA UsedMore ==
  ASSUME NEW s, NEW r, Owns(s, r), NEW t, NEW x, Owns(t, x), Own(x) = Own(r),
         x.returned = r.returned, NEW b \in Own(r), NEW n \in Int,
         t.chunk[b].used = s.chunk[b].used + n,
         \A d \in Own(r) \ {b} : t.chunk[d].used = s.chunk[d].used
  PROVE  UsedBy(t, x) = UsedBy(s, r) + n
<1>1. r.returned \in Int
  BY DEF Owns
<1>2. /\ IsFiniteSet(Own(r)) /\ Total(UsedOf(s), Own(r)) \in Int
      /\ \A d \in Own(r) : UsedOf(s)[d] \in Int /\ UsedOf(t)[d] \in Int
      /\ \A d \in Own(r) \ {b} : UsedOf(t)[d] = UsedOf(s)[d]
      /\ UsedOf(t)[b] = UsedOf(s)[b] + n
  BY OwnUsed
<1>3. Total(UsedOf(t), Own(r)) = Total(UsedOf(s), Own(r)) + UsedOf(t)[b] - UsedOf(s)[b]
  BY <1>2, TotalChange
<1>4. Total(UsedOf(t), Own(r)) = Total(UsedOf(s), Own(r)) + n
  BY <1>2, <1>3
<1> QED
  BY <1>1, <1>2, <1>4 DEF UsedBy

\* It has lost one.
LEMMA UsedLess ==
  ASSUME NEW s, NEW r, Owns(s, r), NEW t, NEW x, Owns(t, x), NEW b \in Own(r),
         Own(x) = Own(r) \ {b},
         \A d \in Own(r) \ {b} : t.chunk[d].used = s.chunk[d].used
  PROVE  UsedBy(t, x) = UsedBy(s, r) - s.chunk[b].used + x.returned - r.returned
<1>1. r.returned \in Int /\ x.returned \in Int
  BY DEF Owns
<1>2. /\ IsFiniteSet(Own(r)) /\ IsFiniteSet(Own(x)) /\ Total(UsedOf(s), Own(x)) \in Int
      /\ \A d \in Own(r) : UsedOf(s)[d] \in Int /\ UsedOf(s)[d] = s.chunk[d].used
      /\ \A d \in Own(x) : UsedOf(t)[d] = UsedOf(s)[d]
  <2>1. /\ IsFiniteSet(Own(r)) /\ IsFiniteSet(Own(x))
        /\ \A d \in Own(r) : UsedOf(s)[d] \in Int /\ UsedOf(s)[d] = s.chunk[d].used
        /\ \A d \in Own(x) : UsedOf(t)[d] = t.chunk[d].used
    BY OwnUsed
  <2>2. Total(UsedOf(s), Own(x)) \in Int
    BY <2>1, TotalIsNumber
  <2> QED
    BY <2>1, <2>2
<1>3. Total(UsedOf(t), Own(x)) = Total(UsedOf(s), Own(x))
  BY <1>2, TotalSame
<1>4. Total(UsedOf(s), Own(r)) = Total(UsedOf(s), Own(x)) + UsedOf(s)[b]
  BY <1>2, TotalRemove
<1>5. UsedOf(s)[b] = s.chunk[b].used /\ s.chunk[b].used \in Int
  BY <1>2
<1> QED
  BY <1>1, <1>2, <1>3, <1>4, <1>5 DEF UsedBy

\* The words of one arena change, and the counter with them.
LEMMA UsesChange ==
  ASSUME NEW s, NEW rs, NEW t, NEW us, NEW a \in Arenas,
         \A c \in Arenas : UsedBy(s, rs[c]) \in Int,
         \A c \in Arenas \ {a} : UsedBy(t, us[c]) = UsedBy(s, rs[c]),
         UsedBy(t, us[a]) \in Int
  PROVE  Uses(t, us) = Uses(s, rs) + UsedBy(t, us[a]) - UsedBy(s, rs[a])
<1> DEFINE g == [c \in Arenas |-> UsedBy(s, rs[c])]
           h == [c \in Arenas |-> UsedBy(t, us[c])]
<1>1. /\ \A c \in Arenas : g[c] \in Int
      /\ \A c \in Arenas \ {a} : h[c] = g[c]
      /\ h[a] \in Int /\ h[a] = UsedBy(t, us[a]) /\ g[a] = UsedBy(s, rs[a])
  OBVIOUS
<1>2. IsFiniteSet(Arenas)
  BY ArenaAssumption
<1>3. Uses(s, rs) = Total(g, Arenas) /\ Uses(t, us) = Total(h, Arenas)
  BY DEF Uses
<1> HIDE DEF g, h
<1>4. Total(h, Arenas) = Total(g, Arenas) + h[a] - g[a]
  BY <1>1, <1>2, TotalChange
<1> QED
  BY <1>1, <1>3, <1>4

\* The counter is a number.
LEMMA WordsCounted ==
  ASSUME AInv
  PROVE  usedWords \in Int
<1> DEFINE g == [c \in Arenas |-> UsedBy(ctx, arena[c])]
<1>1. \A c \in Arenas : UsedBy(ctx, arena[c]) \in Int
  BY SoundOwns, OwnUsed DEF AInv
<1>2. \A c \in Arenas : g[c] \in Int
  BY <1>1
<1>3. usedWords = Total(g, Arenas) /\ IsFiniteSet(Arenas)
  BY ArenaAssumption DEF AInv, Uses
<1> HIDE DEF g
<1> QED
  BY <1>2, <1>3, TotalIsNumber

\* A step of an arena that takes or leaves what is its own.
LEMMA StepSound ==
  ASSUME AInv, NEW a \in Arenas, NEW x, arena' = [arena EXCEPT ![a] = x],
         Whole(ctx', 0), ArenaSound(ctx', x), Untouched(ctx, ctx', Own(arena[a])),
         InUse(ctx') = (InUse(ctx) \ Own(arena[a])) \cup Own(x),
         Own(x) \cap (InUse(ctx) \ Own(arena[a])) = {},
         \A d \in InUse(ctx) \ Own(arena[a]) :
           \A w \in Words(d, ctx.chunk[d].used) : w \in ctx.data => w \in ctx'.data,
         usedWords' = usedWords + UsedBy(ctx', x) - UsedBy(ctx, arena[a])
  PROVE  AInv'
<1> DEFINE mine == Own(arena[a])
<1>1. x \in ArenaType /\ arena \in [Arenas -> ArenaType] /\ Whole(ctx, 0)
  BY DEF ArenaSound, AInv
<1>2. /\ arena' \in [Arenas -> ArenaType] /\ arena'[a] = x
      /\ \A c \in Arenas \ {a} : arena'[c] = arena[c]
  BY <1>1
<1>3. \A c \in Arenas \ {a} : Own(arena[c]) \subseteq InUse(ctx) \ mine
  <2> SUFFICES ASSUME NEW c \in Arenas \ {a}
               PROVE  Own(arena[c]) \subseteq InUse(ctx) \ mine
    OBVIOUS
  <2>1. Own(arena[c]) \subseteq InUse(ctx)
    BY DEF AInv, ArenaSound
  <2>2. Own(arena[c]) \cap mine = {}
    BY DEF AInv, Shared
  <2> QED
    BY <2>1, <2>2
<1>4. ASSUME NEW c \in Arenas
      PROVE  ArenaSound(ctx', arena'[c])
  <2>1. CASE c = a
    BY <1>2, <2>1
  <2>2. CASE c # a
    <3>1. ArenaSound(ctx, arena[c]) /\ Own(arena[c]) \subseteq InUse(ctx) \ mine
      BY <1>3, <2>2 DEF AInv
    <3>2. \A d \in Own(arena[c]) :
            /\ d \in InUse(ctx') /\ ctx'.chunk[d] = ctx.chunk[d]
            /\ \A w \in Words(d, ctx.chunk[d].used) : w \in ctx.data => w \in ctx'.data
      BY <3>1 DEF Untouched
    <3>3. ArenaSound(ctx', arena[c])
      BY <1>1, <3>1, <3>2, OtherSound
    <3> QED
      BY <1>2, <2>2, <3>3
  <2> QED
    BY <2>1, <2>2
<1>5. Shared(ctx', arena')
  <2>1. ASSUME NEW d \in InUse(ctx')
        PROVE  \E c \in Arenas : d \in Own(arena'[c])
    <3>1. CASE d \in Own(x)
      BY <1>2, <3>1
    <3>2. CASE d \in InUse(ctx) \ mine
      <4>1. PICK c \in Arenas : d \in Own(arena[c])
        BY <3>2 DEF AInv, Shared
      <4> QED
        BY <1>2, <3>2, <4>1
    <3> QED
      BY <3>1, <3>2
  <2>2. ASSUME NEW c \in Arenas, NEW e \in Arenas, c # e
        PROVE  Own(arena'[c]) \cap Own(arena'[e]) = {}
    <3>1. CASE c = a
      BY <1>2, <1>3, <2>2, <3>1
    <3>2. CASE e = a
      BY <1>2, <1>3, <2>2, <3>2
    <3>3. CASE c # a /\ e # a
      BY <1>2, <2>2, <3>3 DEF AInv, Shared
    <3> QED
      BY <3>1, <3>2, <3>3
  <2> QED
    BY <2>1, <2>2 DEF Shared
<1>6. usedWords' = Uses(ctx', arena')
  <2>1. \A c \in Arenas : Owns(ctx, arena[c]) /\ Owns(ctx', arena'[c])
    BY <1>1, <1>4, SoundOwns DEF AInv
  <2>2. \A c \in Arenas : UsedBy(ctx, arena[c]) \in Int /\ UsedBy(ctx', arena'[c]) \in Int
    BY <2>1, OwnUsed
  <2>3. ASSUME NEW c \in Arenas \ {a}
        PROVE  UsedBy(ctx', arena'[c]) = UsedBy(ctx, arena[c])
    <3>1. \A d \in Own(arena[c]) : ctx'.chunk[d] = ctx.chunk[d]
      BY <1>3 DEF Untouched
    <3>2. Owns(ctx, arena[c]) /\ Owns(ctx', arena[c]) /\ arena[c].returned \in Int
      BY <1>2, <2>1 DEF Owns
    <3>3. UsedBy(ctx', arena[c]) = UsedBy(ctx, arena[c]) + arena[c].returned - arena[c].returned
      BY <3>1, <3>2, UsedSame
    <3> QED
      BY <1>2, <2>2, <3>2, <3>3
  <2>4. Uses(ctx', arena')
          = Uses(ctx, arena) + UsedBy(ctx', arena'[a]) - UsedBy(ctx, arena[a])
    <3>1. PICK s, rs, t, us : s = ctx /\ rs = arena /\ t = ctx' /\ us = arena'
      OBVIOUS
    <3>2. /\ \A c \in Arenas : UsedBy(s, rs[c]) \in Int
          /\ \A c \in Arenas \ {a} : UsedBy(t, us[c]) = UsedBy(s, rs[c])
          /\ UsedBy(t, us[a]) \in Int
      BY <2>2, <2>3, <3>1
    <3>3. Uses(t, us) = Uses(s, rs) + UsedBy(t, us[a]) - UsedBy(s, rs[a])
      BY <3>2, UsesChange
    <3> QED
      BY <3>1, <3>3
  <2> QED
    BY <1>2, <2>4 DEF AInv
<1> QED
  BY <1>2, <1>4, <1>5, <1>6 DEF AInv

\* purge touches no chunk in use.
LEMMA PurgeSound ==
  ASSUME AInv, Purge, UNCHANGED <<arena, usedWords>>
  PROVE  AInv'
<1>1. /\ Whole(ctx', 0) /\ Keeps(ctx, ctx', {}) /\ Untouched(ctx, ctx', {})
      /\ ctx'.data = ctx.data
  BY PurgeWhole DEF AInv
<1>2. InUse(ctx') = InUse(ctx)
  BY <1>1 DEF Keeps
<1>3. ASSUME NEW a \in Arenas
      PROVE  ArenaSound(ctx', arena[a])
  <2>1. ArenaSound(ctx, arena[a]) /\ Whole(ctx, 0) /\ Own(arena[a]) \subseteq InUse(ctx)
    BY DEF AInv, ArenaSound
  <2> QED
    BY <1>1, <1>2, <2>1, OtherSound DEF Untouched
<1>4. \A a \in Arenas : UsedBy(ctx', arena[a]) = UsedBy(ctx, arena[a])
  <2> SUFFICES ASSUME NEW a \in Arenas
               PROVE  UsedBy(ctx', arena[a]) = UsedBy(ctx, arena[a])
    OBVIOUS
  <2>1. Owns(ctx, arena[a]) /\ Owns(ctx', arena[a]) /\ arena[a].returned \in Int
    BY <1>1, <1>3, SoundOwns DEF AInv, Owns
  <2>2. \A d \in Own(arena[a]) : ctx'.chunk[d] = ctx.chunk[d]
    BY <1>1, <2>1 DEF Owns, Untouched
  <2>3. UsedBy(ctx', arena[a]) = UsedBy(ctx, arena[a]) + arena[a].returned - arena[a].returned
    BY <2>1, <2>2, UsedSame
  <2>4. UsedBy(ctx, arena[a]) \in Int
    BY <2>1, OwnUsed
  <2> QED
    BY <2>1, <2>3, <2>4
<1>5. usedWords' = Uses(ctx', arena')
  BY <1>4 DEF AInv, Uses
<1> QED
  BY <1>1, <1>2, <1>3, <1>5 DEF AInv, Shared

\* A step after which an arena has the same chunks, untouched.
LEMMA SameChunks ==
  ASSUME AInv, NEW a \in Arenas, ctx' = ctx, NEW x, arena' = [arena EXCEPT ![a] = x],
         ArenaSound(ctx, x), Own(x) = Own(arena[a]),
         usedWords' = usedWords + x.returned - arena[a].returned
  PROVE  AInv'
<1>1. Untouched(ctx, ctx', Own(arena[a])) /\ Own(arena[a]) \subseteq InUse(ctx) /\ Whole(ctx, 0)
  BY DEF Untouched, AInv, ArenaSound
<1>2. Owns(ctx, arena[a]) /\ Owns(ctx, x)
  BY <1>1, SoundOwns DEF AInv
<1>3. UsedBy(ctx, x) = UsedBy(ctx, arena[a]) + x.returned - arena[a].returned
  BY <1>2, UsedSame
<1>4. /\ UsedBy(ctx, arena[a]) \in Int /\ usedWords \in Int
      /\ x.returned \in Int /\ arena[a].returned \in Int
  BY <1>2, OwnUsed, WordsCounted DEF Owns
<1>5. usedWords' = usedWords + UsedBy(ctx', x) - UsedBy(ctx, arena[a])
  BY <1>3, <1>4
<1> QED
  BY <1>1, <1>5, StepSound

\* The operation of an arena is at another place, for a block of n words.
Moved(r, place, n) == [r EXCEPT !.pc = place, !.size = n]

\* A loader that moves on to another place keeps what it has.
LEMMA MovedFacts ==
  ASSUME NEW r \in ArenaType, NEW place \in Places, NEW n \in Nat
  PROVE  LET x == Moved(r, place, n) IN
         /\ x \in ArenaType /\ x.pc = place /\ x.size = n /\ x.chunks = r.chunks
         /\ x.taken = r.taken /\ x.live = r.live /\ x.free = r.free /\ x.returned = r.returned
         /\ Own(x) = Own(r) /\ BlocksOf(x) = BlocksOf(r)
<1> DEFINE x == Moved(r, place, n)
<1>1. /\ x \in ArenaType /\ x.pc = place /\ x.size = n /\ x.chunks = r.chunks
      /\ x.taken = r.taken /\ x.live = r.live /\ x.free = r.free /\ x.returned = r.returned
  BY DEF Moved, ArenaType
<1> HIDE DEF x
<1>2. Own(x) = Own(r) /\ BlocksOf(x) = BlocksOf(r)
  BY <1>1 DEF Own, BlocksOf
<1> QED
  BY <1>1, <1>2 DEF x

-----------------------------------------------------------------------------
(* Blocks from the current chunk.                                          *)

\* The chunks of an arena lie in the address space.
LEMMA UsedAddresses ==
  ASSUME NEW s, NEW other, Whole(s, other), NEW b \in InUse(s)
  PROVE  Words(b, SizeOf(s, b)) \subseteq Addresses
<1>1. /\ b \in DOMAIN s.chunk /\ Tiles(s.chunk, Handed(s))
      /\ Extent(s.chunk, b) = Words(b, SizeOf(s, b))
  BY WholeFacts, TiledChunk DEF InUse
<1>2. Extent(s.chunk, b) \subseteq Handed(s)
  BY <1>1, ChunkOfTiling
<1> QED
  BY <1>1, <1>2 DEF Handed

\* Where a block is.
LEMMA BlockPlace ==
  ASSUME AInv, NEW c \in Arenas, NEW q \in DOMAIN BlocksOf(arena[c])
  PROVE  \E d \in Own(arena[c]) :
           d \in InUse(ctx) /\ Words(q, BlocksOf(arena[c])[q]) \subseteq Words(d, ctx.chunk[d].used)
<1>1. Packed(ctx, Range(arena[c].chunks), BlocksOf(arena[c])) /\ Own(arena[c]) \subseteq InUse(ctx)
  BY DEF AInv, ArenaSound
<1>2. PICK d \in Range(arena[c].chunks) :
        Words(q, BlocksOf(arena[c])[q]) \subseteq Words(d, ctx.chunk[d].used)
  BY <1>1 DEF Packed, Within
<1> QED
  BY <1>1, <1>2 DEF Own

\* A block that no loader holds a word of is one that the loader may get.
LEMMA HandsOut ==
  ASSUME AInv, NEW a \in Arenas, NEW p \in Addresses, NEW size \in RawSizes,
         NEW x, arena' = [arena EXCEPT ![a] = x], x.live = With(arena[a].live, p, size),
         \A c \in Arenas : \A q \in DOMAIN arena[c].live :
           Words(q, arena[c].live[q]) \cap Words(p, size) = {}
  PROVE  Promise!AllocateBlock(a, p, size)
<1>1. DOMAIN arena = Arenas
  BY DEF AInv
<1>2. \A c \in Arenas : arena'[c].live = IF c = a THEN x.live ELSE arena[c].live
  BY <1>1
<1>3. ASSUME NEW c \in Arenas
      PROVE  Promise!Extent(p, size) \cap Promise!HeldWords(c) = {}
  BY <1>3 DEF Promise!Extent, Promise!HeldWords, Words
<1>4. [c \in Arenas |-> arena[c].live]' =
        [[c \in Arenas |-> arena[c].live] EXCEPT
           ![a] = [q \in DOMAIN @ \cup {p} |-> IF q = p THEN size ELSE @[q]]]
  BY <1>2 DEF With
<1> QED
  BY <1>3, <1>4 DEF Promise!AllocateBlock

\* t is s after words were stored behind what the chunk at b holds.
Put(s, t, b, size) ==
  /\ Whole(t, 0) /\ Untouched(s, t, {b}) /\ InUse(t) = InUse(s)
  /\ t.data = s.data \cup Words(b + s.chunk[b].used, size)
  /\ t.chunk[b].used = s.chunk[b].used + size
  /\ b \in Nat /\ s.chunk[b].used \in Nat /\ s.chunk[b].used + size <= SizeOf(s, b)
  /\ b + s.chunk[b].used \in Addresses /\ b + s.chunk[b].used \in Nat

\* A bump of the top puts one block behind those in use.
LEMMA NewWords ==
  ASSUME NEW s, Whole(s, 0), NEW b \in InUse(s), NEW size \in Nat \ {0},
         s.chunk[b].used + size <= s.chunk[b].committed, NEW t, t = Bump(s, b, size)
  PROVE  Put(s, t, b, size)
<1> DEFINE used == s.chunk[b].used
           p    == b + used
<1>1. /\ b \in Nat /\ used \in Nat /\ p \in Nat /\ used + size <= SizeOf(s, b)
  <2>1. /\ b \in Nat /\ used \in Nat /\ s.chunk[b].committed \in Nat
        /\ SizeOf(s, b) \in Nat /\ s.chunk[b].committed <= SizeOf(s, b)
    BY UsedChunk
  <2> QED
    BY <2>1
<1>2. /\ Whole(t, 0) /\ Untouched(s, t, {b}) /\ InUse(t) = InUse(s)
      /\ t.chunk[b].used = used + size /\ t.data = s.data \cup Words(p, size)
      /\ Words(p, size) \subseteq Words(b, SizeOf(s, b))
  <2>1. size \in Nat
    OBVIOUS
  <2>2. Whole(t, 0) /\ Stored(s, t, b, size)
    BY <2>1, BumpWhole
  <2> QED
    BY <2>2 DEF Stored
<1> HIDE DEF p, used
<1>3. p \in Addresses
  BY <1>1, <1>2, UsedAddresses, FirstWord
<1> QED
  BY <1>1, <1>2, <1>3 DEF Put, p, used

\* They are a new block of those who have their blocks in the chunks C and in
\* this one.
LEMMA NewBlock ==
  ASSUME NEW s, Whole(s, 0), NEW b \in InUse(s), NEW C, C \subseteq InUse(s),
         NEW f \in BlockMaps, Packed(s, C, f), NEW size \in Nat \ {0},
         s.chunk[b].used + size <= s.chunk[b].committed, NEW t, t = Bump(s, b, size)
  PROVE  /\ b + s.chunk[b].used \notin DOMAIN f
         /\ Packed(t, C \cup {b}, With(f, b + s.chunk[b].used, size))
<1> DEFINE used == s.chunk[b].used
           p    == b + used
<1>1. /\ b \in Nat /\ used \in Nat /\ p \in Nat /\ used + size <= SizeOf(s, b)
      /\ Untouched(s, t, {b}) /\ t.chunk[b].used = used + size
      /\ t.data = s.data \cup Words(p, size)
  <2>1. Put(s, t, b, size)
    BY NewWords
  <2> QED
    BY <2>1 DEF Put
<1> HIDE DEF p, used
<1>2. Packed(t, C \cup {b}, f)
  <2>1. ASSUME NEW d \in C
        PROVE  Words(d, s.chunk[d].used) \subseteq Words(d, t.chunk[d].used)
    <3>1. CASE d = b
      BY <1>1, <3>1 DEF Words, used
    <3>2. CASE d # b
      BY <1>1, <3>2 DEF Untouched
    <3> QED
      BY <3>1, <3>2
  <2>2. s.data \subseteq t.data
    BY <1>1
  <2> QED
    BY <2>1, <2>2, PackedStays
<1>3. Within(t, C \cup {b}, p, size)
  <2>1. Words(p, size) \subseteq Words(b, used + size)
    BY <1>1 DEF Words, p
  <2> QED
    BY <1>1, <2>1 DEF Within
<1>4. ASSUME NEW q \in DOMAIN f
      PROVE  Words(q, f[q]) \cap Words(p, size) = {}
  <2>1. PICK d \in C : Words(q, f[q]) \subseteq Words(d, s.chunk[d].used)
    BY DEF Packed, Within
  <2>2. Words(p, size) \cap Words(d, s.chunk[d].used) = {}
    BY <1>1, FreshWords DEF p, used
  <2> QED
    BY <2>1, <2>2
<1>5. p \notin DOMAIN f /\ Packed(t, C \cup {b}, With(f, p, size))
  BY <1>1, <1>2, <1>3, <1>4, PackedMore
<1> QED
  BY <1>5 DEF p, used

\* Where a block is that a loader holds.
LEMMA LivePlace ==
  ASSUME AInv, NEW c \in Arenas, NEW q \in DOMAIN arena[c].live
  PROVE  \E d \in Own(arena[c]) :
           d \in InUse(ctx) /\ Words(q, arena[c].live[q]) \subseteq Words(d, ctx.chunk[d].used)
<1>1. q \in DOMAIN BlocksOf(arena[c]) /\ BlocksOf(arena[c])[q] = arena[c].live[q]
  BY BlocksOfArena DEF AInv
<1> QED
  BY <1>1, BlockPlace

\* From ctx to s nothing changes but levels and commit lines of the chunks of
\* arena a.
Prepared(s, a) ==
  /\ Whole(s, 0) /\ InUse(s) = InUse(ctx) /\ s.data = ctx.data
  /\ Untouched(ctx, s, Own(arena[a]))
  /\ \A d \in InUse(ctx) : s.chunk[d].used = ctx.chunk[d].used

\* If it is the current chunk that changes.
LEMMA CurrentPrepared ==
  ASSUME AInv, NEW a \in Arenas, arena[a].chunks # <<>>, NEW s, Whole(s, 0),
         InUse(s) = InUse(ctx), s.data = ctx.data, Untouched(ctx, s, {Current(a)}),
         s.chunk[Current(a)].used = ctx.chunk[Current(a)].used
  PROVE  Prepared(s, a)
<1>1. Current(a) \in Own(arena[a])
  BY ArenaFacts DEF Current, AInv
<1> QED
  BY <1>1 DEF Prepared, Untouched

\* An arena that has a current chunk.
LEMMA CurrentChunk ==
  ASSUME AInv, NEW a \in Arenas, arena[a].chunks # <<>>, NEW s, Prepared(s, a)
  PROVE  Current(a) \in Range(arena[a].chunks) /\ Current(a) \in InUse(s)
<1>1. Whole(ctx, 0) /\ ArenaSound(ctx, arena[a])
  BY DEF AInv
<1>2. /\ Current(a) \in Range(arena[a].chunks)
      /\ Range(arena[a].chunks) \subseteq Own(arena[a]) /\ Own(arena[a]) \subseteq InUse(ctx)
  BY <1>1, ArenaFacts DEF Current
<1> QED
  BY <1>2 DEF Prepared

\* The blocks are where they were.
LEMMA PreparedPacked ==
  ASSUME AInv, NEW a \in Arenas, NEW s, Prepared(s, a)
  PROVE  Packed(s, Range(arena[a].chunks), BlocksOf(arena[a]))
<1>1. /\ Packed(ctx, Range(arena[a].chunks), BlocksOf(arena[a]))
      /\ Range(arena[a].chunks) \subseteq InUse(ctx)
  BY ArenaFacts DEF AInv, ArenaSound
<1>2. /\ \A d \in Range(arena[a].chunks) : s.chunk[d].used = ctx.chunk[d].used
      /\ s.data = ctx.data
  BY <1>1 DEF Prepared
<1> QED
  BY <1>1, <1>2, PackedStays

\* The block that is served was no part of any other.
LEMMA ServeSound ==
  ASSUME AInv, NEW a \in Arenas, arena[a].chunks # <<>>,
         arena[a].pc \in {"idle", "enlarge", "commit"},
         NEW s, Prepared(s, a), NEW size \in RawSizes,
         s.chunk[Current(a)].used + size <= s.chunk[Current(a)].committed,
         Serve(a, s, Current(a), size)
  PROVE  AInv' /\ \E p \in Addresses : Promise!AllocateBlock(a, p, size)
<1> DEFINE r    == arena[a]
           b    == Current(a)
           C    == Range(r.chunks)
           p    == b + s.chunk[b].used
           x    == [r EXCEPT !.pc = "idle", !.size = 0, !.live = With(@, p, size)]
<1>1. Whole(ctx, 0) /\ ArenaSound(ctx, r) /\ Whole(s, 0) /\ arena \in [Arenas -> ArenaType]
  BY DEF AInv, Prepared
<1>2. ctx' = Bump(s, b, size) /\ arena' = [arena EXCEPT ![a] = x]
  BY <1>1 DEF Serve
<1>3. /\ b \in C /\ b \in InUse(s) /\ InUse(s) = InUse(ctx)
      /\ s.chunk[b].used = ctx.chunk[b].used /\ s.data = ctx.data
  BY CurrentChunk DEF Prepared
<1>4. /\ r \in ArenaType /\ r.live \in BlockMaps /\ C \subseteq Own(r) /\ C \subseteq InUse(s)
      /\ Own(r) \subseteq InUse(ctx)
      /\ BlocksOf(r) \in BlockMaps /\ DOMAIN BlocksOf(r) = DOMAIN r.live \cup DOMAIN r.free
  BY <1>1, <1>3, ArenaFacts, BlocksOfArena
<1>5. /\ size \in Nat \ {0} /\ Packed(s, C, BlocksOf(r))
      /\ s.chunk[b].used + size <= s.chunk[b].committed
  BY RawSizesFit, PreparedPacked
<1>6. /\ Whole(ctx', 0) /\ Untouched(s, ctx', {b}) /\ InUse(ctx') = InUse(s)
      /\ s.data \subseteq ctx'.data /\ p \in Addresses /\ p \in Nat
      /\ ctx'.chunk[b].used = s.chunk[b].used + size
  <2>1. Put(s, ctx', b, size)
    BY <1>1, <1>2, <1>3, <1>5, NewWords
  <2> QED
    BY <2>1 DEF Put
<1>7. p \notin DOMAIN BlocksOf(r) /\ Packed(ctx', C \cup {b}, With(BlocksOf(r), p, size))
  <2> HIDE DEF r, b, C, x
  <2> QED
    BY <1>1, <1>2, <1>3, <1>4, <1>5, NewBlock
<1> HIDE DEF p
<1>8. C \cup {b} = C
  BY <1>3
<1>9. Untouched(ctx, ctx', Own(r))
  BY <1>3, <1>4, <1>6, UntouchedTwice DEF Prepared
<1>10. /\ x.pc = "idle" /\ x.chunks = r.chunks /\ x.taken = r.taken /\ x.free = r.free
      /\ x.live = With(r.live, p, size) /\ x.size = 0 /\ x.returned = r.returned
      /\ x \in ArenaType /\ DOMAIN x.live = DOMAIN r.live \cup {p}
  <2>1. With(r.live, p, size) \in BlockMaps /\ DOMAIN With(r.live, p, size) = DOMAIN r.live \cup {p}
    <3>1. r.live \in BlockMaps /\ p \in Nat /\ size \in Nat \ {0}
      BY <1>4, <1>5, <1>6
    <3> HIDE DEF r, x
    <3>2. OneMore(r.live, With(r.live, p, size), p, size)
      BY <3>1, WithBlock
    <3> QED
      BY <3>2 DEF OneMore
  <2> QED
    BY <1>4, <2>1 DEF ArenaType, Places
<1>11. BlocksOf(x) = With(BlocksOf(r), p, size)
  BY <1>4, <1>7, <1>10 DEF BlocksOf, With
<1>12. Own(x) = Own(r)
  BY <1>10 DEF Own
<1>13. ArenaSound(ctx', x)
  <2>1. Placed(x)
    BY <1>1, <1>10 DEF ArenaSound, Placed
  <2>2. Checked(ctx', x)
    BY <1>10 DEF Checked
  <2>3. DOMAIN x.live \cap DOMAIN x.free = {}
    BY <1>1, <1>4, <1>7, <1>10 DEF ArenaSound
  <2>4. IsInjective(x.chunks) /\ x.taken \notin Range(x.chunks) /\ Own(x) \subseteq InUse(ctx')
    BY <1>1, <1>3, <1>6, <1>10, <1>12 DEF ArenaSound
  <2> QED
    BY <1>7, <1>8, <1>10, <1>11, <2>1, <2>2, <2>3, <2>4 DEF ArenaSound
<1> HIDE DEF x
<1>14. AInv'
  <2>1. Owns(ctx, r) /\ Owns(ctx', x)
    BY <1>1, <1>6, <1>13, SoundOwns
  <2>2. UsedBy(ctx', x) = UsedBy(ctx, r) + size
    BY <1>3, <1>4, <1>5, <1>6, <1>10, <1>12, <2>1, UsedMore DEF Prepared, Untouched
  <2>3. usedWords' = usedWords + size
    BY DEF Serve
  <2>4. usedWords' = usedWords + UsedBy(ctx', x) - UsedBy(ctx, r)
    BY <1>5, <2>1, <2>2, <2>3, OwnUsed
  <2> QED
    BY <1>2, <1>3, <1>4, <1>6, <1>9, <1>12, <1>13, <2>4, StepSound
<1>15. Promise!AllocateBlock(a, p, size)
  <2>1. s.chunk[b].used + size <= SizeOf(s, b) /\ b \in InUse(ctx) /\ size \in Nat
    <3>1. /\ s.chunk[b].used \in Nat /\ s.chunk[b].committed \in Nat
          /\ SizeOf(s, b) \in Nat /\ s.chunk[b].committed <= SizeOf(s, b)
      BY <1>1, <1>3, UsedChunk
    <3> QED
      BY <1>3, <1>5, <3>1
  <2>2. \A c \in InUse(s) : Words(p, size) \cap Words(c, s.chunk[c].used) = {}
    BY <1>1, <1>3, <2>1, FreshWords DEF p
  <2>3. ASSUME NEW c \in Arenas, NEW q \in DOMAIN arena[c].live
        PROVE  Words(q, arena[c].live[q]) \cap Words(p, size) = {}
    <3>1. PICK d \in InUse(ctx) : Words(q, arena[c].live[q]) \subseteq Words(d, ctx.chunk[d].used)
      BY <2>3, LivePlace
    <3> QED
      BY <1>3, <2>2, <3>1 DEF Prepared
  <2> QED
    BY <1>2, <1>6, <1>10, <2>3, HandsOut
<1> QED
  BY <1>6, <1>14, <1>15

\* What the loaders hold.
Held == [a \in Arenas |-> arena[a].live]

\* A step that shows in no arena, or as one of the promise.
Faithful == AInv' /\ [Promise!Next]_Held

\* A block that is handed out.
LEMMA ServeFaithful ==
  ASSUME AInv', NEW a \in Arenas, NEW size \in RawSizes,
         \E p \in Addresses : Promise!AllocateBlock(a, p, size)
  PROVE  Faithful
<1>1. Promise!Next
  BY DEF Promise!Next, RawSizes
<1> QED
  BY <1>1 DEF Faithful

\* No loader's blocks change.
LEMMA LivesStay ==
  ASSUME AInv, NEW a \in Arenas, NEW x, arena' = [arena EXCEPT ![a] = x], x.live = arena[a].live
  PROVE  UNCHANGED Held
<1>1. DOMAIN arena = Arenas
  BY DEF AInv
<1>2. \A c \in Arenas : arena'[c].live = arena[c].live
  BY <1>1
<1> QED
  BY <1>2 DEF Held

\* The context is prepared for a while nothing happens to it.
LEMMA AlwaysPrepared ==
  ASSUME AInv, NEW a \in Arenas
  PROVE  Prepared(ctx, a)
BY DEF AInv, Prepared, Untouched

\* Allocation goes on elsewhere, having found what it relies on.
LEMMA GotoSound ==
  ASSUME AInv, NEW a \in Arenas, arena[a].pc \notin {"taken", "dying"},
         NEW s, Prepared(s, a), ctx' = s,
         NEW place \in {"idle", "enlarge", "commit", "new"}, NEW n \in Nat,
         place # "idle" => n \in RawSizes,
         place \in {"enlarge", "commit"} => arena[a].chunks # <<>>,
         Checked(s, Moved(arena[a], place, n)), Goto(a, place, n), UNCHANGED usedWords
  PROVE  Faithful
<1> DEFINE r == arena[a]
           x == Moved(r, place, n)
<1>1. Whole(ctx, 0) /\ ArenaSound(ctx, r) /\ Whole(s, 0) /\ InUse(s) = InUse(ctx) /\ s.data = ctx.data
  BY DEF AInv, Prepared
<1>2. /\ r \in ArenaType /\ Own(r) \subseteq InUse(ctx) /\ Range(r.chunks) \subseteq Own(r)
      /\ arena \in [Arenas -> ArenaType]
  BY <1>1, ArenaFacts DEF AInv
<1>3. arena' = [arena EXCEPT ![a] = x]
  BY <1>2 DEF Goto, Moved
<1>4. /\ x \in ArenaType /\ x.pc = place /\ x.size = n /\ x.chunks = r.chunks
      /\ x.taken = r.taken /\ x.live = r.live /\ x.free = r.free
      /\ x.returned = r.returned /\ Own(x) = Own(r) /\ BlocksOf(x) = BlocksOf(r)
  <2>1. place \in Places
    BY DEF Places
  <2> QED
    BY <1>2, <2>1, MovedFacts
<1>5. Checked(s, x)
  OBVIOUS
<1> HIDE DEF x
<1>6. Packed(s, Range(r.chunks), BlocksOf(r))
  BY PreparedPacked
<1>7. Placed(x)
  BY <1>1, <1>4 DEF ArenaSound, Placed
<1>8. ArenaSound(s, x)
  BY <1>1, <1>4, <1>5, <1>6, <1>7 DEF ArenaSound
<1>9. Untouched(ctx, s, Own(r))
  BY DEF Prepared
<1>10. AInv'
  <2>1. Owns(ctx, r) /\ Owns(s, x) /\ r.returned \in Int
    BY <1>1, <1>8, SoundOwns DEF Owns
  <2>2. UsedBy(s, x) = UsedBy(ctx, r) + x.returned - r.returned
    BY <1>2, <1>4, <2>1, UsedSame DEF Prepared
  <2>3. usedWords' = usedWords + UsedBy(s, x) - UsedBy(ctx, r)
    <3>1. UsedBy(s, x) = UsedBy(ctx, r) /\ UsedBy(ctx, r) \in Int /\ usedWords \in Int
      BY <1>4, <2>1, <2>2, OwnUsed, WordsCounted
    <3> QED
      BY <3>1
  <2> QED
    BY <1>1, <1>2, <1>3, <1>4, <1>8, <1>9, <2>3, StepSound
<1>11. UNCHANGED Held
  BY <1>3, <1>4, LivesStay
<1> QED
  BY <1>10, <1>11 DEF Faithful

\* The current chunk has the room: it is used, or committed further.
LEMMA UseCurrentSound ==
  ASSUME AInv, NEW a \in Arenas, arena[a].chunks # <<>>, arena[a].pc \in {"idle", "enlarge"},
         NEW s, Prepared(s, a), NEW size \in RawSizes,
         s.chunk[Current(a)].used + size <= SizeOf(s, Current(a)), UseCurrent(a, s, size)
  PROVE  Faithful
<1> DEFINE c == s.chunk[Current(a)]
<1>1. CASE c.used + size <= c.committed
  <2>1. Serve(a, s, Current(a), size)
    BY <1>1 DEF UseCurrent
  <2>2. AInv' /\ \E p \in Addresses : Promise!AllocateBlock(a, p, size)
    BY <1>1, <2>1, ServeSound
  <2> QED
    BY <2>2, ServeFaithful
<1>2. CASE ~(c.used + size <= c.committed)
  <2>1. Goto(a, "commit", size) /\ ctx' = s /\ usedWords' = usedWords
    BY <1>2 DEF UseCurrent
  <2>2. /\ c.used \in Nat /\ c.committed \in Nat /\ size \in Nat
        /\ arena[a] \in ArenaType
    <3>1. Current(a) \in InUse(s) /\ Whole(s, 0) /\ arena[a] \in ArenaType
      BY CurrentChunk DEF Prepared, AInv, ArenaSound
    <3>2. c.used \in Nat /\ c.committed \in Nat
      BY <3>1, UsedChunk
    <3> QED
      BY <3>1, <3>2, RawSizesFit
  <2>3. c.used + size \in (c.committed + 1)..WordSize[c.level]
    <3>1. WordSize[c.level] = SizeOf(s, Current(a))
      BY DEF SizeOf
    <3>2. SizeOf(s, Current(a)) \in Nat
      BY CurrentChunk, UsedChunk DEF Prepared
    <3>3. c.used \in Nat /\ c.committed \in Nat /\ size \in Nat
      BY <2>2
    <3>4. c.used + size > c.committed /\ c.used + size <= SizeOf(s, Current(a))
      BY <1>2, <3>3
    <3> HIDE DEF c
    <3> QED
      BY <3>1, <3>2, <3>3, <3>4
  <2>4. Checked(s, Moved(arena[a], "commit", size))
    <3> DEFINE x == Moved(arena[a], "commit", size)
    <3>1. x.pc = "commit" /\ x.size = size /\ x.chunks = arena[a].chunks
      <4>1. arena[a] \in ArenaType /\ "commit" \in Places /\ size \in Nat
        BY <2>2 DEF Places
      <4> QED
        BY <4>1, MovedFacts
    <3> HIDE DEF x
    <3>2. Checked(s, x)
      BY <2>3, <3>1 DEF Checked, Current
    <3> QED
      BY <3>2 DEF x
  <2> QED
    BY <2>1, <2>2, <2>4, GotoSound
<1> QED
  BY <1>1, <1>2

\* attempt_enlarge_current_chunk has checked that the chunk, twice as large,
\* has the room.
LEMMA RoomWhenLarger ==
  ASSUME AInv, NEW a \in Arenas, arena[a].chunks # <<>>, NEW size \in RawSizes,
         ~(FreeWords(ctx, Current(a)) >= size), MayEnlarge(a, size)
  PROVE  Checked(ctx, Moved(arena[a], "enlarge", size))
<1> DEFINE b == Current(a)
           l == ctx.chunk[b].level
           n == ctx.chunk[b].used + size
           x == Moved(arena[a], "enlarge", size)
<1>1. /\ b \in InUse(ctx) /\ Whole(ctx, 0) /\ arena[a] \in ArenaType
  BY CurrentChunk, AlwaysPrepared DEF Prepared, AInv, ArenaSound
<1>2. ctx.chunk[b].used \in Nat /\ l \in Levels /\ size \in Nat /\ n \in Nat
  <2>1. ctx.chunk[b].used \in Nat /\ l \in Levels
    BY <1>1, UsedChunk
  <2>2. size \in Nat
    BY RawSizesFit
  <2> QED
    BY <2>1, <2>2
<1>3. /\ l # RootLevel /\ n <= WordSize[RootLevel] /\ LevelFitting(n) >= l - 1 /\ IsLeader(b, l)
  BY DEF MayEnlarge
<1>4. n > WordSize[l]
  <2>1. WordSize[l] \in Nat /\ ~(WordSize[l] - ctx.chunk[b].used >= size)
    BY <1>2, SizesPositive DEF FreeWords, SizeOf
  <2> QED
    BY <1>2, <2>1
<1> HIDE DEF n, l
<1>5. n <= WordSize[l - 1] /\ WordSize[l - 1] \in Nat /\ WordSize[l] \in Nat
  <2>1. LevelFitting(n) \in Levels /\ n <= WordSize[LevelFitting(n)]
    BY <1>2, <1>3, FittingLevel
  <2>2. l - 1 \in Levels
    BY <1>2, <1>3, Halving
  <2>3. WordSize[LevelFitting(n)] <= WordSize[l - 1]
    BY <1>3, <2>1, <2>2, SizesFall
  <2>4. WordSize[LevelFitting(n)] \in Nat /\ WordSize[l - 1] \in Nat /\ WordSize[l] \in Nat
    BY <1>2, <2>1, <2>2, SizesPositive
  <2> QED
    BY <1>2, <2>1, <2>3, <2>4
<1>6. n \in (WordSize[l] + 1)..WordSize[l - 1]
  BY <1>2, <1>4, <1>5
<1>7. x.pc = "enlarge" /\ x.size = size /\ x.chunks = arena[a].chunks
  <2>1. "enlarge" \in Places
    BY DEF Places
  <2> QED
    BY <1>1, <1>2, <2>1, MovedFacts
<1> HIDE DEF x
<1>8. Checked(ctx, x)
  BY <1>3, <1>6, <1>7 DEF Checked, Current, n, l
<1> QED
  BY <1>8 DEF x

\* A block from the current chunk, or the way to one.
LEMMA FromCurrentSound ==
  ASSUME AInv, NEW a \in Arenas, NEW size \in RawSizes, arena[a].pc = "idle",
         FromCurrentChunk(a, size)
  PROVE  Faithful
<1>1. Prepared(ctx, a) /\ arena[a] \in ArenaType
  BY AlwaysPrepared DEF AInv
<1>2. size \in Nat
  BY RawSizesFit
<1>3. ASSUME Goto(a, "new", size), ctx' = ctx, usedWords' = usedWords
      PROVE  Faithful
  <2>1. Checked(ctx, Moved(arena[a], "new", size))
    <3>1. Moved(arena[a], "new", size).pc = "new"
      <4>1. "new" \in Places
        BY DEF Places
      <4> QED
        BY <1>1, <1>2, <4>1, MovedFacts
    <3> QED
      BY <3>1 DEF Checked
  <2> QED
    BY <1>1, <1>2, <1>3, <2>1, GotoSound
<1>4. CASE arena[a].chunks = <<>>
  BY <1>3, <1>4 DEF FromCurrentChunk
<1>5. CASE arena[a].chunks # <<>> /\ FreeWords(ctx, Current(a)) >= size
  <2>1. UseCurrent(a, ctx, size)
    BY <1>5 DEF FromCurrentChunk
  <2>2. ctx.chunk[Current(a)].used + size <= SizeOf(ctx, Current(a))
    <3>1. Current(a) \in InUse(ctx) /\ Whole(ctx, 0)
      BY <1>1, <1>5, CurrentChunk DEF Prepared
    <3>2. ctx.chunk[Current(a)].used \in Nat /\ SizeOf(ctx, Current(a)) \in Nat
      BY <3>1, UsedChunk
    <3> QED
      BY <1>2, <1>5, <3>2 DEF FreeWords
  <2> QED
    BY <1>1, <1>5, <2>1, <2>2, UseCurrentSound
<1>6. CASE arena[a].chunks # <<>> /\ ~(FreeWords(ctx, Current(a)) >= size)
  <2>1. /\ Goto(a, IF MayEnlarge(a, size) THEN "enlarge" ELSE "new", size) /\ ctx' = ctx
        /\ usedWords' = usedWords
    BY <1>6 DEF FromCurrentChunk
  <2>2. CASE MayEnlarge(a, size)
    <3>1. Checked(ctx, Moved(arena[a], "enlarge", size))
      BY <1>6, <2>2, RoomWhenLarger
    <3> QED
      BY <1>1, <1>2, <1>6, <2>1, <2>2, <3>1, GotoSound
  <2>3. CASE ~MayEnlarge(a, size)
    BY <1>3, <2>1, <2>3
  <2> QED
    BY <2>2, <2>3
<1> QED
  BY <1>4, <1>5, <1>6

\* The chunk that was found to be the leader of its pair, and to have the room
\* when it is twice as large, still is and has.
LEMMA EnlargeSound ==
  ASSUME AInv, NEW a \in Arenas, EnlargeCurrent(a)
  PROVE  Faithful
<1> DEFINE r == arena[a]
           b == Current(a)
           l == ctx.chunk[b].level
<1>1. /\ r.pc = "enlarge" /\ r.chunks # <<>> /\ r.size \in RawSizes /\ r.size \in Nat
      /\ r \in ArenaType /\ Prepared(ctx, a) /\ Whole(ctx, 0) /\ ArenaSound(ctx, r)
  <2>1. r.pc = "enlarge" /\ ArenaSound(ctx, r) /\ Whole(ctx, 0) /\ Prepared(ctx, a)
    BY AlwaysPrepared DEF AInv, EnlargeCurrent
  <2> QED
    BY <2>1, RawSizesFit DEF ArenaSound, Placed
<1>2. l # RootLevel /\ ctx.chunk[b].used + r.size \in (WordSize[l] + 1)..WordSize[l - 1]
  BY <1>1 DEF ArenaSound, Checked, Current
<1>3. b \in InUse(ctx)
  BY <1>1, CurrentChunk
<1>4. CASE CanEnlarge(ctx, b)
  <2> DEFINE s == Enlarge(ctx, b)
  <2>1. UseCurrent(a, s, r.size)
    BY <1>4 DEF EnlargeCurrent
  <2>2. /\ Whole(s, 0) /\ Untouched(ctx, s, {b}) /\ InUse(s) = InUse(ctx) /\ s.data = ctx.data
        /\ s.chunk[b].level = l - 1 /\ s.chunk[b].used = ctx.chunk[b].used
    BY <1>1, <1>3, <1>4, EnlargeWhole
  <2> HIDE DEF s
  <2>3. Prepared(s, a)
    BY <1>1, <2>2, CurrentPrepared
  <2>4. s.chunk[b].used + r.size <= SizeOf(s, b)
    <3>1. SizeOf(s, b) = WordSize[l - 1] /\ l \in Levels
      BY <1>1, <1>3, <2>2, UsedChunk DEF SizeOf
    <3>2. WordSize[l - 1] \in Nat /\ WordSize[l] \in Nat
      BY <1>2, <3>1, Halving, SizesPositive
    <3> QED
      BY <1>2, <2>2, <3>1, <3>2
  <2> QED
    BY <1>1, <2>1, <2>3, <2>4, UseCurrentSound
<1>5. CASE ~CanEnlarge(ctx, b)
  <2>1. Goto(a, "new", r.size) /\ ctx' = ctx /\ usedWords' = usedWords
    BY <1>5 DEF EnlargeCurrent
  <2>2. Checked(ctx, Moved(r, "new", r.size))
    <3>1. Moved(r, "new", r.size).pc = "new"
      <4>1. "new" \in Places
        BY DEF Places
      <4> QED
        BY <1>1, <4>1, MovedFacts
    <3> QED
      BY <3>1 DEF Checked
  <2> QED
    BY <1>1, <2>1, <2>2, GotoSound
<1> QED
  BY <1>4, <1>5

\* The chunk whose room was found uncommitted still has it.
LEMMA CommitSound ==
  ASSUME AInv, NEW a \in Arenas, CommitCurrent(a)
  PROVE  Faithful
<1> DEFINE r    == arena[a]
           b    == Current(a)
           c    == ctx.chunk[b]
           upTo == c.used + r.size
<1>1. /\ r.pc = "commit" /\ r.chunks # <<>> /\ r.size \in RawSizes /\ r.size \in Nat
      /\ r \in ArenaType /\ Prepared(ctx, a) /\ Whole(ctx, 0) /\ ArenaSound(ctx, r)
  <2>1. r.pc = "commit" /\ ArenaSound(ctx, r) /\ Whole(ctx, 0) /\ Prepared(ctx, a)
    BY AlwaysPrepared DEF AInv, CommitCurrent
  <2> QED
    BY <2>1, RawSizesFit DEF ArenaSound, Placed
<1>2. upTo \in (c.committed + 1)..WordSize[c.level]
  BY <1>1 DEF ArenaSound, Checked, Current
<1>3. /\ b \in InUse(ctx) /\ c.used \in Nat /\ c.committed \in Nat /\ c.level \in Levels
      /\ WordSize[c.level] \in Nat
  <2>1. b \in InUse(ctx)
    BY <1>1, CurrentChunk
  <2>2. c.used \in Nat /\ c.committed \in Nat /\ c.level \in Levels
    BY <1>1, <2>1, UsedChunk
  <2> QED
    BY <2>1, <2>2, SizesPositive
<1>4. upTo \in Nat /\ c.committed <= upTo /\ upTo <= WordSize[c.level]
  BY <1>1, <1>2, <1>3
<1>5. CASE CanCommit(ctx, b, upTo)
  <2> DEFINE s == CommitUpTo(ctx, b, upTo)
  <2>1. Serve(a, s, b, r.size)
    BY <1>5 DEF CommitCurrent
  <2>2. /\ Whole(s, 0) /\ Keeps(ctx, s, {}) /\ Untouched(ctx, s, {b}) /\ s.data = ctx.data
        /\ s.chunk[b].committed = CommitTo(ctx, b, upTo)
    <3> HIDE DEF upTo
    <3> QED
      BY <1>1, <1>3, <1>4, <1>5, CommitWhole
  <2> HIDE DEF s
  <2>3. InUse(s) = InUse(ctx) /\ s.chunk[b].used = c.used
    BY <1>3, <2>2 DEF Keeps
  <2>4. Prepared(s, a)
    BY <1>1, <2>2, <2>3, CurrentPrepared
  <2>5. upTo <= s.chunk[b].committed
    <3> HIDE DEF upTo
    <3> QED
      BY <1>3, <1>4, <2>2, CommitLineFacts DEF CommitTo
  <2> QED
    BY <1>1, <2>1, <2>3, <2>4, <2>5, ServeSound, ServeFaithful
<1>6. CASE ~CanCommit(ctx, b, upTo)
  <2>1. Goto(a, "new", r.size) /\ ctx' = ctx /\ usedWords' = usedWords
    BY <1>6 DEF CommitCurrent
  <2>2. Checked(ctx, Moved(r, "new", r.size))
    <3>1. Moved(r, "new", r.size).pc = "new"
      <4>1. "new" \in Places
        BY DEF Places
      <4> QED
        BY <1>1, <4>1, MovedFacts
    <3> QED
      BY <3>1 DEF Checked
  <2> QED
    BY <1>1, <2>1, <2>2, GotoSound
<1> QED
  BY <1>5, <1>6

-----------------------------------------------------------------------------
(* Free blocks.                                                            *)

\* What remains of a free block stays, if it is large enough.
LEMMA RemainderBlocks ==
  ASSUME NEW f \in BlockMaps, NEW p \in DOMAIN f, NEW size \in Nat \ {0}, f[p] >= size,
         p + size \notin DOMAIN f
  PROVE  LET g == Remainder(f, p, size) IN
         /\ g \in BlockMaps
         /\ \A q \in DOMAIN f \ {p} : q \in DOMAIN g /\ g[q] = f[q]
         /\ \/ DOMAIN g = DOMAIN f \ {p}
            \/ DOMAIN g = (DOMAIN f \ {p}) \cup {p + size} /\ g[p + size] = f[p] - size
               /\ f[p] > size
<1> DEFINE h == Without(f, p)
           n == f[p] - size
<1>1. p \in Nat /\ f[p] \in Nat /\ MinBlock \in Nat \ {0}
  <2>1. MinBlock \in Nat \ {0}
    BY ArenaAssumption, NodeSize
  <2> QED
    BY <2>1, BlockMap
<1>2. h \in BlockMaps /\ DOMAIN h = DOMAIN f \ {p} /\ \A q \in DOMAIN f \ {p} : h[q] = f[q]
  BY WithoutBlock
<1>3. CASE n > MinBlock
  <2> DEFINE e == p + size
             g == With(h, e, n)
  <2>1. n \in Nat \ {0} /\ e \in Nat /\ f[p] > size
    BY <1>1, <1>3
  <2>2. Remainder(f, p, size) = g
    BY <1>3 DEF Remainder
  <2> HIDE DEF h, n, e
  <2>3. /\ g \in BlockMaps /\ DOMAIN g = DOMAIN h \cup {e} /\ g[e] = n
        /\ \A q \in DOMAIN h : q # e => g[q] = h[q]
    <3>1. h \in BlockMaps /\ e \in Nat /\ n \in Nat \ {0}
      BY <1>2, <2>1
    <3>2. OneMore(h, g, e, n)
      BY <3>1, WithBlock
    <3> HIDE DEF g
    <3> QED
      BY <3>2 DEF OneMore
  <2> HIDE DEF g
  <2>4. e \notin DOMAIN f
    BY DEF e
  <2> QED
    BY <1>2, <2>1, <2>2, <2>3, <2>4 DEF n, e
<1>4. CASE ~(n > MinBlock)
  <2>1. Remainder(f, p, size) = h
    BY <1>4 DEF Remainder
  <2> HIDE DEF h
  <2> QED
    BY <1>2, <2>1
<1> QED
  BY <1>3, <1>4

\* A block from the free ones is a piece of one of them, and so is what remains.
LEMMA FromFreeSound ==
  ASSUME AInv, NEW a \in Arenas, NEW size \in RawSizes, arena[a].pc = "idle",
         FromFreeBlocks(a, size)
  PROVE  Faithful
<1> DEFINE r == arena[a]
           B == BlocksOf(r)
           C == Range(r.chunks)
<1>1. /\ Whole(ctx, 0) /\ ArenaSound(ctx, r) /\ arena \in [Arenas -> ArenaType]
      /\ r \in ArenaType /\ r.live \in BlockMaps /\ r.free \in BlockMaps
      /\ Own(r) \subseteq InUse(ctx)
  BY ArenaFacts DEF AInv
<1>2. /\ B \in BlockMaps /\ DOMAIN B = DOMAIN r.live \cup DOMAIN r.free
      /\ \A q \in DOMAIN r.live : B[q] = r.live[q]
      /\ \A q \in DOMAIN r.free : B[q] = r.free[q]
      /\ DOMAIN r.live \cap DOMAIN r.free = {} /\ Packed(ctx, C, B)
  <2>1. DOMAIN r.live \cap DOMAIN r.free = {} /\ Packed(ctx, C, B)
    BY <1>1 DEF ArenaSound
  <2> QED
    BY <1>1, <2>1, BlocksOfArena
<1>3. PICK p \in DOMAIN r.free :
        /\ r.free[p] >= size
        /\ arena' = [arena EXCEPT ![a].live = With(@, p, size), ![a].free = Remainder(@, p, size)]
        /\ ctx' = ctx /\ usedWords' = usedWords
  BY DEF FromFreeBlocks
<1> DEFINE n == r.free[p]
           l == With(r.live, p, size)
           g == Remainder(r.free, p, size)
           x == [r EXCEPT !.live = l, !.free = g]
<1>4. /\ size \in Nat \ {0} /\ p \in Nat /\ n \in Nat /\ p \in DOMAIN B /\ B[p] = n
  <2>1. size \in Nat \ {0}
    BY RawSizesFit
  <2>2. p \in Nat /\ n \in Nat
    BY <1>1, BlockMap
  <2> QED
    BY <1>2, <2>1, <2>2
<1>5. n >= size /\ arena' = [arena EXCEPT ![a] = x]
  BY <1>1, <1>3
<1> HIDE DEF n
<1>6. n > size => p + size \notin DOMAIN B
  <2> SUFFICES ASSUME n > size, p + size \in DOMAIN B
               PROVE  FALSE
    OBVIOUS
  <2>1. p + size # p /\ p + size \in Words(p, n) /\ p + size \in Nat
    BY <1>4 DEF Words
  <2>2. B[p + size] \in Nat \ {0}
    BY <1>2, BlockMap
  <2>3. p + size \in Words(p + size, B[p + size])
    BY <2>1, <2>2, FirstWord
  <2>4. Words(p + size, B[p + size]) \cap Words(p, B[p]) = {}
    BY <1>2, <1>4, <2>1 DEF Packed
  <2> QED
    BY <1>4, <2>1, <2>3, <2>4
<1>7. l \in BlockMaps /\ DOMAIN l = DOMAIN r.live \cup {p} /\ l[p] = size
      /\ \A q \in DOMAIN r.live : q # p => l[q] = r.live[q]
  <2>1. r.live \in BlockMaps
    BY <1>1
  <2> HIDE DEF r
  <2>2. OneMore(r.live, l, p, size)
    BY <1>4, <2>1, WithBlock
  <2> HIDE DEF l
  <2> QED
    BY <2>2 DEF OneMore
<1>8. /\ g \in BlockMaps
      /\ \A q \in DOMAIN r.free \ {p} : q \in DOMAIN g /\ g[q] = r.free[q]
      /\ \/ DOMAIN g = DOMAIN r.free \ {p}
         \/ /\ DOMAIN g = (DOMAIN r.free \ {p}) \cup {p + size} /\ g[p + size] = n - size
            /\ n > size
  <2>1. CASE n > size
    <3>1. p + size \notin DOMAIN r.free
      BY <1>2, <1>6, <2>1
    <3>2. r.free \in BlockMaps /\ r.free[p] >= size
      BY <1>1, <1>3
    <3> HIDE DEF r
    <3> QED
      BY <1>4, <3>1, <3>2, RemainderBlocks DEF n
  <2>2. CASE ~(n > size)
    <3>1. MinBlock \in Nat \ {0}
      BY ArenaAssumption, NodeSize
    <3>2. ~(n - size > MinBlock)
      BY <1>4, <1>5, <2>2, <3>1
    <3>3. g = Without(r.free, p)
      BY <3>2 DEF Remainder, n
    <3>4. r.free \in BlockMaps
      BY <1>1
    <3> HIDE DEF r, g
    <3> QED
      BY <3>3, <3>4, WithoutBlock
  <2> QED
    BY <2>1, <2>2
<1> HIDE DEF l, g
<1>9. /\ x.pc = "idle" /\ x.chunks = r.chunks /\ x.taken = r.taken /\ x.live = l /\ x.free = g
      /\ x.returned = r.returned /\ x \in ArenaType
  BY <1>1, <1>7, <1>8 DEF ArenaType
<1>10. DOMAIN l \cap DOMAIN g = {}
  <2>1. p \notin DOMAIN r.live /\ p \notin DOMAIN g
    BY <1>2, <1>4, <1>8
  <2>2. DOMAIN g \subseteq DOMAIN r.free \cup {p + size}
    BY <1>8
  <2>3. p + size \in DOMAIN g => p + size \notin DOMAIN r.live
    BY <1>2, <1>6, <1>8
  <2> QED
    BY <1>2, <1>7, <2>1, <2>2, <2>3
<1> DEFINE D == BlocksOf(x)
<1>11. /\ DOMAIN D = DOMAIN l \cup DOMAIN g
       /\ D[p] = size
       /\ \A q \in DOMAIN D : q # p /\ q \in DOMAIN B => D[q] = B[q]
       /\ \A q \in DOMAIN D : q \notin DOMAIN B => q = p + size /\ D[q] = n - size /\ n > size
  <2>1. /\ DOMAIN D = DOMAIN l \cup DOMAIN g
        /\ \A q \in DOMAIN l : D[q] = l[q]
        /\ \A q \in DOMAIN g : D[q] = g[q]
    BY <1>9, <1>10, BlocksOfArena
  <2> HIDE DEF D, x, B
  <2>2. ASSUME NEW q \in DOMAIN D, q # p, q \in DOMAIN B
        PROVE  D[q] = B[q]
    <3>1. CASE q \in DOMAIN l
      BY <1>2, <1>7, <2>1, <2>2, <3>1
    <3>2. CASE q \in DOMAIN g
      <4>1. q \in DOMAIN r.free \ {p}
        BY <1>6, <1>8, <2>2, <3>2
      <4> QED
        BY <1>2, <1>8, <2>1, <3>2, <4>1
    <3> QED
      BY <2>1, <2>2, <3>1, <3>2
  <2>3. ASSUME NEW q \in DOMAIN D, q \notin DOMAIN B
        PROVE  q = p + size /\ D[q] = n - size /\ n > size
    BY <1>2, <1>4, <1>7, <1>8, <2>1, <2>3
  <2> QED
    BY <1>7, <2>1, <2>2, <2>3
<1> HIDE DEF D, x
<1>12. Packed(ctx, C, D)
  <2> DEFINE from == [q \in DOMAIN D |-> IF q \in DOMAIN B THEN q ELSE p]
  <2>1. Words(p, size) \subseteq Words(p, n)
    BY <1>4, <1>5 DEF Words
  <2>2. n > size => /\ Words(p + size, n - size) \subseteq Words(p, n)
                    /\ Words(p + size, n - size) \cap Words(p, size) = {}
    BY <1>4 DEF Words
  <2> HIDE DEF B
  <2>3. ASSUME NEW q \in DOMAIN D
        PROVE  from[q] \in DOMAIN B /\ Words(q, D[q]) \subseteq Words(from[q], B[from[q]])
    BY <1>4, <1>11, <2>1, <2>2, <2>3
  <2>4. ASSUME NEW q \in DOMAIN D, NEW s \in DOMAIN D, q # s, from[q] = from[s]
        PROVE  Words(q, D[q]) \cap Words(s, D[s]) = {}
    <3>1. CASE q \notin DOMAIN B
      <4>1. from[q] = p /\ q = p + size /\ D[q] = n - size /\ n > size
        BY <1>11, <3>1
      <4>2. s = p
        BY <1>11, <2>4, <4>1
      <4> QED
        BY <1>11, <2>2, <4>1, <4>2
    <3>2. CASE s \notin DOMAIN B
      <4>1. from[s] = p /\ s = p + size /\ D[s] = n - size /\ n > size
        BY <1>11, <3>2
      <4>2. q = p
        BY <1>11, <2>4, <4>1
      <4> QED
        BY <1>11, <2>2, <4>1, <4>2
    <3>3. CASE q \in DOMAIN B /\ s \in DOMAIN B
      BY <2>4, <3>3
    <3> QED
      BY <3>1, <3>2, <3>3
  <2> HIDE DEF from
  <2> QED
    BY <1>2, <2>3, <2>4, PackedPieces
<1>13. Own(x) = Own(r)
  BY <1>9 DEF Own
<1>14. ArenaSound(ctx, x)
  <2>1. Placed(x) /\ Checked(ctx, x)
    BY <1>1, <1>9 DEF ArenaSound, Placed, Checked
  <2>2. DOMAIN x.live \cap DOMAIN x.free = {} /\ Packed(ctx, Range(x.chunks), BlocksOf(x))
    BY <1>9, <1>10, <1>12 DEF D
  <2> QED
    BY <1>1, <1>9, <1>13, <2>1, <2>2 DEF ArenaSound
<1>15. AInv'
  <2>1. ctx' = ctx
    BY <1>3
  <2>2. usedWords' = usedWords + x.returned - r.returned
    <3>1. usedWords \in Int /\ r.returned \in Int
      BY <1>1, WordsCounted DEF ArenaType
    <3> QED
      BY <1>3, <1>9, <3>1
  <2> QED
    BY <1>5, <1>13, <1>14, <2>1, <2>2, SameChunks
<1>16. Promise!AllocateBlock(a, p, size) /\ p \in Addresses
  <2>1. PICK d \in Own(r) : d \in InUse(ctx) /\ Words(p, n) \subseteq Words(d, ctx.chunk[d].used)
    BY <1>4, BlockPlace
  <2>2. Words(p, size) \subseteq Words(p, n) /\ p \in Words(p, size)
    BY <1>4, <1>5 DEF Words
  <2>3. p \in Addresses
    <3>1. /\ Words(d, ctx.chunk[d].used) \subseteq Words(d, SizeOf(ctx, d))
          /\ Words(d, SizeOf(ctx, d)) \subseteq Addresses
      BY <1>1, <2>1, UsedChunk, UsedAddresses
    <3> QED
      BY <2>1, <2>2, <3>1
  <2>4. ASSUME NEW c \in Arenas, NEW q \in DOMAIN arena[c].live
        PROVE  Words(q, arena[c].live[q]) \cap Words(p, size) = {}
    <3>1. CASE c = a
      <4>1. q \in DOMAIN B /\ q # p /\ B[q] = r.live[q]
        BY <1>2, <2>4, <3>1
      <4>2. Words(q, B[q]) \cap Words(p, B[p]) = {}
        BY <1>2, <1>4, <4>1 DEF Packed
      <4> QED
        BY <1>4, <2>2, <3>1, <4>1, <4>2
    <3>2. CASE c # a
      <4>1. PICK e \in Own(arena[c]) :
              e \in InUse(ctx) /\ Words(q, arena[c].live[q]) \subseteq Words(e, ctx.chunk[e].used)
        BY <2>4, LivePlace
      <4>2. e # d
        BY <2>1, <3>2, <4>1 DEF AInv, Shared
      <4>3. /\ Words(e, SizeOf(ctx, e)) \cap Words(d, SizeOf(ctx, d)) = {}
            /\ Words(d, ctx.chunk[d].used) \subseteq Words(d, SizeOf(ctx, d))
            /\ Words(e, ctx.chunk[e].used) \subseteq Words(e, SizeOf(ctx, e))
        BY <1>1, <2>1, <4>1, <4>2, UsedApart, UsedChunk
      <4> QED
        BY <2>1, <2>2, <4>1, <4>3
    <3> QED
      BY <3>1, <3>2
  <2>5. x.live = With(arena[a].live, p, size)
    BY <1>9 DEF l
  <2> QED
    BY <1>5, <2>3, <2>4, <2>5, HandsOut
<1> QED
  BY <1>15, <1>16, ServeFaithful

\* MetaspaceArena::allocate
LEMMA AllocateSound ==
  ASSUME AInv, NEW a \in Arenas, NEW request \in Sizes, Allocate(a, request)
  PROVE  Faithful
<1>1. RawSize(request) \in RawSizes /\ arena[a].pc = "idle"
  BY RawSizesFit DEF Allocate
<1>2. FromFreeBlocks(a, RawSize(request)) \/ FromCurrentChunk(a, RawSize(request))
  BY DEF Allocate
<1> QED
  BY <1>1, <1>2, FromFreeSound, FromCurrentSound

-----------------------------------------------------------------------------
(* New chunks.                                                             *)

\* Salvaging touches the current chunk only, and what it leaves as a free block
\* is part of no other.
LEMMA SalvageSound ==
  ASSUME AInv, NEW a \in Arenas, arena[a].pc = "taken"
  PROVE  LET r == arena[a]
             v == Salvage(a)
         IN  /\ Whole(v.ctx, 0) /\ InUse(v.ctx) = InUse(ctx)
             /\ Untouched(ctx, v.ctx, Range(r.chunks))
             /\ ctx.data \subseteq v.ctx.data
             /\ v.free \in BlockMaps /\ DOMAIN r.live \cap DOMAIN v.free = {}
             /\ Packed(v.ctx, Range(r.chunks), BlocksOf([r EXCEPT !.free = v.free]))
             /\ v.used \in Nat /\ UsedBy(v.ctx, r) = UsedBy(ctx, r) + v.used
<1> DEFINE r == arena[a]
           v == Salvage(a)
           B == BlocksOf(r)
           C == Range(r.chunks)
<1>1. /\ Whole(ctx, 0) /\ ArenaSound(ctx, r)
      /\ r \in ArenaType /\ r.live \in BlockMaps /\ r.free \in BlockMaps
      /\ C \subseteq InUse(ctx)
  BY ArenaFacts DEF AInv
<1>2. DOMAIN r.live \cap DOMAIN r.free = {} /\ Packed(ctx, C, B)
  BY <1>1 DEF ArenaSound
<1>3. /\ B \in BlockMaps /\ DOMAIN B = DOMAIN r.live \cup DOMAIN r.free
      /\ \A q \in DOMAIN r.live : B[q] = r.live[q]
      /\ \A q \in DOMAIN r.free : B[q] = r.free[q]
  BY <1>1, <1>2, BlocksOfArena
<1>4. CASE r.chunks = <<>> \/ Unused(Current(a)) <= MinBlock
  <2>1. v = [ctx |-> ctx, free |-> r.free, used |-> 0]
    BY <1>4 DEF Salvage
  <2>2. [r EXCEPT !.free = v.free] = r
    BY <1>1, <2>1 DEF ArenaType
  <2>3. UsedBy(ctx, r) \in Int
    BY <1>1, SoundOwns, OwnUsed
  <2>4. v.ctx = ctx /\ v.free = r.free /\ v.used = 0
    BY <2>1
  <2> HIDE DEF r, v
  <2>5. v.used \in Nat /\ UsedBy(v.ctx, r) = UsedBy(ctx, r) + v.used
    BY <2>3, <2>4
  <2> QED
    BY <1>1, <1>2, <2>2, <2>4, <2>5 DEF Untouched, r, v
<1>5. CASE r.chunks # <<>> /\ ~(Unused(Current(a)) <= MinBlock)
  <2> DEFINE b == Current(a)
             c == ctx.chunk[b]
             n == Unused(b)
             p == b + c.used
             t == Bump(ctx, b, n)
             f == With(r.free, p, n)
             x == [r EXCEPT !.free = f]
  <2>1. v = [ctx |-> t, free |-> f, used |-> n]
    BY <1>5 DEF Salvage
  <2>2. b \in C /\ b \in InUse(ctx)
    BY <1>5, CurrentChunk, AlwaysPrepared
  <2>3. n \in Nat \ {0} /\ c.used + n <= c.committed
    <3>1. c.used \in Nat /\ c.committed \in Nat
      BY <1>1, <2>2, UsedChunk
    <3>2. MinBlock \in Nat
      BY ArenaAssumption, NodeSize
    <3>3. n = c.committed - c.used /\ ~(n <= MinBlock)
      BY <1>5 DEF Unused
    <3> QED
      BY <3>1, <3>2, <3>3
  <2> HIDE DEF n
  <2>4. Put(ctx, t, b, n)
    BY <1>1, <2>2, <2>3, NewWords
  <2>5. p \notin DOMAIN B /\ Packed(t, C \cup {b}, With(B, p, n))
    <3> HIDE DEF r, b, C, B, t
    <3> QED
      BY <1>1, <1>2, <1>3, <2>2, <2>3, NewBlock DEF t
  <2> HIDE DEF t
  <2>6. /\ Whole(t, 0) /\ InUse(t) = InUse(ctx) /\ Untouched(ctx, t, {b})
        /\ ctx.data \subseteq t.data /\ p \in Nat
    BY <2>4 DEF Put
  <2> HIDE DEF p
  <2>7. f \in BlockMaps /\ DOMAIN f = DOMAIN r.free \cup {p}
    <3>1. r.free \in BlockMaps
      BY <1>1
    <3> HIDE DEF r
    <3>2. OneMore(r.free, f, p, n)
      BY <2>3, <2>6, <3>1, WithBlock
    <3> HIDE DEF f
    <3> QED
      BY <3>2 DEF OneMore
  <2>8. x.live = r.live /\ x.free = f /\ BlocksOf(x) = With(B, p, n)
    <3>1. x.live = r.live /\ x.free = f
      BY <1>1 DEF ArenaType
    <3> QED
      BY <1>3, <2>5, <3>1 DEF BlocksOf, With
  <2>9. C \cup {b} = C
    BY <2>2
  <2>10. DOMAIN r.live \cap DOMAIN f = {}
    BY <1>2, <1>3, <2>5, <2>7
  <2> HIDE DEF x, f, b
  <2>11. Packed(t, C, BlocksOf(x)) /\ Untouched(ctx, t, C)
    BY <2>2, <2>5, <2>6, <2>8, <2>9 DEF Untouched
  <2>12. v.ctx = t /\ v.free = f /\ v.used = n /\ [r EXCEPT !.free = v.free] = x
    BY <2>1 DEF x
  <2> HIDE DEF v
  <2>13. UsedBy(t, r) = UsedBy(ctx, r) + n
    <3>1. C \subseteq Own(r)
      BY DEF Own
    <3>2. b \in Own(r) /\ Own(r) \subseteq InUse(ctx)
      BY <1>1, <2>2, <3>1 DEF ArenaSound
    <3>3. Owns(ctx, r) /\ Owns(t, r) /\ n \in Int
      BY <1>1, <2>3, <2>6, SoundOwns DEF Owns
    <3>4. t.chunk[b].used = ctx.chunk[b].used + n
      BY <2>4 DEF Put, b
    <3>5. \A d \in Own(r) \ {b} : t.chunk[d].used = ctx.chunk[d].used
      BY <2>6, <3>2 DEF Untouched
    <3> HIDE DEF r
    <3> QED
      BY <3>2, <3>3, <3>4, <3>5, UsedMore
  <2>14. v.used \in Nat /\ UsedBy(v.ctx, r) = UsedBy(ctx, r) + v.used
    BY <2>3, <2>12, <2>13
  <2> QED
    BY <2>6, <2>7, <2>10, <2>11, <2>12, <2>14 DEF v
<1> QED
  BY <1>4, <1>5

\* The new chunk, and a block from it, are the arena's own.
LEMMA AddNewSound ==
  ASSUME AInv, NEW a \in Arenas, AddNewChunk(a)
  PROVE  Faithful
<1> DEFINE r    == arena[a]
           b    == r.taken
           size == r.size
           C    == Range(r.chunks)
           s    == Salvage(a).ctx
           free == Salvage(a).free
           more == Salvage(a).used
           y    == [r EXCEPT !.free = free]
           p    == b + ctx.chunk[b].used
           x    == [r EXCEPT !.pc = "idle", !.size = 0, !.taken = NoChunk,
                             !.chunks = <<b>> \o @, !.live = With(@, p, size), !.free = free]
<1>1. /\ r.pc = "taken" /\ ctx' = Bump(s, b, size) /\ arena' = [arena EXCEPT ![a] = x]
      /\ arena \in [Arenas -> ArenaType]
  <2>1. arena \in [Arenas -> ArenaType]
    BY DEF AInv
  <2>2. r.pc = "taken" /\ ctx' = Bump(s, b, size)
    BY DEF AddNewChunk
  <2>3. arena' = [arena EXCEPT ![a].pc = "idle", ![a].size = 0, ![a].taken = NoChunk,
                               ![a].chunks = <<b>> \o @, ![a].live = With(@, p, size),
                               ![a].free = free]
    BY DEF AddNewChunk
  <2> HIDE DEF free, p, size, b, y
  <2>4. arena' = [arena EXCEPT ![a] = x]
    BY <2>1, <2>3
  <2> QED
    BY <2>1, <2>2, <2>4
<1>2. /\ Whole(ctx, 0) /\ ArenaSound(ctx, r) /\ r \in ArenaType
      /\ r.chunks \in Seq(Int) /\ r.live \in BlockMaps /\ C \subseteq Own(r) /\ Own(r) \subseteq InUse(ctx)
      /\ b # NoChunk /\ b \in Own(r) /\ b \notin C /\ Own(r) = C \cup {b}
      /\ IsInjective(r.chunks) /\ size \in Nat \ {0} /\ size \in RawSizes
  <2>1. Whole(ctx, 0) /\ ArenaSound(ctx, r)
    BY DEF AInv
  <2>2. b # NoChunk /\ b \notin C /\ size \in RawSizes /\ IsInjective(r.chunks)
    BY <1>1, <2>1 DEF ArenaSound, Placed
  <2>3. Own(r) = C \cup {b}
    BY <2>2 DEF Own
  <2> QED
    BY <2>1, <2>2, <2>3, ArenaFacts, RawSizesFit
<1>3. b \in InUse(ctx) /\ ctx.chunk[b].used = 0 /\ ctx.chunk[b].committed >= size
  BY <1>1, <1>2 DEF ArenaSound, Checked
<1>4. /\ Whole(s, 0) /\ InUse(s) = InUse(ctx) /\ Untouched(ctx, s, C) /\ ctx.data \subseteq s.data
      /\ free \in BlockMaps /\ DOMAIN r.live \cap DOMAIN free = {}
      /\ Packed(s, C, BlocksOf(y))
      /\ more \in Nat /\ UsedBy(s, r) = UsedBy(ctx, r) + more
  BY <1>1, SalvageSound
<1>20. usedWords' = usedWords + more + size
  BY DEF AddNewChunk
<1> HIDE DEF s, free, more
<1>5. s.chunk[b] = ctx.chunk[b]
  BY <1>2, <1>3, <1>4 DEF Untouched
<1>6. s.chunk[b].used + size <= s.chunk[b].committed
  <2>1. ctx.chunk[b].committed \in Nat
    BY <1>2, <1>3, UsedChunk
  <2> QED
    BY <1>2, <1>3, <1>5, <2>1
<1>7. /\ y \in ArenaType /\ y.live = r.live /\ y.free = free
  BY <1>2, <1>4 DEF ArenaType
<1>8. /\ BlocksOf(y) \in BlockMaps /\ DOMAIN BlocksOf(y) = DOMAIN r.live \cup DOMAIN free
  BY <1>7, BlocksOfArena
<1> DEFINE B == BlocksOf(y)
<1>9. /\ Whole(ctx', 0) /\ Untouched(s, ctx', {b}) /\ InUse(ctx') = InUse(ctx)
      /\ s.data \subseteq ctx'.data /\ p \in Addresses /\ p \in Nat
      /\ ctx'.chunk[b].used = s.chunk[b].used + size
  <2>1. Put(s, ctx', b, size)
    BY <1>1, <1>2, <1>3, <1>4, <1>6, NewWords
  <2> QED
    BY <1>4, <1>5, <2>1 DEF Put
<1>10. p \notin DOMAIN B /\ Packed(ctx', C \cup {b}, With(B, p, size))
  <2>1. b \in InUse(s) /\ C \subseteq InUse(s) /\ B \in BlockMaps
    BY <1>2, <1>3, <1>4, <1>8
  <2>2. ctx' = Bump(s, b, size) /\ size \in Nat \ {0}
    BY <1>1, <1>2
  <2>3. p = b + s.chunk[b].used
    BY <1>5
  <2> HIDE DEF r, b, C, B, p, size
  <2>4. /\ b + s.chunk[b].used \notin DOMAIN B
        /\ Packed(ctx', C \cup {b}, With(B, b + s.chunk[b].used, size))
    BY <1>4, <1>6, <2>1, <2>2, NewBlock DEF B
  <2> QED
    BY <2>3, <2>4
<1> HIDE DEF p
<1>11. With(r.live, p, size) \in BlockMaps /\ DOMAIN With(r.live, p, size) = DOMAIN r.live \cup {p}
  <2>1. r.live \in BlockMaps /\ p \in Nat /\ size \in Nat \ {0}
    BY <1>2, <1>9
  <2> HIDE DEF r, size
  <2>2. OneMore(r.live, With(r.live, p, size), p, size)
    BY <2>1, WithBlock
  <2> QED
    BY <2>2 DEF OneMore
<1>12. /\ <<b>> \o r.chunks \in Seq(Int) /\ Range(<<b>> \o r.chunks) = C \cup {b}
       /\ IsInjective(<<b>> \o r.chunks)
  <2>1. b \in Int
    BY <1>2 DEF ArenaType
  <2> HIDE DEF r, b
  <2> QED
    BY <1>2, <2>1, FrontFacts DEF C
<1>13. /\ x.pc = "idle" /\ x.size = 0 /\ x.taken = NoChunk /\ x.chunks = <<b>> \o r.chunks
       /\ x.live = With(r.live, p, size) /\ x.free = free /\ x.returned = r.returned
  BY <1>2 DEF ArenaType
<1>14. x \in ArenaType
  <2>1. "idle" \in Places /\ NoChunk \in Int
    BY DEF Places, NoChunk
  <2> HIDE DEF b, size
  <2> QED
    BY <1>2, <1>4, <1>11, <1>12, <2>1 DEF ArenaType
<1>15. BlocksOf(x) = With(B, p, size)
  BY <1>7, <1>8, <1>10, <1>13 DEF BlocksOf, With
<1> HIDE DEF x, y, B
<1>16. Own(x) = Own(r) /\ Range(x.chunks) = C \cup {b}
  BY <1>2, <1>12, <1>13 DEF Own
<1>17. ArenaSound(ctx', x)
  <2>1. Placed(x)
    BY <1>13 DEF Placed, NoChunk
  <2>2. Checked(ctx', x)
    BY <1>13 DEF Checked
  <2>3. DOMAIN x.live \cap DOMAIN x.free = {}
    BY <1>4, <1>8, <1>10, <1>11, <1>13 DEF B
  <2>4. NoChunk \notin InUse(ctx)
    <3>1. NoChunk \in InUse(ctx) => NoChunk \in Nat
      BY <1>2, UsedChunk
    <3> QED
      BY <3>1 DEF NoChunk
  <2>5. IsInjective(x.chunks) /\ x.taken \notin Range(x.chunks) /\ Own(x) \subseteq InUse(ctx')
    BY <1>2, <1>9, <1>12, <1>13, <1>16, <2>4
  <2> QED
    BY <1>10, <1>14, <1>15, <1>16, <2>1, <2>2, <2>3, <2>5 DEF ArenaSound
<1>18. AInv'
  <2>1. Untouched(ctx, ctx', Own(r))
    BY <1>2, <1>4, <1>9 DEF Untouched
  <2>2. ctx.data \subseteq ctx'.data
    BY <1>4, <1>9
  <2>3. UsedBy(ctx', x) = UsedBy(s, r) + size
    <3>1. Owns(s, r) /\ Owns(ctx', x) /\ Own(x) = Own(r) /\ x.returned = r.returned
      BY <1>2, <1>4, <1>9, <1>13, <1>16, <1>17, SoundOwns DEF Owns, ArenaType
    <3>2. \A d \in Own(r) \ {b} : ctx'.chunk[d].used = s.chunk[d].used
      BY <1>2, <1>4, <1>9 DEF Untouched
    <3>3. b \in Own(r) /\ size \in Int /\ ctx'.chunk[b].used = s.chunk[b].used + size
      BY <1>2, <1>9
    <3> HIDE DEF r, b, size
    <3> QED
      BY <3>1, <3>2, <3>3, UsedMore
  <2>4. usedWords' = usedWords + UsedBy(ctx', x) - UsedBy(ctx, r)
    <3>1. usedWords \in Int /\ UsedBy(ctx, r) \in Int /\ more \in Int /\ size \in Int
      BY <1>2, <1>4, WordsCounted, SoundOwns, OwnUsed
    <3> HIDE DEF r, size
    <3> QED
      BY <1>4, <1>20, <2>3, <3>1
  <2> QED
    BY <1>1, <1>2, <1>9, <1>16, <1>17, <2>1, <2>2, <2>4, StepSound
<1>19. Faithful
  <2>1. ctx.chunk[b].used + size <= SizeOf(ctx, b) /\ size \in Nat
    <3>1. /\ ctx.chunk[b].committed \in Nat /\ SizeOf(ctx, b) \in Nat
          /\ ctx.chunk[b].committed <= SizeOf(ctx, b)
      BY <1>2, <1>3, UsedChunk
    <3> QED
      BY <1>2, <1>3, <3>1
  <2>2. \A c \in InUse(ctx) : Words(p, size) \cap Words(c, ctx.chunk[c].used) = {}
    BY <1>2, <1>3, <2>1, FreshWords DEF p
  <2>3. ASSUME NEW c \in Arenas, NEW q \in DOMAIN arena[c].live
        PROVE  Words(q, arena[c].live[q]) \cap Words(p, size) = {}
    <3>1. PICK d \in InUse(ctx) : Words(q, arena[c].live[q]) \subseteq Words(d, ctx.chunk[d].used)
      BY <2>3, LivePlace
    <3> QED
      BY <2>2, <3>1
  <2>4. size \in RawSizes /\ p \in Addresses /\ arena' = [arena EXCEPT ![a] = x]
    BY <1>1, <1>2, <1>9 DEF x
  <2>5. x.live = With(arena[a].live, p, size)
    BY <1>13
  <2> HIDE DEF size
  <2>6. PICK n \in RawSizes : n = size
    BY <2>4
  <2>7. PICK q \in Addresses : q = p
    BY <2>4
  <2>8. Promise!AllocateBlock(a, q, n)
    BY <2>3, <2>4, <2>5, <2>6, <2>7, HandsOut
  <2> QED
    BY <2>8, ServeFaithful, <1>18
<1> QED
  BY <1>18, <1>19

\* get_chunk gives a chunk that nobody has, or nothing happens to anybody.
LEMMA GetNewSound ==
  ASSUME AInv, NEW a \in Arenas, GetNewChunk(a)
  PROVE  Faithful
<1> DEFINE r   == arena[a]
           new == InUse(ctx') \ InUse(ctx)
<1>1. /\ r.pc = "new" /\ r \in ArenaType /\ r.size \in RawSizes /\ ArenaSound(ctx, r)
      /\ Whole(ctx, 0) /\ Own(r) \subseteq InUse(ctx) /\ arena \in [Arenas -> ArenaType]
      /\ r.taken = NoChunk
  <2>1. r.pc = "new" /\ ArenaSound(ctx, r) /\ Whole(ctx, 0) /\ arena \in [Arenas -> ArenaType]
    BY DEF GetNewChunk, AInv
  <2> QED
    BY <2>1 DEF ArenaSound, Placed
<1>2. /\ Whole(ctx', 0) /\ ctx'.data = ctx.data /\ Untouched(ctx, ctx', {})
      /\ \/ InUse(ctx') = InUse(ctx)
         \/ \E b \in Int : /\ b \notin InUse(ctx) /\ InUse(ctx') = InUse(ctx) \cup {b}
                           /\ ctx'.chunk[b].used = 0 /\ ctx'.chunk[b].committed >= r.size
  <2>1. CASE Exhausted(Request(a))
    <3>1. ctx' = ctx
      BY <2>1 DEF GetNewChunk
    <3> QED
      BY <1>1, <3>1 DEF Untouched
  <2>2. CASE ~Exhausted(Request(a))
    <3>1. GetChunk(Request(a)) /\ Request(a) \in LegalRequests /\ Request(a).min = r.size
      BY <1>1, <2>2, RequestIsLegal DEF GetNewChunk
    <3>2. PICK q \in LegalRequests : q = Request(a)
      BY <3>1
    <3>3. GetChunk(q) /\ q.min = r.size
      BY <3>1, <3>2
    <3>4. /\ Whole(ctx', 0) /\ ctx'.data = ctx.data /\ Untouched(ctx, ctx', {})
          /\ \E b \in Int : /\ b \notin InUse(ctx)
                            /\ \/ Serving(ctx', b, q) /\ InUse(ctx') = InUse(ctx) \cup {b}
                               \/ InUse(ctx') = InUse(ctx)
      BY <1>1, <3>3, GetChunkWhole
    <3> QED
      BY <3>3, <3>4 DEF Serving
  <2> QED
    BY <2>1, <2>2
<1>3. CASE InUse(ctx') = InUse(ctx)
  <2>1. Goto(a, "idle", 0) /\ usedWords' = usedWords
    BY <1>3 DEF GetNewChunk, Goto
  <2>2. PICK s : s = ctx'
    OBVIOUS
  <2>3. Prepared(s, a)
    BY <1>2, <1>3, <2>2 DEF Prepared, Untouched
  <2>4. Checked(s, Moved(r, "idle", 0))
    <3>1. Moved(r, "idle", 0).pc = "idle"
      <4>1. "idle" \in Places /\ 0 \in Nat
        BY DEF Places
      <4> QED
        BY <1>1, <4>1, MovedFacts
    <3> QED
      BY <3>1 DEF Checked
  <2> QED
    BY <1>1, <2>1, <2>2, <2>3, <2>4, GotoSound
<1>4. CASE \E b \in Int : /\ b \notin InUse(ctx) /\ InUse(ctx') = InUse(ctx) \cup {b}
                          /\ ctx'.chunk[b].used = 0 /\ ctx'.chunk[b].committed >= r.size
  <2>1. PICK b \in Int : /\ b \notin InUse(ctx) /\ InUse(ctx') = InUse(ctx) \cup {b}
                         /\ ctx'.chunk[b].used = 0 /\ ctx'.chunk[b].committed >= r.size
    BY <1>4
  <2> DEFINE x == [r EXCEPT !.pc = "taken", !.taken = b]
  <2>2. arena' = [arena EXCEPT ![a] = x]
    <3>1. new = {b}
      BY <2>1
    <3>2. (CHOOSE c \in new : TRUE) = b
      BY <3>1
    <3> DEFINE fresh == CHOOSE c \in new : TRUE
    <3>3. arena' = [arena EXCEPT ![a].pc = "taken", ![a].taken = fresh]
      BY <3>1 DEF GetNewChunk
    <3>4. fresh = b
      BY <3>2
    <3> HIDE DEF fresh
    <3>5. arena' = [arena EXCEPT ![a].pc = "taken", ![a].taken = b]
      BY <3>3, <3>4
    <3> QED
      BY <1>1, <3>5
  <2>3. b # NoChunk
    <3>1. b \in InUse(ctx')
      BY <2>1
    <3>2. b \in Nat
      BY <1>2, <3>1, UsedChunk
    <3> QED
      BY <3>2 DEF NoChunk
  <2>4. /\ x \in ArenaType /\ x.pc = "taken" /\ x.taken = b /\ x.size = r.size
        /\ x.chunks = r.chunks /\ x.live = r.live /\ x.free = r.free
        /\ x.returned = r.returned
    BY <1>1, <2>1 DEF ArenaType, Places
  <2> HIDE DEF x
  <2>5. Own(x) = Own(r) \cup {b} /\ BlocksOf(x) = BlocksOf(r) /\ Range(r.chunks) = Own(r)
    BY <1>1, <2>3, <2>4 DEF Own, BlocksOf
  <2>6. \A d \in InUse(ctx) : ctx'.chunk[d] = ctx.chunk[d]
    BY <1>2 DEF Untouched
  <2>7. ArenaSound(ctx', x)
    <3>1. Packed(ctx', Range(x.chunks), BlocksOf(x))
      <4>1. Packed(ctx, Range(r.chunks), BlocksOf(r))
        BY <1>1 DEF ArenaSound
      <4>2. /\ \A d \in Range(r.chunks) : ctx'.chunk[d] = ctx.chunk[d]
            /\ ctx'.data = ctx.data
        BY <1>1, <1>2, <2>5, <2>6
      <4>3. Packed(ctx', Range(r.chunks), BlocksOf(r))
        BY <4>1, <4>2, PackedStays
      <4> QED
        BY <2>4, <2>5, <4>3
    <3>2. Placed(x)
      BY <1>1, <2>3, <2>4 DEF Placed
    <3>3. Checked(ctx', x)
      BY <2>1, <2>4 DEF Checked
    <3>4. IsInjective(x.chunks) /\ DOMAIN x.live \cap DOMAIN x.free = {}
      BY <1>1, <2>4 DEF ArenaSound
    <3>5. x.taken \notin Range(x.chunks) /\ Own(x) \subseteq InUse(ctx')
      BY <1>1, <2>1, <2>4, <2>5
    <3> QED
      BY <2>4, <3>1, <3>2, <3>3, <3>4, <3>5 DEF ArenaSound
  <2>8. AInv'
    <3>1. Untouched(ctx, ctx', Own(r))
      BY <1>2 DEF Untouched
    <3>2. /\ InUse(ctx') = (InUse(ctx) \ Own(r)) \cup Own(x)
          /\ Own(x) \cap (InUse(ctx) \ Own(r)) = {}
      BY <1>1, <2>1, <2>5
    <3>3. usedWords' = usedWords + UsedBy(ctx', x) - UsedBy(ctx, r)
      <4>1. Owns(ctx, r) /\ Owns(ctx', x)
        BY <1>1, <1>2, <2>7, SoundOwns
      <4>2. b \in Own(x) /\ Own(r) = Own(x) \ {b}
        BY <1>1, <2>1, <2>5
      <4>3. \A d \in Own(x) \ {b} : ctx.chunk[d].used = ctx'.chunk[d].used
        BY <1>1, <2>6, <4>2
      <4>4. UsedBy(ctx, r) = UsedBy(ctx', x) - ctx'.chunk[b].used + r.returned - x.returned
        BY <4>1, <4>2, <4>3, UsedLess
      <4>5. /\ UsedBy(ctx, r) \in Int /\ UsedBy(ctx', x) \in Int /\ r.returned \in Int
            /\ usedWords \in Int /\ usedWords' = usedWords
        BY <4>1, OwnUsed, WordsCounted DEF Owns, GetNewChunk
      <4> QED
        BY <2>1, <2>4, <4>4, <4>5
    <3> QED
      BY <1>2, <2>2, <2>7, <3>1, <3>2, <3>3, StepSound
  <2>9. UNCHANGED Held
    BY <2>2, <2>4, LivesStay
  <2> QED
    BY <2>8, <2>9 DEF Faithful
<1> QED
  BY <1>2, <1>3, <1>4

-----------------------------------------------------------------------------
(* Deallocation, birth and death.                                          *)

\* A block that is given back stays where it is, as a free one.
LEMMA DeallocateSound ==
  ASSUME AInv, NEW a \in Arenas, NEW p \in DOMAIN arena[a].live, Deallocate(a, p)
  PROVE  Faithful
<1> DEFINE r == arena[a]
           n == r.live[p]
           x == [r EXCEPT !.live = Without(@, p), !.free = With(@, p, n)]
<1>1. /\ r \in ArenaType /\ r.live \in BlockMaps /\ r.free \in BlockMaps /\ ArenaSound(ctx, r)
      /\ r.pc = "idle" /\ ctx' = ctx /\ usedWords' = usedWords
      /\ arena \in [Arenas -> ArenaType]
      /\ DOMAIN r.live \cap DOMAIN r.free = {}
  <2>1. ArenaSound(ctx, r) /\ Whole(ctx, 0)
    BY DEF AInv
  <2> QED
    BY <2>1, ArenaFacts DEF Deallocate, AInv, ArenaSound
<1>2. arena' = [arena EXCEPT ![a] = x]
  BY DEF Deallocate
<1>3. p \in Nat /\ n \in Nat \ {0}
  BY <1>1, BlockMap
<1>4. /\ Without(r.live, p) \in BlockMaps /\ DOMAIN Without(r.live, p) = DOMAIN r.live \ {p}
      /\ \A q \in DOMAIN r.live \ {p} : Without(r.live, p)[q] = r.live[q]
  <2>1. r.live \in BlockMaps
    BY <1>1
  <2> HIDE DEF r
  <2> QED
    BY <2>1, WithoutBlock
<1> HIDE DEF n
<1>5. /\ With(r.free, p, n) \in BlockMaps /\ DOMAIN With(r.free, p, n) = DOMAIN r.free \cup {p}
      /\ With(r.free, p, n)[p] = n
      /\ \A q \in DOMAIN r.free : q # p => With(r.free, p, n)[q] = r.free[q]
  <2>1. r.free \in BlockMaps
    BY <1>1
  <2> HIDE DEF r
  <2>2. OneMore(r.free, With(r.free, p, n), p, n)
    BY <1>3, <2>1, WithBlock
  <2> QED
    BY <2>2 DEF OneMore
<1>6. /\ x \in ArenaType /\ x.pc = r.pc /\ x.size = r.size /\ x.taken = r.taken
      /\ x.chunks = r.chunks /\ x.live = Without(r.live, p) /\ x.free = With(r.free, p, n)
      /\ x.returned = r.returned
  BY <1>1, <1>4, <1>5 DEF ArenaType
<1> HIDE DEF x
<1>7. BlocksOf(x) = BlocksOf(r)
  <2>1. DOMAIN x.live \cup DOMAIN x.free = DOMAIN r.live \cup DOMAIN r.free
    BY <1>4, <1>5, <1>6
  <2>2. ASSUME NEW q \in DOMAIN r.live \cup DOMAIN r.free
        PROVE  (IF q \in DOMAIN x.live THEN x.live[q] ELSE x.free[q])
                 = (IF q \in DOMAIN r.live THEN r.live[q] ELSE r.free[q])
    BY <1>1, <1>4, <1>5, <1>6 DEF n
  <2> QED
    BY <2>1, <2>2 DEF BlocksOf
<1>8. Own(x) = Own(r)
  BY <1>6 DEF Own
<1>9. ArenaSound(ctx, x)
  <2>1. Placed(x) /\ Checked(ctx, x)
    BY <1>1, <1>6 DEF ArenaSound, Placed, Checked
  <2>2. DOMAIN x.live \cap DOMAIN x.free = {}
    BY <1>1, <1>4, <1>5, <1>6
  <2> QED
    BY <1>1, <1>6, <1>7, <1>8, <2>1, <2>2 DEF ArenaSound
<1>10. AInv'
  <2>1. usedWords' = usedWords + x.returned - r.returned
    <3>1. usedWords \in Int /\ r.returned \in Int
      BY <1>1, WordsCounted DEF ArenaType
    <3> QED
      BY <1>1, <1>6, <3>1
  <2> QED
    BY <1>1, <1>2, <1>8, <1>9, <2>1, SameChunks
<1>11. Promise!DeallocateBlock(a, p)
  <2>1. \A c \in Arenas : arena'[c].live = IF c = a THEN Without(r.live, p) ELSE arena[c].live
    BY <1>1, <1>2, <1>6
  <2> QED
    BY <2>1 DEF Promise!DeallocateBlock, Promise!Restrict, Without, Restrict
<1>12. Promise!Next
  BY <1>11 DEF Promise!Next
<1> QED
  BY <1>10, <1>12 DEF Faithful

\* A loader is born.
LEMMA BirthSound ==
  ASSUME AInv, NEW a \in Arenas, Birth(a)
  PROVE  Faithful
<1>1. /\ arena[a].pc = "none" /\ Goto(a, "idle", 0) /\ ctx' = ctx /\ usedWords' = usedWords
      /\ arena[a] \in ArenaType
  BY DEF Birth, AInv
<1>2. Checked(ctx, Moved(arena[a], "idle", 0))
  <2>1. Moved(arena[a], "idle", 0).pc = "idle"
    <3>1. "idle" \in Places /\ 0 \in Nat
      BY DEF Places
    <3> QED
      BY <1>1, <3>1, MovedFacts
  <2> QED
    BY <2>1 DEF Checked
<1> QED
  BY <1>1, <1>2, AlwaysPrepared, GotoSound

\* A loader dies with all its blocks.
LEMMA DestroySound ==
  ASSUME AInv, NEW a \in Arenas, Destroy(a)
  PROVE  Faithful
<1> DEFINE r == arena[a]
           x == [r EXCEPT !.pc = "dying", !.live = NoBlocks, !.free = NoBlocks]
<1>1. /\ r \in ArenaType /\ ArenaSound(ctx, r) /\ r.pc = "idle" /\ ctx' = ctx
      /\ usedWords' = usedWords /\ arena \in [Arenas -> ArenaType] /\ NoBlocks \in BlockMaps /\ DOMAIN NoBlocks = {}
  BY NoBlockMap DEF AInv, Destroy
<1>2. arena' = [arena EXCEPT ![a] = x]
  BY DEF Destroy
<1>3. /\ x \in ArenaType /\ x.pc = "dying" /\ x.taken = r.taken
      /\ x.chunks = r.chunks /\ x.live = NoBlocks /\ x.free = NoBlocks
      /\ x.returned = r.returned
  BY <1>1 DEF ArenaType, Places
<1> HIDE DEF x
<1>4. Own(x) = Own(r) /\ DOMAIN BlocksOf(x) = {}
  BY <1>1, <1>3 DEF Own, BlocksOf
<1>5. ArenaSound(ctx, x)
  <2>1. Placed(x) /\ Checked(ctx, x)
    BY <1>1, <1>3 DEF ArenaSound, Placed, Checked
  <2>2. Packed(ctx, Range(x.chunks), BlocksOf(x))
    BY <1>4 DEF Packed
  <2> QED
    BY <1>1, <1>3, <1>4, <2>1, <2>2 DEF ArenaSound
<1>6. AInv'
  <2>1. usedWords' = usedWords + x.returned - r.returned
    <3>1. usedWords \in Int /\ r.returned \in Int
      BY <1>1, WordsCounted DEF ArenaType
    <3> QED
      BY <1>1, <1>3, <3>1
  <2> QED
    BY <1>1, <1>2, <1>4, <1>5, <2>1, SameChunks
<1>7. Promise!Die(a)
  <2>1. \A c \in Arenas : arena'[c].live = IF c = a THEN NoBlocks ELSE arena[c].live
    BY <1>1, <1>2, <1>3
  <2>2. Promise!Nothing = NoBlocks
    BY DEF Promise!Nothing, NoBlocks
  <2> QED
    BY <2>1, <2>2 DEF Promise!Die
<1> QED
  BY <1>6, <1>7 DEF Faithful, Promise!Next

\* The first chunk of a dead loader goes back; the others are still its own.
LEMMA ReturnSound ==
  ASSUME AInv, NEW a \in Arenas, ReturnFirst(a)
  PROVE  Faithful
<1> DEFINE r == arena[a]
           b == Current(a)
           n == ctx.chunk[b].used
           x == [r EXCEPT !.chunks = Tail(@), !.returned = @ + n]
<1>1. /\ r.pc = "dying" /\ r.chunks # <<>> /\ ctx' = ReturnChunk(ctx, b)
      /\ r \in ArenaType /\ ArenaSound(ctx, r) /\ Whole(ctx, 0)
      /\ r.chunks \in Seq(Int) /\ Own(r) \subseteq InUse(ctx)
      /\ arena \in [Arenas -> ArenaType] /\ IsInjective(r.chunks)
      /\ r.live = NoBlocks /\ r.free = NoBlocks /\ r.taken = NoChunk
  <2>1. /\ r.pc = "dying" /\ r.chunks # <<>> /\ ctx' = ReturnChunk(ctx, b)
        /\ ArenaSound(ctx, r) /\ Whole(ctx, 0) /\ arena \in [Arenas -> ArenaType]
    BY DEF ReturnFirst, AInv
  <2>2. r.live = NoBlocks /\ r.free = NoBlocks /\ r.taken = NoChunk /\ IsInjective(r.chunks)
    BY <2>1 DEF ArenaSound, Placed
  <2> QED
    BY <2>1, <2>2, ArenaFacts
<1>2. arena' = [arena EXCEPT ![a] = x]
  BY <1>1 DEF ReturnFirst, Following
<1>3. /\ Tail(r.chunks) \in Seq(Int) /\ Range(Tail(r.chunks)) = Range(r.chunks) \ {b}
      /\ IsInjective(Tail(r.chunks)) /\ b \in Range(r.chunks)
  <2> HIDE DEF r
  <2> QED
    BY <1>1, TailFacts DEF Current, r
<1>4. b \in InUse(ctx) /\ Own(r) = Range(r.chunks)
  BY <1>1, <1>3 DEF Own
<1>5. n \in Nat
  BY <1>1, <1>4, UsedChunk
<1>6. /\ Whole(ctx', 0) /\ Untouched(ctx, ctx', {b}) /\ InUse(ctx') = InUse(ctx) \ {b}
      /\ ctx'.data = ctx.data \ Words(b, SizeOf(ctx, b))
  BY <1>1, <1>4, ReturnedWhole
<1> HIDE DEF n
<1>7. /\ x \in ArenaType /\ x.pc = "dying" /\ x.chunks = Tail(r.chunks) /\ x.taken = NoChunk
      /\ x.live = NoBlocks /\ x.free = NoBlocks /\ x.returned = r.returned + n
  <2>1. r.returned + n \in Nat
    BY <1>1, <1>5 DEF ArenaType
  <2> HIDE DEF b
  <2> QED
    BY <1>1, <1>3, <2>1 DEF ArenaType
<1> HIDE DEF x
<1>8. Own(x) = Own(r) \ {b} /\ Range(x.chunks) = Own(x) /\ DOMAIN BlocksOf(x) = {}
  BY <1>3, <1>4, <1>7, NoBlockMap DEF Own, BlocksOf
<1>9. ArenaSound(ctx', x)
  <2>1. Placed(x) /\ Checked(ctx', x)
    BY <1>7 DEF Placed, Checked
  <2>2. Packed(ctx', Range(x.chunks), BlocksOf(x))
    BY <1>8 DEF Packed
  <2>3. Own(x) \subseteq InUse(ctx')
    BY <1>1, <1>6, <1>8
  <2>4. NoChunk \notin InUse(ctx)
    <3>1. NoChunk \in InUse(ctx) => NoChunk \in Nat
      BY <1>1, UsedChunk
    <3> QED
      BY <3>1 DEF NoChunk
  <2>5. x.taken \notin Range(x.chunks) /\ DOMAIN x.live \cap DOMAIN x.free = {}
    BY <1>1, <1>7, <1>8, <2>4, NoBlockMap
  <2> QED
    BY <1>3, <1>7, <2>1, <2>2, <2>3, <2>5 DEF ArenaSound
<1>10. AInv'
  <2>1. Untouched(ctx, ctx', Own(r))
    BY <1>3, <1>4, <1>6 DEF Untouched
  <2>2. /\ InUse(ctx') = (InUse(ctx) \ Own(r)) \cup Own(x)
        /\ Own(x) \cap (InUse(ctx) \ Own(r)) = {}
    BY <1>1, <1>3, <1>4, <1>6, <1>8
  <2>3. ASSUME NEW d \in InUse(ctx) \ Own(r), NEW w \in Words(d, ctx.chunk[d].used), w \in ctx.data
        PROVE  w \in ctx'.data
    <3>1. d # b
      BY <1>3, <1>4
    <3>2. /\ Words(d, ctx.chunk[d].used) \subseteq Words(d, SizeOf(ctx, d))
          /\ Words(d, SizeOf(ctx, d)) \cap Words(b, SizeOf(ctx, b)) = {}
      BY <1>1, <1>4, <2>3, <3>1, UsedChunk, UsedApart
    <3> QED
      BY <1>6, <2>3, <3>2
  <2>4. usedWords' = usedWords + UsedBy(ctx', x) - UsedBy(ctx, r)
    <3>1. Owns(ctx, r) /\ Owns(ctx', x)
      BY <1>1, <1>6, <1>9, SoundOwns
    <3>2. \A d \in Own(r) \ {b} : ctx'.chunk[d].used = ctx.chunk[d].used
      BY <1>1, <1>6 DEF Untouched
    <3>3. UsedBy(ctx', x) = UsedBy(ctx, r) - n + x.returned - r.returned
      BY <1>3, <1>4, <1>8, <3>1, <3>2, UsedLess DEF n
    <3>4. /\ UsedBy(ctx, r) \in Int /\ usedWords \in Int /\ r.returned \in Int
          /\ usedWords' = usedWords
      BY <3>1, OwnUsed, WordsCounted DEF Owns, ReturnFirst
    <3> QED
      BY <1>5, <1>7, <3>3, <3>4
  <2> QED
    BY <1>2, <1>6, <1>9, <2>1, <2>2, <2>3, <2>4, StepSound
<1>11. UNCHANGED Held
  BY <1>1, <1>2, <1>7, LivesStay
<1> QED
  BY <1>10, <1>11 DEF Faithful

\* An arena without chunks goes.
LEMMA DeathSound ==
  ASSUME AInv, NEW a \in Arenas, Death(a)
  PROVE  Faithful
<1> DEFINE r == arena[a]
<1>1. /\ r.pc = "dying" /\ r.chunks = <<>> /\ ctx' = ctx /\ arena' = [arena EXCEPT ![a] = NoArena]
      /\ ArenaSound(ctx, r) /\ r.live = NoBlocks /\ r.taken = NoChunk
  BY DEF Death, AInv, ArenaSound, Placed
<1>2. ArenaSound(ctx, NoArena) /\ Own(NoArena) = {}
  BY NoArenaSound
<1>3. Own(r) = {}
  BY <1>1 DEF Own, Range
<1>4. AInv'
  <2>1. usedWords' = usedWords + NoArena.returned - r.returned
    <3>1. usedWords \in Int /\ r.returned \in Int
      BY <1>1, WordsCounted DEF ArenaSound, ArenaType
    <3>2. NoArena.returned = 0 /\ usedWords' = usedWords - r.returned
      BY DEF NoArena, Death
    <3> QED
      BY <3>1, <3>2
  <2> QED
    BY <1>1, <1>2, <1>3, <2>1, SameChunks
<1>5. NoArena.live = NoBlocks
  BY DEF NoArena
<1>6. UNCHANGED Held
  BY <1>1, <1>5, LivesStay
<1> QED
  BY <1>4, <1>6 DEF Faithful

-----------------------------------------------------------------------------
(* All steps.                                                              *)

\* Before any loader is born nobody has a chunk.
LEMMA InitArenas == Init => AInv /\ Promise!Init
<1> SUFFICES ASSUME Init
             PROVE  AInv /\ Promise!Init
  OBVIOUS
<1>1. ctx = EmptyContext /\ arena = [a \in Arenas |-> NoArena] /\ usedWords = 0
  BY DEF Init
<1>2. Whole(ctx, 0) /\ InUse(ctx) = {}
  BY <1>1, EmptyWhole DEF EmptyContext, InUse
<1>3. \A a \in Arenas : ArenaSound(ctx, NoArena) /\ Own(NoArena) = {} /\ NoArena \in ArenaType
  BY NoArenaSound
<1>4. usedWords = Uses(ctx, arena)
  <2> DEFINE g == [a \in Arenas |-> UsedBy(ctx, arena[a])]
  <2>1. UsedBy(ctx, NoArena) = 0
    <3>1. Total(UsedOf(ctx), Own(NoArena)) = 0
      BY TotalEmpty DEF Own, NoArena, Range
    <3> QED
      BY <3>1 DEF UsedBy, NoArena
  <2>2. \A a \in Arenas : g[a] = 0
    BY <1>1, <2>1
  <2>3. Uses(ctx, arena) = Total(g, Arenas) /\ IsFiniteSet(Arenas)
    BY ArenaAssumption DEF Uses
  <2> HIDE DEF g
  <2>4. Total(g, Arenas) = 0
    BY <2>2, <2>3, TotalOfZeros
  <2> QED
    BY <1>1, <2>3, <2>4
<1>6. AInv
  BY <1>1, <1>2, <1>3, <1>4 DEF AInv, Shared
<1>5. Promise!Init
  <2>1. NoArena.live = Promise!Nothing
    BY DEF NoArena, NoBlocks, Promise!Nothing
  <2> QED
    BY <1>1, <2>1 DEF Promise!Init
<1> QED
  BY <1>5, <1>6

\* Every step of an arena, and purge, keeps the invariant, and is a step of the
\* LoaderMemory or does not show there.
LEMMA NextFaithful == AInv /\ [Next]_vars => Faithful
<1> SUFFICES ASSUME AInv, [Next]_vars
             PROVE  Faithful
  OBVIOUS
<1>1. ASSUME NEW a \in Arenas,
             \/ Birth(a)
             \/ \E size \in Sizes : Allocate(a, size)
             \/ \E p \in DOMAIN arena[a].live : Deallocate(a, p)
             \/ Destroy(a)
             \/ Step(a)
      PROVE  Faithful
  <2>1. CASE Birth(a)
    BY <2>1, BirthSound
  <2>2. CASE \E size \in Sizes : Allocate(a, size)
    BY <2>2, AllocateSound
  <2>3. CASE \E p \in DOMAIN arena[a].live : Deallocate(a, p)
    BY <2>3, DeallocateSound
  <2>4. CASE Destroy(a)
    BY <2>4, DestroySound
  <2>5. CASE Step(a)
    BY <2>5, EnlargeSound, CommitSound, GetNewSound, AddNewSound, ReturnSound, DeathSound DEF Step
  <2> QED
    BY <1>1, <2>1, <2>2, <2>3, <2>4, <2>5
<1>2. CASE Purge /\ UNCHANGED <<arena, usedWords>>
  <2>1. AInv'
    BY <1>2, PurgeSound
  <2>2. UNCHANGED Held
    BY <1>2 DEF Held
  <2> QED
    BY <2>1, <2>2 DEF Faithful
<1>3. CASE UNCHANGED vars
  <2>1. ctx' = ctx /\ arena' = arena /\ usedWords' = usedWords
    BY <1>3 DEF vars
  <2>2. AInv'
    <3>1. PICK s, rs : s = ctx /\ rs = arena
      OBVIOUS
    <3>2. s = ctx' /\ rs = arena'
      BY <2>1, <3>1
    <3>3. usedWords = Uses(s, rs)
      BY <3>1 DEF AInv
    <3>4. usedWords' = Uses(ctx', arena')
      BY <2>1, <3>2, <3>3
    <3> QED
      BY <2>1, <3>4 DEF AInv
  <2>3. UNCHANGED Held
    BY <2>1 DEF Held
  <2> QED
    BY <2>2, <2>3 DEF Faithful
<1> QED
  BY <1>1, <1>2, <1>3 DEF Next

\* The invariant is inductive.
LEMMA NextSound == AInv /\ [Next]_vars => AInv'
BY NextFaithful DEF Faithful

-----------------------------------------------------------------------------
(* What follows for every behaviour.                                       *)

\* The chunks of an arena are the ones the properties speak of.
LEMMA OwnIsChunksOf == \A a : ChunksOf(a) = Own(arena[a]) /\ ToSet(arena[a].chunks) = Range(arena[a].chunks)
BY DEF ChunksOf, Own, ToSet, Range

\* Under arenas that come and go, each between two calls of its own, the context
\* keeps what MetaspaceContext shows of any callers: its areas stay tiled and
\* merged, lists and counters exact, commit lines backed, live data intact, and
\* what is committed is charged.
THEOREM ContextStaysSound ==
  Spec => [](/\ AreasTiled /\ IdeallyMerged /\ FreelistsExact /\ ListedWordsExact
             /\ CommitLineBacked /\ LiveDataIntact /\ NoIdleCommit
             /\ ctx.limiter = ctx.committed /\ ctx.limiter <= MaxCommit)
<1>1. AInv => /\ AreasTiled /\ IdeallyMerged /\ FreelistsExact /\ ListedWordsExact
              /\ CommitLineBacked /\ LiveDataIntact /\ NoIdleCommit
              /\ ctx.limiter = ctx.committed /\ ctx.limiter <= MaxCommit
  <2> SUFFICES ASSUME AInv
               PROVE  /\ AreasTiled /\ IdeallyMerged /\ FreelistsExact /\ ListedWordsExact
                      /\ CommitLineBacked /\ LiveDataIntact /\ NoIdleCommit
                      /\ ctx.limiter = ctx.committed /\ ctx.limiter <= MaxCommit
    OBVIOUS
  <2>1. Whole(ctx, 0)
    BY DEF AInv
  <2>2. AreasTiled /\ IdeallyMerged
    BY <2>1, SoundAreas DEF Whole
  <2>3. FreelistsExact /\ ListedWordsExact
    BY <2>1, ListedExact, CountedExact DEF Whole
  <2>4. CommitLineBacked /\ LiveDataIntact /\ NoIdleCommit
    BY <2>1, BackedLines, LeanIsLean DEF Whole
  <2>5. ctx.limiter = ctx.committed /\ ctx.limiter <= MaxCommit
    <3>1. ctx.limiter = ctx.committed + 0 /\ ctx.limiter <= MaxCommit
      BY <2>1 DEF Whole, Accounts
    <3>2. ctx.committed \in Nat
      BY <2>1, WholeTypes
    <3> QED
      BY <3>1, <3>2
  <2> QED
    BY <2>2, <2>3, <2>4, <2>5
<1>2. Init => AInv
  BY InitArenas
<1> QED
  BY <1>1, <1>2, NextSound, PTL DEF Spec

\* For any loaders, sizes and policy, whatever they and purge do between two
\* calls: every chunk in use belongs to one arena and is once in its list.
THEOREM ChunksHaveOwners == Spec => []ChunksOwned
<1>1. AInv => ChunksOwned
  <2> SUFFICES ASSUME AInv
               PROVE  ChunksOwned
    OBVIOUS
  <2>1. /\ \A d \in InUse(ctx) : \E a \in Arenas : d \in ChunksOf(a)
        /\ \A a, b \in Arenas : a # b => ChunksOf(a) \cap ChunksOf(b) = {}
    BY OwnIsChunksOf DEF AInv, Shared
  <2>2. \A a \in Arenas : ChunksOf(a) \subseteq InUse(ctx)
    BY OwnIsChunksOf DEF AInv, ArenaSound
  <2>3. \A a \in Arenas : IsInjective(arena[a].chunks) /\ arena[a].taken \notin ToSet(arena[a].chunks)
    BY OwnIsChunksOf DEF AInv, ArenaSound
  <2>4. InUse(ctx) = UNION {ChunksOf(a) : a \in Arenas}
    BY <2>1, <2>2
  <2> QED
    BY <2>1, <2>3, <2>4 DEF ChunksOwned
<1> QED
  BY <1>1, InitArenas, NextSound, PTL DEF Spec

\* For any loaders, sizes and policy, whatever they and purge do between two
\* calls: the blocks of a loader, held or free, are apart, within the used part
\* of its own chunks, and what is written there is intact.
THEOREM BlocksStaySound == Spec => []BlocksSound
<1>1. AInv => BlocksSound
  <2> SUFFICES ASSUME AInv, NEW a \in Arenas
               PROVE  /\ DOMAIN arena[a].live \cap DOMAIN arena[a].free = {}
                      /\ \A p \in DOMAIN Blocks(a) :
                           /\ Words(p, Blocks(a)[p]) \subseteq ctx.data
                           /\ \E b \in ToSet(arena[a].chunks) :
                                Words(p, Blocks(a)[p]) \subseteq Words(b, ctx.chunk[b].used)
                           /\ \A q \in DOMAIN Blocks(a) \ {p} :
                                Words(p, Blocks(a)[p]) \cap Words(q, Blocks(a)[q]) = {}
    BY DEF BlocksSound
  <2>1. Blocks(a) = BlocksOf(arena[a])
    BY DEF Blocks, BlocksOf
  <2>2. /\ Packed(ctx, ToSet(arena[a].chunks), Blocks(a))
        /\ DOMAIN arena[a].live \cap DOMAIN arena[a].free = {}
    BY <2>1, OwnIsChunksOf DEF AInv, ArenaSound
  <2> HIDE DEF Blocks
  <2> QED
    BY <2>2 DEF Packed, Within
<1> QED
  BY <1>1, InitArenas, NextSound, PTL DEF Spec

\* For any loaders, sizes and policy, whatever they and purge do between two
\* calls: what an arena found out without MetaspaceExpand_lock still holds when
\* it has it.
THEOREM ChecksStillHold == Spec => []ChecksHold
<1>1. AInv => ChecksHold
  <2> SUFFICES ASSUME AInv, NEW a \in Arenas
               PROVE  /\ arena[a].pc = "enlarge" =>
                           LET c == ctx.chunk[Current(a)] IN
                           /\ c.state = "inuse" /\ c.level # RootLevel
                           /\ IsLeader(Current(a), c.level)
                           /\ c.used + arena[a].size \in (WordSize[c.level] + 1)..WordSize[c.level - 1]
                      /\ arena[a].pc = "commit" =>
                           LET c == ctx.chunk[Current(a)] IN
                           /\ c.state = "inuse"
                           /\ c.used + arena[a].size \in (c.committed + 1)..WordSize[c.level]
                      /\ arena[a].pc = "taken" =>
                           LET c == ctx.chunk[arena[a].taken] IN
                           /\ c.state = "inuse" /\ c.used = 0 /\ c.committed >= arena[a].size
    BY DEF ChecksHold
  <2>1. ArenaSound(ctx, arena[a]) /\ Whole(ctx, 0) /\ Checked(ctx, arena[a]) /\ Placed(arena[a])
    BY DEF AInv, ArenaSound
  <2>2. arena[a].pc \in {"enlarge", "commit"} => ctx.chunk[Current(a)].state = "inuse"
    BY <2>1, ArenaFacts DEF Placed, Current, InUse
  <2>3. arena[a].pc = "taken" => ctx.chunk[arena[a].taken].state = "inuse"
    BY <2>1, ArenaFacts DEF Placed, InUse
  <2> QED
    BY <2>1, <2>2, <2>3 DEF Checked, Current
<1> QED
  BY <1>1, InitArenas, NextSound, PTL DEF Spec

\* For any loaders, sizes and policy: what the arenas, cutting their chunks,
\* keeping what is left of them and going from call to call, hand to loaders is
\* memory of the loader's own until he gives it back or dies.
THEOREM PromiseKept == Spec => ImplementsPromise
<1>1. AInv /\ [Next]_vars => [Promise!Next]_Held
  BY NextFaithful DEF Faithful
<1> QED
  BY InitArenas, NextSound, <1>1, PTL DEF Spec, ImplementsPromise, Promise!Spec, Held

-----------------------------------------------------------------------------
(* Refusals.                                                               *)

\* A commit that is refused would have gone beyond the limit: whatever part of
\* the chunk is committed already, no more granules are missing than the words
\* asked for fill.
LEMMA RefusedCommit ==
  ASSUME NEW s, NEW other \in Int, Accounts(s, other), Tiled(s), NEW b \in DOMAIN s.chunk,
         NEW words \in Nat \ {0}, ~CanCommit(s, b, words)
  PROVE  s.limiter + AlignUp(words, GranuleWords) > MaxCommit
<1> DEFINE G     == GranuleWords
           l     == s.chunk[b].level
           from  == s.chunk[b].committed
           to    == CommitTo(s, b, words)
           up    == AlignUp(words, G)
           range == GranulesOf(b + from, to - from)
<1>1. /\ b \in Nat /\ l \in Levels /\ from \in Nat /\ Block(b, l) = b
      /\ SizeOf(s, b) = WordSize[l] /\ SizeOf(s, b) \in Nat \ {0} /\ G \in Nat \ {0}
  BY TiledChunk, SizesPositive DEF SizeOf
<1>2. /\ to > from /\ ~(G * Cardinality(range \ s.mask) <= PossibleExpansion(s))
  BY DEF CanCommit
<1>3. /\ to \in Nat /\ to <= WordSize[l] /\ to <= up
  <2>1. to = CommitLine(words, l)
    BY DEF CommitTo
  <2> QED
    BY <1>1, <2>1, CommitLineFacts
<1>4. up \in Nat /\ words <= up /\ IsAligned(up, G)
  BY <1>1, AlignUpBounds
<1> DEFINE k == up \div G
           q == b \div G
<1>5. k \in Nat /\ up = k * G /\ k # 0 /\ q \in Nat /\ q * G <= b /\ b < q * G + G
  <2>1. k \in Nat /\ up = k * G /\ q \in Nat /\ q * G <= b /\ b < q * G + G
    BY <1>1, <1>4, DivisionBounds, AlignedIsMultiple
  <2>2. up # 0
    BY <1>4
  <2> HIDE DEF k, q, up, G
  <2> QED
    BY <1>1, <2>1, <2>2
<1>6. \A g \in range : g \in q..(q + k - 1)
  <2> SUFFICES ASSUME NEW g \in range
               PROVE  g \in q..(q + k - 1)
    OBVIOUS
  <2> HIDE DEF to, from, l, up, k, q
  <2>1. /\ b + from \in Nat /\ to - from \in Nat \ {0}
    BY <1>1, <1>2, <1>3
  <2>2. PICK a \in Words(b + from, to - from) : a \div G = g
    <3>1. \E a \in Words(b + from, to - from) : a \div GranuleWords = g
      BY <2>1, GranulesOfWords
    <3> QED
      BY <3>1
  <2>3. a \in Nat /\ b <= a /\ a < b + to
    BY <1>1, <1>2, <1>3, <2>1, <2>2 DEF Words
  <2>4. a \in Words(b, WordSize[l])
    BY <1>1, <1>3, <2>3 DEF Words
  <2>5. CASE GranuleLevel <= l
    <3>1. a \div GranuleWords = b \div GranuleWords
      BY <1>1, <2>4, <2>5, SmallInGranule
    <3>2. g = q
      BY <2>2, <3>1 DEF q
    <3> QED
      BY <1>5, <3>2
  <2>6. CASE l <= GranuleLevel
    <3>1. b = q * G
      <4>1. IsAligned(b, GranuleWords)
        BY <1>1, <2>6, LargeIsAligned
      <4> QED
        BY <1>1, <4>1, AlignedIsMultiple DEF q
    <3>2. g \in Nat /\ g * G <= a /\ a < g * G + G
      BY <1>1, <2>2, <2>3, DivisionBounds
    <3>3. a < q * G + k * G /\ q * G <= a
      BY <1>1, <1>3, <1>4, <1>5, <2>3, <3>1
    <3>4. (q + k) * G = q * G + k * G /\ (g + 1) * G = g * G + G
      BY <1>1, <1>5, <3>2
    <3> HIDE DEF G
    <3>5. ~(g >= q + k)
      <4>1. g >= q + k => g * G >= (q + k) * G
        BY <1>1, <1>5, <3>2
      <4>2. g * G < (q + k) * G
        BY <1>1, <1>5, <2>3, <3>2, <3>3, <3>4
      <4> QED
        BY <1>1, <1>5, <3>2, <4>1, <4>2
    <3>6. ~(g + 1 <= q)
      <4>1. g + 1 <= q => (g + 1) * G <= q * G
        BY <1>1, <1>5, <3>2
      <4>2. q * G < (g + 1) * G
        BY <1>1, <1>5, <2>3, <3>2, <3>3, <3>4
      <4> QED
        BY <1>1, <1>5, <3>2, <4>1, <4>2
    <3> QED
      BY <1>5, <3>2, <3>5, <3>6
  <2>7. l \in Int /\ GranuleLevel \in Int
    BY <1>1, GeometryAssumption DEF Levels
  <2> QED
    BY <2>5, <2>6, <2>7
<1> HIDE DEF to, from, l, up, range, k, q, G
<1>7. /\ IsFiniteSet(q..(q + k - 1)) /\ Cardinality(q..(q + k - 1)) = k
  <2>1. q \in Int /\ q + k - 1 \in Int
    BY <1>5
  <2>2. /\ IsFiniteSet(q..(q + k - 1))
        /\ Cardinality(q..(q + k - 1)) = IF q > q + k - 1 THEN 0 ELSE (q + k - 1) - q + 1
    BY <2>1, FS_Interval
  <2> QED
    BY <1>5, <2>2
<1>8. Cardinality(range \ s.mask) \in Nat /\ Cardinality(range \ s.mask) <= k
  <2>1. range \ s.mask \subseteq q..(q + k - 1)
    BY <1>6
  <2> QED
    BY <1>7, <2>1, FS_Subset, FS_CardinalityType
<1>9. G * Cardinality(range \ s.mask) <= up
  <2> DEFINE n == Cardinality(range \ s.mask)
  <2>1. n \in Nat /\ n <= k
    BY <1>8
  <2> HIDE DEF n
  <2>2. G * n <= k * G
    BY <1>1, <1>5, <2>1
  <2> QED
    BY <1>5, <2>2 DEF n
<1>10. /\ s.limiter \in Int /\ MaxCommit \in Int /\ up \in Int
       /\ G * Cardinality(range \ s.mask) \in Int
       /\ PossibleExpansion(s) = MaxCommit - s.limiter
  BY <1>1, <1>4, <1>8, AccountsAreInt, ContextAssumption DEF PossibleExpansion
<1>11. s.limiter + up > MaxCommit
  BY <1>2, <1>9, <1>10
<1> QED
  BY <1>11 DEF up, G

\* Unless new chunks are committed as a whole, get_chunk refuses to hand out a
\* chunk that it has found only if the request does not fit below the limit.
LEMMA RefusedRequest ==
  ASSUME NEW s, NEW other \in Int, Accounts(s, other), Tiled(s), NEW b \in DOMAIN s.chunk,
         NEW r \in LegalRequests, r.min # 0, ~NewChunksFullyCommitted, ~Serves(s, b, r)
  PROVE  s.limiter + AlignUp(r.min, GranuleWords) > MaxCommit
<1> DEFINE t == Cut(s, b, r)
<1>1. /\ r.pref \in Levels /\ r.min \in Nat \ {0}
  BY RequestFacts
<1>2. /\ Accounts(t, other) /\ Tiled(t) /\ b \in DOMAIN t.chunk /\ t.mask = s.mask
  <2>1. CASE s.chunk[b].level < r.pref
    <3>1. s.chunk[b].level <= r.pref
      <4>1. s.chunk[b].level \in Int /\ r.pref \in Int
        BY <1>1, TiledChunk DEF Levels
      <4> QED
        BY <2>1, <4>1
    <3>2. /\ Accounts(Split(s, b, r.pref), other) /\ Tiled(Split(s, b, r.pref))
          /\ SplitSpec(s, b, r.pref)
      BY <1>1, <3>1, SplitTiled
    <3> QED
      BY <2>1, <3>2 DEF Cut, SplitSpec
  <2>2. CASE ~(s.chunk[b].level < r.pref)
    BY <2>2 DEF Cut
  <2> QED
    BY <2>1, <2>2
<1>3. t.limiter = s.limiter
  BY <1>2 DEF Accounts
<1>4. ~CanCommit(t, b, r.min)
  BY DEF Serves, ToCommit
<1> HIDE DEF t
<1> QED
  BY <1>1, <1>2, <1>3, <1>4, RefusedCommit

\* The same of get_chunk: if nobody gets a chunk, the limit is the reason.
LEMMA GetChunkRefuses ==
  ASSUME NEW other, Whole(ctx, other), NEW r \in LegalRequests, GetChunk(r), r.min # 0,
         ~NewChunksFullyCommitted, InUse(ctx') = InUse(ctx)
  PROVE  ctx.limiter + AlignUp(r.min, GranuleWords) > MaxCommit
<1>1. PICK s, b : Found(s, b, r, other) /\ ctx' = HandOut(s, b, r)
  BY GetChunkFinds
<1>2. /\ other \in Int /\ Accounts(s, other) /\ Accounts(ctx, other) /\ Tiled(s) /\ Backed(s)
      /\ b \in DOMAIN s.chunk /\ s.chunk[b].state = "free" /\ s.chunk[b].level <= r.max
      /\ b \notin InUse(ctx) /\ s.mask = ctx.mask
  BY <1>1 DEF Found, Whole, Sound
<1>3. ~Serves(s, b, r)
  <2>1. Serves(s, b, r) => Serving(HandOut(s, b, r), b, r)
    BY <1>2, ServedRequest
  <2> QED
    BY <1>1, <1>2, <2>1 DEF Serving
<1>4. s.limiter = ctx.limiter
  BY <1>2 DEF Accounts
<1> QED
  BY <1>2, <1>3, <1>4, RefusedRequest

\* MapThenSumSet adds up used words: its fold, as a function of the subsets.
UsedSums(F, f, S) ==
  F = [d \in SUBSET S |-> IF d = {} THEN 0 ELSE f[Pick(d)].used + F[d \ {Pick(d)}]]

\* The fold adds up what an arena has used of its chunks.
LEMMA UsedSum ==
  ASSUME NEW s, NEW r, Owns(s, r)
  PROVE  (CHOOSE F : UsedSums(F, s.chunk, Own(r)))[Own(r)] = Total(UsedOf(s), Own(r))
<1> DEFINE S == Own(r)
           g == UsedOf(s)
           H == CHOOSE F : UsedSums(F, s.chunk, S)
<1>1. IsFiniteSet(S) /\ \A d \in S : g[d] \in Int /\ g[d] = s.chunk[d].used
  BY OwnUsed
<1> HIDE DEF S, g
<1>2. PICK F : AddsUp(F, g, S)
  BY <1>1, SumsExist
<1>3. SumsUp(F, g, S) /\ Total(g, S) = F[S]
  BY <1>1, <1>2, AddsUpSumsUp, TotalAddsUp
<1>4. ASSUME NEW G
      PROVE  UsedSums(G, s.chunk, S) <=> SumsUp(G, g, S)
  <2>1. \A d \in SUBSET S : d # {} => Pick(d) \in S
    BY DEF Pick
  <2>2. [d \in SUBSET S |-> IF d = {} THEN 0 ELSE s.chunk[Pick(d)].used + G[d \ {Pick(d)}]]
        = [d \in SUBSET S |-> IF d = {} THEN 0 ELSE g[Pick(d)] + G[d \ {Pick(d)}]]
    BY <1>1, <2>1
  <2> QED
    BY <2>2 DEF UsedSums, SumsUp
<1>5. UsedSums(H, s.chunk, S)
  BY <1>3, <1>4
<1> HIDE DEF H
<1>6. H[S] = F[S]
  BY <1>1, <1>3, <1>4, <1>5, SumsAgree
<1> QED
  BY <1>3, <1>6 DEF H, S, g

\* What UsedWordsExact adds up for an arena.
LEMMA UsedInArena ==
  ASSUME AInv, NEW a \in Arenas
  PROVE  UsedIn(a) = UsedBy(ctx, arena[a]) /\ UsedIn(a) \in Int
<1>1. Owns(ctx, arena[a])
  BY SoundOwns DEF AInv
<1>2. UsedIn(a) = MapThenSumSet(LAMBDA b : ctx.chunk[b].used, Own(arena[a])) + arena[a].returned
  BY OwnIsChunksOf DEF UsedIn
<1> DEFINE S == Own(arena[a])
<1>3. MapThenSumSet(LAMBDA b : ctx.chunk[b].used, S)
        = (CHOOSE F : UsedSums(F, ctx.chunk, S))[S]
  BY DEF MapThenSumSet, MapThenFoldSet, UsedSums, Pick
<1>4. (CHOOSE F : UsedSums(F, ctx.chunk, S))[S] = Total(UsedOf(ctx), S)
  BY <1>1, UsedSum
<1> QED
  BY <1>1, <1>2, <1>3, <1>4, OwnUsed DEF UsedBy

\* The same for all arenas.
ArenaSums(F, S) ==
  F = [d \in SUBSET S |-> IF d = {} THEN 0 ELSE UsedIn(Pick(d)) + F[d \ {Pick(d)}]]

\* The fold adds up what all arenas have used.
LEMMA ArenaSum ==
  ASSUME AInv
  PROVE  (CHOOSE F : ArenaSums(F, Arenas))[Arenas] = Uses(ctx, arena)
<1> DEFINE g == [a \in Arenas |-> UsedBy(ctx, arena[a])]
           H == CHOOSE F : ArenaSums(F, Arenas)
<1>1. \A a \in Arenas : g[a] \in Int /\ g[a] = UsedIn(a)
  BY UsedInArena
<1>2. IsFiniteSet(Arenas) /\ Uses(ctx, arena) = Total(g, Arenas)
  BY ArenaAssumption DEF Uses
<1> HIDE DEF g
<1>3. PICK F : AddsUp(F, g, Arenas)
  BY <1>1, <1>2, SumsExist
<1>4. SumsUp(F, g, Arenas) /\ Total(g, Arenas) = F[Arenas]
  BY <1>2, <1>3, AddsUpSumsUp, TotalAddsUp
<1>5. ASSUME NEW G
      PROVE  ArenaSums(G, Arenas) <=> SumsUp(G, g, Arenas)
  <2>1. \A d \in SUBSET Arenas : d # {} => Pick(d) \in Arenas
    BY DEF Pick
  <2>2. [d \in SUBSET Arenas |-> IF d = {} THEN 0 ELSE UsedIn(Pick(d)) + G[d \ {Pick(d)}]]
        = [d \in SUBSET Arenas |-> IF d = {} THEN 0 ELSE g[Pick(d)] + G[d \ {Pick(d)}]]
    BY <1>1, <2>1
  <2> QED
    BY <2>2 DEF ArenaSums, SumsUp
<1>6. ArenaSums(H, Arenas)
  BY <1>4, <1>5
<1> HIDE DEF H
<1>7. H[Arenas] = F[Arenas]
  BY <1>2, <1>4, <1>5, <1>6, SumsAgree
<1> QED
  BY <1>2, <1>4, <1>7 DEF H

\* The counter that all arenas share is the sum over their chunks, those that a
\* dying arena has given back included, whatever is salvaged, deallocated and
\* handed out again.
THEOREM UsedWordsAreCounted == Spec => []UsedWordsExact
<1>1. AInv => UsedWordsExact
  <2> SUFFICES ASSUME AInv
               PROVE  UsedWordsExact
    OBVIOUS
  <2>1. MapThenSumSet(LAMBDA a : UsedIn(a), Arenas) = (CHOOSE F : ArenaSums(F, Arenas))[Arenas]
    BY DEF MapThenSumSet, MapThenFoldSet, ArenaSums, Pick
  <2>2. usedWords = Uses(ctx, arena)
    BY DEF AInv
  <2> QED
    BY <2>1, <2>2, ArenaSum DEF UsedWordsExact
<1>2. Init => AInv
  BY InitArenas
<1> QED
  BY <1>1, <1>2, NextSound, PTL DEF Spec

\* An arena that waits for a new chunk and stops waiting without one has asked
\* get_chunk in this step.
LEMMA StopsByGetChunk ==
  ASSUME AInv, [Next]_vars, NEW a \in Arenas, arena[a].pc = "new", arena'[a].pc = "idle"
  PROVE  GetNewChunk(a)
<1>1. arena \in [Arenas -> ArenaType] /\ arena[a] \in ArenaType
  BY DEF AInv
<1>2. arena' # arena
  OBVIOUS
<1>3. Next
  BY <1>2 DEF vars
<1>4. ~UNCHANGED <<arena, usedWords>>
  BY <1>2
<1>5. PICK b \in Arenas : \/ Birth(b)
                          \/ \E size \in Sizes : Allocate(b, size)
                          \/ \E p \in DOMAIN arena[b].live : Deallocate(b, p)
                          \/ Destroy(b)
                          \/ Step(b)
  BY <1>3, <1>4 DEF Next
<1>6. b = a
  <2> SUFFICES ASSUME b # a
               PROVE  FALSE
    OBVIOUS
  <2>1. \E x : arena' = [arena EXCEPT ![b] = x]
    <3>1. CASE Birth(b) \/ Destroy(b) \/ \E p \in DOMAIN arena[b].live : Deallocate(b, p)
      BY <1>1, <3>1 DEF Birth, Goto, Destroy, Deallocate
    <3>2. CASE \E size \in Sizes : Allocate(b, size)
      BY <1>1, <3>2 DEF Allocate, FromFreeBlocks, FromCurrentChunk, UseCurrent, Serve, Goto
    <3>3. CASE EnlargeCurrent(b) \/ CommitCurrent(b)
      BY <1>1, <3>3 DEF EnlargeCurrent, CommitCurrent, UseCurrent, Serve, Goto
    <3>4. CASE GetNewChunk(b)
      BY <1>1, <3>4 DEF GetNewChunk
    <3>5. CASE AddNewChunk(b)
      BY <1>1, <3>5 DEF AddNewChunk
    <3>6. CASE ReturnFirst(b) \/ Death(b)
      BY <1>1, <3>6 DEF ReturnFirst, Death
    <3> QED
      BY <1>5, <3>1, <3>2, <3>3, <3>4, <3>5, <3>6 DEF Step
  <2> QED
    BY <1>1, <2>1
<1>7. ~(Birth(a) \/ Destroy(a) \/ \E p \in DOMAIN arena[a].live : Deallocate(a, p))
  BY DEF Birth, Destroy, Deallocate
<1>8. ~(\E size \in Sizes : Allocate(a, size))
  BY DEF Allocate
<1>9. ~(EnlargeCurrent(a) \/ CommitCurrent(a) \/ AddNewChunk(a) \/ ReturnFirst(a) \/ Death(a))
  BY DEF EnlargeCurrent, CommitCurrent, AddNewChunk, ReturnFirst, Death
<1> QED
  BY <1>5, <1>6, <1>7, <1>8, <1>9 DEF Step

\* Then there was no address space left, or the request did not fit below the
\* limit.
LEMMA RefusalHasReason ==
  ASSUME ~NewChunksFullyCommitted, AInv, NEW a \in Arenas, GetNewChunk(a),
         arena'[a].pc = "idle", ~Exhausted(Request(a))
  PROVE  ctx.limiter + AlignUp(arena[a].size, GranuleWords) > MaxCommit
<1> DEFINE new == InUse(ctx') \ InUse(ctx)
<1>1. /\ arena[a] \in ArenaType /\ arena \in [Arenas -> ArenaType]
      /\ ArenaSound(ctx, arena[a]) /\ Whole(ctx, 0)
  BY DEF AInv
<1>2. arena[a].size \in RawSizes /\ arena[a].size # 0
  <2>1. arena[a].size \in RawSizes
    BY <1>1 DEF GetNewChunk, ArenaSound, Placed
  <2> QED
    BY <2>1, RawSizesFit
<1>3. PICK r \in LegalRequests : r = Request(a) /\ r.min = arena[a].size
  BY <1>1, <1>2, RequestIsLegal
<1>4. GetChunk(r)
  BY <1>3 DEF GetNewChunk
<1>5. new = {}
  <2> SUFFICES ASSUME new # {}
               PROVE  FALSE
    OBVIOUS
  <2> DEFINE fresh == CHOOSE b \in new : TRUE
  <2>1. arena' = [arena EXCEPT ![a].pc = "taken", ![a].taken = fresh]
    BY DEF GetNewChunk
  <2> HIDE DEF fresh
  <2> QED
    BY <1>1, <2>1 DEF ArenaType
<1>6. InUse(ctx') = InUse(ctx)
  <2>1. Untouched(ctx, ctx', {})
    BY <1>1, <1>4, GetChunkWhole
  <2> QED
    BY <1>5, <2>1 DEF Untouched
<1>7. ctx.limiter + AlignUp(r.min, GranuleWords) > MaxCommit
  BY <1>1, <1>2, <1>3, <1>4, <1>6, GetChunkRefuses
<1> QED
  BY <1>3, <1>7

\* For every geometry, limit and number of arenas: allocate returns NULL only
\* if no address space is left or the request does not fit below the limit,
\* unless new chunks are to be committed as a whole, which may cost more.
THEOREM RefusedAtLimit ==
  ASSUME ~NewChunksFullyCommitted
  PROVE  Spec => FailsOnlyAtLimit
<1>1. ASSUME AInv, [Next]_vars
      PROVE  [\A a \in Arenas :
                arena[a].pc = "new" /\ arena'[a].pc = "idle" =>
                  \/ Exhausted(Request(a))
                  \/ ctx.limiter + AlignUp(arena[a].size, GranuleWords) > MaxCommit]_vars
  BY <1>1, StopsByGetChunk, RefusalHasReason
<1>2. Init => AInv
  BY InitArenas
<1> QED
  BY <1>1, <1>2, NextSound, PTL DEF Spec, FailsOnlyAtLimit
=============================================================================
