----------------------- MODULE MetaspaceContext_proofs -----------------------
(***************************************************************************)
(* Every operation of a context keeps all that its methods keep together   *)
(* (Whole, in ContextMethods_proofs), whoever calls them in whatever       *)
(* order, and is a step of the ChunkLedger, or does not show there.        *)
(***************************************************************************)
EXTENDS MetaspaceContext, ChunkLoops, ContextMethods_proofs

\* The inductive invariant.
IInv == Whole(ctx, foreign)

\* What callers pass.
LEMMA CallersAreLegal == Requests \subseteq LegalRequests /\ AllocationSizes \subseteq Nat \ {0}
BY CallerAssumption

\* A new context is sound, and nothing is charged for the other one.
LEMMA InitWhole == Init => IInv
BY EmptyWhole DEF Init, IInv

\* Another context commits and uncommits: only the limiter moves.
LEMMA ForeignWhole ==
  ASSUME IInv, ForeignCommit \/ ForeignUncommit
  PROVE  IInv' /\ Holdings(ctx') = Holdings(ctx) /\ ctx'.data = ctx.data
<1>1. /\ foreign \in Int /\ Accounts(ctx, foreign) /\ Tiled(ctx) /\ Merged(ctx, {})
      /\ Listed(ctx, {}) /\ Counted(ctx, {}) /\ Backed(ctx) /\ Known(ctx) /\ Lean(ctx)
  BY WholeFacts DEF IInv, Sound
<1>2. GranuleWords \in Nat /\ ctx.committed \in Int /\ ctx.limiter \in Int
  BY <1>1, SizesPositive, AccountsAreInt
<1> DEFINE u(w) == [ctx EXCEPT !.limiter = w]
<1>3. \A w : /\ DOMAIN u(w) = Fields /\ u(w).chunk = ctx.chunk /\ u(w).mask = ctx.mask
             /\ u(w).list = ctx.list /\ u(w).nodes = ctx.nodes /\ u(w).used = ctx.used
             /\ u(w).reserved = ctx.reserved /\ u(w).data = ctx.data
             /\ u(w).committed = ctx.committed /\ u(w).limiter = w
             /\ u(w).listed = ctx.listed
  BY <1>1 DEF Accounts, Fields
<1>4. PICK w : ctx' = u(w)
  BY DEF ForeignCommit, ForeignUncommit
<1>5. /\ ctx'.chunk = ctx.chunk /\ ctx'.mask = ctx.mask /\ ctx'.list = ctx.list
      /\ ctx'.nodes = ctx.nodes /\ ctx'.used = ctx.used /\ ctx'.reserved = ctx.reserved
      /\ ctx'.data = ctx.data /\ ctx'.committed = ctx.committed /\ DOMAIN ctx' = Fields
      /\ ctx'.listed = ctx.listed
  BY <1>3, <1>4
<1>6. ForeignCommit => /\ foreign' = foreign + GranuleWords
                       /\ ctx'.limiter = ctx.limiter + GranuleWords
                       /\ ctx'.limiter <= MaxCommit
  <2>1. ForeignCommit => /\ ctx' = u(ctx.limiter + GranuleWords)
                         /\ ctx.limiter + GranuleWords <= MaxCommit
    BY <1>2, ContextAssumption DEF ForeignCommit, PossibleExpansion
  <2> HIDE DEF u
  <2> QED
    BY <1>3, <2>1 DEF ForeignCommit
<1>7. ForeignUncommit => /\ foreign' = foreign - GranuleWords
                         /\ ctx'.limiter = ctx.limiter - GranuleWords
  <2>1. ForeignUncommit => ctx' = u(ctx.limiter - GranuleWords)
    BY DEF ForeignUncommit
  <2> HIDE DEF u
  <2> QED
    BY <1>3, <2>1 DEF ForeignUncommit
<1>8. foreign' \in Int /\ Accounts(ctx', foreign')
  <2>1. /\ ctx.limiter = ctx.committed + foreign /\ ctx.limiter <= MaxCommit
        /\ MaxCommit \in Int /\ foreign \in Int /\ ctx'.committed = ctx.committed
    BY <1>1, <1>5, ContextAssumption DEF Accounts
  <2>2. /\ foreign' \in Int /\ ctx'.limiter = ctx'.committed + foreign'
        /\ ctx'.limiter <= MaxCommit
    BY <1>2, <1>6, <1>7, <2>1
  <2> QED
    BY <1>1, <1>5, <2>2 DEF Accounts
<1> HIDE DEF u
<1>9. Tiled(ctx')
  BY <1>1, <1>5, SameNodes DEF Tiled
<1>10. Merged(ctx', {}) /\ Listed(ctx', {}) /\ Counted(ctx', {})
  <2>1. Merged(ctx', {})
    BY <1>1, <1>5 DEF Merged, Mergeable, IsFree, Joins, IsChunk
  <2>2. \A l : Idle(ctx', {}, l) = Idle(ctx, {}, l)
    BY <1>5 DEF Idle
  <2>3. Listed(ctx', {}) /\ Counted(ctx', {})
    BY <1>1, <1>5, <2>2 DEF Listed, Counted
  <2> QED
    BY <2>1, <2>3
<1>11. Backed(ctx') /\ Known(ctx') /\ Lean(ctx')
  BY <1>1, <1>5 DEF Backed, Stands, Known, Lean, InUse, SizeOf
<1>12. Holdings(ctx') = Holdings(ctx)
  BY <1>5 DEF Holdings, InUse, SizeOf
<1> QED
  BY <1>5, <1>8, <1>9, <1>10, <1>11, <1>12 DEF IInv, Whole, Sound

-----------------------------------------------------------------------------
(* Every operation is a step of the ledger.                                *)

\* A chunk taken from nobody's words.
LEMMA GetChunkTakes ==
  ASSUME IInv, NEW r \in Requests, GetChunk(r)
  PROVE  /\ Whole(ctx', foreign)
         /\ \/ \E b \in Addresses, size \in Range(WordSize) : Ledger!Take(b, size)
            \/ Holdings(ctx') = Holdings(ctx) /\ ctx'.data = ctx.data
<1>1. r \in LegalRequests
  BY CallersAreLegal
<1>2. /\ Whole(ctx', foreign) /\ ctx'.data = ctx.data
      /\ \E b \in Int : /\ b \notin InUse(ctx) /\ Keeps(ctx, ctx', {b})
                        /\ InUse(ctx') = InUse(ctx) \cup {b} \/ InUse(ctx') = InUse(ctx)
  BY <1>1, GetChunkWhole DEF IInv
<1>3. PICK b \in Int : /\ b \notin InUse(ctx) /\ Keeps(ctx, ctx', {b})
                       /\ InUse(ctx') = InUse(ctx) \cup {b} \/ InUse(ctx') = InUse(ctx)
  BY <1>2
<1>4. \A a \in InUse(ctx) : SizeOf(ctx', a) = SizeOf(ctx, a)
  BY <1>3 DEF Keeps, SizeOf
<1>5. CASE InUse(ctx') = InUse(ctx) \cup {b}
  <2> DEFINE size == SizeOf(ctx', b)
  <2>1. /\ b \in Addresses /\ size \in Range(WordSize)
        /\ \A c \in InUse(ctx) : Words(b, size) \cap Words(c, SizeOf(ctx, c)) = {}
    <3>1. /\ b \in Addresses /\ size \in Range(WordSize)
          /\ \A c \in InUse(ctx') \ {b} : Words(b, size) \cap Words(c, SizeOf(ctx', c)) = {}
      BY <1>2, <1>5, WholeFacts, HoldingsApart
    <3> QED
      BY <1>3, <1>4, <1>5, <3>1
  <2>2. Holdings(ctx') = [c \in DOMAIN Holdings(ctx) \cup {b} |->
                            IF c = b THEN size ELSE Holdings(ctx)[c]]
    BY <1>3, <1>4, <1>5 DEF Holdings
  <2>3. Ledger!Extent(b, size) \cap Ledger!Owned = {}
    <3> HIDE DEF size
    <3>1. Ledger!Owned = UNION {Words(c, SizeOf(ctx, c)) : c \in InUse(ctx)}
      BY DEF Ledger!Owned, Ledger!Extent, Words
    <3>2. Ledger!Extent(b, size) = Words(b, size)
      BY DEF Ledger!Extent, Words
    <3> QED
      BY <2>1, <3>1, <3>2
  <2> HIDE DEF size
  <2>4. Ledger!Take(b, size)
    BY <1>2, <2>2, <2>3 DEF Ledger!Take, Holdings
  <2> QED
    BY <1>2, <2>1, <2>4
<1>6. CASE InUse(ctx') = InUse(ctx)
  <2>1. Holdings(ctx') = Holdings(ctx)
    BY <1>4, <1>6 DEF Holdings
  <2> QED
    BY <1>2, <2>1
<1> QED
  BY <1>3, <1>5, <1>6

\* A chunk given back with what was stored in it, and nothing else.
LEMMA ReturnGives ==
  ASSUME IInv, NEW b \in InUse(ctx), ReturnChunkOp(b)
  PROVE  IInv' /\ Ledger!Give(b)
<1>1. ctx' = ReturnChunk(ctx, b) /\ foreign' = foreign
  BY DEF ReturnChunkOp
<1>2. /\ Whole(ctx', foreign) /\ Keeps(ctx, ctx', {b}) /\ InUse(ctx') = InUse(ctx) \ {b}
      /\ ctx'.data = ctx.data \ Words(b, SizeOf(ctx, b))
  BY <1>1, ReturnedWhole DEF IInv
<1>3. Holdings(ctx') = Ledger!Restrict(Holdings(ctx), DOMAIN Holdings(ctx) \ {b})
  <2>1. \A a \in InUse(ctx') : SizeOf(ctx', a) = SizeOf(ctx, a)
    BY <1>2 DEF Keeps, SizeOf
  <2> QED
    BY <1>2, <2>1 DEF Holdings, Ledger!Restrict
<1>4. Ledger!Give(b)
  BY <1>2, <1>3 DEF Ledger!Give, Ledger!Extent, Words, Holdings
<1> QED
  BY <1>1, <1>2, <1>4 DEF IInv

\* A chunk grows into words that nobody has.
LEMMA EnlargeGrows ==
  ASSUME IInv, NEW b \in InUse(ctx), AttemptEnlargeChunk(b)
  PROVE  IInv' /\ \E size \in Range(WordSize) : Ledger!Grow(b, size)
<1>1. CanEnlarge(ctx, b) /\ ctx' = Enlarge(ctx, b) /\ foreign' = foreign
  BY DEF AttemptEnlargeChunk
<1>2. /\ Whole(ctx', foreign) /\ Keeps(ctx, ctx', {b}) /\ InUse(ctx') = InUse(ctx)
      /\ ctx'.data = ctx.data /\ SizeOf(ctx', b) = 2 * SizeOf(ctx, b)
  BY <1>1, EnlargeWhole DEF IInv
<1> DEFINE size == SizeOf(ctx', b)
<1>3. size > SizeOf(ctx, b)
  <2>1. SizeOf(ctx, b) \in Nat \ {0}
    BY UsedChunk DEF IInv
  <2> QED
    BY <1>2, <2>1
<1>4. \A c \in InUse(ctx) \ {b} : SizeOf(ctx', c) = SizeOf(ctx, c)
  BY <1>2 DEF Keeps, SizeOf
<1>5. /\ size \in Range(WordSize)
      /\ \A c \in InUse(ctx) \ {b} : Words(b, size) \cap Words(c, SizeOf(ctx, c)) = {}
  BY <1>2, <1>4, WholeFacts, HoldingsApart
<1>6. Holdings(ctx') = [Holdings(ctx) EXCEPT ![b] = size]
  BY <1>2, <1>4 DEF Holdings
<1> HIDE DEF size
<1>7. Ledger!Extent(b, size) \cap Ledger!OwnedByOthers(b) = {}
  <2>1. Ledger!OwnedByOthers(b) = UNION {Words(c, SizeOf(ctx, c)) : c \in InUse(ctx) \ {b}}
    BY DEF Ledger!OwnedByOthers, Ledger!Extent, Words
  <2>2. Ledger!Extent(b, size) = Words(b, size)
    BY DEF Ledger!Extent, Words
  <2> QED
    BY <1>5, <2>1, <2>2
<1>8. Ledger!Grow(b, size)
  BY <1>2, <1>3, <1>6, <1>7 DEF Ledger!Grow, Holdings
<1> QED
  BY <1>1, <1>2, <1>5, <1>8 DEF IInv

\* Metadata is stored where none is, in the chunk of the one who stores it.
LEMMA AllocateStores ==
  ASSUME IInv, NEW b \in InUse(ctx), NEW size \in AllocationSizes, Allocate(b, size)
  PROVE  IInv' /\ Ledger!Store(b)
<1> DEFINE used == ctx.chunk[b].used
           new  == Words(b + used, size)
<1>1. /\ ctx' = Bump(ctx, b, size) /\ foreign' = foreign
      /\ used + size <= ctx.chunk[b].committed /\ size \in Nat /\ size # 0
  BY CallersAreLegal DEF Allocate
<1>2. /\ Whole(ctx', foreign) /\ Keeps(ctx, ctx', {b}) /\ InUse(ctx') = InUse(ctx)
      /\ ctx'.chunk[b].level = ctx.chunk[b].level
      /\ ctx'.data = ctx.data \cup new /\ new \subseteq Words(b, SizeOf(ctx, b))
      /\ b + used \in new \ ctx.data
  <2>1. Whole(ctx', foreign) /\ Stored(ctx, ctx', b, size)
    BY <1>1, BumpWhole DEF IInv
  <2> QED
    BY <1>1, <2>1 DEF Stored
<1> HIDE DEF new, used
<1>3. Holdings(ctx') = Holdings(ctx)
  <2>1. \A a \in InUse(ctx) : SizeOf(ctx', a) = SizeOf(ctx, a)
    BY <1>2 DEF Keeps, SizeOf
  <2> QED
    BY <1>2, <2>1 DEF Holdings
<1>4. ctx.data \subseteq ctx'.data /\ ctx'.data # ctx.data
      /\ ctx'.data \ ctx.data \subseteq Words(b, SizeOf(ctx, b))
  BY <1>2
<1>5. Ledger!Store(b)
  BY <1>3, <1>4 DEF Ledger!Store, Ledger!Extent, Words, Holdings
<1> QED
  BY <1>1, <1>2, <1>5 DEF IInv

\* The owner of a chunk may commit ahead of what he stores.
LEMMA EnsureSteady ==
  ASSUME IInv, NEW b \in InUse(ctx), NEW size \in AllocationSizes, EnsureCommitted(b, size)
  PROVE  IInv' /\ Holdings(ctx') = Holdings(ctx) /\ ctx'.data = ctx.data
<1> DEFINE upTo == ctx.chunk[b].used + size
<1>1. /\ ctx.chunk[b].used \in Nat /\ ctx.chunk[b].committed \in Nat /\ size \in Nat
  BY CallersAreLegal, UsedChunk DEF IInv
<1>2. /\ upTo \in Nat /\ ctx.chunk[b].committed <= upTo /\ CanCommit(ctx, b, upTo)
      /\ ctx' = CommitUpTo(ctx, b, upTo) /\ foreign' = foreign
  BY <1>1 DEF EnsureCommitted
<1> HIDE DEF upTo
<1> QED
  BY <1>2, CommitWhole DEF IInv

\* Every step of a context is one of the ledger, or does not show there.
LEMMA StepPromised ==
  ASSUME IInv, [Next]_vars
  PROVE  IInv' /\ [Ledger!Next]_(Ledger!ledger)
<1>1. ASSUME NEW r \in Requests, GetChunk(r), UNCHANGED foreign
      PROVE  IInv' /\ [Ledger!Next]_(Ledger!ledger)
  <2>1. /\ Whole(ctx', foreign)
        /\ \/ \E b \in Addresses, size \in Range(WordSize) : Ledger!Take(b, size)
           \/ Holdings(ctx') = Holdings(ctx) /\ ctx'.data = ctx.data
    BY <1>1, GetChunkTakes
  <2>2. IInv'
    BY <1>1, <2>1 DEF IInv
  <2> QED
    BY <2>1, <2>2 DEF Ledger!Next, Ledger!ledger, Holdings
<1>2. ASSUME NEW b \in InUse(ctx),
             \/ ReturnChunkOp(b)
             \/ AttemptEnlargeChunk(b)
             \/ \E size \in AllocationSizes : Allocate(b, size)
      PROVE  IInv' /\ [Ledger!Next]_(Ledger!ledger)
  <2>1. IInv' /\ \/ Ledger!Store(b) \/ Ledger!Give(b)
                 \/ \E size \in Range(WordSize) : Ledger!Grow(b, size)
    BY <1>2, ReturnGives, EnlargeGrows, AllocateStores
  <2>2. b \in DOMAIN Holdings(ctx)
    BY DEF Holdings
  <2> QED
    BY <2>1, <2>2 DEF Ledger!Next, Holdings
<1>3. ASSUME \/ Purge /\ UNCHANGED foreign
             \/ \E b \in InUse(ctx), size \in AllocationSizes : EnsureCommitted(b, size)
             \/ ForeignCommit
             \/ ForeignUncommit
      PROVE  IInv' /\ [Ledger!Next]_(Ledger!ledger)
  <2>1. IInv' /\ Holdings(ctx') = Holdings(ctx) /\ ctx'.data = ctx.data
    BY <1>3, PurgeWhole, EnsureSteady, ForeignWhole DEF IInv
  <2> QED
    BY <2>1 DEF Ledger!ledger, Holdings
<1>4. CASE UNCHANGED vars
  <2>1. ctx' = ctx /\ foreign' = foreign
    BY <1>4 DEF vars
  <2>2. IInv'
    BY <2>1 DEF IInv
  <2> QED
    BY <2>1, <2>2 DEF Ledger!ledger
<1> QED
  BY <1>1, <1>2, <1>3, <1>4 DEF Next

\* The invariant is inductive.
LEMMA NextWhole == IInv /\ [Next]_vars => IInv'
BY StepPromised

-----------------------------------------------------------------------------
(* What purge reclaims.                                                    *)

\* Where nobody owns a chunk all areas of a node are free root chunks.
LEMMA UnusedNodeIsFree ==
  ASSUME NEW s, NEW other \in Int, Accounts(s, other), Sound(s, {}), InUse(s) = {},
         NEW n \in Range(s.nodes)
  PROVE  NodeIsFree(s, n)
<1> DEFINE w == WordSize[RootLevel]
<1>1. Tiled(s) /\ NodesSound(s) /\ Tiles(s.chunk, Handed(s))
  BY DEF Sound, Tiled
<1>2. n \in Nodes
  <2>1. s.nodes \in Seq(Nodes)
    BY <1>1 DEF NodesSound
  <2> QED
    BY <2>1 DEF Range
<1>3. \A c \in DOMAIN s.chunk : s.chunk[c].state = "free"
  BY ChunkOf DEF InUse, Metachunk
<1> SUFFICES ASSUME NEW area \in Areas(n), area < n * NodeWords + s.used[n]
             PROVE  IsChunk(s, area, RootLevel) /\ IsFree(s, area)
  BY DEF NodeIsFree
<1>4. PICK i \in 0..(RootsPerNode - 1) : area = n * NodeWords + i * w
  BY DEF Areas
<1>5. w \in Nat \ {0} /\ RootsPerNode \in Nat \ {0} /\ NodeWords = RootsPerNode * w
      /\ NodeWords \in Nat \ {0} /\ RootLevel \in Levels
  BY NodeSize, GeometryAssumption
<1>6. i \in Nat /\ i + 1 <= RootsPerNode
  BY <1>5
<1>7. i * w < NodeWords /\ i * w \in Nat
  <2>1. (i + 1) * w <= RootsPerNode * w /\ (i + 1) * w = i * w + w /\ i * w \in Nat
    <3> HIDE DEF w
    <3> QED
      BY <1>5, <1>6
  <2> QED
    BY <1>5, <2>1
<1>8. area \in Nat /\ Block(area, RootLevel) = area /\ Words(area, w) \subseteq Addresses
  BY <1>2, <1>4, <1>6, <1>7, NextRootChunk
<1>9. area \in Words(area, w)
  <2> HIDE DEF w
  <2> QED
    BY <1>5, <1>8 DEF Words
<1>10. area \div NodeWords = n /\ area % NodeWords = i * w
  <2>1. i * w \in 0..(NodeWords - 1) /\ n \in Nat
    BY <1>2, <1>5, <1>7, NodeSize
  <2> HIDE DEF w
  <2> QED
    BY <1>4, <2>1, WordOfNode
<1>11. i * w < s.used[n]
  <2>1. s.used[n] \in Int
    <3>1. PICK j \in Nat : s.used[n] = j * w
      BY <1>1, <1>2 DEF NodesSound
    <3> HIDE DEF w
    <3> QED
      BY <1>5, <3>1
  <2>2. n * NodeWords \in Int
    BY <1>2, <1>5, NodeSize
  <2> DEFINE x == n * NodeWords
             y == i * w
             z == s.used[n]
  <2>3. x \in Int /\ y \in Int /\ z \in Int /\ x + y < x + z
    BY <1>4, <1>7, <2>1, <2>2
  <2> HIDE DEF x, y, z
  <2>4. y < z
    BY <2>3
  <2> QED
    BY <2>4 DEF y, z
<1>12. area \in Handed(s)
  BY <1>8, <1>9, <1>10, <1>11 DEF Handed
<1>13. PICK d \in DOMAIN s.chunk : area \in Extent(s.chunk, d)
  BY <1>1, <1>12 DEF Tiles
<1>14. d \in Nat /\ s.chunk[d].level \in Levels /\ Block(d, s.chunk[d].level) = d
       /\ Extent(s.chunk, d) = Words(d, WordSize[s.chunk[d].level])
  BY <1>1, ChunkOfTiling DEF Extent
<1>15. s.chunk[d].level = RootLevel
  <2>1. RootLevel <= s.chunk[d].level
    BY <1>14 DEF Levels, RootLevel
  <2> QED
    BY <1>3, <1>5, <2>1, IdleBlock
<1>16. d = area
  BY <1>5, <1>8, <1>9, <1>13, <1>14, <1>15, BlocksMeet
<1> QED
  BY <1>3, <1>15, <1>16 DEF IsChunk, IsFree

\* purge of the list of nodes leaves no free node, and nothing at all where
\* all nodes are free.
LEMMA PurgeNodesReclaims ==
  ASSUME NEW s, NEW other \in Int, Accounts(s, other), Tiled(s), Expandable
  PROVE  LET t == PurgeNodes(s) IN
         /\ \A n \in Range(t.nodes) : ~NodeIsFree(t, n)
         /\ (\A n \in Range(s.nodes) : NodeIsFree(s, n)) => t.mask = {}
<1> DEFINE t    == PurgeNodes(s)
           dead == DeadNodes(s)
           gone == {b \in DOMAIN s.chunk : b \div NodeWords \in dead}
<1>1. /\ t.chunk = [a \in DOMAIN s.chunk \ gone |-> s.chunk[a]]
      /\ t.nodes = Keep(s.nodes, Nodes \ dead)
      /\ t.used = [n \in Nodes |-> IF n \in dead THEN 0 ELSE s.used[n]]
      /\ t.mask = s.mask \ (s.mask \cap UNION {NodeGranules(n) : n \in dead})
  <2> HIDE DEF dead
  <2> QED
    BY DEF Accounts, Fields, PurgeNodes, dead
<1> HIDE DEF t, gone
<1>2. ASSUME NEW n \in Range(t.nodes), NodeIsFree(t, n)
      PROVE  FALSE
  <2>1. s.nodes \in Seq(Nodes)
    BY DEF Tiled, NodesSound
  <2>2. n \in Range(s.nodes) /\ n \in Nodes \ dead
    <3> HIDE DEF dead
    <3>1. Range(Keep(s.nodes, Nodes \ dead)) = Range(s.nodes) \cap (Nodes \ dead)
      BY <2>1, KeepFacts
    <3>2. t.nodes = Keep(s.nodes, Nodes \ dead)
      BY <1>1
    <3> QED
      BY <3>1, <3>2
  <2>3. ~NodeIsFree(s, n)
    BY <2>2 DEF DeadNodes
  <2>4. t.used[n] = s.used[n]
    <3> HIDE DEF dead
    <3> QED
      BY <1>1, <2>2
  <2>5. \A area \in DOMAIN t.chunk : area \in DOMAIN s.chunk /\ t.chunk[area] = s.chunk[area]
    BY <1>1
  <2> QED
    BY <1>2, <2>3, <2>4, <2>5 DEF NodeIsFree, IsChunk, IsFree
<1>3. ASSUME \A n \in Range(s.nodes) : NodeIsFree(s, n)
      PROVE  t.mask = {}
  <2>1. dead = Range(s.nodes)
    BY <1>3 DEF DeadNodes
  <2>2. s.mask \subseteq UNION {NodeGranules(n) : n \in Range(s.nodes)}
    BY DEF Tiled, LiveGranules
  <2> HIDE DEF dead
  <2> QED
    BY <1>1, <2>1, <2>2
<1> QED
  BY <1>2, <1>3 DEF t

\* Uncommitting what is listed makes no node free.
LEMMA UncommitListedNodes ==
  ASSUME NEW s, NEW other \in Int, Accounts(s, other)
  PROVE  LET t == UncommitListed(s) IN
         t.nodes = s.nodes /\ \A n : NodeIsFree(t, n) => NodeIsFree(s, n)
<1> DEFINE t       == UncommitListed(s)
           walked  == UNION {Range(s.list[l]) : l \in RootLevel..GranuleLevel}
           bare(a) == [s.chunk[a] EXCEPT !.committed = 0]
<1>1. /\ t.chunk = [a \in DOMAIN s.chunk |-> IF a \in walked THEN bare(a) ELSE s.chunk[a]]
      /\ t.nodes = s.nodes /\ t.used = s.used
  <2> HIDE DEF walked
  <2> QED
    BY DEF Accounts, Fields, UncommitListed, walked
<1> HIDE DEF t, walked
<1>2. ASSUME NEW a \in DOMAIN s.chunk
      PROVE  t.chunk[a].level = s.chunk[a].level /\ t.chunk[a].state = s.chunk[a].state
  <2>1. s.chunk[a] \in Metachunk
    BY ChunkOf
  <2>2. bare(a).level = s.chunk[a].level /\ bare(a).state = s.chunk[a].state
    BY <2>1 DEF Metachunk
  <2> QED
    BY <1>1, <2>2
<1>3. DOMAIN t.chunk = DOMAIN s.chunk /\ t.nodes = s.nodes /\ t.used = s.used
  BY <1>1
<1>4. \A n : NodeIsFree(t, n) => NodeIsFree(s, n)
  BY <1>2, <1>3 DEF NodeIsFree, IsChunk, IsFree
<1> QED
  BY <1>3, <1>4 DEF t

\* purge leaves no node that nobody uses.
LEMMA PurgeKeeps ==
  ASSUME NEW other, Whole(ctx, other), Purge
  PROVE  /\ Expandable => \A n \in Range(ctx'.nodes) : ~NodeIsFree(ctx', n)
         /\ InUse(ctx') = InUse(ctx)
         /\ InUse(ctx) = {} /\ (Expandable \/ UncommitFreeChunks) => ctx'.mask = {}
<1> DEFINE s == PurgeNodes(ctx)
<1>1. other \in Int /\ Accounts(ctx, other) /\ Sound(ctx, {}) /\ Tiled(ctx)
  BY WholeFacts
<1>2. Accounts(s, other) /\ Keeps(ctx, s, {})
  BY <1>1, PurgeNodesSound, PurgeNodesKeeps
<1>3. ctx' = s \/ ctx' = UncommitListed(s)
  BY DEF Purge
<1>4. Expandable => /\ \A n \in Range(s.nodes) : ~NodeIsFree(s, n)
                    /\ InUse(ctx) = {} => s.mask = {}
  BY <1>1, PurgeNodesReclaims, UnusedNodeIsFree
<1> HIDE DEF s
<1> DEFINE u == UncommitListed(s)
<1>5. /\ Keeps(s, u, {}) /\ u.mask \subseteq s.mask /\ u.nodes = s.nodes
      /\ \A n : NodeIsFree(u, n) => NodeIsFree(s, n)
  BY <1>1, <1>2, UncommitListedKeeps, UncommitListedNodes
<1> HIDE DEF u
<1>6. InUse(ctx') = InUse(ctx) /\ Lean(ctx')
  BY PurgeWhole, WholeFacts DEF Keeps
<1>7. UncommitFreeChunks /\ InUse(ctx) = {} => ctx'.mask = {}
  BY <1>6 DEF Lean
<1>8. Expandable => /\ \A n \in Range(ctx'.nodes) : ~NodeIsFree(ctx', n)
                    /\ InUse(ctx) = {} => ctx'.mask = {}
  BY <1>3, <1>4, <1>5 DEF u
<1> QED
  BY <1>6, <1>7, <1>8

-----------------------------------------------------------------------------
(* What follows for every behaviour.                                       *)

\* The limiter, the counter of the VirtualSpaceList and the commit masks agree
\* after any sequence of operations, and the commit limit is never exceeded.
THEOREM CommitIsCharged == Spec => []CommitCharge
<1>1. IInv => CommitCharge
  BY DEF IInv, Whole, Accounts, CommitCharge
<1> QED
  BY <1>1, InitWhole, NextWhole, PTL DEF Spec

\* The counters of the free lists agree with their chunks after any sequence of
\* operations, the failing ones among them, also when purge drops the chunks of
\* dead nodes in bulk.
THEOREM CountersAreExact == Spec => []ListedWordsExact
<1>1. IInv => ListedWordsExact
  BY CountedExact DEF IInv
<1> QED
  BY <1>1, InitWhole, NextWhole, PTL DEF Spec

\* The other context has charged whole granules, and never less than none.
ForeignGranules == \E n \in Nat : foreign = n * GranuleWords

\* At first the other context has committed whole granules.
LEMMA InitForeign == Init => ForeignGranules
<1> SUFFICES ASSUME Init
             PROVE  ForeignGranules
  OBVIOUS
<1>1. foreign = 0 * GranuleWords /\ 0 \in Nat
  BY SizesPositive DEF Init
<1> QED
  BY <1>1 DEF ForeignGranules

\* It commits and uncommits whole granules.
LEMMA NextForeign == ForeignGranules /\ [Next]_vars => ForeignGranules'
<1> SUFFICES ASSUME ForeignGranules, [Next]_vars
             PROVE  ForeignGranules'
  OBVIOUS
<1>1. PICK n \in Nat : foreign = n * GranuleWords
  BY DEF ForeignGranules
<1>2. GranuleWords \in Nat \ {0}
  BY SizesPositive
<1>3. /\ n * GranuleWords + GranuleWords = (n + 1) * GranuleWords
      /\ n * GranuleWords - GranuleWords = (n - 1) * GranuleWords
  <2> HIDE DEF GranuleWords
  <2> QED
    BY <1>2
<1>4. CASE foreign' = foreign
  BY <1>1, <1>4 DEF ForeignGranules
<1>5. CASE ForeignCommit
  <2>1. foreign' = (n + 1) * GranuleWords /\ n + 1 \in Nat
    BY <1>1, <1>3, <1>5 DEF ForeignCommit
  <2> QED
    BY <2>1 DEF ForeignGranules
<1>6. CASE ForeignUncommit
  <2>1. n # 0
    BY <1>1, <1>2, <1>6 DEF ForeignUncommit
  <2>2. foreign' = (n - 1) * GranuleWords /\ n - 1 \in Nat
    BY <1>1, <1>3, <1>6, <2>1 DEF ForeignUncommit
  <2> QED
    BY <2>2 DEF ForeignGranules
<1>7. foreign' = foreign \/ ForeignCommit \/ ForeignUncommit
  BY DEF Next, vars, ReturnChunkOp, AttemptEnlargeChunk, EnsureCommitted, Allocate
<1> QED
  BY <1>4, <1>5, <1>6, <1>7

\* For every geometry and every sequence of operations: each field of the
\* context keeps its type; lines, lists' counters, the words charged and those
\* reserved never fall below zero.
THEOREM TypesAreKept == Spec => []TypeOK
<1>1. IInv /\ ForeignGranules => TypeOK
  <2> SUFFICES ASSUME IInv, ForeignGranules
               PROVE  TypeOK
    OBVIOUS
  <2>1. foreign \in Nat
    BY SizesPositive DEF ForeignGranules
  <2>2. ctx.committed \in Nat /\ ctx.limiter = ctx.committed + foreign
    BY WholeTypes DEF IInv, Whole, Accounts
  <2>3. ctx.limiter \in Nat
    BY <2>1, <2>2
  <2> QED
    BY <2>1, <2>2, <2>3, WholeTypes DEF IInv, TypeOK
<1> QED
  BY <1>1, InitWhole, NextWhole, InitForeign, NextForeign, PTL DEF Spec

\* For every geometry and every sequence of operations: the areas taken from
\* live nodes are tiled by chunks, without overlap and without a gap.
THEOREM ChunksTile == Spec => []AreasTiled
<1>1. IInv => AreasTiled
  BY SoundAreas DEF IInv, Whole
<1> QED
  BY <1>1, InitWhole, NextWhole, PTL DEF Spec

\* For every geometry and every sequence of operations: no two free buddies
\* are left unmerged.
THEOREM FreeBuddiesMerge == Spec => []IdeallyMerged
<1>1. IInv => IdeallyMerged
  BY SoundAreas DEF IInv, Whole
<1> QED
  BY <1>1, InitWhole, NextWhole, PTL DEF Spec

\* For every geometry and every sequence of operations: each free chunk is once
\* in the list of its level, no chunk in use is in any, and no chunk with
\* committed words hides behind one without.
THEOREM ListsAreExact == Spec => []FreelistsExact
<1>1. IInv => FreelistsExact
  BY ListedExact DEF IInv, Whole
<1> QED
  BY <1>1, InitWhole, NextWhole, PTL DEF Spec

\* For every geometry and every sequence of operations: what lies below the
\* commit line of a chunk is committed, through all splitting and merging.
THEOREM LinesAreBacked == Spec => []CommitLineBacked
<1>1. IInv => CommitLineBacked
  BY BackedLines DEF IInv, Whole
<1> QED
  BY <1>1, InitWhole, NextWhole, PTL DEF Spec

\* For every geometry and every sequence of operations: no commit maps fresh
\* memory over words that a loader has stored metadata in.
THEOREM DataStaysIntact == Spec => []LiveDataIntact
<1>1. IInv => LiveDataIntact
  BY BackedLines DEF IInv, Whole
<1> QED
  BY <1>1, InitWhole, NextWhole, PTL DEF Spec

\* For every geometry and every sequence of operations: with
\* uncommit_free_chunks, a granule is committed only while a chunk in use lies
\* in it, however chunks smaller than a granule are returned and merged.
THEOREM FreedIsUncommitted == Spec => []NoIdleCommit
<1>1. IInv => NoIdleCommit
  BY LeanIsLean DEF IInv, Whole
<1> QED
  BY <1>1, InitWhole, NextWhole, PTL DEF Spec

\* For every geometry, every limit and every sequence of operations: what
\* get_chunk gives, what attempt_enlarge_chunk adds to it and what
\* allocate_from_chunk stores there is touched by nobody but the owner of the
\* chunk, until he returns it.
THEOREM LedgerKept == Spec => ImplementsLedger
<1>1. Init => Ledger!Init
  BY DEF Init, Ledger!Init, EmptyContext, InUse
<1>2. IInv /\ [Next]_vars => [Ledger!Next]_(Ledger!ledger)
  BY StepPromised
<1> QED
  BY InitWhole, NextWhole, <1>1, <1>2, PTL DEF Spec, ImplementsLedger, Ledger!Spec

\* For every geometry and every sequence of operations: purge removes every
\* node without a chunk in use, also those behind others in the list, and
\* commits nothing to a context whose chunks are all free.
THEOREM PurgeKeepsPromise == Spec => PurgeReclaims
<1>1. ASSUME IInv, [Next]_vars
      PROVE  [Purge => /\ Expandable => \A n \in Range(ctx'.nodes) : ~NodeIsFree(ctx', n)
                       /\ InUse(ctx') = InUse(ctx)
                       /\ InUse(ctx) = {} /\ (Expandable \/ UncommitFreeChunks)
                            => ctx'.mask = {} ]_vars
  BY <1>1, PurgeKeeps DEF IInv
<1> QED
  BY InitWhole, NextWhole, <1>1, PTL DEF Spec, PurgeReclaims

\* For every geometry and every sequence of operations: get_chunk hands out a
\* chunk of the level and with the committed words it was asked for, or leaves
\* every chunk, what is committed and what is charged as it was, although it
\* has cut a chunk in vain.
THEOREM RequestsHonoured == Spec => RequestHonoured
<1>1. ASSUME IInv, [Next]_vars
      PROVE  [\A r \in Requests : GetChunk(r) => Granted(r) # {} \/ Restored]_vars
  <2> SUFFICES ASSUME NEW r \in Requests, GetChunk(r)
               PROVE  Granted(r) # {} \/ Restored
    OBVIOUS
  <2>1. /\ Whole(ctx, foreign) /\ Whole(ctx', foreign)
        /\ \E b \in Int : /\ b \notin InUse(ctx)
                          /\ Serving(ctx', b, r) \/ (AsBefore(ctx, ctx') /\ ctx'.mask = ctx.mask)
    BY <1>1, CallersAreLegal, GetChunkWhole DEF IInv
  <2>2. CASE AsBefore(ctx, ctx') /\ ctx'.mask = ctx.mask
    <3>1. ctx'.limiter = ctx.limiter
      BY <2>1, <2>2 DEF Whole, Accounts
    <3> QED
      BY <2>2, <3>1 DEF Restored, AsBefore
  <2>3. CASE \E b \in Int : b \notin InUse(ctx) /\ Serving(ctx', b, r)
    BY <2>3 DEF Serving, Granted
  <2> QED
    BY <2>1, <2>2, <2>3
<1> QED
  BY InitWhole, NextWhole, <1>1, PTL DEF Spec, RequestHonoured

-----------------------------------------------------------------------------
(* The loops of split and merge.                                           *)

\* s with other chunks and other lists.
Put(s, chunk, list, listed) ==
  [s EXCEPT !.chunk = chunk, !.list = list, !.listed = listed]

\* What is put last counts.
LEMMA PutTwice ==
  ASSUME NEW s, DOMAIN s = Fields, NEW f, NEW g, NEW h, NEW f2, NEW g2, NEW h2
  PROVE  /\ Put(Put(s, f, g, h), f2, g2, h2) = Put(s, f2, g2, h2)
         /\ Put(s, f, g, h).chunk = f /\ Put(s, f, g, h).list = g
         /\ Put(s, f, g, h).listed = h /\ DOMAIN Put(s, f, g, h) = Fields
BY DEF Put, Fields

\* The first part of a chunk that is halved, and a free chunk like the second.
FirstHalf(c, k) == [c EXCEPT !.level = k, !.committed = Min({c.committed, WordSize[k]})]
FreeChunk(k, w) == [FreshChunk(k) EXCEPT !.committed = w]

\* The chunks after the one at b was halved to level k.
HalvedChunks(f, b, k, w) ==
  [a \in DOMAIN f \cup {b + WordSize[k]} |->
     IF a = b THEN FirstHalf(f[b], k)
     ELSE IF a = b + WordSize[k] THEN FreeChunk(k, w) ELSE f[a]]

\* One round of the split loop, field by field: it sets commit lines one by
\* one, which comes to the same.
LEMMA HalveShape ==
  ASSUME NEW s, DOMAIN s = Fields, NEW b \in DOMAIN s.chunk, s.chunk[b] \in Metachunk,
         b \in Nat, NEW l \in Levels, s.chunk[b].level = l, NEW k \in Levels, k = l + 1,
         b + WordSize[k] \notin DOMAIN s.chunk,
         NEW w, w = IF s.chunk[b].committed > WordSize[k]
                      THEN CommitLine(s.chunk[b].committed - WordSize[k], k) ELSE 0
  PROVE  Halve(s, b) = Put(s, HalvedChunks(s.chunk, b, k, w),
                           [s.list EXCEPT ![k] = Push(@, b + WordSize[k], w)],
                           [s.listed EXCEPT ![k] = @ + w])
<1> DEFINE c        == s.chunk[b]
           half     == WordSize[k]
           splinter == b + half
           first    == [c EXCEPT !.level = @ + 1]
           f        == [a \in DOMAIN s.chunk \cup {splinter} |->
                          IF a = b THEN first
                          ELSE IF a = splinter THEN FreshChunk(k) ELSE s.chunk[a]]
           cut      == [s EXCEPT !.chunk = f]
           lined    == IF c.committed > half
                         THEN SetCommitted(SetCommitted(cut, b, half), splinter, c.committed - half)
                         ELSE SetCommitted(cut, splinter, 0)
           g        == HalvedChunks(s.chunk, b, k, w)
<1>1. /\ half \in Nat \ {0} /\ k \in Int /\ l \in Int /\ splinter # b /\ c.committed \in Int
      /\ splinter \notin DOMAIN s.chunk
  BY SizesPositive, LevelRanges DEF Metachunk
<1>2. CommitLine(half, k) = half /\ CommitLine(0, k) = 0
  <2>1. AlignUp(half, GranuleWords) \in Nat /\ half <= AlignUp(half, GranuleWords)
    BY <1>1, SizesPositive, AlignUpBounds
  <2>2. CommitLine(half, k) = half
    BY <1>1, <2>1, MinOfTwo DEF CommitLine
  <2>3. CommitLine(0, k) \in Nat /\ CommitLine(0, k) <= AlignUp(0, GranuleWords)
    BY CommitLineFacts
  <2>4. AlignUp(0, GranuleWords) = 0
    <3>1. GranuleWords \in Nat \ {0}
      BY SizesPositive
    <3>2. (0 + GranuleWords - 1) \div GranuleWords = 0
      BY <3>1
    <3> QED
      BY <3>1, <3>2 DEF AlignUp
  <2> QED
    BY <2>2, <2>3, <2>4
<1>3. first.level = k /\ FreshChunk(k).level = k /\ FreshChunk(k).committed = 0
  BY <1>1 DEF FreshChunk, Metachunk
<1>4. /\ f[b] = first /\ f[splinter] = FreshChunk(k)
      /\ DOMAIN f = DOMAIN s.chunk \cup {splinter}
      /\ \A a \in DOMAIN s.chunk : a # b => f[a] = s.chunk[a]
  <2> HIDE DEF first, splinter
  <2> QED
    BY <1>1
<1>5. lined = [s EXCEPT !.chunk = g]
  <2> HIDE DEF first, half, splinter, f
  <2>1. cut.chunk = f /\ DOMAIN cut = Fields
    BY DEF Fields
  <2>2. CASE c.committed > half
    <3> DEFINE f1 == [f EXCEPT ![b].committed = half]
               f2 == [f1 EXCEPT ![splinter].committed = w]
    <3>1. SetCommitted(cut, b, half) = [s EXCEPT !.chunk = f1]
      <4>1. SetCommitted(cut, b, half) = [cut EXCEPT !.chunk[b].committed = half]
        BY <1>2, <1>3, <1>4, <2>1 DEF SetCommitted
      <4> QED
        BY <4>1, <2>1 DEF Fields
    <3>2. f1[splinter].level = k /\ f1[b] = [first EXCEPT !.committed = half]
      BY <1>1, <1>3, <1>4
    <3>3. SetCommitted([s EXCEPT !.chunk = f1], splinter, c.committed - half)
            = [s EXCEPT !.chunk = f2]
      <4> DEFINE s1 == [s EXCEPT !.chunk = f1]
      <4>1. s1.chunk = f1 /\ DOMAIN s1 = Fields
        BY DEF Fields
      <4>2. CommitLine(c.committed - half, k) = w
        BY <2>2 DEF half
      <4>3. SetCommitted(s1, splinter, c.committed - half)
              = [s1 EXCEPT !.chunk[splinter].committed = w]
        <5> HIDE DEF f1, s1
        <5> QED
          BY <3>2, <4>1, <4>2 DEF SetCommitted
      <4>4. [s1 EXCEPT !.chunk[splinter].committed = w] = [s1 EXCEPT !.chunk = f2]
        <5> HIDE DEF f1, s1
        <5> QED
          BY <4>1 DEF Fields
      <4>5. [s1 EXCEPT !.chunk = f2] = [s EXCEPT !.chunk = f2]
        <5> HIDE DEF f1, f2
        <5> QED
          BY DEF Fields
      <4> QED
        BY <4>3, <4>4, <4>5
    <3>4. f2 = g
      <4>1. [first EXCEPT !.committed = half] = FirstHalf(c, k)
        <5>1. Min({c.committed, half}) = half
          BY <1>1, <2>2, MinOfTwo
        <5> QED
          BY <1>1, <5>1 DEF FirstHalf, first, Metachunk, half
      <4>2. [FreshChunk(k) EXCEPT !.committed = w] = FreeChunk(k, w)
        BY DEF FreeChunk
      <4>3. f1 = [a \in DOMAIN s.chunk \cup {splinter} |->
                    IF a = b THEN FirstHalf(c, k) ELSE f[a]]
        BY <1>1, <1>4, <4>1
      <4>4. f2 = [a \in DOMAIN s.chunk \cup {splinter} |->
                    IF a = splinter THEN FreeChunk(k, w) ELSE f1[a]]
        <5> HIDE DEF f1
        <5>1. DOMAIN f1 = DOMAIN s.chunk \cup {splinter} /\ f1[splinter] = FreshChunk(k)
          BY <1>1, <1>4, <4>3
        <5> QED
          BY <4>2, <5>1
      <4> HIDE DEF f1, f2
      <4> QED
        BY <1>1, <1>4, <4>3, <4>4 DEF HalvedChunks, splinter, half
    <3> QED
      BY <2>2, <3>1, <3>3, <3>4
  <2>3. CASE ~(c.committed > half)
    <3> DEFINE f1 == [f EXCEPT ![splinter].committed = 0]
    <3>1. SetCommitted(cut, splinter, 0) = [s EXCEPT !.chunk = f1]
      <4>1. SetCommitted(cut, splinter, 0) = [cut EXCEPT !.chunk[splinter].committed = 0]
        BY <1>2, <1>3, <1>4, <2>1 DEF SetCommitted
      <4> QED
        BY <4>1, <2>1 DEF Fields
    <3>2. f1 = g
      <4>1. first = FirstHalf(c, k)
        <5>1. Min({c.committed, half}) = c.committed
          BY <1>1, <2>3, MinOfTwo
        <5> QED
          BY <1>1, <5>1 DEF FirstHalf, first, Metachunk, half
      <4>2. [FreshChunk(k) EXCEPT !.committed = 0] = FreeChunk(k, w) /\ w = 0
        BY <2>3 DEF FreeChunk, half
      <4>3. f1 = [a \in DOMAIN s.chunk \cup {splinter} |->
                    IF a = splinter THEN FreeChunk(k, w) ELSE f[a]]
        BY <1>1, <1>4, <4>2
      <4> HIDE DEF f1
      <4> QED
        BY <1>1, <1>4, <4>1, <4>3 DEF HalvedChunks, splinter, half
    <3> QED
      BY <2>3, <3>1, <3>2
  <2> QED
    BY <2>2, <2>3
<1>6. Halve(s, b) = Enlist(lined, splinter)
  <2>1. c.level + 1 = k
    OBVIOUS
  <2> HIDE DEF lined
  <2> QED
    BY <2>1 DEF Halve, lined, SetCommitted
<1>7. g[splinter].level = k /\ g[splinter].committed = w
  <2>1. g[splinter] = FreeChunk(k, w)
    <3> QED
      BY <1>1 DEF HalvedChunks
  <2> HIDE DEF g
  <2> QED
    BY <2>1 DEF FreeChunk, FreshChunk
<1>8. Enlist([s EXCEPT !.chunk = g], splinter)
        = Put(s, g, [s.list EXCEPT ![k] = Push(@, splinter, w)], [s.listed EXCEPT ![k] = @ + w])
  <2> DEFINE u == [s EXCEPT !.chunk = g]
  <2>1. u.chunk = g /\ u.list = s.list /\ u.listed = s.listed /\ DOMAIN u = Fields
    BY DEF Fields
  <2> HIDE DEF g, splinter
  <2>2. Enlist(u, splinter) = [u EXCEPT !.list[k] = Push(@, splinter, w), !.listed[k] = @ + w]
    <3> HIDE DEF u
    <3> QED
      BY <1>7, <2>1 DEF Enlist
  <2> QED
    BY <2>1, <2>2 DEF Put, Fields
<1> QED
  BY <1>5, <1>6, <1>8

\* The closed form of split, whole chunks at a time.
SplitForm(s, t, b, target) ==
  LET cuts == Cuts(s, b, target) IN
  /\ t = Put(s, t.chunk, t.list, t.listed)
  /\ t.chunk = [a \in DOMAIN s.chunk \cup Pieces(s, b, target) |-> t.chunk[a]]
  /\ t.chunk[b] = FirstHalf(s.chunk[b], target)
  /\ \A a \in DOMAIN s.chunk : a # b => t.chunk[a] = s.chunk[a]
  /\ \A k \in cuts : /\ b + WordSize[k] \notin DOMAIN s.chunk
                     /\ t.chunk[b + WordSize[k]] = FreeChunk(k, Spill(s, b, k))
  /\ t.list = [k \in Levels |-> IF k \in cuts
                                  THEN Push(s.list[k], b + WordSize[k], Spill(s, b, k))
                                  ELSE s.list[k]]
  /\ t.listed = [k \in Levels |-> IF k \in cuts THEN s.listed[k] + Spill(s, b, k)
                                                ELSE s.listed[k]]

\* Split leaves the pieces that split_free_chunk promises.
LEMMA SplitHasForm ==
  ASSUME NEW s, NEW other \in Int, Accounts(s, other), NEW H, Tiles(s.chunk, H),
         NEW b \in DOMAIN s.chunk, NEW target \in Levels, s.chunk[b].level <= target
  PROVE  SplitForm(s, Split(s, b, target), b, target)
<1> DEFINE c           == s.chunk[b]
           cuts        == Cuts(s, b, target)
           splinter(k) == b + WordSize[k]
           cutOf(a)    == CHOOSE k \in cuts : a = splinter(k)
           D           == DOMAIN s.chunk \cup Pieces(s, b, target)
           f           == [a \in D |-> IF a = b THEN FirstHalf(c, target)
                                       ELSE IF a \in DOMAIN s.chunk THEN s.chunk[a]
                                       ELSE FreeChunk(cutOf(a), Spill(s, b, cutOf(a)))]
           list        == [k \in Levels |-> IF k \in cuts
                                              THEN Push(s.list[k], splinter(k), Spill(s, b, k))
                                              ELSE s.list[k]]
           listed      == [k \in Levels |-> IF k \in cuts THEN s.listed[k] + Spill(s, b, k)
                                                          ELSE s.listed[k]]
           t           == Split(s, b, target)
<1>1. c.level \in Levels /\ c.level \in Nat /\ cuts \subseteq Levels
  <2>1. c.level \in Levels /\ c.level \in Nat
    BY ChunkOfTiling, LevelRanges
  <2> QED
    BY <2>1, LevelRanges DEF Cuts
<1>2. \A k \in cuts : splinter(k) \notin DOMAIN s.chunk
  BY SplitShape DEF SplitSpec
<1>3. \A k \in cuts : cutOf(splinter(k)) = k
  <2> SUFFICES ASSUME NEW k \in cuts, NEW j \in cuts, splinter(k) = splinter(j)
               PROVE  k = j
    OBVIOUS
  <2>1. /\ WordSize[k] \in Nat \ {0} /\ WordSize[j] \in Nat \ {0} /\ k \in Nat /\ j \in Nat
        /\ WordSize[k] = WordSize[j]
    <3>1. b \in Nat
      BY ChunkOfTiling
    <3> QED
      BY <1>1, <3>1, SizesPositive, LevelRanges
  <2>2. /\ k < j => 2 * WordSize[j] <= WordSize[k]
        /\ j < k => 2 * WordSize[k] <= WordSize[j]
    BY <1>1, <2>1, SizesFall
  <2> QED
    BY <2>1, <2>2
<1>4. t = Put(s, f, list, listed)
  BY DEF Put, Split, Cuts, Pieces, Spill, FirstHalf, FreeChunk
<1>5. /\ t.chunk = f /\ t.list = list /\ t.listed = listed
  <2> HIDE DEF f, list, listed, t
  <2> QED
    BY <1>4, PutTwice DEF Accounts
<1>6. /\ f = [a \in D |-> f[a]] /\ f[b] = FirstHalf(c, target)
      /\ \A a \in DOMAIN s.chunk : a # b => f[a] = s.chunk[a]
  <2> HIDE DEF c, cutOf
  <2> QED
    OBVIOUS
<1>7. \A k \in cuts : f[splinter(k)] = FreeChunk(k, Spill(s, b, k))
  <2> SUFFICES ASSUME NEW k \in cuts
               PROVE  f[splinter(k)] = FreeChunk(k, Spill(s, b, k))
    OBVIOUS
  <2>1. splinter(k) \in D /\ splinter(k) \notin DOMAIN s.chunk /\ splinter(k) # b
    BY <1>2 DEF Pieces
  <2>2. cutOf(splinter(k)) = k
    BY <1>3
  <2> HIDE DEF c, cutOf, splinter, D
  <2> QED
    BY <2>1, <2>2
<1> HIDE DEF f, t, cutOf
<1>8. t = Put(s, t.chunk, t.list, t.listed)
  <2> HIDE DEF list, listed
  <2> QED
    BY <1>4, <1>5
<1>9. t.chunk = [a \in D |-> t.chunk[a]]
  <2> HIDE DEF D
  <2> QED
    BY <1>5, <1>6
<1> QED
  BY <1>2, <1>5, <1>6, <1>7, <1>8, <1>9 DEF SplitForm, t

\* The closed form keeps up with the loop: one more cut is one more round.
LEMMA SplitRound ==
  ASSUME NEW s, NEW other \in Int, Accounts(s, other), NEW H, Tiles(s.chunk, H),
         DOMAIN s.list = Levels, DOMAIN s.listed = Levels,
         NEW b \in DOMAIN s.chunk, NEW k \in Levels, s.chunk[b].level <= k,
         k + 1 \in Levels, NEW t,
         \/ t = Split(s, b, k)
         \/ t = s /\ k = s.chunk[b].level /\ s.chunk[b].committed <= WordSize[k]
  PROVE  Halve(t, b) = Split(s, b, k + 1)
<1> DEFINE c    == s.chunk[b]
           l    == c.level
           n    == k + 1
           half == WordSize[n]
           u    == Split(s, b, n)
           w    == Spill(s, b, n)
<1>1. /\ b \in Nat /\ c \in Metachunk /\ l \in Levels /\ l \in Int /\ k \in Int /\ n \in Levels
      /\ n \in Int /\ c.committed \in Int
  <2>1. b \in Nat /\ c \in Metachunk /\ l \in Levels
    BY ChunkOfTiling
  <2> QED
    BY <2>1, LevelRanges DEF Metachunk
<1>2. half \in Nat /\ WordSize[k] \in Nat /\ 2 * half <= WordSize[k] /\ half > 0
  BY <1>1, SizesPositive, SizesFall
<1>3. /\ DOMAIN s = Fields
      /\ Cuts(s, b, n) = Cuts(s, b, k) \cup {n} /\ n \notin Cuts(s, b, k)
      /\ Cuts(s, b, k) \subseteq Levels
  BY <1>1, LevelRanges DEF Cuts, Accounts
<1>4. SplitForm(s, u, b, n)
  BY <1>1, SplitHasForm
<1>5. t = Split(s, b, k) => SplitForm(s, t, b, k)
  BY SplitHasForm
<1> HIDE DEF u, n
<1>6. Pieces(s, b, n) = Pieces(s, b, k) \cup {b + half}
  BY <1>3 DEF Pieces
<1>7. \A j \in Cuts(s, b, k) : b + WordSize[j] # b + half
  <2> SUFFICES ASSUME NEW j \in Cuts(s, b, k)
               PROVE  b + WordSize[j] # b + half
    OBVIOUS
  <2>1. j \in Levels /\ j < n
    BY <1>1, <1>3 DEF Cuts, n
  <2>2. WordSize[j] \in Nat /\ 2 * half <= WordSize[j]
    BY <1>1, <2>1, SizesPositive, SizesFall
  <2> QED
    BY <1>1, <1>2, <2>2
<1>8. /\ DOMAIN t = Fields
      /\ DOMAIN t.chunk = DOMAIN s.chunk \cup Pieces(s, b, k)
      /\ t.chunk[b] = FirstHalf(c, k)
      /\ \A a \in DOMAIN s.chunk : a # b => t.chunk[a] = s.chunk[a]
      /\ \A j \in Cuts(s, b, k) : t.chunk[b + WordSize[j]] = FreeChunk(j, Spill(s, b, j))
      /\ t = s \/ t = Put(s, t.chunk, t.list, t.listed)
      /\ DOMAIN t.list = Levels /\ DOMAIN t.listed = Levels
      /\ \A j \in Levels :
           /\ t.list[j] = IF j \in Cuts(s, b, k)
                             THEN Push(s.list[j], b + WordSize[j], Spill(s, b, j)) ELSE s.list[j]
           /\ t.listed[j] = IF j \in Cuts(s, b, k) THEN s.listed[j] + Spill(s, b, j)
                                                   ELSE s.listed[j]
  <2>1. CASE t = Split(s, b, k)
    <3>1. SplitForm(s, t, b, k)
      BY <1>5, <2>1
    <3>2. DOMAIN t = Fields
      <4>1. t = Put(s, t.chunk, t.list, t.listed)
        BY <3>1 DEF SplitForm
      <4> QED
        BY <1>3, <4>1, PutTwice
    <3>3. DOMAIN t.chunk = DOMAIN s.chunk \cup Pieces(s, b, k)
      BY <3>1 DEF SplitForm
    <3> QED
      BY <3>1, <3>2, <3>3 DEF SplitForm
  <2>2. CASE t = s /\ k = l /\ c.committed <= WordSize[k]
    <3>1. Cuts(s, b, k) = {}
      BY <1>1, <2>2 DEF Cuts
    <3>2. Pieces(s, b, k) = {}
      BY <3>1 DEF Pieces
    <3>3. Min({c.committed, WordSize[k]}) = c.committed
      BY <1>1, <1>2, <2>2, MinOfTwo
    <3>4. FirstHalf(c, k) = c
      BY <1>1, <2>2, <3>3 DEF FirstHalf, Metachunk
    <3> QED
      BY <1>3, <2>2, <3>1, <3>2, <3>4
  <2> QED
    BY <2>1, <2>2
<1>9. /\ b \in DOMAIN t.chunk /\ t.chunk[b].level = k /\ t.chunk[b] \in Metachunk
      /\ t.chunk[b].committed = Min({c.committed, WordSize[k]})
      /\ b + half \notin DOMAIN t.chunk
  <2>1. Min({c.committed, WordSize[k]}) \in Int
    <3>1. c.committed \in Int /\ WordSize[k] \in Int
      BY <1>1, <1>2
    <3>2. Min({c.committed, WordSize[k]}) = IF c.committed <= WordSize[k] THEN c.committed
                                                                       ELSE WordSize[k]
      BY <3>1, MinOfTwo
    <3> QED
      BY <3>1, <3>2
  <2>2. /\ FirstHalf(c, k).level = k /\ FirstHalf(c, k) \in Metachunk
        /\ FirstHalf(c, k).committed = Min({c.committed, WordSize[k]})
    BY <1>1, <2>1 DEF FirstHalf, Metachunk
  <2>3. b + half \notin DOMAIN s.chunk
    BY <1>3, <1>4 DEF SplitForm
  <2>4. b + half \notin Pieces(s, b, k)
    BY <1>7 DEF Pieces
  <2> QED
    BY <1>8, <2>2, <2>3, <2>4
<1> DEFINE v == IF t.chunk[b].committed > half
                  THEN CommitLine(t.chunk[b].committed - half, n) ELSE 0
<1>10. v = w
  <2>1. n - 1 = k
    BY <1>1 DEF n
  <2> QED
    BY <1>9, <2>1 DEF Spill
<1>11. Halve(t, b) = Put(t, HalvedChunks(t.chunk, b, n, w),
                         [t.list EXCEPT ![n] = Push(@, b + half, w)],
                         [t.listed EXCEPT ![n] = @ + w])
  <2>1. n = k + 1 /\ n \in Levels
    BY <1>1 DEF n
  <2>2. ASSUME NEW x, x = v
        PROVE  Halve(t, b) = Put(t, HalvedChunks(t.chunk, b, n, x),
                                 [t.list EXCEPT ![n] = Push(@, b + half, x)],
                                 [t.listed EXCEPT ![n] = @ + x])
    <3>1. DOMAIN t = Fields /\ b \in DOMAIN t.chunk /\ t.chunk[b] \in Metachunk /\ b \in Nat
      BY <1>1, <1>8, <1>9
    <3>2. t.chunk[b].level = k /\ b + WordSize[n] \notin DOMAIN t.chunk
      BY <1>9
    <3>3. x = IF t.chunk[b].committed > WordSize[n]
                THEN CommitLine(t.chunk[b].committed - WordSize[n], n) ELSE 0
      BY <2>2
    <3> QED
      BY <2>1, <3>1, <3>2, <3>3, HalveShape
  <2> HIDE DEF v, w
  <2> QED
    BY <1>10, <2>2
<1> HIDE DEF v, w, half
<1>12. HalvedChunks(t.chunk, b, n, w) = u.chunk
  <2> DEFINE g == HalvedChunks(t.chunk, b, n, w)
             D == DOMAIN s.chunk \cup Pieces(s, b, n)
  <2>1. FirstHalf(t.chunk[b], n) = FirstHalf(c, n)
    <3>1. Min({Min({c.committed, WordSize[k]}), WordSize[n]}) = Min({c.committed, WordSize[n]})
      BY <1>1, <1>2, MinOfTwo DEF half
    <3> QED
      BY <1>1, <1>8, <1>9, <3>1 DEF FirstHalf, Metachunk
  <2>2. g = [a \in D |-> IF a = b THEN FirstHalf(c, n)
                          ELSE IF a = b + half THEN FreeChunk(n, w) ELSE t.chunk[a]]
    BY <1>6, <1>8, <2>1 DEF HalvedChunks, half
  <2>3. u.chunk = [a \in D |-> u.chunk[a]] /\ u.chunk[b] = FirstHalf(c, n)
    BY <1>4 DEF SplitForm
  <2>4. u.chunk[b + half] = FreeChunk(n, w)
    BY <1>3, <1>4 DEF SplitForm, half, w
  <2>5. \A a \in D : a # b /\ a # b + half => u.chunk[a] = t.chunk[a]
    <3>1. \A a \in DOMAIN s.chunk : a # b => u.chunk[a] = t.chunk[a]
      BY <1>4, <1>8 DEF SplitForm
    <3>2. \A j \in Cuts(s, b, k) : u.chunk[b + WordSize[j]] = t.chunk[b + WordSize[j]]
      BY <1>3, <1>4, <1>8 DEF SplitForm
    <3>3. \A a \in Pieces(s, b, k) : u.chunk[a] = t.chunk[a]
      BY <3>2 DEF Pieces
    <3> QED
      BY <1>6, <3>1, <3>3
  <2>6. g = u.chunk
    <3> HIDE DEF g, D
    <3> QED
      BY <2>2, <2>3, <2>4, <2>5
  <2> QED
    BY <2>6
<1>13. [t.list EXCEPT ![n] = Push(@, b + half, w)] = u.list
  <2>1. u.list = [j \in Levels |-> IF j \in Cuts(s, b, n)
                                      THEN Push(s.list[j], b + WordSize[j], Spill(s, b, j))
                                      ELSE s.list[j]]
    BY <1>4 DEF SplitForm
  <2>2. [t.list EXCEPT ![n] = Push(@, b + half, w)]
          = [j \in Levels |-> IF j = n THEN Push(t.list[j], b + half, w) ELSE t.list[j]]
    BY <1>8
  <2>3. ASSUME NEW j \in Levels
        PROVE  (IF j = n THEN Push(t.list[j], b + half, w) ELSE t.list[j])
                 = IF j \in Cuts(s, b, n) THEN Push(s.list[j], b + WordSize[j], Spill(s, b, j))
                                          ELSE s.list[j]
    BY <1>3, <1>8 DEF half, w
  <2> QED
    BY <2>1, <2>2, <2>3
<1>14. [t.listed EXCEPT ![n] = @ + w] = u.listed
  <2>1. u.listed = [j \in Levels |-> IF j \in Cuts(s, b, n) THEN s.listed[j] + Spill(s, b, j)
                                                            ELSE s.listed[j]]
    BY <1>4 DEF SplitForm
  <2>2. [t.listed EXCEPT ![n] = @ + w]
          = [j \in Levels |-> IF j = n THEN t.listed[j] + w ELSE t.listed[j]]
    BY <1>8
  <2>3. ASSUME NEW j \in Levels
        PROVE  (IF j = n THEN t.listed[j] + w ELSE t.listed[j])
                 = IF j \in Cuts(s, b, n) THEN s.listed[j] + Spill(s, b, j) ELSE s.listed[j]
    BY <1>3, <1>8 DEF w
  <2> QED
    BY <2>1, <2>2, <2>3
<1>15. Put(t, u.chunk, u.list, u.listed) = Put(s, u.chunk, u.list, u.listed)
  BY <1>3, <1>8, PutTwice
<1>16. u = Put(s, u.chunk, u.list, u.listed)
  BY <1>4 DEF SplitForm
<1>17. Halve(t, b) = u
  BY <1>11, <1>12, <1>13, <1>14, <1>15, <1>16
<1> QED
  BY <1>17 DEF u, n

\* The rounds of the split loop, as a function of the level reached.
SplitRounds(f, s, b, target) ==
  f = [l \in s.chunk[b].level..target |-> IF l = s.chunk[b].level THEN s ELSE Halve(f[l - 1], b)]

\* The loop is the last of its rounds.
LEMMA SplitLoopUnfolds ==
  ASSUME NEW s, NEW b, NEW target
  PROVE  SplitLoop(s, b, target) = (CHOOSE f : SplitRounds(f, s, b, target))[target]
BY DEF SplitLoop, SplitRounds

\* Halving again and again, as the loop does, comes to the closed form.
LEMMA SplitLoopCloses ==
  ASSUME NEW s, NEW other \in Int, Accounts(s, other), NEW H, Tiles(s.chunk, H),
         DOMAIN s.list = Levels, DOMAIN s.listed = Levels,
         NEW b \in DOMAIN s.chunk, s.chunk[b].committed <= WordSize[s.chunk[b].level],
         NEW target \in Levels, s.chunk[b].level < target
  PROVE  SplitLoop(s, b, target) = Split(s, b, target)
<1> DEFINE l  == s.chunk[b].level
           F  == [x \in l..target |-> IF x = l THEN s ELSE Split(s, b, x)]
<1>1. l \in Levels /\ l \in Int /\ target \in Int /\ l..target \subseteq Levels
  <2>1. l \in Levels
    BY ChunkOfTiling
  <2> QED
    BY <2>1, GeometryAssumption DEF Levels
<1>2. ASSUME NEW x \in l..target, x # l
      PROVE  Halve(F[x - 1], b) = Split(s, b, x)
  <2>1. x \in Int /\ l <= x - 1 /\ x - 1 < x /\ x - 1 \in l..target /\ x - 1 \in Levels
    BY <1>1, <1>2
  <2>2. \/ F[x - 1] = Split(s, b, x - 1)
        \/ F[x - 1] = s /\ x - 1 = l /\ s.chunk[b].committed <= WordSize[x - 1]
    BY <2>1
  <2>3. Halve(F[x - 1], b) = Split(s, b, (x - 1) + 1)
    <3>1. (x - 1) + 1 \in Levels
      BY <1>1, <2>1
    <3> HIDE DEF F
    <3> QED
      BY <2>1, <2>2, <3>1, SplitRound
  <2> QED
    BY <2>1, <2>3
<1>3. SplitRounds(F, s, b, target)
  <2> DEFINE G == [x \in l..target |-> IF x = l THEN s ELSE Halve(F[x - 1], b)]
  <2>1. \A x \in l..target : (IF x = l THEN s ELSE Split(s, b, x))
                               = IF x = l THEN s ELSE Halve(F[x - 1], b)
    BY <1>2
  <2>2. F = G
    BY <2>1
  <2> HIDE DEF F
  <2> QED
    BY <2>2 DEF SplitRounds
<1> DEFINE f == CHOOSE g : SplitRounds(g, s, b, target)
<1>4. SplitRounds(f, s, b, target)
  <2> HIDE DEF F
  <2> QED
    BY <1>3
<1> HIDE DEF f
<1>5. \A x \in l..target : f[x] = IF x = l THEN s ELSE Halve(f[x - 1], b)
  BY <1>4 DEF SplitRounds
<1> DEFINE Holds == {x \in Levels : x \in l..target => f[x] = F[x]}
<1>6. l \in Holds
  BY <1>1, <1>5
<1>7. ASSUME NEW x \in Levels, x > l, x - 1 \in Holds
      PROVE  x \in Holds
  <2> SUFFICES ASSUME x \in l..target
               PROVE  f[x] = F[x]
    OBVIOUS
  <2>1. x \in Int /\ x # l /\ x - 1 \in l..target
    BY <1>1, <1>7
  <2>2. f[x - 1] = F[x - 1]
    BY <1>7, <2>1
  <2>3. f[x] = Halve(f[x - 1], b) /\ F[x] = Split(s, b, x)
    BY <1>5, <2>1
  <2>4. Halve(F[x - 1], b) = Split(s, b, x)
    BY <1>2, <2>1
  <2> HIDE DEF F
  <2> QED
    BY <2>2, <2>3, <2>4
<1>8. target \in Holds
  <2> HIDE DEF Holds
  <2>1. Holds \in SUBSET Levels
    BY DEF Holds
  <2> QED
    BY <1>1, <1>6, <1>7, <2>1, LevelInduction
<1>9. f[target] = Split(s, b, target)
  BY <1>1, <1>8
<1> HIDE DEF F
<1> QED
  BY <1>9, SplitLoopUnfolds DEF f

-----------------------------------------------------------------------------
(* Merging: what the parts of a merged block are, and where its commit     *)
(* line is.                                                                *)

\* The chunks that are one after merging the chunk at b up to level j.
PartsTo(s, b, j) == {b} \cup {Buddy(b, k) : k \in (j + 1)..s.chunk[b].level}

JoinsTo(s, b, j) == \A k \in (j + 1)..s.chunk[b].level : Joins(s, b, k)

\* They tile the block around b.
LEMMA PartsTile ==
  ASSUME NEW s, NEW other \in Int, Accounts(s, other), Tiled(s), NEW b \in DOMAIN s.chunk,
         NEW j \in Levels, j <= s.chunk[b].level, JoinsTo(s, b, j)
  PROVE  /\ PartsTo(s, b, j) \subseteq DOMAIN s.chunk /\ IsFiniteSet(PartsTo(s, b, j))
         /\ Block(b, j) \in PartsTo(s, b, j) /\ Block(b, j) \in Nat
         /\ Block(Block(b, j), j) = Block(b, j)
         /\ \A q \in PartsTo(s, b, j) :
              /\ q \in Nat /\ Block(b, j) <= q
              /\ s.chunk[q].level \in Levels /\ j <= s.chunk[q].level
              /\ Block(q, s.chunk[q].level) = q
              /\ q + WordSize[s.chunk[q].level] <= Block(b, j) + WordSize[j]
              /\ q # b => s.chunk[q].state = "free"
<1> DEFINE parts == PartsTo(s, b, j)
           base  == Block(b, j)
           l     == s.chunk[b].level
           w     == WordSize[j]
<1>1. Tiles(s.chunk, Handed(s))
  BY DEF Tiled
<1>2. /\ b \in Nat /\ l \in Levels /\ Block(b, l) = b /\ l \in Int /\ j \in Int
      /\ (j + 1)..l \subseteq Levels \ {RootLevel}
  <2>1. b \in Nat /\ l \in Levels /\ Block(b, l) = b
    BY <1>1, ChunkOfTiling
  <2>2. l \in 0..HighestLevel /\ j \in 0..HighestLevel /\ HighestLevel \in Int
    BY <2>1, GeometryAssumption DEF Levels
  <2> HIDE DEF l
  <2>3. \A k \in (j + 1)..l : k \in 0..HighestLevel /\ k # 0
    BY <2>2
  <2>4. (j + 1)..l \subseteq Levels \ {RootLevel}
    BY <2>3 DEF Levels, RootLevel
  <2> QED
    BY <2>1, <2>2, <2>4
<1>3. parts \subseteq DOMAIN s.chunk /\ IsFiniteSet(parts)
  BY PartsAreChunks DEF PartsTo, JoinsTo
<1>4. base \in Nat /\ Block(base, j) = base /\ base <= b /\ b < base + w /\ w \in Nat \ {0}
  BY <1>2, BlockBounds, SizesPositive
<1>5. \A k \in (j + 1)..l : /\ Buddy(b, k) \in DOMAIN s.chunk
                            /\ s.chunk[Buddy(b, k)].level = k
                            /\ s.chunk[Buddy(b, k)].state = "free"
  BY DEF JoinsTo, Joins, IsChunk, IsFree
<1>6. /\ Words(base, w) = Words(b, WordSize[l])
                            \cup UNION {Words(Buddy(b, k), WordSize[k]) : k \in (j + 1)..l}
  BY <1>2, BuddiesFillBlock
<1>7. \A q \in parts : /\ s.chunk[q].level \in Levels /\ j <= s.chunk[q].level
                       /\ q # b => s.chunk[q].state = "free"
                       /\ Words(q, WordSize[s.chunk[q].level]) \subseteq Words(base, w)
  <2>1. /\ l \in Levels /\ j <= l /\ Words(b, WordSize[l]) \subseteq Words(base, w)
    BY <1>2, <1>6
  <2>2. \A k \in (j + 1)..l : /\ k \in Levels /\ j <= k
                              /\ Words(Buddy(b, k), WordSize[k]) \subseteq Words(base, w)
    BY <1>2, <1>6
  <2> HIDE DEF base, w
  <2> QED
    BY <1>5, <2>1, <2>2 DEF PartsTo
<1>8. ASSUME NEW q \in parts
      PROVE  /\ q \in Nat /\ base <= q /\ Block(q, s.chunk[q].level) = q
             /\ q + WordSize[s.chunk[q].level] <= base + w
  <2> DEFINE size == WordSize[s.chunk[q].level]
  <2>1. q \in Nat /\ Block(q, s.chunk[q].level) = q
    BY <1>1, <1>3, ChunkOfTiling
  <2>2. size \in Nat \ {0}
    BY <1>7, SizesPositive
  <2>3. Words(q, size) \subseteq Words(base, w)
    BY <1>7
  <2>4. q \in Words(q, size) /\ q + size - 1 \in Words(q, size)
    BY <2>1, <2>2 DEF Words
  <2>5. q \in Words(base, w) /\ q + size - 1 \in Words(base, w)
    BY <2>3, <2>4
  <2> HIDE DEF base, w, size
  <2>6. base <= q /\ q + size <= base + w
    BY <1>4, <2>1, <2>2, <2>5 DEF Words
  <2> QED
    BY <2>1, <2>6 DEF size
<1>9. base \in parts
  <2>1. base \in Words(base, w)
    BY <1>4 DEF Words
  <2>2. PICK q \in parts : base \in Words(q, WordSize[s.chunk[q].level])
    <3>1. CASE base \in Words(b, WordSize[l])
      BY <3>1 DEF PartsTo
    <3>2. CASE base \in UNION {Words(Buddy(b, k), WordSize[k]) : k \in (j + 1)..l}
      <4>1. PICK k \in (j + 1)..l : base \in Words(Buddy(b, k), WordSize[k])
        BY <3>2
      <4>2. Buddy(b, k) \in parts /\ s.chunk[Buddy(b, k)].level = k
        BY <1>5, <4>1 DEF PartsTo
      <4> QED
        BY <4>1, <4>2
    <3> QED
      BY <1>6, <2>1, <3>1, <3>2
  <2>3. q = base
    <3>1. q \in Nat /\ base <= q /\ WordSize[s.chunk[q].level] \in Nat
      BY <1>7, <1>8, <2>2, SizesPositive
    <3> QED
      BY <1>4, <2>2, <3>1 DEF Words
  <2> QED
    BY <2>2, <2>3
<1> HIDE DEF parts, base, w
<1> QED
  BY <1>3, <1>4, <1>7, <1>8, <1>9 DEF parts, base, w

\* One level further, the buddy is a part as well.
LEMMA PartsGrow ==
  ASSUME NEW s, NEW other \in Int, Accounts(s, other), Tiled(s), NEW b \in DOMAIN s.chunk,
         NEW j \in Levels, j # RootLevel, j <= s.chunk[b].level, JoinsTo(s, b, j - 1)
  PROVE  /\ j - 1 \in Levels /\ j - 1 <= s.chunk[b].level /\ JoinsTo(s, b, j)
         /\ WordSize[j - 1] = 2 * WordSize[j]
         /\ PartsTo(s, b, j - 1) = PartsTo(s, b, j) \cup {Buddy(b, j)}
         /\ Joins(s, b, j) /\ Buddy(b, j) \in Nat /\ Buddy(b, j) \notin PartsTo(s, b, j)
         /\ \/ Block(b, j - 1) = Block(b, j) /\ Buddy(b, j) = Block(b, j) + WordSize[j]
            \/ Block(b, j - 1) = Buddy(b, j) /\ Block(b, j) = Buddy(b, j) + WordSize[j]
<1> DEFINE l == s.chunk[b].level
<1>1. /\ b \in Nat /\ l \in Levels /\ l \in Int /\ j \in Int /\ j - 1 \in Levels
      /\ ((j - 1) + 1)..l = {j} \cup ((j + 1)..l)
  <2>1. b \in Nat /\ l \in Levels
    BY ChunkOfTiling DEF Tiled
  <2> QED
    BY <2>1, GeometryAssumption DEF Levels, RootLevel
<1>2. JoinsTo(s, b, j) /\ Joins(s, b, j)
  BY <1>1 DEF JoinsTo
<1>3. PartsTo(s, b, j - 1) = PartsTo(s, b, j) \cup {Buddy(b, j)}
  <2> HIDE DEF l
  <2>1. {Buddy(b, k) : k \in ((j - 1) + 1)..l} = {Buddy(b, k) : k \in (j + 1)..l} \cup {Buddy(b, j)}
    BY <1>1
  <2> QED
    BY <2>1 DEF PartsTo, l
<1>4. /\ \/ Block(b, j - 1) = Block(b, j) /\ Buddy(b, j) = Block(b, j) + WordSize[j]
         \/ Block(b, j - 1) = Buddy(b, j) /\ Block(b, j) = Buddy(b, j) + WordSize[j]
      /\ Buddy(b, j) \in Nat /\ WordSize[j] \in Nat \ {0} /\ Block(b, j) \in Nat
  <2>1. /\ Block(b, j - 1) \in Nat /\ WordSize[j] \in Nat \ {0}
        /\ \/ Block(b, j) = Block(b, j - 1) /\ Buddy(b, j) = Block(b, j - 1) + WordSize[j]
           \/ Block(b, j) = Block(b, j - 1) + WordSize[j] /\ Buddy(b, j) = Block(b, j - 1)
    BY <1>1, Halves
  <2> QED
    BY <2>1
<1>5. Buddy(b, j) \notin PartsTo(s, b, j)
  <2> SUFFICES ASSUME Buddy(b, j) \in PartsTo(s, b, j)
               PROVE  FALSE
    OBVIOUS
  <2>1. /\ s.chunk[Buddy(b, j)].level \in Levels /\ Block(b, j) <= Buddy(b, j)
        /\ Buddy(b, j) + WordSize[s.chunk[Buddy(b, j)].level] <= Block(b, j) + WordSize[j]
    BY <1>2, PartsTile
  <2>2. WordSize[s.chunk[Buddy(b, j)].level] \in Nat \ {0}
    BY <2>1, SizesPositive
  <2> QED
    BY <1>4, <2>1, <2>2
<1>6. WordSize[j - 1] = 2 * WordSize[j]
  BY Halving
<1> QED
  BY <1>1, <1>2, <1>3, <1>4, <1>5, <1>6


\* The commit line of the merged block.
LineTo(s, b, j) == MergedCommitted(s, PartsTo(s, b, j), Block(b, j), j)

\* The parts of the block before whose end its line may stop.
GapsTo(s, b, j) == {q \in PartsTo(s, b, j) : /\ s.chunk[q].committed < SizeOf(s, q)
                                             /\ q = Block(b, j) \/ q % GranuleWords = 0}

LineStops(s, b, j, v) ==
  /\ v \in Nat /\ v <= WordSize[j]
  /\ \A q \in GapsTo(s, b, j) : Block(b, j) + v <= q + s.chunk[q].committed
  /\ v = WordSize[j] \/ \E q \in GapsTo(s, b, j) : Block(b, j) + v = q + s.chunk[q].committed

\* The line of a merged block is the one that stops at its first gap.
LEMMA LineFound ==
  ASSUME NEW s, NEW other \in Int, Accounts(s, other), Tiled(s), NEW b \in DOMAIN s.chunk,
         NEW j \in Levels, j <= s.chunk[b].level, JoinsTo(s, b, j)
  PROVE  /\ LineStops(s, b, j, LineTo(s, b, j))
         /\ \A v : LineStops(s, b, j, v) => v = LineTo(s, b, j)
<1> DEFINE base  == Block(b, j)
           x     == LineTo(s, b, j)
           parts == PartsTo(s, b, j)
<1>1. /\ parts \subseteq DOMAIN s.chunk /\ IsFiniteSet(parts) /\ base \in Nat
      /\ \A q \in parts : base <= q /\ q \in Nat
  BY PartsTile
<1>2. \A q \in parts : s.chunk[q].committed >= 0
  BY <1>1 DEF Tiled, Lines
<1>3. \A q \in parts : q \in Int /\ s.chunk[q].committed \in Int
  BY <1>1, ChunkOf
<1>4. WordSize[j] \in Int
  BY SizesPositive
<1>5. LineStops(s, b, j, x)
  <2>1. /\ x \in Nat /\ base + x <= base + WordSize[j]
        /\ \A q \in GapsTo(s, b, j) : base + x <= q + s.chunk[q].committed
        /\ base + x = base + WordSize[j] \/ \E q \in GapsTo(s, b, j) : base + x = q + s.chunk[q].committed
    <3> HIDE DEF parts, base
    <3>1. LET line == base + MergedCommitted(s, parts, base, j)
              gaps == {q \in parts : /\ s.chunk[q].committed < SizeOf(s, q)
                                     /\ q = base \/ q % GranuleWords = 0}
          IN  /\ MergedCommitted(s, parts, base, j) \in Nat
              /\ line <= base + WordSize[j]
              /\ \A q \in gaps : line <= q + s.chunk[q].committed
              /\ line = base + WordSize[j] \/ \E q \in gaps : line = q + s.chunk[q].committed
      BY <1>1, <1>2, MergedLine
    <3> QED
      BY <3>1 DEF GapsTo, LineTo, parts, base
  <2> HIDE DEF x, base
  <2>2. x <= WordSize[j] /\ (base + x = base + WordSize[j] => x = WordSize[j])
    BY <1>1, <1>4, <2>1
  <2> QED
    BY <2>1, <2>2 DEF LineStops, base
<1>6. ASSUME NEW v, LineStops(s, b, j, v)
      PROVE  v = x
  <2> HIDE DEF x, base, parts
  <2>1. /\ v \in Nat /\ v <= WordSize[j] /\ x \in Nat /\ x <= WordSize[j] /\ base \in Nat
    BY <1>1, <1>5, <1>6 DEF LineStops
  <2>2. ASSUME NEW y \in {v, x}, NEW z \in {v, x}
        PROVE  y <= z
    <3>1. LineStops(s, b, j, y) /\ LineStops(s, b, j, z) /\ y \in Nat /\ z \in Nat
      BY <1>5, <1>6, <2>1
    <3>2. CASE z = WordSize[j]
      BY <3>1, <3>2 DEF LineStops
    <3>3. CASE z # WordSize[j]
      <4>1. PICK q \in GapsTo(s, b, j) : base + z = q + s.chunk[q].committed
        BY <3>1, <3>3 DEF LineStops, base
      <4>2. base + y <= base + z
        BY <3>1, <4>1 DEF LineStops, base
      <4> QED
        BY <2>1, <3>1, <4>2
    <3> QED
      BY <3>2, <3>3
  <2>3. v <= x /\ x <= v
    BY <2>2
  <2> QED
    BY <2>1, <2>3
<1> QED
  BY <1>5, <1>6

\* The parts of a block that fits a granule lie in that granule, so that its
\* line can stop at its base only.
LEMMA SmallGaps ==
  ASSUME NEW s, NEW other \in Int, Accounts(s, other), Tiled(s), NEW b \in DOMAIN s.chunk,
         NEW j \in Levels, GranuleLevel <= j, j <= s.chunk[b].level, JoinsTo(s, b, j)
  PROVE  GapsTo(s, b, j) \subseteq {Block(b, j)}
<1> SUFFICES ASSUME NEW q \in GapsTo(s, b, j), q # Block(b, j)
             PROVE  FALSE
  OBVIOUS
<1> DEFINE base == Block(b, j)
           size == WordSize[s.chunk[q].level]
<1>1. /\ base \in Nat /\ Block(base, j) = base /\ q \in Nat /\ base <= q
      /\ size \in Nat \ {0} /\ q + size <= base + WordSize[j] /\ WordSize[j] \in Nat
  <2>1. q \in PartsTo(s, b, j)
    BY DEF GapsTo
  <2> QED
    BY <2>1, PartsTile, SizesPositive
<1>2. q % GranuleWords = 0
  BY DEF GapsTo
<1> HIDE DEF base, size
<1>3. q \in Words(base, WordSize[j])
  BY <1>1 DEF Words
<1>4. q \div GranuleWords = base \div GranuleWords
  BY <1>1, <1>3, SmallInGranule
<1>5. q = base
  BY <1>1, <1>2, <1>4, AlignedInGranule
<1> QED
  BY <1>5 DEF base

\* Within a granule only zero is aligned.
LEMMA AlignedBelow ==
  ASSUME NEW x \in Nat, NEW d \in Nat \ {0}, IsAligned(x, d), x < d
  PROVE  x = 0
<1>1. x \div d = 0
  <2>1. 0 * d <= x /\ x < 0 * d + d
    OBVIOUS
  <2> QED
    BY <2>1, QuotientUnique
<1>2. x = 0 * d
  BY <1>1, AlignedIsMultiple
<1> QED
  BY <1>2

\* A chunk that is smaller than a granule is committed as a whole or not at all.
LEMMA SmallLines ==
  ASSUME NEW c \in Metachunk, Line(c), GranuleLevel < c.level
  PROVE  c.committed = 0 \/ c.committed = WordSize[c.level]
<1> DEFINE size == WordSize[c.level]
           g    == GranuleWords
<1>1. c.level \in Levels /\ c.committed \in Nat /\ c.committed <= size
  BY DEF Line, Metachunk
<1>2. size \in Nat \ {0} /\ g \in Nat \ {0} /\ 2 * size <= g
  <2>1. GranuleLevel \in Levels
    BY GeometryAssumption DEF Levels
  <2>2. GranuleLevel \in Int /\ c.level \in Int
    BY <1>1, <2>1, LevelRanges
  <2>3. GranuleLevel <= c.level
    BY <2>2
  <2> QED
    BY <1>1, <2>1, <2>3, SizesPositive, SizesFall DEF GranuleWords
<1>3. c.committed = size \/ IsAligned(c.committed, g)
  BY DEF Line
<1> HIDE DEF size, g
<1>4. c.committed < g
  BY <1>1, <1>2
<1> QED
  BY <1>1, <1>2, <1>3, <1>4, AlignedBelow DEF size

\* The line of a block that is smaller than a granule is set to its end by
\* whatever is committed there.
LEMMA SmallRounds ==
  ASSUME NEW words \in Nat, NEW j \in Levels, GranuleLevel <= j, words <= WordSize[j]
  PROVE  CommitLine(words, j) = IF words = 0 THEN 0 ELSE WordSize[j]
<1> DEFINE line == CommitLine(words, j)
           size == WordSize[j]
           g    == GranuleWords
           up   == AlignUp(words, g)
<1>1. /\ line \in Nat /\ line <= size /\ line <= up
      /\ \A w \in Nat : w <= words /\ w <= size => w <= line
      /\ line = size \/ IsAligned(line, g)
  BY CommitLineFacts
<1>2. size \in Nat \ {0} /\ g \in Nat \ {0} /\ size <= g
  <2>1. GranuleLevel \in Levels
    BY GeometryAssumption DEF Levels
  <2> QED
    BY <2>1, SizesPositive, SizesFall DEF GranuleWords
<1> HIDE DEF line, size, g
<1>3. CASE words = 0
  <2>1. IsAligned(0, g)
    <3>1. IsAligned(0 * g, g)
      BY <1>2, MultipleIsAligned
    <3> QED
      BY <1>2, <3>1
  <2>2. up <= 0
    BY <1>2, <1>3, <2>1, AlignUpBelow
  <2>3. up \in Nat
    BY <1>2, AlignUpBounds
  <2> HIDE DEF up
  <2> QED
    BY <1>1, <1>3, <2>2, <2>3 DEF line
<1>4. CASE words # 0
  <2>1. words <= line
    BY <1>1 DEF size
  <2>2. line # 0
    BY <1>1, <1>4, <2>1
  <2>3. line = size
    <3>1. CASE line < g
      BY <1>1, <1>2, <2>2, <3>1, AlignedBelow
    <3>2. CASE ~(line < g)
      BY <1>1, <1>2, <3>2
    <3> QED
      BY <3>1, <3>2
  <2> QED
    BY <1>4, <2>3 DEF line, size
<1> QED
  BY <1>3, <1>4

\* A line on a granule is set where it is asked for.
LEMMA LargeRounds ==
  ASSUME NEW words \in Nat, NEW j \in Levels, IsAligned(words, GranuleWords), words <= WordSize[j]
  PROVE  CommitLine(words, j) = words
<1> DEFINE line == CommitLine(words, j)
           up   == AlignUp(words, GranuleWords)
<1>1. /\ line \in Nat /\ line <= up
      /\ \A w \in Nat : w <= words /\ w <= WordSize[j] => w <= line
  BY CommitLineFacts
<1>2. up \in Nat /\ up <= words
  BY SizesPositive, AlignUpBounds, AlignUpBelow
<1> HIDE DEF line, up
<1>3. words <= line
  BY <1>1
<1>4. line = words
  BY <1>1, <1>2, <1>3
<1> QED
  BY <1>4 DEF line

\* Joining the buddy, the line found from the lines of both halves is the line
\* of the block twice the size.
LEMMA LineGrows ==
  ASSUME NEW s, NEW other \in Int, Accounts(s, other), Tiled(s),
         \A q \in DOMAIN s.chunk : Line(s.chunk[q]), NEW b \in DOMAIN s.chunk,
         NEW j \in Levels, j # RootLevel, j <= s.chunk[b].level, JoinsTo(s, b, j - 1),
         NEW first, NEW second,
         \/ /\ Block(b, j - 1) = Block(b, j)
            /\ first = LineTo(s, b, j) /\ second = s.chunk[Buddy(b, j)].committed
         \/ /\ Block(b, j - 1) # Block(b, j)
            /\ first = s.chunk[Buddy(b, j)].committed /\ second = LineTo(s, b, j)
  PROVE  CommitLine(first + IF first = WordSize[j] THEN second ELSE 0, j - 1)
           = LineTo(s, b, j - 1)
<1> DEFINE i     == j - 1
           w     == WordSize[j]
           N     == Block(b, i)
           base  == Block(b, j)
           buddy == Buddy(b, j)
           A     == LineTo(s, b, j)
           B     == s.chunk[buddy].committed
           leads == N = base
           words == first + IF first = w THEN second ELSE 0
<1>1. /\ i \in Levels /\ i <= s.chunk[b].level /\ JoinsTo(s, b, i) /\ JoinsTo(s, b, j)
      /\ WordSize[i] = 2 * w
      /\ PartsTo(s, b, i) = PartsTo(s, b, j) \cup {buddy}
      /\ buddy \in Nat /\ buddy \notin PartsTo(s, b, j)
      /\ \/ N = base /\ buddy = base + w
         \/ N = buddy /\ base = buddy + w
  BY PartsGrow
<1>2. w \in Nat \ {0} /\ j \in Int /\ i \in Int
  BY SizesPositive, LevelRanges
<1>3. /\ buddy \in DOMAIN s.chunk /\ s.chunk[buddy].level = j /\ SizeOf(s, buddy) = w
      /\ s.chunk[buddy] \in Metachunk /\ Line(s.chunk[buddy])
      /\ B \in Nat /\ B <= w /\ (B = w \/ IsAligned(B, GranuleWords))
  <2>1. buddy \in DOMAIN s.chunk /\ s.chunk[buddy].level = j
    BY PartsGrow DEF Joins, IsChunk
  <2>2. s.chunk[buddy] \in Metachunk /\ Line(s.chunk[buddy])
    BY <2>1 DEF Accounts, ChunkMap
  <2> QED
    BY <2>1, <2>2 DEF SizeOf, Line, Metachunk
<1>4. LineStops(s, b, j, A)
  BY <1>1, LineFound
<1>5. \A v : LineStops(s, b, i, v) => v = LineTo(s, b, i)
  <2> HIDE DEF i
  <2> QED
    BY <1>1, LineFound
<1>6. \A q \in PartsTo(s, b, j) :
        /\ q \in Nat /\ base <= q /\ q \in DOMAIN s.chunk /\ s.chunk[q] \in Metachunk
        /\ s.chunk[q].level \in Levels /\ j <= s.chunk[q].level
        /\ Line(s.chunk[q]) /\ s.chunk[q].committed \in Nat /\ SizeOf(s, q) \in Nat
        /\ s.chunk[q].committed <= SizeOf(s, q) /\ q + SizeOf(s, q) <= base + w
  <2>1. \A q \in PartsTo(s, b, j) :
          /\ q \in Nat /\ base <= q /\ q \in DOMAIN s.chunk
          /\ s.chunk[q].level \in Levels /\ j <= s.chunk[q].level
          /\ q + WordSize[s.chunk[q].level] <= base + w
    BY <1>1, PartsTile
  <2>2. \A q \in PartsTo(s, b, j) : s.chunk[q] \in Metachunk /\ Line(s.chunk[q])
    BY <2>1 DEF Accounts, ChunkMap
  <2> QED
    BY <2>1, <2>2, SizesPositive DEF Line, Metachunk, SizeOf
<1>7. base \in Nat /\ Block(base, j) = base /\ base \in PartsTo(s, b, j)
  BY <1>1, PartsTile
<1>8. A \in Nat /\ A <= w
  BY <1>4 DEF LineStops
<1>9. /\ leads <=> N = base
      /\ first = IF leads THEN A ELSE B
      /\ second = IF leads THEN B ELSE A
  OBVIOUS
<1> HIDE DEF i, w, N, base, buddy, A, B, leads
<1>10. /\ first = w => words = w + second
       /\ first # w => words = first
  <2>1. first \in Nat
    BY <1>3, <1>8, <1>9
  <2> QED
    BY <1>2, <2>1
<1>11. N \in Nat /\ (leads => N = base /\ buddy = N + w) /\ (~leads => N = buddy /\ base = N + w)
  BY <1>1, <1>2, <1>7, <1>9
<1>12. /\ words \in Nat /\ words <= 2 * w
       /\ leads /\ A = w => words = w + B
       /\ leads /\ A < w => words = A
       /\ ~leads /\ B = w => words = w + A
       /\ ~leads /\ B < w => words = B
  <2> HIDE DEF words
  <2> QED
    BY <1>2, <1>3, <1>8, <1>9, <1>10
<1>13. CASE j <= GranuleLevel
  <2>1. IsAligned(base, GranuleWords) /\ IsAligned(buddy, GranuleWords) /\ IsAligned(w, GranuleWords)
    <3>1. IsAligned(base, GranuleWords)
      BY <1>7, <1>13, LargeIsAligned
    <3>2. Block(buddy, j) = buddy
      BY <1>3, ChunkOfTiling DEF Tiled
    <3>3. IsAligned(buddy, GranuleWords)
      BY <1>1, <1>13, <3>2, LargeIsAligned
    <3>4. w = buddy - base \/ w = base - buddy
      BY <1>1, <1>2, <1>7
    <3>5. IsAligned(w, GranuleWords)
      <4>1. GranuleWords \in Nat \ {0}
        BY SizesPositive
      <4>2. CASE buddy = base + w
        BY <1>1, <1>2, <1>7, <3>1, <3>3, <4>1, <4>2, AlignedDifference
      <4>3. CASE base = buddy + w
        BY <1>1, <1>2, <1>7, <3>1, <3>3, <4>1, <4>3, AlignedDifference
      <4> QED
        BY <1>1, <4>2, <4>3
    <3> QED
      BY <3>1, <3>3, <3>5
  <2>2. \A q : q \in GapsTo(s, b, j) <=> /\ q \in PartsTo(s, b, j) /\ q % GranuleWords = 0
                                         /\ s.chunk[q].committed < SizeOf(s, q)
    BY <2>1 DEF GapsTo, IsAligned, base
  <2>3. \A q : q \in GapsTo(s, b, i) <=> q \in GapsTo(s, b, j) \/ (q = buddy /\ B < w)
    <3>1. N % GranuleWords = 0 /\ buddy % GranuleWords = 0
      BY <1>1, <2>1 DEF IsAligned
    <3>2. \A q : q \in GapsTo(s, b, i) <=> /\ q \in PartsTo(s, b, j) \cup {buddy} /\ q % GranuleWords = 0
                                           /\ s.chunk[q].committed < SizeOf(s, q)
      BY <1>1, <3>1 DEF GapsTo, N
    <3> QED
      BY <1>3, <2>2, <3>1, <3>2 DEF B
  <2>4. IsAligned(A, GranuleWords)
    <3>1. CASE A = w
      BY <2>1, <3>1
    <3>2. CASE A # w
      <4>1. PICK q \in GapsTo(s, b, j) : base + A = q + s.chunk[q].committed
        BY <1>4, <3>2 DEF LineStops, w, base
      <4>2. /\ q \in Nat /\ IsAligned(q, GranuleWords) /\ s.chunk[q].committed \in Nat
            /\ s.chunk[q].committed # WordSize[s.chunk[q].level] /\ Line(s.chunk[q])
        BY <1>6, <2>2, <4>1 DEF IsAligned, SizeOf
      <4>3. IsAligned(s.chunk[q].committed, GranuleWords)
        BY <4>2 DEF Line
      <4>4. GranuleWords \in Nat \ {0}
        BY SizesPositive
      <4>5. IsAligned(base + A, GranuleWords)
        BY <4>1, <4>2, <4>3, <4>4, AlignedSum
      <4>6. base + A \in Nat /\ base <= base + A /\ (base + A) - base = A
        BY <1>7, <1>8
      <4> QED
        BY <1>7, <2>1, <4>4, <4>5, <4>6, AlignedDifference
    <3> QED
      BY <3>1, <3>2
  <2>5. IsAligned(words, GranuleWords)
    <3>1. IsAligned(B, GranuleWords) /\ GranuleWords \in Nat \ {0}
      BY <1>3, <2>1, SizesPositive
    <3>2. IsAligned(first, GranuleWords) /\ IsAligned(second, GranuleWords)
      BY <1>9, <2>4, <3>1
    <3>3. first \in Nat /\ second \in Nat
      BY <1>3, <1>8, <1>9
    <3>4. CASE first = w
      BY <3>1, <3>2, <3>3, <3>4, AlignedSum
    <3>5. CASE first # w
      <4>1. words = first
        BY <3>3, <3>5
      <4> QED
        BY <3>2, <4>1
    <3> QED
      BY <3>4, <3>5
  <2>6. CommitLine(words, i) = words
    <3> HIDE DEF words
    <3> QED
      BY <1>1, <1>12, <2>5, LargeRounds
  <2>7. ASSUME NEW q \in GapsTo(s, b, j)
        PROVE  /\ q \in Nat /\ s.chunk[q].committed \in Nat
               /\ base + A <= q + s.chunk[q].committed /\ base <= q
               /\ q + s.chunk[q].committed < base + w
    <3>1. /\ q \in PartsTo(s, b, j) /\ s.chunk[q].committed < SizeOf(s, q)
      BY <2>2
    <3>2. /\ q \in Nat /\ base <= q /\ s.chunk[q].committed \in Nat /\ SizeOf(s, q) \in Nat
          /\ q + SizeOf(s, q) <= base + w
      BY <1>6, <3>1
    <3>3. base + A <= q + s.chunk[q].committed
      BY <1>4 DEF LineStops, base
    <3> QED
      BY <1>2, <1>7, <3>1, <3>2, <3>3
  <2>8. \A q \in GapsTo(s, b, i) : N + words <= q + s.chunk[q].committed
    <3> SUFFICES ASSUME NEW q \in GapsTo(s, b, i)
                 PROVE  N + words <= q + s.chunk[q].committed
      OBVIOUS
    <3>1. CASE q \in GapsTo(s, b, j)
      <4> DEFINE x == s.chunk[q].committed
      <4>1. /\ q \in Nat /\ x \in Nat /\ base + A <= q + x /\ base <= q /\ q + x < base + w
        BY <2>7, <3>1
      <4> HIDE DEF x
      <4>2. N + words <= q + x
        <5> HIDE DEF words
        <5>1. CASE leads
          BY <1>2, <1>3, <1>7, <1>8, <1>12, <1>11, <4>1, <5>1
        <5>2. CASE ~leads
          BY <1>2, <1>3, <1>7, <1>8, <1>12, <1>11, <4>1, <5>2
        <5> QED
          BY <5>1, <5>2
      <4> QED
        BY <4>2 DEF x
    <3>2. CASE q = buddy /\ B < w
      <4>1. s.chunk[q].committed = B
        BY <3>2 DEF B
      <4>2. N + words <= q + B
        <5> HIDE DEF words
        <5>1. CASE leads
          BY <1>1, <1>2, <1>3, <1>7, <1>8, <1>12, <1>11, <3>2, <5>1
        <5>2. CASE ~leads
          BY <1>1, <1>2, <1>3, <1>7, <1>8, <1>12, <1>11, <3>2, <5>2
        <5> QED
          BY <5>1, <5>2
      <4> QED
        BY <4>1, <4>2
    <3> QED
      BY <2>3, <3>1, <3>2
  <2>9. words = 2 * w \/ \E q \in GapsTo(s, b, i) : N + words = q + s.chunk[q].committed
    <3> HIDE DEF words
    <3>1. A = w \/ \E q \in GapsTo(s, b, j) : base + A = q + s.chunk[q].committed
      BY <1>4 DEF LineStops, w, base
    <3>2. B < w => buddy \in GapsTo(s, b, i) /\ s.chunk[buddy].committed = B
      BY <2>3 DEF B
    <3>3. \A q \in GapsTo(s, b, j) : q \in GapsTo(s, b, i)
      BY <2>3
    <3>4. (A = w \/ A < w) /\ (B = w \/ B < w)
      BY <1>2, <1>3, <1>8
    <3>5. CASE leads
      <4>1. CASE A = w
        <5>1. words = w + B /\ N + words = buddy + B
          BY <1>2, <1>3, <1>12, <1>11, <3>5, <4>1
        <5>2. B = w => words = 2 * w
          BY <1>2, <5>1
        <5> QED
          BY <3>2, <3>4, <5>1, <5>2
      <4>2. CASE A < w
        <5>1. words = A /\ N + words = base + A /\ A # w
          BY <1>2, <1>8, <1>12, <1>11, <3>5, <4>2
        <5> QED
          BY <3>1, <3>3, <5>1
      <4> QED
        BY <3>4, <4>1, <4>2
    <3>6. CASE ~leads
      <4>1. CASE B = w
        <5>1. words = w + A /\ N + words = base + A
          BY <1>2, <1>8, <1>12, <1>11, <3>6, <4>1
        <5>2. A = w => words = 2 * w
          BY <1>2, <5>1
        <5> QED
          BY <3>1, <3>3, <5>1, <5>2
      <4>2. CASE B < w
        <5>1. words = B /\ N + words = buddy + B
          BY <1>12, <1>11, <3>6, <4>2
        <5> QED
          BY <3>2, <4>2, <5>1
      <4> QED
        BY <3>4, <4>1, <4>2
    <3> QED
      BY <3>5, <3>6
  <2>10. LineStops(s, b, i, words)
    <3> HIDE DEF words
    <3> QED
      BY <1>1, <1>12, <2>8, <2>9 DEF LineStops, N
  <2>11. words = LineTo(s, b, i)
    BY <1>5, <2>10
  <2> HIDE DEF words
  <2>12. CommitLine(words, i) = LineTo(s, b, i)
    BY <2>6, <2>11
  <2> QED
    BY <2>12 DEF words, i, w
<1>14. CASE ~(j <= GranuleLevel)
  <2>1. GranuleLevel <= i /\ GranuleLevel < j /\ GranuleLevel <= j /\ GranuleLevel \in Int
    <3>1. GranuleLevel \in Int
      BY GeometryAssumption
    <3> QED
      BY <1>2, <1>14, <3>1 DEF i
  <2>2. GapsTo(s, b, i) \subseteq {N}
    BY <1>1, <2>1, SmallGaps DEF N
  <2>3. GapsTo(s, b, j) \subseteq {base}
    BY <1>1, <2>1, SmallGaps DEF base
  <2>4. N \in PartsTo(s, b, i) /\ N \in Nat
    BY <1>1, PartsTile DEF N
  <2>5. \A q \in PartsTo(s, b, i) : s.chunk[q].committed < SizeOf(s, q) => s.chunk[q].committed = 0
    <3> SUFFICES ASSUME NEW q \in PartsTo(s, b, i), s.chunk[q].committed < SizeOf(s, q)
                 PROVE  s.chunk[q].committed = 0
      OBVIOUS
    <3>1. s.chunk[q] \in Metachunk /\ Line(s.chunk[q]) /\ s.chunk[q].level \in Levels
          /\ j <= s.chunk[q].level
      BY <1>1, <1>2, <1>3, <1>6
    <3>2. GranuleLevel < s.chunk[q].level
      <4>1. s.chunk[q].level \in Int
        BY <3>1, LevelRanges
      <4> QED
        BY <1>2, <2>1, <3>1, <4>1
    <3>3. s.chunk[q].committed = 0 \/ s.chunk[q].committed = SizeOf(s, q)
      BY <3>1, <3>2, SmallLines DEF SizeOf
    <3>4. s.chunk[q].committed \in Int
      BY <3>1 DEF Metachunk
    <3> QED
      BY <3>3, <3>4
  <2>6. A = IF s.chunk[base].committed < SizeOf(s, base) THEN 0 ELSE w
    <3>1. CASE s.chunk[base].committed < SizeOf(s, base)
      <4>1. base \in GapsTo(s, b, j) /\ s.chunk[base].committed = 0
        BY <1>1, <1>7, <2>5, <3>1 DEF GapsTo, base
      <4>2. base + A <= base + 0
        BY <1>4, <4>1 DEF LineStops, base
      <4>3. A = 0
        BY <1>7, <1>8, <4>2
      <4> QED
        BY <3>1, <4>3
    <3>2. CASE ~(s.chunk[base].committed < SizeOf(s, base))
      <4>1. base \notin GapsTo(s, b, j)
        BY <3>2 DEF GapsTo
      <4>2. GapsTo(s, b, j) = {}
        BY <2>3, <4>1
      <4>3. A = w
        BY <1>4, <4>2 DEF LineStops, w
      <4> QED
        BY <3>2, <4>3
    <3> QED
      BY <3>1, <3>2
  <2>7. B < w => B = 0
    BY <1>1, <1>3, <2>5 DEF B
  <2> DEFINE v == IF words = 0 THEN 0 ELSE 2 * w
  <2>8. CommitLine(words, i) = v
    <3> HIDE DEF words
    <3> QED
      BY <1>1, <1>12, <2>1, SmallRounds
  <2>9. words = 0 <=> s.chunk[N].committed < SizeOf(s, N)
    <3>1. CASE leads
      <4>1. N = base
        BY <1>9, <3>1
      <4>2. words = 0 <=> A = 0
        BY <1>2, <1>3, <1>8, <1>9, <3>1
      <4> HIDE DEF words
      <4> QED
        BY <1>2, <2>6, <4>1, <4>2
    <3>2. CASE ~leads
      <4>1. N = buddy
        BY <1>1, <1>9, <3>2
      <4>2. words = 0 <=> B = 0
        BY <1>2, <1>3, <1>8, <1>9, <3>2
      <4>3. B = 0 <=> B < w
        BY <1>2, <1>3, <2>7
      <4>4. s.chunk[N].committed = B /\ SizeOf(s, N) = w
        BY <1>3, <4>1 DEF B
      <4> HIDE DEF words
      <4> QED
        BY <4>2, <4>3, <4>4
    <3> QED
      BY <3>1, <3>2
  <2> HIDE DEF words
  <2>10. LineStops(s, b, i, v)
    <3>1. v \in Nat /\ v <= WordSize[i]
      BY <1>1, <1>2
    <3>2. CASE words = 0
      <4>1. s.chunk[N].committed = 0 /\ N \in GapsTo(s, b, i) /\ v = 0
        BY <2>4, <2>5, <2>9, <3>2 DEF GapsTo, N
      <4> HIDE DEF v
      <4>2. GapsTo(s, b, i) = {N}
        BY <2>2, <4>1
      <4>3. N + v = N + s.chunk[N].committed
        BY <4>1
      <4>4. N + v <= N + s.chunk[N].committed
        BY <2>4, <4>1
      <4> QED
        BY <3>1, <4>2, <4>3, <4>4 DEF LineStops, N
    <3>3. CASE words # 0
      <4>1. N \notin GapsTo(s, b, i)
        BY <2>9, <3>3 DEF GapsTo
      <4>2. GapsTo(s, b, i) = {} /\ v = WordSize[i]
        BY <1>1, <2>2, <3>3, <4>1
      <4> HIDE DEF v
      <4> QED
        BY <3>1, <4>2 DEF LineStops
    <3> QED
      BY <3>2, <3>3
  <2>11. CommitLine(words, i) = LineTo(s, b, i)
    <3> HIDE DEF v
    <3> QED
      BY <1>5, <2>8, <2>10
  <2> QED
    BY <2>11 DEF words, i, w
<1> QED
  BY <1>13, <1>14

\* The closed form of merge up to some level, whole chunks at a time.
MergeForm(s, t, b, j) ==
  LET parts  == PartsTo(s, b, j)
      joined == (j + 1)..s.chunk[b].level
      base   == Block(b, j)
  IN  /\ t = Put(s, t.chunk, t.list, t.listed)
      /\ t.chunk = [a \in (DOMAIN s.chunk \ parts) \cup {base} |-> t.chunk[a]]
      /\ t.chunk[base] = FreeChunk(j, LineTo(s, b, j))
      /\ \A a \in DOMAIN s.chunk \ parts : a # base => t.chunk[a] = s.chunk[a]
      /\ t.list = [k \in Levels |-> IF k \in joined THEN Unlink(s.list[k], Buddy(b, k))
                                                    ELSE s.list[k]]
      /\ t.listed = [k \in Levels |-> IF k \in joined
                                        THEN s.listed[k] - s.chunk[Buddy(b, k)].committed
                                        ELSE s.listed[k]]

\* Merge leaves one chunk for the chunks of its block.
LEMMA MergeHasForm ==
  ASSUME NEW s, DOMAIN s = Fields, NEW b, NEW j
  PROVE  MergeForm(s, Merge(s, b, j), b, j)
<1> DEFINE parts  == PartsTo(s, b, j)
           joined == (j + 1)..s.chunk[b].level
           base   == Block(b, j)
           whole  == FreeChunk(j, LineTo(s, b, j))
           f      == [a \in (DOMAIN s.chunk \ parts) \cup {base} |->
                        IF a = base THEN whole ELSE s.chunk[a]]
           list   == [k \in Levels |-> IF k \in joined THEN Unlink(s.list[k], Buddy(b, k))
                                                       ELSE s.list[k]]
           listed == [k \in Levels |-> IF k \in joined
                                         THEN s.listed[k] - s.chunk[Buddy(b, k)].committed
                                         ELSE s.listed[k]]
           t      == Merge(s, b, j)
<1>1. t = Put(s, f, list, listed)
  BY DEF Put, Merge, PartsTo, LineTo, FreeChunk
<1>2. t.chunk = f /\ t.list = list /\ t.listed = listed
  <2> HIDE DEF f, list, listed, t
  <2> QED
    BY <1>1, PutTwice
<1>3. /\ f = [a \in (DOMAIN s.chunk \ parts) \cup {base} |-> f[a]]
      /\ f[base] = whole /\ \A a \in DOMAIN s.chunk \ parts : a # base => f[a] = s.chunk[a]
  <2> HIDE DEF parts, base, whole
  <2> QED
    OBVIOUS
<1>4. t = Put(s, t.chunk, t.list, t.listed)
  <2> HIDE DEF f, list, listed, t
  <2> QED
    BY <1>1, <1>2
<1>5. t.chunk = [a \in (DOMAIN s.chunk \ parts) \cup {base} |-> t.chunk[a]]
  <2> HIDE DEF f, t, parts, base
  <2> QED
    BY <1>2, <1>3
<1> HIDE DEF t, f
<1> QED
  BY <1>2, <1>3, <1>4, <1>5 DEF MergeForm, t

\* The chunks after two halves became one.
JoinedChunks(f, leader, follower, c) ==
  [a \in DOMAIN f \ {follower} |-> IF a = leader THEN c ELSE f[a]]

\* One round of the merge loop, field by field.
LEMMA JoinShape ==
  ASSUME NEW s, DOMAIN s = Fields, NEW b, NEW j \in Levels, s.chunk[b].level = j,
         NEW buddy, buddy = Buddy(b, j), s.chunk[buddy].level = j,
         NEW leader, leader = IF IsLeader(b, j) THEN b ELSE buddy,
         NEW follower, follower = IF IsLeader(b, j) THEN buddy ELSE b,
         leader \in DOMAIN s.chunk, leader # follower,
         s.chunk[leader] \in Metachunk, s.chunk[leader].state = "free", s.chunk[leader].used = 0,
         NEW w, w = CommitLine(s.chunk[leader].committed
                                 + IF s.chunk[leader].committed = WordSize[j]
                                     THEN s.chunk[follower].committed ELSE 0, j - 1)
  PROVE  JoinBuddy(s, b)
           = [state |-> Put(s, JoinedChunks(s.chunk, leader, follower, FreeChunk(j - 1, w)),
                            [s.list EXCEPT ![j] = Unlink(@, buddy)],
                            [s.listed EXCEPT ![j] = @ - s.chunk[buddy].committed]),
              base |-> leader]
<1> DEFINE t      == Delist(s, buddy)
           first  == s.chunk[leader].committed
           words  == first + IF first = SizeOf(s, leader) THEN s.chunk[follower].committed ELSE 0
           lower  == [s.chunk[leader] EXCEPT !.level = @ - 1]
           f      == [a \in DOMAIN s.chunk \ {follower} |-> IF a = leader THEN lower ELSE s.chunk[a]]
           joined == [t EXCEPT !.chunk = f]
           g      == JoinedChunks(s.chunk, leader, follower, FreeChunk(j - 1, w))
           list   == [s.list EXCEPT ![j] = Unlink(@, buddy)]
           listed == [s.listed EXCEPT ![j] = @ - s.chunk[buddy].committed]
<1>1. s.chunk[leader].level = j /\ SizeOf(s, leader) = WordSize[j]
  BY DEF SizeOf
<1>2. JoinBuddy(s, b) = [state |-> SetCommitted(joined, leader, words), base |-> leader]
  BY DEF JoinBuddy
<1>3. t = Put(s, s.chunk, list, listed) /\ DOMAIN t = Fields
  <2>1. t = [s EXCEPT !.list = list, !.listed = listed]
    BY DEF Delist, Fields
  <2> HIDE DEF t, list, listed
  <2> QED
    BY <2>1 DEF Put, Fields
<1>4. /\ f[leader] = lower /\ leader \in DOMAIN f /\ lower.level = j - 1
      /\ DOMAIN f = DOMAIN s.chunk \ {follower}
      /\ \A a \in DOMAIN s.chunk \ {follower} : a # leader => f[a] = s.chunk[a]
  <2>1. lower.level = j - 1
    BY <1>1 DEF Metachunk
  <2> HIDE DEF lower
  <2> QED
    BY <2>1
<1>5. CommitLine(words, j - 1) = w
  BY <1>1
<1>6. [lower EXCEPT !.committed = w] = FreeChunk(j - 1, w)
  <2> DEFINE c == s.chunk[leader]
  <2>1. c = [level |-> j, state |-> "free", committed |-> c.committed, used |-> 0]
    BY <1>1 DEF Metachunk
  <2>2. lower = [c EXCEPT !.level = j - 1]
    BY <1>1
  <2> HIDE DEF c, lower
  <2>3. lower = [level |-> j - 1, state |-> "free", committed |-> c.committed, used |-> 0]
    BY <2>1, <2>2
  <2> QED
    BY <2>3 DEF FreeChunk, FreshChunk
<1> HIDE DEF t, words, lower, f, list, listed
<1>7. joined.chunk = f /\ DOMAIN joined = Fields
  BY <1>3 DEF Fields
<1>8. SetCommitted(joined, leader, words) = [joined EXCEPT !.chunk[leader].committed = w]
  <2> HIDE DEF joined
  <2> QED
    BY <1>4, <1>5, <1>7 DEF SetCommitted
<1>9. [f EXCEPT ![leader].committed = w] = g
  <2>1. [f EXCEPT ![leader].committed = w]
          = [a \in DOMAIN s.chunk \ {follower} |->
               IF a = leader THEN [lower EXCEPT !.committed = w] ELSE s.chunk[a]]
    BY <1>4
  <2> DEFINE whole == [lower EXCEPT !.committed = w]
  <2>2. g = [a \in DOMAIN s.chunk \ {follower} |-> IF a = leader THEN whole ELSE s.chunk[a]]
    BY <1>6 DEF JoinedChunks
  <2> HIDE DEF g
  <2> QED
    BY <2>1, <2>2
<1>10. [joined EXCEPT !.chunk[leader].committed = w] = [joined EXCEPT !.chunk = g]
  <2> HIDE DEF joined, g
  <2> QED
    BY <1>7, <1>9 DEF Fields
<1>11. [joined EXCEPT !.chunk = g] = Put(s, g, list, listed)
  <2> HIDE DEF g
  <2> QED
    BY <1>3 DEF Put, Fields
<1> QED
  BY <1>2, <1>8, <1>10, <1>11 DEF list, listed

\* What the loop of merge starts from: a free chunk that is in no list, in a
\* context whose lines are sound.
Mergeful(s, other, b) ==
  /\ other \in Int /\ Accounts(s, other) /\ Tiled(s)
  /\ \A q \in DOMAIN s.chunk : Line(s.chunk[q])
  /\ DOMAIN s.list = Levels /\ DOMAIN s.listed = Levels
  /\ b \in DOMAIN s.chunk /\ s.chunk[b].state = "free"

\* One more buddy is one more round.
LEMMA MergeRound ==
  ASSUME NEW s, NEW other, NEW b, Mergeful(s, other, b),
         NEW j \in Levels, j # RootLevel, j <= s.chunk[b].level, JoinsTo(s, b, j - 1),
         NEW t, t = Merge(s, b, j)
  PROVE  JoinBuddy(t, Block(b, j)) = [state |-> Merge(s, b, j - 1), base |-> Block(b, j - 1)]
<1> DEFINE i        == j - 1
           l        == s.chunk[b].level
           base     == Block(b, j)
           N        == Block(b, i)
           buddy    == Buddy(b, j)
           u        == Merge(s, b, i)
           leads    == N = base
           leader   == IF IsLeader(base, j) THEN base ELSE buddy
           follower == IF IsLeader(base, j) THEN buddy ELSE base
           first    == IF leads THEN LineTo(s, b, j) ELSE s.chunk[buddy].committed
           second   == IF leads THEN s.chunk[buddy].committed ELSE LineTo(s, b, j)
           w        == LineTo(s, b, i)
<1>1. /\ other \in Int /\ Accounts(s, other) /\ Tiled(s) /\ b \in DOMAIN s.chunk
      /\ DOMAIN s = Fields /\ DOMAIN s.list = Levels /\ DOMAIN s.listed = Levels
      /\ \A q \in DOMAIN s.chunk : Line(s.chunk[q]) /\ s.chunk[q] \in Metachunk
  BY DEF Mergeful, Accounts, ChunkMap
<1>2. /\ i \in Levels /\ i <= l /\ JoinsTo(s, b, j) /\ WordSize[i] = 2 * WordSize[j]
      /\ PartsTo(s, b, i) = PartsTo(s, b, j) \cup {buddy}
      /\ Joins(s, b, j) /\ buddy \in Nat /\ buddy \notin PartsTo(s, b, j)
      /\ \/ N = base /\ buddy = base + WordSize[j]
         \/ N = buddy /\ base = buddy + WordSize[j]
  BY <1>1, PartsGrow
<1>3. /\ base \in PartsTo(s, b, j) /\ base \in Nat /\ Block(base, j) = base
      /\ PartsTo(s, b, j) \subseteq DOMAIN s.chunk
      /\ b \in Nat /\ l \in Levels /\ WordSize[j] \in Nat \ {0}
  <2>1. b \in Nat /\ l \in Levels
    BY <1>1, ChunkOfTiling DEF Tiled
  <2> QED
    BY <1>1, <1>2, <2>1, PartsTile, SizesPositive
<1>4. /\ buddy \in DOMAIN s.chunk /\ s.chunk[buddy].level = j /\ s.chunk[buddy].state = "free"
      /\ s.chunk[buddy] \in Metachunk /\ s.chunk[buddy].used = 0 /\ buddy # base
      /\ s.chunk[buddy].committed \in Int
  <2>1. buddy \in DOMAIN s.chunk /\ s.chunk[buddy].level = j /\ s.chunk[buddy].state = "free"
    BY <1>2 DEF Joins, IsChunk, IsFree
  <2> QED
    BY <1>1, <1>2, <1>3, <2>1 DEF Line, Metachunk
<1>5. MergeForm(s, t, b, j) /\ MergeForm(s, u, b, i)
  BY <1>1, MergeHasForm
<1>6. /\ DOMAIN t = Fields
      /\ DOMAIN t.chunk = (DOMAIN s.chunk \ PartsTo(s, b, j)) \cup {base}
      /\ t.chunk[base] = FreeChunk(j, LineTo(s, b, j))
      /\ \A a \in DOMAIN s.chunk \ PartsTo(s, b, j) : a # base => t.chunk[a] = s.chunk[a]
      /\ t = Put(s, t.chunk, t.list, t.listed)
      /\ DOMAIN t.list = Levels /\ DOMAIN t.listed = Levels
      /\ t.chunk[buddy] = s.chunk[buddy]
  <2> HIDE DEF base, buddy
  <2>1. t = Put(s, t.chunk, t.list, t.listed)
    BY <1>5 DEF MergeForm
  <2>2. DOMAIN t = Fields
    BY <1>1, <2>1, PutTwice
  <2>3. /\ DOMAIN t.chunk = (DOMAIN s.chunk \ PartsTo(s, b, j)) \cup {base}
        /\ t.chunk[base] = FreeChunk(j, LineTo(s, b, j))
        /\ \A a \in DOMAIN s.chunk \ PartsTo(s, b, j) : a # base => t.chunk[a] = s.chunk[a]
        /\ DOMAIN t.list = Levels /\ DOMAIN t.listed = Levels
    BY <1>5 DEF MergeForm, base
  <2> QED
    BY <1>2, <1>4, <2>1, <2>2, <2>3
<1>7. LineTo(s, b, j) \in Nat
  BY <1>1, <1>2, LineFound DEF LineStops
<1>8. /\ t.chunk[base] \in Metachunk /\ t.chunk[base].level = j /\ t.chunk[base].state = "free"
      /\ t.chunk[base].used = 0 /\ t.chunk[base].committed = LineTo(s, b, j)
  <2>1. FreeChunk(j, LineTo(s, b, j))
          = [level |-> j, state |-> "free", committed |-> LineTo(s, b, j), used |-> 0]
    BY DEF FreeChunk, FreshChunk
  <2> HIDE DEF base
  <2> QED
    BY <1>6, <1>7, <2>1 DEF Metachunk
<1>9. IsLeader(base, j) <=> leads
  <2>1. Block(base, i) = N
    <3>1. Block(N, i) = N /\ N \in Nat /\ N <= base /\ base < N + WordSize[i]
      <4>1. N \in Nat /\ Block(N, i) = N
        BY <1>2, <1>3, BlockBounds
      <4> HIDE DEF base, N, buddy
      <4> QED
        BY <1>2, <1>3, <4>1
    <3> HIDE DEF base, N
    <3> QED
      BY <1>2, <1>3, <3>1, BlockOfWord
  <2> HIDE DEF base, N
  <2> QED
    BY <1>3, <2>1 DEF IsLeader
<1>10. Buddy(base, j) = buddy
  BY <1>3, BuddyOfBlock
<1>11. CommitLine(first + IF first = WordSize[j] THEN second ELSE 0, i) = w
  <2>1. ASSUME NEW x, x = first, NEW y, y = second
        PROVE  CommitLine(x + IF x = WordSize[j] THEN y ELSE 0, i) = w
    <3>1. \/ /\ Block(b, j - 1) = Block(b, j)
             /\ x = LineTo(s, b, j) /\ y = s.chunk[Buddy(b, j)].committed
          \/ /\ Block(b, j - 1) # Block(b, j)
             /\ x = s.chunk[Buddy(b, j)].committed /\ y = LineTo(s, b, j)
      BY <2>1
    <3> QED
      BY <1>1, <3>1, LineGrows
  <2> QED
    BY <2>1
<1>12. /\ leader = N /\ follower = IF leads THEN buddy ELSE base
       /\ leader # follower /\ leader \in DOMAIN t.chunk
       /\ t.chunk[leader] \in Metachunk /\ t.chunk[leader].state = "free"
       /\ t.chunk[leader].used = 0 /\ t.chunk[leader].committed = first
       /\ t.chunk[follower].committed = second
  <2> HIDE DEF base, N, buddy
  <2>1. leader = N /\ follower = IF leads THEN buddy ELSE base
    BY <1>2, <1>9
  <2>2. (leader = base /\ follower = buddy) \/ (leader = buddy /\ follower = base)
    OBVIOUS
  <2>3. t.chunk[leader].committed = first /\ t.chunk[follower].committed = second
    BY <1>4, <1>6, <1>8, <1>9
  <2> HIDE DEF leader, follower, first, second, leads
  <2> QED
    BY <1>2, <1>3, <1>4, <1>6, <1>8, <2>1, <2>2, <2>3
<1>13. JoinBuddy(t, base)
         = [state |-> Put(t, JoinedChunks(t.chunk, leader, follower, FreeChunk(i, w)),
                          [t.list EXCEPT ![j] = Unlink(@, buddy)],
                          [t.listed EXCEPT ![j] = @ - t.chunk[buddy].committed]),
            base |-> leader]
  <2>1. ASSUME NEW ld, ld = leader, NEW fl, fl = follower
        PROVE  JoinBuddy(t, base)
                 = [state |-> Put(t, JoinedChunks(t.chunk, ld, fl, FreeChunk(j - 1, w)),
                                  [t.list EXCEPT ![j] = Unlink(@, buddy)],
                                  [t.listed EXCEPT ![j] = @ - t.chunk[buddy].committed]),
                    base |-> ld]
    <3>1. ld = (IF IsLeader(base, j) THEN base ELSE buddy) /\ fl = IF IsLeader(base, j) THEN buddy ELSE base
      BY <2>1
    <3>2. /\ ld \in DOMAIN t.chunk /\ ld # fl /\ t.chunk[ld] \in Metachunk
          /\ t.chunk[ld].state = "free" /\ t.chunk[ld].used = 0
          /\ t.chunk[ld].committed = first /\ t.chunk[fl].committed = second
      <4> HIDE DEF leader, follower, first, second
      <4> QED
        BY <1>12, <2>1
    <3>3. w = CommitLine(t.chunk[ld].committed
                           + IF t.chunk[ld].committed = WordSize[j]
                               THEN t.chunk[fl].committed ELSE 0, j - 1)
      <4> HIDE DEF first, second, w
      <4> QED
        BY <1>11, <3>2 DEF i
    <3>4. t.chunk[buddy].level = j /\ t.chunk[base].level = j /\ buddy = Buddy(base, j)
      BY <1>4, <1>6, <1>8, <1>10
    <3> HIDE DEF base, buddy, w, leader, follower, first, second
    <3> QED
      BY <1>6, <3>1, <3>2, <3>3, <3>4, JoinShape
  <2> HIDE DEF leader, follower, w
  <2> QED
    BY <2>1 DEF i
<1> DEFINE g == JoinedChunks(t.chunk, leader, follower, FreeChunk(i, w))
<1>14. g = u.chunk
  <2>1. /\ u.chunk = [a \in (DOMAIN s.chunk \ PartsTo(s, b, i)) \cup {N} |-> u.chunk[a]]
        /\ u.chunk[N] = FreeChunk(i, w)
        /\ \A a \in DOMAIN s.chunk \ PartsTo(s, b, i) : a # N => u.chunk[a] = s.chunk[a]
    BY <1>5 DEF MergeForm
  <2> HIDE DEF base, N, buddy, u, w, leader, follower
  <2>2. g = [a \in DOMAIN t.chunk \ {follower} |-> IF a = leader THEN FreeChunk(i, w) ELSE t.chunk[a]]
    BY DEF JoinedChunks
  <2>3. follower \in {base, buddy} /\ leader \in {base, buddy} /\ leader # follower
    BY <1>12 DEF leader, follower
  <2>4. DOMAIN t.chunk \ {follower} = (DOMAIN s.chunk \ PartsTo(s, b, i)) \cup {N}
    BY <1>2, <1>3, <1>4, <1>6, <1>12, <2>3
  <2>5. \A a \in DOMAIN s.chunk \ PartsTo(s, b, i) : a # N => u.chunk[a] = t.chunk[a]
    BY <1>2, <1>3, <1>6, <2>1
  <2> HIDE DEF g
  <2> QED
    BY <1>12, <2>1, <2>2, <2>4, <2>5
<1>15. /\ j \in (i + 1)..l /\ j \notin (j + 1)..l
       /\ \A k \in Levels : k \in (i + 1)..l <=> k = j \/ k \in (j + 1)..l
  <2>1. j \in Int /\ l \in Int /\ j <= l
    BY <1>3, LevelRanges
  <2>2. \A k \in Levels : k \in Int
    BY LevelRanges
  <2> HIDE DEF l
  <2> QED
    BY <2>1, <2>2
<1>16. [t.list EXCEPT ![j] = Unlink(@, buddy)] = u.list
  <2>1. t.list = [k \in Levels |-> IF k \in (j + 1)..l THEN Unlink(s.list[k], Buddy(b, k))
                                                      ELSE s.list[k]]
    BY <1>5 DEF MergeForm
  <2>2. u.list = [k \in Levels |-> IF k \in (i + 1)..l THEN Unlink(s.list[k], Buddy(b, k))
                                                      ELSE s.list[k]]
    BY <1>5 DEF MergeForm
  <2>3. [t.list EXCEPT ![j] = Unlink(@, buddy)]
          = [k \in Levels |-> IF k = j THEN Unlink(t.list[k], buddy) ELSE t.list[k]]
    BY <1>6
  <2>4. ASSUME NEW k \in Levels
        PROVE  (IF k = j THEN Unlink(t.list[k], buddy) ELSE t.list[k])
                 = IF k \in (i + 1)..l THEN Unlink(s.list[k], Buddy(b, k)) ELSE s.list[k]
    <3> HIDE DEF i, l, u
    <3> QED
      BY <1>15, <2>1
  <2> HIDE DEF i, l, u, buddy
  <2> QED
    BY <2>2, <2>3, <2>4
<1>17. [t.listed EXCEPT ![j] = @ - t.chunk[buddy].committed] = u.listed
  <2>1. t.listed = [k \in Levels |-> IF k \in (j + 1)..l THEN s.listed[k] - s.chunk[Buddy(b, k)].committed
                                                        ELSE s.listed[k]]
    BY <1>5 DEF MergeForm
  <2>2. u.listed = [k \in Levels |-> IF k \in (i + 1)..l THEN s.listed[k] - s.chunk[Buddy(b, k)].committed
                                                        ELSE s.listed[k]]
    BY <1>5 DEF MergeForm
  <2>3. [t.listed EXCEPT ![j] = @ - t.chunk[buddy].committed]
          = [k \in Levels |-> IF k = j THEN t.listed[k] - t.chunk[buddy].committed ELSE t.listed[k]]
    BY <1>6
  <2>4. ASSUME NEW k \in Levels
        PROVE  (IF k = j THEN t.listed[k] - t.chunk[buddy].committed ELSE t.listed[k])
                 = IF k \in (i + 1)..l THEN s.listed[k] - s.chunk[Buddy(b, k)].committed ELSE s.listed[k]
    <3>1. t.chunk[buddy] = s.chunk[buddy]
      BY <1>6
    <3> HIDE DEF i, l, u
    <3> QED
      BY <1>15, <2>1, <3>1
  <2> HIDE DEF i, l, u, buddy
  <2> QED
    BY <2>2, <2>3, <2>4
<1>18. u = Put(s, u.chunk, u.list, u.listed)
  BY <1>5 DEF MergeForm
<1> HIDE DEF g, u, w, leader, follower, base, N
<1>19. Put(t, u.chunk, u.list, u.listed) = Put(s, u.chunk, u.list, u.listed)
  BY <1>1, <1>6, PutTwice
<1>20. JoinBuddy(t, base) = [state |-> u, base |-> N]
  <2>1. leader = N
    BY <1>12
  <2> QED
    BY <1>13, <1>14, <1>16, <1>17, <1>18, <1>19, <2>1 DEF g
<1> QED
  BY <1>20 DEF u, base, N, i

\* Everything in s that is a function is one.
Formed(s) ==
  /\ DOMAIN s = Fields
  /\ s.list   = [l \in Levels |-> s.list[l]]
  /\ s.listed = [l \in Levels |-> s.listed[l]]

\* Without a buddy to join nothing changes.
LEMMA MergeNone ==
  ASSUME NEW s, NEW other, NEW b, Mergeful(s, other, b), Formed(s),
         s = [x \in DOMAIN s |-> s[x]], s.chunk = [a \in DOMAIN s.chunk |-> s.chunk[a]],
         NEW l, l = s.chunk[b].level
  PROVE  Merge(s, b, l) = s /\ Block(b, l) = b /\ l \in Levels
<1> DEFINE t == Merge(s, b, l)
           c == s.chunk[b]
<1>1. /\ other \in Int /\ Accounts(s, other) /\ Tiled(s) /\ b \in DOMAIN s.chunk
      /\ DOMAIN s = Fields /\ c \in Metachunk /\ Line(c) /\ c.state = "free"
  BY DEF Mergeful, Accounts, ChunkMap
<1>2. b \in Nat /\ l \in Levels /\ l \in Int /\ Block(b, l) = b /\ WordSize[l] \in Nat
  <2>1. b \in Nat /\ l \in Levels /\ Block(b, l) = b
    BY <1>1, ChunkOfTiling DEF Tiled
  <2> QED
    BY <2>1, LevelRanges, SizesPositive
<1>3. (l + 1)..l = {}
  BY <1>2
<1>4. PartsTo(s, b, l) = {b} /\ JoinsTo(s, b, l)
  BY <1>3 DEF PartsTo, JoinsTo
<1>5. c.committed \in Nat /\ c.committed <= WordSize[l] /\ c.used = 0 /\ SizeOf(s, b) = WordSize[l]
  BY <1>1 DEF Line, Metachunk, SizeOf
<1>6. LineTo(s, b, l) = c.committed
  <2>1. GapsTo(s, b, l) = IF c.committed < WordSize[l] THEN {b} ELSE {}
    BY <1>2, <1>4, <1>5 DEF GapsTo
  <2>2. LineStops(s, b, l, c.committed)
    <3> HIDE DEF c
    <3>1. c.committed = WordSize[l] \/ c.committed < WordSize[l]
      BY <1>2, <1>5
    <3> QED
      BY <1>2, <1>5, <2>1, <3>1 DEF LineStops, c
  <2>3. l <= s.chunk[b].level
    BY <1>2
  <2> QED
    BY <1>1, <1>2, <1>4, <2>2, <2>3, LineFound
<1>7. FreeChunk(l, c.committed) = c
  <2>1. c = [level |-> l, state |-> "free", committed |-> c.committed, used |-> 0]
    BY <1>1, <1>5 DEF Metachunk
  <2> HIDE DEF c
  <2> QED
    BY <2>1 DEF FreeChunk, FreshChunk
<1>8. MergeForm(s, t, b, l)
  BY <1>1, MergeHasForm
<1> HIDE DEF t
<1>9. t.chunk = s.chunk
  <2>1. t.chunk = [a \in (DOMAIN s.chunk \ {b}) \cup {b} |-> t.chunk[a]]
    BY <1>2, <1>4, <1>8 DEF MergeForm
  <2>2. t.chunk[b] = c /\ \A a \in DOMAIN s.chunk \ {b} : t.chunk[a] = s.chunk[a]
    BY <1>2, <1>4, <1>6, <1>7, <1>8 DEF MergeForm
  <2>3. (DOMAIN s.chunk \ {b}) \cup {b} = DOMAIN s.chunk
    BY <1>1
  <2> QED
    BY <2>1, <2>2, <2>3
<1>10. t.list = s.list /\ t.listed = s.listed
  <2>1. /\ t.list = [k \in Levels |-> s.list[k]]
        /\ t.listed = [k \in Levels |-> s.listed[k]]
    BY <1>3, <1>8 DEF MergeForm
  <2> QED
    BY <2>1 DEF Formed
<1>11. t = s
  <2>1. t = Put(s, s.chunk, s.list, s.listed)
    BY <1>8, <1>9, <1>10 DEF MergeForm
  <2>2. Put(s, s.chunk, s.list, s.listed) = s
    BY DEF Put, Fields
  <2> QED
    BY <2>1, <2>2
<1> QED
  BY <1>2, <1>11 DEF t

\* The rounds of the merge loop, which idle once there is no buddy to join.
Round(m) == LET l == m.state.chunk[m.base].level
            IN  IF l # RootLevel /\ Joins(m.state, m.base, l)
                  THEN JoinBuddy(m.state, m.base) ELSE m

MergeRounds(f, s, b) ==
  f = [k \in Levels |-> IF k = 0 THEN [state |-> s, base |-> b] ELSE Round(f[k - 1])]

\* The loop is the last of its rounds.
LEMMA MergeLoopUnfolds ==
  ASSUME NEW s, NEW b
  PROVE  MergeLoop(s, b) = (CHOOSE f : MergeRounds(f, s, b))[HighestLevel]
BY DEF MergeLoop, MergeRounds, Round

\* After some rounds the block of level j is one chunk.
Stage(s, b, j) == [state |-> Merge(s, b, j), base |-> Block(b, j)]

\* One round takes it a level further, down to where merging stops.
LEMMA StageRound ==
  ASSUME NEW s, NEW other, NEW b, Mergeful(s, other, b),
         NEW j \in Levels, MergeLevel(s, b) <= j, j <= s.chunk[b].level
  PROVE  Round(Stage(s, b, j)) = Stage(s, b, IF j = MergeLevel(s, b) THEN j ELSE j - 1)
<1> DEFINE m     == MergeLevel(s, b)
           l     == s.chunk[b].level
           t     == Merge(s, b, j)
           base  == Block(b, j)
           buddy == Buddy(b, j)
<1>1. /\ other \in Int /\ Accounts(s, other) /\ Tiled(s) /\ b \in DOMAIN s.chunk /\ DOMAIN s = Fields
      /\ m \in Levels /\ \A k \in (m + 1)..l : Joins(s, b, k)
      /\ m # RootLevel => ~Joins(s, b, m)
  BY MergeLevelReached DEF Mergeful, Accounts
<1>2. b \in Nat /\ m \in Int /\ j \in Int /\ l \in Int
  BY <1>1, ChunkOfTiling, LevelRanges DEF Tiled
<1>3. JoinsTo(s, b, j)
  <2> HIDE DEF m, l
  <2>1. \A k \in (j + 1)..l : k \in (m + 1)..l
    BY <1>2 DEF m
  <2> QED
    BY <1>1, <2>1 DEF JoinsTo, l
<1>4. MergeForm(s, t, b, j)
  BY <1>1, MergeHasForm
<1> HIDE DEF t
<1>5. /\ t.chunk[base] = FreeChunk(j, LineTo(s, b, j))
      /\ DOMAIN t.chunk = (DOMAIN s.chunk \ PartsTo(s, b, j)) \cup {base}
      /\ \A a \in DOMAIN s.chunk \ PartsTo(s, b, j) : a # base => t.chunk[a] = s.chunk[a]
  BY <1>4 DEF MergeForm
<1>6. t.chunk[base].level = j
  BY <1>5 DEF FreeChunk, FreshChunk
<1>7. j # RootLevel => Buddy(base, j) = buddy /\ buddy # base
  BY <1>2, BuddyOfBlock, BuddyOfBuddy
<1>8. Stage(s, b, j).state = t /\ Stage(s, b, j).base = base
  BY DEF Stage, t
<1> HIDE DEF base
<1>9. Round(Stage(s, b, j)) = IF j # RootLevel /\ Joins(t, base, j)
                                THEN JoinBuddy(t, base) ELSE Stage(s, b, j)
  BY <1>6, <1>8 DEF Round
<1>10. CASE j = m
  <2>1. ~(j # RootLevel /\ Joins(t, base, j))
    <3> SUFFICES ASSUME j # RootLevel, Joins(t, base, j)
                 PROVE  FALSE
      OBVIOUS
    <3>1. buddy \in DOMAIN t.chunk /\ t.chunk[buddy].level = j /\ t.chunk[buddy].state = "free"
      BY <1>7 DEF Joins, IsChunk, IsFree
    <3>2. buddy \in DOMAIN s.chunk /\ t.chunk[buddy] = s.chunk[buddy]
      BY <1>5, <1>7, <3>1
    <3>3. Joins(s, b, j)
      BY <3>1, <3>2 DEF Joins, IsChunk, IsFree
    <3> QED
      BY <1>1, <1>10, <3>3
  <2> HIDE DEF m
  <2> QED
    BY <1>9, <1>10, <2>1 DEF m
<1>11. CASE j # m
  <2>1. j # RootLevel /\ j - 1 \in Levels /\ m <= j - 1
    <3>1. m \in Nat
      BY <1>1, LevelRanges
    <3> HIDE DEF m
    <3>2. j # 0
      BY <1>2, <1>11, <3>1 DEF m
    <3>3. m <= j - 1
      BY <1>2, <1>11 DEF m
    <3> QED
      BY <3>2, <3>3, LevelRanges DEF RootLevel
  <2>2. JoinsTo(s, b, j - 1)
    <3> HIDE DEF m, l
    <3>1. \A k \in ((j - 1) + 1)..l : k \in (m + 1)..l
      BY <1>2, <2>1
    <3> QED
      BY <1>1, <3>1 DEF JoinsTo, l
  <2>3. Joins(t, base, j)
    <3>1. Joins(s, b, j) /\ buddy \notin PartsTo(s, b, j)
      BY <1>1, <2>1, <2>2, PartsGrow
    <3>2. buddy \in DOMAIN t.chunk /\ t.chunk[buddy] = s.chunk[buddy]
      BY <1>5, <1>7, <2>1, <3>1 DEF Joins, IsChunk
    <3> QED
      BY <1>7, <2>1, <3>1, <3>2 DEF Joins, IsChunk, IsFree
  <2>4. JoinBuddy(t, base) = Stage(s, b, j - 1)
    BY <2>1, <2>2, MergeRound DEF Stage, t, base
  <2> HIDE DEF m
  <2> QED
    BY <1>9, <1>11, <2>1, <2>3, <2>4 DEF m
<1> QED
  BY <1>10, <1>11

\* Joining one buddy after the other, as the loop does, comes to the closed form.
LEMMA MergeLoopCloses ==
  ASSUME NEW s, NEW other, NEW b, Mergeful(s, other, b), Formed(s),
         s = [x \in DOMAIN s |-> s[x]], s.chunk = [a \in DOMAIN s.chunk |-> s.chunk[a]]
  PROVE  MergeLoop(s, b) = Stage(s, b, MergeLevel(s, b))
<1> DEFINE m      == MergeLevel(s, b)
           l      == s.chunk[b].level
           lev(k) == IF m <= l - k THEN l - k ELSE m
           F      == [k \in Levels |-> Stage(s, b, lev(k))]
<1>1. /\ m \in Levels /\ m <= l /\ l \in Levels /\ m \in Int /\ l \in Int
      /\ HighestLevel \in Levels /\ HighestLevel \in Int /\ l <= HighestLevel /\ 0 <= m
  <2>1. m \in Levels /\ m <= l /\ l \in Levels
    BY MergeLevelReached, ChunkOf DEF Mergeful
  <2> QED
    BY <2>1, GeometryAssumption DEF Levels
<1> HIDE DEF m, l
<1>2. ASSUME NEW k \in Levels
      PROVE  /\ lev(k) \in Levels /\ m <= lev(k) /\ lev(k) <= l
             /\ k # 0 => /\ k - 1 \in Levels
                         /\ lev(k) = IF lev(k - 1) = m THEN lev(k - 1) ELSE lev(k - 1) - 1
  <2>1. k \in 0..HighestLevel /\ m \in 0..HighestLevel /\ l \in 0..HighestLevel /\ HighestLevel \in Int
    BY <1>1 DEF Levels
  <2>2. lev(k) \in 0..HighestLevel /\ m <= lev(k) /\ lev(k) <= l
    BY <1>1, <2>1
  <2>3. k # 0 => /\ k - 1 \in 0..HighestLevel
                 /\ lev(k) = IF lev(k - 1) = m THEN lev(k - 1) ELSE lev(k - 1) - 1
    BY <1>1, <2>1
  <2> QED
    BY <2>2, <2>3 DEF Levels
<1>3. lev(0) = l /\ lev(HighestLevel) = m
  BY <1>1
<1>4. Stage(s, b, l) = [state |-> s, base |-> b]
  BY MergeNone DEF Stage, l
<1>5. ASSUME NEW k \in Levels, k # 0
      PROVE  Round(Stage(s, b, lev(k - 1))) = Stage(s, b, lev(k))
  <2>1. k - 1 \in Levels
    BY <1>2, <1>5
  <2>2. ASSUME NEW j, j = lev(k - 1)
        PROVE  Round(Stage(s, b, j)) = Stage(s, b, lev(k))
    <3>1. j \in Levels /\ m <= j /\ j <= l
      BY <1>2, <2>1, <2>2
    <3>2. Round(Stage(s, b, j)) = Stage(s, b, IF j = m THEN j ELSE j - 1)
      BY <3>1, StageRound DEF m, l
    <3>3. lev(k) = IF j = m THEN j ELSE j - 1
      BY <1>2, <1>5, <2>2
    <3> HIDE DEF lev
    <3> QED
      BY <3>2, <3>3
  <2> QED
    BY <2>2
<1> HIDE DEF lev
<1>6. MergeRounds(F, s, b)
  <2>1. \A k \in Levels : Stage(s, b, lev(k)) = IF k = 0 THEN [state |-> s, base |-> b]
                                               ELSE Round(F[k - 1])
    <3> SUFFICES ASSUME NEW k \in Levels
                 PROVE  Stage(s, b, lev(k)) = IF k = 0 THEN [state |-> s, base |-> b]
                                              ELSE Round(F[k - 1])
      OBVIOUS
    <3>1. CASE k = 0
      BY <1>3, <1>4, <3>1
    <3>2. CASE k # 0
      <4>1. F[k - 1] = Stage(s, b, lev(k - 1))
        BY <1>2, <3>2
      <4> HIDE DEF F
      <4> QED
        BY <1>5, <3>2, <4>1
    <3> QED
      BY <3>1, <3>2
  <2>2. F = [k \in Levels |-> IF k = 0 THEN [state |-> s, base |-> b] ELSE Round(F[k - 1])]
    <3> DEFINE H(k) == IF k = 0 THEN [state |-> s, base |-> b] ELSE Round(F[k - 1])
    <3>1. \A k \in Levels : Stage(s, b, lev(k)) = H(k)
      BY <2>1
    <3> HIDE DEF H
    <3>2. F = [k \in Levels |-> H(k)]
      BY <3>1
    <3> QED
      BY <3>2 DEF H
  <2> HIDE DEF F
  <2> QED
    BY <2>2 DEF MergeRounds
<1> DEFINE f == CHOOSE g : MergeRounds(g, s, b)
<1>7. MergeRounds(f, s, b)
  <2> HIDE DEF F
  <2> QED
    BY <1>6
<1> HIDE DEF f
<1>8. \A k \in Levels : f[k] = IF k = 0 THEN [state |-> s, base |-> b] ELSE Round(f[k - 1])
  BY <1>7 DEF MergeRounds
<1> DEFINE Holds == {k \in Levels : f[k] = Stage(s, b, lev(k))}
<1>9. 0 \in Levels /\ 0 \in Holds
  <2>1. 0 \in Levels
    BY GeometryAssumption DEF Levels
  <2> QED
    BY <1>3, <1>4, <1>8, <2>1
<1>10. ASSUME NEW k \in Levels, k > 0, k - 1 \in Holds
       PROVE  k \in Holds
  <2>1. k # 0
    BY <1>10
  <2>2. f[k] = Round(Stage(s, b, lev(k - 1)))
    BY <1>8, <1>10, <2>1
  <2> QED
    BY <1>5, <2>1, <2>2
<1>11. HighestLevel \in Holds
  <2> HIDE DEF Holds
  <2>1. Holds \in SUBSET Levels
    BY DEF Holds
  <2>2. \A k \in Levels : k >= 0 => k \in Holds
    BY <1>9, <1>10, <2>1, LevelInduction
  <2> QED
    BY <1>1, <2>2
<1>12. f[HighestLevel] = Stage(s, b, m)
  BY <1>3, <1>11
<1> QED
  BY <1>12, MergeLoopUnfolds DEF f, m

-----------------------------------------------------------------------------
(* The lists and their counters stay functions of the level, whatever is   *)
(* called: where the loop does nothing, it returns what it was given.      *)

\* Listing and unlisting a chunk leave a record of these fields.
LEMMA FormedLists ==
  ASSUME NEW s, Formed(s), NEW b
  PROVE  Formed(Enlist(s, b)) /\ Formed(Delist(s, b))
<1>1. ASSUME NEW k, NEW q, NEW n
      PROVE  /\ [s.list EXCEPT ![k] = q] = [l \in Levels |-> [s.list EXCEPT ![k] = q][l]]
             /\ [s.listed EXCEPT ![k] = n] = [l \in Levels |-> [s.listed EXCEPT ![k] = n][l]]
  BY DEF Formed
<1>2. ASSUME NEW t, NEW k, NEW q, NEW n,
             t = [s EXCEPT !.list = [@ EXCEPT ![k] = q], !.listed = [@ EXCEPT ![k] = n]]
      PROVE  Formed(t)
  <2>1. /\ DOMAIN t = Fields /\ t.list = [s.list EXCEPT ![k] = q]
        /\ t.listed = [s.listed EXCEPT ![k] = n]
    BY <1>2 DEF Formed, Fields
  <2> QED
    BY <1>1, <2>1 DEF Formed
<1> DEFINE k    == s.chunk[b].level
           c    == s.chunk[b].committed
<1>3. /\ Enlist(s, b) = [s EXCEPT !.list = [@ EXCEPT ![k] = Push(s.list[k], b, c)],
                                  !.listed = [@ EXCEPT ![k] = s.listed[k] + c]]
      /\ Delist(s, b) = [s EXCEPT !.list = [@ EXCEPT ![k] = Unlink(s.list[k], b)],
                                  !.listed = [@ EXCEPT ![k] = s.listed[k] - c]]
  BY DEF Enlist, Delist, Formed, Fields
<1> HIDE DEF k, c
<1> QED
  BY <1>2, <1>3

\* Operations that leave the lists alone.
LEMMA FormedFrame ==
  ASSUME NEW s, Formed(s), NEW t, DOMAIN t = Fields, t.list = s.list, t.listed = s.listed
  PROVE  Formed(t)
BY DEF Formed

\* Committing and uncommitting leave a record of these fields.
LEMMA FormedRange ==
  ASSUME NEW s, Formed(s), NEW b, NEW words
  PROVE  /\ Formed(CommitUpTo(s, b, words)) /\ Formed(Uncommit(s, b))
<1>1. ASSUME NEW x, NEW y
      PROVE  Formed(CommitRange(s, x, y)) /\ Formed(UncommitRange(s, x, y))
  <2>1. /\ DOMAIN CommitRange(s, x, y) = Fields /\ CommitRange(s, x, y).list = s.list
        /\ CommitRange(s, x, y).listed = s.listed
    BY DEF CommitRange, Formed, Fields
  <2>2. /\ DOMAIN UncommitRange(s, x, y) = Fields /\ UncommitRange(s, x, y).list = s.list
        /\ UncommitRange(s, x, y).listed = s.listed
    BY DEF UncommitRange, Formed, Fields
  <2> QED
    BY <2>1, <2>2, FormedFrame
<1>2. ASSUME NEW t, Formed(t), NEW x
      PROVE  Formed([t EXCEPT !.chunk[b].committed = x])
  <2> DEFINE u == [t EXCEPT !.chunk[b].committed = x]
  <2>1. DOMAIN u = Fields /\ u.list = t.list /\ u.listed = t.listed
    BY <1>2 DEF Formed, Fields
  <2> HIDE DEF u
  <2>2. Formed(u)
    BY <1>2, <2>1, FormedFrame
  <2> QED
    BY <2>2 DEF u
<1>3. Formed(CommitUpTo(s, b, words))
  <2> DEFINE from == s.chunk[b].committed
             to   == CommitTo(s, b, words)
             t    == IF to > from THEN CommitRange(s, b + from, to - from) ELSE s
  <2>1. Formed(t)
    <3> HIDE DEF from, to
    <3> QED
      BY <1>1
  <2> HIDE DEF t
  <2>2. Formed([t EXCEPT !.chunk[b].committed = to])
    BY <1>2, <2>1
  <2> QED
    BY <2>2 DEF CommitUpTo, t
<1>4. Formed(Uncommit(s, b))
  <2> DEFINE t == UncommitRange(s, b, SizeOf(s, b))
  <2>1. Formed(t)
    BY <1>1
  <2> HIDE DEF t
  <2>2. Formed([t EXCEPT !.chunk[b].committed = 0])
    BY <1>2, <2>1
  <2> QED
    BY <2>2 DEF Uncommit, t
<1> QED
  BY <1>3, <1>4

\* So do the changes of a chunk and of a node.
LEMMA FormedShapes ==
  ASSUME NEW s, Formed(s), NEW b, NEW l, NEW n, NEW size, NEW state
  PROVE  /\ Formed(Split(s, b, l)) /\ Formed(Merge(s, b, l)) /\ Formed(SetFree(s, b))
         /\ Formed(Enlarge(s, b)) /\ Formed(Bump(s, b, size))
         /\ Formed(NewNode(s, n)) /\ Formed(AllocateRootChunk(s, b))
         /\ Formed([s EXCEPT !.chunk[b].state = state])
<1>1. Formed(Split(s, b, l))
  <2> DEFINE t == Split(s, b, l)
  <2>1. /\ DOMAIN t = Fields
        /\ t.list = [k \in Levels |-> IF k \in Cuts(s, b, l)
                                        THEN Push(s.list[k], b + WordSize[k], Spill(s, b, k))
                                        ELSE s.list[k]]
        /\ t.listed = [k \in Levels |-> IF k \in Cuts(s, b, l) THEN s.listed[k] + Spill(s, b, k)
                                                               ELSE s.listed[k]]
    BY DEF Formed, Split, Fields, Cuts, Spill
  <2>2. t.list = [k \in Levels |-> t.list[k]] /\ t.listed = [k \in Levels |-> t.listed[k]]
    <3> HIDE DEF t
    <3> QED
      BY <2>1
  <2> QED
    BY <2>1, <2>2 DEF Formed
<1>2. Formed(Merge(s, b, l))
  <2> DEFINE t == Merge(s, b, l)
  <2>1. MergeForm(s, t, b, l)
    BY MergeHasForm DEF Formed
  <2> HIDE DEF t
  <2>2. DOMAIN t = Fields
    <3>1. t = Put(s, t.chunk, t.list, t.listed)
      BY <2>1 DEF MergeForm
    <3> QED
      BY <3>1, PutTwice DEF Formed
  <2>3. t.list = [k \in Levels |-> t.list[k]] /\ t.listed = [k \in Levels |-> t.listed[k]]
    BY <2>1 DEF MergeForm
  <2> QED
    BY <2>2, <2>3 DEF Formed, t
<1>3. Formed(SetFree(s, b))
  <2>1. /\ DOMAIN SetFree(s, b) = Fields /\ SetFree(s, b).list = s.list
        /\ SetFree(s, b).listed = s.listed
    BY DEF SetFree, Formed, Fields
  <2> QED
    BY <2>1, FormedFrame
<1>4. Formed(Bump(s, b, size))
  <2>1. /\ DOMAIN Bump(s, b, size) = Fields /\ Bump(s, b, size).list = s.list
        /\ Bump(s, b, size).listed = s.listed
    BY DEF Bump, Formed, Fields
  <2> QED
    BY <2>1, FormedFrame
<1>5. Formed(NewNode(s, n)) /\ Formed(AllocateRootChunk(s, b))
  <2>1. /\ DOMAIN NewNode(s, n) = Fields /\ NewNode(s, n).list = s.list
        /\ NewNode(s, n).listed = s.listed
    BY DEF NewNode, Formed, Fields
  <2>2. /\ DOMAIN AllocateRootChunk(s, b) = Fields /\ AllocateRootChunk(s, b).list = s.list
        /\ AllocateRootChunk(s, b).listed = s.listed
    BY DEF AllocateRootChunk, Formed, Fields
  <2> QED
    BY <2>1, <2>2, FormedFrame
<1>6. Formed([s EXCEPT !.chunk[b].state = state])
  <2> DEFINE t == [s EXCEPT !.chunk[b].state = state]
  <2>1. DOMAIN t = Fields /\ t.list = s.list /\ t.listed = s.listed
    BY DEF Formed, Fields
  <2> HIDE DEF t
  <2>2. Formed(t)
    BY <2>1, FormedFrame
  <2> QED
    BY <2>2 DEF t
<1>7. Formed(Enlarge(s, b))
  <2> DEFINE t == Delist(s, Buddy(b, s.chunk[b].level))
             u == Enlarge(s, b)
  <2>1. Formed(t)
    BY FormedLists
  <2>2. DOMAIN u = Fields /\ u.list = t.list /\ u.listed = t.listed
    <3>1. DOMAIN t = Fields
      BY <2>1 DEF Formed
    <3>2. \A f : /\ DOMAIN [t EXCEPT !.chunk = f] = Fields /\ [t EXCEPT !.chunk = f].list = t.list
                 /\ [t EXCEPT !.chunk = f].listed = t.listed
      <4> HIDE DEF t
      <4> QED
        BY <3>1 DEF Fields
    <3>3. \E f : u = [t EXCEPT !.chunk = f]
      BY DEF Enlarge
    <3> HIDE DEF t, u
    <3> QED
      BY <3>2, <3>3
  <2> HIDE DEF t, u
  <2>3. Formed(u)
    BY <2>1, <2>2, FormedFrame
  <2> QED
    BY <2>3 DEF u
<1> QED
  BY <1>1, <1>2, <1>3, <1>4, <1>5, <1>6, <1>7

\* So does the return of a chunk.
LEMMA FormedReturn ==
  ASSUME NEW s, Formed(s), NEW b
  PROVE  Formed(ReturnChunk(s, b))
<1> DEFINE freed  == SetFree(s, b)
           m      == MergeLevel(freed, b)
           merged == MergeAll(freed, b)
           lean   == IF UncommitFreeChunks /\ WordSize[m] >= GranuleWords
                       THEN Uncommit(merged, Block(b, m)) ELSE merged
<1>1. Formed(freed)
  BY FormedShapes
<1>2. Formed(merged)
  BY <1>1, FormedShapes DEF MergeAll
<1>3. Formed(lean)
  <2> HIDE DEF merged, m
  <2> QED
    BY <1>2, FormedRange
<1> HIDE DEF lean
<1>4. Formed(Enlist(lean, Block(b, m)))
  BY <1>3, FormedLists
<1> QED
  BY <1>4 DEF ReturnChunk, lean

\* So does handing out a chunk.
LEMMA FormedHandOut ==
  ASSUME NEW s, Formed(s), NEW b, NEW r
  PROVE  Formed(HandOut(s, b, r))
<1> DEFINE t    == Cut(s, b, r)
           full == IF Short(t, b, r) THEN CommitUpTo(t, b, ToCommit(t, b, r)) ELSE t
<1>1. Formed(t)
  BY FormedShapes DEF Cut
<1> HIDE DEF t
<1>2. Formed(full)
  BY <1>1, FormedRange
<1> HIDE DEF full
<1>3. Formed([full EXCEPT !.chunk[b].state = "inuse"])
  BY <1>2, FormedShapes
<1>4. Formed(ReturnChunk([t EXCEPT !.chunk[b].state = "inuse"], b))
  <2> DEFINE u == [t EXCEPT !.chunk[b].state = "inuse"]
  <2>1. Formed(u)
    BY <1>1, FormedShapes
  <2> HIDE DEF u
  <2>2. Formed(ReturnChunk(u, b))
    BY <2>1, FormedReturn
  <2> QED
    BY <2>2 DEF u
<1>5. HandOut(s, b, r) = IF Serves(s, b, r) THEN [full EXCEPT !.chunk[b].state = "inuse"]
                         ELSE ReturnChunk([t EXCEPT !.chunk[b].state = "inuse"], b)
  BY DEF HandOut, full, t
<1> QED
  BY <1>3, <1>4, <1>5

\* So does a purge.
LEMMA FormedPurge ==
  ASSUME NEW s, Formed(s)
  PROVE  Formed(PurgeNodes(s)) /\ Formed(UncommitListed(s))
<1>1. Formed(UncommitListed(s))
  <2>1. /\ DOMAIN UncommitListed(s) = Fields /\ UncommitListed(s).list = s.list
        /\ UncommitListed(s).listed = s.listed
    BY DEF UncommitListed, Formed, Fields
  <2> QED
    BY <2>1, FormedFrame
<1>2. Formed(PurgeNodes(s))
  <2> DEFINE t == PurgeNodes(s)
  <2>1. \E q, n : /\ DOMAIN t = Fields /\ t.list = [s.list EXCEPT ![RootLevel] = q]
                  /\ t.listed = [s.listed EXCEPT ![RootLevel] = n]
    BY DEF PurgeNodes, Formed, Fields
  <2> HIDE DEF t
  <2>2. t.list = [k \in Levels |-> t.list[k]] /\ t.listed = [k \in Levels |-> t.listed[k]]
    BY <2>1 DEF Formed
  <2>3. Formed(t)
    BY <2>1, <2>2 DEF Formed
  <2> QED
    BY <2>3 DEF t
<1> QED
  BY <1>1, <1>2

ListsFormed == Formed(ctx)

\* The context is such a record at first.
LEMMA InitFormed == Init => ListsFormed
BY DEF Init, EmptyContext, ListsFormed, Formed, Fields

\* It remains one.
LEMMA NextFormed == ListsFormed /\ [Next]_vars => ListsFormed'
<1> SUFFICES ASSUME Formed(ctx), [Next]_vars
             PROVE  Formed(ctx')
  BY DEF ListsFormed
<1>1. ASSUME NEW r \in Requests, GetChunk(r)
      PROVE  Formed(ctx')
  <2>1. CASE GetListedChunk(r)
    <3>1. PICK b : ctx' = HandOut(Delist(ctx, b), b, r)
      BY <2>1 DEF GetListedChunk
    <3> QED
      BY <3>1, FormedLists, FormedHandOut
  <2>2. CASE GetRootChunk(r)
    <3>1. PICK b, s : /\ s = ctx \/ \E n \in Unreserved(ctx) : s = NewNode(ctx, n)
                      /\ ctx' = HandOut(AllocateRootChunk(s, b), b, r)
      BY <2>2 DEF GetRootChunk
    <3>2. Formed(s)
      BY <3>1, FormedShapes
    <3>3. Formed(AllocateRootChunk(s, b))
      BY <3>2, FormedShapes
    <3> QED
      BY <3>1, <3>3, FormedHandOut
  <2> QED
    BY <1>1, <2>1, <2>2 DEF GetChunk
<1>2. ASSUME NEW b, NEW size, \/ ReturnChunkOp(b)
                              \/ AttemptEnlargeChunk(b)
                              \/ EnsureCommitted(b, size)
                              \/ Allocate(b, size)
      PROVE  Formed(ctx')
  <2>1. \/ ctx' = ReturnChunk(ctx, b) \/ ctx' = Enlarge(ctx, b)
        \/ ctx' = CommitUpTo(ctx, b, ctx.chunk[b].used + size)
        \/ ctx' = Bump(ctx, b, size)
    BY <1>2 DEF ReturnChunkOp, AttemptEnlargeChunk, EnsureCommitted, Allocate
  <2>2. Formed(ReturnChunk(ctx, b))
    BY FormedReturn
  <2>3. Formed(Enlarge(ctx, b)) /\ Formed(Bump(ctx, b, size))
    BY FormedShapes
  <2>4. Formed(CommitUpTo(ctx, b, ctx.chunk[b].used + size))
    BY FormedRange
  <2> QED
    BY <2>1, <2>2, <2>3, <2>4
<1>3. CASE Purge
  BY <1>3, FormedPurge DEF Purge
<1>4. CASE ForeignCommit \/ ForeignUncommit
  <2>1. DOMAIN ctx' = Fields /\ ctx'.list = ctx.list /\ ctx'.listed = ctx.listed
    BY <1>4 DEF ForeignCommit, ForeignUncommit, Formed, Fields
  <2> QED
    BY <2>1, FormedFrame
<1>5. CASE UNCHANGED vars
  BY <1>5 DEF vars
<1> QED
  BY <1>1, <1>2, <1>3, <1>4, <1>5 DEF Next

\* For every geometry, every chunk in a free list after any sequence of
\* operations and every level below its own: split in closed form leaves what
\* the loop of RootChunkArea::split leaves, the commit lines of all splinters,
\* the order of the lists and their counters included.
THEOREM SplitLoopsAgree == Spec => []SplitIsTheLoop
<1>1. IInv /\ ListsFormed => SplitIsTheLoop
  <2> SUFFICES ASSUME IInv, Formed(ctx), NEW l \in Levels, NEW b \in Range(ctx.list[l]),
                      NEW target \in (l + 1)..HighestLevel
               PROVE  Split(Delist(ctx, b), b, target) = SplitLoop(Delist(ctx, b), b, target)
    BY DEF SplitIsTheLoop, ListsFormed
  <2>1. /\ foreign \in Int /\ Accounts(ctx, foreign) /\ Tiled(ctx) /\ Listed(ctx, {}) /\ Backed(ctx)
    BY WholeFacts DEF IInv
  <2> DEFINE s == Delist(ctx, b)
  <2>2. Accounts(s, foreign) /\ s.chunk = ctx.chunk /\ Tiled(s)
    BY <2>1, ListAccounts, ListTiled
  <2>3. b \in DOMAIN ctx.chunk /\ ctx.chunk[b].level = l
    <3>1. b \in Idle(ctx, {}, l)
      BY <2>1 DEF Listed, Lists
    <3> QED
      BY <3>1 DEF Idle
  <2>4. Formed(s)
    BY FormedLists
  <2>5. ctx.chunk[b].committed <= WordSize[l]
    BY <2>1, <2>3 DEF Backed, Stands, Line
  <2>6. target \in Levels /\ l < target
    <3>1. l \in 0..HighestLevel /\ HighestLevel \in Int
      BY GeometryAssumption DEF Levels
    <3> QED
      BY <3>1 DEF Levels
  <2>7. DOMAIN s.list = Levels /\ DOMAIN s.listed = Levels /\ Tiles(s.chunk, Handed(s))
    <3> HIDE DEF s
    <3>1. DOMAIN s.list = Levels /\ DOMAIN s.listed = Levels
      BY <2>4 DEF Formed
    <3> QED
      BY <2>2, <3>1 DEF Tiled
  <2> HIDE DEF s
  <2>8. SplitLoop(s, b, target) = Split(s, b, target)
    BY <2>1, <2>2, <2>3, <2>5, <2>6, <2>7, SplitLoopCloses
  <2> QED
    BY <2>8 DEF s
<1> QED
  BY <1>1, InitWhole, NextWhole, InitFormed, NextFormed, PTL DEF Spec

\* For every geometry and every chunk in use after any sequence of operations:
\* when it is returned, merge in closed form joins the buddies that the loop of
\* RootChunkArea::merge joins, takes them off the same lists, and finds the
\* commit line the loop finds by rounding it anew after every buddy.
THEOREM MergeLoopsAgree == Spec => []MergeIsTheLoop
<1>1. IInv /\ ListsFormed => MergeIsTheLoop
  <2> SUFFICES ASSUME IInv, Formed(ctx), NEW b \in InUse(ctx)
               PROVE  LET s == SetFree(ctx, b) IN
                      /\ MergeAll(s, b) = MergeLoop(s, b).state
                      /\ Block(b, MergeLevel(s, b)) = MergeLoop(s, b).base
    BY DEF MergeIsTheLoop, ListsFormed
  <2>1. /\ foreign \in Int /\ Accounts(ctx, foreign) /\ Tiled(ctx) /\ Backed(ctx)
        /\ b \in DOMAIN ctx.chunk
    BY WholeFacts DEF IInv, InUse
  <2> DEFINE s == SetFree(ctx, b)
  <2>2. /\ Accounts(s, foreign) /\ Tiled(s) /\ s.chunk[b].state = "free" /\ b \in DOMAIN s.chunk
    BY <2>1, SetFreeTiled, SetFreeAccounts
  <2>3. \A q \in DOMAIN s.chunk : Line(s.chunk[q])
    <3>1. Backed(s)
      BY <2>1, SetFreeBacked
    <3> QED
      BY <3>1 DEF Backed, Stands
  <2>4. Formed(s)
    BY FormedShapes
  <2>5. s = [x \in DOMAIN s |-> s[x]] /\ s.chunk = [a \in DOMAIN s.chunk |-> s.chunk[a]]
    <3> DEFINE t == [[ctx EXCEPT !.chunk[b].state = "free"] EXCEPT !.chunk[b].used = 0]
               d == ctx.data \ Words(b, SizeOf(ctx, b))
    <3>1. s = [t EXCEPT !.data = d]
      BY DEF SetFree
    <3>2. DOMAIN t = Fields /\ t.chunk = [a \in DOMAIN t.chunk |-> t.chunk[a]]
      BY DEF Formed, Fields
    <3> HIDE DEF s, t, d
    <3> QED
      BY <3>1, <3>2 DEF Fields
  <2> HIDE DEF s
  <2>6. Mergeful(s, foreign, b)
    <3>1. DOMAIN s.list = Levels /\ DOMAIN s.listed = Levels
      BY <2>4 DEF Formed
    <3> QED
      BY <2>1, <2>2, <2>3, <3>1 DEF Mergeful
  <2>7. MergeLoop(s, b) = Stage(s, b, MergeLevel(s, b))
    BY <2>4, <2>5, <2>6, MergeLoopCloses
  <2>8. MergeAll(s, b) = MergeLoop(s, b).state /\ Block(b, MergeLevel(s, b)) = MergeLoop(s, b).base
    BY <2>7 DEF Stage, MergeAll
  <2> QED
    BY <2>8 DEF s
<1> QED
  BY <1>1, InitWhole, NextWhole, InitFormed, NextFormed, PTL DEF Spec
=============================================================================
