--------------------------- MODULE MetaspaceArena ---------------------------
(***************************************************************************)
(* The arenas of several class loaders on one metaspace context.  A loader *)
(* holds its own lock while its arena works; what an arena needs of the    *)
(* context it gets call by call under MetaspaceExpand_lock.  What it found *)
(* out about its current chunk before a call is the state of the arena     *)
(* between two steps, while other arenas, and purge, take theirs.          *)
(***************************************************************************)
EXTENDS ContextMethods, Functions

CONSTANTS
  Arenas,
  Policy,       \* the ArenaGrowthPolicy: a sequence of levels
  MinBlock,     \* FreeBlocks::MinWordSize
  Sizes         \* words a loader asks for

ASSUME ArenaAssumption ==
  /\ IsFiniteSet(Arenas)
  /\ Policy \in Seq(Levels) /\ Policy # <<>>
  /\ MinBlock \in 1..WordSize[RootLevel]
  /\ Sizes \subseteq 1..WordSize[RootLevel]

VARIABLES
  arena,        \* the arenas
  usedWords     \* the _total_used_words_counter of all arenas

vars == <<ctx, arena, usedWords>>

NoBlocks == [p \in {} |-> 0]
NoChunk  == -1

NoArena == [ pc       |-> "none",    \* where its operation stands
             size     |-> 0,         \* the words it is asked for
             chunks   |-> <<>>,      \* _chunks, the current one first
             taken    |-> NoChunk,   \* a new chunk that is not in _chunks yet
             returned |-> 0,         \* used words of the chunks given back
             live     |-> NoBlocks,  \* the loader's blocks: sizes by addresses
             free     |-> NoBlocks ] \* _fbl

Current(a) == Head(arena[a].chunks)

With(f, p, size) == [q \in DOMAIN f \cup {p} |-> IF q = p THEN size ELSE f[q]]
Without(f, p)    == Restrict(f, DOMAIN f \ {p})

\* get_raw_word_size_for_requested_word_size
RawSize(size) == Max({size, MinBlock})

\* next_chunk_level: the last level of the policy is repeated.
NextLevel(a) == Policy[Min({Len(arena[a].chunks) + 1, Len(Policy)})]

-----------------------------------------------------------------------------
(* MetaspaceArena::allocate                                                *)

Goto(a, place, size) == arena' = [arena EXCEPT ![a].pc = place, ![a].size = size]

\* The end of allocate: the loader gets the next words of chunk b.
Serve(a, s, b, size) ==
  /\ ctx' = Bump(s, b, size)
  /\ arena' = [arena EXCEPT ![a].pc = "idle", ![a].size = 0,
                            ![a].live = With(@, b + s.chunk[b].used, size)]
  /\ usedWords' = usedWords + size

FreeWords(s, b) == SizeOf(s, b) - s.chunk[b].used

\* Faulty: however much is missing, the chunk is to grow.
MayEnlargeAny(a, size) ==
  LET b == Current(a)
      l == ctx.chunk[b].level
  IN  l # RootLevel /\ IsLeader(b, l) /\ NextLevel(a) <= l

\* What attempt_enlarge_current_chunk checks without MetaspaceExpand_lock.
MayEnlarge(a, size) ==
  LET b == Current(a)
      l == ctx.chunk[b].level
      n == ctx.chunk[b].used + size
  IN  /\ l # RootLevel
      /\ n <= WordSize[RootLevel]
      /\ LevelFitting(n) >= l - 1
      /\ IsLeader(b, l)
      /\ NextLevel(a) <= l

\* The current chunk has room: is it committed far enough?
UseCurrent(a, s, size) ==
  IF s.chunk[Current(a)].used + size <= s.chunk[Current(a)].committed
    THEN Serve(a, s, Current(a), size)
    ELSE /\ Goto(a, "commit", size)
         /\ ctx' = s
         /\ UNCHANGED usedWords

\* Faulty: a block that is cut stays in its list.
RemainderListed(free, p, size) ==
  IF free[p] - size > MinBlock THEN With(free, p + size, free[p] - size)
                               ELSE Without(free, p)

\* FreeBlocks::remove_block: a rest larger than the smallest block is kept.
Remainder(free, p, size) ==
  IF free[p] - size > MinBlock THEN With(Without(free, p), p + size, free[p] - size)
                               ELSE Without(free, p)

\* A block deallocated or salvaged earlier; it counts as used already.
FromFreeBlocks(a, size) ==
  \E p \in DOMAIN arena[a].free :
    /\ arena[a].free[p] >= size
    /\ arena' = [arena EXCEPT ![a].live = With(@, p, size),
                              ![a].free = Remainder(@, p, size)]
    /\ UNCHANGED <<ctx, usedWords>>

FromCurrentChunk(a, size) ==
  IF arena[a].chunks = <<>>
    THEN Goto(a, "new", size) /\ UNCHANGED <<ctx, usedWords>>
  ELSE IF FreeWords(ctx, Current(a)) >= size
    THEN UseCurrent(a, ctx, size)
  ELSE /\ Goto(a, IF MayEnlarge(a, size) THEN "enlarge" ELSE "new", size)
       /\ UNCHANGED <<ctx, usedWords>>

\* The free blocks may refuse although one of them fits.
Allocate(a, request) ==
  LET size == RawSize(request) IN
  /\ arena[a].pc = "idle"
  /\ FromFreeBlocks(a, size) \/ FromCurrentChunk(a, size)

\* ChunkManager::attempt_enlarge_chunk
EnlargeCurrent(a) ==
  /\ arena[a].pc = "enlarge"
  /\ IF CanEnlarge(ctx, Current(a))
       THEN UseCurrent(a, Enlarge(ctx, Current(a)), arena[a].size)
       ELSE Goto(a, "new", arena[a].size) /\ UNCHANGED <<ctx, usedWords>>

\* Metachunk::ensure_committed, from where it takes the lock.
CommitCurrent(a) ==
  LET b    == Current(a)
      upTo == ctx.chunk[b].used + arena[a].size
  IN  /\ arena[a].pc = "commit"
      /\ IF CanCommit(ctx, b, upTo)
           THEN Serve(a, CommitUpTo(ctx, b, upTo), b, arena[a].size)
           ELSE Goto(a, "new", arena[a].size) /\ UNCHANGED <<ctx, usedWords>>

\* Faulty: wants the whole chunk committed.
RequestWhole(a) ==
  LET max == LevelFitting(arena[a].size)
      l   == Min({max, NextLevel(a)})
  IN  [pref |-> l, max |-> l, min |-> WordSize[l]]

\* What allocate_new_chunk asks for.
Request(a) ==
  LET max == LevelFitting(arena[a].size) IN
  [pref |-> Min({max, NextLevel(a)}), max |-> max, min |-> arena[a].size]

\* There is no free chunk and no node to take one from.
Exhausted(r) ==
  /\ SearchLevel(ctx, r) = NoLevel
  /\ HeadIsFull(ctx)
  /\ ~Expandable \/ Unreserved(ctx) = {}

\* get_chunk gives a chunk, or NULL, which allocate returns.
GetNewChunk(a) ==
  /\ arena[a].pc = "new"
  /\ IF Exhausted(Request(a)) THEN UNCHANGED ctx ELSE GetChunk(Request(a))
  /\ LET new == InUse(ctx') \ InUse(ctx) IN
     arena' = IF new = {} THEN [arena EXCEPT ![a].pc = "idle", ![a].size = 0]
              ELSE [arena EXCEPT ![a].pc = "taken", ![a].taken = CHOOSE b \in new : TRUE]
  /\ UNCHANGED usedWords

Unused(b) == ctx.chunk[b].committed - ctx.chunk[b].used

\* Faulty: the whole rest of the old chunk is kept, committed or not.
SalvageAll(a) ==
  IF arena[a].chunks = <<>> \/ FreeWords(ctx, Current(a)) <= MinBlock
    THEN [ctx |-> ctx, free |-> arena[a].free, used |-> 0]
  ELSE LET b == Current(a) IN
       [ctx  |-> [ctx EXCEPT !.chunk[b].used = SizeOf(ctx, b)],
        free |-> With(arena[a].free, b + ctx.chunk[b].used, FreeWords(ctx, b)),
        used |-> FreeWords(ctx, b)]

\* salvage_chunk: the committed rest of the old chunk becomes a free block.
Salvage(a) ==
  IF arena[a].chunks = <<>> \/ Unused(Current(a)) <= MinBlock
    THEN [ctx |-> ctx, free |-> arena[a].free, used |-> 0]
  ELSE LET b == Current(a) IN
       [ctx  |-> Bump(ctx, b, Unused(b)),
        free |-> With(arena[a].free, b + ctx.chunk[b].used, Unused(b)),
        used |-> Unused(b)]

\* The rest of allocate once it has a new chunk.
AddNewChunk(a) ==
  LET b       == arena[a].taken
      size    == arena[a].size
      retired == Salvage(a)
  IN  /\ arena[a].pc = "taken"
      /\ ctx' = Bump(retired.ctx, b, size)
      /\ arena' = [arena EXCEPT ![a].pc = "idle", ![a].size = 0, ![a].taken = NoChunk,
                                ![a].chunks = <<b>> \o @,
                                ![a].live = With(@, b + ctx.chunk[b].used, size),
                                ![a].free = retired.free]
      /\ usedWords' = usedWords + retired.used + size

-----------------------------------------------------------------------------
(* Deallocation, birth and death.                                          *)

\* deallocate_locked
Deallocate(a, p) ==
  /\ arena[a].pc = "idle"
  /\ arena' = [arena EXCEPT ![a].live = Without(@, p),
                            ![a].free = With(@, p, arena[a].live[p])]
  /\ UNCHANGED <<ctx, usedWords>>

Birth(a) ==
  /\ arena[a].pc = "none"
  /\ Goto(a, "idle", 0)
  /\ UNCHANGED <<ctx, usedWords>>

\* The loader is dead: nothing it held is used any more.
Destroy(a) ==
  /\ arena[a].pc = "idle"
  /\ arena' = [arena EXCEPT ![a].pc = "dying", ![a].live = NoBlocks, ![a].free = NoBlocks]
  /\ UNCHANGED <<ctx, usedWords>>

\* Faulty: reads the next chunk only after the first one has been returned;
\* by then its link belongs to a free list, or its header is gone.
TailRead(a) ==
  LET b    == Current(a)
      s    == ReturnChunk(ctx, b)
      l    == s.chunk[b].level
      rest == IF b \in DOMAIN s.chunk THEN s.list[l] ELSE <<>>
      here == {i \in DOMAIN rest : rest[i] = b}
  IN  IF here = {} \/ Max(here) = Len(rest) THEN <<>> ELSE <<rest[Max(here) + 1]>>

\* The chunks that remain after the first.
Following(a) == Tail(arena[a].chunks)

\* Faulty: takes the whole chunk for used.
ReturnWhole(a) ==
  LET b == Current(a) IN
  /\ arena[a].pc = "dying" /\ arena[a].chunks # <<>>
  /\ ctx' = ReturnChunk(ctx, b)
  /\ arena' = [arena EXCEPT ![a].chunks = Following(a),
                            ![a].returned = @ + SizeOf(ctx, b)]
  /\ UNCHANGED usedWords

ReturnFirst(a) ==
  LET b == Current(a) IN
  /\ arena[a].pc = "dying" /\ arena[a].chunks # <<>>
  /\ ctx' = ReturnChunk(ctx, b)
  /\ arena' = [arena EXCEPT ![a].chunks = Following(a),
                            ![a].returned = @ + ctx.chunk[b].used]
  /\ UNCHANGED usedWords

Death(a) ==
  /\ arena[a].pc = "dying" /\ arena[a].chunks = <<>>
  /\ usedWords' = usedWords - arena[a].returned
  /\ arena' = [arena EXCEPT ![a] = NoArena]
  /\ UNCHANGED ctx

-----------------------------------------------------------------------------
Init ==
  /\ ctx = EmptyContext
  /\ arena = [a \in Arenas |-> NoArena]
  /\ usedWords = 0

\* The operation an arena is in goes on.
Step(a) ==
  \/ EnlargeCurrent(a)
  \/ CommitCurrent(a)
  \/ GetNewChunk(a)
  \/ AddNewChunk(a)
  \/ ReturnFirst(a)
  \/ Death(a)

Next ==
  \/ \E a \in Arenas : \/ Birth(a)
                       \/ \E size \in Sizes : Allocate(a, size)
                       \/ \E p \in DOMAIN arena[a].live : Deallocate(a, p)
                       \/ Destroy(a)
                       \/ Step(a)
  \/ Purge /\ UNCHANGED <<arena, usedWords>>

Spec == Init /\ [][Next]_vars

-----------------------------------------------------------------------------
(* Properties.                                                             *)

ChunksOf(a) == ToSet(arena[a].chunks) \cup ({arena[a].taken} \ {NoChunk})

\* Every chunk in use belongs to one arena and is once in its list: none is
\* leaked when loaders die chunk by chunk, none is returned twice, and merging
\* a returned chunk with its neighbours touches nobody else's.
ChunksOwned ==
  /\ InUse(ctx) = UNION {ChunksOf(a) : a \in Arenas}
  /\ \A a, b \in Arenas : a # b => ChunksOf(a) \cap ChunksOf(b) = {}
  /\ \A a \in Arenas : /\ IsInjective(arena[a].chunks)
                       /\ arena[a].taken \notin ToSet(arena[a].chunks)

UsedIn(a) == MapThenSumSet(LAMBDA b : ctx.chunk[b].used, ChunksOf(a)) + arena[a].returned

\* The counter is the sum over the chunks of all arenas, although blocks from
\* the free block lists bypass it and chunks of dying arenas leave it later.
UsedWordsExact == usedWords = MapThenSumSet(LAMBDA a : UsedIn(a), Arenas)

Blocks(a) == [p \in DOMAIN arena[a].live \cup DOMAIN arena[a].free |->
                IF p \in DOMAIN arena[a].live THEN arena[a].live[p] ELSE arena[a].free[p]]

\* The blocks of a loader, held or free, are pieces of the used part of its
\* own chunks, none overlaps another, and what is written there is intact,
\* whatever the other arenas and purge do to the context.
BlocksSound ==
  \A a \in Arenas :
    LET blocks == Blocks(a) IN
    /\ DOMAIN arena[a].live \cap DOMAIN arena[a].free = {}
    /\ \A p \in DOMAIN blocks :
         /\ Words(p, blocks[p]) \subseteq ctx.data
         /\ \E b \in ToSet(arena[a].chunks) : Words(p, blocks[p]) \subseteq Words(b, ctx.chunk[b].used)
         /\ \A q \in DOMAIN blocks \ {p} : Words(p, blocks[p]) \cap Words(q, blocks[q]) = {}

\* What an arena found out before it got the lock still holds when it gets it:
\* the chunk to enlarge is a leader in use that is large enough when doubled
\* (the assertions of RootChunkArea::attempt_enlarge_chunk and after the call),
\* the chunk to commit has the room, a new chunk is fresh and committed.
ChecksHold ==
  \A a \in Arenas :
    LET at(place) == arena[a].pc = place
        size      == arena[a].size
    IN  /\ at("enlarge") => LET c == ctx.chunk[Current(a)] IN
             /\ c.state = "inuse" /\ c.level # RootLevel
             /\ IsLeader(Current(a), c.level)
             /\ c.used + size \in (WordSize[c.level] + 1)..WordSize[c.level - 1]
        /\ at("commit") => LET c == ctx.chunk[Current(a)] IN
             /\ c.state = "inuse"
             /\ c.used + size \in (c.committed + 1)..WordSize[c.level]
        /\ at("taken") => LET c == ctx.chunk[arena[a].taken] IN
             /\ c.state = "inuse" /\ c.used = 0
             /\ c.committed >= size

\* For the loaders this is memory of their own: no two blocks they hold ever
\* overlap, and nothing leaves a loader but by its own deallocation or death.
Promise == INSTANCE LoaderMemory WITH
             Loaders <- Arenas,
             Sizes   <- {RawSize(size) : size \in Sizes},
             held    <- [a \in Arenas |-> arena[a].live]

ImplementsPromise == Promise!Spec

\* "At any point, if we hit a commit limit, we return NULL": allocate fails for
\* no other reason, unless no address space is left.  What other arenas hold
\* back in granules they share, or what the search overlooks, costs nobody a
\* request that fits below the limit.
FailsOnlyAtLimit ==
  [][\A a \in Arenas :
       arena[a].pc = "new" /\ arena'[a].pc = "idle" =>
         \/ Exhausted(Request(a))
         \/ ctx.limiter + AlignUp(arena[a].size, GranuleWords) > MaxCommit]_vars

\* MetaspaceTestContext.checkStatistics: "usageMeasured > committedMeasured" is
\* an error; MemSummaryReporter subtracts one from the other, unsigned.
UsedWithinCommitted == usedWords <= ctx.committed
=============================================================================
