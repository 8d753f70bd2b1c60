--------------------------- MODULE ContextMethods ---------------------------
(***************************************************************************)
(* The methods of one metaspace context: a VirtualSpaceList of reserved    *)
(* nodes, the commit state of their granules, the root chunk areas split   *)
(* into chunks, and the ChunkManager's free lists.                         *)
(*                                                                         *)
(* The operators on a context s are the methods, in the order they call    *)
(* each other.  MetaspaceContext lets any owner call them, MetaspaceArena  *)
(* lets the arenas of class loaders do it.                                 *)
(***************************************************************************)
EXTENDS ChunkGeometry, Sequences, SequencesExt, FiniteSets

CONSTANTS
  NewChunksFullyCommitted,  \* Settings::new_chunks_are_fully_committed
  UncommitFreeChunks,       \* Settings::uncommit_free_chunks
  Expandable,               \* FALSE for the class space: one given node
  MaxCommit                 \* the commit limit, in words

ASSUME ContextAssumption ==
  /\ NewChunksFullyCommitted \in BOOLEAN
  /\ UncommitFreeChunks \in BOOLEAN
  /\ Expandable \in BOOLEAN
  /\ MaxCommit \in Nat

VARIABLE ctx  \* the context, a record of the fields listed in ContextType

Chunk == [level: Levels, state: {"free", "inuse"}, committed: Nat, used: Nat]

FreshChunk(l) == [level |-> l, state |-> "free", committed |-> 0, used |-> 0]

ContextType ==
  [ chunk:     UNION {[B -> Chunk] : B \in SUBSET Addresses}, \* by base address
    list:      [Levels -> Seq(Addresses)],  \* FreeChunkListVector
    listed:    [Levels -> Int],             \* each list's _committed_word_size
    nodes:     Seq(Nodes),                  \* VirtualSpaceList, head first
    used:      [Nodes -> Nat],              \* each node's _used_words
    mask:      SUBSET Granules,             \* the CommitMasks of all nodes
    committed: Int,                         \* VirtualSpaceList counters
    reserved:  Int,
    limiter:   Int,                         \* CommitLimiter::_cnt
    data:      SUBSET Addresses ]           \* words whose metadata is intact

IsChunk(s, b, l) == b \in DOMAIN s.chunk /\ s.chunk[b].level = l
IsFree(s, b)     == s.chunk[b].state = "free"
InUse(s)         == {b \in DOMAIN s.chunk : s.chunk[b].state = "inuse"}
SizeOf(s, b)     == WordSize[s.chunk[b].level]

-----------------------------------------------------------------------------
(* Lists.  Nothing here is recursive, so that it can be reasoned about.    *)

\* What stays of a list when only the members of S stay, in their order.  How
\* the links come to say so is not modelled here: ChunkHeaders has the links of
\* chunks, those of the nodes of VirtualSpaceList are in no module.
Keep(list, S) ==
  LET at     == {i \in DOMAIN list : list[i] \in S}
      nth(j) == CHOOSE i \in at : Cardinality({k \in at : k <= i}) = j
  IN  [j \in 1..Cardinality(at) |-> list[nth(j)]]

\* A list without b.
Unlink(list, b) == Keep(list, Range(list) \ {b})

-----------------------------------------------------------------------------
(* Free lists: (partly) committed chunks go to the front.                  *)

\* Faulty variants stand before what they vary; a README table lists them.
\* Here every chunk goes to the back.
PushBack(list, b, committed) == Append(list, b)

Push(list, b, committed) ==
  IF committed = 0 THEN Append(list, b) ELSE <<b>> \o list

Enlist(s, b) ==
  LET c == s.chunk[b] IN
  [s EXCEPT !.list[c.level]   = Push(@, b, c.committed),
            !.listed[c.level] = @ + c.committed]

\* Faulty: subtracts the size of the chunk instead of its committed words.
DelistWholeSize(s, b) ==
  [s EXCEPT !.list[s.chunk[b].level]   = Unlink(@, b),
            !.listed[s.chunk[b].level] = @ - SizeOf(s, b)]

Delist(s, b) ==
  LET c == s.chunk[b] IN
  [s EXCEPT !.list[c.level]   = Unlink(@, b),
            !.listed[c.level] = @ - c.committed]

\* The searches look at the first chunk of each list only.
Fitting(s, levels, min) ==
  {l \in levels : /\ s.list[l] # <<>>
                  /\ s.chunk[Head(s.list[l])].committed >= min}

NoLevel == -1

\* The five searches of get_chunk, first hit wins.
SearchLevel(s, r) ==
  LET near      == Fitting(s, r.pref..Min({r.pref + 2, r.max}), r.min)
      larger    == Fitting(s, RootLevel..r.pref, r.min)
      smaller   == Fitting(s, r.pref..r.max, r.min)
      anySmall  == Fitting(s, r.pref..r.max, 0)
      anyLarge  == Fitting(s, RootLevel..r.pref, 0)
  IN  IF near # {} THEN Min(near)
      ELSE IF larger # {} THEN Max(larger)
      ELSE IF smaller # {} THEN Min(smaller)
      ELSE IF anySmall # {} THEN Min(anySmall)
      ELSE IF anyLarge # {} THEN Max(anyLarge)
      ELSE NoLevel

-----------------------------------------------------------------------------
(* Committing.  os::commit_memory maps fresh memory over the whole range   *)
(* it is given, also over granules that were committed before.             *)

PossibleExpansion(s) == MaxCommit - s.limiter

CommitRange(s, from, size) ==
  LET range == GranulesOf(from, size)
      words == GranuleWords * Cardinality(range \ s.mask)
  IN  IF words = 0 THEN s
      ELSE [s EXCEPT !.mask      = @ \cup range,
                     !.limiter   = @ + words,
                     !.committed = @ + words,
                     !.data      = {a \in @ : a \div GranuleWords \notin range}]

UncommitRange(s, from, size) ==
  LET range == GranulesOf(from, size)
      words == GranuleWords * Cardinality(range \cap s.mask)
  IN  [s EXCEPT !.mask      = @ \ range,
                !.limiter   = @ - words,
                !.committed = @ - words,
                !.data      = {a \in @ : a \div GranuleWords \notin range}]

\* Metachunk::set_committed_words rounds up to whole granules.
CommitLine(words, l) == Min({AlignUp(words, GranuleWords), WordSize[l]})

CommitTo(s, b, words) == CommitLine(words, s.chunk[b].level)

\* Whether the limiter lets commit_up_to have what it needs.
CanCommit(s, b, words) ==
  LET from == s.chunk[b].committed
      to   == CommitTo(s, b, words)
  IN  to > from => GranuleWords * Cardinality(GranulesOf(b + from, to - from) \ s.mask)
                     <= PossibleExpansion(s)

\* Faulty: commits from the base of the chunk, not from its commit line.
CommitFromBase(s, b, words) ==
  LET to == CommitTo(s, b, words)
      t  == IF to > s.chunk[b].committed THEN CommitRange(s, b, to) ELSE s
  IN  [t EXCEPT !.chunk[b].committed = to]

CommitUpTo(s, b, words) ==
  LET from == s.chunk[b].committed
      to   == CommitTo(s, b, words)
      t    == IF to > from THEN CommitRange(s, b + from, to - from) ELSE s
  IN  [t EXCEPT !.chunk[b].committed = to]

\* Faulty: the commit line stays.
UncommitKeepsLine(s, b) == UncommitRange(s, b, SizeOf(s, b))

Uncommit(s, b) ==
  [UncommitRange(s, b, SizeOf(s, b)) EXCEPT !.chunk[b].committed = 0]

\* Metachunk::allocate, and the metadata the caller writes there.
Bump(s, b, size) == [s EXCEPT !.chunk[b].used = @ + size,
                              !.data = @ \cup Words(b + s.chunk[b].used, size)]

-----------------------------------------------------------------------------
(* RootChunkArea: splitting and merging.                                   *)

\* Faulty: adds up the committed words of the parts.
MergedSum(s, parts, base, l) ==
  MapThenSumSet(LAMBDA q : s.chunk[q].committed, parts)

\* The boundary of the committed part after the chunks at `parts`, which
\* tile the block of level l at `base`, become one: a follower's committed
\* words count only if everything before them is committed.  Rounding to
\* granules hides a gap that starts inside a granule whose first chunk is
\* committed, for chunks of one granule share its commit state.
MergedCommitted(s, parts, base, l) ==
  LET gaps == {q \in parts : /\ s.chunk[q].committed < SizeOf(s, q)
                             /\ q = base \/ q % GranuleWords = 0}
  IN  Min({q + s.chunk[q].committed : q \in gaps} \cup {base + WordSize[l]}) - base

\* Faulty: splinters are taken to be uncommitted.
SplitForgetful(s, b, target) ==
  LET c           == s.chunk[b]
      cuts        == (c.level + 1)..target
      splinter(k) == b + WordSize[k]
      cutOf(a)    == CHOOSE k \in cuts : a = splinter(k)
  IN  [s EXCEPT
         !.chunk = [a \in DOMAIN s.chunk \cup {splinter(k) : k \in cuts} |->
            IF a = b
              THEN [c EXCEPT !.level = target,
                             !.committed = Min({c.committed, WordSize[target]})]
            ELSE IF a \in DOMAIN s.chunk THEN s.chunk[a]
            ELSE FreshChunk(cutOf(a))],
         !.list = [k \in Levels |->
            IF k \in cuts THEN Push(s.list[k], splinter(k), 0) ELSE s.list[k]]]

\* Halve the chunk at b until it has level `target`; the second half of each
\* cut becomes a free chunk.  The commit line before the cut to level k is
\* at line(k); what lies beyond the middle goes to the splinter.
Split(s, b, target) ==
  LET c           == s.chunk[b]
      cuts        == (c.level + 1)..target
      splinter(k) == b + WordSize[k]
      line(k)     == Min({c.committed, WordSize[k - 1]})
      spill(k)    == IF line(k) > WordSize[k]
                       THEN CommitLine(line(k) - WordSize[k], k) ELSE 0
      cutOf(a)    == CHOOSE k \in cuts : a = splinter(k)
  IN  [s EXCEPT
         !.chunk = [a \in DOMAIN s.chunk \cup {splinter(k) : k \in cuts} |->
            IF a = b
              THEN [c EXCEPT !.level = target,
                             !.committed = Min({c.committed, WordSize[target]})]
            ELSE IF a \in DOMAIN s.chunk THEN s.chunk[a]
            ELSE [FreshChunk(cutOf(a)) EXCEPT !.committed = spill(cutOf(a))]],
         !.list = [k \in Levels |->
            IF k \in cuts THEN Push(s.list[k], splinter(k), spill(k)) ELSE s.list[k]],
         !.listed = [k \in Levels |->
            IF k \in cuts THEN s.listed[k] + spill(k) ELSE s.listed[k]]]

\* Faulty: a buddy in use joins as well, or one that is split.
JoinsInUse(s, b, k)  == IsChunk(s, Buddy(b, k), k)
JoinsPartly(s, b, k) == Buddy(b, k) \in DOMAIN s.chunk /\ IsFree(s, Buddy(b, k))

\* The buddy at level k of the block around b is one free chunk.
Joins(s, b, k) ==
  /\ IsChunk(s, Buddy(b, k), k)
  /\ IsFree(s, Buddy(b, k))

\* Faulty: stops after one merge.
MergeLevelOnce(s, b) ==
  LET l == s.chunk[b].level IN IF l # RootLevel /\ Joins(s, b, l) THEN l - 1 ELSE l

\* The level at which merging the chunk at b stops.
MergeLevel(s, b) ==
  LET l == s.chunk[b].level
  IN  Min({m \in RootLevel..l : \A k \in (m + 1)..l : Joins(s, b, k)})

\* Merge the free chunk at b, which is in no list, with its free buddies up
\* to level m; the buddies leave their lists and all headers but one go.
Merge(s, b, m) ==
  LET l      == s.chunk[b].level
      joined == (m + 1)..l
      parts  == {b} \cup {Buddy(b, k) : k \in joined}
      base   == Block(b, m)
      whole  == [FreshChunk(m) EXCEPT !.committed = MergedCommitted(s, parts, base, m)]
  IN  [s EXCEPT
         !.chunk = [a \in (DOMAIN s.chunk \ parts) \cup {base} |->
            IF a = base THEN whole ELSE s.chunk[a]],
         !.list = [k \in Levels |->
            IF k \in joined THEN Unlink(s.list[k], Buddy(b, k)) ELSE s.list[k]],
         !.listed = [k \in Levels |->
            IF k \in joined THEN s.listed[k] - s.chunk[Buddy(b, k)].committed
                            ELSE s.listed[k]]]

CanEnlarge(s, b) ==
  LET l == s.chunk[b].level IN
  l # RootLevel /\ IsLeader(b, l) /\ Joins(s, b, l)

\* Claim the free trailing buddy for the chunk at b, which stays in use.
Enlarge(s, b) ==
  LET c     == s.chunk[b]
      buddy == Buddy(b, c.level)
      t     == Delist(s, buddy)
      line  == c.committed + IF c.committed = SizeOf(s, b) THEN s.chunk[buddy].committed ELSE 0
      whole == [c EXCEPT !.level = c.level - 1, !.committed = CommitLine(line, c.level - 1)]
  IN  [t EXCEPT !.chunk = [a \in DOMAIN s.chunk \ {buddy} |->
                             IF a = b THEN whole ELSE s.chunk[a]]]

-----------------------------------------------------------------------------
(* ChunkManager::return_chunk_locked                                       *)

\* The owner's metadata in the chunk is dead from here on.
SetFree(s, b) ==
  [s EXCEPT !.chunk[b].state = "free", !.chunk[b].used = 0,
            !.data = @ \ Words(b, SizeOf(s, b))]

MergeAll(s, b) == Merge(s, b, MergeLevel(s, b))

\* Faulty: a chunk of just one granule stays committed.
ReturnKeepsGranule(s, b) ==
  LET freed  == SetFree(s, b)
      m      == MergeLevel(freed, b)
      base   == Block(b, m)
      merged == MergeAll(freed, b)
      lean   == IF UncommitFreeChunks /\ WordSize[m] > GranuleWords
                  THEN Uncommit(merged, base) ELSE merged
  IN  Enlist(lean, base)

ReturnChunk(s, b) ==
  LET freed  == SetFree(s, b)
      m      == MergeLevel(freed, b)
      base   == Block(b, m)
      merged == MergeAll(freed, b)
      lean   == IF UncommitFreeChunks /\ WordSize[m] >= GranuleWords
                  THEN Uncommit(merged, base) ELSE merged
  IN  Enlist(lean, base)

-----------------------------------------------------------------------------
(* VirtualSpaceList::allocate_root_chunk                                   *)

HeadIsFull(s) == s.nodes = <<>> \/ s.used[Head(s.nodes)] = NodeWords

Unreserved(s) == Nodes \ Range(s.nodes)

\* A new node goes to the head of the list; only the head has room.
NewNode(s, n) == [s EXCEPT !.nodes = <<n>> \o @, !.used[n] = 0,
                           !.reserved = @ + NodeWords]

NextRoot(s) == Head(s.nodes) * NodeWords + s.used[Head(s.nodes)]

AllocateRootChunk(s, loc) ==
  [s EXCEPT !.used[Head(s.nodes)] = @ + WordSize[RootLevel],
            !.chunk = [a \in DOMAIN s.chunk \cup {loc} |->
                         IF a = loc THEN FreshChunk(RootLevel) ELSE s.chunk[a]]]

-----------------------------------------------------------------------------
(* ChunkManager::get_chunk from the point where it has a free chunk b      *)

Cut(s, b, r) == IF s.chunk[b].level < r.pref THEN Split(s, b, r.pref) ELSE s

\* How far get_chunk wants the chunk committed.
ToCommit(s, b, r) == IF NewChunksFullyCommitted THEN SizeOf(s, b) ELSE r.min

Short(s, b, r) == s.chunk[b].committed < ToCommit(s, b, r)

\* Whether the request is served; otherwise get_chunk returns NULL.
Serves(s, b, r) ==
  LET t == Cut(s, b, r) IN Short(t, b, r) => CanCommit(t, b, ToCommit(t, b, r))

\* Faulty: when the commit fails the chunk goes back as it was cut.
HandOutUnmerged(s, b, r) ==
  LET t    == Cut(s, b, r)
      full == IF Short(t, b, r) THEN CommitUpTo(t, b, ToCommit(t, b, r)) ELSE t
  IN  IF Serves(s, b, r) THEN [full EXCEPT !.chunk[b].state = "inuse"] ELSE Enlist(t, b)

HandOut(s, b, r) ==
  LET t    == Cut(s, b, r)
      full == IF Short(t, b, r) THEN CommitUpTo(t, b, ToCommit(t, b, r)) ELSE t
  IN  IF Serves(s, b, r) THEN [full EXCEPT !.chunk[b].state = "inuse"]
                         ELSE ReturnChunk([t EXCEPT !.chunk[b].state = "inuse"], b)

-----------------------------------------------------------------------------
(* ChunkManager::get_chunk                                                 *)

\* What callers may ask for: get_chunk asserts these of its arguments.
LegalRequests == {r \in [pref: Levels, max: Levels, min: Nat] :
                    r.pref <= r.max /\ r.min <= WordSize[r.max]}

\* A free chunk is found in the lists.
GetListedChunk(r) ==
  LET l == SearchLevel(ctx, r) IN
  /\ l # NoLevel
  /\ \E b \in DOMAIN ctx.chunk :
       /\ b = Head(ctx.list[l])
       /\ ctx' = HandOut(Delist(ctx, b), b, r)

\* No list has one: take a new root chunk, from a new node if need be.
GetRootChunk(r) ==
  /\ SearchLevel(ctx, r) = NoLevel
  /\ \E b \in Addresses :
       LET served(s) == b = NextRoot(s) /\ ctx' = HandOut(AllocateRootChunk(s, b), b, r) IN
       IF HeadIsFull(ctx)
         THEN /\ Expandable
              /\ \E n \in Unreserved(ctx) : served(NewNode(ctx, n))
         ELSE served(ctx)

GetChunk(r) == GetListedChunk(r) \/ GetRootChunk(r)

-----------------------------------------------------------------------------
(* ChunkManager::purge                                                     *)

Areas(n) == {n * NodeWords + i * WordSize[RootLevel] : i \in 0..(RootsPerNode - 1)}

\* An area no root chunk was taken from yet is free as well.
NodeIsFree(s, n) ==
  \A area \in Areas(n) :
    area < n * NodeWords + s.used[n] => IsChunk(s, area, RootLevel) /\ IsFree(s, area)

\* Faulty: the first node is never looked at.
DeadNodesButFirst(s) ==
  {n \in Range(s.nodes) : Expandable /\ n # Head(s.nodes) /\ NodeIsFree(s, n)}

DeadNodes(s) == {n \in Range(s.nodes) : Expandable /\ NodeIsFree(s, n)}

\* Faulty: a node goes without its counters.
PurgeNodesUncounted(s) ==
  LET dead == DeadNodes(s)
      gone == {b \in DOMAIN s.chunk : b \div NodeWords \in dead}
  IN  [s EXCEPT !.chunk = [a \in DOMAIN s.chunk \ gone |-> s.chunk[a]],
                !.list[RootLevel] = Keep(@, DOMAIN s.chunk \ gone),
                !.listed[RootLevel] = @ - MapThenSumSet(LAMBDA b : s.chunk[b].committed, gone),
                !.nodes = Keep(@, Nodes \ dead),
                !.used  = [n \in Nodes |-> IF n \in dead THEN 0 ELSE @[n]],
                !.mask  = @ \ UNION {NodeGranules(n) : n \in dead}]

PurgeNodes(s) ==
  LET dead     == DeadNodes(s)
      gone     == {b \in DOMAIN s.chunk : b \div NodeWords \in dead}
      granules == s.mask \cap UNION {NodeGranules(n) : n \in dead}
      words    == GranuleWords * Cardinality(granules)
  IN  [s EXCEPT !.chunk = [a \in DOMAIN s.chunk \ gone |-> s.chunk[a]],
                !.list[RootLevel]   = Keep(@, DOMAIN s.chunk \ gone),
                !.listed[RootLevel] = @ - MapThenSumSet(LAMBDA b : s.chunk[b].committed, gone),
                !.nodes     = Keep(@, Nodes \ dead),
                !.used      = [n \in Nodes |-> IF n \in dead THEN 0 ELSE @[n]],
                !.reserved  = @ - NodeWords * Cardinality(dead),
                !.mask      = @ \ granules,
                !.committed = @ - words,
                !.limiter   = @ - words]

\* The second pass of purge walks the lists of chunks that cover granules; it
\* does not touch the lists' committed word counters.
UncommitListed(s) ==
  LET walked == UNION {Range(s.list[l]) : l \in RootLevel..GranuleLevel}
      blocks == UNION {GranulesOf(b, SizeOf(s, b)) : b \in walked}
      words  == GranuleWords * Cardinality(s.mask \cap blocks)
  IN  [s EXCEPT !.chunk = [a \in DOMAIN s.chunk |->
                             IF a \in walked THEN [s.chunk[a] EXCEPT !.committed = 0]
                                             ELSE s.chunk[a]],
                !.mask      = @ \ blocks,
                !.committed = @ - words,
                !.limiter   = @ - words]

Purge == ctx' = IF UncommitFreeChunks THEN UncommitListed(PurgeNodes(ctx))
                                      ELSE PurgeNodes(ctx)

-----------------------------------------------------------------------------
\* The class space context is created over one given node.
EmptyContext ==
  LET nodes == IF Expandable THEN <<>> ELSE <<0>> IN
  [ chunk     |-> [a \in {} |-> FreshChunk(RootLevel)],
    list      |-> [l \in Levels |-> <<>>],
    listed    |-> [l \in Levels |-> 0],
    nodes     |-> nodes,
    used      |-> [n \in Nodes |-> 0],
    mask      |-> {},
    committed |-> 0,
    reserved  |-> Len(nodes) * NodeWords,
    limiter   |-> 0,
    data      |-> {} ]

-----------------------------------------------------------------------------
(* Properties of a context.                                                *)

HandedOut(a) ==
  LET n == a \div NodeWords IN n \in Range(ctx.nodes) /\ a % NodeWords < ctx.used[n]

\* VirtualSpaceList::verify: nodes are not shared, only the first has room,
\* the reserved counter covers exactly the live nodes, and only granules of
\* these are committed.
NodesExact ==
  /\ IsInjective(ctx.nodes)
  /\ ctx.reserved = NodeWords * Len(ctx.nodes)
  /\ \A i \in 2..Len(ctx.nodes) : ctx.used[ctx.nodes[i]] = NodeWords
  /\ ctx.mask \subseteq UNION {NodeGranules(n) : n \in Range(ctx.nodes)}

\* RootChunkArea::verify: the chunks of the areas taken from live nodes are
\* aligned to their size, do not overlap and leave no gap, whatever was
\* split, merged, enlarged or purged in between.
AreasTiled ==
  LET words(b) == Words(b, SizeOf(ctx, b)) IN
  /\ NodesExact
  /\ \A b \in DOMAIN ctx.chunk : b = Block(b, ctx.chunk[b].level)
  /\ \A b, c \in DOMAIN ctx.chunk : b # c => words(b) \cap words(c) = {}
  /\ UNION {words(b) : b \in DOMAIN ctx.chunk} = {a \in Addresses : HandedOut(a)}

\* RootChunkArea::verify_area_is_ideally_merged: two free buddies are never
\* left side by side, so that free memory can reach root chunk size and
\* attempt_purge sees that a node is empty.
IdeallyMerged ==
  \A b \in DOMAIN ctx.chunk :
    LET l == ctx.chunk[b].level IN
    IsFree(ctx, b) /\ l # RootLevel => ~Joins(ctx, b, l)

\* The chunks of list l that are not fully uncommitted come first.
CommittedFirst(l) ==
  \A i, j \in DOMAIN ctx.list[l] :
    i < j /\ ctx.chunk[ctx.list[l][j]].committed > 0
      => ctx.chunk[ctx.list[l][i]].committed > 0

\* FreeChunkListVector holds every free chunk once, in the list of its level,
\* and no chunk in use; and no committed chunk hides behind a fully uncommitted
\* one, which is what the searches, looking at the first chunk only, rely on.
FreelistsExact ==
  \A l \in Levels :
    /\ IsInjective(ctx.list[l])
    /\ Range(ctx.list[l]) = {b \in DOMAIN ctx.chunk : IsChunk(ctx, b, l) /\ IsFree(ctx, b)}
    /\ CommittedFirst(l)

\* Each list's committed word counter is the sum over its chunks: their lines
\* move only before they are added or after they are removed, for what purge
\* uncommits in place is uncommitted already.
ListedWordsExact ==
  \A l \in Levels :
    ctx.listed[l] = MapThenSumSet(LAMBDA b : ctx.chunk[b].committed, Range(ctx.list[l]))

\* The commit line of a chunk, in use or free, never promises a word whose
\* granule is not committed, through all the splitting and merging of lines.
CommitLineBacked ==
  \A b \in DOMAIN ctx.chunk :
    /\ ctx.chunk[b].used <= ctx.chunk[b].committed
    /\ ctx.chunk[b].committed <= SizeOf(ctx, b)
    /\ \A a \in Words(b, ctx.chunk[b].committed) : a \div GranuleWords \in ctx.mask

\* Metachunk::commit_up_to: "Luckily, this cannot happen by design".  No
\* operation on any chunk maps fresh memory over words a loader has stored
\* metadata in, though committing replaces whole ranges and small chunks
\* share granules with their neighbours.
LiveDataIntact ==
  \A b \in InUse(ctx) : Words(b, ctx.chunk[b].used) \subseteq ctx.data

\* With uncommit_free_chunks, a granule stays committed only while a chunk in
\* use lies in it.
NoIdleCommit ==
  UncommitFreeChunks =>
    ctx.mask \subseteq UNION {GranulesOf(b, SizeOf(ctx, b)) : b \in InUse(ctx)}

Granted(r) == {b \in InUse(ctx') \ InUse(ctx) : /\ ctx'.chunk[b].level \in r.pref..r.max
                                               /\ ctx'.chunk[b].committed >= r.min
                                               /\ ctx'.chunk[b].used = 0}

Restored == /\ \A b \in DOMAIN ctx.chunk :
                 b \in DOMAIN ctx'.chunk /\ ctx'.chunk[b] = ctx.chunk[b]
            /\ ctx'.mask = ctx.mask
            /\ ctx'.limiter = ctx.limiter
=============================================================================
