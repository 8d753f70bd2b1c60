---------------------------- MODULE ChunkHeaders ----------------------------
(***************************************************************************)
(* Chunk headers and their links.  MetaspaceContext knows a chunk by its   *)
(* address; in the code it is a header, an object of a pool, and who works *)
(* with the chunk holds a pointer to it.  A header that loses its chunk in *)
(* a merge goes back to the pool and soon stands for another one.  All     *)
(* lists a header can be in, of the pool, of free chunks, of an arena, use *)
(* the same two links, which nobody clears in a product build; two more    *)
(* links lead to the neighbours in memory.                                 *)
(*                                                                         *)
(* What is committed is left out; it decides where in its free list a      *)
(* chunk goes, and which list is taken from.                               *)
(***************************************************************************)
EXTENDS ChunkGeometry, SequencesExt, Functions

CONSTANTS
  SlabCapacity,  \* ChunkHeaderPool::SlabCapacity
  Arenas

ASSUME HeaderAssumption ==
  /\ SlabCapacity \in Nat \ {0}
  /\ "pool" \notin Arenas

VARIABLES
  heap,          \* headers and lists
  taken,         \* for each arena, the chunk it got and has not listed yet
  dying          \* the arenas whose destructor runs, and the chunk it is at

vars == <<heap, taken, dying>>

Null == 0

\* The root chunk areas of all nodes, one after the other.
NumAreas   == NumNodes * RootsPerNode
Areas      == 0..(NumAreas - 1)
AreasOf(n) == {r \in Areas : r \div RootsPerNode = n}
RootWords  == WordSize[RootLevel]

\* Metachunk; headers are numbered as the slabs hand them out.
Header(b, l) == [base |-> b, level |-> l, state |-> "free", prev |-> Null, next |-> Null,
                 prevInVs |-> Null, nextInVs |-> Null]

NoList == [first |-> Null, last |-> Null, count |-> 0]

Empty == [ header    |-> <<>>,                        \* those below the top of a slab
           slabs     |-> 0,                           \* _num_slabs
           handedOut |-> 0,                           \* _num_handed_out
           chain     |-> [o \in Arenas \cup {"pool"} |-> NoList],  \* MetachunkLists
           free      |-> [l \in Levels |-> NoList],   \* FreeChunkLists
           firstOf   |-> [r \in Areas |-> Null] ]  \* RootChunkArea::_first_chunk

\* Metachunk::set_next and its likes, for a header the caller may not have.
SetNext(s, h, v)     == IF h = Null THEN s ELSE [s EXCEPT !.header[h].next = v]
SetPrev(s, h, v)     == IF h = Null THEN s ELSE [s EXCEPT !.header[h].prev = v]
SetNextInVs(s, h, v) == IF h = Null THEN s ELSE [s EXCEPT !.header[h].nextInVs = v]
SetPrevInVs(s, h, v) == IF h = Null THEN s ELSE [s EXCEPT !.header[h].prevInVs = v]

-----------------------------------------------------------------------------
(* MetachunkList                                                           *)

Add(s, o, h) ==
  LET first == s.chain[o].first
      t     == SetPrev(SetNext(s, h, first), first, h)
  IN  [t EXCEPT !.chain[o].first = h, !.chain[o].count = @ + 1]

Pop(s, o) ==
  LET h     == s.chain[o].first
      first == s.header[h].next
      t     == SetNext(SetPrev(SetPrev(s, first, Null), h, Null), h, Null)
  IN  [t EXCEPT !.chain[o].first = first, !.chain[o].count = @ - 1]

(* FreeChunkList                                                           *)

\* A chunk that is in no list comes to one end of the list of its level.
Attach(s, h, place) ==
  LET l     == s.header[h].level
      first == s.free[l].first
      last  == s.free[l].last
      none  == first = Null
      t     == IF none THEN s
               ELSE IF place = "front" THEN SetPrev(SetNext(s, h, first), first, h)
               ELSE SetNext(SetPrev(s, h, last), last, h)
  IN  [t EXCEPT !.free[l] = [first |-> IF none \/ place = "front" THEN h ELSE first,
                             last  |-> IF none \/ place = "back" THEN h ELSE last,
                             count |-> s.free[l].count + 1]]

\* Faulty: relies on links that nobody cleared.
EnlistRelying(s, h, place) == Attach(s, h, place)

Enlist(s, h, place) == Attach(SetNext(SetPrev(s, h, Null), h, Null), h, place)

Delist(s, h) ==
  LET l    == s.header[h].level
      list == s.free[l]
      pred == s.header[h].prev
      succ == s.header[h].next
      t    == SetPrev(SetNext(s, pred, succ), succ, pred)
      u    == [t EXCEPT !.free[l] = [first |-> IF list.first = h THEN succ ELSE list.first,
                                     last  |-> IF list.last = h THEN pred ELSE list.last,
                                     count |-> list.count - 1]]
  IN  SetNext(SetPrev(u, h, Null), h, Null)

-----------------------------------------------------------------------------
(* ChunkHeaderPool                                                         *)

NextHeader(s) == IF s.chain["pool"].first # Null THEN s.chain["pool"].first
                 ELSE Len(s.header) + 1

\* The current slab is full, or there is none.
SlabFull(s) == Len(s.header) = s.slabs * SlabCapacity

\* Faulty: looks at the slab first.
AllocateFromSlab(s, content) ==
  LET h == NextHeader(s)
      t == IF h \in DOMAIN s.header THEN [Pop(s, "pool") EXCEPT !.header[h] = content]
           ELSE [s EXCEPT !.header = Append(@, content)]
  IN  [t EXCEPT !.handedOut = @ + 1, !.slabs = IF SlabFull(s) THEN @ + 1 ELSE @]

\* allocate_chunk_header, and Metachunk::initialize, which overwrites it all.
Allocate(s, content) ==
  LET h == NextHeader(s)
      t == IF h \in DOMAIN s.header THEN [Pop(s, "pool") EXCEPT !.header[h] = content]
           ELSE [s EXCEPT !.header = Append(@, content),
                          !.slabs  = IF SlabFull(s) THEN @ + 1 ELSE @]
  IN  [t EXCEPT !.handedOut = @ + 1]

\* return_chunk_header
Release(s, h) == [Add([s EXCEPT !.header[h].state = "dead"], "pool", h)
                    EXCEPT !.handedOut = @ - 1]

-----------------------------------------------------------------------------
(* RootChunkArea                                                           *)

\* Header h comes between c and its neighbour.
Wire(s, c, h) ==
  LET n == s.header[c].nextInVs IN
  SetNextInVs(SetPrevInVs(SetNextInVs(SetPrevInVs(s, n, h), h, n), h, c), c, h)

\* Header h, a follower, goes from between c and its neighbour.
Unwire(s, c, h) ==
  LET n == s.header[h].nextInVs IN SetNextInVs(SetPrevInVs(s, n, c), c, n)

\* The upper half comes to one end of the list of its level.
SplitOnce(s, c, place) ==
  LET l == s.header[c].level + 1
      h == NextHeader(s)
      t == Allocate([s EXCEPT !.header[c].level = l], Header(s.header[c].base + WordSize[l], l))
  IN  Enlist(Wire(t, c, h), h, place)

\* split, into a chunk of the target level and splinters, each with its place.
Split(s, c, target, places) ==
  LET cut[l \in s.header[c].level..target] ==
        IF l = s.header[c].level THEN s ELSE SplitOnce(cut[l - 1], c, places[l])
  IN  cut[target]

Leads(s, c) == IsLeader(s.header[c].base, s.header[c].level)

BuddyOf(s, c) == IF Leads(s, c) THEN s.header[c].nextInVs ELSE s.header[c].prevInVs

Free(s, h) == s.header[h].state = "free"

\* Faulty: does not ask whether the buddy is in use.
MergesAny(s, c) ==
  /\ s.header[c].level > 0
  /\ s.header[BuddyOf(s, c)].level = s.header[c].level

\* Can free chunk c be merged with its buddy?
Merges(s, c) ==
  /\ s.header[c].level > 0
  /\ LET buddy == BuddyOf(s, c) IN
     s.header[buddy].level = s.header[c].level /\ Free(s, buddy)

\* The leader survives, the follower's header is released.
MergeOnce(s, c) ==
  LET buddy    == BuddyOf(s, c)
      leader   == IF Leads(s, c) THEN c ELSE buddy
      follower == IF leader = c THEN buddy ELSE c
      t        == Release(Unwire(Delist(s, buddy), leader, follower), follower)
  IN  [heap |-> [t EXCEPT !.header[leader].level = @ - 1], chunk |-> leader]

\* merge: the chunk it ends with, and the heap then.
Merge(s, c) ==
  LET merged[k \in Levels] ==
        IF k = 0 THEN [heap |-> s, chunk |-> c]
        ELSE LET m == merged[k - 1] IN
             IF Merges(m.heap, m.chunk) THEN MergeOnce(m.heap, m.chunk) ELSE m
  IN  merged[HighestLevel]

CanEnlarge(s, c) ==
  /\ s.header[c].level > 0
  /\ Leads(s, c)
  /\ Merges(s, c)

\* The buddy is its follower.
Enlarge(s, c) ==
  LET buddy == s.header[c].nextInVs
      t     == Release(Delist(Unwire(s, c, buddy), buddy), buddy)
  IN  [t EXCEPT !.header[c].level = @ - 1]

-----------------------------------------------------------------------------
(* ChunkManager                                                            *)

\* return_chunk_locked
ReturnChunk(s, c, place) ==
  LET m == Merge([s EXCEPT !.header[c].state = "free"], c) IN
  Enlist(m.heap, m.chunk, place)

\* A new node is made when all areas of the others are handed out; its areas
\* are, one by one.
NextArea(s, r) ==
  LET fresh(n) == \A q \in AreasOf(n) : s.firstOf[q] = Null
      full(n)  == \A q \in AreasOf(n) : s.firstOf[q] # Null
      node     == r \div RootsPerNode
  IN  /\ \A q \in AreasOf(node) : s.firstOf[q] = Null <=> r <= q
      /\ fresh(node) => \A n \in Nodes : fresh(n) \/ full(n)

\* alloc_root_chunk_header
RootChunk(s, r) == [Allocate(s, Header(r * RootWords, 0)) EXCEPT !.firstOf[r] = NextHeader(s)]

\* How much of a chunk is committed decides: nothing, and it goes to the back.
Places == {"front", "back"}

\* The chunk get_chunk found, cut to size and marked; or, if it could not be
\* committed, put back.
HandOut(a, s, c, preferred) ==
  LET level == s.header[c].level IN
  \E places \in [level + 1..preferred -> Places] :
    LET cut == IF level < preferred THEN Split(s, c, preferred, places) ELSE s
        t   == [cut EXCEPT !.header[c].state = "inuse"]
    IN  \/ heap' = t /\ taken' = [taken EXCEPT ![a] = c]
        \/ \E place \in Places : heap' = ReturnChunk(t, c, place) /\ UNCHANGED taken

\* get_chunk: the first chunk of a list, which one depends on what is committed
\* and how small a chunk would do, max_level; if all lists down to that level,
\* which is no larger than the preferred one, are empty, a new root chunk.
GetChunk(a, preferred) ==
  /\ a \notin DOMAIN dying /\ taken[a] = Null
  /\ \/ \E l \in Levels :
          LET c == heap.free[l].first IN
          c # Null /\ HandOut(a, Delist(heap, c), c, preferred)
     \/ \E r \in Areas :
          /\ \A l \in 0..preferred : heap.free[l].first = Null
          /\ NextArea(heap, r)
          /\ HandOut(a, RootChunk(heap, r), NextHeader(heap), preferred)
  /\ UNCHANGED dying

\* The arena makes it its current chunk.
AddChunk(a) ==
  /\ taken[a] # Null
  /\ heap' = Add(heap, a, taken[a])
  /\ taken' = [taken EXCEPT ![a] = Null]
  /\ UNCHANGED dying

AttemptEnlarge(a) ==
  LET c == heap.chain[a].first IN
  /\ a \notin DOMAIN dying /\ taken[a] = Null /\ c # Null
  /\ CanEnlarge(heap, c)
  /\ heap' = Enlarge(heap, c)
  /\ UNCHANGED <<taken, dying>>

\* ~MetaspaceArena begins.
Die(a) ==
  /\ a \notin DOMAIN dying /\ taken[a] = Null
  /\ dying' = [b \in DOMAIN dying \cup {a} |-> IF b = a THEN heap.chain[a].first ELSE dying[b]]
  /\ UNCHANGED <<heap, taken>>

\* Faulty: reads the link after the chunk was returned.
ReturnAndFollow(a, place) ==
  LET c == dying[a]
      t == ReturnChunk(heap, c, place)
  IN  /\ c # Null
      /\ heap' = t
      /\ dying' = [dying EXCEPT ![a] = t.header[c].next]
      /\ UNCHANGED taken

\* One round of its loop: the link is read, then the chunk is returned.
ReturnNext(a, place) ==
  LET c == dying[a] IN
  /\ c # Null
  /\ heap' = ReturnChunk(heap, c, place)
  /\ dying' = [dying EXCEPT ![a] = heap.header[c].next]
  /\ UNCHANGED taken

\* Its list is gone with the arena.
Dead(a) ==
  /\ dying[a] = Null
  /\ heap' = [heap EXCEPT !.chain[a] = NoList]
  /\ dying' = Restrict(dying, DOMAIN dying \ {a})
  /\ UNCHANGED taken

\* RootChunkArea::is_free
AreaIsFree(s, r) ==
  LET c == s.firstOf[r] IN c = Null \/ (s.header[c].level = 0 /\ Free(s, c))

NodeIsFree(s, n) == \A r \in AreasOf(n) : AreaIsFree(s, r)

\* What attempt_purge and ~RootChunkArea do with an area of a node that goes.
PurgeArea(s, r) ==
  LET c == s.firstOf[r] IN
  IF c = Null THEN s ELSE [Release(Delist(s, c), c) EXCEPT !.firstOf[r] = Null]

\* Nodes go as a whole.  A new node may have any free number, so the order of
\* the numbers stands for that of the list.
Purge ==
  /\ heap' = LET purged[r \in 0..NumAreas] ==
                IF r = 0 THEN heap
                ELSE IF NodeIsFree(heap, (r - 1) \div RootsPerNode)
                  THEN PurgeArea(purged[r - 1], r - 1)
                  ELSE purged[r - 1]
              IN  purged[NumAreas]
  /\ UNCHANGED <<taken, dying>>

Init ==
  /\ heap = Empty
  /\ taken = [a \in Arenas |-> Null]
  /\ dying = [a \in {} |-> Null]

Next ==
  \/ \E a \in Arenas, preferred \in Levels : GetChunk(a, preferred)
  \/ \E a \in Arenas : AddChunk(a) \/ AttemptEnlarge(a) \/ Die(a)
  \/ \E a \in DOMAIN dying : Dead(a) \/ \E place \in Places : ReturnNext(a, place)
  \/ Purge

Spec == Init /\ [][Next]_vars

-----------------------------------------------------------------------------
(* Properties.                                                             *)

\* The headers met on the way from h along links, at most as many as there are.
Walk(h, links) ==
  LET met[i \in 0..Len(heap.header)] ==
        IF i = 0 THEN IF h = Null THEN <<>> ELSE <<h>>
        ELSE LET m == met[i - 1] IN
             IF Len(m) < i \/ links[m[i]] = Null THEN m ELSE Append(m, links[m[i]])
  IN  met[Len(heap.header)]

NextLinks     == [h \in DOMAIN heap.header |-> heap.header[h].next]
NextInVsLinks == [h \in DOMAIN heap.header |-> heap.header[h].nextInVs]

Pooled        == Walk(heap.chain["pool"].first, NextLinks)
Neighbours(r) == Walk(heap.firstOf[r], NextInVsLinks)
Listed(l)     == Walk(heap.free[l].first, NextLinks)

\* The headers that stand for a chunk.
InAreas == UNION {ToSet(Neighbours(r)) : r \in Areas}

\* What arena a can reach: its list, or what its destructor has not returned.
Reached(a) == Walk(IF a \in DOMAIN dying THEN dying[a] ELSE heap.chain[a].first, NextLinks)
Held(a)    == ToSet(Reached(a)) \cup ({taken[a]} \ {Null})

\* Along the links the chunks of an area lie side by side from its base to its
\* end, and the links back are the same way back.
NeighboursLinked ==
  \A r \in Areas :
    LET chunks  == Neighbours(r)
        c(i)    == heap.header[chunks[i]]
        base(i) == IF i > Len(chunks) THEN (r + 1) * RootWords ELSE c(i).base
    IN  chunks # <<>> =>
          /\ base(1) = r * RootWords /\ c(1).prevInVs = Null
          /\ \A i \in DOMAIN chunks :
               /\ base(i) + WordSize[c(i).level] = base(i + 1)
               /\ i > 1 => c(i).prevInVs = chunks[i - 1]

\* Both links of a free list agree, both its ends and its count are right, and
\* it holds the free chunks of its level, each once.
FreeListsLinked ==
  LET free == {h \in InAreas : Free(heap, h)} IN
  \A l \in Levels :
    LET list == Listed(l)
        c(i) == heap.header[list[i]]
    IN  /\ IsInjective(list)
        /\ ToSet(list) = {h \in free : heap.header[h].level = l}
        /\ heap.free[l].count = Len(list)
        /\ heap.free[l].last = IF list = <<>> THEN Null ELSE Last(list)
        /\ \A i \in DOMAIN list : c(i).prev = IF i = 1 THEN Null ELSE list[i - 1]

\* RootChunkArea::verify and FreeChunkList::verify, on the links themselves,
\* which every list a header was in before has left its traces in.
LinksSound == NeighboursLinked /\ FreeListsLinked

\* As many chunks as there can be, all of the smallest size.
MostChunks == (NumAreas * RootWords) \div WordSize[HighestLevel]

\* Every header that was ever handed out stands for a chunk or lies in the
\* pool, never both, and both counters of the pool are right.  It grows only
\* when no header lies idle: there are never more of them than there can be
\* chunks, and no more slabs than they fill.
HeadersAccounted ==
  /\ IsInjective(Pooled)
  /\ ToSet(Pooled) = DOMAIN heap.header \ InAreas
  /\ heap.chain["pool"].count = Len(Pooled)
  /\ heap.handedOut = Cardinality(InAreas)
  /\ Len(heap.header) <= MostChunks
  /\ heap.slabs = (Len(heap.header) + SlabCapacity - 1) \div SlabCapacity

\* Each chunk in use can be reached from one arena, once, and nothing else can:
\* the pointers an arena keeps never lead to a header that stands for another
\* chunk by now, or none.
ArenasReachTheirs ==
  /\ \A a \in Arenas : IsInjective(Reached(a)) /\ taken[a] \notin ToSet(Reached(a))
  /\ \A a, b \in Arenas : a # b => Held(a) \cap Held(b) = {}
  /\ UNION {Held(a) : a \in Arenas} = {h \in DOMAIN heap.header : heap.header[h].state = "inuse"}

\* For the arenas this is the ledger: the chunks in use, which they reach, never
\* overlap, move or shrink, whichever headers come and go around them.
Owned ==
  LET chunks == {c \in ToSet(heap.header) : c.state = "inuse"} IN
  [b \in {c.base : c \in chunks} |-> WordSize[(CHOOSE c \in chunks : c.base = b).level]]

Ledger == INSTANCE ChunkLedger WITH
  Bases  <- Addresses,
  Sizes  <- {WordSize[l] : l \in Levels},
  owned  <- Owned,
  stored <- {}

ImplementsLedger == Ledger!Spec
=============================================================================
