# Elastic Metaspace (JEP 387): a verification project

TLA+ modules, TLC configurations and TLAPS proofs for the metaspace allocator
in `src/review/webrev-all/webrev/raw_files/new/src/hotspot/share/memory`. Paths
below are relative to that directory; `ms*.cpp` are in its `metaspace/`;
`gc/`, `services/` and `utilities/` are next to it.

1. The system
2. Modules
3. Runs, properties, bounds, fairness
4. Where code and documentation differ
5. Proofs
6. Faulty variants
7. Abstractions
8. Not modelled
9. Plan

## 1. The system

Metaspace is where HotSpot keeps class metadata. Each class loader owns arenas
that hand out words from *chunks*; when the loader is unloaded, its chunks go
back all at once. Chunks are power-of-two sized pieces of *root chunks* (a buddy
allocator); root chunks are taken one after the other from *virtual space
nodes*, which are reserved address space. Memory is committed and uncommitted in
*granules*, independently of chunk boundaries. What may be committed is limited
by `MaxMetaspaceSize` and by a *GC threshold*, the high water mark (HWM), that
threads raise and collections resize.

```
 Metaspace::allocate ── ClassLoaderMetaspace ── MetaspaceArena ── FreeBlocks      lock: the loader's
        │                       │                    │ get_chunk, return_chunk,
        │ fails: collect,       │                    │ attempt_enlarge_chunk,
        ▼ expand_and_allocate   │                    ▼ ensure_committed
   MetaspaceGC (HWM) ◄──────────┘      ChunkManager ── FreeChunkListVector        lock: MetaspaceExpand_lock
        ▲ allowed_expansion                  │ split, merge, allocate_root_chunk,
        │                                    ▼ commit_range, uncommit_range
   CommitLimiter ◄───── VirtualSpaceList ── VirtualSpaceNode ── RootChunkArea, CommitMask
                                             │ os::reserve/commit/uncommit/release_memory
                                             ▼
                                   VirtualMemoryTracker (native memory tracking)  lock: ThreadCritical
```

### Inventory

| Component | State | Operations | What is hard | What makes it correct | Modelled in |
|---|---|---|---|---|---|
| Chunk geometry (`msChunklevel`) | – | sizes, levels, buddies, level that fits a size | boundary arithmetic | buddies and blocks agree | `ChunkGeometry` |
| `RootChunkArea` | chunks of 4 MB by address | `split`, `merge`, `attempt_enlarge_chunk` | recursion over levels; commit lines of parts; links of third chunks | chunks tile the area; free buddies are merged; nobody's chunk is touched | `ContextMethods`, `ChunkLoops`; links in `ChunkHeaders` |
| `Metachunk` | level, state, commit line, used words | `commit_up_to`, `uncommit`, `allocate` | the line is a cache of the commit mask, rounded to granules | the line promises only committed words; live data is never recommitted | `ContextMethods` |
| `FreeChunkListVector` | one list per level, counters | `add`, `remove`, searches | counters take what a chunk has at the moment it is added or removed; only the first chunk of a list is looked at | every free chunk once, counters exact, committed chunks in front | `ContextMethods`; links in `ChunkHeaders` |
| `ChunkManager` | lists, space list | `get_chunk`, `return_chunk`, `attempt_enlarge_chunk`, `purge` | a commit that fails after the split | a request is honoured or leaves no trace | `ContextMethods`, promise in `ChunkLedger` |
| `VirtualSpaceList`, `VirtualSpaceNode`, `CommitMask` | nodes, used words, mask, counters | `allocate_root_chunk`, `commit_range`, `uncommit_range`, `purge` | unlinking nodes anywhere in the list; three counters that must agree | counters equal masks; empty nodes go | `ContextMethods` |
| `CommitLimiter` | committed words of both contexts | `possible_expansion_words` | one limit, two contexts, a moving HWM | the limit holds for the sum | `ContextMethods`, `MetaspaceGC` |
| `MetaspaceGC` | HWM, shrink factor | `inc/dec_capacity_until_GC`, `allowed_expansion`, `compute_new_size` | compare-and-swap races, retries, resizing by stale values, unsigned subtraction | HWM covers what is committed and stays in range; requests end, and fail for a reason | `MetaspaceGC` |
| `ClassLoaderMetaspace` | two arenas | `allocate`, `expand_and_allocate`, `deallocate` | the retry loop | the loop ends for a reason | `MetaspaceGC` (the loop), `MetaspaceArena`, promise in `LoaderMemory` |
| `MetaspaceArena`, `ArenaGrowthPolicy` | its chunks, free blocks, used words | `allocate`, `deallocate`, destructor | checks outside the global lock; destruction while buddies merge | used words account for all blocks; chunks go back once; blocks never overlap | `MetaspaceArena` |
| `FreeBlocks`, `BinList`, `BlockTree` | free blocks by size | `add_block`, `remove_block` | tree relinking, remainders at the boundary | closest fit, nothing lost but less than a block | `FreeBlocks`, `BinList`, `BlockTree`, promise in `BlockLedger` |
| `ChunkHeaderPool` | slabs, unused headers | allocate and return a header | links nobody clears; a header that stands for another chunk by now | each header is a chunk or pooled; pointers of arenas lead to their own chunks | `ChunkHeaders` |
| Native memory tracking of virtual memory (`services/virtualMemoryTracker`) | reserved and committed regions, sums by type | reserve, tag, commit, uncommit, release, split | ranges that overlap, join, cut regions; sums updated by hand; calls it does not look at closely | lists sorted and disjoint, sums exact, but for three kinds of calls | `VirtualMemoryTracker`, promise in `TrackedMemory` |
| Initialization, reporting, old implementation, tests, talks | – | – | – | – | not modelled (section 8) |

### Locks and interleavings

Everything the chunk manager does runs under `MetaspaceExpand_lock`, so one
operation is one operator of `ContextMethods`, with all it calls, and one step. What interleaves
there are the operations of many arenas and of the other context, in any order.
`MetaspaceContext` lets any callers make them. An arena works under its loader's lock; `MetaspaceArena` gives it one step per
call under `MetaspaceExpand_lock`, so that other arenas and `purge` come in
between what it checked and the call that relies on it, and between the chunks
its destructor returns. The HWM has no lock: `MetaspaceGC` gives a thread one
step for each access to it, and the places between the steps are where others
come in. The free blocks have the loader's lock and the tracker its own
(`ThreadCritical`): there the order of operations is what varies.

## 2. Modules

| Module | Role |
|---|---|
| `Alignment` | `align_up`, `align_down`, `is_aligned` (external: `utilities/align.hpp`) |
| `ChunkGeometry` | constants of the geometry, blocks, buddies, granules |
| `ContextMethods` | one context: lists, areas, nodes, commit state. The code's methods as operators on a context record, and what must hold of a context |
| `MetaspaceContext` | a context with any callers: the actions are the methods others call |
| `ChunkLedger` | abstract specification: what a context promises to arenas |
| `MCMetaspaceContext` | geometries and requests for TLC |
| `ChunkLoops` | `split` and `merge` as loops, as in the source, which the closed forms have to agree with |
| `MetaspaceArena` | several arenas and one context: their actions call the operators of `ContextMethods` |
| `LoaderMemory` | abstract specification: what arenas promise to class loaders |
| `MCMetaspaceArena` | its instance for TLC |
| `MetaspaceGC` | the HWM, requests and collections |
| `BlockTree`, `BinList`, `FreeBlocks` | the free blocks of an arena |
| `BlockLedger` | abstract specification: what free blocks promise to the arena |
| `ChunkHeaders` | headers, their pool, all links; also a `ChunkLedger` |
| `MCChunkHeaders` | its instance for TLC |
| `VirtualMemoryTracker` | regions and sums of native memory tracking |
| `TrackedMemory` | abstract specification: what is known of each word |
| `MCStructures` | free blocks and tracker as one specification for TLC |
| `*_proofs`, `*Lemmas` | theorems (section 5) |

### ContextMethods, MetaspaceContext

State: `ctx.chunk` holds the chunk headers by base address (an address is an
offset in one space in which node *n* has a fixed place), `ctx.list` and
`ctx.listed` the free lists and their committed word counters, `ctx.nodes` the
node list head first with `ctx.used` its used words, `ctx.mask` the commit masks
of all nodes, and `committed`, `reserved`, `limiter` the counters. `ctx.data` is
not in the code: the words in which metadata was written and is intact. An
operation that maps fresh memory (`os::commit_memory` replaces the mapping of
the whole range) or uncommits takes words out of it. `foreign` is what the
other context has charged to the shared limiter.

| Action | Code |
|---|---|
| `GetChunk(r)` | `ChunkManager::get_chunk` with all it calls: five searches (`SearchLevel`), new root chunk and new node, splitting, committing, and on commit failure the return of the chunk |
| `ReturnChunkOp(b)` | `return_chunk`: merge, uncommit, list |
| `AttemptEnlargeChunk(b)` | `attempt_enlarge_chunk` |
| `EnsureCommitted(b, size)` | `Metachunk::ensure_committed_additional` |
| `Allocate(b, size)` | `Metachunk::allocate` and the caller's writing |
| `Purge` | `ChunkManager::purge`: nodes first, then uncommitting what is listed |
| `ForeignCommit`, `ForeignUncommit` | the other context |

`get_chunk` and `attempt_enlarge_chunk` are called only as the code's assertions
allow: `pref <= max` and the committed minimum fits the smallest level asked
for. `Split` and `Merge` are closed forms, the loops of `RootChunkArea` summed
up; `ChunkLoops` has the loops and compares them in every reachable state. One
thing only the comparison brought out: chunks that share a granule share its
commit state but not their lines, so a merge may find a gap in the lines that
rounding hides (`MergedCommitted`).

### ChunkLedger

For an arena a context is a ledger: `Take` hands out words nobody owns, `Grow`
extends a chunk in place into such words, `Give` returns it, `Store` puts
metadata where there was none. `ImplementsLedger` maps the chunks in use to
`owned` and `ctx.data` to `stored`; every operation must be one of these steps
or none. A recommit over live data, a merge with a chunk in use, a chunk moved
by splitting are not. `ChunkHeaders` implements the same ledger with pointers.

### MetaspaceArena

State: `arena[a].chunks` is `_chunks`, current chunk first; `live` and `free` the
loader's blocks and the free blocks by address; `taken` a chunk that `get_chunk`
gave and that is not in the list yet; `usedWords` the counter all arenas share.
`arena[a].pc` says where the operation of the arena stands.

| Place | The arena's next step | Code |
|---|---|---|
| `idle` | `Allocate`, `Deallocate`, `Destroy` | `allocate` up to the first call that takes the lock, with the checks before it (`MayEnlarge`, the comparison with the commit line) |
| `enlarge` | `EnlargeCurrent` | `ChunkManager::attempt_enlarge_chunk` |
| `commit` | `CommitCurrent` | `Metachunk::ensure_committed` from where it takes the lock |
| `new` | `GetNewChunk` | `get_chunk`, with the level of the growth policy |
| `taken` | `AddNewChunk` | `salvage_chunk` for the old chunk, the new one becomes current |
| `dying` | `ReturnFirst`, `Death` | the loop of the destructor, then the counter |

`allocate` fails only if `GetNewChunk` finds no chunk; a failed commit of the
current chunk makes it ask for a new one. The free blocks are a set of blocks
here, and a request may overlook one (what `FreeBlocks` really finds is the
subject of the next module). For the loaders the arenas are a `LoaderMemory`.

### FreeBlocks, BinList, BlockTree

`small` and `tree` are the two structures as in memory: lists by size with a mask,
and a binary search tree whose nodes lie in the blocks themselves, with lists of
blocks of the same size. `Insert`, `Unlink` (three cases, the last relinking up
to four nodes), `ClosestFit` and `NextBin` follow the pointers. `Give` is
`add_block`, `Take` is `remove_block` with the splitting of what is left.
`BlockLedger` is the promise: who gives a block has it no more, a request gets
the front of one free block, and no more than a smallest block is lost.

### ChunkHeaders

`MetaspaceContext` names a chunk by its address. In the code it is an object of a
pool, found by pointers. Here `heap.header` are these objects with all four
links, `heap.chain` the lists of the pool and of the arenas, `heap.free` the free
lists, `heap.firstOf` the first chunk of each root chunk area. Links keep what
the last list wrote there, as in a product build. `dying[a]` is the pointer the
loop of a destructor holds while the chunk before it is returned and merged.

What is committed is left out, so what it decides is left open: to which end of
its list each single splinter goes, and the chunk that is put back
(`Places`); from which list `GetChunk` takes a chunk, and whether its commit
fails. A new root chunk (`NextArea`) is taken when the lists are empty down to
the level that is wanted; the searches may look further, at smaller chunks,
before they give up, and need not, so splinters may be listed then. The root
chunks of a node are handed out one by one before the next node is made, and
`Purge` takes away nodes as a whole: a free root chunk of a half-used node stays
listed.

### VirtualMemoryTracker

Metaspace reserves, tags, commits, uncommits and releases its nodes through `os`,
which tells the tracker. `regions` is the sorted list of reserved regions, each
with its sorted list of committed ones; `summary` the sums by type. The
operations cut, join and overwrite regions and keep the sums up by hand.
`TrackedMemory` says what is to come of it for each word.

Any call is possible that the code does not assert away, and what it does is
modelled, also where it breaks the lists. There are three kinds of such calls
(section 4): `Unseen`, a commit over a committed region strictly inside the range;
`TwiceLinked`, a release with committed regions on both sides; `LostStack`, a
reservation over stacks of lost threads that are not simply overwritten.
`SoundUnlessOverlooked` says that these calls break the lists, and no others do.
What further calls do to broken lists (some of their nodes are then in two lists)
is not followed: behaviours end there, or when the list is deleted (`Transition`).

### MCStructures

Free blocks and tracker share no state, so their product would say nothing that
the parts do not. `MCStructures` chooses one of the two in the initial state and
lets only that one step: one run, the sum of the two state spaces.

### MetaspaceGC

A request is the flow of `Metaspace::allocate` and of
`satisfy_failed_metadata_allocation` (`gc/shenandoah/shenandoahHeap.cpp`, the
one collector whose version is in the repository): allocate,
`expand_and_allocate`, full collection, allocate, `expand_and_allocate`,
`OutOfMemoryError`.

| Place (`pc`) | The thread's next step |
|---|---|
| `allocate` | `Allocate`: served (`Serve`), or failed (`Fail`) and on to expand |
| `increment` | `ReadThreshold`: read the HWM, add the step, compare with the maximum |
| `cmpxchg` | `CompareExchange` |
| `attempt` | `Attempt`: allocate again; loop, collect or give up |
| `collect` | `CollectFor`: the collection, at a safepoint |
| `oom` | `ThrowOutOfMemory` |

Of what lies below an allocation two reasons to fail remain. The limiter refuses:
a request needs some number of granules, none if it finds committed memory, up to
its own size or, when new chunks are committed as a whole, to that of a chunk
(`Needs`, `WholeChunk`). Or, in class space, the list of nodes cannot grow, and
there is no address range left for a chunk (`msVirtualSpaceList.cpp` 121): that
can happen at any time, however little is committed. `refused` is how much the
limiter refused a request last that ends in `OutOfMemoryError`. `Raised` is the
addition of `inc_capacity_until_GC`, which at the largest size clamps instead of
wrapping around. `Collect` is unloading,
purging and `compute_new_size` in one pause (Serial, Parallel, G1, Shenandoah's
full collections). `ConcurrentSample` and `ConcurrentResize` are the two halves
of `compute_new_size` when `ZUnload::finish` and `ShenandoahUnload::finish` call
it while threads run.

## 3. Runs

| Run | Instance | States | Shows |
|---|---|---|---|
| `Balanced` | 3 levels (4, 2, 1 words), granule 2, 2 nodes of one root chunk, limit 6 | 35 414 | `MetaspaceReclaimPolicy=balanced`: structure, counters, commit lines, reclamation, honoured requests, purge, refinement of the ledger |
| `None` | the same, policy `none` | 19 268 | lists of committed and uncommitted chunks; purged nodes take committed memory with them; failed commits of whole chunks leave no trace |
| `ClassSpace` | 4 levels (8 … 1), granule 4, one given node, limit 8 | 71 077 | a context that cannot grow or be purged; two levels below the granule; closed forms equal loops |
| `Headers` | 2 arenas on 2 nodes of 2 root chunks, 3 levels, slabs of 3 headers | 376 677 | links of headers that change lists, the pool, what arenas reach, refinement of the ledger |
| `Arenas` | 2 arenas on 1 node of 2 root chunks, 3 levels, granule 2, limit 6 | 195 153 | checks without the lock, salvaging, enlarging, dying chunk by chunk while the other arena and `purge` work |
| `Structures` | tree of up to 5 nodes; 4 words with 2 call stacks and 3 types | 109 899 | trees and bins; lists of regions, and which calls break them |
| `Threshold` | 2 threads, granule 100, HWM 200 … 800, whole chunks of 200, class space | 141 919 | HWM covers what is committed, races lose nothing, resizing leaves room, requests end |
| `Concurrent` | 2 threads, HWM 200 … 600, the largest size is 699, concurrent collector | 3.6 million | what holds without pauses: range of the HWM, the maximum |
| `Search` | violation | | a committed chunk behind another one is not found |
| `ConcurrentUnloading` | violation | | HWM below what is committed |
| `OutOfMemory` | violation | | `OutOfMemoryError` for a request that would fit |
| `Waste` | violation | | used words exceed committed words |

### Properties

| Property | Says | Lines it is about |
|---|---|---|
| `AreasTiled` | chunks of an area are aligned, disjoint and gapless; nodes are listed once, only the first has room, the reserved counter is right (`NodesExact`) | `msRootChunkArea.cpp` 412–458, `msVirtualSpaceList.cpp` 109–180 |
| `IdeallyMerged` | free buddies never stay side by side | `msRootChunkArea.cpp` 460–478 |
| `FreelistsExact` | every free chunk is listed once at its level, committed chunks first (`CommittedFirst`) | `msFreeChunkList.cpp` 60–84, `msFreeChunkList.hpp` 144–155 |
| `ListedWordsExact` | the counter of each list is the sum over its chunks | `msFreeChunkList.hpp` 120–155, `msRootChunkArea.cpp` 129–137, 290 |
| `CommitLineBacked` | the commit line promises committed words only | `msMetachunk.cpp` 173–177, `msRootChunkArea.cpp` 129–137, 268–289 |
| `CommitCharge` | limiter, list counter and masks agree; the limit holds for both contexts | `msVirtualSpaceNode.cpp` 83–143, 180–225, 296–301 |
| `LiveDataIntact` | no operation maps fresh memory over live metadata | `msMetachunk.cpp` 61–79 |
| `NoIdleCommit` | balanced: a granule without a chunk in use is uncommitted | `msChunkManager.cpp` 312–317 |
| `RequestHonoured` | `get_chunk` gives what was asked or puts everything back | `msChunkManager.cpp` 125–258 |
| `PurgeReclaims` | no node of free chunks survives `purge` | `msVirtualSpaceList.cpp` 141–180 |
| `ImplementsLedger` | the context, and the headers, implement `ChunkLedger`, the free blocks `BlockLedger` | all |
| `SplitIsTheLoop`, `MergeIsTheLoop` | the closed forms are right | `msRootChunkArea.cpp` 80–313 |
| `ChunksOwned` | every chunk in use is in one arena's list, once | `msArena.cpp` 143–179, 318–350 |
| `UsedWordsExact` | the shared counter of used words is the sum over chunks | `msArena.cpp` 76, 168, 347 |
| `BlocksSound` | blocks of a loader, held or free, are disjoint pieces of the used part of its own chunks, intact | `msArena.cpp` 60–87, 244–388 |
| `ChecksHold` | what was checked before the lock holds when the lock is taken | `msArena.cpp` 185–228, `msMetachunk.cpp` 126–137 |
| `FailsOnlyAtLimit` | an allocation fails only at the commit limit or without address space | `msArena.cpp` 301–316 |
| `ImplementsPromise` | the arenas implement `LoaderMemory` | all of `msArena.cpp` |
| `NothingTwice` | no word lies in two blocks, held or free; each free block is listed once | `msFreeBlocks.cpp` 33–61 |
| `StructuresSound` | order, parents, lists, counters and mask; the closest fit is found (`FindsClosest`) | `msBlockTree.hpp` 115–390, `msBinList.hpp` 124–194 |
| `LinksSound` | links along memory and in free lists, both ways (`NeighboursLinked`, `FreeListsLinked`) | `msRootChunkArea.cpp` 139–145, 275–279, `msFreeChunkList.hpp` 82–142 |
| `HeadersAccounted` | each header is a chunk or pooled; no slab too many | `msChunkHeaderPool.hpp` 77–123 |
| `ArenasReachTheirs` | pointers of arenas, also of dying ones, lead to their own chunks | `msArena.cpp` 154–163 |
| `SoundUnlessOverlooked` | each call leaves the lists sorted, disjoint, joined and inside and the sums by type exact (`RegionsSound`, `SummaryExact`) if, and only if, it is none of the three kinds that are overlooked | `virtualMemoryTracker.cpp` 71–533 |
| `ImplementsMemory` | each call changes what is known of just its words, or is overlooked | the same |
| `ThresholdCoversCommitted` | the assertion of `allowed_expansion` | `metaspace.cpp` 348 |
| `ThresholdInRange`, `CommittedWithinMax` | HWM in range and aligned; the maximum holds even when the subtraction wraps | `metaspace.cpp` 255–303, 344–360 |
| `FailedRaiseMeansRival` | the loop repeats only after a rival's success | `msClassLoaderMetaspace.cpp` 127–133 |
| `OutOfMemoryNearLimit` | a request that fails without a raise lacked addresses in class space, or what the limiter refused last and one step more do not fit under the maximum | `metaspace.cpp` 280, `msVirtualSpaceList.cpp` 121, `msChunkManager.cpp` 225 |
| `ThresholdFallsOnlyInPause` | a raise never takes back another's | `metaspace.cpp` 290 |
| `PauseLeavesRoom` | `compute_new_size` keeps its desired capacities | `metaspace.cpp` 378–476 |
| `RequestsEnd` | every request ends | `msClassLoaderMetaspace.cpp` 130–133 |

`MetaspaceContext` and `MetaspaceGC` have a `TypeOK` besides; in the other modules
the properties fail on a value of a wrong kind.

### Why the bounds are enough

*Contexts.* The geometry has, in each run, chunks above, at and below the granule,
so each rounding happens; the deep ones have two levels below, so a merge can
cross two levels inside one granule. Two nodes let `purge` delete the first, the
second or both; the limit is lower than the address space, so commits fail at
every place a commit happens, also after a split. Requests include one that
prefers a root chunk and takes half of one, one that splits, one that commits
nothing. `AllocationSizes` is one word, so that the used part ends anywhere. The
loops are compared with the closed forms where two levels lie below the granule,
for there the lines are rounded most. The states are finite without a constraint: chunks are
bounded by the nodes (`NumNodes`), committed words by `MaxCommit`. What holds
here for small geometries is proved for all of them where section 5 says so.

*Arenas.* Two arenas share granules and buddies. A request of one word fits the
rest of a chunk, one of three words does not fit a chunk of two, so chunks are
enlarged, retired and salvaged; the policy asks for a small chunk first. Two
root chunks let a chunk be enlarged to a root chunk while the other arena has
one. The arenas are interchangeable (`ArenaSymmetry`); no property is a liveness
property.

*Structures.* Five blocks of five sizes give every shape of a tree with five
nodes, hence each case of its removal; a block of twelve words can be split down
to small ones again and again. Blocks that fit the bins never leave a rest that is
kept there; that they may elsewhere is covered by the theorem only. Four words
hold a committed region before, in and behind the range of a commit, of two call
stacks each, and a release between two of them.

*Headers.* Three levels and two arenas let a merge cross two levels with headers
of either side surviving, while the other arena has the chunk beside it, and
let two destructors take turns; slabs of three headers fill up. Two nodes of two
root chunks let lists grow to three chunks, so that some are removed from the
middle, and leave half-used nodes behind a purge. All of it together is too much:
`GetChunk` is bounded by `Few`, which allows all levels in one area, two levels in
the two areas of a node, and three areas with root chunks. The states are viewed
through `Read`: of a header in the pool only the link matters, for the rest is
overwritten before it is read, and nobody reads the list of a dying arena. No
property tells the arenas apart (`ArenaSymmetry`).

*HWM.* The granule is 100, the sizes 60 and 300 take the smallest and the largest
step of `delta_capacity_until_GC` (`Concurrent` and `Threshold` ask for the
larger one in class space, `OutOfMemory` outside), and the maximum is a few steps
away, so raises are refused, lost and won. A whole chunk has two granules, more
than the smaller request. Two threads are enough for a lost compare-and-swap; boot
may leave more committed than `MetaspaceSize`. The ratios are the flags'
defaults, 40 and 70. In `Concurrent` the maximum is the largest size in whole
granules, the default, so that raises are clamped; it is lower, because a sample
can be of any age. Elsewhere no raise comes near the largest size.

### Fairness

`WF(Step(t))`: a thread inside a request is running code between two safepoint
polls and goes on. `SF(CollectFor(t))`: the collection a thread waits for starts
at a safepoint, which needs all threads at a poll; each reaches one again and
again, and the VM stops them there as they come, so that rivals with ever new
requests cannot put it off for ever. No fairness is assumed for new requests or
periodic collections, nor for a compare-and-swap to succeed: `RequestsEnd` rests
on every lost one being a rival's raise and on the maximum. The other modules
state safety only: nothing in them waits, every operation ends by itself.

## 4. Where code and documentation differ

* `Search`: the description of `FreeChunkList` (`msFreeChunkList.hpp` 60–62) says
  retrieval searches the list for a chunk committed far enough, up to the first
  uncommitted one. The searches (`msFreeChunkList.cpp` 118–143) look at the first
  chunk of each list. With policy `none`, a root chunk that was only reserved in
  a failed request, then committed in part, can stand in front of a committed
  one. `find_matching`, which walks the list, has no caller, and compares the
  wrong way round.
* `ConcurrentUnloading`: `allowed_expansion` asserts that the HWM covers what is
  committed (`metaspace.cpp` 348), and 372–374 tells why it must. A concurrent
  `compute_new_size` lowers the HWM by an amount computed from older values; a
  thread commits in between. In a product build the unsigned difference wraps
  around and the threshold stops nobody until something is uncommitted;
  `Concurrent` and `MaximumKept` show that `MaxMetaspaceSize` still holds.
* `OutOfMemory`: the comments at `metaspace.cpp` 209–212 and 267–268 and at
  `msClassLoaderMetaspace.cpp` 127–129 say that a raise fails when there is no
  space for the request. `inc_capacity_until_GC` refuses when the *step* does not
  fit (280), and the HWM stays below the maximum for good: 300 committed, HWM
  500, maximum 800, a request of 300 with a step of 400 ends in
  `OutOfMemoryError`. `OutOfMemoryNearLimit` is what does hold.
* `Waste`: the destructor of an arena returns its chunks, which uncommits them,
  and takes their used words out of the counter after the last
  (`msArena.cpp` 154–168). In between used exceeds committed, which
  `services/memReporter.cpp` 227 subtracts unsigned for its report.

Three kinds of calls break the lists or the sums of the tracker. They are part of
the model and of the run `Structures`; `SoundUnlessOverlooked` says of each call
whether it is one of them, and that the lists are unsound after it:

| Calls | What they are | Why they break it | Who makes them |
|---|---|---|---|
| `Unseen` | a commit that covers a committed region from before to behind it | `overlap_region` (`virtualMemoryTracker.hpp` 213) looks at the ends of the range only, so the region inside stays beside the new one and is counted twice | `commit_range` (`msVirtualSpaceNode.cpp` 112) with reclaim policy `none`: a merged chunk can have committed granules behind a gap |
| `TwiceLinked` | a release between committed regions | `move_committed_regions` (`virtualMemoryTracker.cpp` 271) leaves the last one below linked to the second one above | nobody here releases a part of a node |
| `LostStack` | a reservation over stacks that are still registered, one with committed parts, several, or one with words on both sides | one region is overwritten, its committed list stays (`virtualMemoryTracker.cpp` 361–373), others are not looked for; one that begins before and ends behind is not found | threads that end without notice |

## 5. Proofs

`tlapm` checks every theorem for all values of the constants that satisfy these
assumptions, each named and evaluated by TLC for the instances above:

| Assumption | Says |
|---|---|
| `GeometryAssumption` | chunk sizes halve from level to level, the granule is one of them; finitely many root chunks of address space |
| `ContextAssumption` | the two policies are flags, the limit is a number of words |
| `CallerAssumption` | callers of `get_chunk` ask as its assertions demand (`LegalRequests`) |
| `ArenaAssumption` | finitely many arenas; a growth policy names levels; no request is larger than a root chunk |
| `BinAssumption`, `BlocksAssumption` | bins from a smallest block of at least a word upwards; what a loader holds at first are blocks without a common word, none too small |
| `HeaderAssumption` | a slab holds a header, the pool is no arena |
| `TrackerAssumption` | there are words, `mtNone` is among the types, no type is called as if nobody had reserved |
| `ThresholdAssumption` | aligned sizes, none larger than the largest, ordered ratios, a boot that stays below the maximum |

The theorems:

| Theorem | Module | For which |
|---|---|---|
| `CommitIsCharged` (`CommitCharge`), `ChunksTile` (`AreasTiled`), `FreeBuddiesMerge` (`IdeallyMerged`) | `MetaspaceContext_proofs` | any geometry, policy and limit, any callers |
| `ListsAreExact` (`FreelistsExact`), `CountersAreExact` (`ListedWordsExact`), `TypesAreKept` (`TypeOK`) | the same | the same |
| `LinesAreBacked` (`CommitLineBacked`), `DataStaysIntact` (`LiveDataIntact`), `LedgerKept` (`ImplementsLedger`) | the same | the same |
| `FreedIsUncommitted` (`NoIdleCommit`), `PurgeKeepsPromise` (`PurgeReclaims`), `RequestsHonoured` (`RequestHonoured`) | the same | the same |
| `SplitLoopsAgree` (`SplitIsTheLoop`), `MergeLoopsAgree` (`MergeIsTheLoop`) | the same | the same |
| `ContextStaysSound` (the invariants of the context) | `MetaspaceArena_proofs` | any arenas with any policy and sizes, on any such context |
| `ChunksHaveOwners` (`ChunksOwned`), `BlocksStaySound` (`BlocksSound`), `ChecksStillHold` (`ChecksHold`) | the same | the same |
| `UsedWordsAreCounted` (`UsedWordsExact`), `PromiseKept` (`ImplementsPromise`) | the same | the same |
| `RefusedAtLimit` (`FailsOnlyAtLimit`) | the same | contexts that do not commit new chunks as a whole |
| `BlocksStayApart` (`NothingTwice`), `StructuresStaySound` (`StructuresSound`), `BlocksAreALedger` (`ImplementsLedger`) | `FreeBlocks_proofs` | blocks of any sizes and number, any requests |
| `LinksAlwaysSound` (`LinksSound`), `HeadersAlwaysAccounted` (`HeadersAccounted`), `ArenasReach` (`ArenasReachTheirs`), `HeadersAreALedger` (`ImplementsLedger`) | `ChunkHeaders_proofs` | any geometry, number of nodes, areas in a node and arenas, any slabs |
| `TrackerSound` (`SoundUnlessOverlooked`), `TrackerKnowsMemory` (`ImplementsMemory`) | `VirtualMemoryTracker_proofs` | any number of words, types and call stacks, any calls |
| `TypeCorrect`, `RangeKept`, `MaximumKept`, `RoomLeft` | `MetaspaceGC_proofs` | any number of threads, any collector |
| `ThresholdHolds`, `RivalRaised`, `OutOfMemoryJustified`, `OnlyPausesLower` | `MetaspaceGC_proofs` | collectors that unload in a pause |

### The context

The invariant of a context is `Whole(s, other)`, where `other` is what the other
context has committed: seven conjuncts on the record `s`. For each method and
each conjunct a lemma says what the method does to it, also in the middle of an
operation; the lemmas called `…Whole` put them together, one per method. They
speak of a record, not of a specification, so `MetaspaceContext` and
`MetaspaceArena` both rest on them. They are in
`ContextMethods_proofs`.

* `Accounts` says what the counters are in terms of the mask, and that the
  headers have the shape `Metachunk`. `Split`, `Merge` and the lists leave the
  mask alone; committing charges what it adds to the mask, after asking.
* `Sound` says that chunks tile what the live nodes have handed out (`Tiled`). A
  method that exchanges chunks for others that cover the same words keeps it
  (`Retile`), so that what is left is arithmetic: the pieces of a split and the
  chunk they come from, the buddies of a merge and their block (`PartsCover`).
  `Merged(s, X)` is `IdeallyMerged` with the chunks in `X` exempt: while
  `get_chunk` works on a chunk, it is free, in no list, and may have a free
  buddy. That merging stops only where no free buddy is left, and that a chunk
  which goes to an owner leaves no pair behind, empties `X` again.
* `Listed(s, X)` is `FreelistsExact` with the same exemption. Lists are filtered
  by `Keep`, defined by positions, because the prover can not use the
  library's recursive definitions; `KeepFacts` says what it keeps. That `purge`
  leaves committed chunks in front needs that it uncommits whole lists only.
* `Counted(s, X)` says that the counter of each list is the sum over the free
  chunks of its level. `Moves` relates the sums before and after a method:
  chunks that leave, arrive, or change their line.
* `Backed` says that each line is within its chunk, at its end or on a granule
  boundary, with all words before it committed, and that used words lie before
  it and hold their data. A chunk of a granule or more has its granules to
  itself (`OtherGranules`). A smaller one shares its granule; but its line is at
  its base or its end, so that committing it means committing a granule whose
  words nobody has used: had a neighbour used any, the granule would be
  committed, and `CommitRange` would find nothing to do. This is the "design" of
  "Luckily, this cannot happen by design" (`msMetachunk.cpp` 71).
* `Known` says that every stored word lies in the used part of a chunk in use, and
  `Keeps(s, t, X)` that a method changes no chunk in use outside `X`.
  `Backed` says the reverse, so that what is stored is a function of the chunks
  in use: a step that keeps these keeps the data. This makes every action a step
  of the ledger for at most one chunk, or a stutter (`StepPromised`).
* `Lean` is `NoIdleCommit`. A chunk returned as part of one smaller than a granule
  is not uncommitted, so somebody else must live in its granule. `IdleBlock` says
  so: an aligned block that only free chunks touch is one free chunk, for the
  smallest of them would have a free buddy. The same lemma shows `purge` a node
  in which nobody lives as free root chunks.
* A request may fail after its chunk was cut. `CutOff` describes the pieces;
  `RegrownLevel` says that merging ends at the level the chunk had, no higher
  since it was merged before; `RegrownLine` that the line comes out as it was: the
  pieces before it are fully committed, and where it lies within a piece, that
  piece starts a granule and says exactly where (`SpillExact`), all that is
  rounded lying below. What merging to a granule or more would uncommit was
  uncommitted before, by `Lean`.

*The loops.* `Split` and `Merge` do in one step what the code does in rounds.
That they agree is an induction over levels: after each round the loop has the
state that the closed form gives for that level (`SplitRound`, `MergeRound`). For
`split` this is bookkeeping. For `merge` the commit line is the difficulty: the
loop rounds up after each join, and adds the follower's words only if the leader
is full. `LineFound` characterises the line of the closed form as the first gap
among the lines of the parts. A block of a granule or more has all gaps on
granule boundaries, so that rounding changes nothing; a smaller block is, by
`Backed`, committed as a whole or not at all, so that rounding hides the same
gaps in both (`LineGrows`). A loop that stops at once returns its argument
itself, so the lists have to be functions on the levels (`ListsFormed`), which is
an invariant of its own.

`ContextMethods_proofs` begins with the arithmetic of blocks, buddies and granules
(`ChunkHeaders_proofs` repeats the part it needs: the constants of a context are
none of its own). `BasicLemmas` has that of division, which the SMT solver does not
know. Sums over finite sets are there too: the community modules' `MapThenSumSet` is a fold, the
library's induction theorems take operators, so `SmallestSet` and `SetInduction`
state the induction on the size of a set with a set of sets in the operator's
place, and `Total` is a sum it can reason about (`CommittedSum`, `UsedSum` and
`ArenaSum` link the two).

### The arenas

`AInv` is `Whole(ctx, 0)` and, for each arena, `ArenaSound`: which fields go with
which place (`Placed`); its blocks, held and free, are apart, each within the used
words of one of its chunks (`Packed`); what it checked without the lock still
holds (`Checked`). `Shared` says that the arenas divide the chunks in use among
themselves, and the last conjunct that `usedWords` is what they use together
(`Uses`).

* Whatever an arena does, the others notice nothing: `StepSound` derives this
  once, from what a method of the context promises of chunks it was not called
  for (`Untouched`) and of the words stored in them. What remains is one lemma
  per action about the arena that acts, and `PurgeSound`.
* `Checked` is why the checks before the lock are safe: they speak of the arena's
  own chunk, its level and its line, and nobody else changes these, although
  others merge and uncommit the chunks beside it.
* A word of the loader is either in a block he holds, in a free block, or nowhere
  any more. `Faithful` says of each action that it keeps `AInv` and is a step of
  `LoaderMemory` or a stutter, with what the arena keeps by itself (salvaged
  ends of chunks, remainders of blocks) invisible.
* The counter: each action changes the sum of one arena (`UsedInArena`) and the
  counter by the same. A dying arena subtracts everything at its end, so what
  it has given back so far is kept as `returned`, which is the local variable
  of the destructor.
* `RefusedAtLimit` needs that new chunks are not committed as a whole: with
  `NewChunksFullyCommitted` a request of one word asks for a chunk's worth of
  memory, and `get_chunk` may fail with room for the word. The runs have this
  policy too, but no arenas under it.

### The free blocks

The code of `BlockTree` follows links, and a proof can not follow them with it:
the prover has no induction over a tree. `Shaped(t, under)` therefore says what a
tree is with the sets of nodes under each node: `under[n]` is `n` and what is under
its two children, which share nothing, the smaller ones on the left, each child
with `n` as its parent. The tree is sound if there is such an `under`; `Listed`
says of the other blocks that each is in the list behind one node of the tree, with
the size of that node.

* *Descents* (`insert`, `find_closest_fit`, `successor`) are recursive functions on
  the nodes. `TreeInduction` is the induction on `under`, with a set of nodes in the
  place of a predicate; it gives the recursion a unique result. What a node finds is
  then derived from what its children find: `PointFound`, `FitFound`, and
  `SuccessorFacts` for the next larger node.
* *Relinking.* `replace_node_in_parent` with a child of the node takes the node out
  (`Splice`). A node of two children is replaced by its successor, which changes up
  to four nodes in an order that matters in the code. `UnlinkTwo` computes the links
  that result; they are those of a tree from which the successor was taken out, and
  whose node then got the successor's address (`Rename`). So one case with two
  children becomes one with a single child and one where nothing moves.
* *Lists.* `remove_block` takes the first follower of a node if there is one; then
  the tree stays as it is (`DropFollower`). Otherwise the node heads an empty list.
* *Verification.* `SoundTreeVerifies` leads from `under` back to what
  `BlockTree::verify` walks along the links, and `ClosestIsFound` says that the
  search, which sees the nodes of the tree only, finds the best of all blocks.
* *Bins.* `BinsSound`: the counters are sums over the lists, the mask is the set of
  lists with blocks. `BinFound` needs that: the search looks at the mask only.
* *Memory.* `FreeOf` gives the free blocks of both structures with their sizes;
  each operation adds or removes exactly one of them (`BlockKept`, `SmallTaken`,
  `LargeTaken`). `MemoryShared` says that blocks held and free share no word. A
  request cuts one block into what is handed out, a rest behind it, and nothing
  else (`BlockTaken`, `RestLeft`), so it is a step of the ledger.

The invariant `BlocksSound` is both halves together: that a block is added which is
not in the structures already follows from its words being apart from theirs, and
that these are apart from what is handed out, from the structures listing each once.

### The headers

A pointer is right if following it leads where it should, again and again, which
the prover has no induction for. So a list is the set of its members and numbers
that rise along the links (`InLine`): from each member the link leads to the one
with the next higher number, from the last to `Null`. That such numbers exist is
`OneWay`; that the links back are the same way back, with the right last member,
is `TwoWay`. Adding in front or at the back, and taking a member out, keeps this
without looking at more than two neighbours (`TwoWayFront`, `TwoWayBack`,
`TwoWayWithout`). `WalkMeets` says that a walk along such links, as the properties
make it, meets each member once.

The invariant, `HeaderInv`, is `Sound(heap, {})` and, for some owners, `Reachable`.

* `Sound(s, X)`: a header is live or spare. Live chunks are aligned and apart, and
  each link along memory leads to the live chunk that begins where this one ends
  (`Placed`). Each free list is a `TwoWay` line through the free chunks of its level
  (`FreeLinked`), but for those in `X`: one that is being cut or merged is in no
  list. The pool is a `OneWay` line through the spare headers, and its counters are
  the sizes of both sets (`PoolLinked`).
* `Reachable(s, k, d, own)`: from where an arena begins, its first chunk or the one
  its destructor is at, a `OneWay` line leads through the chunks that `own` gives
  it, save one it has taken and not listed. The owner is in no variable, neither
  here nor in the code: some assignment exists after each step.
* A new header comes from the pool or from behind all others (`AllocateKeeps`), so it
  is in no list and was no chunk before; a released one (`ReleaseKeeps`) was in no
  list any more. Hence the links it keeps from earlier lists are harmless.
* The links are the only thing a free list, the pool and an arena have in common.
  `Spared(s, t, C)` says that a method leaves link, place and size of the chunks in
  use outside `C` alone; each method comes with it, so whatever is split, merged and
  purged beside them, no arena's line changes but by its own calls (`ReachKept`,
  `ReachTaken`, `ReachReturned`).
* `split` and `merge` run over levels; `CutsExist` and `FusesExist` give the
  recursive functions their values, `SplitKeeps` and `MergeKeeps` are the inductions
  over rounds. That a merge may follow `prev_in_vs` or `next_in_vs` to the buddy
  without looking is `BuddyPlaced`: the block beside it within its parent begins or
  ends at a chunk, and one of the same level there is the buddy.
* `HeadersAccounted`: the pool grows only when no header is spare, and live chunks
  apart from each other are at most as many as smallest chunks (`PlacedFew`).
* A purge runs over areas (`Purges`, `PurgeKeeps`): a node goes only if all its areas
  are free, and an area that was emptied leaves the others as they were, so those of
  the same node are still free when their turn comes. `NextArea` never returns to
  an area that was handed out, whichever lists are empty.
* The ledger: each step leaves the chunks in use as they are, or adds one apart from
  the others, extends one at its end, or takes one away (`StepIsBooked`).

### The tracker

The code walks lists and cuts them up; the prover has no induction over a list. So
a list is `Sorted(S)`: its members are in `S` and each ends before the next begins.
Then the list is determined by the set of its members, and what an operation does
is said of that set: a region comes into a gap (`InsertSorted`), leaves
(`RemoveSorted`), or another takes its place inside its range (`PlaceInside`). The
invariant, `TrackerInv`, has two parts.

* *The lists are sorted*, the reserved regions and the committed ones in each, which
  lie inside. `find_preceding_node_from` stops at the first region that does not
  come before the new one; that nobody overlaps it makes this the one gap in which
  it fits (`SortedAddSorted`).
* *The sums are numbers of words*: `summary` is, for each type, the number of words
  in regions of the type (`Held`), and of those that are committed in them (`Used`).
  A number of words splits when the words do, which a fold over a list of lists does
  not. `SumsCount` leads back to the folds of `SummaryExact`, regions apart having
  no word in common; that no more is committed than reserved is then a subset.

What the operations promise is said for each word: `FlagIn` and `StackIn` are the
type and the call stack known of a word, for any set of regions. `Gains`, `Swaps` and
`Forgets` say of a step both what it changes in the sums and what in the view, so
that each operation is composed once and yields the invariant and its step of
`TrackedMemory` together (`MemoryStep`).

* *Uncommitting* goes through a list whose members the range may miss, cover, cut at
  an end or cut in two, and returns early where it finds the range or a region around
  it. `Uncommits` says what is left in all cases: nothing inside the range, each word
  outside it as it was, by the stack that committed it.
* *Committing* does nothing if the range is the next region already; otherwise it
  uncommits what the range overlaps and joins it with a neighbour, or with both, or
  lists it where it belongs. `Commits` says that of the words, and that what is
  recorded is the difference of the sizes of the two lists. That the code uncommits
  only if the *next* region overlaps is enough, unless the first one
  lies strictly inside the range: then a word is in two regions (`Unseen`).
* *Releasing* has four outcomes: all (`ReleaseAll`), one end (`ReleaseEnd`), the
  middle (`ReleaseMiddle`). The last cuts the committed list with
  `move_committed_regions`. `Halved` says that each region is in one half, unless
  there are two or more above the range and some below: then the code links one of
  them into both (`TwiceLinked`).
* *Reserving* lists a new region, or changes the type of one that is there, or
  overwrites the stack of a lost thread. The last takes what was committed there out
  of the sums and leaves it in the list.
* *The calls that break the lists* break them always: two regions that share a word
  can not be in order (`UnseenBreaks`, `RemoveReleasedRegionBreaks`), and what is in a
  list but not in the sums makes them differ (`OverwriteMiscounts`). This is the
  other half of the equivalences of `SoundUnlessOverlooked`. The invariant of the
  proof, `SoundInv`, is therefore conditional: as long as the lists are sound,
  `TrackerInv`.

### The threshold

The range of the HWM is not inductive by itself: a thread adds its step to a
value it read earlier, a concurrent collector an amount it computed earlier.
`IInv` adds what they carry: a thread before its compare-and-swap holds a value
to which its step may be added (`RaiseFits`), and a sample's capacity is aligned
and not above the HWM, which only rises until the sample is used
(`SampleIsSafe`). Then `ResizeIsSafe`, arithmetic over `compute_new_size`, keeps
the range: a raise ends below the maximum though it is rounded up, for the
maximum is itself aligned; a cut leaves the larger desired capacity.

`PauseInv` adds, for collectors that pause, `ThresholdCoversCommitted` and what a
thread may conclude at each place of the loop (`Place`): before its
compare-and-swap the HWM has not fallen since it was read, for a pause finds no
thread there; an attempt after a lost one sees a higher HWM; in an attempt after a
refused raise the HWM and one step exceed the maximum; so if the limiter refuses it
again, what is committed, what is refused and the step do, and else class space
is what was missing. Under it the
subtraction of `allowed_expansion` does not wrap, so a served request stays
below the HWM. `ThresholdHolds` is the property that `ConcurrentUnloading` shows
violated without the assumption.

### Only model-checked

`RequestsEnd`, because the prover has no rules for fairness and `ENABLED`. The four
properties of the runs that end in a violation are false. All other properties of
the runs are theorems, under the assumptions of the two tables above.

## 6. Faulty variants

A property that no change of the code can break says nothing. Beside the
definitions stand variants with a plausible mistake; with the variant in place
of its original, TLC finds the property violated. They are used nowhere else.

| Variant | of | Mistake | Breaks |
|---|---|---|---|
| `PushBack` | `Push` | all chunks to the back | `FreelistsExact` |
| `DelistWholeSize` | `Delist` | subtracts the chunk size | `ListedWordsExact`, `TypeOK` |
| `CommitFromBase` | `CommitUpTo` | recommits the used part | `LiveDataIntact`, `ImplementsLedger` |
| `UncommitKeepsLine` | `Uncommit` | stale commit line | `CommitLineBacked` |
| `MergedSum` | `MergedCommitted` | adds over a gap | `MergeIsTheLoop` |
| `SplitForgetful` | `Split` | splinters uncommitted | `SplitIsTheLoop` |
| `JoinsInUse`, `JoinsPartly` | `Joins` | used or split buddies | `ImplementsLedger`; `AreasTiled` |
| `MergeLevelOnce` | `MergeLevel` | one merge only | `IdeallyMerged` |
| `ReturnKeepsGranule` | `ReturnChunk` | off by one at the granule | `NoIdleCommit` |
| `HandOutUnmerged` | `HandOut` | no merge after a failed commit | `RequestHonoured` |
| `DeadNodesButFirst` | `DeadNodes` | skips the first node | `PurgeReclaims` |
| `PurgeNodesUncounted` | `PurgeNodes` | counters forgotten | `CommitCharge` |
| `TailRead` | `Following` | follows the link of a merged header | `ChunksOwned` |
| `ReturnWhole` | `ReturnFirst` | counts the chunk, not its used words | `UsedWordsExact` |
| `SalvageAll` | `Salvage` | salvages beyond the commit line | `BlocksSound` |
| `MayEnlargeAny` | `MayEnlarge` | enlarges however much is missing | `ChecksHold` |
| `RemainderListed` | `Remainder` | the whole free block is kept | `ImplementsPromise` |
| `RequestWhole` | `Request` | asks for the chunk to be committed | `FailsOnlyAtLimit` |
| `KeepWaste`, `KeepLargeRest` | `KeepRest` | keeps the front as the rest; drops small rests | `NothingTwice`; `ImplementsLedger` |
| `UnlinkForgetful` | `Unlink` (`BlockTree`) | a deep successor leaves its right child | `StructuresSound` |
| `MergesAny` | `Merges` | does not ask whether the buddy is in use | `ImplementsLedger` |
| `EnlistRelying` | `Enlist` | relies on old links being cleared | `LinksSound` |
| `AllocateFromSlab` | `Allocate` | looks at the slab before the unused headers | `HeadersAccounted` |
| `ReturnAndFollow` | `ReturnNext` | reads the link after the return | `ArenasReachTheirs` |
| `RemoveReleasedUncounted` | `RemoveReleasedRegion` | sums forgotten | `SoundUnlessOverlooked` |
| `RestLower` | `Rest` | a region cut in the middle loses its end | `ImplementsMemory` |
| `ShrinkToSize` | `ShrinkBytes` | shrinks below the desired capacity | `PauseLeavesRoom` |
| `ShrinkFactorUnbounded` | `NextShrinkFactor` | past 100 % | `TypeOK` |
| `AllowedToMax`, `AllowedToGC` | `AllowedExpansion` | one limit missing | `ThresholdCoversCommitted`; `CommittedWithinMax` |
| `RaisedUnclamped` | `Raised` | wraps around unnoticed | `ThresholdInRange` |
| `PlainStore`, `WeakCompareExchange` | `CompareExchange` | overwrites a rival; fails for no reason | `ThresholdFallsOnlyInPause`; `FailedRaiseMeansRival` |
| `TryOnce`, `TryForEver` | `AfterFailure` | no retry; retry without hope | `OutOfMemoryNearLimit`; `RequestsEnd` |

## 7. Abstractions

* *Contexts.* The two contexts are two instances; each sees the other as
  `foreign`, and the HWM as a fixed `MaxCommit`. The moving limit is the subject
  of `MetaspaceGC`. A failing `os::commit_memory`, `os::uncommit_memory` or
  reservation ends the VM; the steps after it do not exist. The destructor of a
  list or a context is for gtests.
* A chunk below the granule may be committed without its line having moved,
  because its neighbour was. Only lines are promises, and `CommitLineBacked`
  says they are kept.
* Chunks are named by address in `MetaspaceContext` and `MetaspaceArena`, by
  header in `ChunkHeaders`, which leaves out what is committed.
* The list of nodes is a sequence, and `purge` takes the dead ones out of it. How
  `VirtualSpaceList::purge` relinks its neighbours (`msVirtualSpaceList.cpp`
  156–170) is not modelled, unlike the links of chunks: the properties see only
  which nodes are left, in which order.
* *Arenas.* Free blocks are a set; a request may find any that is large enough, or
  none. The growth policy is a sequence of levels; the tables of
  `msArenaGrowthPolicy.cpp` are data. Words are counted, not zapped.
* *Free blocks.* Sizes are small; the bins reach up to a constant, as in the code.
* *Tracker.* A few words instead of an address space; call stacks and memory
  types are values that can be told apart. Snapshots of thread stacks, which ask
  the operating system, are left out.
* *HWM.* Bytes are unbounded integers, except in `allowed_expansion`, where the
  wrap-around of `size_t` is modelled, and in `inc_capacity_until_GC`, where it
  is clamped. Ratios are computed in whole numbers instead of doubles. That
  `compute_new_size` ignores a lost raise beside running threads (403) is in the
  model, but no property asks for that raise. What unloading frees is any
  number of granules; class space is an address range that may be used up,
  not counted. The HWM during VM start (`MaxMetaspaceSize`) is before
  `Init`. A concurrent collector's two reads are one step.
* G1, Parallel and Serial run the second half of a request inside a VM operation
  (external code); the flow modelled here has more interleavings.

## 8. Not modelled

* Initialization (`metaspace.cpp` 593–770: flags, CDS, placement of the class
  space): once, by one thread, mostly system calls. What it establishes is
  in the assumptions of section 5.
* Statistics, reports, events, the diagnostic command: no decision depends on
  them. The one sum among them that can go wrong is in the run `Waste`.
* Debug aids: allocation guards, zapping, `verify` functions (several of them are
  the properties above).
* gtests and jtreg tests: read for the legal calls.
* The class loader data graph, which decides when an arena dies: outside the
  metaspace, seen here as `Destroy` at any time.
* The old implementation, patches, HTML, examples and talks in the repository.

Of the 494 implementation files, most are not the metaspace: the repository keeps,
for a review, the old and the new version of every file the change touches, in
several revisions (`webrev-all`, `webrev-misc`, `delta.webrev`, …), with whole
collectors and runtime files of which a few lines changed. The modules cover one
revision of the metaspace and the callers that decide something; modelling its
copies again, or collectors that only call `MetaspaceGC`, would say nothing new.

## 9. Plan

Done: the core (`ChunkGeometry`, `MetaspaceContext`, `ChunkLedger`, the loops);
`MetaspaceGC` and its theorems; `MetaspaceArena` composed with the context; free
blocks; headers; the tracker; the proofs of section 5, which are about each of
these.

Left:

* A pool of headers and arenas on one context, composed.
* Two contexts with one limiter, composed: now each sees the other as `foreign`.
