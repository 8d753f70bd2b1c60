------------------------ MODULE VirtualMemoryTracker ------------------------
(***************************************************************************)
(* Native memory tracking of virtual memory.  Every reservation, commit,   *)
(* uncommit and release of the VM, those of metaspace among them, is told  *)
(* to the tracker under ThreadCritical.  It keeps a sorted list of the     *)
(* reserved regions, in each a sorted list of the committed regions, and   *)
(* sums of both by memory type, which are counted up and down.             *)
(***************************************************************************)
EXTENDS Integers, Sequences, SequencesExt, FiniteSets, FiniteSetsExt

CONSTANTS
  NumWords,    \* bound: the words that can be reserved
  Stacks,      \* the call stacks that commit
  Flags        \* MEMFLAGS, mtNone among them

TrackerAssumption ==
  /\ NumWords \in Nat \ {0}
  /\ "mtNone" \in Flags
  /\ "no one" \notin Flags          \* how FlagOf says that a word is not reserved

VARIABLES
  regions,     \* _reserved_regions, each with its _committed_regions
  summary,     \* VirtualMemorySummary::_snapshot
  tracking     \* is there a list? It is deleted when tracking is turned down.

tracker == <<regions, summary, tracking>>

Region(from, to, flag, committed) ==
  [base |-> from, end |-> to, flag |-> flag, committed |-> committed]

CommittedRegion(from, to, stack) == [base |-> from, end |-> to, stack |-> stack]

Size(r) == r.end - r.base

CommittedSize(list) == MapThenSumSet(LAMBDA i : Size(list[i]), DOMAIN list)

-----------------------------------------------------------------------------
(* VirtualMemoryRegion                                                     *)

ContainAddress(r, w) == w \in r.base..(r.end - 1)

ContainRegion(r, from, to) == ContainAddress(r, from) /\ ContainAddress(r, to - 1)

SameRegion(r, from, to) == r.base = from /\ r.end = to

OverlapRegion(r, from, to) == ContainAddress(r, from) \/ ContainAddress(r, to - 1)

AdjacentTo(r, from, to) == from = r.end \/ to = r.base

ExpandRegion(r, from, to) ==
  IF r.base = to THEN [r EXCEPT !.base = from] ELSE [r EXCEPT !.end = to]

\* SortedLinkedList::add: before the first region that does not precede r.
SortedAdd(list, r) ==
  LET precedes(s) == ~OverlapRegion(s, r.base, r.end) /\ s.base < r.end
      k == Max({i \in 0..Len(list) : \A j \in 1..i : precedes(list[j])})
  IN  InsertAt(list, k + 1, r)

-----------------------------------------------------------------------------
(* ReservedMemoryRegion, on the list of committed regions                  *)

\* find_preceding_node_from, as a position; 0 if there is none.
Preceding(list, w) == Max({i \in 0..Len(list) : \A j \in 1..i : list[j].end <= w})

\* Faulty: a region cut in the middle loses its higher part.
RestLower(c, from, to) ==
  IF c.end <= from \/ to <= c.base THEN <<c>>
  ELSE IF c.base < from THEN << [c EXCEPT !.end = from] >>
  ELSE IF to < c.end THEN << [c EXCEPT !.base = to] >>
  ELSE <<>>

\* What remove_uncommitted_region leaves of one region: two parts, one, none.
Rest(c, from, to) ==
  IF c.end <= from \/ to <= c.base THEN <<c>>
  ELSE (IF c.base < from THEN << [c EXCEPT !.end = from] >> ELSE <<>>)
         \o (IF to < c.end THEN << [c EXCEPT !.base = to] >> ELSE <<>>)

RemoveUncommitted(list, from, to) ==
  FlattenSeq([i \in DOMAIN list |-> Rest(list[i], from, to)])

Mergeable(list, i, from, to, stack) ==
  /\ i \in DOMAIN list
  /\ AdjacentTo(list[i], from, to)
  /\ list[i].stack = stack

\* A range that overlaps no region of the list is joined with the region
\* before it, the one after it, or both.
Join(list, p, from, to, stack) ==
  IF Mergeable(list, p, from, to, stack)
    THEN LET grown == [list EXCEPT ![p] = ExpandRegion(@, from, to)] IN
         IF /\ p < Len(list)
            /\ Mergeable(grown, p, list[p + 1].base, list[p + 1].end, list[p + 1].stack)
           THEN RemoveAt([grown EXCEPT ![p] = ExpandRegion(@, list[p + 1].base, list[p + 1].end)],
                         p + 1)
           ELSE grown
  ELSE IF Mergeable(list, p + 1, from, to, stack)
    THEN [list EXCEPT ![p + 1] = ExpandRegion(@, from, to)]
  ELSE SortedAdd(list, CommittedRegion(from, to, stack))

\* add_committed_region, with what it records in the summary.
AddCommitted(list, from, to, stack) ==
  LET p       == Preceding(list, from)
      hasNext == p < Len(list)
      cleared == IF hasNext /\ OverlapRegion(list[p + 1], from, to)
                   THEN RemoveUncommitted(list, from, to)
                   ELSE list
  IN  IF hasNext /\ list[p + 1] = CommittedRegion(from, to, stack)
        THEN [list |-> list, recorded |-> 0]
        ELSE [list     |-> Join(cleared, Preceding(cleared, from), from, to, stack),
              recorded |-> CommittedSize(cleared) - CommittedSize(list) + (to - from)]

\* move_committed_regions: the regions from w upwards go to the new region, a
\* list of its own.  If one stays behind, it is linked to the second of them;
\* what happens to nodes that are in two lists from then on is not followed.
MovedUp(list, w) ==
  LET k == Max({i \in 0..Len(list) : \A j \in 1..i : list[j].base < w}) IN
  [low  |-> IF k = 0 \/ k = Len(list) THEN SubSeq(list, 1, k)
            ELSE SubSeq(list, 1, k) \o SubSeq(list, k + 2, Len(list)),
   high |-> SubSeq(list, k + 1, Len(list))]

-----------------------------------------------------------------------------
(* VirtualMemoryTracker                                                    *)

\* SortedLinkedList::find
Find(from, to) == SelectInSeq(regions, LAMBDA r : OverlapRegion(r, from, to))

AddReserved(from, to, flag) ==
  /\ regions' = SortedAdd(regions, Region(from, to, flag, <<>>))
  /\ summary' = [summary EXCEPT !.reserved[flag] = @ + (to - from)]

\* set_flag
Retag(i, flag) ==
  LET r == regions[i] IN
  /\ r.flag \in {"mtNone", flag}
  /\ regions' = [regions EXCEPT ![i].flag = flag]
  /\ summary' =
       LET move(f, size) == [g \in Flags |-> f[g] + (IF g = flag THEN size ELSE 0)
                                                  - (IF g = r.flag THEN size ELSE 0)]
       IN  [reserved  |-> move(summary.reserved, Size(r)),
            committed |-> move(summary.committed, CommittedSize(r.committed))]

\* The stack of a thread that is gone is overwritten; operator= keeps the
\* committed regions that were in it.
Overwrite(i, from, to, flag) ==
  LET r == regions[i] IN
  /\ regions' = [regions EXCEPT ![i] = Region(from, to, flag, @.committed)]
  /\ summary' = [reserved  |-> [[summary.reserved EXCEPT ![r.flag] = @ - Size(r)]
                                  EXCEPT ![flag] = @ + (to - from)],
                 committed |-> [summary.committed EXCEPT ![r.flag] = @ - CommittedSize(r.committed)]]

Overlapping(from, to) == {r \in ToSet(regions) : r.base < to /\ from < r.end}

\* Memory is reserved where none is; once more when its type is known; or where
\* threads that are gone had their stacks.  Of those stacks only the one found
\* is overwritten, and one with words on both sides of it is never found.  A
\* reservation inside the heap or the archive of shared classes changes nothing.
AddReservedRegion(from, to, flag) ==
  LET i == Find(from, to)
      lost == \A r \in Overlapping(from, to) : r.flag = "mtThreadStack"
  IN  \/ i = 0 /\ lost /\ AddReserved(from, to, flag)
      \/ i # 0 /\ SameRegion(regions[i], from, to) /\ Retag(i, flag)
      \/ i # 0 /\ ~SameRegion(regions[i], from, to) /\ lost /\ Overwrite(i, from, to, flag)

SetReservedRegionType(w, flag) ==
  LET i == Find(w, w + 1) IN
  /\ i # 0 /\ regions[i].flag = "mtNone" /\ flag # "mtNone"
  /\ Retag(i, flag)

Inside(from, to) == Find(from, to) # 0 /\ ContainRegion(regions[Find(from, to)], from, to)

AddCommittedRegion(from, to, stack) ==
  LET i     == Find(from, to)
      added == AddCommitted(regions[i].committed, from, to, stack)
  IN  /\ Inside(from, to)
      /\ regions' = [regions EXCEPT ![i].committed = added.list]
      /\ summary' = [summary EXCEPT !.committed[regions[i].flag] = @ + added.recorded]

Uncommitted(i, from, to) == RemoveUncommitted(regions[i].committed, from, to)

\* What the summary says once the range is uncommitted in region i.
SummaryWithout(i, from, to) ==
  [summary EXCEPT !.committed[regions[i].flag] =
     @ - CommittedSize(regions[i].committed) + CommittedSize(Uncommitted(i, from, to))]

RemoveUncommittedRegion(from, to) ==
  LET i == Find(from, to) IN
  /\ Inside(from, to)
  /\ regions' = [regions EXCEPT ![i].committed = Uncommitted(i, from, to)]
  /\ summary' = SummaryWithout(i, from, to)

\* What is left of region i: nothing, its upper end, its lower end, or both,
\* the upper one as a region of its own.
Shrunk(i, from, to) ==
  LET r     == [regions[i] EXCEPT !.committed = Uncommitted(i, from, to)]
      moved == MovedUp(r.committed, from)
  IN  IF SameRegion(r, from, to) THEN RemoveAt(regions, i)
      ELSE IF r.base = from THEN [regions EXCEPT ![i] = [r EXCEPT !.base = to]]
      ELSE IF r.end = to    THEN [regions EXCEPT ![i] = [r EXCEPT !.end = from]]
      ELSE SortedAdd([regions EXCEPT ![i] = Region(r.base, from, r.flag, moved.low)],
                     Region(to, r.end, r.flag, moved.high))

\* Faulty: what is committed in the range is forgotten, not uncounted.
RemoveReleasedUncounted(from, to) ==
  LET i == Find(from, to) IN
  /\ Inside(from, to)
  /\ regions' = Shrunk(i, from, to)
  /\ summary' = [summary EXCEPT !.reserved[regions[i].flag] = @ - (to - from)]

\* A part of the CDS archive is not released before all of it is.
RemoveReleasedRegion(from, to) ==
  LET i == Find(from, to)
      r == regions[i]
  IN  /\ Inside(from, to)
      /\ IF r.flag = "mtClassShared" /\ ~SameRegion(r, from, to)
           THEN RemoveUncommittedRegion(from, to)
           ELSE /\ regions' = Shrunk(i, from, to)
                /\ summary' = [SummaryWithout(i, from, to)
                                 EXCEPT !.reserved[r.flag] = @ - (to - from)]

\* The region is released and reserved again in two parts.
SplitReservedRegion(i, w) ==
  LET r == regions[i] IN
  /\ r.committed = <<>>
  /\ w \in (r.base + 1)..(r.end - 1)
  /\ regions' = SortedAdd(SortedAdd(RemoveAt(regions, i), Region(r.base, w, r.flag, <<>>)),
                          Region(w, r.end, r.flag, <<>>))
  /\ UNCHANGED summary

\* transition to minimal tracking: the list is deleted, once and for all.
Transition ==
  /\ regions' = <<>>
  /\ tracking' = FALSE
  /\ UNCHANGED summary

-----------------------------------------------------------------------------
(* What the lists are to be, and the calls after which they are not.       *)

\* The sums by type are those over the lists, and cover what is reserved.
SummaryExact ==
  \A flag \in Flags :
    LET tagged == {i \in DOMAIN regions : regions[i].flag = flag} IN
    /\ summary.reserved[flag]  = MapThenSumSet(LAMBDA i : Size(regions[i]), tagged)
    /\ summary.committed[flag] = MapThenSumSet(LAMBDA i : CommittedSize(regions[i].committed), tagged)
    /\ summary.committed[flag] \in 0..summary.reserved[flag]

\* No two regions of a list overlap, each begins behind those before it, and
\* all committed regions are inside their reserved region.  Regions that touch
\* were committed from different places, else they would be one.  The sums,
\* counted up and down by the calls, are exact.
RegionsSound ==
  LET sorted(list) == /\ \A i \in DOMAIN list : list[i].base < list[i].end
                      /\ \A i, j \in DOMAIN list : i < j => list[i].end <= list[j].base
  IN  /\ sorted(regions)
      /\ \A i \in DOMAIN regions :
           LET list == regions[i].committed IN
           /\ sorted(list)
           /\ \A j \in DOMAIN list : ContainRegion(regions[i], list[j].base, list[j].end)
           /\ \A j \in 2..Len(list) :
                list[j - 1].end = list[j].base => list[j - 1].stack # list[j].stack
      /\ SummaryExact

\* A lost stack stays beside the new region, or what was committed in it does.
LostStack(from, to) ==
  LET i == Find(from, to) IN
  \E r \in Overlapping(from, to) :
    /\ ~SameRegion(r, from, to)
    /\ r.committed # <<>> \/ i = 0 \/ r # regions[i]

\* Of the first committed region that does not end before the range, only its
\* two ends are compared with the range: it is not seen when they are inside.
Unseen(from, to) ==
  LET list == regions[Find(from, to)].committed
      next == Preceding(list, from) + 1
  IN  next \in DOMAIN list /\ from < list[next].base /\ list[next].end < to

\* A committed region ends up in both parts of the region that is cut.
TwiceLinked(from, to) ==
  LET i     == Find(from, to)
      list  == Uncommitted(i, from, to)
      moved == MovedUp(list, from)
  IN  /\ regions[i].flag # "mtClassShared"
      /\ regions[i].base < from /\ to < regions[i].end
      /\ Len(moved.low) + Len(moved.high) > Len(list)

-----------------------------------------------------------------------------
TrackerInit ==
  /\ regions = <<>>
  /\ summary = [reserved |-> [f \in Flags |-> 0], committed |-> [f \in Flags |-> 0]]
  /\ tracking = TRUE

\* What calls do to lists that are not sound any more, some with nodes that are
\* in two of them, is not followed: the model ends there.
TrackerNext ==
  \/ /\ tracking /\ RegionsSound /\ UNCHANGED tracking
     /\ \/ \E from \in 0..(NumWords - 1), to \in 1..NumWords :
             /\ from < to
             /\ \/ \E flag \in Flags : AddReservedRegion(from, to, flag)
                \/ \E stack \in Stacks : AddCommittedRegion(from, to, stack)
                \/ RemoveUncommittedRegion(from, to)
                \/ RemoveReleasedRegion(from, to)
        \/ \E w \in 0..(NumWords - 1), flag \in Flags : SetReservedRegionType(w, flag)
        \/ \E i \in DOMAIN regions, w \in 0..NumWords : SplitReservedRegion(i, w)
  \/ Transition

TrackerSpec == TrackerInit /\ [][TrackerNext]_tracker

-----------------------------------------------------------------------------
(* Properties.                                                             *)

Places == 0..(NumWords - 1)

FlagOf(w) ==
  LET here == {r \in ToSet(regions) : ContainAddress(r, w)} IN
  IF here = {} THEN "no one" ELSE (CHOOSE r \in here : TRUE).flag

StackOf(w) ==
  LET here == {c \in UNION {ToSet(r.committed) : r \in ToSet(regions)} : ContainAddress(c, w)}
  IN  IF here = {} THEN "no one" ELSE (CHOOSE c \in here : TRUE).stack

Memory == INSTANCE TrackedMemory WITH
            NoOne   <- "no one",
            Kept    <- "mtClassShared",
            Stack   <- "mtThreadStack",
            flagOf  <- [w \in Places |-> FlagOf(w)],
            stackOf <- [w \in Places |-> StackOf(w)]

\* Which calls break the lists: every call keeps them sound, sorted, joined
\* and counted exactly, but for those that meet what the tracker does not look
\* at, and each of those leaves them unsound.
SoundUnlessOverlooked ==
  [][\/ Transition
     \/ \E from \in Places, to \in 1..NumWords :
          /\ from < to
          /\ \/ /\ \E flag \in Flags : AddReservedRegion(from, to, flag)
                /\ RegionsSound' <=> ~LostStack(from, to)
             \/ /\ \E stack \in Stacks : AddCommittedRegion(from, to, stack)
                /\ RegionsSound' <=> ~Unseen(from, to)
             \/ /\ RemoveReleasedRegion(from, to)
                /\ RegionsSound' <=> ~TwiceLinked(from, to)
             \/ /\ \/ RemoveUncommittedRegion(from, to)
                   \/ \E flag \in Flags : SetReservedRegionType(from, flag)
                   \/ \E i \in DOMAIN regions : SplitReservedRegion(i, to)
                /\ RegionsSound']_tracker

\* For each word the tracker knows whom it is reserved for and where it was
\* committed last, whatever was cut and joined: each call changes just the
\* words it is about, unless it meets what the tracker does not look at.
ImplementsMemory ==
  [][\/ Transition
     \/ \E from \in Places, to \in 1..NumWords :
          /\ from < to
          /\ \/ \E flag \in Flags :
                  /\ AddReservedRegion(from, to, flag)
                  /\ \/ LostStack(from, to)
                     \/ Memory!Reserve(from, to, flag)
                     \/ Memory!Replace(from, to, flag)
             \/ \E stack \in Stacks :
                  /\ AddCommittedRegion(from, to, stack)
                  /\ Unseen(from, to) \/ Memory!CommitRange(from, to, stack)
             \/ /\ RemoveReleasedRegion(from, to)
                /\ TwiceLinked(from, to) \/ Memory!Release(from, to)
             \/ RemoveUncommittedRegion(from, to) /\ Memory!UncommitRange(from, to)
             \/ \E flag \in Flags : SetReservedRegionType(from, flag) /\ Memory!Retag(from, flag)
             \/ \E i \in DOMAIN regions : SplitReservedRegion(i, to) /\ Memory!Split]_tracker
=============================================================================
