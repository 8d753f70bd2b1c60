---------------------------- MODULE MetaspaceGC ----------------------------
(***************************************************************************)
(* The GC threshold of Metaspace (the high water mark, HWM): threads whose *)
(* allocation failed raise it with a compare-and-swap and try again, a     *)
(* collection lets memory go and resizes it.  Sizes are bytes.             *)
(*                                                                         *)
(* A request runs Metaspace::allocate and, when that fails,                *)
(* satisfy_failed_metadata_allocation: expand_and_allocate, a full         *)
(* collection, allocate, expand_and_allocate, OutOfMemoryError.  What lies *)
(* below allocate is seen as the commit limiter sees it: an allocation     *)
(* commits some granules, or none; it fails when the limiter refuses them, *)
(* or when the class space has no address range left for a chunk.          *)
(***************************************************************************)
EXTENDS Alignment, FiniteSetsExt

CONSTANTS
  Threads,
  Granule,                \* Metaspace::commit_alignment
  MaxUintx,               \* the largest size_t
  MetaspaceSize, MaxMetaspaceSize,
  MinMetaspaceExpansion, MaxMetaspaceExpansion,
  MinMetaspaceFreeRatio, MaxMetaspaceFreeRatio,   \* percent
  Sizes, ClassSizes,      \* what threads ask for, outside and in class space
  WholeChunk,             \* what a new chunk commits under policy none, else 0
  BootCommitted,          \* what VM initialization may have committed
  ConcurrentUnloading     \* the collector unloads outside a safepoint

\* Metaspace::ergo_initialize aligns the sizes; the flag constraints order
\* the ratios.
ASSUME ThresholdAssumption ==
  /\ Granule \in Nat \ {0}
  /\ MaxUintx \in Nat
  /\ MaxMetaspaceSize \in Nat \ {0} /\ IsAligned(MaxMetaspaceSize, Granule)
  /\ MaxMetaspaceSize <= AlignDown(MaxUintx, Granule)
  /\ MetaspaceSize \in 1..MaxMetaspaceSize /\ IsAligned(MetaspaceSize, Granule)
  /\ MinMetaspaceExpansion \in Nat \ {0} /\ IsAligned(MinMetaspaceExpansion, Granule)
  /\ MaxMetaspaceExpansion \in Nat \ {0} /\ IsAligned(MaxMetaspaceExpansion, Granule)
  /\ MinMetaspaceFreeRatio \in 0..99 /\ MaxMetaspaceFreeRatio \in 0..100
  /\ MinMetaspaceFreeRatio <= MaxMetaspaceFreeRatio
  /\ Sizes \subseteq Nat \ {0} /\ ClassSizes \subseteq Nat \ {0}
  /\ WholeChunk \in Nat /\ IsAligned(WholeChunk, Granule)
  /\ BootCommitted \subseteq {b \in 0..MaxMetaspaceSize : IsAligned(b, Granule)}
  /\ ConcurrentUnloading \in BOOLEAN

VARIABLES
  capacity_until_GC,
  committed,       \* CommitLimiter: both metaspace contexts together
  shrink_factor,
  thread,          \* each thread's place in its request, and its locals
  sample           \* a concurrent collector's used_after_gc and capacity

vars == <<capacity_until_GC, committed, shrink_factor, thread, sample>>

-----------------------------------------------------------------------------
AtMost(a, b)  == IF a <= b THEN a ELSE b
AtLeast(a, b) == IF a >= b THEN a ELSE b

Delta(bytes) ==
  LET delta == AlignUp(bytes, Granule) IN
  IF delta <= MinMetaspaceExpansion THEN MinMetaspaceExpansion
  ELSE IF delta <= MaxMetaspaceExpansion THEN MaxMetaspaceExpansion
  ELSE delta + MinMetaspaceExpansion

\* Faulty: the addition wraps around unnoticed.
RaisedUnclamped(capacity, v) == (capacity + v) % (MaxUintx + 1)

\* new_value of inc_capacity_until_GC: at most the largest aligned size.  The
\* default MaxMetaspaceSize is that very size.
Raised(capacity, v) ==
  IF capacity + v > MaxUintx THEN AlignDown(MaxUintx, Granule) ELSE capacity + v

\* min_capacity and max_capacity: so much that `percent` of it is free when
\* `used` is used.
DesiredCapacity(used, percent) ==
  AtLeast(AtMost((used * 100) \div (100 - percent), MaxMetaspaceSize), MetaspaceSize)

MinDesired(used) == DesiredCapacity(used, MinMetaspaceFreeRatio)
MaxDesired(used) == DesiredCapacity(used, MaxMetaspaceFreeRatio)

ExpandBytes(used, cap) == AlignUp(MinDesired(used) - cap, Granule)

MayShrink(used, cap) == MaxMetaspaceFreeRatio < 100 /\ cap > MaxDesired(used)

\* Faulty variants stand before what they vary; a README table lists them.
\* Here the largest desired capacity is forgotten.
ShrinkToSize(used, cap, factor) ==
  IF MayShrink(used, cap)
    THEN AlignDown(((cap - MetaspaceSize) \div 100) * factor, Granule) ELSE 0

ShrinkBytes(used, cap, factor) ==
  IF MayShrink(used, cap)
    THEN AlignDown(((cap - MaxDesired(used)) \div 100) * factor, Granule) ELSE 0

\* compute_new_size: by how much it changes the HWM.
Resize(used, cap, factor) ==
  IF cap < MinDesired(used)
    THEN IF ExpandBytes(used, cap) >= MinMetaspaceExpansion THEN ExpandBytes(used, cap) ELSE 0
    ELSE LET shrink == ShrinkBytes(used, cap, factor) IN
         IF shrink >= MinMetaspaceExpansion /\ cap - shrink >= MetaspaceSize THEN -shrink ELSE 0

\* Faulty: the factor grows past 100 percent.
ShrinkFactorUnbounded(used, cap, factor) ==
  IF cap < MinDesired(used) \/ ~MayShrink(used, cap) THEN 0
  ELSE IF factor = 0 THEN 10 ELSE factor * 4

NextShrinkFactor(used, cap, factor) ==
  IF cap < MinDesired(used) \/ ~MayShrink(used, cap) THEN 0
  ELSE IF factor = 0 THEN 10 ELSE AtMost(factor * 4, 100)

-----------------------------------------------------------------------------
(* Threads.                                                                *)

\* pass: 1 before the collection, 2 after it.  old: old_capacity_until_GC in
\* inc_capacity_until_GC.  incremented: the thread has raised the HWM in this
\* expand_and_allocate.  refused, in a request that ends in OutOfMemoryError:
\* what the commit limiter refused it last; 0 when addresses were missing.
Locals == [pc: {"idle", "allocate", "increment", "cmpxchg", "attempt", "collect", "oom"},
           size: Nat, space: {"class", "data"}, pass: {1, 2}, old: Nat,
           incremented: BOOLEAN, can_retry: BOOLEAN, refused: Nat]

Idle == [pc |-> "idle", size |-> 0, space |-> "data", pass |-> 1, old |-> 0,
         incremented |-> FALSE, can_retry |-> TRUE, refused |-> 0]

\* A new request.
Asking(bytes, space) == [Idle EXCEPT !.pc = "allocate", !.size = bytes, !.space = space]

At(t, place)   == thread[t].pc = place
Return(t)      == thread' = [thread EXCEPT ![t] = Idle]

\* Faulty: one of the two limits is left out.
AllowedToMax == MaxMetaspaceSize - committed
AllowedToGC  ==
  IF capacity_until_GC < committed THEN MaxMetaspaceSize ELSE capacity_until_GC - committed

\* size_t arithmetic: with the HWM below what is committed the difference
\* wraps around, and only the distance to MaxMetaspaceSize limits.
AllowedExpansion ==
  LET untilMax == MaxMetaspaceSize - committed
      untilGC  == capacity_until_GC - committed
  IN  IF untilGC < 0 THEN untilMax ELSE AtMost(untilMax, untilGC)

\* What the commit limiter may be asked for: memory committed earlier serves
\* the request in part or wholly; a new chunk may be committed as a whole.
Needs(t) ==
  {n \in 0..AtLeast(AlignUp(thread[t].size, Granule), WholeChunk) :
     IsAligned(n, Granule) /\ thread[t].size <= committed + n}

Serve(t) ==
  /\ \E need \in Needs(t) : need <= AllowedExpansion /\ committed' = committed + need
  /\ Return(t)

\* The arena's allocate and get_chunk return NULL: the limiter has refused n,
\* or with n = 0 allocate_root_chunk found no addresses, for the list of the
\* class space cannot grow.
Fail(t, place) ==
  /\ \E n \in Needs(t) \cup {0} :
       /\ n > AllowedExpansion \/ (n = 0 /\ thread[t].space = "class")
       /\ thread' = [thread EXCEPT
                        ![t] = [@ EXCEPT !.pc = place,
                                         !.refused = IF place = "oom" THEN n ELSE 0]]
  /\ UNCHANGED committed

Request(t) ==
  /\ At(t, "idle")
  /\ \/ \E bytes \in Sizes : thread' = [thread EXCEPT ![t] = Asking(bytes, "data")]
     \/ \E bytes \in ClassSizes : thread' = [thread EXCEPT ![t] = Asking(bytes, "class")]
  /\ UNCHANGED <<capacity_until_GC, committed, shrink_factor, sample>>

\* allocate, when first asked and again after the collection.
Allocate(t) ==
  /\ At(t, "allocate")
  /\ Serve(t) \/ Fail(t, "increment")
  /\ UNCHANGED <<capacity_until_GC, shrink_factor, sample>>

\* inc_capacity_until_GC up to the check against MaxMetaspaceSize.
ReadThreshold(t) ==
  /\ At(t, "increment")
  /\ LET fits == Raised(capacity_until_GC, Delta(thread[t].size)) <= MaxMetaspaceSize IN
     thread' = [thread EXCEPT ![t].old = capacity_until_GC,
                              ![t].incremented = FALSE,
                              ![t].can_retry = fits,
                              ![t].pc = IF fits THEN "cmpxchg" ELSE "attempt"]
  /\ UNCHANGED <<capacity_until_GC, committed, shrink_factor, sample>>

\* Faulty: a plain store, and a compare-and-swap that fails for no reason.
PlainStore(t) ==
  /\ At(t, "cmpxchg")
  /\ capacity_until_GC' = Raised(thread[t].old, Delta(thread[t].size))
  /\ thread' = [thread EXCEPT ![t].incremented = TRUE, ![t].pc = "attempt"]
  /\ UNCHANGED <<committed, shrink_factor, sample>>

WeakCompareExchange(t) ==
  /\ At(t, "cmpxchg")
  /\ thread' = [thread EXCEPT ![t].incremented = FALSE, ![t].pc = "attempt"]
  /\ UNCHANGED <<capacity_until_GC, committed, shrink_factor, sample>>

CompareExchange(t) ==
  /\ At(t, "cmpxchg")
  /\ LET won == capacity_until_GC = thread[t].old IN
     /\ capacity_until_GC' =
          IF won THEN Raised(thread[t].old, Delta(thread[t].size)) ELSE capacity_until_GC
     /\ thread' = [thread EXCEPT ![t].incremented = won, ![t].pc = "attempt"]
  /\ UNCHANGED <<committed, shrink_factor, sample>>

\* Faulty: tries only once; tries again when the maximum forbids it.
TryOnce(t)  == IF thread[t].pass = 1 THEN "collect" ELSE "oom"
TryForEver(t) ==
  IF ~thread[t].incremented THEN "increment"
  ELSE IF thread[t].pass = 1 THEN "collect" ELSE "oom"

\* Where a thread goes whose allocation in expand_and_allocate fails.
AfterFailure(t) ==
  IF ~thread[t].incremented /\ thread[t].can_retry THEN "increment"
  ELSE IF thread[t].pass = 1 THEN "collect" ELSE "oom"

Attempt(t) ==
  /\ At(t, "attempt")
  /\ Serve(t) \/ Fail(t, AfterFailure(t))
  /\ UNCHANGED <<capacity_until_GC, shrink_factor, sample>>

ThrowOutOfMemory(t) ==
  /\ At(t, "oom")
  /\ Return(t)
  /\ UNCHANGED <<capacity_until_GC, committed, shrink_factor, sample>>

-----------------------------------------------------------------------------
(* Collections.                                                            *)

\* Between its statements a request never polls for a safepoint.
AtSafepoint == \A t \in Threads : thread[t].pc \in {"idle", "collect"}

\* What unloading may leave committed.
Remaining == {c \in 0..committed : IsAligned(c, Granule)}

Resized(c) == capacity_until_GC + Resize(c, capacity_until_GC, shrink_factor)

\* Every collector: unload, purge and compute_new_size in one pause.  One
\* thread drives all collections, so none starts inside a concurrent one.
Collect ==
  /\ AtSafepoint /\ ~sample.taken
  /\ \E c \in Remaining :
       /\ committed' = c
       /\ capacity_until_GC' = Resized(c)
       /\ shrink_factor' = NextShrinkFactor(c, capacity_until_GC, shrink_factor)
  /\ UNCHANGED sample

\* The full collection a request waits for; it tries again afterwards.
CollectFor(t) ==
  /\ At(t, "collect")
  /\ Collect
  /\ thread' = [thread EXCEPT
                   ![t] = [Asking(thread[t].size, thread[t].space) EXCEPT !.pass = 2]]

PeriodicCollect == Collect /\ UNCHANGED thread

NoSample == [used |-> 0, capacity |-> 0, taken |-> FALSE]

\* ZUnload::finish, ShenandoahUnload::finish: compute_new_size while threads
\* run.  First it looks, then it acts on what it saw.
ConcurrentSample ==
  /\ ConcurrentUnloading /\ ~sample.taken
  /\ \E c \in Remaining :
       /\ committed' = c
       /\ sample' = [used |-> c, capacity |-> capacity_until_GC, taken |-> TRUE]
  /\ UNCHANGED <<capacity_until_GC, shrink_factor, thread>>

\* A raise can lose its compare-and-swap or exceed the maximum; a cut is an
\* atomic subtraction.
ConcurrentResize ==
  /\ sample.taken
  /\ LET change == Resize(sample.used, sample.capacity, shrink_factor) IN
     \/ change > 0 /\ UNCHANGED capacity_until_GC
     \/ /\ change > 0
        /\ Raised(capacity_until_GC, change) <= MaxMetaspaceSize
        /\ capacity_until_GC' = Raised(capacity_until_GC, change)
     \/ change <= 0 /\ capacity_until_GC' = capacity_until_GC + change
  /\ shrink_factor' = NextShrinkFactor(sample.used, sample.capacity, shrink_factor)
  /\ sample' = NoSample
  /\ UNCHANGED <<committed, thread>>

-----------------------------------------------------------------------------
\* post_initialize sets the HWM.
Init ==
  /\ committed \in BootCommitted
  /\ capacity_until_GC = AtLeast(committed, MetaspaceSize)
  /\ shrink_factor = 0
  /\ thread = [t \in Threads |-> Idle]
  /\ sample = NoSample

Step(t) == \/ Allocate(t) \/ ReadThreshold(t) \/ CompareExchange(t) \/ Attempt(t)
           \/ ThrowOutOfMemory(t)

Next == \/ \E t \in Threads : Request(t) \/ Step(t) \/ CollectFor(t)
        \/ PeriodicCollect
        \/ ConcurrentSample
        \/ ConcurrentResize

\* A thread in a request runs on.  A collection it waits for is not put off
\* for ever by others: they stop at the safepoint when they next poll.
Fairness == \A t \in Threads : WF_vars(Step(t)) /\ SF_vars(CollectFor(t))

Spec == Init /\ [][Next]_vars /\ Fairness

-----------------------------------------------------------------------------
(* Properties.                                                             *)

\* Every variable keeps its type.
TypeOK ==
  /\ capacity_until_GC \in Nat /\ committed \in Nat
  /\ shrink_factor \in 0..100
  /\ thread \in [Threads -> Locals]
  /\ sample \in [used: Nat, capacity: Nat, taken: BOOLEAN]

\* allowed_expansion asserts it: the HWM never lies below what is committed,
\* whatever threads raised, committed and unloaded in between; otherwise the
\* subtraction wraps around and the threshold stops nobody.
ThresholdCoversCommitted == committed <= capacity_until_GC

\* Whatever the threshold does, what is committed respects MaxMetaspaceSize.
CommittedWithinMax == committed <= MaxMetaspaceSize

\* The HWM stays between MetaspaceSize (asserted by capacity_until_GC) and
\* MaxMetaspaceSize, in whole granules, though raises race with each other and
\* with a compute_new_size that acts on what it read earlier.
ThresholdInRange ==
  /\ capacity_until_GC \in MetaspaceSize..MaxMetaspaceSize
  /\ IsAligned(capacity_until_GC, Granule)

\* expand_and_allocate goes round again only when another thread has raised
\* the HWM since this one read it: a failed try is somebody's progress.
FailedRaiseMeansRival ==
  \A t \in Threads :
    At(t, "attempt") /\ thread[t].can_retry /\ ~thread[t].incremented
      => capacity_until_GC > thread[t].old

\* A request that ends in OutOfMemoryError without having raised the HWM
\* itself ran out of class space, or the commit it was refused last, and the
\* step it needed, exceed MaxMetaspaceSize.
OutOfMemoryNearLimit ==
  \A t \in Threads :
    At(t, "oom") /\ ~thread[t].incremented =>
      IF thread[t].refused = 0 THEN thread[t].space = "class"
      ELSE committed + thread[t].refused + Delta(thread[t].size) > MaxMetaspaceSize

\* Racing raises never take back what a rival was granted: outside a pause the
\* HWM only grows.
ThresholdFallsOnlyInPause ==
  [][capacity_until_GC' < capacity_until_GC => AtSafepoint]_vars

\* compute_new_size: a pause that lowers the HWM leaves the largest desired
\* capacity, and any pause leaves the smallest but for less than a step.
PauseLeavesRoom ==
  [][Collect => /\ capacity_until_GC' + MinMetaspaceExpansion > MinDesired(committed')
                /\ capacity_until_GC' < capacity_until_GC
                     => capacity_until_GC' >= MaxDesired(committed')]_vars

\* The loop of expand_and_allocate ends, and with it every request.
RequestsEnd == \A t \in Threads : ~At(t, "idle") ~> At(t, "idle")

\* The comment at MetaspaceGC: after the collection "the attempt to allocate
\* the metadata should succeed", for else "the HWM is increased".  So a commit
\* would be refused for good only if it exceeded MaxMetaspaceSize.
OutOfMemoryMeansFull ==
  \A t \in Threads :
    At(t, "oom") /\ thread[t].refused > 0 => committed + thread[t].refused > MaxMetaspaceSize
=============================================================================
