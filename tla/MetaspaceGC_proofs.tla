------------------------- MODULE MetaspaceGC_proofs -------------------------
(***************************************************************************)
(* Theorems about the GC threshold, for any number of threads and any      *)
(* sizes.  What compute_new_size guarantees in a pause is worked out in    *)
(* lemmas about its arithmetic; the threads are then an inductive          *)
(* invariant over the places of the loop in expand_and_allocate.           *)
(***************************************************************************)
EXTENDS MetaspaceGC, BasicLemmas

-----------------------------------------------------------------------------
(* Arithmetic.                                                             *)

\* The threshold moves in whole granules, by something.
LEMMA DeltaIsAligned ==
  ASSUME NEW bytes \in Nat
  PROVE  Delta(bytes) \in Nat \ {0} /\ IsAligned(Delta(bytes), Granule)
<1>1. /\ AlignUp(bytes, Granule) \in Nat
      /\ IsAligned(AlignUp(bytes, Granule), Granule)
  BY AlignUpBounds, ThresholdAssumption
<1>2. /\ AlignUp(bytes, Granule) + MinMetaspaceExpansion \in Nat
      /\ IsAligned(AlignUp(bytes, Granule) + MinMetaspaceExpansion, Granule)
  <2> DEFINE up == AlignUp(bytes, Granule)
  <2>1. up \in Nat /\ IsAligned(up, Granule)
    BY <1>1
  <2>2. /\ MinMetaspaceExpansion \in Nat /\ IsAligned(MinMetaspaceExpansion, Granule)
        /\ Granule \in Nat \ {0}
    BY ThresholdAssumption
  <2> HIDE DEF up
  <2>3. up + MinMetaspaceExpansion \in Nat /\ IsAligned(up + MinMetaspaceExpansion, Granule)
    BY <2>1, <2>2, AlignedSum
  <2> QED
    BY <2>3 DEF up
<1> QED
  BY <1>1, <1>2, ThresholdAssumption DEF Delta

\* A raise goes up, in whole granules, by no more than was asked; the clamp
\* hides nothing that lies beyond MaxMetaspaceSize.
LEMMA RaisedBounds ==
  ASSUME NEW cap \in 0..MaxMetaspaceSize, IsAligned(cap, Granule),
         NEW v \in Nat, IsAligned(v, Granule)
  PROVE  /\ Raised(cap, v) \in Nat /\ IsAligned(Raised(cap, v), Granule)
         /\ cap <= Raised(cap, v) /\ Raised(cap, v) <= cap + v
<1>1. /\ Granule \in Nat \ {0} /\ MaxUintx \in Nat /\ MaxMetaspaceSize \in Nat
      /\ MaxMetaspaceSize <= AlignDown(MaxUintx, Granule)
  BY ThresholdAssumption
<1>2. /\ AlignDown(MaxUintx, Granule) \in Nat /\ AlignDown(MaxUintx, Granule) <= MaxUintx
      /\ IsAligned(AlignDown(MaxUintx, Granule), Granule)
  BY <1>1, AlignDownBounds
<1>3. cap \in Nat /\ cap <= MaxMetaspaceSize /\ cap + v \in Nat
  BY <1>1
<1>4. IsAligned(cap + v, Granule)
  BY <1>1, <1>3, AlignedSum
<1>5. CASE cap + v > MaxUintx
  <2>1. Raised(cap, v) = AlignDown(MaxUintx, Granule)
    BY <1>5 DEF Raised
  <2> QED
    BY <1>1, <1>2, <1>3, <1>5, <2>1
<1>6. CASE cap + v <= MaxUintx
  <2>1. Raised(cap, v) = cap + v
    BY <1>1, <1>3, <1>6 DEF Raised
  <2> QED
    BY <1>3, <1>4, <2>1
<1> QED
  BY <1>1, <1>3, <1>5, <1>6

\* A desired capacity covers what is used.
LEMMA DesiredCapacityBounds ==
  ASSUME NEW used \in 0..MaxMetaspaceSize, NEW percent \in 0..99
  PROVE  DesiredCapacity(used, percent) \in AtLeast(used, MetaspaceSize)..MaxMetaspaceSize
<1> DEFINE d == 100 - percent
           q == (used * 100) \div d
<1>1. used \in Nat /\ d \in 1..100
  BY ThresholdAssumption
<1>2. q \in Nat /\ used * 100 < q * d + d
  <2>1. used * 100 \in Nat /\ d \in Nat \ {0}
    BY <1>1
  <2> QED
    BY <2>1, DivisionBounds
<1>3. DesiredCapacity(used, percent) = AtLeast(AtMost(q, MaxMetaspaceSize), MetaspaceSize)
  BY DEF DesiredCapacity
<1> HIDE DEF d, q
<1>4. used <= q
  <2>1. CASE used <= q
    BY <2>1
  <2>2. CASE q + 1 <= used
    <3>1. (q + 1) * d <= used * d
      BY <1>1, <1>2, <2>2
    <3>2. used * d <= used * 100
      BY <1>1
    <3>3. (q + 1) * d = q * d + d
      BY <1>1, <1>2
    <3> QED
      BY <1>1, <1>2, <3>1, <3>2, <3>3
  <2> QED
    BY <1>1, <1>2, <2>1, <2>2
<1> QED
  BY <1>1, <1>2, <1>3, <1>4, ThresholdAssumption DEF AtLeast, AtMost

\* What a shrink takes is at most the distance to the largest desired
\* capacity.
LEMMA ShrinkBounds ==
  ASSUME NEW used \in 0..MaxMetaspaceSize, NEW cap \in Nat, NEW factor \in 0..100,
         MayShrink(used, cap)
  PROVE  /\ ShrinkBytes(used, cap, factor) \in Nat
         /\ IsAligned(ShrinkBytes(used, cap, factor), Granule)
         /\ ShrinkBytes(used, cap, factor) <= cap - MaxDesired(used)
<1> DEFINE room == cap - MaxDesired(used)
           q    == room \div 100
<1>1. room \in Nat
  <2>1. MaxMetaspaceFreeRatio \in 0..99 /\ cap > MaxDesired(used)
    BY ThresholdAssumption DEF MayShrink
  <2>2. MaxDesired(used) \in AtLeast(used, MetaspaceSize)..MaxMetaspaceSize
    BY <2>1, DesiredCapacityBounds DEF MaxDesired
  <2>3. MaxDesired(used) \in Nat
    BY <2>2, ThresholdAssumption DEF AtLeast
  <2> QED
    BY <2>1, <2>3
<1>2. q \in Nat /\ q * 100 <= room
  BY <1>1, DivisionBounds
<1>3. ShrinkBytes(used, cap, factor) = AlignDown(q * factor, Granule)
  BY DEF ShrinkBytes
<1> HIDE DEF q, room
<1>4. q * factor \in Nat
  BY <1>2
<1>5. q * factor <= q * 100
  BY <1>2
<1>6. /\ AlignDown(q * factor, Granule) \in Nat
      /\ AlignDown(q * factor, Granule) <= q * factor
      /\ IsAligned(AlignDown(q * factor, Granule), Granule)
  BY <1>4, AlignDownBounds, ThresholdAssumption
<1>7. AlignDown(q * factor, Granule) <= room
  BY <1>1, <1>2, <1>4, <1>5, <1>6
<1> QED
  BY <1>3, <1>6, <1>7 DEF room

\* compute_new_size moves the threshold by whole granules, keeps it between
\* the two sizes, and above what is used if it was.
LEMMA ResizeIsSafe ==
  ASSUME NEW used \in 0..MaxMetaspaceSize, NEW cap \in MetaspaceSize..MaxMetaspaceSize,
         IsAligned(cap, Granule), NEW factor \in 0..100
  PROVE  /\ Resize(used, cap, factor) \in Int
         /\ cap + Resize(used, cap, factor) \in MetaspaceSize..MaxMetaspaceSize
         /\ IF Resize(used, cap, factor) < 0 THEN IsAligned(-Resize(used, cap, factor), Granule)
                                             ELSE IsAligned(Resize(used, cap, factor), Granule)
         /\ used <= cap => used <= cap + Resize(used, cap, factor)
<1> DEFINE min    == MinDesired(used)
           expand == ExpandBytes(used, cap)
           shrink == ShrinkBytes(used, cap, factor)
<1>1. /\ used \in Nat /\ cap \in Nat
      /\ min \in AtLeast(used, MetaspaceSize)..MaxMetaspaceSize
  BY DesiredCapacityBounds, ThresholdAssumption DEF MinDesired
<1>2. CASE cap < min /\ expand >= MinMetaspaceExpansion
  <2>1. min - cap \in Nat /\ MaxMetaspaceSize - cap \in Nat /\ min - cap <= MaxMetaspaceSize - cap
    BY <1>1, <1>2, ThresholdAssumption DEF AtLeast
  <2>2. IsAligned(MaxMetaspaceSize - cap, Granule)
    BY <1>1, AlignedDifference, ThresholdAssumption
  <2>3. /\ expand \in Nat /\ IsAligned(expand, Granule)
        /\ expand <= MaxMetaspaceSize - cap
    BY <2>1, <2>2, AlignUpBounds, AlignUpBelow, ThresholdAssumption DEF ExpandBytes
  <2>4. Resize(used, cap, factor) = expand
    BY <1>2 DEF Resize
  <2> HIDE DEF min, expand, shrink
  <2> QED
    BY <1>1, <2>3, <2>4, ThresholdAssumption
<1>3. CASE ~(cap < min) /\ shrink >= MinMetaspaceExpansion /\ cap - shrink >= MetaspaceSize
  <2>1. MayShrink(used, cap)
    BY <1>3, ThresholdAssumption DEF ShrinkBytes
  <2>2. MaxDesired(used) \in AtLeast(used, MetaspaceSize)..MaxMetaspaceSize
    BY <1>1, <2>1, DesiredCapacityBounds, ThresholdAssumption DEF MayShrink, MaxDesired
  <2>3. /\ shrink \in Nat /\ IsAligned(shrink, Granule)
        /\ shrink <= cap - MaxDesired(used)
    BY <1>1, <2>1, ShrinkBounds
  <2>4. used <= MaxDesired(used) /\ MaxDesired(used) \in Nat
    BY <1>1, <2>2, ThresholdAssumption DEF AtLeast
  <2>5. Resize(used, cap, factor) = -shrink
    BY <1>3 DEF Resize
  <2> HIDE DEF min, expand, shrink
  <2>6. shrink <= cap /\ used <= cap - shrink
    BY <1>1, <2>3, <2>4
  <2>7. cap + (-shrink) = cap - shrink /\ -(-shrink) = shrink /\ (-shrink < 0 \/ -shrink = shrink)
    BY <1>1, <2>3
  <2>8. shrink >= MinMetaspaceExpansion /\ cap - shrink >= MetaspaceSize
    BY <1>3
  <2> QED
    BY <1>1, <2>8, <2>3, <2>5, <2>6, <2>7, ThresholdAssumption
<1>4. CASE Resize(used, cap, factor) = 0
  <2>1. IsAligned(0, Granule)
    BY MultipleIsAligned, ThresholdAssumption
  <2> QED
    BY <1>1, <1>4, <2>1, ThresholdAssumption
<1> QED
  BY <1>2, <1>3, <1>4 DEF Resize

\* Adding a resize to a whole number of granules gives one.
LEMMA MovedThreshold ==
  ASSUME NEW cap \in Nat, IsAligned(cap, Granule), NEW change \in Int, cap + change >= 0,
         IF change < 0 THEN IsAligned(-change, Granule) ELSE IsAligned(change, Granule)
  PROVE  IsAligned(cap + change, Granule)
<1>1. CASE change < 0
  <2>1. -change \in Nat /\ -change <= cap /\ cap - (-change) = cap + change
    BY <1>1
  <2>2. IsAligned(cap - (-change), Granule)
    BY <1>1, <2>1, AlignedDifference, ThresholdAssumption
  <2> QED
    BY <2>1, <2>2
<1>2. CASE change >= 0
  <2>1. change \in Nat
    BY <1>2
  <2> QED
    BY <1>2, <2>1, AlignedSum, ThresholdAssumption
<1> QED
  BY <1>1, <1>2

\* A larger share that is to be free needs a larger capacity.
LEMMA DesiredCapacityGrows ==
  ASSUME NEW used \in 0..MaxMetaspaceSize, NEW p \in 0..99, NEW q \in 0..99, p <= q
  PROVE  DesiredCapacity(used, p) <= DesiredCapacity(used, q)
<1> DEFINE a == used * 100
           dp == 100 - p
           dq == 100 - q
           cp == a \div dp
           cq == a \div dq
<1>1. a \in Nat /\ dp \in Nat \ {0} /\ dq \in Nat \ {0} /\ dq <= dp
  BY ThresholdAssumption
<1>2. /\ cp \in Nat /\ cp * dp <= a
      /\ cq \in Nat /\ a < cq * dq + dq
  BY <1>1, DivisionBounds
<1>3. DesiredCapacity(used, p) = AtLeast(AtMost(cp, MaxMetaspaceSize), MetaspaceSize)
  BY DEF DesiredCapacity
<1>4. DesiredCapacity(used, q) = AtLeast(AtMost(cq, MaxMetaspaceSize), MetaspaceSize)
  BY DEF DesiredCapacity
<1> HIDE DEF a, dp, dq, cp, cq
<1>5. cp <= cq
  <2>1. CASE cp <= cq
    BY <2>1
  <2>2. CASE cq + 1 <= cp
    <3>1. (cq + 1) * dq <= cp * dq
      BY <1>1, <1>2, <2>2
    <3>2. cp * dq <= cp * dp
      BY <1>1, <1>2
    <3>3. (cq + 1) * dq = cq * dq + dq
      BY <1>1, <1>2
    <3> QED
      BY <1>1, <1>2, <3>1, <3>2, <3>3
  <2> QED
    BY <1>2, <2>1, <2>2
<1> QED
  BY <1>2, <1>3, <1>4, <1>5, ThresholdAssumption DEF AtLeast, AtMost

\* compute_new_size comes within a step of the smallest desired capacity from
\* below, and stays above the largest when it lowers the threshold.
LEMMA ResizeLeavesRoom ==
  ASSUME NEW used \in 0..MaxMetaspaceSize, NEW cap \in MetaspaceSize..MaxMetaspaceSize,
         NEW factor \in 0..100
  PROVE  /\ cap + Resize(used, cap, factor) + MinMetaspaceExpansion > MinDesired(used)
         /\ Resize(used, cap, factor) < 0
              => cap + Resize(used, cap, factor) >= MaxDesired(used)
<1> DEFINE min    == MinDesired(used)
           expand == ExpandBytes(used, cap)
           shrink == ShrinkBytes(used, cap, factor)
<1>1. /\ cap \in Nat /\ min \in Nat
      /\ MinMetaspaceExpansion \in Nat /\ MinMetaspaceExpansion > 0
  <2>1. min \in AtLeast(used, MetaspaceSize)..MaxMetaspaceSize
    BY DesiredCapacityBounds, ThresholdAssumption DEF MinDesired
  <2> QED
    BY <2>1, ThresholdAssumption DEF AtLeast
<1>2. CASE cap < min
  <2>1. min - cap \in Nat
    BY <1>1, <1>2
  <2>2. expand \in Nat /\ expand >= min - cap
    BY <2>1, AlignUpBounds, ThresholdAssumption DEF ExpandBytes
  <2>3. Resize(used, cap, factor) = IF expand >= MinMetaspaceExpansion THEN expand ELSE 0
    BY <1>2 DEF Resize
  <2> HIDE DEF min, expand
  <2> QED
    BY <1>1, <2>2, <2>3 DEF min
<1>3. CASE ~(cap < min)
  <2>1. Resize(used, cap, factor) =
          IF shrink >= MinMetaspaceExpansion /\ cap - shrink >= MetaspaceSize THEN -shrink ELSE 0
    BY <1>3 DEF Resize
  <2>2. CASE Resize(used, cap, factor) = 0
    BY <1>1, <1>3, <2>2
  <2>3. CASE Resize(used, cap, factor) = -shrink /\ shrink >= MinMetaspaceExpansion
    <3>1. MayShrink(used, cap)
      BY <1>1, <2>3 DEF ShrinkBytes
    <3>2. MaxMetaspaceFreeRatio \in 0..99
      BY <3>1, ThresholdAssumption DEF MayShrink
    <3>3. shrink \in Nat /\ shrink <= cap - MaxDesired(used)
      BY <1>1, <3>1, ShrinkBounds
    <3>4. min <= MaxDesired(used) /\ MaxDesired(used) \in Nat
      <4>1. min <= MaxDesired(used)
        BY <3>2, DesiredCapacityGrows, ThresholdAssumption DEF MinDesired, MaxDesired
      <4>2. MaxDesired(used) \in AtLeast(used, MetaspaceSize)..MaxMetaspaceSize
        BY <3>2, DesiredCapacityBounds DEF MaxDesired
      <4> QED
        BY <4>1, <4>2, ThresholdAssumption DEF AtLeast
    <3> HIDE DEF min, shrink
    <3> QED
      BY <1>1, <2>3, <3>3, <3>4 DEF min
  <2> QED
    BY <2>1, <2>2, <2>3
<1> QED
  BY <1>2, <1>3

-----------------------------------------------------------------------------
(* The inductive invariant.                                                *)

\* What a thread may rely on between reading the HWM and acting on it.
Place(t) ==
  /\ At(t, "cmpxchg") =>
       /\ thread[t].old <= capacity_until_GC
       /\ thread[t].can_retry
  /\ At(t, "attempt") /\ ~thread[t].incremented =>
       IF thread[t].can_retry THEN capacity_until_GC > thread[t].old
       ELSE capacity_until_GC + Delta(thread[t].size) > MaxMetaspaceSize
  /\ At(t, "oom") /\ ~thread[t].incremented =>
       IF thread[t].refused = 0 THEN thread[t].space = "class"
       ELSE committed + thread[t].refused + Delta(thread[t].size) > MaxMetaspaceSize

\* Holds also while a collector unloads concurrently.
RaiseFits(t) ==
  At(t, "cmpxchg") => Raised(thread[t].old, Delta(thread[t].size)) <= MaxMetaspaceSize

SampleIsSafe ==
  sample.taken =>
    /\ ConcurrentUnloading
    /\ sample.used <= MaxMetaspaceSize
    /\ sample.capacity \in MetaspaceSize..capacity_until_GC
    /\ IsAligned(sample.capacity, Granule)

IInv ==
  /\ TypeOK
  /\ CommittedWithinMax
  /\ ThresholdInRange
  /\ SampleIsSafe
  /\ \A t \in Threads : RaiseFits(t)

\* Without concurrent unloading.
PauseInv ==
  /\ ThresholdCoversCommitted
  /\ \A t \in Threads : Place(t)

\* A thread's locals, and the step it would take.
LEMMA LocalsOf ==
  ASSUME TypeOK, NEW t \in Threads
  PROVE  thread[t] \in Locals /\ Delta(thread[t].size) \in Nat \ {0}
BY DeltaIsAligned DEF TypeOK, Locals

\* What the limiter is asked for is a number.
LEMMA NeedIsNat ==
  ASSUME TypeOK, NEW t \in Threads, NEW need \in Needs(t)
  PROVE  need \in Nat
<1>1. AlignUp(thread[t].size, Granule) \in Nat /\ WholeChunk \in Nat
  BY AlignUpBounds, ThresholdAssumption DEF TypeOK, Locals
<1> QED
  BY <1>1 DEF Needs, AtLeast

\* Steps of others that only raise the HWM and the committed words leave a
\* thread's knowledge valid.
LEMMA PlaceIsKept ==
  ASSUME TypeOK, NEW t \in Threads, thread'[t] = thread[t],
         capacity_until_GC' \in Nat, committed' \in Nat,
         capacity_until_GC' >= capacity_until_GC, committed' >= committed, Place(t)
  PROVE  Place(t)'
<1> DEFINE delta == Delta(thread[t].size)
           l     == thread[t]
<1>1. /\ delta \in Nat
      /\ capacity_until_GC \in Nat /\ committed \in Nat
      /\ l.old \in Nat /\ l.incremented \in BOOLEAN /\ l.can_retry \in BOOLEAN
      /\ l.refused \in Nat /\ MaxMetaspaceSize \in Nat
  BY LocalsOf, ThresholdAssumption DEF TypeOK, Locals
<1>2. CASE l.pc = "cmpxchg"
  BY <1>1, <1>2 DEF Place, At
<1>3. CASE l.pc = "attempt"
  BY <1>1, <1>3 DEF Place, At
<1>4. CASE l.pc = "oom"
  BY <1>1, <1>4 DEF Place, At
<1> QED
  BY <1>2, <1>3, <1>4 DEF Place, At

\* A served request stays below the threshold and the maximum.
LEMMA ServeIsSafe ==
  ASSUME TypeOK, CommittedWithinMax, NEW need \in Nat, need <= AllowedExpansion
  PROVE  /\ committed + need \in 0..MaxMetaspaceSize
         /\ ThresholdCoversCommitted => committed + need <= capacity_until_GC
BY ThresholdAssumption
DEF AllowedExpansion, AtMost, TypeOK, CommittedWithinMax, ThresholdCoversCommitted

\* Init and every step establish what holds with any collector.
LEMMA InitIInv == Init => IInv /\ PauseInv
<1> SUFFICES ASSUME Init PROVE IInv /\ PauseInv
  OBVIOUS
<1>1. Idle \in Locals
  BY DEF Idle, Locals
<1>2. /\ committed \in 0..MaxMetaspaceSize
      /\ capacity_until_GC \in MetaspaceSize..MaxMetaspaceSize
      /\ committed <= capacity_until_GC
      /\ IsAligned(capacity_until_GC, Granule)
  BY ThresholdAssumption DEF Init, AtLeast
<1>3. TypeOK
  BY <1>1, <1>2, ThresholdAssumption DEF Init, TypeOK, NoSample
<1>4. \A t \in Threads : ~At(t, "cmpxchg") /\ ~At(t, "attempt") /\ ~At(t, "oom")
  BY DEF Init, At, Idle
<1> QED
  BY <1>2, <1>3, <1>4 DEF IInv, PauseInv, Place, RaiseFits, SampleIsSafe, CommittedWithinMax,
     ThresholdInRange, ThresholdCoversCommitted, Init, NoSample

-----------------------------------------------------------------------------
(* What each action writes into the locals of its thread.                  *)

\* Thread t moves, and no other.
OnlyMoves(t) ==
  /\ thread' \in [Threads -> Locals]
  /\ \A u \in Threads \ {t} : thread'[u] = thread[u]

\* Where no local matters but size and pass.
AtRest(t) == thread'[t].pc \in {"idle", "allocate", "increment"}

\* What each kind of step does to the thread that takes it.  A request starts:
LEMMA RequestStep ==
  ASSUME TypeOK, NEW t \in Threads, Request(t)
  PROVE  OnlyMoves(t) /\ AtRest(t)
<1>1. PICK bytes \in Sizes \cup ClassSizes, space \in {"class", "data"} :
        thread' = [thread EXCEPT ![t] = Asking(bytes, space)]
  BY DEF Request
<1>2. Asking(bytes, space) \in Locals /\ Asking(bytes, space).pc = "allocate"
  BY ThresholdAssumption DEF Asking, Idle, Locals
<1> QED
  BY <1>1, <1>2 DEF TypeOK, OnlyMoves, AtRest

\* a request returns to its caller;
LEMMA ReturnStep ==
  ASSUME TypeOK, NEW t \in Threads, Return(t)
  PROVE  OnlyMoves(t) /\ AtRest(t)
<1>1. Idle \in Locals
  BY DEF Idle, Locals
<1> QED
  BY <1>1 DEF TypeOK, Return, OnlyMoves, AtRest, Idle

\* a failed allocation moves on, for one of two causes;
LEMMA FailStep ==
  ASSUME TypeOK, NEW t \in Threads, NEW place \in {"increment", "collect", "oom"},
         Fail(t, place)
  PROVE  \E n \in Nat :
           /\ n > AllowedExpansion \/ (n = 0 /\ thread[t].space = "class")
           /\ OnlyMoves(t)
           /\ thread'[t] = [thread[t] EXCEPT !.pc = place,
                                            !.refused = IF place = "oom" THEN n ELSE 0]
<1>1. PICK n \in Needs(t) \cup {0} :
        /\ n > AllowedExpansion \/ (n = 0 /\ thread[t].space = "class")
        /\ thread' = [thread EXCEPT
                         ![t] = [thread[t] EXCEPT !.pc = place,
                                                  !.refused = IF place = "oom" THEN n ELSE 0]]
  BY DEF Fail
<1>2. n \in Nat
  BY NeedIsNat
<1> DEFINE l == [thread[t] EXCEPT !.pc = place, !.refused = IF place = "oom" THEN n ELSE 0]
<1>3. l \in Locals
  <2>1. thread[t] \in Locals /\ (IF place = "oom" THEN n ELSE 0) \in Nat
    BY <1>2 DEF TypeOK
  <2> QED
    BY <2>1 DEF Locals
<1>4. thread' = [thread EXCEPT ![t] = l] /\ thread \in [Threads -> Locals]
  BY <1>1 DEF TypeOK
<1>5. OnlyMoves(t) /\ thread'[t] = l
  <2> HIDE DEF l
  <2> QED
    BY <1>3, <1>4 DEF OnlyMoves
<1> QED
  BY <1>1, <1>2, <1>5

\* a thread that had its collection goes back to allocate;
LEMMA CollectForStep ==
  ASSUME TypeOK, NEW t \in Threads, CollectFor(t)
  PROVE  OnlyMoves(t) /\ thread'[t].pc = "allocate"
<1> DEFINE l == [Asking(thread[t].size, thread[t].space) EXCEPT !.pass = 2]
<1>1. l \in Locals /\ l.pc = "allocate"
  BY DEF TypeOK, Asking, Idle, Locals
<1>2. thread' = [thread EXCEPT ![t] = l]
  BY DEF CollectFor
<1> HIDE DEF l
<1> QED
  BY <1>1, <1>2 DEF TypeOK, OnlyMoves, AtRest

\* inc_capacity_until_GC sets can_retry and the old value;
LEMMA ReadThresholdStep ==
  ASSUME TypeOK, NEW t \in Threads, ReadThreshold(t),
         NEW fits \in BOOLEAN,
         fits = (Raised(capacity_until_GC, Delta(thread[t].size)) <= MaxMetaspaceSize)
  PROVE  /\ OnlyMoves(t)
         /\ thread'[t] = [thread[t] EXCEPT !.old = capacity_until_GC, !.incremented = FALSE,
                            !.can_retry = fits, !.pc = IF fits THEN "cmpxchg" ELSE "attempt"]
<1> DEFINE l == [thread[t] EXCEPT !.old = capacity_until_GC, !.incremented = FALSE,
                   !.can_retry = fits, !.pc = IF fits THEN "cmpxchg" ELSE "attempt"]
<1>1. l \in Locals
  <2>1. thread[t] \in Locals /\ capacity_until_GC \in Nat
    BY DEF TypeOK
  <2> QED
    BY <2>1 DEF Locals
<1>2. thread' = [thread EXCEPT ![t] = l]
  BY DEF ReadThreshold, TypeOK, Locals
<1> QED
  BY <1>1, <1>2 DEF TypeOK, OnlyMoves

\* the compare-and-swap sets incremented.
LEMMA CompareExchangeStep ==
  ASSUME TypeOK, NEW t \in Threads, CompareExchange(t),
         NEW won \in BOOLEAN, won = (capacity_until_GC = thread[t].old)
  PROVE  /\ OnlyMoves(t)
         /\ thread'[t] = [thread[t] EXCEPT !.incremented = won, !.pc = "attempt"]
<1> DEFINE l == [thread[t] EXCEPT !.incremented = won, !.pc = "attempt"]
<1>1. l \in Locals
  <2>1. thread[t] \in Locals
    BY DEF TypeOK
  <2> QED
    BY <2>1 DEF Locals
<1>2. thread' = [thread EXCEPT ![t] = l]
  BY DEF CompareExchange, TypeOK, Locals
<1> QED
  BY <1>1, <1>2 DEF TypeOK, OnlyMoves

-----------------------------------------------------------------------------
(* The steps.                                                              *)

\* A thread's step keeps the invariant if the threshold stays in range and
\* the thread's next raise fits.
LEMMA ThreadStepIInv ==
  ASSUME IInv, NEW t \in Threads, OnlyMoves(t), RaiseFits(t)',
         UNCHANGED <<shrink_factor, sample>>, committed' \in 0..MaxMetaspaceSize,
         capacity_until_GC' \in capacity_until_GC..MaxMetaspaceSize,
         IsAligned(capacity_until_GC', Granule)
  PROVE  IInv'
<1>1. /\ capacity_until_GC \in Nat /\ MetaspaceSize \in Nat /\ MaxMetaspaceSize \in Nat
      /\ capacity_until_GC >= MetaspaceSize
      /\ sample \in [used: Nat, capacity: Nat, taken: BOOLEAN]
  BY ThresholdAssumption DEF IInv, TypeOK, ThresholdInRange
<1>2. TypeOK'
  BY <1>1 DEF IInv, TypeOK, OnlyMoves
<1>3. CommittedWithinMax' /\ ThresholdInRange'
  BY <1>1 DEF CommittedWithinMax, ThresholdInRange
<1>4. SampleIsSafe'
  BY <1>1 DEF IInv, SampleIsSafe
<1>5. ASSUME NEW u \in Threads PROVE RaiseFits(u)'
  BY DEF IInv, RaiseFits, At, OnlyMoves
<1> QED
  BY <1>2, <1>3, <1>4, <1>5 DEF IInv

\* It keeps the rest of the invariant if it leaves itself in place.
LEMMA ThreadStepPauseInv ==
  ASSUME IInv, PauseInv, NEW t \in Threads, OnlyMoves(t), Place(t)',
         capacity_until_GC' \in Nat, committed' \in Nat,
         capacity_until_GC' >= capacity_until_GC, committed' >= committed,
         committed' <= capacity_until_GC'
  PROVE  PauseInv'
<1>1. ASSUME NEW u \in Threads \ {t} PROVE Place(u)'
  BY <1>1, PlaceIsKept DEF IInv, PauseInv, OnlyMoves
<1> QED
  BY <1>1 DEF PauseInv, ThresholdCoversCommitted

\* A thread at rest relies on nothing.
LEMMA RestIsSafe ==
  ASSUME NEW t \in Threads, AtRest(t)
  PROVE  RaiseFits(t)' /\ Place(t)'
BY DEF AtRest, RaiseFits, Place, At

\* A served allocation charges within both limits and ends the request.
LEMMA ServeStep ==
  ASSUME IInv, NEW t \in Threads, Serve(t),
         UNCHANGED <<capacity_until_GC, shrink_factor, sample>>
  PROVE  IInv' /\ (PauseInv => PauseInv')
<1>1. OnlyMoves(t) /\ AtRest(t)
  BY ReturnStep DEF IInv, Serve
<1>2. /\ committed' \in 0..MaxMetaspaceSize /\ committed' >= committed
      /\ PauseInv => committed' <= capacity_until_GC
  <2>1. PICK need \in Needs(t) :
          need <= AllowedExpansion /\ committed' = committed + need
    BY DEF Serve
  <2>2. need \in Nat
    BY NeedIsNat DEF IInv
  <2> QED
    BY <2>1, <2>2, ServeIsSafe DEF IInv, PauseInv, TypeOK
<1>3. /\ capacity_until_GC \in Nat
      /\ capacity_until_GC' \in capacity_until_GC..MaxMetaspaceSize
      /\ IsAligned(capacity_until_GC', Granule)
  BY ThresholdAssumption DEF IInv, TypeOK, ThresholdInRange
<1>4. IInv'
  BY <1>1, <1>2, <1>3, RestIsSafe, ThreadStepIInv
<1>5. ASSUME PauseInv PROVE PauseInv'
  BY <1>1, <1>2, <1>3, <1>5, RestIsSafe, ThreadStepPauseInv
<1> QED
  BY <1>4, <1>5

\* Steps that leave every number as it is.
LEMMA QuietStep ==
  ASSUME IInv, NEW t \in Threads, OnlyMoves(t), RaiseFits(t)',
         UNCHANGED <<capacity_until_GC, committed, shrink_factor, sample>>
  PROVE  IInv' /\ (PauseInv /\ Place(t)' => PauseInv')
<1>1. /\ capacity_until_GC \in Nat /\ committed \in Nat
      /\ committed' \in 0..MaxMetaspaceSize
      /\ capacity_until_GC' \in capacity_until_GC..MaxMetaspaceSize
      /\ IsAligned(capacity_until_GC', Granule)
  BY ThresholdAssumption DEF IInv, TypeOK, ThresholdInRange, CommittedWithinMax
<1>2. IInv'
  BY <1>1, ThreadStepIInv
<1>3. ASSUME PauseInv, Place(t)' PROVE PauseInv'
  <2>1. committed' <= capacity_until_GC'
    BY <1>3 DEF PauseInv, ThresholdCoversCommitted
  <2> QED
    BY <1>1, <1>3, <2>1, ThreadStepPauseInv
<1> QED
  BY <1>2, <1>3

\* Metaspace::allocate begins: nothing is relied on yet.
LEMMA RequestPreserves ==
  ASSUME IInv, NEW t \in Threads, Request(t)
  PROVE  IInv' /\ (PauseInv => PauseInv')
<1>1. OnlyMoves(t) /\ AtRest(t)
  BY RequestStep DEF IInv
<1> QED
  BY <1>1, RestIsSafe, QuietStep DEF Request

\* report_metadata_oome ends the request.
LEMMA ThrowPreserves ==
  ASSUME IInv, NEW t \in Threads, ThrowOutOfMemory(t)
  PROVE  IInv' /\ (PauseInv => PauseInv')
<1>1. OnlyMoves(t) /\ AtRest(t)
  BY ReturnStep DEF IInv, ThrowOutOfMemory
<1> QED
  BY <1>1, RestIsSafe, QuietStep DEF ThrowOutOfMemory

\* allocate charges within the limits or goes to expand_and_allocate.
LEMMA AllocatePreserves ==
  ASSUME IInv, NEW t \in Threads, Allocate(t)
  PROVE  IInv' /\ (PauseInv => PauseInv')
<1>1. CASE Serve(t)
  BY <1>1, ServeStep DEF Allocate
<1>2. CASE Fail(t, "increment")
  <2>1. PICK n \in Nat :
          /\ OnlyMoves(t)
          /\ thread'[t] = [thread[t] EXCEPT !.pc = "increment",
                                           !.refused = IF "increment" = "oom" THEN n ELSE 0]
    BY <1>2, FailStep DEF IInv
  <2>2. AtRest(t)
    BY <2>1, LocalsOf DEF IInv, AtRest, Locals
  <2> QED
    BY <1>2, <2>1, <2>2, RestIsSafe, QuietStep DEF Allocate, Fail
<1> QED
  BY <1>1, <1>2 DEF Allocate

\* What inc_capacity_until_GC checked before its compare-and-swap holds then.
LEMMA ReadThresholdPreserves ==
  ASSUME IInv, NEW t \in Threads, ReadThreshold(t)
  PROVE  IInv' /\ (PauseInv => PauseInv')
<1> DEFINE next == Raised(capacity_until_GC, Delta(thread[t].size))
<1>1. /\ thread[t] \in Locals /\ Delta(thread[t].size) \in Nat
      /\ IsAligned(Delta(thread[t].size), Granule)
  BY LocalsOf, DeltaIsAligned DEF IInv, Locals
<1>2. /\ capacity_until_GC \in Nat /\ MaxMetaspaceSize \in Nat
      /\ capacity_until_GC \in 0..MaxMetaspaceSize /\ IsAligned(capacity_until_GC, Granule)
      /\ capacity_until_GC' = capacity_until_GC
  BY ThresholdAssumption DEF IInv, TypeOK, ThresholdInRange, ReadThreshold
<1>5. next \in Nat /\ next <= capacity_until_GC + Delta(thread[t].size)
  BY <1>1, <1>2, RaisedBounds
<1>3. CASE next <= MaxMetaspaceSize
  <2>1. TRUE = (next <= MaxMetaspaceSize)
    BY <1>3
  <2>2. /\ OnlyMoves(t)
        /\ thread'[t] = [thread[t] EXCEPT !.old = capacity_until_GC, !.incremented = FALSE,
                           !.can_retry = TRUE, !.pc = IF TRUE THEN "cmpxchg" ELSE "attempt"]
    BY <2>1, ReadThresholdStep DEF IInv
  <2>3. /\ thread'[t].old = capacity_until_GC /\ thread'[t].size = thread[t].size
        /\ thread'[t].can_retry /\ thread'[t].pc = "cmpxchg"
    BY <1>1, <2>2 DEF Locals
  <2>4. RaiseFits(t)' /\ Place(t)'
    BY <1>1, <1>2, <1>3, <2>3 DEF RaiseFits, Place, At
  <2> QED
    BY <2>2, <2>4, QuietStep DEF ReadThreshold
<1>4. CASE ~(next <= MaxMetaspaceSize)
  <2>1. FALSE = (next <= MaxMetaspaceSize)
    BY <1>4
  <2>2. /\ OnlyMoves(t)
        /\ thread'[t] = [thread[t] EXCEPT !.old = capacity_until_GC, !.incremented = FALSE,
                           !.can_retry = FALSE, !.pc = IF FALSE THEN "cmpxchg" ELSE "attempt"]
    BY <2>1, ReadThresholdStep DEF IInv
  <2>3. /\ thread'[t].size = thread[t].size
        /\ ~thread'[t].can_retry /\ thread'[t].pc = "attempt"
    BY <1>1, <2>2 DEF Locals
  <2>4. RaiseFits(t)' /\ Place(t)'
    BY <1>1, <1>2, <1>4, <1>5, <2>3 DEF RaiseFits, Place, At
  <2> QED
    BY <2>2, <2>4, QuietStep DEF ReadThreshold
<1> QED
  BY <1>3, <1>4

\* A raise that wins was checked against the maximum; one that loses saw the
\* HWM move, and up, for no pause lies in between.
LEMMA CompareExchangePreserves ==
  ASSUME IInv, NEW t \in Threads, CompareExchange(t)
  PROVE  /\ capacity_until_GC' >= capacity_until_GC
         /\ IInv' /\ (PauseInv => PauseInv')
<1> DEFINE won == capacity_until_GC = thread[t].old
           delta == Delta(thread[t].size)
<1>1. OnlyMoves(t) /\ thread'[t] = [thread[t] EXCEPT !.incremented = won, !.pc = "attempt"]
  BY CompareExchangeStep DEF IInv
<1>2. /\ thread[t] \in Locals /\ thread[t].old \in Nat /\ thread[t].can_retry \in BOOLEAN
      /\ delta \in Nat \ {0} /\ IsAligned(delta, Granule)
  BY LocalsOf, DeltaIsAligned DEF IInv, Locals
<1>3. /\ thread'[t].old = thread[t].old /\ thread'[t].can_retry = thread[t].can_retry
      /\ thread'[t].incremented = won /\ thread'[t].pc = "attempt"
  BY <1>1, <1>2 DEF Locals
<1>4. /\ capacity_until_GC \in Nat /\ committed \in Nat /\ MaxMetaspaceSize \in Nat
      /\ capacity_until_GC <= MaxMetaspaceSize /\ committed <= MaxMetaspaceSize
      /\ IsAligned(capacity_until_GC, Granule)
  BY ThresholdAssumption DEF IInv, TypeOK, ThresholdInRange, CommittedWithinMax
<1>5. thread[t].pc = "cmpxchg" /\ Raised(thread[t].old, delta) <= MaxMetaspaceSize
  BY DEF CompareExchange, IInv, RaiseFits, At
<1>6. /\ capacity_until_GC' =
           IF won THEN Raised(capacity_until_GC, delta) ELSE capacity_until_GC
      /\ UNCHANGED <<committed, shrink_factor, sample>>
  BY DEF CompareExchange
<1> HIDE DEF delta
<1>7. /\ capacity_until_GC' \in capacity_until_GC..MaxMetaspaceSize
      /\ capacity_until_GC' \in Nat
      /\ IsAligned(capacity_until_GC', Granule)
  <2>1. CASE won
    <3> DEFINE next == Raised(capacity_until_GC, delta)
    <3>1. capacity_until_GC' = next
      BY <1>6, <2>1
    <3>2. next \in Nat /\ IsAligned(next, Granule) /\ capacity_until_GC <= next
      BY <1>2, <1>4, RaisedBounds
    <3>3. next <= MaxMetaspaceSize
      BY <1>5, <2>1
    <3> HIDE DEF next
    <3> QED
      BY <1>4, <3>1, <3>2, <3>3
  <2>2. CASE ~won
    BY <1>4, <1>6, <2>2
  <2> QED
    BY <2>1, <2>2
<1>8. RaiseFits(t)'
  BY <1>3 DEF RaiseFits, At
<1>9. IInv'
  BY <1>1, <1>4, <1>6, <1>7, <1>8, ThreadStepIInv
<1>10. ASSUME PauseInv PROVE PauseInv'
  <2>1. thread[t].old <= capacity_until_GC /\ thread[t].can_retry
    BY <1>5, <1>10 DEF PauseInv, Place, At
  <2>2. Place(t)'
    <3>1. CASE won
      BY <1>3, <3>1 DEF Place, At
    <3>2. CASE ~won
      <4>1. capacity_until_GC' = capacity_until_GC /\ capacity_until_GC > thread[t].old
        BY <1>2, <1>4, <1>6, <2>1, <3>2
      <4>2. thread'[t].old = thread[t].old /\ thread'[t].can_retry /\ thread'[t].pc = "attempt"
        BY <1>3, <2>1
      <4> QED
        BY <4>1, <4>2 DEF Place, At
    <3> QED
      BY <3>1, <3>2
  <2>3. committed' <= capacity_until_GC'
    BY <1>4, <1>6, <1>7, <1>10 DEF PauseInv, ThresholdCoversCommitted
  <2> QED
    BY <1>1, <1>4, <1>6, <1>7, <1>10, <2>2, <2>3, ThreadStepPauseInv
<1> QED
  BY <1>4, <1>7, <1>9, <1>10

\* A failed attempt that ends in OutOfMemoryError had no room for its step.
LEMMA AttemptPreserves ==
  ASSUME IInv, NEW t \in Threads, Attempt(t)
  PROVE  IInv' /\ (PauseInv => PauseInv')
<1>1. CASE Serve(t)
  BY <1>1, ServeStep DEF Attempt
<1>2. CASE Fail(t, AfterFailure(t))
  <2> DEFINE delta == Delta(thread[t].size)
  <2>1. AfterFailure(t) \in {"increment", "collect", "oom"}
    BY DEF AfterFailure
  <2>2. PICK n \in Nat :
          /\ n > AllowedExpansion \/ (n = 0 /\ thread[t].space = "class")
          /\ OnlyMoves(t)
          /\ thread'[t] = [thread[t] EXCEPT !.pc = AfterFailure(t),
                                           !.refused = IF AfterFailure(t) = "oom" THEN n ELSE 0]
    BY <1>2, <2>1, FailStep DEF IInv
  <2>3. thread[t] \in Locals /\ delta \in Nat \ {0}
    BY LocalsOf DEF IInv
  <2>4. /\ thread'[t].pc = AfterFailure(t) /\ thread'[t].size = thread[t].size
        /\ thread'[t].incremented = thread[t].incremented
        /\ thread'[t].space = thread[t].space
        /\ AfterFailure(t) = "oom" => thread'[t].refused = n
    BY <2>2, <2>3 DEF Locals
  <2>5. RaiseFits(t)'
    BY <2>1, <2>4 DEF RaiseFits, At
  <2>6. /\ UNCHANGED <<capacity_until_GC, committed, shrink_factor, sample>>
        /\ thread[t].pc = "attempt"
    BY <1>2 DEF Attempt, Fail, At
  <2>7. ASSUME PauseInv PROVE Place(t)'
    <3>1. ~At(t, "cmpxchg")' /\ ~At(t, "attempt")'
      BY <2>1, <2>4 DEF At
    <3>2. ASSUME AfterFailure(t) = "oom", ~thread[t].incremented
          PROVE  IF n = 0 THEN thread[t].space = "class"
                 ELSE committed + n + delta > MaxMetaspaceSize
      <4>1. ~thread[t].can_retry
        BY <3>2 DEF AfterFailure
      <4>2. capacity_until_GC + delta > MaxMetaspaceSize
        BY <2>6, <2>7, <3>2, <4>1 DEF PauseInv, Place, At
      <4>3. committed <= capacity_until_GC
        BY <2>7 DEF PauseInv, ThresholdCoversCommitted
      <4>4. /\ committed \in Nat /\ capacity_until_GC \in Nat /\ MaxMetaspaceSize \in Nat
            /\ committed <= MaxMetaspaceSize
        BY ThresholdAssumption DEF IInv, TypeOK, CommittedWithinMax
      <4>5. CASE n > AllowedExpansion
        <5>1. /\ AllowedExpansion \in Nat
              /\ n > capacity_until_GC - committed \/ n > MaxMetaspaceSize - committed
          BY <4>3, <4>4, <4>5 DEF AllowedExpansion, AtMost
        <5>2. n # 0
          BY <4>5, <5>1
        <5> HIDE DEF delta
        <5> QED
          BY <2>3, <4>2, <4>4, <5>1, <5>2
      <4> QED
        BY <2>2, <4>5
    <3>3. Delta(thread[t].size)' = delta
      BY <2>4 DEF Delta
    <3> QED
      BY <2>4, <2>6, <3>1, <3>2, <3>3 DEF Place, At
  <2> QED
    BY <2>2, <2>5, <2>6, <2>7, QuietStep
<1> QED
  BY <1>1, <1>2 DEF Attempt

\* A collection finds no thread between reading the threshold and raising it.
LEMMA CollectPreserves ==
  ASSUME IInv, Collect, thread' \in [Threads -> Locals],
         \A t \in Threads : thread'[t].pc \in {"idle", "collect", "allocate"}
  PROVE  IInv' /\ (PauseInv => PauseInv')
<1>1. PICK c \in Remaining :
        /\ committed' = c
        /\ capacity_until_GC' = Resized(c)
        /\ shrink_factor' = NextShrinkFactor(c, capacity_until_GC, shrink_factor)
  BY DEF Collect
<1>2. /\ committed \in Nat /\ committed <= MaxMetaspaceSize /\ MaxMetaspaceSize \in Nat
      /\ capacity_until_GC \in Nat
      /\ capacity_until_GC \in MetaspaceSize..MaxMetaspaceSize
      /\ IsAligned(capacity_until_GC, Granule)
      /\ shrink_factor \in 0..100
      /\ MetaspaceSize \in Nat
  BY ThresholdAssumption DEF IInv, TypeOK, CommittedWithinMax, ThresholdInRange
<1>3. c \in 0..MaxMetaspaceSize /\ c <= committed
  BY <1>2 DEF Remaining
<1> DEFINE change == Resize(c, capacity_until_GC, shrink_factor)
<1>4. /\ change \in Int
      /\ capacity_until_GC + change \in MetaspaceSize..MaxMetaspaceSize
      /\ IF change < 0 THEN IsAligned(-change, Granule) ELSE IsAligned(change, Granule)
      /\ c <= capacity_until_GC => c <= capacity_until_GC + change
  BY <1>2, <1>3, ResizeIsSafe
<1>5. capacity_until_GC' = capacity_until_GC + change
  BY <1>1 DEF Resized
<1> HIDE DEF change
<1>6. IsAligned(capacity_until_GC', Granule)
  <2>1. capacity_until_GC + change >= 0
    BY <1>2, <1>4
  <2>2. IsAligned(capacity_until_GC + change, Granule)
    BY <1>2, <1>4, <2>1, MovedThreshold
  <2> QED
    BY <1>5, <2>2
<1>7. shrink_factor' \in 0..100
  BY <1>1, <1>2 DEF NextShrinkFactor, AtMost
<1>8. sample' = sample /\ ~sample.taken
  BY DEF Collect
<1>9. TypeOK'
  BY <1>1, <1>2, <1>3, <1>4, <1>5, <1>7, <1>8 DEF IInv, TypeOK
<1>10. CommittedWithinMax' /\ ThresholdInRange' /\ SampleIsSafe'
  BY <1>1, <1>3, <1>4, <1>5, <1>6, <1>8 DEF CommittedWithinMax, ThresholdInRange, SampleIsSafe
<1>11. ASSUME NEW t \in Threads PROVE RaiseFits(t)' /\ Place(t)'
  BY DEF RaiseFits, Place, At
<1>12. ASSUME PauseInv PROVE PauseInv'
  <2>1. c <= capacity_until_GC
    BY <1>2, <1>3, <1>12 DEF PauseInv, ThresholdCoversCommitted
  <2> QED
    BY <1>1, <1>4, <1>5, <1>11, <2>1 DEF PauseInv, ThresholdCoversCommitted
<1> QED
  BY <1>9, <1>10, <1>11, <1>12 DEF IInv

\* The full collection a request waits for.
LEMMA CollectForPreserves ==
  ASSUME IInv, NEW t \in Threads, CollectFor(t)
  PROVE  IInv' /\ (PauseInv => PauseInv')
<1>1. OnlyMoves(t) /\ thread'[t].pc = "allocate"
  BY CollectForStep DEF IInv
<1>2. Collect
  BY DEF CollectFor
<1>3. \A u \in Threads : thread[u].pc \in {"idle", "collect"}
  BY <1>2 DEF Collect, AtSafepoint
<1> QED
  BY <1>1, <1>2, <1>3, CollectPreserves DEF OnlyMoves

\* A collection nobody asked for.
LEMMA PeriodicCollectPreserves ==
  ASSUME IInv, PeriodicCollect
  PROVE  IInv' /\ (PauseInv => PauseInv')
<1>1. Collect /\ thread' = thread
  BY DEF PeriodicCollect
<1>2. thread \in [Threads -> Locals]
  BY DEF IInv, TypeOK
<1>3. \A u \in Threads : thread[u].pc \in {"idle", "collect"}
  BY <1>1 DEF Collect, AtSafepoint
<1> QED
  BY <1>1, <1>2, <1>3, CollectPreserves

\* compute_new_size reads its inputs while threads run.
LEMMA ConcurrentSamplePreserves ==
  ASSUME IInv, ConcurrentSample
  PROVE  IInv'
<1>1. PICK c \in Remaining :
        /\ committed' = c
        /\ sample' = [used |-> c, capacity |-> capacity_until_GC, taken |-> TRUE]
  BY DEF ConcurrentSample
<1>2. ConcurrentUnloading /\ UNCHANGED <<capacity_until_GC, shrink_factor, thread>>
  BY DEF ConcurrentSample
<1>3. committed \in Nat /\ committed <= MaxMetaspaceSize /\ MaxMetaspaceSize \in Nat
  BY ThresholdAssumption DEF IInv, TypeOK, CommittedWithinMax
<1>4. c \in Nat /\ c <= MaxMetaspaceSize
  BY <1>3 DEF Remaining
<1>5. TypeOK'
  BY <1>1, <1>2, <1>4 DEF IInv, TypeOK
<1>6. CommittedWithinMax' /\ ThresholdInRange'
  BY <1>1, <1>2, <1>4 DEF IInv, CommittedWithinMax, ThresholdInRange
<1>7. SampleIsSafe'
  BY <1>1, <1>2, <1>4, ThresholdAssumption DEF IInv, TypeOK, ThresholdInRange, SampleIsSafe
<1> QED
  BY <1>2, <1>5, <1>6, <1>7 DEF IInv, RaiseFits, At

\* compute_new_size acts on what it read: the HWM has only risen since.
LEMMA ConcurrentResizePreserves ==
  ASSUME IInv, ConcurrentResize
  PROVE  IInv'
<1> DEFINE change == Resize(sample.used, sample.capacity, shrink_factor)
<1>1. /\ capacity_until_GC \in Nat /\ committed \in Nat /\ MaxMetaspaceSize \in Nat
      /\ MetaspaceSize \in Nat /\ shrink_factor \in 0..100
      /\ capacity_until_GC \in MetaspaceSize..MaxMetaspaceSize
      /\ IsAligned(capacity_until_GC, Granule)
  BY ThresholdAssumption DEF IInv, TypeOK, ThresholdInRange
<1>2. /\ sample.used \in 0..MaxMetaspaceSize
      /\ sample.capacity \in Nat
      /\ sample.capacity \in MetaspaceSize..MaxMetaspaceSize
      /\ sample.capacity <= capacity_until_GC
      /\ IsAligned(sample.capacity, Granule)
  BY <1>1 DEF IInv, TypeOK, SampleIsSafe, ConcurrentResize
<1>3. /\ change \in Int
      /\ sample.capacity + change \in MetaspaceSize..MaxMetaspaceSize
      /\ IF change < 0 THEN IsAligned(-change, Granule) ELSE IsAligned(change, Granule)
  BY <1>1, <1>2, ResizeIsSafe
<1>4. \/ capacity_until_GC' = capacity_until_GC
      \/ /\ change > 0
         /\ Raised(capacity_until_GC, change) <= MaxMetaspaceSize
         /\ capacity_until_GC' = Raised(capacity_until_GC, change)
      \/ change <= 0 /\ capacity_until_GC' = capacity_until_GC + change
  BY DEF ConcurrentResize
<1>5. /\ UNCHANGED <<committed, thread>> /\ sample' = NoSample
      /\ shrink_factor' = NextShrinkFactor(sample.used, sample.capacity, shrink_factor)
  BY DEF ConcurrentResize
<1> HIDE DEF change
<1>6. /\ capacity_until_GC' \in MetaspaceSize..MaxMetaspaceSize
      /\ IsAligned(capacity_until_GC', Granule)
  <2>1. CASE /\ change > 0
             /\ Raised(capacity_until_GC, change) <= MaxMetaspaceSize
             /\ capacity_until_GC' = Raised(capacity_until_GC, change)
    <3> DEFINE next == Raised(capacity_until_GC, change)
    <3>1. change \in Nat /\ IsAligned(change, Granule) /\ capacity_until_GC \in 0..MaxMetaspaceSize
      BY <1>1, <1>3, <2>1
    <3>2. next \in Nat /\ IsAligned(next, Granule) /\ capacity_until_GC <= next
      BY <1>1, <3>1, RaisedBounds
    <3>3. capacity_until_GC' = next /\ next <= MaxMetaspaceSize
      BY <2>1
    <3> HIDE DEF next
    <3> QED
      BY <1>1, <3>2, <3>3
  <2>2. CASE change <= 0 /\ capacity_until_GC' = capacity_until_GC + change
    <3>1. capacity_until_GC + change \in MetaspaceSize..MaxMetaspaceSize
      BY <1>1, <1>2, <1>3, <2>2
    <3>2. capacity_until_GC + change >= 0
      BY <1>1, <3>1
    <3>3. IsAligned(capacity_until_GC + change, Granule)
      BY <1>1, <1>3, <3>2, MovedThreshold
    <3> QED
      BY <2>2, <3>1, <3>3
  <2> QED
    BY <1>1, <1>4, <2>1, <2>2
<1>8. shrink_factor' \in 0..100
  BY <1>1, <1>5 DEF NextShrinkFactor, AtMost
<1>9. TypeOK'
  BY <1>1, <1>5, <1>6, <1>8 DEF IInv, TypeOK, NoSample
<1> QED
  BY <1>1, <1>5, <1>6, <1>9
  DEF IInv, CommittedWithinMax, ThresholdInRange, SampleIsSafe, NoSample, RaiseFits, At
-----------------------------------------------------------------------------
(* Theorems.                                                               *)

\* Every step keeps what holds with any collector.
LEMMA NextIInv == IInv /\ [Next]_vars => IInv'
<1> SUFFICES ASSUME IInv, [Next]_vars PROVE IInv'
  OBVIOUS
<1>1. ASSUME NEW t \in Threads, Request(t) PROVE IInv'
  BY <1>1, RequestPreserves
<1>2. ASSUME NEW t \in Threads, Allocate(t) PROVE IInv'
  BY <1>2, AllocatePreserves
<1>3. ASSUME NEW t \in Threads, ReadThreshold(t) PROVE IInv'
  BY <1>3, ReadThresholdPreserves
<1>4. ASSUME NEW t \in Threads, CompareExchange(t) PROVE IInv'
  BY <1>4, CompareExchangePreserves
<1>5. ASSUME NEW t \in Threads, Attempt(t) PROVE IInv'
  BY <1>5, AttemptPreserves
<1>6. ASSUME NEW t \in Threads, ThrowOutOfMemory(t) PROVE IInv'
  BY <1>6, ThrowPreserves
<1>7. ASSUME NEW t \in Threads, CollectFor(t) PROVE IInv'
  BY <1>7, CollectForPreserves
<1>8. CASE PeriodicCollect
  BY <1>8, PeriodicCollectPreserves
<1>9. CASE ConcurrentSample
  BY <1>9, ConcurrentSamplePreserves
<1>10. CASE ConcurrentResize
  BY <1>10, ConcurrentResizePreserves
<1>11. CASE UNCHANGED vars
  BY <1>11 DEF vars, IInv, TypeOK, CommittedWithinMax, ThresholdInRange, SampleIsSafe,
     RaiseFits, At
<1> QED
  BY <1>1, <1>2, <1>3, <1>4, <1>5, <1>6, <1>7, <1>8, <1>9, <1>10, <1>11 DEF Next, Step

\* Without concurrent unloading every step keeps the rest.
LEMMA NextPauseInv ==
  ~ConcurrentUnloading /\ IInv /\ PauseInv /\ [Next]_vars => PauseInv'
<1> SUFFICES ASSUME ~ConcurrentUnloading, IInv, PauseInv, [Next]_vars PROVE PauseInv'
  OBVIOUS
<1>1. ASSUME NEW t \in Threads, Request(t) PROVE PauseInv'
  BY <1>1, RequestPreserves
<1>2. ASSUME NEW t \in Threads, Allocate(t) PROVE PauseInv'
  BY <1>2, AllocatePreserves
<1>3. ASSUME NEW t \in Threads, ReadThreshold(t) PROVE PauseInv'
  BY <1>3, ReadThresholdPreserves
<1>4. ASSUME NEW t \in Threads, CompareExchange(t) PROVE PauseInv'
  BY <1>4, CompareExchangePreserves
<1>5. ASSUME NEW t \in Threads, Attempt(t) PROVE PauseInv'
  BY <1>5, AttemptPreserves
<1>6. ASSUME NEW t \in Threads, ThrowOutOfMemory(t) PROVE PauseInv'
  BY <1>6, ThrowPreserves
<1>7. ASSUME NEW t \in Threads, CollectFor(t) PROVE PauseInv'
  BY <1>7, CollectForPreserves
<1>8. CASE PeriodicCollect
  BY <1>8, PeriodicCollectPreserves
<1>9. ~ConcurrentSample /\ ~ConcurrentResize
  BY DEF ConcurrentSample, ConcurrentResize, IInv, SampleIsSafe
<1>10. CASE UNCHANGED vars
  BY <1>10 DEF vars, PauseInv, ThresholdCoversCommitted, Place, At
<1> QED
  BY <1>1, <1>2, <1>3, <1>4, <1>5, <1>6, <1>7, <1>8, <1>9, <1>10 DEF Next, Step

\* The inductive invariant holds with any collector: types, the ranges of the
\* HWM, of what is committed, of a checked raise and of a sample.
THEOREM Invariance == Spec => []IInv
<1> QED
  BY InitIInv, NextIInv, PTL DEF Spec

\* Every variable keeps its type, with any collector.
THEOREM TypeCorrect == Spec => []TypeOK
<1>1. IInv => TypeOK
  BY DEF IInv
<1> QED
  BY <1>1, Invariance, PTL

\* The HWM stays between MetaspaceSize and MaxMetaspaceSize in whole granules,
\* however raises race with each other and with compute_new_size.
THEOREM RangeKept == Spec => []ThresholdInRange
<1>1. IInv => ThresholdInRange
  BY DEF IInv
<1> QED
  BY <1>1, Invariance, PTL

\* MaxMetaspaceSize limits what is committed even when the HWM has fallen
\* below it and allowed_expansion wraps around.
THEOREM MaximumKept == Spec => []CommittedWithinMax
<1>1. IInv => CommittedWithinMax
  BY DEF IInv
<1> QED
  BY <1>1, Invariance, PTL

\* With collectors that unload in a pause also the HWM covers what is
\* committed and a thread may rely on what it read.
LEMMA PauseInvariance == ~ConcurrentUnloading => (Spec => []PauseInv)
<1> SUFFICES ASSUME ~ConcurrentUnloading PROVE Spec => []PauseInv
  OBVIOUS
<1>1. IInv /\ PauseInv /\ [Next]_vars => PauseInv'
  BY NextPauseInv
<1> QED
  BY <1>1, InitIInv, Invariance, PTL DEF Spec

\* When every collector unloads in a pause, the assertion of allowed_expansion
\* holds: the HWM never lies below what is committed.
THEOREM ThresholdHolds == ~ConcurrentUnloading => (Spec => []ThresholdCoversCommitted)
<1>1. PauseInv => ThresholdCoversCommitted
  BY DEF PauseInv
<1> QED
  BY <1>1, PauseInvariance, PTL

\* A try of expand_and_allocate that is to be repeated lost to a rival's raise.
THEOREM RivalRaised == ~ConcurrentUnloading => (Spec => []FailedRaiseMeansRival)
<1>1. IInv /\ PauseInv => FailedRaiseMeansRival
  BY DEF IInv, TypeOK, Locals, PauseInv, Place, FailedRaiseMeansRival
<1> QED
  BY <1>1, Invariance, PauseInvariance, PTL

\* OutOfMemoryError without a raise of its own means that class space ran out,
\* or that the commit refused last and the step do not fit under the maximum,
\* whatever the chunks commit at a time.
THEOREM OutOfMemoryJustified == ~ConcurrentUnloading => (Spec => []OutOfMemoryNearLimit)
<1>1. PauseInv => OutOfMemoryNearLimit
  BY DEF PauseInv, Place, OutOfMemoryNearLimit
<1> QED
  BY <1>1, PauseInvariance, PTL

\* Racing threads only raise the HWM; a pause alone takes it back.
THEOREM OnlyPausesLower == ~ConcurrentUnloading => (Spec => ThresholdFallsOnlyInPause)
<1> SUFFICES ASSUME ~ConcurrentUnloading PROVE Spec => ThresholdFallsOnlyInPause
  OBVIOUS
<1>1. IInv /\ [Next]_vars => [capacity_until_GC' < capacity_until_GC => AtSafepoint]_vars
  <2> SUFFICES ASSUME IInv, [Next]_vars, capacity_until_GC' < capacity_until_GC
               PROVE  AtSafepoint
    OBVIOUS
  <2>1. capacity_until_GC \in Nat
    BY DEF IInv, TypeOK
  <2>2. ASSUME NEW t \in Threads,
               Request(t) \/ Allocate(t) \/ ReadThreshold(t) \/ Attempt(t) \/ ThrowOutOfMemory(t)
        PROVE  FALSE
    <3>1. UNCHANGED capacity_until_GC
      <4>1. Request(t) => UNCHANGED capacity_until_GC
        BY DEF Request
      <4>2. Allocate(t) => UNCHANGED capacity_until_GC
        BY DEF Allocate
      <4>3. ReadThreshold(t) => UNCHANGED capacity_until_GC
        BY DEF ReadThreshold
      <4>4. Attempt(t) => UNCHANGED capacity_until_GC
        BY DEF Attempt
      <4>5. ThrowOutOfMemory(t) => UNCHANGED capacity_until_GC
        BY DEF ThrowOutOfMemory
      <4> QED
        BY <2>2, <4>1, <4>2, <4>3, <4>4, <4>5
    <3> QED
      BY <2>1, <3>1
  <2>3. ASSUME NEW t \in Threads, CompareExchange(t)
        PROVE  FALSE
    <3>1. capacity_until_GC' >= capacity_until_GC /\ IInv'
      BY <2>3, CompareExchangePreserves
    <3>2. capacity_until_GC' \in Nat
      BY <3>1 DEF IInv, TypeOK
    <3> QED
      BY <2>1, <3>1, <3>2
  <2>4. CASE Collect
    BY <2>4 DEF Collect
  <2>5. ~ConcurrentSample /\ ~ConcurrentResize
    BY DEF ConcurrentSample, ConcurrentResize, IInv, SampleIsSafe
  <2>6. CASE UNCHANGED vars
    BY <2>1, <2>6 DEF vars
  <2>7. ASSUME NEW t \in Threads, Request(t) \/ Step(t) \/ CollectFor(t)
        PROVE  Collect
    BY <2>2, <2>3, <2>7 DEF Step, CollectFor
  <2>8. PeriodicCollect => Collect
    BY DEF PeriodicCollect
  <2> QED
    BY <2>4, <2>5, <2>6, <2>7, <2>8 DEF Next
<1> QED
  BY <1>1, Invariance, PTL DEF Spec, ThresholdFallsOnlyInPause

\* A pause comes within a step of the capacity MinMetaspaceFreeRatio asks for,
\* and one that lowers the HWM leaves what MaxMetaspaceFreeRatio allows.
THEOREM RoomLeft == Spec => PauseLeavesRoom
<1>1. IInv /\ [Next]_vars =>
        [Collect => /\ capacity_until_GC' + MinMetaspaceExpansion > MinDesired(committed')
                    /\ capacity_until_GC' < capacity_until_GC
                         => capacity_until_GC' >= MaxDesired(committed')]_vars
  <2> SUFFICES ASSUME IInv, Collect
               PROVE  /\ capacity_until_GC' + MinMetaspaceExpansion > MinDesired(committed')
                      /\ capacity_until_GC' < capacity_until_GC
                           => capacity_until_GC' >= MaxDesired(committed')
    OBVIOUS
  <2>1. PICK c \in Remaining : committed' = c /\ capacity_until_GC' = Resized(c)
    BY DEF Collect
  <2>2. /\ capacity_until_GC \in Nat /\ capacity_until_GC \in MetaspaceSize..MaxMetaspaceSize
        /\ committed \in Nat /\ committed <= MaxMetaspaceSize /\ shrink_factor \in 0..100
    BY DEF IInv, TypeOK, ThresholdInRange, CommittedWithinMax
  <2>3. c \in 0..MaxMetaspaceSize
    BY <2>2, ThresholdAssumption DEF Remaining
  <2> DEFINE change == Resize(c, capacity_until_GC, shrink_factor)
  <2>4. /\ capacity_until_GC + change + MinMetaspaceExpansion > MinDesired(c)
        /\ change < 0 => capacity_until_GC + change >= MaxDesired(c)
    BY <2>2, <2>3, ResizeLeavesRoom
  <2>5. change \in Int
    BY <2>2, <2>3, ResizeIsSafe DEF IInv, ThresholdInRange
  <2>6. capacity_until_GC' = capacity_until_GC + change
    BY <2>1 DEF Resized
  <2> HIDE DEF change
  <2> QED
    BY <2>1, <2>2, <2>4, <2>5, <2>6
<1> QED
  BY <1>1, Invariance, PTL DEF Spec, PauseLeavesRoom
-----------------------------------------------------------------------------
=============================================================================
