--------------------- MODULE VirtualMemoryTracker_proofs ---------------------
(***************************************************************************)
(* Theorems about native memory tracking: for any number of words and any  *)
(* types and call stacks the lists of regions stay sorted and apart, the   *)
(* sums counted up and down by the calls are those over the lists, and     *)
(* each call changes what is known of just the words it is about, but for  *)
(* the calls the tracker does not look at closely: after each of those the *)
(* lists are not sound.                                                    *)
(*                                                                         *)
(* A sorted list is described by the set of its members, and sums by the   *)
(* number of words they count.                                             *)
(***************************************************************************)
EXTENDS VirtualMemoryTracker, BasicLemmas, SequenceTheorems

-----------------------------------------------------------------------------
(* Sorted lists.                                                           *)

\* The words of a region.
Within(r) == r.base..(r.end - 1)

\* Regions with a beginning and, behind it, an end.
Spans(S) == \A r \in S : r.base \in Int /\ r.end \in Int /\ r.base < r.end

InOrder(list) == \A i, j \in DOMAIN list : i < j => list[i].end <= list[j].base

Beside(r, q) == r.end <= q.base \/ q.end <= r.base

\* Two members of a sorted list are apart.
LEMMA OrderApart ==
  ASSUME NEW S, Spans(S), NEW list \in Seq(S), InOrder(list)
  PROVE  /\ \A i, j \in DOMAIN list : list[i] = list[j] => i = j
         /\ \A r, q \in ToSet(list) : r # q => Beside(r, q)
         /\ ToSet(list) \subseteq S
<1>1. DOMAIN list = 1..Len(list) /\ Len(list) \in Nat /\ \A i \in DOMAIN list : list[i] \in S
  BY LenProperties, ElementOfSeq
<1>2. \A i \in DOMAIN list : list[i].base \in Int /\ list[i].end \in Int /\ list[i].base < list[i].end
  BY <1>1 DEF Spans
<1>3. ASSUME NEW i \in DOMAIN list, NEW j \in DOMAIN list, i # j
      PROVE  Beside(list[i], list[j]) /\ list[i] # list[j]
  <2>1. i \in Int /\ j \in Int
    BY <1>1
  <2>2. CASE i < j
    <3>1. list[i].end <= list[j].base
      BY <2>2 DEF InOrder
    <3> QED
      BY <1>2, <3>1 DEF Beside
  <2>3. CASE j < i
    <3>1. list[j].end <= list[i].base
      BY <2>3 DEF InOrder
    <3> QED
      BY <1>2, <3>1 DEF Beside
  <2> QED
    BY <1>3, <2>1, <2>2, <2>3
<1> QED
  BY <1>1, <1>3 DEF ToSet

\* Sorted lists of members of S.
Sorted(S) == {list \in Seq(S) : InOrder(list)}

\* The members of a list.
LEMMA Members ==
  ASSUME NEW S, NEW list \in Seq(S)
  PROVE  /\ Len(list) \in Nat /\ DOMAIN list = 1..Len(list)
         /\ \A i \in 1..Len(list) : list[i] \in S /\ list[i] \in ToSet(list)
         /\ \A r \in ToSet(list) : r \in S /\ \E i \in 1..Len(list) : list[i] = r
         /\ ToSet(list) \subseteq S /\ IsFiniteSet(ToSet(list))
<1>1. DOMAIN list = 1..Len(list) /\ Len(list) \in Nat /\ \A i \in DOMAIN list : list[i] \in S
  BY LenProperties, ElementOfSeq
<1>2. IsFiniteSet(1..Len(list))
  BY <1>1, FS_Interval
<1>3. ToSet(list) = {list[i] : i \in 1..Len(list)}
  BY <1>1 DEF ToSet
<1>4. IsFiniteSet(ToSet(list))
  <2> DEFINE f == [i \in 1..Len(list) |-> list[i]]
  <2>1. {f[i] : i \in 1..Len(list)} = ToSet(list)
    BY <1>3
  <2>2. f \in Surjection(1..Len(list), ToSet(list))
    BY <1>3 DEF Surjection
  <2> QED
    BY <1>2, <2>2, FS_Surjection
<1> QED
  BY <1>1, <1>3, <1>4

\* Two sorted lists are one, if one is before the other.
LEMMA ConcatSorted ==
  ASSUME NEW S, NEW low \in Sorted(S), NEW high \in Sorted(S),
         \A r \in ToSet(low), q \in ToSet(high) : r.end <= q.base
  PROVE  /\ low \o high \in Sorted(S)
         /\ ToSet(low \o high) = ToSet(low) \cup ToSet(high)
<1> DEFINE t == low \o high
           m == Len(low)
           n == Len(high)
<1>1. /\ low \in Seq(S) /\ high \in Seq(S) /\ InOrder(low) /\ InOrder(high)
      /\ m \in Nat /\ n \in Nat /\ DOMAIN low = 1..m /\ DOMAIN high = 1..n
  BY LenProperties DEF Sorted
<1>2. /\ t \in Seq(S) /\ Len(t) = m + n
      /\ \A i \in 1..(m + n) : t[i] = IF i <= m THEN low[i] ELSE high[i - m]
  BY <1>1, ConcatProperties
<1>3. DOMAIN t = 1..(m + n)
  BY <1>2, LenProperties
<1> HIDE DEF t, m, n
<1>4. ASSUME NEW i \in 1..(m + n)
      PROVE  /\ i <= m => i \in 1..m /\ t[i] = low[i] /\ low[i] \in ToSet(low)
             /\ i > m => i - m \in 1..n /\ t[i] = high[i - m] /\ high[i - m] \in ToSet(high)
  <2>1. /\ i <= m => i \in 1..m /\ t[i] = low[i]
        /\ i > m => i - m \in 1..n /\ t[i] = high[i - m]
    BY <1>1, <1>2
  <2> QED
    BY <1>1, <2>1 DEF ToSet
<1>5. InOrder(t)
  <2> SUFFICES ASSUME NEW i \in 1..(m + n), NEW j \in 1..(m + n), i < j
               PROVE  t[i].end <= t[j].base
    BY <1>3 DEF InOrder
  <2>1. CASE j <= m
    BY <1>1, <1>4, <2>1 DEF InOrder
  <2>2. CASE i > m
    <3>1. i - m < j - m /\ j > m
      BY <1>1, <2>2
    <3>2. i - m \in DOMAIN high /\ j - m \in DOMAIN high /\ t[i] = high[i - m] /\ t[j] = high[j - m]
      BY <1>1, <1>4, <2>2, <3>1
    <3> QED
      BY <1>1, <3>1, <3>2 DEF InOrder
  <2>3. CASE i <= m /\ j > m
    BY <1>4, <2>3
  <2> QED
    BY <1>1, <2>1, <2>2, <2>3
<1>6. ToSet(t) = ToSet(low) \cup ToSet(high)
  <2>1. ASSUME NEW r \in ToSet(t) PROVE r \in ToSet(low) \cup ToSet(high)
    <3>1. PICK i \in 1..(m + n) : r = t[i]
      BY <1>3 DEF ToSet
    <3> QED
      BY <1>1, <1>4, <3>1
  <2>2. ASSUME NEW r \in ToSet(low) PROVE r \in ToSet(t)
    <3>1. PICK i \in 1..m : r = low[i]
      BY <1>1 DEF ToSet
    <3>2. i \in 1..(m + n) /\ i <= m
      BY <1>1
    <3> QED
      BY <1>3, <1>4, <3>1, <3>2 DEF ToSet
  <2>3. ASSUME NEW r \in ToSet(high) PROVE r \in ToSet(t)
    <3>1. PICK i \in 1..n : r = high[i]
      BY <1>1 DEF ToSet
    <3>2. i + m \in 1..(m + n) /\ i + m > m /\ (i + m) - m = i
      BY <1>1
    <3>3. t[i + m] = r
      BY <1>4, <3>1, <3>2
    <3> QED
      BY <1>3, <3>2, <3>3 DEF ToSet
  <2> QED
    BY <2>1, <2>2, <2>3
<1> QED
  BY <1>2, <1>5, <1>6 DEF t, Sorted

\* A part of a sorted list.
LEMMA CutSorted ==
  ASSUME NEW S, NEW list \in Sorted(S), NEW a \in 1..(Len(list) + 1), NEW b \in 0..Len(list), a <= b + 1
  PROVE  /\ SubSeq(list, a, b) \in Sorted(S)
         /\ ToSet(SubSeq(list, a, b)) = {list[i] : i \in a..b}
         /\ Len(SubSeq(list, a, b)) = b + 1 - a
         /\ \A i \in 1..(b + 1 - a) : SubSeq(list, a, b)[i] = list[a + i - 1]
<1> DEFINE t == SubSeq(list, a, b)
           n == Len(list)
<1>1. /\ list \in Seq(S) /\ InOrder(list) /\ n \in Nat /\ DOMAIN list = 1..n
      /\ \A i \in 1..n : list[i] \in S
  BY LenProperties, ElementOfSeq DEF Sorted
<1>2. \A i \in a..b : list[i] \in S
  BY <1>1
<1>3. /\ t \in Seq(S) /\ Len(t) = (IF a <= b THEN b - a + 1 ELSE 0)
      /\ \A i \in 1..(b - a + 1) : t[i] = list[a + i - 1]
  BY <1>1, <1>2, SubSeqProperties
<1> HIDE DEF t, n
<1>4. /\ a \in Int /\ b \in Int /\ 1 <= a /\ b <= n
      /\ Len(t) = b + 1 - a /\ b - a + 1 = b + 1 - a
  BY <1>1, <1>3 DEF n
<1>5. DOMAIN t = 1..(b + 1 - a) /\ \A i \in 1..(b + 1 - a) : t[i] = list[a + i - 1]
  BY <1>3, <1>4, LenProperties
<1>6. InOrder(t)
  <2> SUFFICES ASSUME NEW i \in 1..(b + 1 - a), NEW j \in 1..(b + 1 - a), i < j
               PROVE  t[i].end <= t[j].base
    BY <1>5 DEF InOrder
  <2>1. a + i - 1 \in 1..n /\ a + j - 1 \in 1..n /\ a + i - 1 < a + j - 1
    BY <1>1, <1>4
  <2> QED
    BY <1>1, <1>5, <2>1 DEF InOrder
<1>7. ToSet(t) = {list[i] : i \in a..b}
  <2>1. ASSUME NEW r \in ToSet(t) PROVE r \in {list[i] : i \in a..b}
    <3>1. PICK i \in 1..(b + 1 - a) : r = t[i]
      BY <1>5 DEF ToSet
    <3>2. a + i - 1 \in a..b
      BY <1>4
    <3> QED
      BY <1>5, <3>1, <3>2
  <2>2. ASSUME NEW i \in a..b PROVE list[i] \in ToSet(t)
    <3>1. i + 1 - a \in 1..(b + 1 - a) /\ a + (i + 1 - a) - 1 = i
      BY <1>4
    <3>2. t[i + 1 - a] = list[i]
      BY <1>5, <3>1
    <3> QED
      BY <1>5, <3>1, <3>2 DEF ToSet
  <2> QED
    BY <2>1, <2>2
<1> QED
  BY <1>3, <1>4, <1>5, <1>6, <1>7 DEF t, Sorted

\* A sorted list in two parts.
LEMMA PartsSorted ==
  ASSUME NEW S, NEW list \in Sorted(S), NEW k \in 0..Len(list)
  PROVE  /\ SubSeq(list, 1, k) \in Sorted(S) /\ Len(SubSeq(list, 1, k)) = k
         /\ ToSet(SubSeq(list, 1, k)) = {list[i] : i \in 1..k}
         /\ SubSeq(list, k + 1, Len(list)) \in Sorted(S)
         /\ Len(SubSeq(list, k + 1, Len(list))) = Len(list) - k
         /\ ToSet(SubSeq(list, k + 1, Len(list))) = {list[i] : i \in (k + 1)..Len(list)}
<1>1. Len(list) \in Nat /\ k \in Nat /\ k <= Len(list)
  BY LenProperties DEF Sorted
<1>2. 1 \in 1..(Len(list) + 1) /\ 1 <= k + 1 /\ k + 1 - 1 = k
  BY <1>1
<1>3. /\ k + 1 \in 1..(Len(list) + 1) /\ Len(list) \in 0..Len(list) /\ k + 1 <= Len(list) + 1
      /\ Len(list) + 1 - (k + 1) = Len(list) - k
  BY <1>1
<1>4. /\ SubSeq(list, 1, k) \in Sorted(S) /\ Len(SubSeq(list, 1, k)) = k + 1 - 1
      /\ ToSet(SubSeq(list, 1, k)) = {list[i] : i \in 1..k}
  BY <1>2, CutSorted
<1>5. /\ SubSeq(list, k + 1, Len(list)) \in Sorted(S)
      /\ Len(SubSeq(list, k + 1, Len(list))) = Len(list) + 1 - (k + 1)
      /\ ToSet(SubSeq(list, k + 1, Len(list))) = {list[i] : i \in (k + 1)..Len(list)}
  <2> DEFINE a == k + 1
             b == Len(list)
  <2>1. a \in 1..(Len(list) + 1) /\ b \in 0..Len(list) /\ a <= b + 1
    BY <1>3
  <2> HIDE DEF a, b
  <2>2. /\ SubSeq(list, a, b) \in Sorted(S) /\ Len(SubSeq(list, a, b)) = b + 1 - a
        /\ ToSet(SubSeq(list, a, b)) = {list[i] : i \in a..b}
    BY <2>1, CutSorted
  <2> QED
    BY <2>2 DEF a, b
<1> QED
  BY <1>2, <1>3, <1>4, <1>5

\* A list of one region, of none.
LEMMA ShortSorted ==
  ASSUME NEW S
  PROVE  /\ <<>> \in Sorted(S) /\ ToSet(<<>>) = {}
         /\ \A r \in S : <<r>> \in Sorted(S) /\ ToSet(<<r>>) = {r}
<1>1. <<>> \in Sorted(S) /\ ToSet(<<>>) = {}
  BY EmptySeq DEF Sorted, InOrder, ToSet
<1>2. ASSUME NEW r \in S PROVE <<r>> \in Sorted(S) /\ ToSet(<<r>>) = {r}
  <2>1. <<r>> \in Seq(S) /\ DOMAIN <<r>> = 1..1 /\ <<r>>[1] = r
    OBVIOUS
  <2>2. \A i \in 1..1 : i = 1
    OBVIOUS
  <2> QED
    BY <2>1, <2>2 DEF Sorted, InOrder, ToSet
<1> QED
  BY <1>1, <1>2

\* The first k regions end below r, the others start above it.
Gap(list, k, r) == /\ k \in 0..Len(list)
                   /\ \A j \in 1..k : list[j].end <= r.base
                   /\ \A j \in (k + 1)..Len(list) : r.end <= list[j].base

\* A region comes into a gap of the list.
LEMMA InsertSorted ==
  ASSUME NEW S, Spans(S), NEW list \in Sorted(S), NEW r \in S, NEW k, Gap(list, k, r)
  PROVE  /\ InsertAt(list, k + 1, r) \in Sorted(S)
         /\ ToSet(InsertAt(list, k + 1, r)) = ToSet(list) \cup {r}
<1> DEFINE n    == Len(list)
           low  == SubSeq(list, 1, k)
           high == SubSeq(list, k + 1, n)
<1>1. list \in Seq(S) /\ n \in Nat /\ DOMAIN list = 1..n /\ k \in Int /\ 0 <= k /\ k <= n
      /\ \A i \in 1..n : list[i] \in S
  BY LenProperties, ElementOfSeq DEF Sorted, Gap
<1> USE DEF Gap, Spans
<1>2. low \in Sorted(S) /\ ToSet(low) = {list[i] : i \in 1..k}
  BY PartsSorted
<1>3. high \in Sorted(S) /\ ToSet(high) = {list[i] : i \in (k + 1)..n}
  BY PartsSorted
<1>4. <<r>> \in Sorted(S) /\ ToSet(<<r>>) = {r}
  BY ShortSorted
<1>5. InsertAt(list, k + 1, r) = (low \o <<r>>) \o high
  <2>1. (k + 1) - 1 = k
    BY <1>1
  <2> QED
    BY <2>1 DEF InsertAt
<1> HIDE DEF low, high
<1>6. low \o <<r>> \in Sorted(S) /\ ToSet(low \o <<r>>) = ToSet(low) \cup {r}
  BY <1>2, <1>4, ConcatSorted
<1>7. ASSUME NEW q \in ToSet(low) \cup {r}, NEW p \in ToSet(high) PROVE q.end <= p.base
  <2>1. PICK j \in (k + 1)..n : p = list[j]
    BY <1>3
  <2>2. r.end <= p.base /\ p \in S
    BY <1>1, <2>1
  <2>3. CASE q \in ToSet(low)
    <3>1. PICK i \in 1..k : q = list[i]
      BY <1>2, <2>3
    <3>2. q.end <= r.base /\ q \in S
      BY <1>1, <3>1
    <3> QED
      BY <2>2, <3>2
  <2> QED
    BY <2>2, <2>3
<1>8. /\ (low \o <<r>>) \o high \in Sorted(S)
      /\ ToSet((low \o <<r>>) \o high) = (ToSet(low) \cup {r}) \cup ToSet(high)
  <2> DEFINE lower == low \o <<r>>
  <2>1. \A q \in ToSet(lower), p \in ToSet(high) : q.end <= p.base
    BY <1>6, <1>7
  <2> HIDE DEF lower
  <2>2. lower \in Sorted(S) => lower \o high \in Sorted(S) /\ ToSet(lower \o high) = ToSet(lower) \cup ToSet(high)
    BY <1>3, <2>1, ConcatSorted
  <2> QED
    BY <1>6, <2>2 DEF lower
<1>9. ToSet(list) = ToSet(low) \cup ToSet(high)
  <2>1. 1..n = (1..k) \cup ((k + 1)..n)
    BY <1>1
  <2> QED
    BY <1>1, <1>2, <1>3, <2>1 DEF ToSet
<1> QED
  BY <1>5, <1>8, <1>9

\* A region leaves a sorted list.
LEMMA RemoveSorted ==
  ASSUME NEW S, Spans(S), NEW list \in Sorted(S), NEW k \in 1..Len(list)
  PROVE  /\ RemoveAt(list, k) \in Sorted(S)
         /\ ToSet(RemoveAt(list, k)) = ToSet(list) \ {list[k]}
<1> DEFINE n    == Len(list)
           low  == SubSeq(list, 1, k - 1)
           high == SubSeq(list, k + 1, n)
<1>1. list \in Seq(S) /\ InOrder(list) /\ n \in Nat /\ DOMAIN list = 1..n /\ k \in Int /\ 1 <= k /\ k <= n
  BY LenProperties DEF Sorted
<1>2. low \in Sorted(S) /\ ToSet(low) = {list[i] : i \in 1..(k - 1)}
  <2>1. k - 1 \in 0..n
    BY <1>1
  <2> QED
    BY <2>1, PartsSorted
<1>3. high \in Sorted(S) /\ ToSet(high) = {list[i] : i \in (k + 1)..n}
  <2>1. k \in 0..n
    BY <1>1
  <2> QED
    BY <2>1, PartsSorted
<1> HIDE DEF low, high
<1>4. \A q \in ToSet(low), p \in ToSet(high) : q.end <= p.base
  <2> SUFFICES ASSUME NEW i \in 1..(k - 1), NEW j \in (k + 1)..n PROVE list[i].end <= list[j].base
    BY <1>2, <1>3
  <2>1. i \in 1..n /\ j \in 1..n /\ i < j
    BY <1>1
  <2> QED
    BY <1>1, <2>1 DEF InOrder
<1>5. low \o high \in Sorted(S) /\ ToSet(low \o high) = ToSet(low) \cup ToSet(high)
  BY <1>2, <1>3, <1>4, ConcatSorted
<1>6. \A i \in 1..n : list[i] = list[k] <=> i = k
  BY <1>1, OrderApart
<1>7. ToSet(list) \ {list[k]} = ToSet(low) \cup ToSet(high)
  <2>1. \A i \in 1..n : i # k <=> (i \in 1..(k - 1) \/ i \in (k + 1)..n)
    BY <1>1
  <2>2. \A i \in 1..(k - 1) : i \in 1..n
    BY <1>1
  <2>3. \A i \in (k + 1)..n : i \in 1..n
    BY <1>1
  <2> QED
    BY <1>1, <1>2, <1>3, <1>6, <2>1, <2>2, <2>3 DEF ToSet
<1> QED
  BY <1>5, <1>7 DEF low, high, RemoveAt

\* A list with another k-th element.
Replaced(list, k, r) == [list EXCEPT ![k] = r]

\* A region is replaced by one that fits between its neighbours.
LEMMA ReplaceSorted ==
  ASSUME NEW S, Spans(S), NEW list \in Sorted(S), NEW k \in 1..Len(list), NEW r \in S,
         \A j \in 1..(k - 1) : list[j].end <= r.base,
         \A j \in (k + 1)..Len(list) : r.end <= list[j].base
  PROVE  /\ Replaced(list, k, r) \in Sorted(S)
         /\ ToSet(Replaced(list, k, r)) = (ToSet(list) \ {list[k]}) \cup {r}
<1> DEFINE n == Len(list)
           t == Replaced(list, k, r)
<1>1. list \in Seq(S) /\ InOrder(list) /\ n \in Nat /\ DOMAIN list = 1..n /\ k \in Int /\ 1 <= k /\ k <= n
  BY LenProperties DEF Sorted
<1>2. t \in Seq(S) /\ Len(t) = n /\ \A j \in 1..n : t[j] = IF j = k THEN r ELSE list[j]
  BY <1>1, ExceptSeq DEF Replaced
<1>3. DOMAIN t = 1..n
  BY <1>2, LenProperties
<1> HIDE DEF t, n
<1>4. InOrder(t)
  <2> SUFFICES ASSUME NEW i \in 1..n, NEW j \in 1..n, i < j
               PROVE  t[i].end <= t[j].base
    BY <1>3 DEF InOrder
  <2>1. CASE i = k
    <3>1. j \in (k + 1)..n /\ j # k
      BY <1>1, <2>1
    <3> QED
      BY <1>1, <1>2, <2>1, <3>1 DEF n
  <2>2. CASE j = k
    <3>1. i \in 1..(k - 1) /\ i # k
      BY <1>1, <2>2
    <3> QED
      BY <1>2, <2>2, <3>1
  <2>3. CASE i # k /\ j # k
    BY <1>1, <1>2, <2>3 DEF InOrder
  <2> QED
    BY <2>1, <2>2, <2>3
<1>5. \A i \in 1..n : list[i] = list[k] <=> i = k
  BY <1>1, OrderApart
<1>6. ToSet(t) = (ToSet(list) \ {list[k]}) \cup {r}
  BY <1>1, <1>2, <1>3, <1>5 DEF ToSet
<1> QED
  BY <1>2, <1>4, <1>6 DEF t, Sorted

\* The position of the last of the regions at the beginning that have a property.
LEMMA LastOfFirst ==
  ASSUME NEW n \in Nat, NEW Good
  PROVE  LET k == Max({i \in 0..n : \A j \in 1..i : j \in Good}) IN
         /\ k \in 0..n /\ \A j \in 1..k : j \in Good
         /\ k < n => k + 1 \notin Good
<1> DEFINE I == {i \in 0..n : \A j \in 1..i : j \in Good}
           k == Max(I)
<1>1. 0 \in I
  OBVIOUS
<1>2. I \in SUBSET Int /\ IsFiniteSet(I) /\ I # {}
  <2>1. IsFiniteSet(0..n)
    BY FS_Interval
  <2>2. IsFiniteSet(I)
    BY <2>1, FS_Subset
  <2> QED
    BY <1>1, <2>2
<1>3. k \in I /\ \A i \in I : i <= k
  BY <1>2, MaxExists
<1>4. ASSUME k < n, k + 1 \in Good PROVE FALSE
  <2>1. k + 1 \in 0..n /\ \A j \in 1..(k + 1) : j \in 1..k \/ j = k + 1
    BY <1>3, <1>4
  <2>2. k + 1 \in I
    BY <1>3, <1>4, <2>1
  <2> QED
    BY <1>3, <2>2
<1> QED
  BY <1>3, <1>4

\* SortedAdd puts a region that overlaps none where it belongs.
LEMMA SortedAddSorted ==
  ASSUME NEW S, Spans(S), NEW list \in Sorted(S), NEW r \in S,
         \A q \in ToSet(list) : Beside(q, r)
  PROVE  /\ SortedAdd(list, r) \in Sorted(S)
         /\ ToSet(SortedAdd(list, r)) = ToSet(list) \cup {r}
<1> DEFINE n == Len(list)
           precedes(s) == ~OverlapRegion(s, r.base, r.end) /\ s.base < r.end
           Good == {j \in 1..n : precedes(list[j])}
           k == Max({i \in 0..n : \A j \in 1..i : precedes(list[j])})
<1>1. /\ list \in Seq(S) /\ InOrder(list) /\ n \in Nat /\ DOMAIN list = 1..n
      /\ \A i \in 1..n : list[i] \in S /\ list[i] \in ToSet(list)
  BY Members DEF Sorted
<1>2. r.base \in Int /\ r.end \in Int /\ r.base < r.end
  BY DEF Spans
<1>3. \A i \in 1..n : list[i].base \in Int /\ list[i].end \in Int /\ list[i].base < list[i].end
  BY <1>1 DEF Spans
<1>4. ASSUME NEW i \in 1..n PROVE i \in Good <=> list[i].end <= r.base
  <2>1. Beside(list[i], r)
    BY <1>1
  <2>2. list[i].end <= r.base => precedes(list[i])
    BY <1>2, <1>3 DEF OverlapRegion, ContainAddress
  <2>3. r.end <= list[i].base => ~precedes(list[i]) /\ ~(list[i].end <= r.base)
    BY <1>2, <1>3
  <2> QED
    BY <2>1, <2>2, <2>3 DEF Beside
<1>5. {i \in 0..n : \A j \in 1..i : precedes(list[j])} = {i \in 0..n : \A j \in 1..i : j \in Good}
  <2>1. \A i \in 0..n : \A j \in 1..i : j \in 1..n
    BY <1>1
  <2> QED
    BY <2>1
<1> HIDE DEF Good
<1>6. k \in 0..n /\ (\A j \in 1..k : j \in Good) /\ (k < n => k + 1 \notin Good)
  BY <1>1, <1>5, LastOfFirst
<1>7. SortedAdd(list, r) = InsertAt(list, k + 1, r)
  BY DEF SortedAdd
<1> HIDE DEF k, n
<1>8. \A j \in 1..k : list[j].end <= r.base
  BY <1>1, <1>4, <1>6
<1>9. ASSUME NEW j \in (k + 1)..n PROVE r.end <= list[j].base
  <2>1. k + 1 \in 1..n /\ k < n /\ j \in 1..n
    BY <1>1, <1>6
  <2>2. ~(list[k + 1].end <= r.base) /\ Beside(list[k + 1], r)
    BY <1>1, <1>4, <1>6, <2>1
  <2>3. r.end <= list[k + 1].base
    BY <2>2 DEF Beside
  <2>4. j = k + 1 \/ list[k + 1].end <= list[j].base
    BY <1>1, <1>6, <2>1 DEF InOrder
  <2> QED
    BY <1>2, <1>3, <2>1, <2>3, <2>4
<1>10. Gap(list, k, r)
  BY <1>6, <1>8, <1>9 DEF n, Gap
<1>11. /\ InsertAt(list, k + 1, r) \in Sorted(S)
       /\ ToSet(InsertAt(list, k + 1, r)) = ToSet(list) \cup {r}
  BY <1>10, InsertSorted
<1> QED
  BY <1>7, <1>11

-----------------------------------------------------------------------------
(* Sums as numbers of words.                                               *)

\* As many words as the region is long.
LEMMA WordsOfRegion ==
  ASSUME NEW from \in Int, NEW to \in Int, from < to
  PROVE  IsFiniteSet(from..(to - 1)) /\ Cardinality(from..(to - 1)) = to - from
<1>1. to - 1 \in Int /\ ~(from > to - 1) /\ (to - 1) - from + 1 = to - from
  OBVIOUS
<1> QED
  BY <1>1, FS_Interval

\* Words counted in two parts.
LEMMA CountApart ==
  ASSUME NEW A, IsFiniteSet(A), NEW B, IsFiniteSet(B), A \cap B = {}
  PROVE  /\ IsFiniteSet(A \cup B) /\ Cardinality(A \cup B) = Cardinality(A) + Cardinality(B)
         /\ Cardinality(A) \in Nat /\ Cardinality(B) \in Nat
<1>1. IsFiniteSet(A \cup B) /\ Cardinality(A \cup B) = Cardinality(A) + Cardinality(B) - Cardinality(A \cap B)
  BY FS_Union
<1>2. Cardinality(A \cap B) = 0
  BY FS_EmptySet
<1>3. Cardinality(A) \in Nat /\ Cardinality(B) \in Nat
  BY FS_CardinalityType
<1> QED
  BY <1>1, <1>2, <1>3

\* g is the size of the sets W, which have nothing in common.
Measures(g, W, S) == \A x \in S : IsFiniteSet(W[x]) /\ g[x] = Cardinality(W[x])

Apart(W, S) == \A x, y \in S : x # y => W[x] \cap W[y] = {}

Unites(U, W, S) == U = UNION {W[x] : x \in S}


\* The sizes of sets that share nothing add up to that of their union.
LEMMA TotalOfSets ==
  ASSUME NEW S, IsFiniteSet(S), NEW W, NEW g,
         Measures(g, W, S), Apart(W, S),
         NEW U, Unites(U, W, S)
  PROVE  IsFiniteSet(U) /\ Total(g, S) = Cardinality(U)
<1> DEFINE All(T) == UNION {W[x] : x \in T}
           Holds  == {T \in SUBSET S : IsFiniteSet(All(T)) /\ Total(g, T) = Cardinality(All(T))}
<1> USE DEF Measures, Apart, Unites
<1>1. {} \in Holds
  <2>1. All({}) = {}
    OBVIOUS
  <2> QED
    BY <2>1, FS_EmptySet, TotalEmpty
<1>2. ASSUME NEW T \in SUBSET S, NEW x \in S \ T, T \in Holds
      PROVE  T \cup {x} \in Holds
  <2>1. IsFiniteSet(T) /\ \A y \in T \cup {x} : g[y] \in Int
    BY FS_Subset, FS_CardinalityType
  <2>2. Total(g, T \cup {x}) = Total(g, T) + g[x]
    BY <2>1, TotalAdd
  <2>3. All(T \cup {x}) = All(T) \cup W[x] /\ All(T) \cap W[x] = {}
    OBVIOUS
  <2>4. IsFiniteSet(All(T)) /\ Total(g, T) = Cardinality(All(T))
    BY <1>2
  <2>5. IsFiniteSet(W[x]) /\ g[x] = Cardinality(W[x])
    OBVIOUS
  <2> HIDE DEF All
  <2>6. /\ IsFiniteSet(All(T) \cup W[x])
        /\ Cardinality(All(T) \cup W[x]) = Cardinality(All(T)) + Cardinality(W[x])
    BY <2>3, <2>4, <2>5, CountApart
  <2> QED
    BY <2>2, <2>3, <2>4, <2>5, <2>6
<1> HIDE DEF Holds
<1>3. S \in Holds
  BY <1>1, <1>2, SetInduction
<1> QED
  BY <1>3 DEF Holds

\* MapThenSumSet adds up sizes: its fold, as a function of the subsets.
SizeSums(F, list, I) ==
  F = [s \in SUBSET I |-> IF s = {} THEN 0 ELSE Size(list[Pick(s)]) + F[s \ {Pick(s)}]]

\* The fold adds up the sizes of the regions at the positions I.
LEMMA SizeSum ==
  ASSUME NEW list, NEW I, IsFiniteSet(I), \A i \in I : Size(list[i]) \in Int
  PROVE  MapThenSumSet(LAMBDA i : Size(list[i]), I) = Total([i \in I |-> Size(list[i])], I)
<1> DEFINE g == [i \in I |-> Size(list[i])]
           H == CHOOSE F : SizeSums(F, list, I)
<1>1. MapThenSumSet(LAMBDA i : Size(list[i]), I) = H[I]
  BY DEF MapThenSumSet, MapThenFoldSet, SizeSums, Pick
<1>2. \A i \in I : g[i] \in Int /\ g[i] = Size(list[i])
  OBVIOUS
<1> HIDE DEF g
<1>3. PICK F : AddsUp(F, g, I)
  BY <1>2, SumsExist
<1>4. SumsUp(F, g, I) /\ Total(g, I) = F[I]
  BY <1>2, <1>3, AddsUpSumsUp, TotalAddsUp
<1>5. ASSUME NEW G
      PROVE  SizeSums(G, list, I) <=> SumsUp(G, g, I)
  <2>1. \A d \in SUBSET I : d # {} => Pick(d) \in I
    BY DEF Pick
  <2>2. [d \in SUBSET I |-> IF d = {} THEN 0 ELSE Size(list[Pick(d)]) + G[d \ {Pick(d)}]]
        = [d \in SUBSET I |-> IF d = {} THEN 0 ELSE g[Pick(d)] + G[d \ {Pick(d)}]]
    BY <1>2, <2>1
  <2> QED
    BY <2>2 DEF SizeSums, SumsUp
<1>6. SizeSums(H, list, I)
  BY <1>4, <1>5
<1> HIDE DEF H
<1>7. H[I] = F[I]
  BY <1>2, <1>4, <1>5, <1>6, SumsAgree
<1> QED
  BY <1>1, <1>4, <1>7 DEF g

\* The same for what is committed in the regions of a list.
CommittedSums(F, list, I) ==
  F = [s \in SUBSET I |-> IF s = {} THEN 0
                          ELSE CommittedSize(list[Pick(s)].committed) + F[s \ {Pick(s)}]]

\* The fold adds up what is committed at the positions I.
LEMMA CommittedSum ==
  ASSUME NEW list, NEW I, IsFiniteSet(I), \A i \in I : CommittedSize(list[i].committed) \in Int
  PROVE  MapThenSumSet(LAMBDA i : CommittedSize(list[i].committed), I)
           = Total([i \in I |-> CommittedSize(list[i].committed)], I)
<1> DEFINE g == [i \in I |-> CommittedSize(list[i].committed)]
           H == CHOOSE F : CommittedSums(F, list, I)
<1>1. MapThenSumSet(LAMBDA i : CommittedSize(list[i].committed), I) = H[I]
  BY DEF MapThenSumSet, MapThenFoldSet, CommittedSums, Pick
<1>2. \A i \in I : g[i] \in Int /\ g[i] = CommittedSize(list[i].committed)
  OBVIOUS
<1> HIDE DEF g
<1>3. PICK F : AddsUp(F, g, I)
  BY <1>2, SumsExist
<1>4. SumsUp(F, g, I) /\ Total(g, I) = F[I]
  BY <1>2, <1>3, AddsUpSumsUp, TotalAddsUp
<1>5. ASSUME NEW G
      PROVE  CommittedSums(G, list, I) <=> SumsUp(G, g, I)
  <2>1. \A d \in SUBSET I : d # {} => Pick(d) \in I
    BY DEF Pick
  <2>2. [d \in SUBSET I |-> IF d = {} THEN 0 ELSE CommittedSize(list[Pick(d)].committed) + G[d \ {Pick(d)}]]
        = [d \in SUBSET I |-> IF d = {} THEN 0 ELSE g[Pick(d)] + G[d \ {Pick(d)}]]
    BY <1>2, <2>1
  <2> QED
    BY <2>2 DEF CommittedSums, SumsUp
<1>6. CommittedSums(H, list, I)
  BY <1>4, <1>5
<1> HIDE DEF H
<1>7. H[I] = F[I]
  BY <1>2, <1>4, <1>5, <1>6, SumsAgree
<1> QED
  BY <1>1, <1>4, <1>7 DEF g

\* The words of all regions of a set.
Covered(C) == UNION {Within(c) : c \in C}

\* The sizes in a sorted list add up to the number of words.
LEMMA SizesCount ==
  ASSUME NEW S, Spans(S), NEW list \in Sorted(S), NEW I \in SUBSET (1..Len(list))
  PROVE  /\ MapThenSumSet(LAMBDA i : Size(list[i]), I) = Cardinality(Covered({list[i] : i \in I}))
         /\ IsFiniteSet(Covered({list[i] : i \in I}))
         /\ Cardinality(Covered({list[i] : i \in I})) \in Nat
<1> DEFINE W == [i \in I |-> Within(list[i])]
           g == [i \in I |-> Size(list[i])]
<1>1. list \in Seq(S) /\ InOrder(list) /\ Len(list) \in Nat /\ DOMAIN list = 1..Len(list)
  BY LenProperties DEF Sorted
<1>2. IsFiniteSet(I)
  <2>1. IsFiniteSet(1..Len(list))
    BY <1>1, FS_Interval
  <2> QED
    BY <2>1, FS_Subset
<1>3. \A i \in I : list[i] \in S /\ list[i] \in ToSet(list)
  BY <1>1, Members
<1>4. ASSUME NEW i \in I
      PROVE  IsFiniteSet(W[i]) /\ g[i] = Cardinality(W[i]) /\ g[i] \in Int
  <2>1. list[i].base \in Int /\ list[i].end \in Int /\ list[i].base < list[i].end
    BY <1>3 DEF Spans
  <2> QED
    BY <2>1, WordsOfRegion DEF Within, Size
<1>5. ASSUME NEW i \in I, NEW j \in I, i # j
      PROVE  W[i] \cap W[j] = {}
  <2>1. list[i] # list[j] /\ Beside(list[i], list[j])
    BY <1>1, <1>3, <1>5, OrderApart
  <2>2. /\ list[i].base \in Int /\ list[i].end \in Int
        /\ list[j].base \in Int /\ list[j].end \in Int
    BY <1>3 DEF Spans
  <2>3. ASSUME NEW w \in Within(list[i]), w \in Within(list[j]) PROVE FALSE
    BY <2>1, <2>2, <2>3 DEF Within, Beside
  <2> QED
    BY <2>3
<1>6. MapThenSumSet(LAMBDA i : Size(list[i]), I) = Total(g, I)
  BY <1>2, <1>4, SizeSum
<1>7. UNION {W[i] : i \in I} = Covered({list[i] : i \in I})
  BY DEF Covered
<1>8. IsFiniteSet(UNION {W[i] : i \in I}) /\ Total(g, I) = Cardinality(UNION {W[i] : i \in I})
  <2>1. Measures(g, W, I)
    BY <1>4 DEF Measures
  <2>2. Apart(W, I)
    BY <1>5 DEF Apart
  <2> DEFINE U == UNION {W[i] : i \in I}
  <2>3. Unites(U, W, I)
    BY DEF Unites
  <2> HIDE DEF W, g, U
  <2>4. IsFiniteSet(U) /\ Total(g, I) = Cardinality(U)
    BY <1>2, <2>1, <2>2, <2>3, TotalOfSets
  <2> QED
    BY <2>4 DEF U
<1> HIDE DEF W, g
<1> QED
  BY <1>6, <1>7, <1>8, FS_CardinalityType

\* What is committed in a list of committed regions.
LEMMA CommittedSizeCounts ==
  ASSUME NEW S, Spans(S), NEW list \in Sorted(S)
  PROVE  /\ CommittedSize(list) = Cardinality(Covered(ToSet(list)))
         /\ IsFiniteSet(Covered(ToSet(list)))
         /\ CommittedSize(list) \in Nat
<1>1. DOMAIN list = 1..Len(list) /\ {list[i] : i \in 1..Len(list)} = ToSet(list)
  <2>1. DOMAIN list = 1..Len(list)
    BY LenProperties DEF Sorted
  <2> QED
    BY <2>1 DEF ToSet
<1>2. CommittedSize(list) = MapThenSumSet(LAMBDA i : Size(list[i]), 1..Len(list))
  BY <1>1 DEF CommittedSize
<1> DEFINE I == 1..Len(list)
<1>3. I \in SUBSET (1..Len(list))
  OBVIOUS
<1> HIDE DEF I
<1>4. /\ MapThenSumSet(LAMBDA i : Size(list[i]), I) = Cardinality(Covered({list[i] : i \in I}))
      /\ IsFiniteSet(Covered({list[i] : i \in I}))
      /\ Cardinality(Covered({list[i] : i \in I})) \in Nat
  BY <1>3, SizesCount
<1> QED
  BY <1>1, <1>2, <1>4 DEF I

-----------------------------------------------------------------------------
(* Committed regions, and what uncommitting a range leaves of a list.      *)

\* FlattenSeq joins the lists one after the other.
Flattens(F, seqs, n) == F = [i \in 1..n |-> IF i = 1 THEN seqs[i] ELSE F[i - 1] \o seqs[i]]

\* There is such a function.
LEMMA FlattenExists ==
  ASSUME NEW n \in Nat, NEW seqs
  PROVE  \E F : Flattens(F, seqs, n)
<1> DEFINE Holds == {m \in Nat : \E F : Flattens(F, seqs, m)}
<1>1. 0 \in Holds
  <2> DEFINE F == [i \in 1..0 |-> seqs]
  <2>1. F = [i \in 1..0 |-> IF i = 1 THEN seqs[i] ELSE F[i - 1] \o seqs[i]]
    OBVIOUS
  <2> HIDE DEF F
  <2> QED
    BY <2>1 DEF Flattens
<1>2. ASSUME NEW m \in Nat, m \in Holds PROVE m + 1 \in Holds
  <2>1. PICK F : Flattens(F, seqs, m)
    BY <1>2
  <2>2. \A i \in 1..m : F[i] = IF i = 1 THEN seqs[i] ELSE F[i - 1] \o seqs[i]
    BY <2>1 DEF Flattens
  <2> DEFINE G == [i \in 1..(m + 1) |-> IF i <= m THEN F[i]
                                        ELSE IF i = 1 THEN seqs[i] ELSE F[i - 1] \o seqs[i]]
  <2>3. ASSUME NEW i \in 1..(m + 1)
        PROVE  G[i] = IF i = 1 THEN seqs[i] ELSE G[i - 1] \o seqs[i]
    <3>1. i # 1 => i - 1 \in 1..m /\ i - 1 \in 1..(m + 1) /\ i - 1 <= m
      OBVIOUS
    <3>2. i # 1 => G[i - 1] = F[i - 1]
      BY <3>1
    <3>3. i <= m => i \in 1..m
      OBVIOUS
    <3> QED
      BY <2>2, <3>1, <3>2, <3>3
  <2>4. G = [i \in 1..(m + 1) |-> IF i = 1 THEN seqs[i] ELSE G[i - 1] \o seqs[i]]
    <3> DEFINE K == [i \in 1..(m + 1) |-> IF i = 1 THEN seqs[i] ELSE G[i - 1] \o seqs[i]]
    <3>1. \A i \in 1..(m + 1) : K[i] = G[i]
      BY <2>3
    <3>2. /\ G = [i \in 1..(m + 1) |-> G[i]]
          /\ K = [i \in 1..(m + 1) |-> K[i]]
      OBVIOUS
    <3> HIDE DEF G, K
    <3>3. G = K
      BY <3>1, <3>2
    <3> QED
      BY <3>3 DEF K
  <2> HIDE DEF G
  <2>5. m + 1 \in Nat
    OBVIOUS
  <2> QED
    BY <2>4, <2>5 DEF Flattens
<1> HIDE DEF Holds
<1>3. n \in Holds
  BY <1>1, <1>2, NumberInduction
<1> QED
  BY <1>3 DEF Holds

\* If each region of a sorted list is replaced by a sorted list of its parts, the
\* parts are a sorted list.
LEMMA FlattenSorted ==
  ASSUME NEW S, Spans(S), NEW list \in Sorted(S), NEW seqs,
         seqs \in [1..Len(list) -> Sorted(S)],
         \A i \in 1..Len(list) : \A d \in ToSet(seqs[i]) :
           list[i].base <= d.base /\ d.end <= list[i].end
  PROVE  /\ FlattenSeq(seqs) \in Sorted(S)
         /\ ToSet(FlattenSeq(seqs)) = UNION {ToSet(seqs[i]) : i \in 1..Len(list)}
<1> DEFINE n == Len(list)
<1>1. n \in Nat /\ DOMAIN list = 1..n /\ InOrder(list) /\ \A i \in 1..n : list[i] \in S
  BY Members DEF Sorted
<1>2. seqs \in Seq(Sorted(S)) /\ Len(seqs) = n
  <2>1. Len(seqs) = n
    BY <1>1
  <2> QED
    BY <1>1, <2>1, SeqDef
<1>3. \A i \in 1..n : seqs[i] \in Sorted(S)
  OBVIOUS
<1> HIDE DEF n
<1>4. CASE n = 0
  <2>1. seqs = <<>>
    BY <1>2, <1>4, EmptySeq
  <2>2. FlattenSeq(seqs) = seqs
    BY <1>2, <1>4 DEF FlattenSeq
  <2>3. 1..n = {}
    BY <1>4
  <2> QED
    BY <2>1, <2>2, <2>3, ShortSorted DEF n
<1>5. CASE n # 0
  <2> DEFINE H == CHOOSE F : Flattens(F, seqs, n)
  <2>1. FlattenSeq(seqs) = H[n]
    BY <1>2, <1>5 DEF FlattenSeq, Flattens
  <2>2. Flattens(H, seqs, n)
    BY <1>1, FlattenExists
  <2> HIDE DEF H
  <2>3. \A i \in 1..n : H[i] = IF i = 1 THEN seqs[i] ELSE H[i - 1] \o seqs[i]
    BY <2>2 DEF Flattens
  <2> DEFINE Parts(m) == UNION {ToSet(seqs[i]) : i \in 1..m}
             Holds == {m \in Nat : m + 1 <= n => /\ H[m + 1] \in Sorted(S)
                                                 /\ ToSet(H[m + 1]) = Parts(m + 1)}
  <2>4. 0 \in Holds
    <3>1. 1 \in 1..n /\ 0 + 1 = 1 /\ 1..1 = {1}
      BY <1>1, <1>5
    <3>2. H[1] = seqs[1]
      BY <2>3, <3>1
    <3> QED
      BY <1>3, <3>1, <3>2
  <2>5. ASSUME NEW m \in Nat, m \in Holds PROVE m + 1 \in Holds
    <3> SUFFICES ASSUME (m + 1) + 1 <= n
                 PROVE  /\ H[(m + 1) + 1] \in Sorted(S)
                        /\ ToSet(H[(m + 1) + 1]) = Parts((m + 1) + 1)
      OBVIOUS
    <3> DEFINE p == m + 1
    <3>1. p \in 1..n /\ p + 1 \in 1..n /\ p + 1 # 1 /\ (p + 1) - 1 = p /\ m + 1 <= n /\ p \in Int
      BY <1>1
    <3>2. H[p] \in Sorted(S) /\ ToSet(H[p]) = Parts(p)
      BY <2>5, <3>1
    <3>3. H[p + 1] = H[p] \o seqs[p + 1]
      BY <2>3, <3>1
    <3> HIDE DEF p
    <3>4. seqs[p + 1] \in Sorted(S)
      BY <1>3, <3>1
    <3>5. ASSUME NEW r \in ToSet(H[p]), NEW q \in ToSet(seqs[p + 1]) PROVE r.end <= q.base
      <4>1. PICK i \in 1..p : r \in ToSet(seqs[i])
        BY <3>2
      <4>2. i \in 1..n /\ i < p + 1
        BY <1>1, <3>1
      <4>3. r.end <= list[i].end /\ list[p + 1].base <= q.base
        BY <3>1, <4>1, <4>2 DEF n
      <4>4. list[i].end <= list[p + 1].base
        BY <1>1, <3>1, <4>2 DEF InOrder
      <4>5. r \in S /\ q \in S /\ list[i] \in S /\ list[p + 1] \in S
        BY <1>1, <1>3, <3>1, <3>4, <4>1, <4>2, Members DEF Sorted
      <4>6. r.end \in Int /\ list[i].end \in Int /\ list[p + 1].base \in Int /\ q.base \in Int
        BY <4>5 DEF Spans
      <4> QED
        BY <4>3, <4>4, <4>6
    <3>6. /\ H[p] \o seqs[p + 1] \in Sorted(S)
          /\ ToSet(H[p] \o seqs[p + 1]) = ToSet(H[p]) \cup ToSet(seqs[p + 1])
      BY <3>2, <3>4, <3>5, ConcatSorted
    <3>7. Parts(p + 1) = Parts(p) \cup ToSet(seqs[p + 1])
      <4>1. 1..(p + 1) = (1..p) \cup {p + 1}
        BY <3>1
      <4> QED
        BY <4>1
    <3> QED
      BY <3>2, <3>3, <3>6, <3>7 DEF p
  <2> HIDE DEF Holds, Parts
  <2>6. Nat \subseteq Holds
    BY <2>4, <2>5, NumberInduction
  <2>7. n - 1 \in Holds /\ (n - 1) + 1 = n
    BY <1>1, <1>5, <2>6
  <2>8. H[n] \in Sorted(S) /\ ToSet(H[n]) = Parts(n)
    BY <1>1, <2>7 DEF Holds
  <2> QED
    BY <2>1, <2>8 DEF Parts, n
<1> QED
  BY <1>4, <1>5

CommSet == {c \in [base : Int, end : Int, stack : Stacks] : c.base < c.end}

\* Committed regions that touch come from different places.
Separate(C) == \A c, d \in C : c.end = d.base => c.stack # d.stack

CommLists == {list \in Sorted(CommSet) : Separate(ToSet(list))}

\* Committed regions have a beginning and an end.
LEMMA CommSpans == Spans(CommSet)
BY DEF Spans, CommSet

\* What is left of one region are parts of it outside the range; nothing else is
\* lost of it, and it is cut at the ends of the range alone.
LEMMA RestParts ==
  ASSUME NEW c \in CommSet, NEW from \in Int, NEW to \in Int, from < to
  PROVE  /\ Rest(c, from, to) \in Sorted(CommSet)
         /\ \A d \in ToSet(Rest(c, from, to)) :
              /\ c.base <= d.base /\ d.end <= c.end /\ d.stack = c.stack
              /\ d.end <= from \/ to <= d.base
              /\ d.base = c.base \/ d.base = to
              /\ d.end = c.end \/ d.end = from
         /\ \A w \in Within(c) \ (from..(to - 1)) :
              \E d \in ToSet(Rest(c, from, to)) : w \in Within(d)
<1> DEFINE low  == [c EXCEPT !.end = from]
           high == [c EXCEPT !.base = to]
           R    == Rest(c, from, to)
<1>1. c.base \in Int /\ c.end \in Int /\ c.base < c.end /\ c.stack \in Stacks
  BY DEF CommSet
<1>2. CASE c.end <= from \/ to <= c.base
  <2>1. R = <<c>>
    BY <1>2 DEF Rest
  <2>2. R \in Sorted(CommSet) /\ ToSet(R) = {c}
    BY <2>1, ShortSorted
  <2> HIDE DEF R
  <2>3. \A d \in ToSet(R) : /\ c.base <= d.base /\ d.end <= c.end /\ d.stack = c.stack
                            /\ d.end <= from \/ to <= d.base
                            /\ d.base = c.base \/ d.base = to
                            /\ d.end = c.end \/ d.end = from
    BY <1>1, <1>2, <2>2
  <2>4. \A w \in Within(c) : \E d \in ToSet(R) : w \in Within(d)
    BY <2>2
  <2> QED
    BY <2>2, <2>3, <2>4 DEF R
<1>3. CASE ~(c.end <= from \/ to <= c.base)
  <2> DEFINE lows  == IF c.base < from THEN <<low>> ELSE <<>>
             highs == IF to < c.end THEN <<high>> ELSE <<>>
  <2>1. R = lows \o highs
    BY <1>3 DEF Rest
  <2>2. /\ c.base < from => low \in CommSet /\ low.base = c.base /\ low.end = from /\ low.stack = c.stack
        /\ to < c.end => high \in CommSet /\ high.base = to /\ high.end = c.end /\ high.stack = c.stack
    BY <1>1 DEF CommSet
  <2> HIDE DEF low, high
  <2>3. lows \in Sorted(CommSet) /\ ToSet(lows) = IF c.base < from THEN {low} ELSE {}
    BY <2>2, ShortSorted
  <2>4. highs \in Sorted(CommSet) /\ ToSet(highs) = IF to < c.end THEN {high} ELSE {}
    BY <2>2, ShortSorted
  <2> HIDE DEF lows, highs
  <2>5. \A r \in ToSet(lows), q \in ToSet(highs) : r.end <= q.base
    BY <2>2, <2>3, <2>4
  <2>6. R \in Sorted(CommSet) /\ ToSet(R) = ToSet(lows) \cup ToSet(highs)
    BY <2>1, <2>3, <2>4, <2>5, ConcatSorted
  <2> HIDE DEF R
  <2>7. ASSUME NEW d \in ToSet(R)
        PROVE  /\ c.base <= d.base /\ d.end <= c.end /\ d.stack = c.stack
               /\ d.end <= from \/ to <= d.base
               /\ d.base = c.base \/ d.base = to
               /\ d.end = c.end \/ d.end = from
    <3>1. (c.base < from /\ d = low) \/ (to < c.end /\ d = high)
      BY <2>3, <2>4, <2>6
    <3> QED
      BY <1>1, <1>3, <2>2, <3>1
  <2>8. ASSUME NEW w \in Within(c) \ (from..(to - 1))
        PROVE  \E d \in ToSet(R) : w \in Within(d)
    <3>1. w \in Int /\ c.base <= w /\ w < c.end /\ (w < from \/ to <= w)
      BY <1>1 DEF Within
    <3>2. CASE w < from
      <4>1. c.base < from /\ w \in low.base..(low.end - 1)
        BY <1>1, <2>2, <3>1, <3>2
      <4> QED
        BY <2>3, <2>6, <4>1 DEF Within
    <3>3. CASE to <= w
      <4>1. to < c.end /\ w \in high.base..(high.end - 1)
        BY <1>1, <2>2, <3>1, <3>3
      <4> QED
        BY <2>4, <2>6, <4>1 DEF Within
    <3> QED
      BY <3>1, <3>2, <3>3
  <2> QED
    BY <2>6, <2>7, <2>8 DEF R
<1> QED
  BY <1>2, <1>3

\* Uncommitting a range takes it out of the list, and nothing else.
LEMMA RemoveUncommittedSorted ==
  ASSUME NEW list \in CommLists, NEW from \in Int, NEW to \in Int, from < to
  PROVE  LET rest == RemoveUncommitted(list, from, to) IN
         /\ rest \in CommLists
         /\ \A d \in ToSet(rest) : /\ d.end <= from \/ to <= d.base
                                   /\ \E c \in ToSet(list) : /\ c.base <= d.base /\ d.end <= c.end
                                                             /\ d.stack = c.stack
         /\ \A c \in ToSet(list) : \A w \in Within(c) \ (from..(to - 1)) :
              \E d \in ToSet(rest) : w \in Within(d) /\ d.stack = c.stack
<1> DEFINE n    == Len(list)
           seqs == [i \in DOMAIN list |-> Rest(list[i], from, to)]
           rest == RemoveUncommitted(list, from, to)
<1>1. list \in Sorted(CommSet) /\ Separate(ToSet(list))
  BY DEF CommLists
<1>2. /\ DOMAIN list = 1..n /\ \A i \in 1..n : list[i] \in CommSet /\ list[i] \in ToSet(list)
      /\ \A c \in ToSet(list) : c \in CommSet /\ \E i \in 1..n : list[i] = c
  BY <1>1, Members DEF Sorted
<1>3. /\ seqs \in [1..n -> Sorted(CommSet)]
      /\ \A i \in 1..n : \A d \in ToSet(seqs[i]) : list[i].base <= d.base /\ d.end <= list[i].end
  BY <1>2, RestParts
<1>4. \A i \in 1..n : seqs[i] = Rest(list[i], from, to)
  BY <1>2
<1>5. rest = FlattenSeq(seqs)
  BY DEF RemoveUncommitted
<1> HIDE DEF seqs, rest
<1>6. rest \in Sorted(CommSet) /\ ToSet(rest) = UNION {ToSet(seqs[i]) : i \in 1..n}
  BY <1>1, <1>3, <1>5, CommSpans, FlattenSorted
<1>7. ASSUME NEW d \in ToSet(rest)
      PROVE  /\ d \in CommSet
             /\ d.end <= from \/ to <= d.base
             /\ \E c \in ToSet(list) : /\ c \in CommSet
                                       /\ c.base <= d.base /\ d.end <= c.end /\ d.stack = c.stack
                                       /\ d.base = c.base \/ d.base = to
                                       /\ d.end = c.end \/ d.end = from
  <2>1. PICK i \in 1..n : d \in ToSet(Rest(list[i], from, to))
    BY <1>4, <1>6
  <2>2. list[i] \in CommSet /\ list[i] \in ToSet(list)
    BY <1>2
  <2>3. d \in CommSet
    BY <1>6, Members DEF Sorted
  <2>4. /\ list[i].base <= d.base /\ d.end <= list[i].end /\ d.stack = list[i].stack
        /\ d.end <= from \/ to <= d.base
        /\ d.base = list[i].base \/ d.base = to
        /\ d.end = list[i].end \/ d.end = from
    BY <2>1, <2>2, RestParts
  <2> QED
    BY <2>2, <2>3, <2>4
<1>8. Separate(ToSet(rest))
  <2> SUFFICES ASSUME NEW d \in ToSet(rest), NEW e \in ToSet(rest), d.end = e.base
               PROVE  d.stack # e.stack
    BY DEF Separate
  <2>1. /\ d.base \in Int /\ d.end \in Int /\ d.base < d.end
        /\ e.base \in Int /\ e.end \in Int /\ e.base < e.end
    BY <1>7 DEF CommSet
  <2>2. PICK c \in ToSet(list) : d.stack = c.stack /\ (d.end = c.end \/ d.end = from)
    BY <1>7
  <2>3. PICK b \in ToSet(list) : e.stack = b.stack /\ (e.base = b.base \/ e.base = to)
    BY <1>7
  <2>4. (d.end <= from \/ to <= d.base) /\ (e.end <= from \/ to <= e.base)
    BY <1>7
  <2>5. d.end = c.end /\ e.base = b.base
    BY <2>1, <2>2, <2>3, <2>4
  <2> QED
    BY <1>1, <2>2, <2>3, <2>5 DEF Separate
<1>9. ASSUME NEW c \in ToSet(list), NEW w \in Within(c) \ (from..(to - 1))
      PROVE  \E d \in ToSet(rest) : w \in Within(d) /\ d.stack = c.stack
  <2>1. PICK i \in 1..n : list[i] = c
    BY <1>2
  <2>2. c \in CommSet
    BY <1>2
  <2>3. PICK d \in ToSet(Rest(c, from, to)) : w \in Within(d)
    BY <2>2, RestParts
  <2>4. d \in ToSet(rest)
    BY <1>4, <1>6, <2>1
  <2>5. d.stack = c.stack
    BY <2>2, RestParts
  <2> QED
    BY <2>3, <2>4, <2>5
<1> QED
  BY <1>6, <1>7, <1>8, <1>9 DEF CommLists, rest

-----------------------------------------------------------------------------
(* A committed range is joined with its neighbours.                        *)

\* What is behind the k-th element moves up when it leaves.
LEMMA RemoveElements ==
  ASSUME NEW S, NEW list \in Seq(S), NEW k \in 1..Len(list)
  PROVE  /\ RemoveAt(list, k) \in Seq(S) /\ Len(RemoveAt(list, k)) = Len(list) - 1
         /\ \A i \in 1..(Len(list) - 1) :
              RemoveAt(list, k)[i] = IF i < k THEN list[i] ELSE list[i + 1]
<1> DEFINE n    == Len(list)
           low  == SubSeq(list, 1, k - 1)
           high == SubSeq(list, k + 1, n)
<1>1. n \in Nat /\ k \in Int /\ 1 <= k /\ k <= n /\ \A i \in 1..n : list[i] \in S
  BY LenProperties, ElementOfSeq
<1>2. low \in Seq(S) /\ Len(low) = k - 1 /\ \A i \in 1..(k - 1) : low[i] = list[i]
  <2>1. \A i \in 1..(k - 1) : list[i] \in S
    BY <1>1
  <2>2. k - 1 \in Int
    BY <1>1
  <2>3. /\ low \in Seq(S) /\ Len(low) = IF 1 <= k - 1 THEN (k - 1) - 1 + 1 ELSE 0
        /\ \A i \in 1..((k - 1) - 1 + 1) : low[i] = list[1 + i - 1]
    BY <2>1, <2>2, SubSeqProperties
  <2>4. (k - 1) - 1 + 1 = k - 1 /\ (1 <= k - 1 \/ k - 1 = 0) /\ \A i \in 1..(k - 1) : 1 + i - 1 = i
    BY <1>1
  <2> QED
    BY <2>3, <2>4
<1>3. high \in Seq(S) /\ Len(high) = n - k /\ \A i \in 1..(n - k) : high[i] = list[k + i]
  <2>1. \A i \in (k + 1)..n : list[i] \in S
    BY <1>1
  <2>2. k + 1 \in Int /\ n \in Int
    BY <1>1
  <2>3. /\ high \in Seq(S) /\ Len(high) = IF k + 1 <= n THEN n - (k + 1) + 1 ELSE 0
        /\ \A i \in 1..(n - (k + 1) + 1) : high[i] = list[(k + 1) + i - 1]
    BY <2>1, <2>2, SubSeqProperties
  <2>4. n - (k + 1) + 1 = n - k /\ (k + 1 <= n \/ n - k = 0)
    BY <1>1
  <2>5. \A i \in 1..(n - k) : (k + 1) + i - 1 = k + i
    BY <1>1
  <2> QED
    BY <2>3, <2>4, <2>5
<1> HIDE DEF low, high
<1>4. /\ low \o high \in Seq(S) /\ Len(low \o high) = (k - 1) + (n - k)
      /\ \A i \in 1..((k - 1) + (n - k)) :
           (low \o high)[i] = IF i <= k - 1 THEN low[i] ELSE high[i - (k - 1)]
  <2>1. /\ low \o high \in Seq(S) /\ Len(low \o high) = Len(low) + Len(high)
        /\ \A i \in 1..(Len(low) + Len(high)) :
             (low \o high)[i] = IF i <= Len(low) THEN low[i] ELSE high[i - Len(low)]
    BY <1>2, <1>3, ConcatProperties
  <2>2. Len(low) = k - 1 /\ Len(high) = n - k
    BY <1>2, <1>3
  <2> QED
    BY <2>1, <2>2
<1>5. (k - 1) + (n - k) = n - 1
  BY <1>1
<1>6. ASSUME NEW i \in 1..(n - 1)
      PROVE  (low \o high)[i] = IF i < k THEN list[i] ELSE list[i + 1]
  <2>1. (low \o high)[i] = IF i <= k - 1 THEN low[i] ELSE high[i - (k - 1)]
    BY <1>4, <1>5
  <2>2. CASE i < k
    <3>1. i <= k - 1 /\ i \in 1..(k - 1)
      BY <1>1, <2>2
    <3> QED
      BY <1>2, <2>1, <2>2, <3>1
  <2>3. CASE ~(i < k)
    <3>1. ~(i <= k - 1) /\ i - (k - 1) \in 1..(n - k) /\ k + (i - (k - 1)) = i + 1
      BY <1>1, <2>3
    <3> QED
      BY <1>3, <2>1, <2>3, <3>1
  <2> QED
    BY <2>2, <2>3
<1> QED
  BY <1>4, <1>5, <1>6 DEF RemoveAt, low, high

\* An element can be replaced before or after the next one leaves.
LEMMA ReplaceThenRemove ==
  ASSUME NEW S, NEW list \in Seq(S), NEW k \in 1..(Len(list) - 1), NEW r \in S
  PROVE  RemoveAt(Replaced(list, k, r), k + 1) = Replaced(RemoveAt(list, k + 1), k, r)
<1> DEFINE n == Len(list)
           u == Replaced(list, k, r)
           v == RemoveAt(list, k + 1)
           x == RemoveAt(u, k + 1)
           y == Replaced(v, k, r)
<1>1. n \in Nat /\ k \in Int /\ 1 <= k /\ k + 1 <= n /\ k \in 1..n /\ k + 1 \in 1..n
  BY LenProperties
<1>2. u \in Seq(S) /\ Len(u) = n /\ \A j \in 1..n : u[j] = IF j = k THEN r ELSE list[j]
  BY <1>1, ExceptSeq DEF Replaced
<1>3. /\ v \in Seq(S) /\ Len(v) = n - 1
      /\ \A i \in 1..(n - 1) : v[i] = IF i < k + 1 THEN list[i] ELSE list[i + 1]
  BY <1>1, RemoveElements
<1> HIDE DEF u, v
<1>4. /\ x \in Seq(S) /\ Len(x) = n - 1
      /\ \A i \in 1..(n - 1) : x[i] = IF i < k + 1 THEN u[i] ELSE u[i + 1]
  <2>1. k + 1 \in 1..Len(u)
    BY <1>1, <1>2
  <2>2. /\ x \in Seq(S) /\ Len(x) = Len(u) - 1
        /\ \A i \in 1..(Len(u) - 1) : x[i] = IF i < k + 1 THEN u[i] ELSE u[i + 1]
    BY <1>2, <2>1, RemoveElements
  <2> QED
    BY <1>2, <2>2
<1>5. y \in Seq(S) /\ Len(y) = n - 1 /\ \A j \in 1..(n - 1) : y[j] = IF j = k THEN r ELSE v[j]
  BY <1>1, <1>3, ExceptSeq DEF Replaced
<1> HIDE DEF x, y
<1>6. ASSUME NEW i \in 1..(n - 1) PROVE x[i] = y[i]
  <2>1. i \in 1..n /\ i + 1 \in 1..n
    BY <1>1
  <2>2. u[i] = (IF i = k THEN r ELSE list[i]) /\ u[i + 1] = (IF i + 1 = k THEN r ELSE list[i + 1])
    BY <1>2, <2>1
  <2>3. v[i] = IF i < k + 1 THEN list[i] ELSE list[i + 1]
    BY <1>3
  <2>4. x[i] = (IF i < k + 1 THEN u[i] ELSE u[i + 1]) /\ y[i] = (IF i = k THEN r ELSE v[i])
    BY <1>4, <1>5
  <2>5. ~(i < k + 1) => i # k /\ i + 1 # k
    BY <1>1
  <2>6. i = k => i < k + 1
    BY <1>1
  <2> QED
    BY <2>2, <2>3, <2>4, <2>5, <2>6
<1>7. x = y
  BY <1>4, <1>5, <1>6, SeqEqual
<1> QED
  BY <1>7 DEF x, y, u, v

\* Is the range joined with the region before it, with the one after it?
JoinsLow(list, p, from, stack) ==
  p \in DOMAIN list /\ list[p].end = from /\ list[p].stack = stack

JoinsHigh(list, p, to, stack) ==
  p + 1 \in DOMAIN list /\ list[p + 1].base = to /\ list[p + 1].stack = stack

Joined(list, p, from, to, stack) ==
  [base  |-> IF JoinsLow(list, p, from, stack) THEN list[p].base ELSE from,
   end   |-> IF JoinsHigh(list, p, to, stack) THEN list[p + 1].end ELSE to,
   stack |-> stack]

\* The regions before the range, the regions behind it.
LEMMA PrecedingSplits ==
  ASSUME NEW list \in Sorted(CommSet), NEW from \in Int, NEW to \in Int, from < to
  PROVE  LET p == Preceding(list, from) IN
         /\ p \in 0..Len(list)
         /\ \A j \in 1..p : list[j].end <= from
         /\ p < Len(list) => list[p + 1].end > from
         /\ \A j \in (p + 1)..Len(list) : list[j].end > from
         /\ \A j \in (p + 2)..Len(list) : list[j].base > from
<1> DEFINE n == Len(list)
           p == Preceding(list, from)
           Good == {j \in 1..n : list[j].end <= from}
<1>1. n \in Nat /\ DOMAIN list = 1..n /\ InOrder(list) /\ \A i \in 1..n : list[i] \in CommSet
  BY Members DEF Sorted
<1>2. {i \in 0..n : \A j \in 1..i : list[j].end <= from} = {i \in 0..n : \A j \in 1..i : j \in Good}
  <2>1. \A i \in 0..n : \A j \in 1..i : j \in 1..n
    BY <1>1
  <2> QED
    BY <2>1
<1>3. p = Max({i \in 0..n : \A j \in 1..i : j \in Good})
  BY <1>2 DEF Preceding
<1> HIDE DEF p
<1>4. p \in 0..n /\ (\A j \in 1..p : j \in Good) /\ (p < n => p + 1 \notin Good)
  <2> HIDE DEF Good
  <2> QED
    BY <1>1, <1>3, LastOfFirst
<1>5. ASSUME p < n PROVE list[p + 1].end > from
  <2>1. p + 1 \in 1..n
    BY <1>1, <1>4, <1>5
  <2>2. list[p + 1].end \in Int
    BY <1>1, <2>1 DEF CommSet
  <2> QED
    BY <1>4, <1>5, <2>1, <2>2
<1>6. ASSUME NEW j \in (p + 2)..n PROVE list[j].base > from /\ list[j].end > from
  <2>1. p + 1 \in 1..n /\ j \in 1..n /\ p + 1 < j /\ p < n
    BY <1>1, <1>4
  <2>2. list[p + 1].end <= list[j].base
    BY <1>1, <2>1 DEF InOrder
  <2>3. list[p + 1].end \in Int /\ list[j].base \in Int /\ list[j].end \in Int /\ list[j].base < list[j].end
    BY <1>1, <2>1 DEF CommSet
  <2> QED
    BY <1>5, <2>1, <2>2, <2>3
<1>7. \A j \in (p + 1)..n : (j = p + 1 /\ p < n) \/ j \in (p + 2)..n
  BY <1>1, <1>4
<1> QED
  BY <1>4, <1>5, <1>6, <1>7 DEF p

\* The list once the range is joined with its neighbours.
LEMMA JoinShape ==
  ASSUME NEW list \in Sorted(CommSet), NEW from \in Int, NEW to \in Int, from < to,
         NEW stack \in Stacks,
         \A c \in ToSet(list) : c.end <= from \/ to <= c.base
  PROVE  LET p == Preceding(list, from)
             t == Join(list, p, from, to, stack)
             m == Joined(list, p, from, to, stack)
         IN  /\ m \in CommSet /\ t \in Sorted(CommSet)
             /\ ToSet(t) = (ToSet(list) \ ((IF JoinsLow(list, p, from, stack) THEN {list[p]} ELSE {})
                              \cup (IF JoinsHigh(list, p, to, stack) THEN {list[p + 1]} ELSE {})))
                           \cup {m}
<1> DEFINE n == Len(list)
           p == Preceding(list, from)
           t == Join(list, p, from, to, stack)
           m == Joined(list, p, from, to, stack)
           L == JoinsLow(list, p, from, stack)
           R == JoinsHigh(list, p, to, stack)
<1>1. /\ list \in Seq(CommSet) /\ n \in Nat /\ DOMAIN list = 1..n /\ InOrder(list)
      /\ \A i \in 1..n : list[i] \in CommSet /\ list[i] \in ToSet(list)
  BY Members DEF Sorted
<1>2. /\ p \in 0..n
      /\ \A j \in 1..p : list[j].end <= from
      /\ \A j \in (p + 1)..n : list[j].end > from
  BY PrecedingSplits
<1> HIDE DEF p
<1>3. \A i \in 1..n : /\ list[i].base \in Int /\ list[i].end \in Int /\ list[i].base < list[i].end
                      /\ list[i].stack \in Stacks /\ list[i] \in [base : Int, end : Int, stack : Stacks]
  BY <1>1 DEF CommSet
<1>4. \A j \in (p + 1)..n : to <= list[j].base
  <2> SUFFICES ASSUME NEW j \in (p + 1)..n PROVE to <= list[j].base
    OBVIOUS
  <2>1. j \in 1..n
    BY <1>1, <1>2
  <2>2. list[j].end > from /\ (list[j].end <= from \/ to <= list[j].base)
    BY <1>1, <1>2, <2>1
  <2> QED
    BY <1>3, <2>1, <2>2
<1>5. L => p \in 1..n /\ list[p].end = from /\ list[p].stack = stack
  BY <1>1 DEF JoinsLow
<1>6. R => p + 1 \in 1..n /\ list[p + 1].base = to /\ list[p + 1].stack = stack
  BY <1>1 DEF JoinsHigh
<1>7. m \in CommSet /\ m.base = (IF L THEN list[p].base ELSE from)
      /\ m.end = (IF R THEN list[p + 1].end ELSE to) /\ m.stack = stack
  <2>1. m.base = (IF L THEN list[p].base ELSE from)
        /\ m.end = (IF R THEN list[p + 1].end ELSE to) /\ m.stack = stack
    BY DEF Joined
  <2>2. m.base \in Int /\ m.base <= from
    BY <1>3, <1>5, <2>1
  <2>3. m.end \in Int /\ to <= m.end
    BY <1>3, <1>6, <2>1
  <2>4. m \in [base : Int, end : Int, stack : Stacks]
    BY <2>1, <2>2, <2>3 DEF Joined
  <2> QED
    BY <2>1, <2>2, <2>3, <2>4 DEF CommSet
<1>8. Mergeable(list, p, from, to, stack) <=> L
  <2>1. p \in 1..n => to # list[p].base
    BY <1>2, <1>3
  <2> QED
    BY <1>1, <2>1 DEF Mergeable, AdjacentTo, JoinsLow
<1>9. Mergeable(list, p + 1, from, to, stack) <=> R
  <2>1. p + 1 \in 1..n => p + 1 \in (p + 1)..n
    BY <1>2
  <2>2. p + 1 \in 1..n => from # list[p + 1].end
    BY <1>3, <1>4, <2>1
  <2> QED
    BY <1>1, <2>2 DEF Mergeable, AdjacentTo, JoinsHigh
<1> HIDE DEF L, R, n
<1>10. ASSUME NEW i \in 1..n, NEW j \in 1..n, i < j PROVE list[i].end <= list[j].base
  BY <1>1, <1>10 DEF InOrder
<1>11. CASE L
  <2> DEFINE e1    == ExpandRegion(list[p], from, to)
             grown == Replaced(list, p, e1)
  <2>1. p \in 1..n /\ list[p].end = from /\ list[p].stack = stack
    BY <1>5, <1>11
  <2>2. e1 = [base |-> list[p].base, end |-> to, stack |-> stack] /\ e1 \in CommSet
    <3>1. list[p].base # to /\ list[p].base < to
      BY <1>3, <2>1
    <3>2. e1 = [list[p] EXCEPT !.end = to]
      BY <3>1 DEF ExpandRegion
    <3> QED
      BY <1>3, <2>1, <3>1, <3>2 DEF CommSet
  <2>3. [list EXCEPT ![p] = ExpandRegion(@, from, to)] = grown
    BY DEF Replaced
  <2> HIDE DEF e1
  <2>4. \A j \in 1..(p - 1) : list[j].end <= e1.base
    <3>1. \A j \in 1..(p - 1) : j \in 1..n /\ j < p
      BY <1>1, <2>1
    <3> QED
      BY <1>10, <2>1, <2>2, <3>1
  <2>5. \A j \in (p + 1)..n : e1.end <= list[j].base
    BY <1>4, <2>2
  <2>6. p \in 1..Len(list) /\ \A j \in (p + 1)..Len(list) : e1.end <= list[j].base
    BY <2>1, <2>5 DEF n
  <2>7. grown \in Sorted(CommSet) /\ ToSet(grown) = (ToSet(list) \ {list[p]}) \cup {e1}
    <3>1. e1 \in CommSet
      BY <2>2
    <3> QED
      BY <2>4, <2>6, <3>1, CommSpans, ReplaceSorted
  <2>8. grown \in Seq(CommSet) /\ Len(grown) = n /\ \A j \in 1..n : grown[j] = IF j = p THEN e1 ELSE list[j]
    BY <1>1, <2>2, <2>6, ExceptSeq DEF n, Replaced
  <2>9. DOMAIN grown = 1..n
    BY <2>8, LenProperties
  <2>10. (p < n /\ Mergeable(grown, p, list[p + 1].base, list[p + 1].end, list[p + 1].stack)) <=> R
    <3>1. grown[p] = e1 /\ p \in DOMAIN grown
      BY <2>1, <2>8, <2>9
    <3>2. p < n <=> p + 1 \in 1..n
      BY <1>1, <2>1
    <3>3. p + 1 \in 1..n => list[p + 1].end # e1.base
      <4>1. p + 1 \in 1..n => p < p + 1
        BY <1>1, <2>1
      <4>2. p + 1 \in 1..n => list[p].end <= list[p + 1].base
        BY <1>10, <2>1, <4>1
      <4> QED
        BY <1>3, <2>1, <2>2, <4>2
    <3> QED
      BY <1>1, <2>2, <3>1, <3>2, <3>3 DEF Mergeable, AdjacentTo, R, JoinsHigh
  <2>11. CASE ~R
    <3>1. t = grown
      BY <1>8, <1>11, <2>3, <2>10, <2>11 DEF Join, n
    <3>2. m = e1
      BY <1>11, <2>2, <2>11 DEF Joined, L, R
    <3> QED
      BY <1>7, <1>11, <2>7, <2>11, <3>1, <3>2 DEF L, R, p
  <2>12. CASE R
    <3> DEFINE e2    == ExpandRegion(e1, list[p + 1].base, list[p + 1].end)
               last  == Replaced(grown, p, e2)
               short == RemoveAt(grown, p + 1)
    <3>1. p + 1 \in 1..n /\ list[p + 1].base = to /\ list[p + 1].stack = stack
      BY <1>6, <2>12
    <3>2. e2 = [base |-> list[p].base, end |-> list[p + 1].end, stack |-> stack]
      <4>1. e1.base # list[p + 1].end
        BY <1>3, <2>1, <2>2, <3>1
      <4>2. e2 = [e1 EXCEPT !.end = list[p + 1].end]
        BY <4>1 DEF ExpandRegion
      <4> QED
        BY <2>2, <4>2
    <3>3. e2 = m
      BY <1>11, <2>12, <3>2 DEF Joined, L, R
    <3>4. [grown EXCEPT ![p] = ExpandRegion(@, list[p + 1].base, list[p + 1].end)] = last
      BY <2>1, <2>8 DEF Replaced
    <3>5. t = RemoveAt(last, p + 1)
      BY <1>8, <1>11, <2>3, <2>10, <2>12, <3>4 DEF Join, n
    <3> HIDE DEF e2
    <3>6. p \in 1..(Len(grown) - 1) /\ p + 1 \in 1..Len(grown) /\ e2 \in CommSet
      BY <1>1, <1>7, <2>1, <2>8, <3>1, <3>3
    <3>7. RemoveAt(last, p + 1) = Replaced(short, p, e2)
      <4> HIDE DEF grown
      <4> QED
        BY <2>8, <3>6, ReplaceThenRemove
    <3> HIDE DEF grown, last
    <3>8. short \in Sorted(CommSet) /\ ToSet(short) = ToSet(grown) \ {grown[p + 1]}
      BY <2>7, <3>6, CommSpans, RemoveSorted
    <3>9. /\ Len(short) = n - 1
          /\ \A i \in 1..(n - 1) : short[i] = IF i < p + 1 THEN grown[i] ELSE grown[i + 1]
      BY <2>8, <3>6, RemoveElements
    <3> HIDE DEF short
    <3>10. p \in 1..(n - 1) /\ short[p] = e1
      BY <2>1, <2>8, <3>1, <3>9
    <3>11. ASSUME NEW j \in 1..(p - 1) PROVE short[j].end <= e2.base
      <4>1. j \in 1..(n - 1) /\ j < p + 1 /\ j \in 1..n /\ j # p /\ j < p
        BY <1>1, <2>1
      <4>2. short[j] = list[j]
        BY <2>8, <3>9, <4>1
      <4> QED
        BY <1>10, <2>1, <3>2, <4>1, <4>2
    <3>12. ASSUME NEW j \in (p + 1)..(n - 1) PROVE e2.end <= short[j].base
      <4>1. j \in 1..(n - 1) /\ ~(j < p + 1) /\ j + 1 \in 1..n /\ j + 1 # p /\ p + 1 < j + 1
        BY <1>1, <2>1
      <4>2. short[j] = list[j + 1]
        BY <2>8, <3>9, <4>1
      <4> QED
        BY <1>10, <3>1, <3>2, <4>1, <4>2
    <3>13. t \in Sorted(CommSet) /\ ToSet(t) = (ToSet(short) \ {short[p]}) \cup {e2}
      <4>1. p \in 1..Len(short) /\ \A j \in (p + 1)..Len(short) : e2.end <= short[j].base
        BY <3>9, <3>10, <3>12
      <4>2. \A j \in 1..(p - 1) : short[j].end <= e2.base
        BY <3>11
      <4>3. t = Replaced(short, p, e2)
        BY <3>5, <3>7
      <4> HIDE DEF t
      <4> QED
        BY <3>6, <3>8, <4>1, <4>2, <4>3, CommSpans, ReplaceSorted
    <3>14. grown[p + 1] = list[p + 1] /\ e1 \notin ToSet(list) \ {list[p], list[p + 1]}
      <4>1. p + 1 # p
        BY <2>1
      <4>2. grown[p + 1] = list[p + 1]
        BY <2>8, <3>1, <4>1
      <4>3. ASSUME e1 \in ToSet(list), e1 # list[p] PROVE FALSE
        <5>1. PICK i \in 1..n : list[i] = e1
          BY <1>1, <4>3 DEF ToSet
        <5>2. i < p \/ p < i
          BY <1>1, <2>1, <4>3, <5>1
        <5>3. list[i].end <= list[p].base \/ list[p].end <= list[i].base
          BY <1>10, <2>1, <5>2
        <5> QED
          BY <1>3, <2>1, <2>2, <5>1, <5>3
      <4> QED
        BY <4>2, <4>3
    <3>15. ToSet(t) = (ToSet(list) \ {list[p], list[p + 1]}) \cup {m}
      <4>1. ToSet(t) = (ToSet(short) \ {e1}) \cup {m}
        BY <3>3, <3>10, <3>13
      <4>2. ToSet(short) = ((ToSet(list) \ {list[p]}) \cup {e1}) \ {list[p + 1]}
        BY <2>7, <3>8, <3>14
      <4> QED
        BY <3>14, <4>1, <4>2
    <3> QED
      BY <1>7, <1>11, <2>12, <3>13, <3>15 DEF L, R, p
  <2> QED
    BY <2>11, <2>12
<1>12. CASE ~L /\ R
  <2> DEFINE e == ExpandRegion(list[p + 1], from, to)
  <2>1. p + 1 \in 1..n /\ list[p + 1].base = to /\ list[p + 1].stack = stack
    BY <1>6, <1>12
  <2>2. e = [list[p + 1] EXCEPT !.base = from]
    BY <2>1 DEF ExpandRegion
  <2>3. e = m
    BY <1>3, <1>12, <2>1, <2>2 DEF Joined, L, R
  <2>4. t = Replaced(list, p + 1, e)
    <3>1. [list EXCEPT ![p + 1] = ExpandRegion(@, from, to)] = Replaced(list, p + 1, e)
      BY DEF Replaced
    <3> QED
      BY <1>8, <1>9, <1>12, <3>1 DEF Join
  <2> HIDE DEF e
  <2>5. ASSUME NEW j \in 1..((p + 1) - 1) PROVE list[j].end <= e.base
    <3>1. j \in 1..p /\ e.base = from
      BY <1>2, <1>7, <1>12, <2>3
    <3> QED
      BY <1>2, <3>1
  <2>6. ASSUME NEW j \in ((p + 1) + 1)..n PROVE e.end <= list[j].base
    <3>1. j \in 1..n /\ p + 1 < j /\ e.end = list[p + 1].end
      BY <1>1, <1>2, <1>7, <1>12, <2>3
    <3> QED
      BY <1>10, <2>1, <3>1
  <2>7. t \in Sorted(CommSet) /\ ToSet(t) = (ToSet(list) \ {list[p + 1]}) \cup {e}
    <3> DEFINE k == p + 1
    <3>1. /\ k \in 1..Len(list) /\ e \in CommSet
          /\ \A j \in 1..(k - 1) : list[j].end <= e.base
          /\ \A j \in (k + 1)..Len(list) : e.end <= list[j].base
      BY <1>7, <2>1, <2>3, <2>5, <2>6 DEF n
    <3> HIDE DEF k
    <3>2. t = Replaced(list, k, e)
      BY <2>4 DEF k
    <3> HIDE DEF t
    <3>3. t \in Sorted(CommSet) /\ ToSet(t) = (ToSet(list) \ {list[k]}) \cup {e}
      BY <3>1, <3>2, CommSpans, ReplaceSorted
    <3> QED
      BY <3>3 DEF k
  <2> QED
    BY <1>7, <1>12, <2>3, <2>4, <2>7 DEF L, R, p
<1>13. CASE ~L /\ ~R
  <2>1. t = SortedAdd(list, CommittedRegion(from, to, stack))
    BY <1>8, <1>9, <1>13 DEF Join
  <2>2. m = CommittedRegion(from, to, stack)
    BY <1>13 DEF Joined, L, R, CommittedRegion
  <2>3. \A c \in ToSet(list) : Beside(c, m)
    BY <1>7, <1>13 DEF Beside
  <2>4. t \in Sorted(CommSet) /\ ToSet(t) = ToSet(list) \cup {m}
    BY <1>7, <2>1, <2>2, <2>3, CommSpans, SortedAddSorted
  <2> QED
    BY <1>7, <1>13, <2>4 DEF L, R, p
<1> QED
  BY <1>11, <1>12, <1>13

\* Just the words of the range come in, and they are marked with its stack.
LEMMA JoinSorted ==
  ASSUME NEW list \in CommLists, NEW from \in Int, NEW to \in Int, from < to,
         NEW stack \in Stacks,
         \A c \in ToSet(list) : c.end <= from \/ to <= c.base
  PROVE  LET t == Join(list, Preceding(list, from), from, to, stack) IN
         /\ t \in CommLists
         /\ \A d \in ToSet(t) : /\ d.base = from \/ \E c \in ToSet(list) : d.base = c.base
                                /\ d.end = to \/ \E c \in ToSet(list) : d.end = c.end
         /\ \A w \in from..(to - 1) : \E d \in ToSet(t) : w \in Within(d) /\ d.stack = stack
         /\ \A c \in ToSet(list) : \A w \in Within(c) :
              \E d \in ToSet(t) : w \in Within(d) /\ d.stack = c.stack
         /\ Covered(ToSet(t)) = Covered(ToSet(list)) \cup (from..(to - 1))
<1> DEFINE C    == ToSet(list)
           n    == Len(list)
           p    == Preceding(list, from)
           t    == Join(list, p, from, to, stack)
           m    == Joined(list, p, from, to, stack)
           L    == JoinsLow(list, p, from, stack)
           R    == JoinsHigh(list, p, to, stack)
           low  == list[p]
           high == list[p + 1]
           Gone == (IF L THEN {low} ELSE {}) \cup (IF R THEN {high} ELSE {})
<1>1. list \in Sorted(CommSet) /\ Separate(C)
  BY DEF CommLists
<1>2. /\ n \in Nat /\ DOMAIN list = 1..n /\ InOrder(list)
      /\ \A i \in 1..n : list[i] \in C
      /\ \A c \in C : c \in CommSet /\ \E i \in 1..n : list[i] = c
  BY <1>1, Members DEF Sorted
<1>3. m \in CommSet /\ t \in Sorted(CommSet) /\ ToSet(t) = (C \ Gone) \cup {m}
  BY <1>1, JoinShape
<1>4. p \in 0..n /\ (\A j \in 1..p : list[j].end <= from) /\ \A j \in (p + 1)..n : list[j].end > from
  BY <1>1, PrecedingSplits
<1>5. L => p \in 1..n /\ low \in C /\ low.end = from /\ low.stack = stack
  BY <1>2 DEF JoinsLow
<1>6. R => p + 1 \in 1..n /\ high \in C /\ high.base = to /\ high.stack = stack
  BY <1>2 DEF JoinsHigh
<1>7. /\ m.base = (IF L THEN low.base ELSE from) /\ m.end = (IF R THEN high.end ELSE to)
      /\ m.stack = stack
  BY DEF Joined
<1>8. p \in 1..n /\ low.end = from /\ low.stack = stack => L
  BY <1>2 DEF JoinsLow
<1>9. p + 1 \in 1..n /\ high.base = to /\ high.stack = stack => R
  BY <1>2 DEF JoinsHigh
<1> HIDE DEF C, n, p, t, m, L, R, low, high
<1>10. \A c \in C : /\ c.base \in Int /\ c.end \in Int /\ c.base < c.end
                    /\ c.end <= from \/ to <= c.base
  <2>1. \A c \in C : c.base \in Int /\ c.end \in Int /\ c.base < c.end
    BY <1>2 DEF CommSet
  <2> QED
    BY <2>1 DEF C
<1>11. m.base \in Int /\ m.end \in Int /\ m.base < m.end /\ m.base <= from /\ to <= m.end
  BY <1>3, <1>5, <1>6, <1>7, <1>10 DEF CommSet
\* No other region touches the range.
<1>12. ASSUME NEW d \in C, d.end = from, d.stack = stack PROVE L /\ d = low
  <2>1. PICK i \in 1..n : list[i] = d
    BY <1>2
  <2>2. i <= p
    BY <1>4, <1>12, <2>1
  <2>3. p \in 1..n
    BY <1>4, <2>2
  <2>4. CASE i < p
    <3>1. list[i].end <= low.base
      BY <1>2, <2>3, <2>4 DEF InOrder, low
    <3>2. low \in C /\ low.end <= from
      BY <1>2, <1>4, <2>3 DEF low
    <3> QED
      BY <1>10, <1>12, <2>1, <3>1, <3>2
  <2>5. CASE i = p
    BY <1>8, <1>12, <2>1, <2>3, <2>5 DEF low
  <2> QED
    BY <1>4, <2>2, <2>4, <2>5
<1>13. ASSUME NEW e \in C, e.base = to, e.stack = stack PROVE R /\ e = high
  <2>1. PICK i \in 1..n : list[i] = e
    BY <1>2
  <2>2. p + 1 <= i
    <3>1. e.end > from
      BY <1>10, <1>13
    <3>2. i \in 1..p => e.end <= from
      BY <1>4, <2>1
    <3> QED
      BY <1>4, <1>10, <3>1, <3>2
  <2>3. p + 1 \in 1..n
    BY <1>2, <1>4, <2>2
  <2>4. high \in C /\ high.end > from
    BY <1>2, <1>4, <2>3 DEF high
  <2>5. CASE p + 1 < i
    <3>1. high.end <= list[i].base
      BY <1>2, <2>3, <2>5 DEF InOrder, high
    <3> QED
      BY <1>10, <1>13, <2>1, <2>4, <3>1
  <2>6. CASE i = p + 1
    BY <1>9, <1>13, <2>1, <2>3, <2>6 DEF high
  <2> QED
    BY <1>4, <2>2, <2>5, <2>6
<1>14. Separate(ToSet(t))
  <2> SUFFICES ASSUME NEW d \in ToSet(t), NEW e \in ToSet(t), d.end = e.base, d.stack = e.stack
               PROVE  FALSE
    BY DEF Separate
  <2>1. (d \in C \ Gone \/ d = m) /\ (e \in C \ Gone \/ e = m)
    BY <1>3
  <2>2. CASE d \in C /\ e \in C
    BY <1>1, <2>2 DEF Separate
  <2>3. CASE d = m /\ e = m
    BY <1>11, <2>3
  <2>4. CASE d = m /\ e \in C \ Gone
    <3>1. CASE R
      BY <1>1, <1>6, <1>7, <2>4, <3>1 DEF Separate
    <3>2. CASE ~R
      BY <1>7, <1>13, <2>4, <3>2
    <3> QED
      BY <3>1, <3>2
  <2>5. CASE d \in C \ Gone /\ e = m
    <3>1. CASE L
      BY <1>1, <1>5, <1>7, <2>5, <3>1 DEF Separate
    <3>2. CASE ~L
      BY <1>7, <1>12, <2>5, <3>2
    <3> QED
      BY <3>1, <3>2
  <2> QED
    BY <2>1, <2>2, <2>3, <2>4, <2>5
<1>15. ASSUME NEW d \in ToSet(t)
       PROVE  /\ d.base = from \/ \E c \in C : d.base = c.base
              /\ d.end = to \/ \E c \in C : d.end = c.end
  BY <1>3, <1>5, <1>6, <1>7
<1>16. \A w \in from..(to - 1) : w \in Within(m)
  BY <1>11 DEF Within
<1>17. L => \A w \in Within(low) : w \in Within(m)
  BY <1>5, <1>7, <1>10, <1>11 DEF Within
<1>18. R => \A w \in Within(high) : w \in Within(m)
  BY <1>6, <1>7, <1>10, <1>11 DEF Within
<1>19. \A w \in Within(m) : \/ w \in from..(to - 1)
                            \/ L /\ w \in Within(low)
                            \/ R /\ w \in Within(high)
  <2> SUFFICES ASSUME NEW w \in Within(m)
               PROVE  \/ w \in from..(to - 1)
                      \/ L /\ w \in Within(low)
                      \/ R /\ w \in Within(high)
    OBVIOUS
  <2>1. w \in Int /\ m.base <= w /\ w < m.end
    BY <1>11 DEF Within
  <2>2. CASE w < from
    <3>1. L
      BY <1>7, <2>1, <2>2
    <3>2. w \in low.base..(low.end - 1)
      BY <1>5, <1>7, <1>10, <2>1, <2>2, <3>1
    <3> QED
      BY <3>1, <3>2 DEF Within
  <2>3. CASE to <= w
    <3>1. R
      BY <1>7, <2>1, <2>3
    <3>2. w \in high.base..(high.end - 1)
      BY <1>6, <1>7, <1>10, <2>1, <2>3, <3>1
    <3> QED
      BY <3>1, <3>2 DEF Within
  <2> QED
    BY <2>1, <2>2, <2>3
<1>20. ASSUME NEW c \in C, NEW w \in Within(c)
       PROVE  \E d \in ToSet(t) : w \in Within(d) /\ d.stack = c.stack
  <2>1. CASE c \in Gone
    <3>1. c.stack = stack /\ w \in Within(m)
      BY <1>5, <1>6, <1>17, <1>18, <2>1
    <3> QED
      BY <1>3, <1>7, <3>1
  <2> QED
    BY <1>3, <2>1
<1>21. Covered(ToSet(t)) = Covered(C) \cup (from..(to - 1))
  <2>1. ASSUME NEW w \in Covered(ToSet(t)) PROVE w \in Covered(C) \cup (from..(to - 1))
    <3>1. PICK d \in ToSet(t) : w \in Within(d)
      BY DEF Covered
    <3>2. d \in C \/ d = m
      BY <1>3
    <3> QED
      BY <1>5, <1>6, <1>19, <3>1, <3>2 DEF Covered
  <2>2. ASSUME NEW w \in Covered(C) PROVE w \in Covered(ToSet(t))
    <3>1. PICK c \in C : w \in Within(c)
      BY DEF Covered
    <3> QED
      BY <1>20, <3>1 DEF Covered
  <2>3. ASSUME NEW w \in from..(to - 1) PROVE w \in Covered(ToSet(t))
    BY <1>3, <1>16 DEF Covered
  <2> QED
    BY <2>1, <2>2, <2>3
<1>22. \A w \in from..(to - 1) : \E d \in ToSet(t) : w \in Within(d) /\ d.stack = stack
  BY <1>3, <1>7, <1>16
<1>23. t \in CommLists
  BY <1>3, <1>14 DEF CommLists
<1> QED
  BY <1>15, <1>20, <1>21, <1>22, <1>23 DEF t, C, p

\* Is the first region that does not end before the range inside it?
UnseenIn(list, from, to) ==
  LET next == Preceding(list, from) + 1 IN
  next \in DOMAIN list /\ from < list[next].base /\ list[next].end < to

\* A range within what is reserved is committed: its words are marked with the
\* stack, the others stay as they were, and what is recorded is the difference.
LEMMA AddCommittedSorted ==
  ASSUME NEW list \in CommLists, NEW from \in Int, NEW to \in Int, from < to,
         NEW stack \in Stacks, ~UnseenIn(list, from, to)
  PROVE  LET added == AddCommitted(list, from, to, stack)
             t     == added.list
         IN  /\ t \in CommLists
             /\ \A a, b \in Int :
                  /\ a <= from /\ to <= b
                  /\ \A c \in ToSet(list) : a <= c.base /\ c.end <= b
                  => \A d \in ToSet(t) : a <= d.base /\ d.end <= b
             /\ \A w \in from..(to - 1) : \E d \in ToSet(t) : w \in Within(d) /\ d.stack = stack
             /\ \A c \in ToSet(list) : \A w \in Within(c) \ (from..(to - 1)) :
                  \E d \in ToSet(t) : w \in Within(d) /\ d.stack = c.stack
             /\ Covered(ToSet(t)) = Covered(ToSet(list)) \cup (from..(to - 1))
             /\ added.recorded = CommittedSize(t) - CommittedSize(list)
<1> DEFINE C       == ToSet(list)
           n       == Len(list)
           p       == Preceding(list, from)
           hasNext == p < n
           cleared == IF hasNext /\ OverlapRegion(list[p + 1], from, to)
                        THEN RemoveUncommitted(list, from, to) ELSE list
           K       == ToSet(cleared)
           added   == AddCommitted(list, from, to, stack)
           t       == Join(cleared, Preceding(cleared, from), from, to, stack)
<1>1. list \in Sorted(CommSet) /\ Separate(C)
  BY DEF CommLists
<1>2. /\ n \in Nat /\ DOMAIN list = 1..n /\ InOrder(list)
      /\ \A i \in 1..n : list[i] \in C
      /\ \A c \in C : c \in CommSet /\ \E i \in 1..n : list[i] = c
  BY <1>1, Members DEF Sorted
<1>3. /\ p \in 0..n /\ (\A j \in 1..p : list[j].end <= from)
      /\ p < n => list[p + 1].end > from
  BY <1>1, PrecedingSplits
<1>4. \A c \in C : c.base \in Int /\ c.end \in Int /\ c.base < c.end /\ c.stack \in Stacks
  BY <1>2 DEF CommSet
<1>5. CommittedSize(list) \in Nat
  BY <1>1, CommSpans, CommittedSizeCounts
<1>6. CASE hasNext /\ list[p + 1] = CommittedRegion(from, to, stack)
  <2> DEFINE g == CommittedRegion(from, to, stack)
  <2>1. added = [list |-> list, recorded |-> 0]
    BY <1>6 DEF AddCommitted
  <2>2. g \in C
    <3>1. p + 1 \in 1..n
      BY <1>2, <1>3, <1>6
    <3> QED
      BY <1>2, <1>6, <3>1
  <2>3. Within(g) = from..(to - 1) /\ g.stack = stack
    BY DEF Within, CommittedRegion
  <2> HIDE DEF g, added
  <2>4. added.list = list /\ added.recorded = 0
    BY <2>1
  <2>5. Covered(C) = Covered(C) \cup (from..(to - 1))
    BY <2>2, <2>3 DEF Covered
  <2>6. \A w \in from..(to - 1) : \E d \in C : w \in Within(d) /\ d.stack = stack
    BY <2>2, <2>3
  <2>7. 0 = CommittedSize(list) - CommittedSize(list)
    BY <1>5
  <2> QED
    BY <2>4, <2>5, <2>6, <2>7 DEF added
<1>7. CASE ~(hasNext /\ list[p + 1] = CommittedRegion(from, to, stack))
  <2>1. added = [list     |-> t,
                 recorded |-> CommittedSize(cleared) - CommittedSize(list) + (to - from)]
    BY <1>7 DEF AddCommitted
  <2>2. /\ cleared \in CommLists
        /\ \A d \in K : /\ d.end <= from \/ to <= d.base
                        /\ \E c \in C : c.base <= d.base /\ d.end <= c.end /\ d.stack = c.stack
        /\ \A c \in C : \A w \in Within(c) \ (from..(to - 1)) :
             \E d \in K : w \in Within(d) /\ d.stack = c.stack
    <3>1. CASE hasNext /\ OverlapRegion(list[p + 1], from, to)
      BY <3>1, RemoveUncommittedSorted
    <3>2. CASE ~(hasNext /\ OverlapRegion(list[p + 1], from, to))
      <4>1. cleared = list
        BY <3>2
      <4>2. ASSUME NEW c \in C, ~(c.end <= from \/ to <= c.base) PROVE FALSE
        <5>1. PICK i \in 1..n : list[i] = c
          BY <1>2
        <5>2. ~(i <= p)
          BY <1>3, <1>4, <4>2, <5>1
        <5>3. p + 1 \in 1..n /\ p + 1 <= i /\ p < n
          BY <1>2, <1>3, <5>2
        <5>4. list[p + 1] \in C /\ list[p + 1].end > from
          BY <1>2, <1>3, <5>3
        <5>5. p + 1 = i \/ list[p + 1].end <= c.base
          <6>1. p + 1 = i \/ p + 1 < i
            BY <1>3, <5>3
          <6> QED
            BY <1>2, <5>1, <5>3, <6>1 DEF InOrder
        <5>6. list[p + 1].base < to
          BY <1>4, <4>2, <5>1, <5>4, <5>5
        <5>7. ~(from < list[p + 1].base /\ list[p + 1].end < to)
          BY <1>2, <5>3 DEF UnseenIn
        <5>8. OverlapRegion(list[p + 1], from, to)
          BY <1>4, <5>4, <5>6, <5>7 DEF OverlapRegion, ContainAddress
        <5> QED
          BY <3>2, <5>3, <5>8
      <4>3. \A c \in C : c.end <= from \/ to <= c.base
        BY <4>2
      <4>4. \A d \in C : d.base <= d.base /\ d.end <= d.end
        BY <1>4
      <4> QED
        BY <4>1, <4>3, <4>4
    <3> QED
      BY <3>1, <3>2
  <2> HIDE DEF cleared
  <2>3. /\ t \in CommLists
        /\ \A d \in ToSet(t) : /\ d.base = from \/ \E c \in K : d.base = c.base
                               /\ d.end = to \/ \E c \in K : d.end = c.end
        /\ \A w \in from..(to - 1) : \E d \in ToSet(t) : w \in Within(d) /\ d.stack = stack
        /\ \A c \in K : \A w \in Within(c) : \E d \in ToSet(t) : w \in Within(d) /\ d.stack = c.stack
        /\ Covered(ToSet(t)) = Covered(K) \cup (from..(to - 1))
    BY <2>2, JoinSorted
  <2> HIDE DEF t
  <2>4. \A d \in K : d.base \in Int /\ d.end \in Int /\ d.base < d.end
    BY <2>2, Members DEF CommLists, Sorted, CommSet
  <2>5. ASSUME NEW a \in Int, NEW b \in Int, a <= from, to <= b,
               \A c \in C : a <= c.base /\ c.end <= b, NEW d \in ToSet(t)
        PROVE  a <= d.base /\ d.end <= b
    <3>1. \A k \in K : a <= k.base /\ k.end <= b
      <4> SUFFICES ASSUME NEW k \in K PROVE a <= k.base /\ k.end <= b
        OBVIOUS
      <4>1. PICK c \in C : c.base <= k.base /\ k.end <= c.end
        BY <2>2
      <4> QED
        BY <1>4, <2>4, <2>5, <4>1
    <3> QED
      BY <2>3, <2>5, <3>1
  <2>6. ASSUME NEW c \in C, NEW w \in Within(c) \ (from..(to - 1))
        PROVE  \E d \in ToSet(t) : w \in Within(d) /\ d.stack = c.stack
    <3>1. PICK k \in K : w \in Within(k) /\ k.stack = c.stack
      BY <2>2
    <3> QED
      BY <2>3, <3>1
  <2>7. Covered(ToSet(t)) = Covered(C) \cup (from..(to - 1))
    <3>1. \A w \in Covered(K) : w \in Covered(C)
      <4> SUFFICES ASSUME NEW k \in K, NEW w \in Within(k) PROVE w \in Covered(C)
        BY DEF Covered
      <4>1. PICK c \in C : c.base <= k.base /\ k.end <= c.end
        BY <2>2
      <4>2. w \in Within(c)
        BY <1>4, <2>4, <4>1 DEF Within
      <4> QED
        BY <4>2 DEF Covered
    <3>2. \A w \in Covered(C) \ (from..(to - 1)) : w \in Covered(K)
      <4> SUFFICES ASSUME NEW c \in C, NEW w \in Within(c) \ (from..(to - 1)) PROVE w \in Covered(K)
        BY DEF Covered
      <4> QED
        BY <2>2 DEF Covered
    <3> QED
      BY <2>3, <3>1, <3>2
  <2>8. CommittedSize(t) = CommittedSize(cleared) + (to - from)
    <3>1. /\ CommittedSize(cleared) = Cardinality(Covered(K)) /\ IsFiniteSet(Covered(K))
          /\ CommittedSize(t) = Cardinality(Covered(ToSet(t)))
      BY <2>2, <2>3, CommSpans, CommittedSizeCounts DEF CommLists
    <3>2. IsFiniteSet(from..(to - 1)) /\ Cardinality(from..(to - 1)) = to - from
      BY WordsOfRegion
    <3>3. Covered(K) \cap (from..(to - 1)) = {}
      <4> SUFFICES ASSUME NEW k \in K, NEW w \in Within(k), w \in from..(to - 1) PROVE FALSE
        BY DEF Covered
      <4> QED
        BY <2>2, <2>4 DEF Within
    <3>4. Cardinality(Covered(K) \cup (from..(to - 1))) = Cardinality(Covered(K)) + Cardinality(from..(to - 1))
      BY <3>1, <3>2, <3>3, CountApart
    <3> QED
      BY <2>3, <3>1, <3>2, <3>4
  <2>9. CommittedSize(cleared) \in Nat
    BY <2>2, CommSpans, CommittedSizeCounts DEF CommLists
  <2>10. CommittedSize(cleared) - CommittedSize(list) + (to - from) = CommittedSize(t) - CommittedSize(list)
    BY <1>5, <2>8, <2>9
  <2> HIDE DEF added
  <2>11. added.list = t /\ added.recorded = CommittedSize(t) - CommittedSize(list)
    BY <2>1, <2>10
  <2> QED
    BY <2>3, <2>5, <2>6, <2>7, <2>11 DEF added
<1> QED
  BY <1>6, <1>7

\* Unless a region would be in two lists, the regions below w stay and the others
\* go.
LEMMA MovedUpSorted ==
  ASSUME NEW list \in CommLists, NEW w \in Int,
         ~(Len(MovedUp(list, w).low) + Len(MovedUp(list, w).high) > Len(list))
  PROVE  LET low  == MovedUp(list, w).low
             high == MovedUp(list, w).high
         IN  /\ low \in CommLists /\ ToSet(low) = {c \in ToSet(list) : c.base < w}
             /\ high \in CommLists /\ ToSet(high) = {c \in ToSet(list) : ~(c.base < w)}
<1> DEFINE C     == ToSet(list)
           n     == Len(list)
           Good  == {j \in 1..n : list[j].base < w}
           k     == Max({i \in 0..n : \A j \in 1..i : list[j].base < w})
           down  == SubSeq(list, 1, k)
           up    == SubSeq(list, k + 1, n)
           low   == MovedUp(list, w).low
           high  == MovedUp(list, w).high
<1>1. list \in Sorted(CommSet) /\ Separate(C)
  BY DEF CommLists
<1>2. /\ n \in Nat /\ DOMAIN list = 1..n /\ InOrder(list)
      /\ \A i \in 1..n : list[i] \in C
      /\ \A c \in C : c \in CommSet /\ \E i \in 1..n : list[i] = c
  BY <1>1, Members DEF Sorted
<1>3. \A i \in 1..n : list[i].base \in Int /\ list[i].end \in Int /\ list[i].base < list[i].end
  BY <1>2 DEF CommSet
<1>4. {i \in 0..n : \A j \in 1..i : list[j].base < w} = {i \in 0..n : \A j \in 1..i : j \in Good}
  <2>1. \A i \in 0..n : \A j \in 1..i : j \in 1..n
    BY <1>2
  <2> QED
    BY <2>1
<1>5. k = Max({i \in 0..n : \A j \in 1..i : j \in Good})
  BY <1>4
<1>6. /\ high = up
      /\ low = IF k = 0 \/ k = n THEN down ELSE down \o SubSeq(list, k + 2, n)
  BY DEF MovedUp
<1> HIDE DEF k, low, high
<1>7. k \in 0..n /\ (\A j \in 1..k : j \in Good) /\ (k < n => k + 1 \notin Good)
  <2> HIDE DEF Good
  <2> QED
    BY <1>2, <1>5, LastOfFirst
<1>8. \A i \in 1..n : list[i].base < w <=> i <= k
  <2> SUFFICES ASSUME NEW i \in 1..n PROVE list[i].base < w <=> i <= k
    OBVIOUS
  <2>1. i <= k => list[i].base < w
    BY <1>7
  <2>2. CASE i > k
    <3>1. k + 1 \in 1..n /\ k < n /\ (i = k + 1 \/ k + 1 < i)
      BY <1>2, <1>7, <2>2
    <3>2. ~(list[k + 1].base < w)
      BY <1>7, <3>1
    <3>3. i = k + 1 \/ list[k + 1].end <= list[i].base
      BY <1>2, <3>1 DEF InOrder
    <3> QED
      BY <1>3, <1>7, <2>2, <3>1, <3>2, <3>3
  <2> QED
    BY <1>7, <2>1, <2>2
<1>9. /\ down \in Sorted(CommSet) /\ Len(down) = k /\ ToSet(down) = {list[i] : i \in 1..k}
      /\ up \in Sorted(CommSet) /\ Len(up) = n - k /\ ToSet(up) = {list[i] : i \in (k + 1)..n}
  BY <1>1, <1>7, PartsSorted
<1> HIDE DEF down, up
<1>10. ToSet(down) = {c \in C : c.base < w}
  <2>1. \A i \in 1..k : i \in 1..n /\ list[i] \in C /\ list[i].base < w
    BY <1>2, <1>7, <1>8
  <2>2. \A c \in C : c.base < w => \E i \in 1..k : list[i] = c
    <3> SUFFICES ASSUME NEW c \in C, c.base < w PROVE \E i \in 1..k : list[i] = c
      OBVIOUS
    <3>1. PICK i \in 1..n : list[i] = c
      BY <1>2
    <3>2. i \in 1..k
      BY <1>7, <1>8, <3>1
    <3> QED
      BY <3>1, <3>2
  <2> QED
    BY <1>9, <2>1, <2>2
<1>11. ToSet(up) = {c \in C : ~(c.base < w)}
  <2>1. \A i \in (k + 1)..n : i \in 1..n /\ list[i] \in C /\ ~(list[i].base < w)
    <3> SUFFICES ASSUME NEW i \in (k + 1)..n PROVE i \in 1..n /\ list[i] \in C /\ ~(list[i].base < w)
      OBVIOUS
    <3>1. i \in 1..n /\ ~(i <= k)
      BY <1>2, <1>7
    <3> QED
      BY <1>2, <1>8, <3>1
  <2>2. \A c \in C : ~(c.base < w) => \E i \in (k + 1)..n : list[i] = c
    <3> SUFFICES ASSUME NEW c \in C, ~(c.base < w) PROVE \E i \in (k + 1)..n : list[i] = c
      OBVIOUS
    <3>1. PICK i \in 1..n : list[i] = c
      BY <1>2
    <3>2. i \in (k + 1)..n
      BY <1>2, <1>7, <1>8, <3>1
    <3> QED
      BY <3>1, <3>2
  <2> QED
    BY <1>9, <2>1, <2>2
<1>12. low = down
  <2> HIDE DEF n
  <2>0. n \in Nat /\ k \in Int /\ 0 <= k /\ k <= n
    BY <1>2, <1>7
  <2>1. CASE k = 0 \/ k = n
    BY <1>6, <2>1
  <2>2. CASE ~(k = 0 \/ k = n)
    <3> DEFINE rest == SubSeq(list, k + 2, n)
    <3>1. k + 2 \in 1..(n + 1) /\ n \in 0..n /\ k + 2 <= n + 1
      BY <2>0, <2>2
    <3>2. rest \in Sorted(CommSet) /\ Len(rest) = n + 1 - (k + 2)
      <4> DEFINE a == k + 2
                 b == n
      <4>1. a \in 1..(Len(list) + 1) /\ b \in 0..Len(list) /\ a <= b + 1
        BY <3>1 DEF n
      <4> HIDE DEF a, b
      <4>2. SubSeq(list, a, b) \in Sorted(CommSet) /\ Len(SubSeq(list, a, b)) = b + 1 - a
        BY <1>1, <4>1, CutSorted
      <4> QED
        BY <4>2 DEF a, b
    <3> HIDE DEF rest
    <3>3. down \in Seq(CommSet) /\ rest \in Seq(CommSet)
      BY <1>9, <3>2 DEF Sorted
    <3>4. low = down \o rest
      BY <1>6, <2>2 DEF rest
    <3>5. Len(low) = k + (n + 1 - (k + 2))
      <4>1. Len(down \o rest) = Len(down) + Len(rest)
        BY <3>3, ConcatProperties
      <4> QED
        BY <1>9, <3>2, <3>4, <4>1
    <3>6. Len(high) = n - k
      BY <1>6, <1>9
    <3>7. ~(Len(low) + Len(high) > n)
      BY DEF low, high, n
    <3>8. Len(rest) = 0
      <4>1. ~((k + (n + 1 - (k + 2))) + (n - k) > n)
        BY <3>5, <3>6, <3>7
      <4>2. n + 1 - (k + 2) = 0
        BY <2>0, <3>1, <4>1
      <4> QED
        BY <3>2, <4>2
    <3>9. rest = <<>>
      BY <3>3, <3>8, EmptySeq
    <3> QED
      BY <3>3, <3>4, <3>9, ConcatEmptySeq
  <2> QED
    BY <2>1, <2>2
<1>13. \A D \in SUBSET C : Separate(D)
  BY <1>1 DEF Separate
<1>14. ToSet(down) \in SUBSET C /\ ToSet(up) \in SUBSET C
  BY <1>10, <1>11
<1>15. down \in CommLists /\ up \in CommLists
  BY <1>9, <1>13, <1>14 DEF CommLists
<1> QED
  BY <1>6, <1>10, <1>11, <1>12, <1>15 DEF low, high

-----------------------------------------------------------------------------
(* Reserved regions.                                                       *)

\* A region with what is committed in it.
RegSet ==
  {r \in [base : Int, end : Int, flag : Flags, committed : CommLists] :
     /\ 0 <= r.base /\ r.base < r.end /\ r.end <= NumWords
     /\ \A c \in ToSet(r.committed) : r.base <= c.base /\ c.end <= r.end}

\* Finitely many regions that share no word.
Tidy(R) ==
  /\ R \subseteq RegSet
  /\ IsFiniteSet(R)
  /\ \A r, q \in R : r # q => Beside(r, q)

\* The words reserved for a flag, those of them that are committed.
Held(R, flag) == Covered({r \in R : r.flag = flag})
Used(R, flag) == UNION {Covered(ToSet(r.committed)) : r \in {q \in R : q.flag = flag}}

\* What the summary has to say.
Sums(R) == [reserved  |-> [flag \in Flags |-> Cardinality(Held(R, flag))],
            committed |-> [flag \in Flags |-> Cardinality(Used(R, flag))]]

\* The inductive invariant.
TrackerInv ==
  /\ regions \in Sorted(RegSet)
  /\ summary = Sums(ToSet(regions))

\* Regions have a beginning and an end, and what is committed lies between.
LEMMA RegionBounds ==
  ASSUME NEW r \in RegSet
  PROVE  /\ r.base \in Int /\ r.end \in Int /\ r.base < r.end
         /\ 0 <= r.base /\ r.end <= NumWords /\ r.flag \in Flags
         /\ r.committed \in CommLists /\ r.committed \in Sorted(CommSet)
         /\ \A c \in ToSet(r.committed) :
              /\ c \in CommSet /\ c.base \in Int /\ c.end \in Int /\ c.base < c.end
              /\ r.base <= c.base /\ c.end <= r.end
<1>1. r.committed \in CommLists /\ r.committed \in Sorted(CommSet)
  BY DEF RegSet, CommLists
<1>2. \A c \in ToSet(r.committed) : c \in CommSet
  BY <1>1, Members DEF Sorted
<1> QED
  BY <1>1, <1>2 DEF RegSet, CommSet

\* The same, for the lemmas about sorted lists.
LEMMA RegSpans == Spans(RegSet)
BY RegionBounds DEF Spans

\* The members of a sorted list of regions.
LEMMA RegionsTidy ==
  ASSUME NEW list \in Sorted(RegSet)
  PROVE  Tidy(ToSet(list))
<1>1. list \in Seq(RegSet) /\ InOrder(list)
  BY DEF Sorted
<1>2. ToSet(list) \subseteq RegSet /\ IsFiniteSet(ToSet(list))
  BY <1>1, Members
<1>3. \A r, q \in ToSet(list) : r # q => Beside(r, q)
  BY <1>1, RegSpans, OrderApart
<1> QED
  BY <1>2, <1>3 DEF Tidy

\* What is committed in a region are words of it.
LEMMA CommittedWithin ==
  ASSUME NEW r \in RegSet
  PROVE  /\ Covered(ToSet(r.committed)) \subseteq Within(r)
         /\ IsFiniteSet(Covered(ToSet(r.committed))) /\ IsFiniteSet(Within(r))
         /\ Cardinality(Within(r)) = Size(r)
         /\ Cardinality(Covered(ToSet(r.committed))) = CommittedSize(r.committed)
         /\ CommittedSize(r.committed) \in Nat /\ Size(r) \in Nat
<1>1. /\ r.base \in Int /\ r.end \in Int /\ r.base < r.end
      /\ r.committed \in Sorted(CommSet)
      /\ \A c \in ToSet(r.committed) : /\ c.base \in Int /\ c.end \in Int
                                       /\ r.base <= c.base /\ c.end <= r.end
  BY RegionBounds
<1>2. Covered(ToSet(r.committed)) \subseteq Within(r)
  <2> SUFFICES ASSUME NEW c \in ToSet(r.committed), NEW w \in Within(c) PROVE w \in Within(r)
    BY DEF Covered
  <2>1. c.base \in Int /\ c.end \in Int /\ r.base <= c.base /\ c.end <= r.end
    BY <1>1
  <2> QED
    BY <1>1, <2>1 DEF Within
<1>3. IsFiniteSet(Within(r)) /\ Cardinality(Within(r)) = Size(r)
  BY <1>1, WordsOfRegion DEF Within, Size
<1>4. /\ CommittedSize(r.committed) = Cardinality(Covered(ToSet(r.committed)))
      /\ IsFiniteSet(Covered(ToSet(r.committed))) /\ CommittedSize(r.committed) \in Nat
  BY <1>1, CommSpans, CommittedSizeCounts
<1>5. Size(r) \in Nat
  BY <1>1 DEF Size
<1> QED
  BY <1>2, <1>3, <1>4, <1>5

\* Regions of a tidy set share no words.
LEMMA TidyApart ==
  ASSUME NEW R, Tidy(R), NEW r \in R, NEW q \in R, r # q
  PROVE  Within(r) \cap Within(q) = {}
<1>1. r \in RegSet /\ q \in RegSet /\ Beside(r, q)
  BY DEF Tidy
<1>2. r.base \in Int /\ r.end \in Int /\ q.base \in Int /\ q.end \in Int
  BY <1>1, RegionBounds
<1>3. ASSUME NEW w, w \in Within(r), w \in Within(q) PROVE FALSE
  BY <1>1, <1>2, <1>3 DEF Within, Beside
<1> QED
  BY <1>3

\* Words that are committed are reserved, and there are finitely many of them.
LEMMA UsedIsHeld ==
  ASSUME NEW R, Tidy(R), NEW flag
  PROVE  /\ Used(R, flag) \subseteq Held(R, flag)
         /\ IsFiniteSet(Held(R, flag)) /\ IsFiniteSet(Used(R, flag))
         /\ Cardinality(Held(R, flag)) \in Nat /\ Cardinality(Used(R, flag)) \in Nat
         /\ Cardinality(Used(R, flag)) <= Cardinality(Held(R, flag))
<1> DEFINE T == {r \in R : r.flag = flag}
           W == {Within(r) : r \in T}
<1>1. T \subseteq R /\ IsFiniteSet(T) /\ \A r \in T : r \in RegSet
  BY FS_Subset DEF Tidy
<1>2. IsFiniteSet(W) /\ \A V \in W : IsFiniteSet(V)
  <2> DEFINE f == [r \in T |-> Within(r)]
  <2>1. f \in Surjection(T, W)
    BY DEF Surjection
  <2>2. \A V \in W : IsFiniteSet(V)
    BY <1>1, CommittedWithin
  <2> HIDE DEF T, W
  <2> QED
    BY <1>1, <2>1, <2>2, FS_Surjection
<1>3. IsFiniteSet(Held(R, flag))
  <2> HIDE DEF W
  <2>1. IsFiniteSet(UNION W)
    BY <1>2, FS_UNION
  <2> QED
    BY <2>1 DEF Held, Covered, W
<1>4. Used(R, flag) \subseteq Held(R, flag)
  <2> SUFFICES ASSUME NEW r \in T, NEW w \in Covered(ToSet(r.committed)) PROVE w \in Held(R, flag)
    BY DEF Used
  <2>1. w \in Within(r)
    BY <1>1, CommittedWithin
  <2> QED
    BY <2>1 DEF Held, Covered
<1>5. IsFiniteSet(Used(R, flag)) /\ Cardinality(Used(R, flag)) <= Cardinality(Held(R, flag))
  BY <1>3, <1>4, FS_Subset
<1> QED
  BY <1>3, <1>4, <1>5, FS_CardinalityType

\* What one region contributes to the sums.
LEMMA OneRegion ==
  ASSUME NEW R, Tidy(R), NEW r \in R, NEW flag
  PROVE  /\ Tidy(R \ {r})
         /\ Cardinality(Held(R, flag))
              = Cardinality(Held(R \ {r}, flag)) + (IF r.flag = flag THEN Size(r) ELSE 0)
         /\ Cardinality(Used(R, flag))
              = Cardinality(Used(R \ {r}, flag))
                + (IF r.flag = flag THEN CommittedSize(r.committed) ELSE 0)
<1> DEFINE Q == R \ {r}
<1>1. r \in RegSet
  BY DEF Tidy
<1>2. Tidy(Q)
  BY FS_Subset DEF Tidy
<1>3. /\ Cardinality(Held(Q, flag)) \in Nat /\ Cardinality(Used(Q, flag)) \in Nat
      /\ IsFiniteSet(Held(Q, flag)) /\ IsFiniteSet(Used(Q, flag))
      /\ Used(Q, flag) \subseteq Held(Q, flag)
  BY <1>2, UsedIsHeld
<1>4. CASE r.flag # flag
  <2>1. {q \in R : q.flag = flag} = {q \in Q : q.flag = flag}
    BY <1>4
  <2>2. Held(R, flag) = Held(Q, flag) /\ Used(R, flag) = Used(Q, flag)
    BY <2>1 DEF Held, Used
  <2> QED
    BY <1>2, <1>3, <1>4, <2>2
<1>5. CASE r.flag = flag
  <2>1. {q \in R : q.flag = flag} = {q \in Q : q.flag = flag} \cup {r}
    BY <1>5
  <2>2. /\ Held(R, flag) = Held(Q, flag) \cup Within(r)
        /\ Used(R, flag) = Used(Q, flag) \cup Covered(ToSet(r.committed))
    BY <2>1 DEF Held, Used, Covered
  <2>3. Held(Q, flag) \cap Within(r) = {}
    <3> SUFFICES ASSUME NEW q \in Q, NEW w \in Within(q), w \in Within(r) PROVE FALSE
      BY DEF Held, Covered
    <3>1. Within(q) \cap Within(r) = {}
      BY TidyApart
    <3> QED
      BY <3>1
  <2>4. /\ IsFiniteSet(Within(r)) /\ IsFiniteSet(Covered(ToSet(r.committed)))
        /\ Covered(ToSet(r.committed)) \subseteq Within(r)
        /\ Cardinality(Within(r)) = Size(r)
        /\ Cardinality(Covered(ToSet(r.committed))) = CommittedSize(r.committed)
    BY <1>1, CommittedWithin
  <2>5. Used(Q, flag) \cap Covered(ToSet(r.committed)) = {}
    BY <1>3, <2>3, <2>4
  <2>6. Cardinality(Held(R, flag)) = Cardinality(Held(Q, flag)) + Cardinality(Within(r))
    BY <1>3, <2>2, <2>3, <2>4, CountApart
  <2>7. Cardinality(Used(R, flag))
          = Cardinality(Used(Q, flag)) + Cardinality(Covered(ToSet(r.committed)))
    BY <1>3, <2>2, <2>4, <2>5, CountApart
  <2> QED
    BY <1>2, <1>5, <2>4, <2>6, <2>7
<1> QED
  BY <1>4, <1>5

-----------------------------------------------------------------------------
(* What is known of a word.                                                *)

\* FlagOf and StackOf, of a set of regions.
FlagIn(R, w) ==
  LET here == {r \in R : ContainAddress(r, w)} IN
  IF here = {} THEN "no one" ELSE (CHOOSE r \in here : TRUE).flag

Around(R, w) == {c \in UNION {ToSet(r.committed) : r \in R} : ContainAddress(c, w)}

OwnerOf(here) == IF here = {} THEN "no one" ELSE (CHOOSE c \in here : TRUE).stack

StackIn(R, w) == OwnerOf(Around(R, w))

\* Who committed a word of a region.
Mark(r, w) == StackIn({r}, w)

\* The words of a region know its flag, and what is committed in it.
LEMMA ViewInside ==
  ASSUME NEW R, Tidy(R), NEW r \in R, NEW w \in Within(r)
  PROVE  /\ FlagIn(R, w) = r.flag
         /\ StackIn(R, w) = Mark(r, w)
<1>1. {q \in R : ContainAddress(q, w)} = {r}
  <2>1. ASSUME NEW q \in R, ContainAddress(q, w) PROVE q = r
    <3>1. w \in Within(q)
      BY <2>1 DEF ContainAddress, Within
    <3>2. q # r => Within(r) \cap Within(q) = {}
      BY TidyApart
    <3> QED
      BY <3>1, <3>2
  <2>2. ContainAddress(r, w)
    BY DEF ContainAddress, Within
  <2> QED
    BY <2>1, <2>2
<1>2. FlagIn(R, w) = r.flag
  <2>1. (CHOOSE q \in {r} : TRUE) = r
    OBVIOUS
  <2> QED
    BY <1>1, <2>1 DEF FlagIn
<1>3. Around(R, w) = Around({r}, w)
  <2> SUFFICES ASSUME NEW q \in R, NEW c \in ToSet(q.committed), ContainAddress(c, w)
               PROVE  q = r
    BY DEF Around
  <2>1. w \in Covered(ToSet(q.committed))
    BY DEF Covered, ContainAddress, Within
  <2>2. w \in Within(q)
    BY <2>1, CommittedWithin DEF Tidy
  <2> QED
    BY <1>1, <2>2 DEF ContainAddress, Within
<1>4. StackIn(R, w) = Mark(r, w)
  BY <1>3 DEF StackIn, Mark
<1> QED
  BY <1>2, <1>4

\* Words of no region.
LEMMA ViewOutside ==
  ASSUME NEW R, Tidy(R), NEW w, \A r \in R : w \notin Within(r)
  PROVE  FlagIn(R, w) = "no one" /\ StackIn(R, w) = "no one"
<1>1. {r \in R : ContainAddress(r, w)} = {}
  BY DEF ContainAddress, Within
<1>2. Around(R, w) = {}
  <2> SUFFICES ASSUME NEW q \in R, NEW c \in ToSet(q.committed), ContainAddress(c, w)
               PROVE  FALSE
    BY DEF Around
  <2>1. w \in Covered(ToSet(q.committed))
    BY DEF Covered, ContainAddress, Within
  <2> QED
    BY <2>1, CommittedWithin DEF Tidy
<1> QED
  BY <1>1, <1>2 DEF FlagIn, StackIn, OwnerOf

\* A word that is committed is marked with the stack of its committed region.
LEMMA MarkOf ==
  ASSUME NEW r \in RegSet, NEW w
  PROVE  /\ \A c \in ToSet(r.committed) : w \in Within(c) => Mark(r, w) = c.stack
         /\ w \notin Covered(ToSet(r.committed)) => Mark(r, w) = "no one"
<1> DEFINE C    == ToSet(r.committed)
           here == {c \in C : ContainAddress(c, w)}
<1>1. Around({r}, w) = here
  BY DEF Around
<1>2. Mark(r, w) = OwnerOf(here)
  BY <1>1 DEF Mark, StackIn
<1>3. ASSUME NEW c \in C, w \in Within(c) PROVE here = {c}
  <2>1. c \in here
    BY <1>3 DEF ContainAddress, Within
  <2>2. ASSUME NEW d \in here PROVE d = c
    <3>1. w \in Within(d) /\ d \in C
      BY DEF ContainAddress, Within
    <3>2. c # d => Beside(c, d)
      BY <3>1, RegionBounds, CommSpans, OrderApart DEF Sorted
    <3>3. c.base \in Int /\ c.end \in Int /\ d.base \in Int /\ d.end \in Int
      BY <3>1, RegionBounds
    <3> QED
      BY <1>3, <3>1, <3>2, <3>3 DEF Within, Beside
  <2> QED
    BY <2>1, <2>2
<1>4. ASSUME NEW c \in C, w \in Within(c) PROVE Mark(r, w) = c.stack
  <2>1. here = {c}
    BY <1>3, <1>4
  <2>2. (CHOOSE d \in {c} : TRUE) = c
    OBVIOUS
  <2>3. OwnerOf({c}) = c.stack
    BY <2>2 DEF OwnerOf
  <2> HIDE DEF here
  <2> QED
    BY <1>2, <2>1, <2>3
<1>5. ASSUME w \notin Covered(C) PROVE Mark(r, w) = "no one"
  <2>1. here = {}
    BY <1>5 DEF Covered, ContainAddress, Within
  <2>2. OwnerOf({}) = "no one"
    BY DEF OwnerOf
  <2> HIDE DEF here
  <2> QED
    BY <1>2, <2>1, <2>2
<1> QED
  BY <1>4, <1>5

\* If regions differ only in what is around their committed regions, the marks are
\* those of the committed region the word lies in.
LEMMA MarkSame ==
  ASSUME NEW r \in RegSet, NEW q \in RegSet, NEW w,
         \A c \in ToSet(r.committed) :
           w \in Within(c) => \E d \in ToSet(q.committed) : w \in Within(d) /\ d.stack = c.stack,
         w \in Covered(ToSet(q.committed)) => w \in Covered(ToSet(r.committed))
  PROVE  Mark(q, w) = Mark(r, w)
<1>1. CASE w \in Covered(ToSet(r.committed))
  <2>1. PICK c \in ToSet(r.committed) : w \in Within(c)
    BY <1>1 DEF Covered
  <2>2. PICK d \in ToSet(q.committed) : w \in Within(d) /\ d.stack = c.stack
    BY <2>1
  <2>3. Mark(r, w) = c.stack
    BY <2>1, MarkOf
  <2>4. Mark(q, w) = d.stack
    BY <2>2, MarkOf
  <2> QED
    BY <2>2, <2>3, <2>4
<1>2. CASE w \notin Covered(ToSet(r.committed))
  <2>1. w \notin Covered(ToSet(q.committed))
    BY <1>2
  <2>2. Mark(r, w) = "no one" /\ Mark(q, w) = "no one"
    BY <1>2, <2>1, MarkOf
  <2> QED
    BY <2>2
<1> QED
  BY <1>1, <1>2

-----------------------------------------------------------------------------
(* A region comes, goes, is replaced: the sums and the views.              *)

\* What a region q adds to the sums and the views.
Gains(R, q, T) ==
  /\ \A flag : /\ Cardinality(Held(T, flag))
                    = Cardinality(Held(R, flag)) + (IF q.flag = flag THEN Size(q) ELSE 0)
               /\ Cardinality(Used(T, flag))
                    = Cardinality(Used(R, flag))
                      + (IF q.flag = flag THEN CommittedSize(q.committed) ELSE 0)
  /\ \A w \in Within(q) : /\ FlagIn(T, w) = q.flag
                          /\ StackIn(T, w) = Mark(q, w)
                          /\ FlagIn(R, w) = "no one" /\ StackIn(R, w) = "no one"
  /\ \A w : w \notin Within(q) => /\ FlagIn(T, w) = FlagIn(R, w)
                                  /\ StackIn(T, w) = StackIn(R, w)

\* A region comes.
LEMMA RegionComes ==
  ASSUME NEW R, Tidy(R), NEW q, q \notin R, NEW T, T = R \cup {q}, Tidy(T)
  PROVE  Gains(R, q, T)
<1>1. Tidy(T) /\ q \in T /\ T \ {q} = R
  OBVIOUS
<1>2. ASSUME NEW flag
      PROVE  /\ Cardinality(Held(T, flag))
                  = Cardinality(Held(R, flag)) + (IF q.flag = flag THEN Size(q) ELSE 0)
             /\ Cardinality(Used(T, flag))
                  = Cardinality(Used(R, flag))
                    + (IF q.flag = flag THEN CommittedSize(q.committed) ELSE 0)
  BY <1>1, OneRegion
<1>3. ASSUME NEW w \in Within(q)
      PROVE  /\ FlagIn(T, w) = q.flag /\ StackIn(T, w) = Mark(q, w)
             /\ FlagIn(R, w) = "no one" /\ StackIn(R, w) = "no one"
  <2>1. FlagIn(T, w) = q.flag /\ StackIn(T, w) = Mark(q, w)
    BY <1>1, ViewInside
  <2>2. \A r \in R : w \notin Within(r)
    <3> SUFFICES ASSUME NEW r \in R, w \in Within(r) PROVE FALSE
      OBVIOUS
    <3>1. r \in T /\ r # q
      BY <1>1
    <3>2. Within(q) \cap Within(r) = {}
      BY <1>1, <3>1, TidyApart
    <3> QED
      BY <3>2
  <2> QED
    BY <2>1, <2>2, ViewOutside
<1>4. ASSUME NEW w, w \notin Within(q)
      PROVE  FlagIn(T, w) = FlagIn(R, w) /\ StackIn(T, w) = StackIn(R, w)
  <2>1. CASE \E r \in R : w \in Within(r)
    <3>1. PICK r \in R : w \in Within(r)
      BY <2>1
    <3>2. r \in T
      BY <1>1
    <3>3. FlagIn(R, w) = r.flag /\ StackIn(R, w) = Mark(r, w)
      BY <3>1, ViewInside
    <3>4. FlagIn(T, w) = r.flag /\ StackIn(T, w) = Mark(r, w)
      BY <1>1, <3>1, <3>2, ViewInside
    <3> QED
      BY <3>3, <3>4
  <2>2. CASE ~\E r \in R : w \in Within(r)
    <3>1. \A r \in T : w \notin Within(r)
      BY <1>4, <2>2
    <3> QED
      BY <1>1, <2>2, <3>1, ViewOutside
  <2> QED
    BY <2>1, <2>2
<1> QED
  BY <1>2, <1>3, <1>4 DEF Gains

\* The same for a region q in place of r.
Swaps(R, r, q, T) ==
  /\ \A flag : /\ Cardinality(Held(T, flag))
                    = Cardinality(Held(R, flag)) - (IF r.flag = flag THEN Size(r) ELSE 0)
                        + (IF q.flag = flag THEN Size(q) ELSE 0)
               /\ Cardinality(Used(T, flag))
                    = Cardinality(Used(R, flag))
                        - (IF r.flag = flag THEN CommittedSize(r.committed) ELSE 0)
                        + (IF q.flag = flag THEN CommittedSize(q.committed) ELSE 0)
  /\ \A w \in Within(r) : FlagIn(R, w) = r.flag /\ StackIn(R, w) = Mark(r, w)
  /\ \A w \in Within(q) : FlagIn(T, w) = q.flag /\ StackIn(T, w) = Mark(q, w)
  /\ \A w \in Within(r) \ Within(q) : FlagIn(T, w) = "no one" /\ StackIn(T, w) = "no one"
  /\ \A w \in Within(q) \ Within(r) : FlagIn(R, w) = "no one" /\ StackIn(R, w) = "no one"
  /\ \A w : w \notin Within(r) /\ w \notin Within(q) =>
       FlagIn(T, w) = FlagIn(R, w) /\ StackIn(T, w) = StackIn(R, w)

\* A region is replaced by another one.
LEMMA RegionChanges ==
  ASSUME NEW R, Tidy(R), NEW r \in R, NEW q, q \notin R \ {r}, NEW T, T = (R \ {r}) \cup {q}, Tidy(T)
  PROVE  Swaps(R, r, q, T)
<1> DEFINE Q == R \ {r}
<1>1. Tidy(Q) /\ r \notin Q /\ Q \cup {r} = R /\ q \notin Q /\ Q \cup {q} = T
  BY OneRegion
<1>2. r \in RegSet /\ q \in RegSet
  BY <1>1 DEF Tidy
<1> HIDE DEF Q
<1>3. Gains(Q, r, R)
  BY <1>1, RegionComes
<1>4. Gains(Q, q, T)
  BY <1>1, RegionComes
<1>5. ASSUME NEW flag
      PROVE  /\ Cardinality(Held(T, flag))
                  = Cardinality(Held(R, flag)) - (IF r.flag = flag THEN Size(r) ELSE 0)
                      + (IF q.flag = flag THEN Size(q) ELSE 0)
             /\ Cardinality(Used(T, flag))
                  = Cardinality(Used(R, flag))
                      - (IF r.flag = flag THEN CommittedSize(r.committed) ELSE 0)
                      + (IF q.flag = flag THEN CommittedSize(q.committed) ELSE 0)
  <2>1. Cardinality(Held(Q, flag)) \in Nat /\ Cardinality(Used(Q, flag)) \in Nat
    BY <1>1, UsedIsHeld
  <2>2. Size(r) \in Nat /\ CommittedSize(r.committed) \in Nat /\ Size(q) \in Nat /\ CommittedSize(q.committed) \in Nat
    BY <1>2, CommittedWithin
  <2>3. /\ Cardinality(Held(R, flag))
             = Cardinality(Held(Q, flag)) + (IF r.flag = flag THEN Size(r) ELSE 0)
        /\ Cardinality(Used(R, flag))
             = Cardinality(Used(Q, flag)) + (IF r.flag = flag THEN CommittedSize(r.committed) ELSE 0)
        /\ Cardinality(Held(T, flag))
             = Cardinality(Held(Q, flag)) + (IF q.flag = flag THEN Size(q) ELSE 0)
        /\ Cardinality(Used(T, flag))
             = Cardinality(Used(Q, flag)) + (IF q.flag = flag THEN CommittedSize(q.committed) ELSE 0)
    BY <1>3, <1>4 DEF Gains
  <2> QED
    BY <2>1, <2>2, <2>3
<1>6. /\ \A w \in Within(r) : FlagIn(R, w) = r.flag /\ StackIn(R, w) = Mark(r, w)
      /\ \A w \in Within(q) : FlagIn(T, w) = q.flag /\ StackIn(T, w) = Mark(q, w)
      /\ \A w \in Within(r) \ Within(q) : FlagIn(T, w) = "no one" /\ StackIn(T, w) = "no one"
      /\ \A w \in Within(q) \ Within(r) : FlagIn(R, w) = "no one" /\ StackIn(R, w) = "no one"
      /\ \A w : w \notin Within(r) /\ w \notin Within(q) =>
           FlagIn(T, w) = FlagIn(R, w) /\ StackIn(T, w) = StackIn(R, w)
  BY <1>3, <1>4 DEF Gains
<1> QED
  BY <1>5, <1>6 DEF Swaps

-----------------------------------------------------------------------------
(* What the operations are made of.                                        *)

\* The parts of a region that is made.
LEMMA RegionMade ==
  ASSUME NEW b, NEW e, NEW flag, NEW list
  PROVE  LET q == Region(b, e, flag, list) IN
         /\ q.base = b /\ q.end = e /\ q.flag = flag /\ q.committed = list
         /\ Within(q) = b..(e - 1) /\ Size(q) = e - b
BY DEF Region, Within, Size

\* They are regions if what is committed lies between their ends.
LEMMA RegionFits ==
  ASSUME NEW b \in Int, NEW e \in Int, NEW flag \in Flags, NEW list \in CommLists,
         0 <= b, b < e, e <= NumWords, \A c \in ToSet(list) : b <= c.base /\ c.end <= e
  PROVE  Region(b, e, flag, list) \in RegSet
BY DEF Region, RegSet

\* A region with one part changed.
LEMMA RegionForms ==
  ASSUME NEW r \in RegSet, NEW x
  PROVE  /\ [r EXCEPT !.committed = x] = Region(r.base, r.end, r.flag, x)
         /\ [r EXCEPT !.flag = x] = Region(r.base, r.end, x, r.committed)
         /\ [r EXCEPT !.base = x] = Region(x, r.end, r.flag, r.committed)
         /\ [r EXCEPT !.end = x] = Region(r.base, x, r.flag, r.committed)
         /\ r = Region(r.base, r.end, r.flag, r.committed)
BY DEF Region, RegSet

\* find gives the position of a region that overlaps the range, or none.
LEMMA FindFirst ==
  ASSUME regions \in Sorted(RegSet), NEW from, NEW to, Find(from, to) # 0
  PROVE  /\ Find(from, to) \in 1..Len(regions)
         /\ OverlapRegion(regions[Find(from, to)], from, to)
<1> DEFINE I == {i \in 1..Len(regions) : OverlapRegion(regions[i], from, to)}
<1>1. regions \in Seq(RegSet) /\ Len(regions) \in Nat
  BY LenProperties DEF Sorted
<1>2. IsFiniteSet(I) /\ I \in SUBSET Int
  <2>1. IsFiniteSet(1..Len(regions))
    BY <1>1, FS_Interval
  <2>2. IsFiniteSet(I)
    BY <2>1, FS_Subset
  <2> QED
    BY <1>1, <2>2
<1>3. Find(from, to) = IF I # {} THEN Min(I) ELSE 0
  BY DEF Find, SelectInSeq
<1> HIDE DEF I
<1>4. I # {} /\ Find(from, to) \in I
  BY <1>2, <1>3, MinExists
<1> QED
  BY <1>4 DEF I

\* If it gives none, then none of which an end of the range is a word.
LEMMA FindNone ==
  ASSUME regions \in Sorted(RegSet), NEW from, NEW to, Find(from, to) = 0, NEW i \in 1..Len(regions)
  PROVE  ~OverlapRegion(regions[i], from, to)
<1> DEFINE I == {j \in 1..Len(regions) : OverlapRegion(regions[j], from, to)}
<1>1. Len(regions) \in Nat
  BY LenProperties DEF Sorted
<1>2. IsFiniteSet(I) /\ I \in SUBSET Int
  <2>1. IsFiniteSet(1..Len(regions))
    BY <1>1, FS_Interval
  <2>2. IsFiniteSet(I)
    BY <2>1, FS_Subset
  <2> QED
    BY <1>1, <2>2
<1>3. Find(from, to) = IF I # {} THEN Min(I) ELSE 0
  BY DEF Find, SelectInSeq
<1>4. I # {} => Min(I) \in I
  <2> HIDE DEF I
  <2> QED
    BY <1>2, MinExists
<1>5. I = {}
  BY <1>1, <1>3, <1>4
<1> QED
  BY <1>5

\* The region it gives shares words with the range.
LEMMA FoundOverlaps ==
  ASSUME regions \in Sorted(RegSet), NEW from \in Int, NEW to \in Int, from < to, Find(from, to) # 0
  PROVE  Find(from, to) \in 1..Len(regions) /\ regions[Find(from, to)] \in Overlapping(from, to)
<1> DEFINE r == regions[Find(from, to)]
<1>1. Find(from, to) \in 1..Len(regions) /\ OverlapRegion(r, from, to)
  BY FindFirst
<1>2. r \in ToSet(regions) /\ r \in RegSet
  BY <1>1, Members DEF Sorted
<1>3. r.base \in Int /\ r.end \in Int
  BY <1>2, RegionBounds
<1>4. r.base < to /\ from < r.end
  BY <1>1, <1>3 DEF OverlapRegion, ContainAddress
<1> QED
  BY <1>1, <1>2, <1>4 DEF Overlapping

\* A region is replaced by one that overlaps it and no other.
LEMMA PlaceRegion ==
  ASSUME NEW list \in Sorted(RegSet), NEW i \in 1..Len(list), NEW q \in RegSet,
         NEW r, r = list[i], ~Beside(r, q),
         \A s \in ToSet(list) : s # r => Beside(s, q)
  PROVE  /\ r \in RegSet /\ r \in ToSet(list)
         /\ Replaced(list, i, q) \in Sorted(RegSet)
         /\ ToSet(Replaced(list, i, q)) = (ToSet(list) \ {r}) \cup {q}
         /\ Swaps(ToSet(list), r, q, ToSet(Replaced(list, i, q)))
<1> DEFINE R == ToSet(list)
           T == ToSet(Replaced(list, i, q))
<1>1. /\ list \in Seq(RegSet) /\ InOrder(list)
      /\ Len(list) \in Nat /\ DOMAIN list = 1..Len(list)
      /\ \A j \in 1..Len(list) : list[j] \in RegSet /\ list[j] \in R
  BY Members DEF Sorted
<1>2. q.base \in Int /\ q.end \in Int /\ q.base < q.end
  BY RegionBounds
<1>3. \A j \in 1..Len(list) : list[j].base \in Int /\ list[j].end \in Int /\ list[j].base < list[j].end
  BY <1>1, RegionBounds
<1>4. \A j \in 1..Len(list) : j # i => Beside(list[j], q)
  <2>1. \A j \in 1..Len(list) : list[j] = list[i] => j = i
    BY <1>1, RegSpans, OrderApart
  <2> QED
    BY <1>1, <2>1
<1>5. ASSUME NEW j \in 1..(i - 1) PROVE list[j].end <= q.base
  <2>1. j \in 1..Len(list) /\ j < i /\ j # i
    BY <1>1
  <2>2. list[j].end <= list[i].base
    BY <1>1, <2>1 DEF InOrder
  <2>3. Beside(list[j], q)
    BY <1>4, <2>1
  <2> QED
    BY <1>2, <1>3, <2>1, <2>2, <2>3 DEF Beside
<1>6. ASSUME NEW j \in (i + 1)..Len(list) PROVE q.end <= list[j].base
  <2>1. j \in 1..Len(list) /\ i < j /\ j # i
    BY <1>1
  <2>2. list[i].end <= list[j].base
    BY <1>1, <2>1 DEF InOrder
  <2>3. Beside(list[j], q)
    BY <1>4, <2>1
  <2> QED
    BY <1>2, <1>3, <2>1, <2>2, <2>3 DEF Beside
<1>7. /\ Replaced(list, i, q) \in Sorted(RegSet)
      /\ T = (R \ {r}) \cup {q}
  BY <1>5, <1>6, RegSpans, ReplaceSorted
<1>8. Tidy(R) /\ Tidy(T)
  BY <1>7, RegionsTidy
<1>9. q \notin R \ {r}
  <2>1. ~Beside(q, q)
    BY <1>2 DEF Beside
  <2> QED
    BY <2>1
<1>10. r \in RegSet /\ r \in R
  BY <1>1
<1> HIDE DEF R, T
<1>11. Swaps(R, r, q, T)
  BY <1>7, <1>8, <1>9, <1>10, RegionChanges
<1> QED
  BY <1>7, <1>10, <1>11 DEF R, T

\* A region is replaced by one inside its bounds.
LEMMA PlaceInside ==
  ASSUME NEW list \in Sorted(RegSet), NEW i \in 1..Len(list), NEW q \in RegSet,
         NEW r, r = list[i], r.base <= q.base, q.end <= r.end
  PROVE  /\ r \in RegSet /\ r \in ToSet(list)
         /\ Replaced(list, i, q) \in Sorted(RegSet)
         /\ ToSet(Replaced(list, i, q)) = (ToSet(list) \ {r}) \cup {q}
         /\ Swaps(ToSet(list), r, q, ToSet(Replaced(list, i, q)))
<1>1. r \in RegSet /\ r \in ToSet(list) /\ Tidy(ToSet(list))
  BY RegionsTidy, Members DEF Sorted
<1>2. /\ q.base \in Int /\ q.end \in Int /\ q.base < q.end
      /\ r.base \in Int /\ r.end \in Int
  BY <1>1, RegionBounds
<1>3. ~Beside(r, q)
  BY <1>2 DEF Beside
<1>4. ASSUME NEW s \in ToSet(list), s # r PROVE Beside(s, q)
  <2>1. Beside(s, r) /\ s \in RegSet
    BY <1>1, <1>4 DEF Tidy
  <2>2. s.base \in Int /\ s.end \in Int
    BY <2>1, RegionBounds
  <2> QED
    BY <1>2, <2>1, <2>2 DEF Beside
<1> QED
  BY <1>3, <1>4, PlaceRegion

\* The summary, part by part.
LEMMA SummaryIs ==
  ASSUME NEW a, NEW b, NEW T,
         a = [flag \in Flags |-> a[flag]], b = [flag \in Flags |-> b[flag]],
         \A flag \in Flags : /\ a[flag] = Cardinality(Held(T, flag))
                             /\ b[flag] = Cardinality(Used(T, flag))
  PROVE  [reserved |-> a, committed |-> b] = Sums(T)
<1>1. a = [flag \in Flags |-> Cardinality(Held(T, flag))]
  OBVIOUS
<1>2. b = [flag \in Flags |-> Cardinality(Used(T, flag))]
  OBVIOUS
<1> QED
  BY <1>1, <1>2 DEF Sums

\* What the summary says before a step.
LEMMA SummaryWas ==
  ASSUME TrackerInv
  PROVE  /\ summary = [reserved |-> summary.reserved, committed |-> summary.committed]
         /\ summary.reserved = [flag \in Flags |-> summary.reserved[flag]]
         /\ summary.committed = [flag \in Flags |-> summary.committed[flag]]
         /\ \A flag \in Flags :
              /\ summary.reserved[flag] = Cardinality(Held(ToSet(regions), flag))
              /\ summary.committed[flag] = Cardinality(Used(ToSet(regions), flag))
              /\ summary.reserved[flag] \in Nat /\ summary.committed[flag] \in Nat
<1>1. Tidy(ToSet(regions))
  BY RegionsTidy DEF TrackerInv
<1>2. \A flag : Cardinality(Held(ToSet(regions), flag)) \in Nat /\ Cardinality(Used(ToSet(regions), flag)) \in Nat
  BY <1>1, UsedIsHeld
<1> QED
  BY <1>2 DEF TrackerInv, Sums

\* The views of the words, before and after a step.
LEMMA ViewsAre ==
  /\ \A w : FlagOf(w) = FlagIn(ToSet(regions), w) /\ StackOf(w) = StackIn(ToSet(regions), w)
  /\ \A w : FlagOf(w)' = FlagIn(ToSet(regions'), w) /\ StackOf(w)' = StackIn(ToSet(regions'), w)
<1>1. \A w : FlagOf(w) = FlagIn(ToSet(regions), w)
  BY DEF FlagOf, FlagIn
<1>2. \A w : StackOf(w) = StackIn(ToSet(regions), w)
  BY DEF StackOf, StackIn, Around, OwnerOf
<1>3. \A w : FlagOf(w)' = FlagIn(ToSet(regions'), w)
  BY DEF FlagOf, FlagIn
<1>4. \A w : StackOf(w)' = StackIn(ToSet(regions'), w)
  BY DEF StackOf, StackIn, Around, OwnerOf
<1> QED
  BY <1>1, <1>2, <1>3, <1>4

-----------------------------------------------------------------------------
(* The operations.                                                         *)

\* A region with nothing committed in it.
LEMMA NothingCommitted ==
  /\ <<>> \in CommLists /\ ToSet(<<>>) = {} /\ CommittedSize(<<>>) = 0
  /\ \A r \in RegSet : r.committed = <<>> => \A w : Mark(r, w) = "no one"
<1>1. <<>> \in Sorted(CommSet) /\ ToSet(<<>>) = {}
  BY DEF Sorted, InOrder, ToSet
<1>2. <<>> \in CommLists
  BY <1>1 DEF CommLists, Separate
<1>3. Covered({}) = {}
  BY DEF Covered
<1>4. CommittedSize(<<>>) = Cardinality({})
  BY <1>1, <1>3, CommSpans, CommittedSizeCounts
<1>5. CommittedSize(<<>>) = 0
  BY <1>4, FS_EmptySet
<1>6. \A r \in RegSet : r.committed = <<>> => \A w : Mark(r, w) = "no one"
  BY <1>1, <1>3, MarkOf
<1> QED
  BY <1>1, <1>2, <1>5, <1>6

\* Ranges of the address space.
Ranged(from, to) == from \in 0..(NumWords - 1) /\ to \in 1..NumWords /\ from < to

\* A new region: AddReserved, where no region is.
LEMMA ReserveStep ==
  ASSUME TrackerInv, NumWords \in Nat, NEW from, NEW to, Ranged(from, to), NEW flag \in Flags,
         \A s \in ToSet(regions) : s.end <= from \/ to <= s.base,
         AddReserved(from, to, flag)
  PROVE  TrackerInv' /\ Memory!Reserve(from, to, flag)
<1> DEFINE q == Region(from, to, flag, <<>>)
           R == ToSet(regions)
           T == ToSet(regions')
<1>1. from \in Int /\ to \in Int /\ from < to /\ 0 <= from /\ to <= NumWords
  BY DEF Ranged
<1>2. /\ q \in RegSet /\ q.base = from /\ q.end = to /\ q.flag = flag /\ q.committed = <<>>
      /\ Within(q) = from..(to - 1) /\ Size(q) = to - from
  <2>1. <<>> \in CommLists /\ \A c \in ToSet(<<>>) : from <= c.base /\ c.end <= to
    BY NothingCommitted
  <2>2. q \in RegSet
    BY <1>1, <2>1, RegionFits
  <2> QED
    BY <2>2, RegionMade
<1>3. \A s \in R : Beside(s, q)
  BY <1>2 DEF Beside
<1>4. regions \in Sorted(RegSet) /\ regions' = SortedAdd(regions, q)
  BY DEF TrackerInv, AddReserved
<1> HIDE DEF q
<1>5. regions' \in Sorted(RegSet) /\ T = R \cup {q}
  BY <1>2, <1>3, <1>4, RegSpans, SortedAddSorted
<1>6. Tidy(R) /\ Tidy(T)
  BY <1>4, <1>5, RegionsTidy
<1>7. q \notin R
  <2>1. ~Beside(q, q)
    BY <1>1, <1>2 DEF Beside
  <2> QED
    BY <1>3, <2>1
<1> HIDE DEF R, T
<1>8. Gains(R, q, T)
  BY <1>5, <1>6, <1>7, RegionComes
<1>9. TrackerInv'
  <2> DEFINE a == [summary.reserved EXCEPT ![flag] = @ + (to - from)]
  <2>1. /\ summary' = [reserved |-> a, committed |-> summary.committed]
        /\ a = [f \in Flags |-> a[f]]
    BY SummaryWas DEF AddReserved
  <2>2. \A f \in Flags : /\ a[f] = Cardinality(Held(T, f))
                         /\ summary.committed[f] = Cardinality(Used(T, f))
    <3>1. \A f \in Flags : a[f] = summary.reserved[f] + (IF q.flag = f THEN Size(q) ELSE 0)
      BY <1>1, <1>2, SummaryWas
    <3>2. \A f \in Flags : summary.committed[f] = summary.committed[f] + (IF q.flag = f THEN CommittedSize(q.committed) ELSE 0)
      <4>1. CommittedSize(q.committed) = 0
        BY <1>2, NothingCommitted
      <4> QED
        BY <4>1, SummaryWas
    <3>3. \A f \in Flags : /\ summary.reserved[f] = Cardinality(Held(R, f))
                           /\ summary.committed[f] = Cardinality(Used(R, f))
      BY SummaryWas DEF R
    <3>4. \A f \in Flags :
            /\ Cardinality(Held(T, f)) = Cardinality(Held(R, f)) + (IF q.flag = f THEN Size(q) ELSE 0)
            /\ Cardinality(Used(T, f))
                 = Cardinality(Used(R, f)) + (IF q.flag = f THEN CommittedSize(q.committed) ELSE 0)
      BY <1>8 DEF Gains
    <3> HIDE DEF a
    <3> QED
      BY <3>1, <3>2, <3>3, <3>4
  <2> HIDE DEF a
  <2>3. summary' = Sums(T)
    BY <2>1, <2>2, SummaryWas, SummaryIs
  <2> QED
    BY <1>5, <2>3 DEF TrackerInv, T
<1>10. /\ \A w \in from..(to - 1) : FlagIn(T, w) = flag /\ StackIn(T, w) = StackIn(R, w)
       /\ \A w : w \notin from..(to - 1) => FlagIn(T, w) = FlagIn(R, w) /\ StackIn(T, w) = StackIn(R, w)
  BY <1>2, <1>8, NothingCommitted DEF Gains
<1>11. Memory!Reserve(from, to, flag)
  BY <1>10, ViewsAre DEF Memory!Reserve, Memory!Set, Memory!Range, R, T
<1> QED
  BY <1>9, <1>11

\* The summary after a region q has taken the place of r.
LEMMA SummarySwapped ==
  ASSUME TrackerInv, NEW r, NEW q, NEW T, Swaps(ToSet(regions), r, q, T),
         NEW a, NEW b, a = [flag \in Flags |-> a[flag]], b = [flag \in Flags |-> b[flag]],
         \A f \in Flags :
           /\ a[f] = summary.reserved[f] - (IF r.flag = f THEN Size(r) ELSE 0)
                                         + (IF q.flag = f THEN Size(q) ELSE 0)
           /\ b[f] = summary.committed[f] - (IF r.flag = f THEN CommittedSize(r.committed) ELSE 0)
                                          + (IF q.flag = f THEN CommittedSize(q.committed) ELSE 0)
  PROVE  [reserved |-> a, committed |-> b] = Sums(T)
<1> DEFINE R == ToSet(regions)
<1>1. \A f \in Flags : /\ summary.reserved[f] = Cardinality(Held(R, f))
                       /\ summary.committed[f] = Cardinality(Used(R, f))
  BY SummaryWas
<1>2. \A f \in Flags :
        /\ Cardinality(Held(T, f))
             = Cardinality(Held(R, f)) - (IF r.flag = f THEN Size(r) ELSE 0)
                 + (IF q.flag = f THEN Size(q) ELSE 0)
        /\ Cardinality(Used(T, f))
             = Cardinality(Used(R, f)) - (IF r.flag = f THEN CommittedSize(r.committed) ELSE 0)
                 + (IF q.flag = f THEN CommittedSize(q.committed) ELSE 0)
  BY DEF Swaps
<1> HIDE DEF R
<1>3. \A f \in Flags : a[f] = Cardinality(Held(T, f)) /\ b[f] = Cardinality(Used(T, f))
  BY <1>1, <1>2
<1> QED
  BY <1>3, SummaryIs

\* What is committed stays where it is if a region gets another type.
LEMMA RetagStep ==
  ASSUME TrackerInv, NEW i \in 1..Len(regions), NEW flag \in Flags, Retag(i, flag),
         NEW r, r = regions[i]
  PROVE  /\ TrackerInv'
         /\ \A w \in Within(r) : FlagOf(w) = r.flag /\ FlagOf(w)' = flag
         /\ \A w : w \notin Within(r) => FlagOf(w)' = FlagOf(w)
         /\ \A w : StackOf(w)' = StackOf(w)
<1> DEFINE q == Region(r.base, r.end, flag, r.committed)
           R == ToSet(regions)
           T == ToSet(regions')
<1>1. regions \in Sorted(RegSet) /\ regions \in Seq(RegSet) /\ r \in RegSet
  BY Members DEF TrackerInv, Sorted
<1>2. /\ r.base \in Int /\ r.end \in Int /\ r.base < r.end /\ 0 <= r.base /\ r.end <= NumWords
      /\ r.committed \in CommLists
      /\ \A c \in ToSet(r.committed) : r.base <= c.base /\ c.end <= r.end
  BY <1>1, RegionBounds
<1>3. q \in RegSet
  BY <1>2, RegionFits
<1>4. /\ q.base = r.base /\ q.end = r.end /\ q.flag = flag /\ q.committed = r.committed
      /\ Within(q) = Within(r) /\ Size(q) = Size(r)
  BY RegionMade DEF Within, Size
<1>5. regions' = Replaced(regions, i, q)
  <2>1. regions' = [regions EXCEPT ![i] = [r EXCEPT !.flag = flag]]
    BY DEF Retag
  <2> QED
    BY <1>1, <2>1, RegionForms DEF Replaced
<1> HIDE DEF q
<1>6. /\ regions' \in Sorted(RegSet)
      /\ Swaps(R, r, q, T)
  BY <1>1, <1>2, <1>3, <1>4, <1>5, PlaceInside
<1> HIDE DEF R, T
<1>7. TrackerInv'
  <2> DEFINE move(f, size) == [g \in Flags |-> f[g] + (IF g = flag THEN size ELSE 0)
                                                    - (IF g = r.flag THEN size ELSE 0)]
             a == move(summary.reserved, Size(r))
             b == move(summary.committed, CommittedSize(r.committed))
  <2>1. summary' = [reserved |-> a, committed |-> b]
    BY DEF Retag
  <2>2. a = [g \in Flags |-> a[g]] /\ b = [g \in Flags |-> b[g]]
    OBVIOUS
  <2>3. \A f \in Flags :
          /\ a[f] = summary.reserved[f] + (IF f = flag THEN Size(r) ELSE 0) - (IF f = r.flag THEN Size(r) ELSE 0)
          /\ b[f] = summary.committed[f] + (IF f = flag THEN CommittedSize(r.committed) ELSE 0)
                                         - (IF f = r.flag THEN CommittedSize(r.committed) ELSE 0)
    OBVIOUS
  <2>4. Size(r) \in Nat /\ CommittedSize(r.committed) \in Nat /\ CommittedSize(q.committed) = CommittedSize(r.committed)
    BY <1>1, <1>4, CommittedWithin
  <2> HIDE DEF a, b, move
  <2>5. \A f \in Flags :
          /\ a[f] = summary.reserved[f] - (IF r.flag = f THEN Size(r) ELSE 0)
                                        + (IF q.flag = f THEN Size(q) ELSE 0)
          /\ b[f] = summary.committed[f] - (IF r.flag = f THEN CommittedSize(r.committed) ELSE 0)
                                         + (IF q.flag = f THEN CommittedSize(q.committed) ELSE 0)
    BY <1>4, <2>3, <2>4, SummaryWas
  <2>6. summary' = Sums(T)
    BY <1>6, <2>1, <2>2, <2>5, SummarySwapped DEF R
  <2> QED
    BY <1>6, <2>6 DEF TrackerInv, T
<1>8. \A w : Mark(q, w) = Mark(r, w)
  BY <1>1, <1>3, <1>4, MarkSame
<1>9. /\ \A w \in Within(r) : /\ FlagIn(R, w) = r.flag /\ FlagIn(T, w) = flag
                              /\ StackIn(T, w) = StackIn(R, w)
      /\ \A w : w \notin Within(r) => FlagIn(T, w) = FlagIn(R, w) /\ StackIn(T, w) = StackIn(R, w)
  BY <1>4, <1>6, <1>8 DEF Swaps
<1> QED
  BY <1>7, <1>9, ViewsAre DEF R, T

\* The stack of a thread in place of that of one that is gone.
LEMMA OverwriteStep ==
  ASSUME TrackerInv, NumWords \in Nat, NEW from, NEW to, Ranged(from, to), NEW flag \in Flags,
         NEW i \in 1..Len(regions), NEW r, r = regions[i],
         r.flag = "mtThreadStack", r.committed = <<>>, Overlapping(from, to) = {r},
         Overwrite(i, from, to, flag)
  PROVE  TrackerInv' /\ Memory!Replace(from, to, flag)
<1> DEFINE q == Region(from, to, flag, <<>>)
           R == ToSet(regions)
           T == ToSet(regions')
<1>1. regions \in Sorted(RegSet) /\ regions \in Seq(RegSet) /\ r \in RegSet /\ Tidy(R)
  BY Members, RegionsTidy DEF TrackerInv, Sorted
<1>2. /\ r.base \in Int /\ r.end \in Int
      /\ from \in Int /\ to \in Int /\ from < to /\ 0 <= from /\ to <= NumWords
  BY <1>1, RegionBounds DEF Ranged
<1>3. q \in RegSet
  <2>1. <<>> \in CommLists /\ \A c \in ToSet(<<>>) : from <= c.base /\ c.end <= to
    BY NothingCommitted
  <2> QED
    BY <1>2, <2>1, RegionFits
<1>4. /\ q.base = from /\ q.end = to /\ q.flag = flag /\ q.committed = <<>>
      /\ Within(q) = from..(to - 1) /\ Size(q) = to - from
  BY RegionMade
<1>5. regions' = Replaced(regions, i, q)
  BY <1>1 DEF Overwrite, Replaced
<1> HIDE DEF q
<1>6. ~Beside(r, q)
  <2>1. r.base < to /\ from < r.end
    BY DEF Overlapping
  <2> QED
    BY <1>2, <1>4, <2>1 DEF Beside
<1>7. ASSUME NEW s \in R, s # r PROVE Beside(s, q)
  <2>1. ~(s.base < to /\ from < s.end)
    BY <1>7 DEF Overlapping
  <2>2. s.base \in Int /\ s.end \in Int
    BY <1>1, RegionBounds DEF Tidy
  <2> QED
    BY <1>2, <1>4, <2>1, <2>2 DEF Beside
<1>8. regions' \in Sorted(RegSet) /\ Swaps(R, r, q, T)
  BY <1>1, <1>3, <1>5, <1>6, <1>7, PlaceRegion
<1> HIDE DEF R, T
<1>9. TrackerInv'
  <2> DEFINE a == [[summary.reserved EXCEPT ![r.flag] = @ - Size(r)] EXCEPT ![flag] = @ + (to - from)]
             b == [summary.committed EXCEPT ![r.flag] = @ - CommittedSize(r.committed)]
  <2>1. summary' = [reserved |-> a, committed |-> b]
    BY DEF Overwrite
  <2>2. a = [g \in Flags |-> a[g]] /\ b = [g \in Flags |-> b[g]]
    BY SummaryWas
  <2>3. Size(r) \in Nat /\ CommittedSize(r.committed) = 0 /\ CommittedSize(q.committed) = 0
    BY <1>1, <1>4, CommittedWithin, NothingCommitted
  <2>4. \A f \in Flags : summary.reserved[f] \in Nat /\ summary.committed[f] \in Nat
    BY SummaryWas
  <2>5. \A f \in Flags : a[f] = summary.reserved[f] - (IF r.flag = f THEN Size(r) ELSE 0)
                                                   + (IF q.flag = f THEN Size(q) ELSE 0)
    BY <1>2, <1>4, <2>3, <2>4, SummaryWas
  <2>6. \A f \in Flags :
          b[f] = summary.committed[f] - (IF r.flag = f THEN CommittedSize(r.committed) ELSE 0)
                                      + (IF q.flag = f THEN CommittedSize(q.committed) ELSE 0)
    BY <2>3, <2>4, SummaryWas
  <2> HIDE DEF a, b
  <2>7. summary' = Sums(T)
    BY <1>8, <2>1, <2>2, <2>5, <2>6, SummarySwapped DEF R
  <2> QED
    BY <1>8, <2>7 DEF TrackerInv, T
<1>10. \A w : Mark(q, w) = "no one" /\ Mark(r, w) = "no one"
  BY <1>1, <1>3, <1>4, NothingCommitted
<1>11. /\ \A w \in from..(to - 1) : FlagIn(T, w) = flag
       /\ \A w : w \notin from..(to - 1) /\ FlagIn(T, w) # FlagIn(R, w)
                 => FlagIn(R, w) = "mtThreadStack" /\ FlagIn(T, w) = "no one"
       /\ \A w : StackIn(T, w) = StackIn(R, w)
  BY <1>4, <1>8, <1>10 DEF Swaps
<1>12. from..(to - 1) \subseteq Places
  BY <1>2 DEF Places
<1>13. Memory!Replace(from, to, flag)
  <2>1. \A w \in from..(to - 1) : [v \in Places |-> FlagOf(v)'][w] = flag
    BY <1>11, <1>12, ViewsAre DEF T
  <2>2. \A w \in Places \ (from..(to - 1)) :
          [v \in Places |-> FlagOf(v)'][w] # [v \in Places |-> FlagOf(v)][w] =>
            [v \in Places |-> FlagOf(v)][w] = "mtThreadStack" /\ [v \in Places |-> FlagOf(v)'][w] = "no one"
    BY <1>11, ViewsAre DEF R, T
  <2>3. [w \in Places |-> StackOf(w)'] = [w \in Places |-> StackOf(w)]
    BY <1>11, ViewsAre DEF R, T
  <2> QED
    BY <2>1, <2>2, <2>3 DEF Memory!Replace, Memory!Range
<1> QED
  BY <1>9, <1>13

\* Memory is reserved: for the first time, with a type, or over a lost stack.
LEMMA AddReservedRegionStep ==
  ASSUME TrackerInv, NumWords \in Nat, NEW from, NEW to, Ranged(from, to), NEW flag \in Flags,
         AddReservedRegion(from, to, flag), ~LostStack(from, to)
  PROVE  TrackerInv' /\ (Memory!Reserve(from, to, flag) \/ Memory!Replace(from, to, flag))
<1> DEFINE i == Find(from, to)
           r == regions[i]
<1>1. regions \in Sorted(RegSet) /\ Tidy(ToSet(regions))
  BY RegionsTidy DEF TrackerInv
<1>2. from \in Int /\ to \in Int /\ from < to
  BY DEF Ranged
<1>3. CASE i = 0 /\ AddReserved(from, to, flag)
  <2>1. ASSUME NEW s \in ToSet(regions) PROVE s.end <= from \/ to <= s.base
    <3>1. s.base \in Int /\ s.end \in Int /\ s.base < s.end
      BY <1>1, RegionBounds DEF Tidy
    <3>2. ASSUME s.base < to, from < s.end PROVE FALSE
      <4>1. SameRegion(s, from, to)
        BY <1>3, <3>2 DEF LostStack, Overlapping
      <4>2. OverlapRegion(s, from, to)
        BY <1>2, <4>1 DEF SameRegion, OverlapRegion, ContainAddress
      <4>3. \E j \in 1..Len(regions) : regions[j] = s
        BY <1>1, Members DEF Sorted
      <4> QED
        BY <1>1, <1>3, <4>2, <4>3, FindNone
    <3> QED
      BY <1>2, <3>1, <3>2
  <2> QED
    BY <1>3, <2>1, ReserveStep
<1>4. CASE i # 0 /\ SameRegion(regions[i], from, to) /\ Retag(i, flag)
  <2>1. i \in 1..Len(regions) /\ r.base = from /\ r.end = to
    BY <1>1, <1>4, FindFirst DEF SameRegion
  <2> HIDE DEF i
  <2>2. Within(r) = from..(to - 1)
    BY <2>1 DEF Within
  <2>3. TrackerInv' /\ \A w : /\ StackOf(w)' = StackOf(w)
                              /\ w \in Within(r) => FlagOf(w)' = flag
                              /\ w \notin Within(r) => FlagOf(w)' = FlagOf(w)
    BY <1>4, <2>1, RetagStep
  <2>4. Memory!Reserve(from, to, flag)
    BY <2>2, <2>3 DEF Memory!Reserve, Memory!Set, Memory!Range
  <2> QED
    BY <2>3, <2>4
<1>5. CASE /\ i # 0 /\ ~SameRegion(regions[i], from, to)
           /\ \A s \in Overlapping(from, to) : s.flag = "mtThreadStack"
           /\ Overwrite(i, from, to, flag)
  <2>1. i \in 1..Len(regions) /\ r \in Overlapping(from, to)
    BY <1>1, <1>2, <1>5, FoundOverlaps
  <2>2. \A s \in Overlapping(from, to) : ~SameRegion(s, from, to) => s = r /\ s.committed = <<>>
    BY <1>5 DEF LostStack
  <2>3. ASSUME NEW s \in Overlapping(from, to), SameRegion(s, from, to) PROVE FALSE
    <3>1. s # r /\ s \in ToSet(regions) /\ r \in ToSet(regions)
      BY <1>5, <2>1, <2>3 DEF Overlapping
    <3>2. Beside(s, r)
      BY <1>1, <3>1 DEF Tidy
    <3>3. r.base < to /\ from < r.end /\ s.base = from /\ s.end = to
      BY <2>1, <2>3 DEF Overlapping, SameRegion
    <3>4. r.base \in Int /\ r.end \in Int
      BY <1>1, <3>1, RegionBounds DEF Tidy
    <3> QED
      BY <1>2, <3>2, <3>3, <3>4 DEF Beside
  <2>4. Overlapping(from, to) = {r} /\ r.committed = <<>>
    BY <1>5, <2>1, <2>2, <2>3
  <2>5. r.flag = "mtThreadStack" /\ Overwrite(i, from, to, flag)
    BY <1>5, <2>1
  <2> HIDE DEF i
  <2> QED
    BY <2>1, <2>4, <2>5, OverwriteStep
<1> QED
  BY <1>3, <1>4, <1>5 DEF AddReservedRegion

\* A type is given to the region of an address.
LEMMA SetReservedRegionTypeStep ==
  ASSUME TrackerInv, NumWords \in Nat, NEW w \in 0..(NumWords - 1), NEW flag \in Flags,
         SetReservedRegionType(w, flag)
  PROVE  TrackerInv' /\ Memory!Retag(w, flag)
<1> DEFINE i == Find(w, w + 1)
           r == regions[i]
<1>1. regions \in Sorted(RegSet) /\ i # 0 /\ Retag(i, flag)
  BY DEF TrackerInv, SetReservedRegionType
<1>2. i \in 1..Len(regions) /\ OverlapRegion(r, w, w + 1)
  BY <1>1, FindFirst
<1> HIDE DEF i
<1>3. r \in RegSet
  BY <1>1, <1>2, Members DEF Sorted
<1>4. w \in Within(r)
  <2>1. r.base \in Int /\ r.end \in Int
    BY <1>3, RegionBounds
  <2> QED
    BY <1>2, <2>1 DEF OverlapRegion, ContainAddress, Within
<1>5. /\ TrackerInv'
      /\ \A v \in Within(r) : FlagOf(v) = r.flag /\ FlagOf(v)' = flag
      /\ \A v : v \notin Within(r) => FlagOf(v)' = FlagOf(v)
      /\ \A v : StackOf(v)' = StackOf(v)
  BY <1>1, <1>2, RetagStep
<1>6. w \in Places
  BY DEF Places
<1>7. Memory!Retag(w, flag)
  BY <1>4, <1>5, <1>6 DEF Memory!Retag
<1> QED
  BY <1>5, <1>7

\* The words committed are counted in the summary when t becomes the list of r.
Recounted(r, t) ==
  /\ summary'.reserved = summary.reserved
  /\ summary' = [reserved |-> summary'.reserved, committed |-> summary'.committed]
  /\ summary'.committed = [f \in Flags |-> summary'.committed[f]]
  /\ \A f \in Flags :
       summary'.committed[f] = summary.committed[f]
                               + (IF f = r.flag THEN CommittedSize(t) - CommittedSize(r.committed) ELSE 0)

\* Something is committed or uncommitted in a region: t is its list then.
LEMMA CommittedStep ==
  ASSUME TrackerInv, NEW i \in 1..Len(regions), NEW r, r = regions[i],
         NEW t \in CommLists, \A d \in ToSet(t) : r.base <= d.base /\ d.end <= r.end,
         NEW q, q = Region(r.base, r.end, r.flag, t),
         regions' = Replaced(regions, i, q), Recounted(r, t)
  PROVE  /\ TrackerInv' /\ r \in RegSet /\ q \in RegSet
         /\ \A w : FlagOf(w)' = FlagOf(w)
         /\ \A w \in Within(r) : FlagOf(w) = r.flag /\ StackOf(w) = Mark(r, w) /\ StackOf(w)' = Mark(q, w)
         /\ \A w : w \notin Within(r) => StackOf(w)' = StackOf(w)
<1> DEFINE R == ToSet(regions)
           T == ToSet(regions')
<1>1. regions \in Sorted(RegSet) /\ regions \in Seq(RegSet) /\ r \in RegSet
  BY Members DEF TrackerInv, Sorted
<1>2. r.base \in Int /\ r.end \in Int /\ r.base < r.end /\ 0 <= r.base /\ r.end <= NumWords /\ r.flag \in Flags
  BY <1>1, RegionBounds
<1>3. q \in RegSet
  BY <1>2, RegionFits
<1>4. /\ q.base = r.base /\ q.end = r.end /\ q.flag = r.flag /\ q.committed = t
      /\ Within(q) = Within(r) /\ Size(q) = Size(r)
  BY RegionMade DEF Within, Size
<1>5. regions' = Replaced(regions, i, q)
  OBVIOUS
<1>6. regions' \in Sorted(RegSet) /\ Swaps(R, r, q, T)
  <2>1. r.base <= q.base /\ q.end <= r.end
    BY <1>2, <1>4
  <2>2. /\ Replaced(regions, i, q) \in Sorted(RegSet)
        /\ Swaps(R, r, q, ToSet(Replaced(regions, i, q)))
    BY <1>1, <1>3, <2>1, PlaceInside
  <2> QED
    BY <1>5, <2>2
<1> HIDE DEF R, T
<1>7. TrackerInv'
  <2> DEFINE a == summary.reserved
             b == summary'.committed
  <2>1. a = [f \in Flags |-> a[f]] /\ b = [f \in Flags |-> b[f]] /\ summary' = [reserved |-> a, committed |-> b]
    BY SummaryWas DEF Recounted
  <2>2. \A f \in Flags : a[f] \in Nat /\ summary.committed[f] \in Nat
    BY SummaryWas
  <2>3. Size(r) \in Nat /\ CommittedSize(r.committed) \in Nat /\ CommittedSize(t) \in Nat
    BY <1>1, <1>3, <1>4, CommittedWithin
  <2>4. \A f \in Flags :
          /\ a[f] = summary.reserved[f] - (IF r.flag = f THEN Size(r) ELSE 0)
                                        + (IF q.flag = f THEN Size(q) ELSE 0)
          /\ b[f] = summary.committed[f] - (IF r.flag = f THEN CommittedSize(r.committed) ELSE 0)
                                         + (IF q.flag = f THEN CommittedSize(q.committed) ELSE 0)
    BY <1>4, <2>2, <2>3 DEF Recounted
  <2> HIDE DEF a, b
  <2>5. summary' = Sums(T)
    BY <1>6, <2>1, <2>4, SummarySwapped DEF R
  <2> QED
    BY <1>6, <2>5 DEF TrackerInv, T
<1>8. /\ \A w \in Within(r) : /\ FlagIn(R, w) = r.flag /\ FlagIn(T, w) = r.flag
                              /\ StackIn(R, w) = Mark(r, w) /\ StackIn(T, w) = Mark(q, w)
      /\ \A w : w \notin Within(r) => FlagIn(T, w) = FlagIn(R, w) /\ StackIn(T, w) = StackIn(R, w)
  BY <1>4, <1>6 DEF Swaps
<1> QED
  BY <1>1, <1>3, <1>7, <1>8, ViewsAre DEF R, T

\* The region a range is inside of.
LEMMA InsideRegion ==
  ASSUME TrackerInv, NEW from, NEW to, Ranged(from, to), NumWords \in Nat, Inside(from, to),
         NEW r, r = regions[Find(from, to)]
  PROVE  /\ Find(from, to) \in 1..Len(regions)
         /\ r \in RegSet /\ r.base <= from /\ to <= r.end
         /\ from..(to - 1) \subseteq Within(r)
         /\ from \in Int /\ to \in Int
<1>1. Find(from, to) \in 1..Len(regions) /\ ContainRegion(r, from, to)
  BY FindFirst DEF Inside, TrackerInv
<1>2. r \in RegSet
  BY <1>1, Members DEF TrackerInv, Sorted
<1>3. r.base \in Int /\ r.end \in Int /\ from \in Int /\ to \in Int /\ from < to
  BY <1>2, RegionBounds DEF Ranged
<1>4. r.base <= from /\ to <= r.end
  BY <1>1, <1>3 DEF ContainRegion, ContainAddress
<1> QED
  BY <1>1, <1>2, <1>3, <1>4 DEF Within

\* Whoever memory is reserved for is someone.
FlagsNameSomeone == "no one" \notin Flags

\* What add_committed_region makes of a list.
Commits(list, from, to, stack, added) ==
  /\ added.list \in CommLists
  /\ \A a, b \in Int :
       /\ a <= from /\ to <= b
       /\ \A c \in ToSet(list) : a <= c.base /\ c.end <= b
       => \A d \in ToSet(added.list) : a <= d.base /\ d.end <= b
  /\ \A w \in from..(to - 1) : \E d \in ToSet(added.list) : w \in Within(d) /\ d.stack = stack
  /\ \A c \in ToSet(list) : \A w \in Within(c) \ (from..(to - 1)) :
       \E d \in ToSet(added.list) : w \in Within(d) /\ d.stack = c.stack
  /\ Covered(ToSet(added.list)) = Covered(ToSet(list)) \cup (from..(to - 1))
  /\ added.recorded = CommittedSize(added.list) - CommittedSize(list)

\* It makes it of any list of committed regions.
LEMMA AddCommittedCommits ==
  ASSUME NEW list \in CommLists, NEW from \in Int, NEW to \in Int, from < to,
         NEW stack \in Stacks, ~UnseenIn(list, from, to)
  PROVE  Commits(list, from, to, stack, AddCommitted(list, from, to, stack))
<1> DEFINE added == AddCommitted(list, from, to, stack)
<1>1. /\ added.list \in CommLists
      /\ \A a, b \in Int :
           /\ a <= from /\ to <= b
           /\ \A c \in ToSet(list) : a <= c.base /\ c.end <= b
           => \A d \in ToSet(added.list) : a <= d.base /\ d.end <= b
      /\ \A w \in from..(to - 1) : \E d \in ToSet(added.list) : w \in Within(d) /\ d.stack = stack
      /\ \A c \in ToSet(list) : \A w \in Within(c) \ (from..(to - 1)) :
           \E d \in ToSet(added.list) : w \in Within(d) /\ d.stack = c.stack
      /\ Covered(ToSet(added.list)) = Covered(ToSet(list)) \cup (from..(to - 1))
      /\ added.recorded = CommittedSize(added.list) - CommittedSize(list)
  BY AddCommittedSorted
<1> HIDE DEF added
<1>2. Commits(list, from, to, stack, added)
  BY <1>1 DEF Commits
<1> QED
  BY <1>2 DEF added

\* Memory is committed.
LEMMA AddCommittedRegionStep ==
  ASSUME TrackerInv, NumWords \in Nat, FlagsNameSomeone, NEW from, NEW to, Ranged(from, to),
         NEW stack \in Stacks, AddCommittedRegion(from, to, stack), ~Unseen(from, to)
  PROVE  TrackerInv' /\ Memory!CommitRange(from, to, stack)
<1>1. PICK i, r, list : i = Find(from, to) /\ r = regions[i] /\ list = r.committed
  OBVIOUS
<1>2. /\ i \in 1..Len(regions) /\ r \in RegSet /\ r.base <= from /\ to <= r.end
      /\ from..(to - 1) \subseteq Within(r)
      /\ from \in Int /\ to \in Int /\ from < to
  BY <1>1, InsideRegion DEF AddCommittedRegion, Ranged
<1>3. PICK added : added = AddCommitted(list, from, to, stack)
  OBVIOUS
<1>4. PICK t : t = added.list
  OBVIOUS
<1>5. /\ ~UnseenIn(list, from, to)
      /\ regions' = [regions EXCEPT ![i].committed = t]
      /\ summary' = [summary EXCEPT !.committed[r.flag] = @ + added.recorded]
  BY <1>1, <1>3, <1>4 DEF AddCommittedRegion, Unseen, UnseenIn
<1>6. list \in CommLists /\ r.base \in Int /\ r.end \in Int /\ r.flag \in Flags
      /\ \A c \in ToSet(list) : r.base <= c.base /\ c.end <= r.end
  BY <1>1, <1>2, RegionBounds
<1>7. /\ t \in CommLists
      /\ Covered(ToSet(t)) = Covered(ToSet(list)) \cup (from..(to - 1))
      /\ added.recorded = CommittedSize(t) - CommittedSize(list)
      /\ Commits(list, from, to, stack, added)
  <2>1. Commits(list, from, to, stack, added)
    BY <1>2, <1>3, <1>5, <1>6, AddCommittedCommits
  <2> QED
    BY <1>4, <2>1 DEF Commits
<1>8. \A d \in ToSet(t) : r.base <= d.base /\ d.end <= r.end
  BY <1>2, <1>4, <1>6, <1>7 DEF Commits
<1>9. Recounted(r, t)
  <2> DEFINE b == [summary.committed EXCEPT ![r.flag] = @ + (CommittedSize(t) - CommittedSize(list))]
  <2>1. summary' = [reserved |-> summary.reserved, committed |-> b]
    BY <1>5, <1>7, SummaryWas
  <2>2. b = [f \in Flags |-> b[f]]
    BY SummaryWas
  <2>3. CommittedSize(t) - CommittedSize(list) \in Int /\ \A f \in Flags : summary.committed[f] \in Int
    <3>1. CommittedSize(t) \in Nat /\ CommittedSize(list) \in Nat
      BY <1>6, <1>7, CommSpans, CommittedSizeCounts DEF CommLists
    <3> QED
      BY <3>1, SummaryWas
  <2>4. \A f \in Flags : b[f] = summary.committed[f]
                                + (IF f = r.flag THEN CommittedSize(t) - CommittedSize(list) ELSE 0)
    BY <2>3, SummaryWas
  <2> HIDE DEF b
  <2> QED
    BY <1>1, <2>1, <2>2, <2>4 DEF Recounted
<1>12. PICK q : q = Region(r.base, r.end, r.flag, t)
  OBVIOUS
<1>13. q.committed = t
  BY <1>12, RegionMade
<1>14. /\ TrackerInv' /\ q \in RegSet
       /\ \A w : FlagOf(w)' = FlagOf(w)
       /\ \A w \in Within(r) : FlagOf(w) = r.flag /\ StackOf(w) = Mark(r, w) /\ StackOf(w)' = Mark(q, w)
       /\ \A w : w \notin Within(r) => StackOf(w)' = StackOf(w)
  <2>1. regions' = Replaced(regions, i, q)
    <3>1. regions' = [regions EXCEPT ![i] = [r EXCEPT !.committed = t]]
      BY <1>1, <1>5
    <3> QED
      BY <1>2, <1>12, <3>1, RegionForms DEF Replaced
  <2> QED
    BY <1>1, <1>2, <1>7, <1>8, <1>9, <1>12, <2>1, CommittedStep
<1>15. ASSUME NEW w \in from..(to - 1) PROVE StackOf(w)' = stack /\ FlagOf(w) \in Flags
  <2>1. w \in Within(r)
    BY <1>2
  <2>2. PICK d \in ToSet(t) : w \in Within(d) /\ d.stack = stack
    BY <1>4, <1>7 DEF Commits
  <2>3. Mark(q, w) = stack
    BY <1>13, <1>14, <2>2, MarkOf
  <2> QED
    BY <1>6, <1>14, <2>1, <2>3
<1>16. ASSUME NEW w, w \notin from..(to - 1) PROVE StackOf(w)' = StackOf(w)
  <2>1. \A c \in ToSet(list) : w \in Within(c) => \E d \in ToSet(t) : w \in Within(d) /\ d.stack = c.stack
    BY <1>4, <1>7, <1>16 DEF Commits
  <2>2. w \in Covered(ToSet(t)) => w \in Covered(ToSet(list))
    BY <1>7, <1>16
  <2>3. Mark(q, w) = Mark(r, w)
    BY <1>1, <1>2, <1>13, <1>14, <2>1, <2>2, MarkSame
  <2> QED
    BY <1>14, <2>3
<1>17. from..(to - 1) \subseteq Places
  <2>1. 0 <= from /\ to <= NumWords
    BY DEF Ranged
  <2> QED
    BY <1>2, <2>1 DEF Places
<1>18. Memory!CommitRange(from, to, stack)
  <2>1. \A w \in from..(to - 1) : [v \in Places |-> FlagOf(v)][w] # "no one"
    BY <1>15, <1>17 DEF FlagsNameSomeone
  <2>2. [w \in Places |-> StackOf(w)']
        = [w \in Places |-> IF w \in from..(to - 1) THEN stack ELSE [v \in Places |-> StackOf(v)][w]]
    BY <1>15, <1>16
  <2>3. [w \in Places |-> FlagOf(w)'] = [w \in Places |-> FlagOf(w)]
    BY <1>14
  <2> QED
    BY <2>1, <2>2, <2>3 DEF Memory!CommitRange, Memory!Set, Memory!Range
<1> QED
  BY <1>14, <1>18

\* What remove_uncommitted_region leaves of a list.
Uncommits(list, from, to, t) ==
  /\ t \in CommLists
  /\ \A d \in ToSet(t) :
       /\ d.end <= from \/ to <= d.base
       /\ \E c \in ToSet(list) : c.base <= d.base /\ d.end <= c.end /\ d.stack = c.stack
  /\ \A c \in ToSet(list) : \A w \in Within(c) \ (from..(to - 1)) :
       \E d \in ToSet(t) : w \in Within(d) /\ d.stack = c.stack

\* It leaves that of any list of committed regions.
LEMMA RemoveUncommits ==
  ASSUME NEW list \in CommLists, NEW from \in Int, NEW to \in Int, from < to
  PROVE  Uncommits(list, from, to, RemoveUncommitted(list, from, to))
<1> DEFINE t == RemoveUncommitted(list, from, to)
<1>1. /\ t \in CommLists
      /\ \A d \in ToSet(t) :
           /\ d.end <= from \/ to <= d.base
           /\ \E c \in ToSet(list) : c.base <= d.base /\ d.end <= c.end /\ d.stack = c.stack
      /\ \A c \in ToSet(list) : \A w \in Within(c) \ (from..(to - 1)) :
           \E d \in ToSet(t) : w \in Within(d) /\ d.stack = c.stack
  BY RemoveUncommittedSorted
<1> HIDE DEF t
<1>2. Uncommits(list, from, to, t)
  BY <1>1 DEF Uncommits
<1> QED
  BY <1>2 DEF t

\* The committed regions of q are some of those left, those around w among them.
KeepsAt(q, t, w) ==
  /\ ToSet(q.committed) \subseteq ToSet(t)
  /\ \A d \in ToSet(t) : w \in Within(d) => d \in ToSet(q.committed)

\* In q the words of the range are not marked, the others as in r.
Clears(r, q, from, to, w) ==
  /\ w \in from..(to - 1) => Mark(q, w) = "no one"
  /\ w \notin from..(to - 1) => Mark(q, w) = Mark(r, w)

\* A region q, or a part of it, with what is left: words in the range are no
\* longer marked, the others as before.
LEMMA UncommitMarks ==
  ASSUME NEW r \in RegSet, NEW from \in Int, NEW to \in Int, from < to,
         NEW t, Uncommits(r.committed, from, to, t),
         NEW q \in RegSet, NEW w, KeepsAt(q, t, w)
  PROVE  Clears(r, q, from, to, w)
<1>1. \A d \in ToSet(t) : d.base \in Int /\ d.end \in Int /\ d \in CommSet
  BY Members DEF Uncommits, CommLists, Sorted, CommSet
<1>2. \A c \in ToSet(r.committed) : c.base \in Int /\ c.end \in Int
  BY RegionBounds
<1>3. CASE w \in from..(to - 1)
  <2>1. ASSUME NEW d \in ToSet(q.committed), w \in Within(d) PROVE FALSE
    <3>1. d \in ToSet(t)
      BY DEF KeepsAt
    <3>2. d.end <= from \/ to <= d.base
      BY <3>1 DEF Uncommits
    <3> QED
      BY <1>1, <1>3, <2>1, <3>1, <3>2 DEF Within
  <2>2. w \notin Covered(ToSet(q.committed))
    BY <2>1 DEF Covered
  <2> QED
    BY <1>3, <2>2, MarkOf DEF Clears
<1>4. CASE w \notin from..(to - 1)
  <2>1. ASSUME NEW c \in ToSet(r.committed), w \in Within(c)
        PROVE  \E d \in ToSet(q.committed) : w \in Within(d) /\ d.stack = c.stack
    <3>1. PICK d \in ToSet(t) : w \in Within(d) /\ d.stack = c.stack
      BY <1>4, <2>1 DEF Uncommits
    <3> QED
      BY <3>1 DEF KeepsAt
  <2>2. ASSUME w \in Covered(ToSet(q.committed)) PROVE w \in Covered(ToSet(r.committed))
    <3>1. PICK d \in ToSet(q.committed) : w \in Within(d)
      BY <2>2 DEF Covered
    <3>2. d \in ToSet(t)
      BY DEF KeepsAt
    <3>3. PICK c \in ToSet(r.committed) : c.base <= d.base /\ d.end <= c.end
      BY <3>2 DEF Uncommits
    <3>4. w \in Within(c)
      BY <1>1, <1>2, <3>1, <3>2, <3>3 DEF Within
    <3> QED
      BY <3>4 DEF Covered
  <2>3. Mark(q, w) = Mark(r, w)
    BY <2>1, <2>2, MarkSame
  <2> QED
    BY <1>4, <2>3 DEF Clears
<1> QED
  BY <1>3, <1>4

\* Bounds of what is left.
LEMMA UncommitBounds ==
  ASSUME NEW r \in RegSet, NEW from \in Int, NEW to \in Int, NEW t, Uncommits(r.committed, from, to, t)
  PROVE  /\ t \in CommLists /\ CommittedSize(t) \in Nat
         /\ \A d \in ToSet(t) : /\ d.base \in Int /\ d.end \in Int /\ d.base < d.end
                                /\ r.base <= d.base /\ d.end <= r.end
                                /\ d.end <= from \/ to <= d.base
<1>1. t \in CommLists /\ t \in Sorted(CommSet)
  BY DEF Uncommits, CommLists
<1>2. \A d \in ToSet(t) : d.base \in Int /\ d.end \in Int /\ d.base < d.end
  BY <1>1, Members DEF Sorted, CommSet
<1>3. \A c \in ToSet(r.committed) : c.base \in Int /\ c.end \in Int /\ r.base <= c.base /\ c.end <= r.end
  BY RegionBounds
<1>4. r.base \in Int /\ r.end \in Int
  BY RegionBounds
<1>5. ASSUME NEW d \in ToSet(t) PROVE r.base <= d.base /\ d.end <= r.end /\ (d.end <= from \/ to <= d.base)
  <2>1. PICK c \in ToSet(r.committed) : c.base <= d.base /\ d.end <= c.end
    BY DEF Uncommits
  <2>2. d.end <= from \/ to <= d.base
    BY DEF Uncommits
  <2> QED
    BY <1>2, <1>3, <1>4, <2>1, <2>2
<1>6. CommittedSize(t) \in Nat
  BY <1>1, CommSpans, CommittedSizeCounts
<1> QED
  BY <1>1, <1>2, <1>5, <1>6

\* Memory is uncommitted.
LEMMA RemoveUncommittedRegionStep ==
  ASSUME TrackerInv, NumWords \in Nat, NEW from, NEW to, Ranged(from, to),
         RemoveUncommittedRegion(from, to)
  PROVE  TrackerInv' /\ Memory!UncommitRange(from, to)
<1>1. PICK i, r, t : i = Find(from, to) /\ r = regions[i] /\ t = Uncommitted(i, from, to)
  OBVIOUS
<1>2. /\ i \in 1..Len(regions) /\ r \in RegSet /\ r.base <= from /\ to <= r.end
      /\ from..(to - 1) \subseteq Within(r)
      /\ from \in Int /\ to \in Int /\ from < to
  BY <1>1, InsideRegion DEF RemoveUncommittedRegion, Ranged
<1>3. Uncommits(r.committed, from, to, t)
  BY <1>1, <1>2, RegionBounds, RemoveUncommits DEF Uncommitted
<1>4. /\ t \in CommLists /\ CommittedSize(t) \in Nat
      /\ \A d \in ToSet(t) : r.base <= d.base /\ d.end <= r.end
  BY <1>2, <1>3, UncommitBounds
<1>5. Recounted(r, t)
  <2> DEFINE b == [summary.committed EXCEPT ![r.flag] = @ - CommittedSize(r.committed) + CommittedSize(t)]
  <2>1. summary' = [reserved |-> summary.reserved, committed |-> b]
    BY <1>1, SummaryWas DEF RemoveUncommittedRegion, SummaryWithout
  <2>2. b = [f \in Flags |-> b[f]]
    BY SummaryWas
  <2>3. CommittedSize(r.committed) \in Nat
    BY <1>2, CommittedWithin
  <2>4. \A f \in Flags : b[f] = summary.committed[f]
                                + (IF f = r.flag THEN CommittedSize(t) - CommittedSize(r.committed) ELSE 0)
    BY <1>4, <2>3, SummaryWas
  <2> HIDE DEF b
  <2> QED
    BY <2>1, <2>2, <2>4 DEF Recounted
<1>6. PICK q : q = Region(r.base, r.end, r.flag, t)
  OBVIOUS
<1>7. /\ TrackerInv' /\ q \in RegSet
      /\ \A w : FlagOf(w)' = FlagOf(w)
      /\ \A w \in Within(r) : FlagOf(w) = r.flag /\ StackOf(w) = Mark(r, w) /\ StackOf(w)' = Mark(q, w)
      /\ \A w : w \notin Within(r) => StackOf(w)' = StackOf(w)
  <2>1. regions' = Replaced(regions, i, q)
    <3>1. regions' = [regions EXCEPT ![i] = [r EXCEPT !.committed = t]]
      BY <1>1 DEF RemoveUncommittedRegion
    <3> QED
      BY <1>2, <1>6, <3>1, RegionForms DEF Replaced
  <2> QED
    BY <1>1, <1>2, <1>4, <1>5, <1>6, <2>1, CommittedStep
<1>8. ASSUME NEW w PROVE Mark(q, w) = IF w \in from..(to - 1) THEN "no one" ELSE Mark(r, w)
  <2>1. q.committed = t
    BY <1>6, RegionMade
  <2>2. KeepsAt(q, t, w)
    BY <2>1 DEF KeepsAt
  <2>3. q \in RegSet
    BY <1>7
  <2> QED
    <3>1. Clears(r, q, from, to, w)
      BY <1>2, <1>3, <2>2, <2>3, UncommitMarks
    <3> QED
      BY <3>1 DEF Clears
<1>9. \A w : StackOf(w)' = IF w \in from..(to - 1) THEN "no one" ELSE StackOf(w)
  BY <1>2, <1>7, <1>8
<1>10. Memory!UncommitRange(from, to)
  BY <1>7, <1>9 DEF Memory!UncommitRange, Memory!Set, Memory!Range
<1> QED
  BY <1>7, <1>10

\* The words of a range in region r are released: t is left of what was
\* committed in the region.
Forgets(R, r, from, to, t, T) ==
  /\ \A flag : /\ Cardinality(Held(T, flag))
                    = Cardinality(Held(R, flag)) - (IF r.flag = flag THEN to - from ELSE 0)
               /\ Cardinality(Used(T, flag))
                    = Cardinality(Used(R, flag))
                      + (IF r.flag = flag THEN CommittedSize(t) - CommittedSize(r.committed) ELSE 0)
  /\ \A w \in from..(to - 1) : FlagIn(T, w) = "no one" /\ StackIn(T, w) = "no one"
  /\ \A w : w \notin from..(to - 1) => FlagIn(T, w) = FlagIn(R, w) /\ StackIn(T, w) = StackIn(R, w)

\* The whole region is released.
LEMMA ReleaseAll ==
  ASSUME NEW list \in Sorted(RegSet), NEW i \in 1..Len(list), NEW r, r = list[i],
         NEW t, Uncommits(r.committed, r.base, r.end, t)
  PROVE  /\ RemoveAt(list, i) \in Sorted(RegSet)
         /\ Forgets(ToSet(list), r, r.base, r.end, t, ToSet(RemoveAt(list, i)))
<1> DEFINE R == ToSet(list)
           T == ToSet(RemoveAt(list, i))
<1>1. RemoveAt(list, i) \in Sorted(RegSet) /\ T = R \ {r} /\ r \in R /\ r \in RegSet
  BY RegSpans, RemoveSorted, Members DEF Sorted
<1>2. Tidy(R) /\ Tidy(T)
  BY <1>1, RegionsTidy
<1> HIDE DEF R, T
<1>3. Gains(T, r, R)
  BY <1>1, <1>2, RegionComes
<1>4. r.base \in Int /\ r.end \in Int
  BY <1>1, RegionBounds
<1>5. CommittedSize(t) = 0
  <2>1. /\ t \in CommLists
        /\ \A d \in ToSet(t) : /\ d.base \in Int /\ d.end \in Int /\ d.base < d.end
                               /\ r.base <= d.base /\ d.end <= r.end
                               /\ d.end <= r.base \/ r.end <= d.base
    BY <1>1, <1>4, UncommitBounds
  <2>2. ToSet(t) = {}
    BY <1>4, <2>1
  <2>3. Covered(ToSet(t)) = {}
    BY <2>2 DEF Covered
  <2>4. CommittedSize(t) = Cardinality({})
    BY <2>1, <2>3, CommSpans, CommittedSizeCounts DEF CommLists
  <2> QED
    BY <2>4, FS_EmptySet
<1>6. \A flag : /\ Cardinality(Held(T, flag)) \in Nat /\ Cardinality(Used(T, flag)) \in Nat
                /\ Cardinality(Held(R, flag))
                     = Cardinality(Held(T, flag)) + (IF r.flag = flag THEN Size(r) ELSE 0)
                /\ Cardinality(Used(R, flag))
                     = Cardinality(Used(T, flag))
                       + (IF r.flag = flag THEN CommittedSize(r.committed) ELSE 0)
  BY <1>2, <1>3, UsedIsHeld DEF Gains
<1>7. Size(r) = r.end - r.base /\ Size(r) \in Nat /\ CommittedSize(r.committed) \in Nat
  BY <1>1, CommittedWithin DEF Size
<1>8. ASSUME NEW flag
      PROVE  /\ Cardinality(Held(T, flag))
                  = Cardinality(Held(R, flag)) - (IF r.flag = flag THEN r.end - r.base ELSE 0)
             /\ Cardinality(Used(T, flag))
                  = Cardinality(Used(R, flag))
                    + (IF r.flag = flag THEN CommittedSize(t) - CommittedSize(r.committed) ELSE 0)
  BY <1>4, <1>5, <1>6, <1>7
<1>9. /\ \A w \in r.base..(r.end - 1) : FlagIn(T, w) = "no one" /\ StackIn(T, w) = "no one"
      /\ \A w : w \notin r.base..(r.end - 1) => FlagIn(T, w) = FlagIn(R, w) /\ StackIn(T, w) = StackIn(R, w)
  BY <1>3 DEF Gains, Within
<1>10. Forgets(R, r, r.base, r.end, t, T)
  BY <1>8, <1>9 DEF Forgets
<1> QED
  BY <1>1, <1>10 DEF R, T

\* What is left of a region when one end of it is released: it lasts from b to e.
Leaves(r, from, to, b, e) ==
  \/ r.base = from /\ to < r.end /\ b = to /\ e = r.end
  \/ to = r.end /\ r.base < from /\ b = r.base /\ e = from

\* Words of the region are left or released.
LEMMA LeavesWords ==
  ASSUME NEW r \in RegSet, NumWords \in Nat, NEW from \in Int, NEW to \in Int,
         from < to, r.base <= from, to <= r.end, NEW b, NEW e, Leaves(r, from, to, b, e)
  PROVE  /\ b \in Int /\ e \in Int /\ b < e /\ r.base <= b /\ e <= r.end /\ 0 <= b /\ e <= NumWords
         /\ \A w \in Within(r) : w \notin b..(e - 1) => w \in from..(to - 1)
         /\ \A w \in b..(e - 1) : w \in Within(r) /\ w \notin from..(to - 1)
         /\ from..(to - 1) \subseteq Within(r)
         /\ Size(r) = (e - b) + (to - from)
<1>1. r.base \in Int /\ r.end \in Int /\ 0 <= r.base /\ r.end <= NumWords
  BY RegionBounds
<1>2. CASE r.base = from /\ to < r.end /\ b = to /\ e = r.end
  BY <1>1, <1>2 DEF Within, Size
<1>3. CASE to = r.end /\ r.base < from /\ b = r.base /\ e = from
  BY <1>1, <1>3 DEF Within, Size
<1> QED
  BY <1>2, <1>3 DEF Leaves

\* One end of the region is released.
LEMMA ReleaseEnd ==
  ASSUME NEW list \in Sorted(RegSet), NEW i \in 1..Len(list), NEW r, r = list[i], NumWords \in Nat,
         NEW from \in Int, NEW to \in Int, from < to, r.base <= from, to <= r.end,
         NEW t, Uncommits(r.committed, from, to, t),
         NEW b, NEW e, Leaves(r, from, to, b, e), NEW q, q = Region(b, e, r.flag, t)
  PROVE  /\ Replaced(list, i, q) \in Sorted(RegSet)
         /\ Forgets(ToSet(list), r, from, to, t, ToSet(Replaced(list, i, q)))
<1> DEFINE R == ToSet(list)
           T == ToSet(Replaced(list, i, q))
<1>1. r \in RegSet
  BY Members DEF Sorted
<1>2. r.base \in Int /\ r.end \in Int /\ r.flag \in Flags
  BY <1>1, RegionBounds
<1>3. /\ b \in Int /\ e \in Int /\ b < e /\ r.base <= b /\ e <= r.end /\ 0 <= b /\ e <= NumWords
      /\ \A w \in Within(r) : w \notin b..(e - 1) => w \in from..(to - 1)
      /\ \A w \in b..(e - 1) : w \in Within(r) /\ w \notin from..(to - 1)
      /\ from..(to - 1) \subseteq Within(r)
      /\ Size(r) = (e - b) + (to - from)
  BY <1>1, LeavesWords
<1>4. t \in CommLists /\ CommittedSize(t) \in Nat /\ \A d \in ToSet(t) : b <= d.base /\ d.end <= e
  <2>1. /\ t \in CommLists /\ CommittedSize(t) \in Nat
        /\ \A d \in ToSet(t) : /\ d.base \in Int /\ d.end \in Int /\ d.base < d.end
                               /\ r.base <= d.base /\ d.end <= r.end
                               /\ d.end <= from \/ to <= d.base
    BY <1>1, UncommitBounds
  <2> QED
    BY <1>2, <2>1 DEF Leaves
<1>5. /\ q.base = b /\ q.end = e /\ q.flag = r.flag /\ q.committed = t
      /\ Within(q) = b..(e - 1) /\ Size(q) = e - b
  BY RegionMade
<1>6. q \in RegSet
  BY <1>2, <1>3, <1>4, RegionFits
<1>7. Replaced(list, i, q) \in Sorted(RegSet) /\ Swaps(R, r, q, T)
  BY <1>1, <1>3, <1>5, <1>6, PlaceInside
<1>8. Tidy(R)
  BY RegionsTidy
<1> HIDE DEF R, T
<1>9. ASSUME NEW flag
      PROVE  /\ Cardinality(Held(T, flag))
                  = Cardinality(Held(R, flag)) - (IF r.flag = flag THEN to - from ELSE 0)
             /\ Cardinality(Used(T, flag))
                  = Cardinality(Used(R, flag))
                    + (IF r.flag = flag THEN CommittedSize(t) - CommittedSize(r.committed) ELSE 0)
  <2>1. /\ Cardinality(Held(T, flag))
             = Cardinality(Held(R, flag)) - (IF r.flag = flag THEN Size(r) ELSE 0)
                 + (IF q.flag = flag THEN Size(q) ELSE 0)
        /\ Cardinality(Used(T, flag))
             = Cardinality(Used(R, flag))
                 - (IF r.flag = flag THEN CommittedSize(r.committed) ELSE 0)
                 + (IF q.flag = flag THEN CommittedSize(q.committed) ELSE 0)
    BY <1>7 DEF Swaps
  <2>2. Cardinality(Held(R, flag)) \in Nat /\ Cardinality(Used(R, flag)) \in Nat
    BY <1>8, UsedIsHeld
  <2>3. Size(r) = (e - b) + (to - from) /\ CommittedSize(r.committed) \in Nat
    BY <1>1, <1>3, CommittedWithin
  <2>4. CASE r.flag = flag
    <3>1. /\ Cardinality(Held(T, flag)) = Cardinality(Held(R, flag)) - Size(r) + (e - b)
          /\ Cardinality(Used(T, flag))
               = Cardinality(Used(R, flag)) - CommittedSize(r.committed) + CommittedSize(t)
      BY <1>5, <2>1, <2>4
    <3>2. Cardinality(Held(T, flag)) = Cardinality(Held(R, flag)) - (to - from)
      BY <1>3, <2>2, <2>3, <3>1
    <3>3. Cardinality(Used(T, flag))
            = Cardinality(Used(R, flag)) + (CommittedSize(t) - CommittedSize(r.committed))
      BY <1>4, <2>2, <2>3, <3>1
    <3> QED
      BY <2>4, <3>2, <3>3
  <2>5. CASE r.flag # flag
    BY <1>5, <2>1, <2>2, <2>5
  <2> QED
    BY <2>4, <2>5
<1>10. ASSUME NEW w \in b..(e - 1) PROVE Mark(q, w) = Mark(r, w)
  <2>1. KeepsAt(q, t, w)
    BY <1>5 DEF KeepsAt
  <2>2. Clears(r, q, from, to, w)
    BY <1>1, <1>6, <2>1, UncommitMarks
  <2> QED
    BY <1>3, <2>2 DEF Clears
<1>11. /\ \A w \in from..(to - 1) : FlagIn(T, w) = "no one" /\ StackIn(T, w) = "no one"
       /\ \A w : w \notin from..(to - 1) => FlagIn(T, w) = FlagIn(R, w) /\ StackIn(T, w) = StackIn(R, w)
  <2>1. /\ \A w \in Within(r) : FlagIn(R, w) = r.flag /\ StackIn(R, w) = Mark(r, w)
        /\ \A w \in Within(q) : FlagIn(T, w) = q.flag /\ StackIn(T, w) = Mark(q, w)
        /\ \A w \in Within(r) \ Within(q) : FlagIn(T, w) = "no one" /\ StackIn(T, w) = "no one"
        /\ \A w : w \notin Within(r) /\ w \notin Within(q) =>
             FlagIn(T, w) = FlagIn(R, w) /\ StackIn(T, w) = StackIn(R, w)
    BY <1>7 DEF Swaps
  <2>2. Within(q) = b..(e - 1) /\ q.flag = r.flag
    BY <1>5
  <2>3. ASSUME NEW w \in from..(to - 1) PROVE w \in Within(r) /\ w \notin Within(q)
    BY <1>3, <2>2
  <2>4. ASSUME NEW w, w \notin from..(to - 1)
        PROVE  FlagIn(T, w) = FlagIn(R, w) /\ StackIn(T, w) = StackIn(R, w)
    <3>1. CASE w \in Within(q)
      <4>1. w \in Within(r) /\ Mark(q, w) = Mark(r, w)
        BY <1>3, <1>10, <2>2, <3>1
      <4> QED
        BY <2>1, <2>2, <3>1, <4>1
    <3>2. CASE w \notin Within(q)
      <4>1. w \notin Within(r)
        BY <1>3, <2>2, <2>4, <3>2
      <4> QED
        BY <2>1, <3>2, <4>1
    <3> QED
      BY <3>1, <3>2
  <2> QED
    BY <2>1, <2>3, <2>4
<1>12. Forgets(R, r, from, to, t, T)
  BY <1>9, <1>11 DEF Forgets
<1> QED
  BY <1>7, <1>12 DEF R, T

\* A list cut at a word.
Halved(t, w, low, high) ==
  /\ low \in CommLists /\ ToSet(low) = {c \in ToSet(t) : c.base < w}
  /\ high \in CommLists /\ ToSet(high) = {c \in ToSet(t) : ~(c.base < w)}

\* The words committed in a list are those in the lower and in the higher part.
LEMMA MovedSizes ==
  ASSUME NEW t \in CommLists, NEW low, NEW high, NEW w, Halved(t, w, low, high)
  PROVE  CommittedSize(t) = CommittedSize(low) + CommittedSize(high)
<1>1. t \in Sorted(CommSet) /\ low \in Sorted(CommSet) /\ high \in Sorted(CommSet)
  BY DEF CommLists, Halved
<1>2. /\ CommittedSize(t) = Cardinality(Covered(ToSet(t)))
      /\ CommittedSize(low) = Cardinality(Covered(ToSet(low))) /\ IsFiniteSet(Covered(ToSet(low)))
      /\ CommittedSize(high) = Cardinality(Covered(ToSet(high))) /\ IsFiniteSet(Covered(ToSet(high)))
  BY <1>1, CommSpans, CommittedSizeCounts
<1>3. Covered(ToSet(t)) = Covered(ToSet(low)) \cup Covered(ToSet(high))
  BY DEF Covered, Halved
<1>4. Covered(ToSet(low)) \cap Covered(ToSet(high)) = {}
  <2> SUFFICES ASSUME NEW c \in ToSet(low), NEW d \in ToSet(high), NEW v \in Within(c), v \in Within(d)
               PROVE  FALSE
    BY DEF Covered
  <2>1. c \in ToSet(t) /\ d \in ToSet(t) /\ c # d
    BY DEF Halved
  <2>2. Beside(c, d) /\ c \in CommSet /\ d \in CommSet
    BY <1>1, <2>1, CommSpans, OrderApart DEF Sorted
  <2> QED
    BY <2>2 DEF CommSet, Beside, Within
<1>5. Cardinality(Covered(ToSet(t))) = Cardinality(Covered(ToSet(low))) + Cardinality(Covered(ToSet(high)))
  BY <1>2, <1>3, <1>4, CountApart
<1> QED
  BY <1>2, <1>5

\* Words in the middle of the region are released: low and high are left of
\* what was committed.
LEMMA ReleaseMiddle ==
  ASSUME NEW list \in Sorted(RegSet), NEW i \in 1..Len(list), NEW r, r = list[i], NumWords \in Nat,
         NEW from \in Int, NEW to \in Int, from < to, r.base < from, to < r.end,
         NEW t, Uncommits(r.committed, from, to, t),
         NEW low, NEW high, Halved(t, from, low, high),
         NEW q, q = Region(r.base, from, r.flag, low), NEW p, p = Region(to, r.end, r.flag, high),
         NEW new, new = SortedAdd(Replaced(list, i, q), p)
  PROVE  /\ new \in Sorted(RegSet)
         /\ Forgets(ToSet(list), r, from, to, t, ToSet(new))
<1> DEFINE R == ToSet(list)
           M == ToSet(Replaced(list, i, q))
           T == ToSet(new)
<1>1. r \in RegSet
  BY Members DEF Sorted
<1>2. /\ r.base \in Int /\ r.end \in Int /\ r.flag \in Flags /\ 0 <= r.base /\ r.end <= NumWords
      /\ Within(r) = r.base..(r.end - 1)
  BY <1>1, RegionBounds DEF Within
<1>3. /\ t \in CommLists /\ CommittedSize(t) \in Nat
      /\ \A d \in ToSet(t) : /\ d.base \in Int /\ d.end \in Int /\ d.base < d.end
                             /\ r.base <= d.base /\ d.end <= r.end
                             /\ d.end <= from \/ to <= d.base
  BY <1>1, UncommitBounds
<1>4. /\ \A d \in ToSet(low) : r.base <= d.base /\ d.end <= from
      /\ \A d \in ToSet(high) : to <= d.base /\ d.end <= r.end
  BY <1>2, <1>3 DEF Halved
<1>5. q \in RegSet /\ p \in RegSet
  <2>1. 0 <= to /\ from <= NumWords
    BY <1>2
  <2>2. q \in RegSet
    BY <1>2, <1>4, <2>1, RegionFits DEF Halved
  <2>3. p \in RegSet
    BY <1>2, <1>4, <2>1, RegionFits DEF Halved
  <2> QED
    BY <2>2, <2>3
<1>6. /\ q.base = r.base /\ q.end = from /\ q.flag = r.flag /\ q.committed = low
      /\ Within(q) = r.base..(from - 1) /\ Size(q) = from - r.base
  BY RegionMade
<1>7. /\ p.base = to /\ p.end = r.end /\ p.flag = r.flag /\ p.committed = high
      /\ Within(p) = to..(r.end - 1) /\ Size(p) = r.end - to
  BY RegionMade
<1>8. /\ Replaced(list, i, q) \in Sorted(RegSet) /\ r \in R
      /\ M = (R \ {r}) \cup {q} /\ Swaps(R, r, q, M)
  <2>1. r.base <= q.base /\ q.end <= r.end
    BY <1>2, <1>6
  <2> QED
    BY <1>5, <2>1, PlaceInside
<1>9. Tidy(R) /\ Tidy(M)
  BY <1>8, RegionsTidy
<1>10. ASSUME NEW s \in M PROVE Beside(s, p) /\ s # p
  <2>1. CASE s = q
    BY <1>2, <1>6, <1>7, <2>1 DEF Beside
  <2>2. CASE s # q
    <3>1. s \in R /\ s # r
      BY <1>8, <2>2
    <3>2. Beside(s, r) /\ s \in RegSet
      BY <1>8, <1>9, <3>1 DEF Tidy
    <3>3. s.base \in Int /\ s.end \in Int /\ s.base < s.end
      BY <3>2, RegionBounds
    <3> QED
      BY <1>2, <1>7, <3>2, <3>3 DEF Beside
  <2> QED
    BY <2>1, <2>2
<1> HIDE DEF M, R
<1>11. new \in Sorted(RegSet) /\ T = M \cup {p}
  BY <1>5, <1>8, <1>10, RegSpans, SortedAddSorted DEF M
<1>12. Tidy(T) /\ p \notin M
  BY <1>10, <1>11, RegionsTidy
<1> HIDE DEF T
<1>13. Gains(M, p, T)
  BY <1>9, <1>11, <1>12, RegionComes
<1>14. ASSUME NEW flag
       PROVE  /\ Cardinality(Held(T, flag))
                   = Cardinality(Held(R, flag)) - (IF r.flag = flag THEN to - from ELSE 0)
              /\ Cardinality(Used(T, flag))
                   = Cardinality(Used(R, flag))
                     + (IF r.flag = flag THEN CommittedSize(t) - CommittedSize(r.committed) ELSE 0)
  <2>1. /\ Cardinality(Held(M, flag))
             = Cardinality(Held(R, flag)) - (IF r.flag = flag THEN Size(r) ELSE 0)
                 + (IF q.flag = flag THEN Size(q) ELSE 0)
        /\ Cardinality(Used(M, flag))
             = Cardinality(Used(R, flag))
                 - (IF r.flag = flag THEN CommittedSize(r.committed) ELSE 0)
                 + (IF q.flag = flag THEN CommittedSize(q.committed) ELSE 0)
    BY <1>8 DEF Swaps
  <2>2. /\ Cardinality(Held(T, flag))
             = Cardinality(Held(M, flag)) + (IF p.flag = flag THEN Size(p) ELSE 0)
        /\ Cardinality(Used(T, flag))
             = Cardinality(Used(M, flag)) + (IF p.flag = flag THEN CommittedSize(p.committed) ELSE 0)
    BY <1>13 DEF Gains
  <2>3. Cardinality(Held(R, flag)) \in Nat /\ Cardinality(Used(R, flag)) \in Nat
    BY <1>9, UsedIsHeld
  <2>4. Size(r) = r.end - r.base /\ CommittedSize(r.committed) \in Nat
    BY <1>1, CommittedWithin DEF Size
  <2>5. CommittedSize(low) \in Nat /\ CommittedSize(high) \in Nat
    BY <1>5, <1>6, <1>7, CommittedWithin
  <2>6. CommittedSize(t) = CommittedSize(low) + CommittedSize(high)
    BY <1>3, MovedSizes
  <2>7. CASE r.flag = flag
    <3>1. /\ Cardinality(Held(M, flag)) = Cardinality(Held(R, flag)) - Size(r) + Size(q)
          /\ Cardinality(Used(M, flag))
               = Cardinality(Used(R, flag)) - CommittedSize(r.committed) + CommittedSize(low)
      BY <1>6, <2>1, <2>7
    <3>2. /\ Cardinality(Held(T, flag)) = Cardinality(Held(M, flag)) + Size(p)
          /\ Cardinality(Used(T, flag)) = Cardinality(Used(M, flag)) + CommittedSize(high)
      BY <1>7, <2>2, <2>7
    <3>3. /\ Size(r) \in Int /\ Size(q) \in Int /\ Size(p) \in Int
          /\ Size(r) = Size(q) + Size(p) + (to - from)
      <4>1. PICK x \in Int, y \in Int : x = r.base /\ y = r.end
        BY <1>2
      <4>2. Size(r) = y - x /\ Size(q) = from - x /\ Size(p) = y - to
        BY <1>6, <1>7, <2>4, <4>1
      <4> QED
        BY <4>2
    <3>4. Cardinality(Held(T, flag)) = Cardinality(Held(R, flag)) - (to - from)
      BY <2>3, <3>1, <3>2, <3>3
    <3>5. Cardinality(Used(T, flag))
            = Cardinality(Used(R, flag)) + (CommittedSize(t) - CommittedSize(r.committed))
      BY <2>3, <2>4, <2>5, <2>6, <3>1, <3>2
    <3> QED
      BY <2>7, <3>4, <3>5
  <2>8. CASE r.flag # flag
    BY <1>6, <1>7, <2>1, <2>2, <2>3, <2>8
  <2> QED
    BY <2>7, <2>8
<1>15. ASSUME NEW w \in Within(q) PROVE Mark(q, w) = Mark(r, w)
  <2>1. KeepsAt(q, t, w)
    BY <1>2, <1>3, <1>6 DEF KeepsAt, Within, Halved
  <2>2. Clears(r, q, from, to, w)
    BY <1>1, <1>5, <2>1, UncommitMarks
  <2>3. w \notin from..(to - 1)
    BY <1>2, <1>6
  <2> QED
    BY <2>2, <2>3 DEF Clears
<1>16. ASSUME NEW w \in Within(p) PROVE Mark(p, w) = Mark(r, w)
  <2>1. KeepsAt(p, t, w)
    BY <1>2, <1>3, <1>7 DEF KeepsAt, Within, Halved
  <2>2. Clears(r, p, from, to, w)
    BY <1>1, <1>5, <2>1, UncommitMarks
  <2>3. w \notin from..(to - 1)
    BY <1>2, <1>7
  <2> QED
    BY <2>2, <2>3 DEF Clears
<1>17. /\ \A w \in from..(to - 1) : FlagIn(T, w) = "no one" /\ StackIn(T, w) = "no one"
       /\ \A w : w \notin from..(to - 1) => FlagIn(T, w) = FlagIn(R, w) /\ StackIn(T, w) = StackIn(R, w)
  <2>1. /\ \A w \in Within(r) : FlagIn(R, w) = r.flag /\ StackIn(R, w) = Mark(r, w)
        /\ \A w \in Within(q) : FlagIn(M, w) = q.flag /\ StackIn(M, w) = Mark(q, w)
        /\ \A w \in Within(r) \ Within(q) : FlagIn(M, w) = "no one" /\ StackIn(M, w) = "no one"
        /\ \A w : w \notin Within(r) /\ w \notin Within(q) =>
             FlagIn(M, w) = FlagIn(R, w) /\ StackIn(M, w) = StackIn(R, w)
    BY <1>8 DEF Swaps
  <2>2. /\ \A w \in Within(p) : FlagIn(T, w) = p.flag /\ StackIn(T, w) = Mark(p, w)
        /\ \A w : w \notin Within(p) => FlagIn(T, w) = FlagIn(M, w) /\ StackIn(T, w) = StackIn(M, w)
    BY <1>13 DEF Gains
  <2>3. /\ \A w \in from..(to - 1) : w \in Within(r) /\ w \notin Within(q) /\ w \notin Within(p)
        /\ \A w \in Within(r) : w \in from..(to - 1) \/ w \in Within(q) \/ w \in Within(p)
        /\ \A w \in Within(q) : w \in Within(r) /\ w \notin Within(p)
        /\ \A w \in Within(p) : w \in Within(r)
    <3>1. PICK x \in Int, y \in Int : /\ x = r.base /\ y = r.end
                                     /\ x < from /\ to < y
      BY <1>2
    <3>2. Within(r) = x..(y - 1) /\ Within(q) = x..(from - 1) /\ Within(p) = to..(y - 1)
      BY <1>2, <1>6, <1>7, <3>1
    <3>3. /\ \A w \in from..(to - 1) : w \in x..(y - 1) /\ w \notin x..(from - 1) /\ w \notin to..(y - 1)
          /\ \A w \in x..(y - 1) : w \in from..(to - 1) \/ w \in x..(from - 1) \/ w \in to..(y - 1)
          /\ \A w \in x..(from - 1) : w \in x..(y - 1) /\ w \notin to..(y - 1)
          /\ \A w \in to..(y - 1) : w \in x..(y - 1)
      BY <3>1
    <3> QED
      BY <3>2, <3>3
  <2>4. ASSUME NEW w \in from..(to - 1) PROVE FlagIn(T, w) = "no one" /\ StackIn(T, w) = "no one"
    <3>1. w \in Within(r) \ Within(q) /\ w \notin Within(p)
      BY <2>3
    <3> QED
      BY <2>1, <2>2, <3>1
  <2>5. ASSUME NEW w, w \notin from..(to - 1)
        PROVE  FlagIn(T, w) = FlagIn(R, w) /\ StackIn(T, w) = StackIn(R, w)
    <3>1. CASE w \in Within(p)
      <4>1. w \in Within(r) /\ Mark(p, w) = Mark(r, w) /\ p.flag = r.flag
        BY <1>7, <1>16, <2>3, <3>1
      <4>2. FlagIn(T, w) = p.flag /\ StackIn(T, w) = Mark(p, w)
        BY <2>2, <3>1
      <4>3. FlagIn(R, w) = r.flag /\ StackIn(R, w) = Mark(r, w)
        BY <2>1, <4>1
      <4> QED
        BY <4>1, <4>2, <4>3
    <3>2. CASE w \in Within(q)
      <4>1. w \in Within(r) /\ w \notin Within(p) /\ Mark(q, w) = Mark(r, w) /\ q.flag = r.flag
        BY <1>6, <1>15, <2>3, <3>2
      <4>2. FlagIn(T, w) = q.flag /\ StackIn(T, w) = Mark(q, w)
        BY <2>1, <2>2, <3>2, <4>1
      <4>3. FlagIn(R, w) = r.flag /\ StackIn(R, w) = Mark(r, w)
        BY <2>1, <4>1
      <4> QED
        BY <4>1, <4>2, <4>3
    <3>3. CASE w \notin Within(p) /\ w \notin Within(q)
      <4>1. w \notin Within(r)
        BY <2>3, <2>5, <3>3
      <4> QED
        BY <2>1, <2>2, <3>3, <4>1
    <3> QED
      BY <3>1, <3>2, <3>3
  <2> QED
    BY <2>4, <2>5
<1>18. Forgets(R, r, from, to, t, T)
  BY <1>14, <1>17 DEF Forgets
<1> QED
  BY <1>11, <1>18 DEF R, T

\* Does a committed region end up in both parts of region i?
TwiceIn(i, from, to) ==
  LET list  == Uncommitted(i, from, to)
      moved == MovedUp(list, from)
  IN  /\ regions[i].base < from /\ to < regions[i].end
      /\ Len(moved.low) + Len(moved.high) > Len(list)

\* Shrunk, of the region with what is left in it.
ShrunkFrom(q, i, from, to) ==
  IF SameRegion(q, from, to) THEN RemoveAt(regions, i)
  ELSE IF q.base = from THEN [regions EXCEPT ![i] = [q EXCEPT !.base = to]]
  ELSE IF q.end = to THEN [regions EXCEPT ![i] = [q EXCEPT !.end = from]]
  ELSE SortedAdd([regions EXCEPT ![i] = Region(q.base, from, q.flag, MovedUp(q.committed, from).low)],
                 Region(to, q.end, q.flag, MovedUp(q.committed, from).high))

\* What is left of the regions when words of one are released.
LEMMA ShrunkForgets ==
  ASSUME TrackerInv, NumWords \in Nat, NEW i \in 1..Len(regions), NEW r, r = regions[i],
         NEW from \in Int, NEW to \in Int, from < to, r.base <= from, to <= r.end,
         NEW t, t = Uncommitted(i, from, to), ~TwiceIn(i, from, to)
  PROVE  /\ Uncommits(r.committed, from, to, t)
         /\ Shrunk(i, from, to) \in Sorted(RegSet)
         /\ Forgets(ToSet(regions), r, from, to, t, ToSet(Shrunk(i, from, to)))
<1>1. regions \in Sorted(RegSet) /\ r \in RegSet /\ DOMAIN regions = 1..Len(regions)
  BY Members DEF TrackerInv, Sorted
<1>2. r.base \in Int /\ r.end \in Int /\ r.base < r.end /\ r.committed \in CommLists
  BY <1>1, RegionBounds
<1>3. Uncommits(r.committed, from, to, t)
  BY <1>2, RemoveUncommits DEF Uncommitted
<1>4. PICK q : q = Region(r.base, r.end, r.flag, t)
  OBVIOUS
<1>5. PICK moved : moved = MovedUp(t, from)
  OBVIOUS
<1>6. /\ q.base = r.base /\ q.end = r.end /\ q.flag = r.flag /\ q.committed = t
      /\ [q EXCEPT !.base = to] = Region(to, r.end, r.flag, t)
      /\ [q EXCEPT !.end = from] = Region(r.base, from, r.flag, t)
  BY <1>4 DEF Region
<1>7. Shrunk(i, from, to)
      = IF r.base = from /\ r.end = to THEN RemoveAt(regions, i)
        ELSE IF r.base = from THEN Replaced(regions, i, Region(to, r.end, r.flag, t))
        ELSE IF r.end = to THEN Replaced(regions, i, Region(r.base, from, r.flag, t))
        ELSE SortedAdd(Replaced(regions, i, Region(r.base, from, r.flag, moved.low)),
                       Region(to, r.end, r.flag, moved.high))
  <2>1. [regions[i] EXCEPT !.committed = Uncommitted(i, from, to)] = q
    BY <1>1, <1>4, RegionForms
  <2>2. Shrunk(i, from, to) = ShrunkFrom(q, i, from, to)
    <3>1. Shrunk(i, from, to)
          = ShrunkFrom([regions[i] EXCEPT !.committed = Uncommitted(i, from, to)], i, from, to)
      BY DEF Shrunk, ShrunkFrom
    <3> QED
      BY <2>1, <3>1
  <2>3. SameRegion(q, from, to) <=> r.base = from /\ r.end = to
    BY <1>6 DEF SameRegion
  <2>4. /\ [regions EXCEPT ![i] = [q EXCEPT !.base = to]] = Replaced(regions, i, Region(to, r.end, r.flag, t))
        /\ [regions EXCEPT ![i] = [q EXCEPT !.end = from]] = Replaced(regions, i, Region(r.base, from, r.flag, t))
    BY <1>6 DEF Replaced
  <2>5. [regions EXCEPT ![i] = Region(q.base, from, q.flag, MovedUp(q.committed, from).low)]
        = Replaced(regions, i, Region(r.base, from, r.flag, moved.low))
    BY <1>5, <1>6 DEF Replaced
  <2>6. Region(to, q.end, q.flag, MovedUp(q.committed, from).high) = Region(to, r.end, r.flag, moved.high)
    BY <1>5, <1>6
  <2> QED
    BY <1>6, <2>2, <2>3, <2>4, <2>5, <2>6 DEF ShrunkFrom
<1>8. CASE r.base = from /\ r.end = to
  <2>1. Shrunk(i, from, to) = RemoveAt(regions, i)
    BY <1>7, <1>8
  <2>2. Uncommits(r.committed, r.base, r.end, t)
    BY <1>3, <1>8
  <2>3. /\ RemoveAt(regions, i) \in Sorted(RegSet)
        /\ Forgets(ToSet(regions), r, r.base, r.end, t, ToSet(RemoveAt(regions, i)))
    BY <1>1, <2>2, ReleaseAll
  <2> QED
    BY <1>3, <1>8, <2>1, <2>3
<1>9. CASE r.base = from /\ r.end # to
  <2>1. Shrunk(i, from, to) = Replaced(regions, i, Region(to, r.end, r.flag, t))
    BY <1>7, <1>9
  <2>2. Leaves(r, from, to, to, r.end)
    BY <1>2, <1>9 DEF Leaves
  <2>3. PICK x, y, u : x = to /\ y = r.end /\ u = Region(x, y, r.flag, t)
    OBVIOUS
  <2>4. Leaves(r, from, to, x, y) /\ Shrunk(i, from, to) = Replaced(regions, i, u)
    BY <2>1, <2>2, <2>3
  <2>5. /\ Replaced(regions, i, u) \in Sorted(RegSet)
        /\ Forgets(ToSet(regions), r, from, to, t, ToSet(Replaced(regions, i, u)))
    BY <1>1, <1>3, <2>3, <2>4, ReleaseEnd
  <2> QED
    BY <1>3, <2>4, <2>5
<1>10. CASE r.base # from /\ r.end = to
  <2>1. Shrunk(i, from, to) = Replaced(regions, i, Region(r.base, from, r.flag, t))
    BY <1>7, <1>10
  <2>2. Leaves(r, from, to, r.base, from)
    BY <1>2, <1>10 DEF Leaves
  <2>3. PICK x, y, u : x = r.base /\ y = from /\ u = Region(x, y, r.flag, t)
    OBVIOUS
  <2>4. Leaves(r, from, to, x, y) /\ Shrunk(i, from, to) = Replaced(regions, i, u)
    BY <2>1, <2>2, <2>3
  <2>5. /\ Replaced(regions, i, u) \in Sorted(RegSet)
        /\ Forgets(ToSet(regions), r, from, to, t, ToSet(Replaced(regions, i, u)))
    BY <1>1, <1>3, <2>3, <2>4, ReleaseEnd
  <2> QED
    BY <1>3, <2>4, <2>5
<1>11. CASE r.base # from /\ r.end # to
  <2>1. r.base < from /\ to < r.end
    BY <1>2, <1>11
  <2>2. ~(Len(moved.low) + Len(moved.high) > Len(t))
    BY <1>5, <2>1 DEF TwiceIn
  <2>3. t \in CommLists
    BY <1>3 DEF Uncommits
  <2>4. Halved(t, from, moved.low, moved.high)
    BY <1>5, <2>2, <2>3, MovedUpSorted DEF Halved
  <2>5. Shrunk(i, from, to) = SortedAdd(Replaced(regions, i, Region(r.base, from, r.flag, moved.low)),
                                        Region(to, r.end, r.flag, moved.high))
    BY <1>7, <1>11
  <2> QED
    BY <1>1, <1>3, <2>1, <2>4, <2>5, ReleaseMiddle
<1> QED
  BY <1>8, <1>9, <1>10, <1>11

\* Memory is released, a part of the archive only uncommitted.
LEMMA RemoveReleasedRegionStep ==
  ASSUME TrackerInv, NumWords \in Nat, NEW from, NEW to, Ranged(from, to),
         RemoveReleasedRegion(from, to), ~TwiceLinked(from, to)
  PROVE  TrackerInv' /\ Memory!Release(from, to)
<1>1. PICK i, r, t : i = Find(from, to) /\ r = regions[i] /\ t = Uncommitted(i, from, to)
  OBVIOUS
<1>2. /\ i \in 1..Len(regions) /\ r \in RegSet /\ r.base <= from /\ to <= r.end
      /\ from..(to - 1) \subseteq Within(r)
      /\ from \in Int /\ to \in Int /\ from < to
  BY <1>1, InsideRegion DEF RemoveReleasedRegion, Ranged
<1>3. CASE r.flag = "mtClassShared" /\ ~SameRegion(r, from, to)
  <2>1. RemoveUncommittedRegion(from, to)
    BY <1>1, <1>3 DEF RemoveReleasedRegion
  <2>2. TrackerInv' /\ Memory!UncommitRange(from, to)
    BY <2>1, RemoveUncommittedRegionStep
  <2>3. FlagOf(from) = "mtClassShared"
    <3>1. from \in Within(r)
      BY <1>2
    <3>2. Tidy(ToSet(regions)) /\ r \in ToSet(regions)
      BY <1>1, <1>2, RegionsTidy, Members DEF TrackerInv, Sorted
    <3>3. FlagIn(ToSet(regions), from) = r.flag
      BY <3>1, <3>2, ViewInside
    <3> QED
      BY <1>3, <3>3, ViewsAre
  <2>4. from \in Places
    BY DEF Places, Ranged
  <2> QED
    BY <2>2, <2>3, <2>4 DEF Memory!Release, Memory!UncommitRange
<1>4. CASE ~(r.flag = "mtClassShared" /\ ~SameRegion(r, from, to))
  <2> DEFINE R == ToSet(regions)
             T == ToSet(regions')
  <2>1. /\ regions' = Shrunk(i, from, to)
        /\ summary' = [SummaryWithout(i, from, to) EXCEPT !.reserved[r.flag] = @ - (to - from)]
        /\ ~TwiceIn(i, from, to)
    <3>1. /\ regions' = Shrunk(i, from, to)
          /\ summary' = [SummaryWithout(i, from, to) EXCEPT !.reserved[r.flag] = @ - (to - from)]
      BY <1>1, <1>4 DEF RemoveReleasedRegion
    <3>2. ~(r.base < from /\ SameRegion(r, from, to))
      BY <1>2, RegionBounds DEF SameRegion
    <3>3. ~TwiceIn(i, from, to)
      BY <1>1, <1>4, <3>2 DEF TwiceLinked, TwiceIn
    <3> QED
      BY <3>1, <3>3
  <2>2. /\ Uncommits(r.committed, from, to, t)
        /\ regions' \in Sorted(RegSet) /\ Forgets(R, r, from, to, t, T)
    BY <1>1, <1>2, <2>1, ShrunkForgets
  <2> HIDE DEF R, T
  <2>3. TrackerInv'
    <3> DEFINE a == [summary.reserved EXCEPT ![r.flag] = @ - (to - from)]
               b == [summary.committed EXCEPT ![r.flag] = @ - CommittedSize(r.committed) + CommittedSize(t)]
    <3>1. summary' = [reserved |-> a, committed |-> b]
      BY <1>1, <2>1, SummaryWas DEF SummaryWithout
    <3>2. a = [f \in Flags |-> a[f]] /\ b = [f \in Flags |-> b[f]]
      BY SummaryWas
    <3>3. CommittedSize(t) \in Nat /\ CommittedSize(r.committed) \in Nat
      BY <1>2, <2>2, UncommitBounds, CommittedWithin
    <3>4. \A f \in Flags : summary.reserved[f] \in Nat /\ summary.committed[f] \in Nat
      BY SummaryWas
    <3>5. \A f \in Flags : a[f] = summary.reserved[f] - (IF r.flag = f THEN to - from ELSE 0)
      BY <1>2, <3>4, SummaryWas
    <3>6. \A f \in Flags : b[f] = summary.committed[f]
                                  + (IF r.flag = f THEN CommittedSize(t) - CommittedSize(r.committed) ELSE 0)
      BY <3>3, <3>4, SummaryWas
    <3> HIDE DEF a, b
    <3>7. \A f \in Flags : a[f] = Cardinality(Held(T, f)) /\ b[f] = Cardinality(Used(T, f))
      <4>1. \A f \in Flags : /\ summary.reserved[f] = Cardinality(Held(R, f))
                             /\ summary.committed[f] = Cardinality(Used(R, f))
        BY SummaryWas DEF R
      <4>2. \A f : /\ Cardinality(Held(T, f))
                        = Cardinality(Held(R, f)) - (IF r.flag = f THEN to - from ELSE 0)
                   /\ Cardinality(Used(T, f))
                        = Cardinality(Used(R, f))
                          + (IF r.flag = f THEN CommittedSize(t) - CommittedSize(r.committed) ELSE 0)
        BY <2>2 DEF Forgets
      <4> QED
        BY <3>5, <3>6, <4>1, <4>2
    <3>8. summary' = Sums(T)
      BY <3>1, <3>2, <3>7, SummaryIs
    <3> QED
      BY <2>2, <3>8 DEF TrackerInv, T
  <2>4. /\ \A w \in from..(to - 1) : FlagOf(w)' = "no one" /\ StackOf(w)' = "no one"
        /\ \A w : w \notin from..(to - 1) => FlagOf(w)' = FlagOf(w) /\ StackOf(w)' = StackOf(w)
    BY <2>2, ViewsAre DEF Forgets, R, T
  <2>5. Memory!Release(from, to)
    BY <2>4 DEF Memory!Release, Memory!Set, Memory!Range
  <2> QED
    BY <2>3, <2>5
<1> QED
  BY <1>3, <1>4

\* A region in which nothing is committed is split in two.
LEMMA SplitReservedRegionStep ==
  ASSUME TrackerInv, NumWords \in Nat, NEW i \in 1..Len(regions), NEW w \in 0..NumWords,
         SplitReservedRegion(i, w)
  PROVE  TrackerInv' /\ Memory!Split /\ 0 < w
<1>1. PICK r, q, p, rest, more :
        /\ r = regions[i]
        /\ q = Region(r.base, w, r.flag, <<>>) /\ p = Region(w, r.end, r.flag, <<>>)
        /\ rest = RemoveAt(regions, i) /\ more = SortedAdd(rest, q)
  OBVIOUS
<1>2. /\ regions \in Sorted(RegSet) /\ regions' = SortedAdd(more, p)
      /\ r.committed = <<>> /\ w \in (r.base + 1)..(r.end - 1)
      /\ summary' = summary
  BY <1>1 DEF TrackerInv, SplitReservedRegion
<1>3. r \in RegSet /\ r \in ToSet(regions)
  BY <1>1, <1>2, Members DEF Sorted
<1>4. /\ r.base \in Int /\ r.end \in Int /\ 0 <= r.base /\ r.end <= NumWords /\ r.flag \in Flags
      /\ w \in Int /\ r.base < w /\ w < r.end /\ 0 < w
  BY <1>2, <1>3, RegionBounds
<1>5. /\ q.base = r.base /\ q.end = w /\ q.flag = r.flag /\ q.committed = <<>> /\ Size(q) = w - r.base
      /\ p.base = w /\ p.end = r.end /\ p.flag = r.flag /\ p.committed = <<>> /\ Size(p) = r.end - w
      /\ Within(q) = r.base..(w - 1) /\ Within(p) = w..(r.end - 1)
      /\ Within(r) = r.base..(r.end - 1) /\ Size(r) = r.end - r.base
  <2>1. Within(r) = r.base..(r.end - 1) /\ Size(r) = r.end - r.base
    BY DEF Within, Size
  <2> QED
    BY <1>1, <2>1, RegionMade
<1>6. q \in RegSet /\ p \in RegSet
  <2>1. <<>> \in CommLists /\ ToSet(<<>>) = {}
    BY NothingCommitted
  <2>2. w <= NumWords /\ 0 <= w
    BY <1>4
  <2>3. q \in RegSet
    BY <1>1, <1>4, <2>1, <2>2, RegionFits
  <2>4. p \in RegSet
    BY <1>1, <1>4, <2>1, <2>2, RegionFits
  <2> QED
    BY <2>3, <2>4
<1> DEFINE R == ToSet(regions)
           L == ToSet(rest)
           M == ToSet(more)
           T == ToSet(regions')
<1>7. rest \in Sorted(RegSet) /\ L = R \ {r}
  BY <1>1, <1>2, RegSpans, RemoveSorted
<1>8. Tidy(R) /\ Tidy(L)
  BY <1>2, <1>7, RegionsTidy
<1>9. ASSUME NEW s \in L
      PROVE  Beside(s, q) /\ s # q /\ Beside(s, p) /\ s # p
  <2>1. s \in R /\ s # r
    BY <1>7
  <2>2. Beside(s, r) /\ s \in RegSet
    BY <1>3, <1>8, <2>1 DEF Tidy
  <2>3. s.base \in Int /\ s.end \in Int /\ s.base < s.end
    BY <2>2, RegionBounds
  <2> QED
    BY <1>4, <1>5, <2>2, <2>3 DEF Beside
<1>10. more \in Sorted(RegSet) /\ M = L \cup {q}
  BY <1>1, <1>6, <1>7, <1>9, RegSpans, SortedAddSorted
<1>11. Beside(q, p) /\ q # p
  BY <1>4, <1>5 DEF Beside
<1>12. \A s \in M : Beside(s, p) /\ s # p
  BY <1>9, <1>10, <1>11
<1>13. regions' \in Sorted(RegSet) /\ T = M \cup {p}
  BY <1>2, <1>6, <1>10, <1>12, RegSpans, SortedAddSorted
<1>14. Tidy(M) /\ Tidy(T) /\ r \notin L /\ L \cup {r} = R /\ q \notin L /\ p \notin M
  BY <1>3, <1>7, <1>9, <1>10, <1>12, <1>13, RegionsTidy
<1> HIDE DEF R, L, M, T
<1>15. Gains(L, r, R)
  BY <1>8, <1>14, RegionComes
<1>16. Gains(L, q, M)
  BY <1>8, <1>10, <1>14, RegionComes
<1>17. Gains(M, p, T)
  BY <1>13, <1>14, RegionComes
<1>18. CommittedSize(r.committed) = 0 /\ CommittedSize(q.committed) = 0 /\ CommittedSize(p.committed) = 0
  BY <1>2, <1>5, NothingCommitted
<1>19. ASSUME NEW f
       PROVE  /\ Cardinality(Held(T, f)) = Cardinality(Held(R, f))
              /\ Cardinality(Used(T, f)) = Cardinality(Used(R, f))
  <2>1. Cardinality(Held(L, f)) \in Nat /\ Cardinality(Used(L, f)) \in Nat
    BY <1>8, UsedIsHeld
  <2>2. /\ Cardinality(Held(R, f)) = Cardinality(Held(L, f)) + (IF r.flag = f THEN Size(r) ELSE 0)
        /\ Cardinality(Used(R, f)) = Cardinality(Used(L, f)) + (IF r.flag = f THEN 0 ELSE 0)
    BY <1>15, <1>18 DEF Gains
  <2>3. /\ Cardinality(Held(M, f)) = Cardinality(Held(L, f)) + (IF r.flag = f THEN Size(q) ELSE 0)
        /\ Cardinality(Used(M, f)) = Cardinality(Used(L, f)) + (IF r.flag = f THEN 0 ELSE 0)
    BY <1>5, <1>16, <1>18 DEF Gains
  <2>4. /\ Cardinality(Held(T, f)) = Cardinality(Held(M, f)) + (IF r.flag = f THEN Size(p) ELSE 0)
        /\ Cardinality(Used(T, f)) = Cardinality(Used(M, f)) + (IF r.flag = f THEN 0 ELSE 0)
    BY <1>5, <1>17, <1>18 DEF Gains
  <2>5. Size(q) \in Int /\ Size(p) \in Int /\ Size(r) = Size(q) + Size(p)
    BY <1>4, <1>5
  <2> QED
    BY <2>1, <2>2, <2>3, <2>4, <2>5
<1>20. TrackerInv'
  <2> DEFINE a == summary.reserved
             b == summary.committed
  <2>1. /\ \A f \in Flags : a[f] = Cardinality(Held(T, f)) /\ b[f] = Cardinality(Used(T, f))
        /\ a = [f \in Flags |-> a[f]] /\ b = [f \in Flags |-> b[f]]
        /\ summary' = [reserved |-> a, committed |-> b]
    BY <1>2, <1>19, SummaryWas DEF R
  <2> HIDE DEF a, b
  <2>2. summary' = Sums(T)
    BY <2>1, SummaryIs
  <2> QED
    BY <1>13, <2>2 DEF TrackerInv, T
<1>21. \A v : Mark(r, v) = "no one" /\ Mark(q, v) = "no one" /\ Mark(p, v) = "no one"
  BY <1>2, <1>3, <1>5, <1>6, NothingCommitted
<1>22. ASSUME NEW v PROVE FlagIn(T, v) = FlagIn(R, v) /\ StackIn(T, v) = StackIn(R, v)
  <2>1. /\ v \in Within(r) <=> v \in Within(q) \/ v \in Within(p)
        /\ ~(v \in Within(q) /\ v \in Within(p))
    BY <1>4, <1>5
  <2>2. CASE v \in Within(p)
    <3>1. FlagIn(T, v) = r.flag /\ StackIn(T, v) = "no one"
      BY <1>5, <1>17, <1>21, <2>2 DEF Gains
    <3>2. FlagIn(R, v) = r.flag /\ StackIn(R, v) = "no one"
      BY <1>15, <1>21, <2>1, <2>2 DEF Gains
    <3> QED
      BY <3>1, <3>2
  <2>3. CASE v \in Within(q)
    <3>1. FlagIn(T, v) = FlagIn(M, v) /\ StackIn(T, v) = StackIn(M, v)
      BY <1>17, <2>1, <2>3 DEF Gains
    <3>2. FlagIn(M, v) = r.flag /\ StackIn(M, v) = "no one"
      BY <1>5, <1>16, <1>21, <2>3 DEF Gains
    <3>3. FlagIn(R, v) = r.flag /\ StackIn(R, v) = "no one"
      BY <1>15, <1>21, <2>1, <2>3 DEF Gains
    <3> QED
      BY <3>1, <3>2, <3>3
  <2>4. CASE v \notin Within(p) /\ v \notin Within(q)
    <3>1. FlagIn(T, v) = FlagIn(M, v) /\ StackIn(T, v) = StackIn(M, v)
      BY <1>17, <2>4 DEF Gains
    <3>2. FlagIn(M, v) = FlagIn(L, v) /\ StackIn(M, v) = StackIn(L, v)
      BY <1>16, <2>4 DEF Gains
    <3>3. FlagIn(R, v) = FlagIn(L, v) /\ StackIn(R, v) = StackIn(L, v)
      BY <1>15, <2>1, <2>4 DEF Gains
    <3> QED
      BY <3>1, <3>2, <3>3
  <2> QED
    BY <2>2, <2>3, <2>4
<1>23. Memory!Split
  BY <1>22, ViewsAre DEF Memory!Split, Memory!map, R, T
<1> QED
  BY <1>4, <1>20, <1>23

-----------------------------------------------------------------------------
(* Every step.                                                             *)

\* Nothing is reserved at first.
LEMMA InitInv ==
  ASSUME TrackerInit
  PROVE  TrackerInv
<1>1. regions \in Sorted(RegSet) /\ ToSet(regions) = {}
  BY DEF TrackerInit, Sorted, InOrder, ToSet
<1>2. \A flag : Held({}, flag) = {} /\ Used({}, flag) = {}
  BY DEF Held, Used, Covered
<1>3. Cardinality({}) = 0
  BY FS_EmptySet
<1>4. summary = Sums({})
  BY <1>2, <1>3 DEF TrackerInit, Sums
<1> QED
  BY <1>1, <1>4 DEF TrackerInv

\* A sorted list, as RegionsSound says it.
LEMMA SortedMeans ==
  ASSUME NEW S, Spans(S), NEW list \in Sorted(S)
  PROVE  /\ \A i \in DOMAIN list : list[i].base < list[i].end
         /\ \A i, j \in DOMAIN list : i < j => list[i].end <= list[j].base
<1>1. InOrder(list) /\ DOMAIN list = 1..Len(list) /\ \A i \in 1..Len(list) : list[i] \in S
  BY Members DEF Sorted
<1> QED
  BY <1>1 DEF Spans, InOrder

\* The sums over the lists are numbers of words.
LEMMA SumsCount ==
  ASSUME regions \in Sorted(RegSet), NEW flag
  PROVE  LET tagged == {i \in DOMAIN regions : regions[i].flag = flag} IN
         /\ MapThenSumSet(LAMBDA i : Size(regions[i]), tagged) = Cardinality(Held(ToSet(regions), flag))
         /\ MapThenSumSet(LAMBDA i : CommittedSize(regions[i].committed), tagged)
              = Cardinality(Used(ToSet(regions), flag))
<1> DEFINE tagged == {i \in DOMAIN regions : regions[i].flag = flag}
           R      == ToSet(regions)
<1>1. /\ regions \in Seq(RegSet) /\ InOrder(regions)
      /\ DOMAIN regions = 1..Len(regions) /\ Len(regions) \in Nat
      /\ \A i \in 1..Len(regions) : regions[i] \in RegSet /\ regions[i] \in R
      /\ \A r \in R : \E i \in 1..Len(regions) : regions[i] = r
  BY Members DEF Sorted
<1>2. tagged \in SUBSET (1..Len(regions)) /\ IsFiniteSet(tagged)
  <2>1. IsFiniteSet(1..Len(regions))
    BY <1>1, FS_Interval
  <2> QED
    BY <1>1, <2>1, FS_Subset
<1>3. {regions[i] : i \in tagged} = {r \in R : r.flag = flag}
  BY <1>1
<1>4. MapThenSumSet(LAMBDA i : Size(regions[i]), tagged) = Cardinality(Covered({regions[i] : i \in tagged}))
  <2> HIDE DEF tagged
  <2> QED
    BY <1>2, RegSpans, SizesCount
<1>5. MapThenSumSet(LAMBDA i : Size(regions[i]), tagged) = Cardinality(Held(R, flag))
  BY <1>3, <1>4 DEF Held
<1> DEFINE W == [i \in tagged |-> Covered(ToSet(regions[i].committed))]
           g == [i \in tagged |-> CommittedSize(regions[i].committed)]
<1>6. \A i \in tagged : /\ W[i] = Covered(ToSet(regions[i].committed))
                        /\ g[i] = CommittedSize(regions[i].committed)
                        /\ regions[i] \in RegSet /\ regions[i] \in R /\ regions[i].flag = flag
  BY <1>1
<1>7. Used(R, flag) = UNION {W[i] : i \in tagged}
  <2>1. ASSUME NEW w \in Used(R, flag) PROVE w \in UNION {W[i] : i \in tagged}
    <3>1. PICK r \in R : r.flag = flag /\ w \in Covered(ToSet(r.committed))
      BY DEF Used
    <3>2. PICK i \in 1..Len(regions) : regions[i] = r
      BY <1>1
    <3>3. i \in tagged /\ w \in W[i]
      BY <1>1, <3>1, <3>2
    <3> QED
      BY <3>3
  <2>2. ASSUME NEW i \in tagged, NEW w \in W[i] PROVE w \in Used(R, flag)
    BY <1>6 DEF Used
  <2> QED
    BY <2>1, <2>2
<1>8. \A i, j \in tagged : i # j => regions[i] # regions[j]
  BY <1>1, RegSpans, OrderApart
<1> HIDE DEF tagged, W, g, R
<1>9. Measures(g, W, tagged)
  BY <1>6, CommittedWithin DEF Measures
<1>10. Apart(W, tagged)
  <2> SUFFICES ASSUME NEW i \in tagged, NEW j \in tagged, i # j
               PROVE  W[i] \cap W[j] = {}
    BY DEF Apart
  <2>1. Within(regions[i]) \cap Within(regions[j]) = {}
    <3>1. Tidy(R)
      BY RegionsTidy DEF R
    <3>2. regions[i] \in R /\ regions[j] \in R /\ regions[i] # regions[j]
      BY <1>6, <1>8
    <3> QED
      BY <3>1, <3>2, TidyApart
  <2>2. W[i] \subseteq Within(regions[i]) /\ W[j] \subseteq Within(regions[j])
    BY <1>6, CommittedWithin
  <2> QED
    BY <2>1, <2>2
<1>11. Total(g, tagged) = Cardinality(Used(R, flag))
  <2>1. PICK U : U = Used(R, flag)
    OBVIOUS
  <2>2. Unites(U, W, tagged)
    BY <1>7, <2>1 DEF Unites
  <2>3. Total(g, tagged) = Cardinality(U)
    BY <1>2, <1>9, <1>10, <2>2, TotalOfSets
  <2> QED
    BY <2>1, <2>3
<1>12. MapThenSumSet(LAMBDA i : CommittedSize(regions[i].committed), tagged) = Total(g, tagged)
  <2>1. \A i \in tagged : CommittedSize(regions[i].committed) \in Int
    BY <1>6, CommittedWithin
  <2> QED
    BY <1>2, <2>1, CommittedSum DEF g
<1> QED
  BY <1>5, <1>11, <1>12 DEF tagged, R

\* The invariant is what RegionsSound promises.
LEMMA InvSound ==
  ASSUME TrackerInv
  PROVE  RegionsSound
<1>1. regions \in Sorted(RegSet) /\ Tidy(ToSet(regions))
  BY RegionsTidy DEF TrackerInv
<1>2. /\ \A i \in DOMAIN regions : regions[i].base < regions[i].end
      /\ \A i, j \in DOMAIN regions : i < j => regions[i].end <= regions[j].base
  BY <1>1, RegSpans, SortedMeans
<1>3. ASSUME NEW i \in DOMAIN regions, NEW list, list = regions[i].committed
      PROVE  /\ \A j \in DOMAIN list : list[j].base < list[j].end
             /\ \A j, k \in DOMAIN list : j < k => list[j].end <= list[k].base
             /\ \A j \in DOMAIN list : ContainRegion(regions[i], list[j].base, list[j].end)
             /\ \A j \in 2..Len(list) :
                  list[j - 1].end = list[j].base => list[j - 1].stack # list[j].stack
  <2>1. regions[i] \in RegSet
    BY <1>1, Members DEF Sorted
  <2>2. /\ list \in Sorted(CommSet) /\ Separate(ToSet(list))
        /\ regions[i].base \in Int /\ regions[i].end \in Int
        /\ \A c \in ToSet(list) : /\ c.base \in Int /\ c.end \in Int /\ c.base < c.end
                                  /\ regions[i].base <= c.base /\ c.end <= regions[i].end
    BY <1>3, <2>1, RegionBounds DEF CommLists
  <2>3. /\ \A j \in DOMAIN list : list[j].base < list[j].end
        /\ \A j, k \in DOMAIN list : j < k => list[j].end <= list[k].base
    BY <2>2, CommSpans, SortedMeans
  <2>4. Len(list) \in Nat /\ DOMAIN list = 1..Len(list) /\ \A j \in 1..Len(list) : list[j] \in ToSet(list)
    BY <2>2, Members DEF Sorted
  <2>5. ASSUME NEW j \in DOMAIN list PROVE ContainRegion(regions[i], list[j].base, list[j].end)
    BY <2>2, <2>4 DEF ContainRegion, ContainAddress
  <2>6. ASSUME NEW j \in 2..Len(list), list[j - 1].end = list[j].base
        PROVE  list[j - 1].stack # list[j].stack
    <3>1. list[j - 1] \in ToSet(list) /\ list[j] \in ToSet(list)
      BY <2>4
    <3> QED
      BY <2>2, <2>6, <3>1 DEF Separate
  <2> QED
    BY <2>3, <2>5, <2>6
<1>4. SummaryExact
  <2> SUFFICES ASSUME NEW flag \in Flags, NEW tagged, tagged = {i \in DOMAIN regions : regions[i].flag = flag}
               PROVE  /\ summary.reserved[flag] = MapThenSumSet(LAMBDA i : Size(regions[i]), tagged)
                      /\ summary.committed[flag]
                           = MapThenSumSet(LAMBDA i : CommittedSize(regions[i].committed), tagged)
                      /\ summary.committed[flag] \in 0..summary.reserved[flag]
    BY DEF SummaryExact
  <2>1. /\ summary.reserved[flag] = Cardinality(Held(ToSet(regions), flag))
        /\ summary.committed[flag] = Cardinality(Used(ToSet(regions), flag))
    BY SummaryWas
  <2>2. summary.committed[flag] \in 0..summary.reserved[flag]
    BY <1>1, <2>1, UsedIsHeld
  <2>3. /\ MapThenSumSet(LAMBDA i : Size(regions[i]), tagged) = Cardinality(Held(ToSet(regions), flag))
        /\ MapThenSumSet(LAMBDA i : CommittedSize(regions[i].committed), tagged)
             = Cardinality(Used(ToSet(regions), flag))
    BY <1>1, SumsCount
  <2> QED
    BY <2>1, <2>2, <2>3
<1> QED
  BY <1>2, <1>3, <1>4 DEF RegionsSound

-----------------------------------------------------------------------------
(* The calls that break the lists.                                         *)

\* What sound lists are, after a step.
LEMMA SoundSays ==
  ASSUME RegionsSound'
  PROVE  /\ InOrder(regions')
         /\ \A i \in DOMAIN regions' :
              /\ InOrder(regions'[i].committed)
              /\ \A j \in DOMAIN regions'[i].committed :
                   ContainRegion(regions'[i], regions'[i].committed[j].base, regions'[i].committed[j].end)
         /\ SummaryExact'
BY DEF RegionsSound, InOrder

\* A list with two regions that are not apart is not in order.
LEMMA NotInOrder ==
  ASSUME NEW S, NEW list \in Seq(S), NEW r \in ToSet(list), NEW q \in ToSet(list), r # q, ~Beside(r, q)
  PROVE  ~InOrder(list)
<1>1. PICK i \in 1..Len(list), j \in 1..Len(list) : list[i] = r /\ list[j] = q
  BY Members
<1>2. Len(list) \in Nat /\ DOMAIN list = 1..Len(list)
  BY Members
<1>3. i < j \/ j < i
  BY <1>1, <1>2
<1> QED
  BY <1>1, <1>2, <1>3 DEF InOrder, Beside

\* Whatever list a region is added to, the others stay in it.
LEMMA SortedAddMembers ==
  ASSUME NEW S, NEW list \in Seq(S), NEW r \in S
  PROVE  /\ SortedAdd(list, r) \in Seq(S)
         /\ ToSet(list) \subseteq ToSet(SortedAdd(list, r)) /\ r \in ToSet(SortedAdd(list, r))
<1> DEFINE n == Len(list)
           precedes(s) == ~OverlapRegion(s, r.base, r.end) /\ s.base < r.end
           Good == {j \in 1..n : precedes(list[j])}
           k == Max({i \in 0..n : \A j \in 1..i : precedes(list[j])})
           low == SubSeq(list, 1, k)
           high == SubSeq(list, k + 1, n)
           lower == low \o <<r>>
           t == lower \o high
<1>1. n \in Nat /\ DOMAIN list = 1..n /\ \A i \in 1..n : list[i] \in S
  BY Members
<1>2. {i \in 0..n : \A j \in 1..i : precedes(list[j])} = {i \in 0..n : \A j \in 1..i : j \in Good}
  <2>1. \A i \in 0..n : \A j \in 1..i : j \in 1..n
    BY <1>1
  <2> QED
    BY <2>1
<1> HIDE DEF Good
<1>3. k \in 0..n
  BY <1>1, <1>2, LastOfFirst
<1>4. SortedAdd(list, r) = InsertAt(list, k + 1, r)
  BY DEF SortedAdd
<1> HIDE DEF k, n
<1>5. SortedAdd(list, r) = t
  <2>1. (k + 1) - 1 = k
    BY <1>3
  <2> QED
    BY <1>4, <2>1 DEF InsertAt, n
<1>6. /\ low \in Seq(S) /\ Len(low) = k /\ \A i \in 1..k : low[i] = list[i]
      /\ high \in Seq(S) /\ Len(high) = n - k /\ \A i \in 1..(n - k) : high[i] = list[k + i]
  <2>1. /\ k \in Int /\ n \in Int /\ 1 \in Int /\ k + 1 \in Int
        /\ \A i \in 1..k : list[i] \in S
        /\ \A i \in (k + 1)..n : list[i] \in S
    BY <1>1, <1>3
  <2>2. /\ low \in Seq(S) /\ Len(low) = (IF 1 <= k THEN k - 1 + 1 ELSE 0)
        /\ \A i \in 1..(k - 1 + 1) : low[i] = list[1 + i - 1]
    BY <2>1, SubSeqProperties
  <2> DEFINE a == k + 1
  <2>3. a \in Int /\ \A i \in a..n : list[i] \in S
    BY <2>1
  <2>4. high = SubSeq(list, a, n)
    OBVIOUS
  <2> HIDE DEF a, high, low
  <2>5. /\ high \in Seq(S) /\ Len(high) = (IF a <= n THEN n - a + 1 ELSE 0)
        /\ \A i \in 1..(n - a + 1) : high[i] = list[a + i - 1]
    BY <2>1, <2>3, <2>4, SubSeqProperties
  <2>6. n - a + 1 = n - k /\ \A i \in Int : a + i - 1 = k + i /\ 1 + i - 1 = i
    BY <1>1, <1>3 DEF a
  <2>7. Len(low) = k /\ \A i \in 1..k : low[i] = list[i]
    BY <1>1, <1>3, <2>2
  <2>8. Len(high) = n - k /\ \A i \in 1..(n - k) : high[i] = list[k + i]
    BY <1>1, <1>3, <2>5, <2>6 DEF a
  <2> QED
    BY <2>2, <2>5, <2>7, <2>8
<1> HIDE DEF low, high
<1>7. /\ lower \in Seq(S) /\ Len(lower) = k + 1
      /\ \A i \in 1..k : lower[i] = list[i]
      /\ lower[k + 1] = r
  <2>1. <<r>> \in Seq(S) /\ Len(<<r>>) = 1 /\ <<r>>[1] = r
    OBVIOUS
  <2>2. /\ lower \in Seq(S) /\ Len(lower) = Len(low) + Len(<<r>>)
        /\ \A i \in 1..(Len(low) + Len(<<r>>)) :
             lower[i] = IF i <= Len(low) THEN low[i] ELSE <<r>>[i - Len(low)]
    BY <1>6, <2>1, ConcatProperties
  <2>3. lower[k + 1] = r
    BY <1>3, <1>6, <2>1, <2>2
  <2>4. \A i \in 1..k : lower[i] = list[i]
    BY <1>3, <1>6, <2>1, <2>2
  <2> QED
    BY <1>6, <2>1, <2>2, <2>3, <2>4
<1> HIDE DEF lower
<1>8. /\ t \in Seq(S) /\ Len(t) = n + 1
      /\ \A i \in 1..(k + 1) : t[i] = lower[i]
      /\ \A i \in 1..(n - k) : t[k + 1 + i] = list[k + i]
  <2>1. /\ t \in Seq(S) /\ Len(t) = Len(lower) + Len(high)
        /\ \A i \in 1..(Len(lower) + Len(high)) :
             t[i] = IF i <= Len(lower) THEN lower[i] ELSE high[i - Len(lower)]
    BY <1>6, <1>7, ConcatProperties
  <2>2. \A i \in 1..(k + 1) : i \in 1..((k + 1) + (n - k)) /\ i <= k + 1
    BY <1>1, <1>3
  <2>3. \A i \in 1..(n - k) : /\ k + 1 + i \in 1..((k + 1) + (n - k)) /\ ~(k + 1 + i <= k + 1)
                              /\ (k + 1 + i) - (k + 1) = i
    BY <1>1, <1>3
  <2>4. (k + 1) + (n - k) = n + 1
    BY <1>1, <1>3
  <2>5. Len(t) = n + 1
    BY <1>6, <1>7, <2>1, <2>4
  <2>6. \A i \in 1..(k + 1) : t[i] = lower[i]
    BY <1>6, <1>7, <2>1, <2>2
  <2>7. ASSUME NEW i \in 1..(n - k) PROVE t[k + 1 + i] = list[k + i]
    <3>1. t[k + 1 + i] = high[(k + 1 + i) - (k + 1)]
      BY <1>6, <1>7, <2>1, <2>3
    <3> QED
      BY <1>6, <2>3, <3>1
  <2> QED
    BY <2>1, <2>5, <2>6, <2>7
<1> HIDE DEF t
<1>9. DOMAIN t = 1..(n + 1)
  BY <1>8, LenProperties
<1>10. r \in ToSet(t)
  <2>1. k + 1 \in 1..(n + 1) /\ t[k + 1] = r
    BY <1>1, <1>3, <1>7, <1>8
  <2> QED
    BY <1>9, <2>1 DEF ToSet
<1>11. ASSUME NEW q \in ToSet(list) PROVE q \in ToSet(t)
  <2>1. PICK i \in 1..n : list[i] = q
    BY Members DEF n
  <2>2. CASE i <= k
    <3>1. i \in 1..(n + 1) /\ t[i] = q
      BY <1>1, <1>3, <1>7, <1>8, <2>1, <2>2
    <3> QED
      BY <1>9, <3>1 DEF ToSet
  <2>3. CASE i > k
    <3>1. i - k \in 1..(n - k) /\ k + (i - k) = i /\ k + 1 + (i - k) = i + 1 /\ i + 1 \in 1..(n + 1)
      BY <1>1, <1>3, <2>3
    <3>2. t[i + 1] = q
      BY <1>8, <2>1, <3>1
    <3> QED
      BY <1>9, <3>1, <3>2 DEF ToSet
  <2> QED
    BY <1>1, <1>3, <2>2, <2>3
<1> QED
  BY <1>5, <1>8, <1>10, <1>11

\* A range is committed around a region that is not seen.
LEMMA UnseenBreaks ==
  ASSUME NEW list \in CommLists, NEW from \in Int, NEW to \in Int, from < to,
         NEW stack \in Stacks, UnseenIn(list, from, to)
  PROVE  ~InOrder(AddCommitted(list, from, to, stack).list)
<1> DEFINE n == Len(list)
           p == Preceding(list, from)
           next == list[p + 1]
           c == CommittedRegion(from, to, stack)
<1>1. list \in Sorted(CommSet) /\ list \in Seq(CommSet)
  BY DEF CommLists, Sorted
<1>2. n \in Nat /\ DOMAIN list = 1..n /\ \A i \in 1..n : list[i] \in CommSet /\ list[i] \in ToSet(list)
  BY <1>1, Members
<1>3. p \in 0..n /\ \A j \in 1..p : list[j].end <= from
  BY <1>1, PrecedingSplits
<1>4. p + 1 \in 1..n /\ p < n /\ from < next.base /\ next.end < to
  BY <1>2, <1>3 DEF UnseenIn
<1> HIDE DEF p, n
<1>5. next \in CommSet /\ next.base \in Int /\ next.end \in Int /\ next.base < next.end
  BY <1>2, <1>4 DEF CommSet
<1>6. ~OverlapRegion(next, from, to) /\ next # c /\ c.base = from /\ c.end = to
  BY <1>4, <1>5 DEF OverlapRegion, ContainAddress, CommittedRegion
<1>7. AddCommitted(list, from, to, stack).list = Join(list, p, from, to, stack)
  BY <1>6 DEF AddCommitted, p, n
<1>8. ~Mergeable(list, p + 1, from, to, stack)
  BY <1>4, <1>5 DEF Mergeable, AdjacentTo
<1>9. CASE Mergeable(list, p, from, to, stack)
  <2> DEFINE r == list[p]
             g == [r EXCEPT !.end = to]
             grown == [list EXCEPT ![p] = g]
  <2>1. p \in 1..n /\ r \in CommSet
    BY <1>2, <1>9 DEF Mergeable
  <2>2. r.base \in Int /\ r.end \in Int /\ r.base < r.end /\ r.end = from
    BY <1>2, <1>3, <1>9, <2>1 DEF Mergeable, AdjacentTo, CommSet
  <2>3. ExpandRegion(r, from, to) = g
    BY <2>2 DEF ExpandRegion
  <2>4. g.base = r.base /\ g.end = to /\ g \in CommSet
    BY <2>1, <2>2 DEF CommSet
  <2>5. grown = [list EXCEPT ![p] = ExpandRegion(@, from, to)]
    BY <2>3
  <2>6. DOMAIN grown = 1..n /\ grown[p] = g /\ grown[p + 1] = next
    BY <1>2, <1>3, <1>4, <2>1
  <2> HIDE DEF g, grown, next
  <2>7. ~Mergeable(grown, p, next.base, next.end, next.stack)
    BY <1>4, <1>5, <2>2, <2>4, <2>6 DEF Mergeable, AdjacentTo
  <2>8. Join(list, p, from, to, stack) = grown
    BY <1>9, <2>5, <2>7 DEF Join, next
  <2>9. ~InOrder(grown)
    <3>1. p \in DOMAIN grown /\ p + 1 \in DOMAIN grown /\ p < p + 1
      BY <1>2, <1>4, <2>1, <2>6
    <3>2. ~(grown[p].end <= grown[p + 1].base)
      BY <1>4, <1>5, <2>4, <2>6
    <3> QED
      BY <3>1, <3>2 DEF InOrder
  <2> QED
    BY <1>7, <2>8, <2>9
<1>10. CASE ~Mergeable(list, p, from, to, stack)
  <2>1. Join(list, p, from, to, stack) = SortedAdd(list, c)
    BY <1>8, <1>10 DEF Join
  <2>2. c \in CommSet
    BY DEF CommSet, CommittedRegion
  <2> HIDE DEF c
  <2>3. /\ SortedAdd(list, c) \in Seq(CommSet)
        /\ next \in ToSet(SortedAdd(list, c)) /\ c \in ToSet(SortedAdd(list, c))
    BY <1>1, <1>2, <1>4, <2>2, SortedAddMembers
  <2>4. ~Beside(next, c)
    BY <1>4, <1>5, <1>6 DEF Beside
  <2> QED
    BY <1>6, <1>7, <2>1, <2>3, <2>4, NotInOrder
<1> QED
  BY <1>9, <1>10

\* The list of the region is not sound any more.
LEMMA AddCommittedRegionBreaks ==
  ASSUME TrackerInv, NumWords \in Nat, NEW from, NEW to, Ranged(from, to),
         NEW stack \in Stacks, AddCommittedRegion(from, to, stack), Unseen(from, to)
  PROVE  ~RegionsSound'
<1>1. PICK i, r, list, t : /\ i = Find(from, to) /\ r = regions[i] /\ list = r.committed
                           /\ t = AddCommitted(list, from, to, stack).list
  OBVIOUS
<1>2. i \in 1..Len(regions) /\ r \in RegSet /\ from \in Int /\ to \in Int /\ from < to
  BY <1>1, InsideRegion DEF AddCommittedRegion, Ranged
<1>3. list \in CommLists
  BY <1>1, <1>2, RegionBounds
<1>4. UnseenIn(list, from, to)
  BY <1>1 DEF Unseen, UnseenIn
<1>5. ~InOrder(t)
  BY <1>1, <1>2, <1>3, <1>4, UnseenBreaks
<1>6. regions' = [regions EXCEPT ![i] = [r EXCEPT !.committed = t]]
  BY <1>1 DEF AddCommittedRegion
<1>7. i \in DOMAIN regions' /\ regions'[i].committed = t
  <2>1. i \in DOMAIN regions
    BY <1>2, Members DEF TrackerInv, Sorted
  <2>2. [r EXCEPT !.committed = t].committed = t
    BY <1>2, RegionForms, RegionMade
  <2> QED
    BY <1>6, <2>1, <2>2
<1> QED
  BY <1>5, <1>7, SoundSays

\* Exact sums are numbers of words, before a step and after it.
LEMMA SoundCounts ==
  /\ regions \in Sorted(RegSet) /\ SummaryExact =>
       \A flag \in Flags : summary.committed[flag] = Cardinality(Used(ToSet(regions), flag))
  /\ regions' \in Sorted(RegSet) /\ SummaryExact' =>
       \A flag \in Flags : summary'.committed[flag] = Cardinality(Used(ToSet(regions'), flag))
<1> DEFINE Counts ==
      regions \in Sorted(RegSet) /\ SummaryExact =>
        \A flag \in Flags : summary.committed[flag] = Cardinality(Used(ToSet(regions), flag))
<1>1. Counts
  <2> SUFFICES ASSUME regions \in Sorted(RegSet), SummaryExact, NEW flag \in Flags,
                      NEW tagged, tagged = {i \in DOMAIN regions : regions[i].flag = flag}
               PROVE  summary.committed[flag] = Cardinality(Used(ToSet(regions), flag))
    OBVIOUS
  <2>1. MapThenSumSet(LAMBDA i : CommittedSize(regions[i].committed), tagged)
        = Cardinality(Used(ToSet(regions), flag))
    BY SumsCount
  <2>2. summary.committed[flag] = MapThenSumSet(LAMBDA i : CommittedSize(regions[i].committed), tagged)
    BY DEF SummaryExact
  <2> QED
    BY <2>1, <2>2
<1>2. Counts'
  BY <1>1, PTL
<1> QED
  BY <1>1, <1>2

\* What was committed in a lost stack is not counted but still in its list.
LEMMA OverwriteMiscounts ==
  ASSUME TrackerInv, NumWords \in Nat, NEW from, NEW to, Ranged(from, to), NEW flag \in Flags,
         NEW i \in 1..Len(regions), NEW r, r = regions[i],
         r.committed # <<>>, Overlapping(from, to) = {r}, Overwrite(i, from, to, flag)
  PROVE  ~RegionsSound'
<1> SUFFICES ASSUME RegionsSound' PROVE FALSE
  OBVIOUS
<1> DEFINE q == Region(from, to, flag, r.committed)
           R == ToSet(regions)
           T == ToSet(regions')
           C == CommittedSize(r.committed)
<1>1. regions \in Sorted(RegSet) /\ r \in RegSet /\ Tidy(R) /\ DOMAIN regions = 1..Len(regions)
  BY Members, RegionsTidy DEF TrackerInv, Sorted
<1>2. /\ r.base \in Int /\ r.end \in Int /\ r.flag \in Flags /\ r.committed \in CommLists
      /\ \A c \in ToSet(r.committed) : c.base \in Int /\ c.end \in Int /\ c.base < c.end
      /\ from \in Int /\ to \in Int /\ from < to /\ 0 <= from /\ to <= NumWords
  BY <1>1, RegionBounds DEF Ranged
<1>3. regions' = Replaced(regions, i, q)
  BY DEF Overwrite, Replaced
<1>4. /\ q.base = from /\ q.end = to /\ q.flag = flag /\ q.committed = r.committed
      /\ Within(q) = from..(to - 1) /\ Size(q) = to - from
  BY RegionMade
<1>5. q \in RegSet
  <2>1. i \in DOMAIN regions' /\ regions'[i] = q
    BY <1>1, <1>3 DEF Replaced
  <2>2. \A j \in DOMAIN r.committed : ContainRegion(q, r.committed[j].base, r.committed[j].end)
    BY <1>4, <2>1, SoundSays
  <2>3. \A c \in ToSet(r.committed) : ContainRegion(q, c.base, c.end)
    BY <2>2 DEF ToSet
  <2>4. \A c \in ToSet(r.committed) : from <= c.base /\ c.end <= to
    BY <1>2, <1>4, <2>3 DEF ContainRegion, ContainAddress
  <2> QED
    BY <1>2, <2>4, RegionFits
<1> HIDE DEF q
<1>6. ~Beside(r, q)
  <2>1. r.base < to /\ from < r.end
    BY DEF Overlapping
  <2> QED
    BY <1>2, <1>4, <2>1 DEF Beside
<1>7. ASSUME NEW s \in R, s # r PROVE Beside(s, q)
  <2>1. ~(s.base < to /\ from < s.end)
    BY <1>7 DEF Overlapping
  <2>2. s.base \in Int /\ s.end \in Int
    BY <1>1, RegionBounds DEF Tidy
  <2> QED
    BY <1>2, <1>4, <2>1, <2>2 DEF Beside
<1>8. regions' \in Sorted(RegSet) /\ Swaps(R, r, q, T)
  BY <1>1, <1>3, <1>5, <1>6, <1>7, PlaceRegion
<1>9. C \in Nat /\ C # 0
  <2>1. /\ Cardinality(Covered(ToSet(r.committed))) = C /\ C \in Nat
        /\ IsFiniteSet(Covered(ToSet(r.committed)))
    BY <1>1, CommittedWithin
  <2>2. r.committed \in Seq(CommSet) /\ Len(r.committed) \in Nat /\ Len(r.committed) # 0
    <3>1. r.committed \in Seq(CommSet)
      BY <1>2 DEF CommLists, Sorted
    <3> QED
      BY <3>1, EmptySeq
  <2>3. PICK c \in ToSet(r.committed) : c = r.committed[1]
    BY <2>2, Members
  <2>4. c.base \in Within(c)
    BY <1>2 DEF Within
  <2>5. Covered(ToSet(r.committed)) # {}
    BY <2>4 DEF Covered
  <2> QED
    BY <2>1, <2>5, FS_EmptySet
<1>10. summary'.committed[flag] = summary.committed[flag] - (IF r.flag = flag THEN C ELSE 0)
  <2>1. summary'.committed = [summary.committed EXCEPT ![r.flag] = @ - C]
    BY DEF Overwrite
  <2> QED
    BY <1>9, <2>1, SummaryWas
<1>11. summary'.committed[flag] = Cardinality(Used(T, flag))
  BY <1>8, SoundCounts, SoundSays
<1>12. Cardinality(Used(T, flag)) = Cardinality(Used(R, flag)) - (IF r.flag = flag THEN C ELSE 0) + C
  BY <1>4, <1>8 DEF Swaps
<1>13. summary.committed[flag] = Cardinality(Used(R, flag)) /\ summary.committed[flag] \in Nat
  BY SummaryWas
<1> QED
  BY <1>9, <1>10, <1>11, <1>12, <1>13

\* Memory is reserved where more of lost stacks is than the tracker looks at.
LEMMA AddReservedRegionBreaks ==
  ASSUME TrackerInv, NumWords \in Nat, NEW from, NEW to, Ranged(from, to), NEW flag \in Flags,
         AddReservedRegion(from, to, flag), LostStack(from, to)
  PROVE  ~RegionsSound'
<1> DEFINE i == Find(from, to)
           S == [base : Int, end : Int, flag : Flags, committed : CommLists]
<1>1. regions \in Sorted(RegSet) /\ regions \in Seq(RegSet) /\ Tidy(ToSet(regions))
  BY RegionsTidy DEF TrackerInv, Sorted
<1>2. from \in Int /\ to \in Int /\ from < to
  BY DEF Ranged
<1>3. PICK s \in Overlapping(from, to) :
        ~SameRegion(s, from, to) /\ (s.committed # <<>> \/ i = 0 \/ s # regions[i])
  BY DEF LostStack
<1>4. /\ s \in ToSet(regions) /\ s \in RegSet /\ s.base < to /\ from < s.end
      /\ s.base \in Int /\ s.end \in Int
  BY <1>1, <1>3, RegionBounds DEF Overlapping, Tidy
<1>5. RegSet \subseteq S
  BY DEF RegSet
<1>6. ASSUME NEW q, q.base = from, q.end = to PROVE s # q /\ ~Beside(s, q)
  BY <1>2, <1>3, <1>4, <1>6 DEF SameRegion, Beside
<1>7. CASE i = 0 /\ AddReserved(from, to, flag)
  <2> DEFINE q == Region(from, to, flag, <<>>)
  <2>1. q \in S /\ q.base = from /\ q.end = to
    BY <1>2, NothingCommitted DEF Region
  <2>2. regions' = SortedAdd(regions, q)
    BY <1>7 DEF AddReserved
  <2> HIDE DEF q, S
  <2>3. regions \in Seq(S)
    BY <1>1, <1>5, SeqMonotonic
  <2>4. regions' \in Seq(S) /\ s \in ToSet(regions') /\ q \in ToSet(regions')
    BY <1>4, <2>1, <2>2, <2>3, SortedAddMembers
  <2>5. ~InOrder(regions')
    BY <1>6, <2>1, <2>4, NotInOrder
  <2> QED
    BY <2>5, SoundSays
<1>8. CASE i # 0 /\ SameRegion(regions[i], from, to) /\ Retag(i, flag)
  <2>1. i \in 1..Len(regions) /\ regions[i] \in Overlapping(from, to)
    BY <1>1, <1>2, <1>8, FoundOverlaps
  <2>2. s # regions[i] /\ ~Beside(s, regions[i])
    BY <1>6, <1>8 DEF SameRegion
  <2>3. regions[i] \in ToSet(regions)
    BY <2>1 DEF Overlapping
  <2> QED
    BY <1>1, <1>4, <2>2, <2>3 DEF Tidy
<1>9. CASE i # 0 /\ ~SameRegion(regions[i], from, to) /\ Overwrite(i, from, to, flag)
  <2> DEFINE r == regions[i]
             q == Region(from, to, flag, r.committed)
  <2>1. i \in 1..Len(regions) /\ r \in Overlapping(from, to)
    BY <1>1, <1>2, <1>9, FoundOverlaps
  <2>2. CASE Overlapping(from, to) = {r}
    <3>1. r.committed # <<>>
      BY <1>3, <1>9, <2>2
    <3>2. Overwrite(i, from, to, flag)
      BY <1>9
    <3> HIDE DEF i
    <3> QED
      BY <2>1, <2>2, <3>1, <3>2, OverwriteMiscounts
  <2>3. CASE Overlapping(from, to) # {r}
    <3>1. PICK u \in Overlapping(from, to) : u # r
      BY <2>1, <2>3
    <3>2. /\ u \in ToSet(regions) /\ u \in RegSet /\ u.base < to /\ from < u.end
          /\ u.base \in Int /\ u.end \in Int
      BY <1>1, <3>1, RegionBounds DEF Overlapping, Tidy
    <3>3. PICK j \in 1..Len(regions) : regions[j] = u
      BY <1>1, <3>2, Members
    <3>4. r \in RegSet /\ r.committed \in CommLists /\ DOMAIN regions = 1..Len(regions)
      BY <1>1, <2>1, Members, RegionBounds
    <3>5. q \in S /\ q.base = from /\ q.end = to
      BY <1>2, <3>4 DEF Region
    <3>6. regions' = [regions EXCEPT ![i] = q]
      BY <1>9 DEF Overwrite
    <3>7. regions'[i] = q /\ regions'[j] = u /\ i \in DOMAIN regions' /\ j \in DOMAIN regions' /\ i # j
      BY <2>1, <3>1, <3>3, <3>4, <3>6
    <3> HIDE DEF q, i
    <3>8. i \in Int /\ j \in Int /\ (i < j \/ j < i)
      BY <2>1, <3>7
    <3>9. ~InOrder(regions')
      BY <1>2, <3>2, <3>5, <3>7, <3>8 DEF InOrder
    <3> QED
      BY <3>9, SoundSays
  <2> QED
    BY <2>2, <2>3
<1> QED
  BY <1>7, <1>8, <1>9 DEF AddReservedRegion

\* Of the committed regions behind a range that is released, the lower part of
\* the region keeps all but the first.
LEMMA RemoveReleasedRegionBreaks ==
  ASSUME TrackerInv, NumWords \in Nat, NEW from, NEW to, Ranged(from, to),
         RemoveReleasedRegion(from, to), TwiceLinked(from, to)
  PROVE  ~RegionsSound'
<1> SUFFICES ASSUME RegionsSound' PROVE FALSE
  OBVIOUS
<1>1. PICK i, r, t, moved : /\ i = Find(from, to) /\ r = regions[i] /\ t = Uncommitted(i, from, to)
                            /\ moved = MovedUp(t, from)
  OBVIOUS
<1>2. /\ i \in 1..Len(regions) /\ r \in RegSet /\ from \in Int /\ to \in Int /\ from < to
  BY <1>1, InsideRegion DEF RemoveReleasedRegion, Ranged
<1>3. /\ r.flag # "mtClassShared" /\ r.base < from /\ to < r.end
      /\ Len(moved.low) + Len(moved.high) > Len(t)
  BY <1>1 DEF TwiceLinked
<1>4. /\ r.base \in Int /\ r.end \in Int /\ r.committed \in CommLists
      /\ regions \in Seq(RegSet) /\ DOMAIN regions = 1..Len(regions)
  BY <1>2, RegionBounds, Members DEF TrackerInv, Sorted
<1> DEFINE low == Region(r.base, from, r.flag, moved.low)
           high == Region(to, r.end, r.flag, moved.high)
           n == Len(t)
           k == Max({j \in 0..n : \A m \in 1..j : t[m].base < from})
<1>5. regions' = SortedAdd([regions EXCEPT ![i] = low], high)
  <2>1. regions' = Shrunk(i, from, to)
    BY <1>1, <1>3 DEF RemoveReleasedRegion
  <2>2. [regions[i] EXCEPT !.committed = t] = Region(r.base, r.end, r.flag, t)
    <3>1. [r EXCEPT !.committed = t] = Region(r.base, r.end, r.flag, t)
      BY <1>2, RegionForms
    <3>2. r = regions[i]
      BY <1>1
    <3> QED
      BY <3>1, <3>2
  <2>3. Shrunk(i, from, to) = ShrunkFrom([regions[i] EXCEPT !.committed = t], i, from, to)
    BY <1>1 DEF Shrunk, ShrunkFrom
  <2>4. PICK q : q = Region(r.base, r.end, r.flag, t)
    OBVIOUS
  <2>5. q.base = r.base /\ q.end = r.end /\ q.flag = r.flag /\ q.committed = t
    BY <2>4, RegionMade
  <2>6. ~SameRegion(q, from, to) /\ q.base # from /\ q.end # to
    BY <1>2, <1>3, <1>4, <2>5 DEF SameRegion
  <2>7. ShrunkFrom(q, i, from, to) = SortedAdd([regions EXCEPT ![i] = low], high)
    BY <1>1, <2>5, <2>6 DEF ShrunkFrom
  <2> QED
    BY <2>1, <2>2, <2>3, <2>4, <2>7
<1>6. t \in Sorted(CommSet) /\ t \in Seq(CommSet) /\ InOrder(t)
  <2>1. Uncommits(r.committed, from, to, t)
    BY <1>1, <1>2, <1>4, RemoveUncommits DEF Uncommitted
  <2> QED
    BY <2>1 DEF Uncommits, CommLists, Sorted
<1>7. n \in Nat /\ DOMAIN t = 1..n /\ \A j \in 1..n : t[j] \in CommSet
  BY <1>6, Members
<1>8. /\ moved.high = SubSeq(t, k + 1, n)
      /\ moved.low = IF k = 0 \/ k = n THEN SubSeq(t, 1, k)
                     ELSE SubSeq(t, 1, k) \o SubSeq(t, k + 2, n)
  BY <1>1 DEF MovedUp
<1>9. k \in 0..n /\ (k < n => ~(t[k + 1].base < from))
  <2> DEFINE Good == {j \in 1..n : t[j].base < from}
  <2>1. {j \in 0..n : \A m \in 1..j : t[m].base < from} = {j \in 0..n : \A m \in 1..j : m \in Good}
    <3>1. \A j \in 0..n : \A m \in 1..j : m \in 1..n
      BY <1>7
    <3> QED
      BY <3>1
  <2> HIDE DEF Good
  <2>2. k \in 0..n /\ (k < n => k + 1 \notin Good)
    BY <1>7, <2>1, LastOfFirst
  <2>3. k < n => k + 1 \in 1..n
    BY <1>7, <2>2
  <2> QED
    BY <2>2, <2>3 DEF Good
<1> HIDE DEF k
<1>10. /\ SubSeq(t, 1, k) \in Sorted(CommSet) /\ Len(SubSeq(t, 1, k)) = k
       /\ Len(SubSeq(t, k + 1, n)) = n - k
  BY <1>6, <1>9, PartsSorted
<1>11. k # 0 /\ k # n
  <2>1. ASSUME k = 0 \/ k = n PROVE FALSE
    <3>1. Len(moved.low) = k /\ Len(moved.high) = n - k
      BY <1>8, <1>10, <2>1
    <3>2. k + (n - k) > n
      BY <1>3, <3>1
    <3>3. n \in Int /\ k \in Int
      BY <1>7, <1>9
    <3> HIDE DEF n
    <3> QED
      BY <3>2, <3>3
  <2> QED
    BY <2>1
<1> DEFINE a == k + 2
           rest == SubSeq(t, a, n)
<1>12. k \in Int /\ n \in Int /\ 1 <= k /\ k + 1 <= n /\ a \in 1..(n + 1) /\ n \in 0..n /\ a <= n + 1
  <2>1. n \in Nat /\ k \in 0..n
    BY <1>7, <1>9
  <2> HIDE DEF n
  <2> QED
    BY <1>11, <2>1
<1>13. moved.low = SubSeq(t, 1, k) \o rest
  BY <1>8, <1>11
<1>14. /\ rest \in Sorted(CommSet) /\ Len(rest) = n + 1 - a
       /\ \A j \in 1..(n + 1 - a) : rest[j] = t[a + j - 1]
  <2> HIDE DEF a
  <2>1. a \in 1..(Len(t) + 1) /\ Len(t) \in 0..Len(t) /\ a <= Len(t) + 1
    BY <1>12
  <2> QED
    BY <1>6, <2>1, CutSorted
<1> HIDE DEF n, rest, a
<1> DEFINE whole == SubSeq(t, 1, k) \o rest
<1>15. /\ whole \in Seq(CommSet) /\ Len(whole) = k + (n + 1 - a)
       /\ \A j \in 1..(k + (n + 1 - a)) : whole[j] = IF j <= k THEN SubSeq(t, 1, k)[j] ELSE rest[j - k]
  <2>1. SubSeq(t, 1, k) \in Seq(CommSet) /\ rest \in Seq(CommSet)
    BY <1>10, <1>14 DEF Sorted
  <2> QED
    BY <1>10, <1>14, <2>1, ConcatProperties
<1> HIDE DEF whole
<1>16. n + 1 - a >= 1
  <2>1. Len(moved.low) = k + (n + 1 - a) /\ Len(moved.high) = n - k
    BY <1>8, <1>10, <1>13, <1>15 DEF n, whole
  <2> QED
    BY <1>3, <1>12, <2>1 DEF a, n
<1>17. k + 1 \in DOMAIN whole /\ whole[k + 1] = t[a]
  <2>1. DOMAIN whole = 1..(k + (n + 1 - a))
    BY <1>15, LenProperties
  <2>2. k + 1 \in 1..(k + (n + 1 - a)) /\ ~(k + 1 <= k) /\ (k + 1) - k = 1 /\ 1 \in 1..(n + 1 - a) /\ a + 1 - 1 = a
    BY <1>12, <1>16 DEF a
  <2> QED
    BY <1>14, <1>15, <2>1, <2>2
<1>18. t[a].base > from /\ t[a].base \in Int /\ t[a].end \in Int
  <2>1. k + 1 \in 1..n /\ a \in 1..n /\ k + 1 < a /\ k < n
    BY <1>12, <1>16 DEF a
  <2>2. t[k + 1].end <= t[a].base /\ ~(t[k + 1].base < from)
    BY <1>6, <1>7, <1>9, <2>1 DEF InOrder, n
  <2> QED
    BY <1>2, <1>7, <2>1, <2>2 DEF CommSet, n
<1>19. low \in ToSet(regions')
  <2> DEFINE S == RegSet \cup {low, high}
             list == [regions EXCEPT ![i] = low]
  <2>1. regions \in Seq(S) /\ low \in S /\ high \in S
    BY <1>4, SeqMonotonic
  <2> HIDE DEF S, low, high
  <2>2. list \in Seq(S) /\ list[i] = low /\ Len(list) = Len(regions)
    BY <1>2, <2>1, ExceptSeq
  <2> HIDE DEF list
  <2>3. low \in ToSet(list)
    BY <1>2, <2>2, Members
  <2>4. regions' = SortedAdd(list, high)
    BY <1>5 DEF list
  <2> QED
    BY <2>1, <2>2, <2>3, <2>4, SortedAddMembers
<1>20. low.base = r.base /\ low.end = from /\ low.committed = whole
  <2>1. moved.low = whole
    BY <1>13 DEF whole
  <2> QED
    BY <2>1, RegionMade
<1> HIDE DEF low
<1>21. ContainRegion(low, t[a].base, t[a].end)
  <2>1. PICK j \in DOMAIN regions' : regions'[j] = low
    BY <1>19 DEF ToSet
  <2> QED
    BY <1>17, <1>20, <2>1, SoundSays
<1>22. t[a].base \in r.base..(from - 1)
  BY <1>20, <1>21 DEF ContainRegion, ContainAddress
<1> QED
  BY <1>2, <1>4, <1>18, <1>22

-----------------------------------------------------------------------------
(* The theorems.                                                           *)

\* The inductive invariant is what RegionsSound promises, after a step, too.
LEMMA InvSoundNext == TrackerInv' => RegionsSound'
<1>1. TrackerInv => RegionsSound
  BY InvSound
<1> QED
  BY <1>1, PTL

\* While there are lists, and they are sound, the inductive invariant holds.
SoundInv == tracking /\ RegionsSound => TrackerInv

\* A call.
Call ==
  \/ \E from \in 0..(NumWords - 1), to \in 1..NumWords :
       /\ from < to
       /\ \/ \E flag \in Flags : AddReservedRegion(from, to, flag)
          \/ \E stack \in Stacks : AddCommittedRegion(from, to, stack)
          \/ RemoveUncommittedRegion(from, to)
          \/ RemoveReleasedRegion(from, to)
  \/ \E w \in 0..(NumWords - 1), flag \in Flags : SetReservedRegionType(w, flag)
  \/ \E i \in DOMAIN regions, w \in 0..NumWords : SplitReservedRegion(i, w)

\* A call as SoundUnlessOverlooked sees it, with a range of words.
SoundCall(from, to) ==
  \/ /\ \E flag \in Flags : AddReservedRegion(from, to, flag)
     /\ RegionsSound' <=> ~LostStack(from, to)
  \/ /\ \E stack \in Stacks : AddCommittedRegion(from, to, stack)
     /\ RegionsSound' <=> ~Unseen(from, to)
  \/ /\ RemoveReleasedRegion(from, to)
     /\ RegionsSound' <=> ~TwiceLinked(from, to)
  \/ /\ \/ RemoveUncommittedRegion(from, to)
        \/ \E flag \in Flags : SetReservedRegionType(from, flag)
        \/ \E i \in DOMAIN regions : SplitReservedRegion(i, to)
     /\ RegionsSound'

\* A call as ImplementsMemory sees it.
MemoryCall(from, to) ==
  \/ \E flag \in Flags :
       /\ AddReservedRegion(from, to, flag)
       /\ \/ LostStack(from, to)
          \/ Memory!Reserve(from, to, flag)
          \/ Memory!Replace(from, to, flag)
  \/ \E stack \in Stacks :
       /\ AddCommittedRegion(from, to, stack)
       /\ Unseen(from, to) \/ Memory!CommitRange(from, to, stack)
  \/ /\ RemoveReleasedRegion(from, to)
     /\ TwiceLinked(from, to) \/ Memory!Release(from, to)
  \/ RemoveUncommittedRegion(from, to) /\ Memory!UncommitRange(from, to)
  \/ \E flag \in Flags : SetReservedRegionType(from, flag) /\ Memory!Retag(from, flag)
  \/ \E i \in DOMAIN regions : SplitReservedRegion(i, to) /\ Memory!Split

\* The steps the properties allow.
SoundStep ==
  \/ Transition
  \/ \E from \in Places, to \in 1..NumWords :
       /\ from < to
       /\ \/ /\ \E flag \in Flags : AddReservedRegion(from, to, flag)
             /\ RegionsSound' <=> ~LostStack(from, to)
          \/ /\ \E stack \in Stacks : AddCommittedRegion(from, to, stack)
             /\ RegionsSound' <=> ~Unseen(from, to)
          \/ /\ RemoveReleasedRegion(from, to)
             /\ RegionsSound' <=> ~TwiceLinked(from, to)
          \/ /\ \/ RemoveUncommittedRegion(from, to)
                \/ \E flag \in Flags : SetReservedRegionType(from, flag)
                \/ \E i \in DOMAIN regions : SplitReservedRegion(i, to)
             /\ RegionsSound'

MemoryStep ==
  \/ Transition
  \/ \E from \in Places, to \in 1..NumWords :
       /\ from < to
       /\ \/ \E flag \in Flags :
               /\ AddReservedRegion(from, to, flag)
               /\ \/ LostStack(from, to)
                  \/ Memory!Reserve(from, to, flag)
                  \/ Memory!Replace(from, to, flag)
          \/ \E stack \in Stacks :
               /\ AddCommittedRegion(from, to, stack)
               /\ Unseen(from, to) \/ Memory!CommitRange(from, to, stack)
          \/ /\ RemoveReleasedRegion(from, to)
             /\ TwiceLinked(from, to) \/ Memory!Release(from, to)
          \/ RemoveUncommittedRegion(from, to) /\ Memory!UncommitRange(from, to)
          \/ \E flag \in Flags : SetReservedRegionType(from, flag) /\ Memory!Retag(from, flag)
          \/ \E i \in DOMAIN regions : SplitReservedRegion(i, to) /\ Memory!Split

\* Every call on sound lists does what the properties say of it, and where it
\* leaves the lists sound the invariant holds again.
LEMMA CallSteps ==
  ASSUME TrackerAssumption, TrackerInv, Call
  PROVE  SoundStep /\ MemoryStep /\ (RegionsSound' => TrackerInv')
<1>1. NumWords \in Nat /\ NumWords # 0 /\ FlagsNameSomeone
  BY DEF TrackerAssumption, FlagsNameSomeone
<1>2. ASSUME NEW from \in 0..(NumWords - 1), NEW to \in 1..NumWords, from < to,
             SoundCall(from, to), MemoryCall(from, to)
      PROVE  SoundStep /\ MemoryStep
  <2>1. from \in Places
    BY DEF Places
  <2>2. SoundStep
    BY <1>2, <2>1 DEF SoundStep, SoundCall
  <2>3. MemoryStep
    BY <1>2, <2>1 DEF MemoryStep, MemoryCall
  <2> QED
    BY <2>2, <2>3
<1>3. ASSUME NEW from \in 0..(NumWords - 1), NEW to \in 1..NumWords, from < to
      PROVE  Ranged(from, to)
  BY <1>3 DEF Ranged
<1>4. ASSUME NEW from \in 0..(NumWords - 1), NEW to \in 1..NumWords, from < to,
             NEW flag \in Flags, AddReservedRegion(from, to, flag)
      PROVE  SoundStep /\ MemoryStep /\ (RegionsSound' => TrackerInv')
  <2>1. ~LostStack(from, to) => TrackerInv' /\ (Memory!Reserve(from, to, flag) \/ Memory!Replace(from, to, flag))
    BY <1>1, <1>3, <1>4, AddReservedRegionStep
  <2>2. LostStack(from, to) => ~RegionsSound'
    BY <1>1, <1>3, <1>4, AddReservedRegionBreaks
  <2>3. SoundCall(from, to)
    BY <1>4, <2>1, <2>2, InvSoundNext DEF SoundCall
  <2>4. MemoryCall(from, to)
    BY <1>4, <2>1 DEF MemoryCall
  <2> QED
    BY <1>2, <1>4, <2>1, <2>2, <2>3, <2>4
<1>5. ASSUME NEW from \in 0..(NumWords - 1), NEW to \in 1..NumWords, from < to,
             NEW stack \in Stacks, AddCommittedRegion(from, to, stack)
      PROVE  SoundStep /\ MemoryStep /\ (RegionsSound' => TrackerInv')
  <2>1. ~Unseen(from, to) => TrackerInv' /\ Memory!CommitRange(from, to, stack)
    BY <1>1, <1>3, <1>5, AddCommittedRegionStep
  <2>2. Unseen(from, to) => ~RegionsSound'
    BY <1>1, <1>3, <1>5, AddCommittedRegionBreaks
  <2>3. SoundCall(from, to)
    BY <1>5, <2>1, <2>2, InvSoundNext DEF SoundCall
  <2>4. MemoryCall(from, to)
    BY <1>5, <2>1 DEF MemoryCall
  <2> QED
    BY <1>2, <1>5, <2>1, <2>2, <2>3, <2>4
<1>6. ASSUME NEW from \in 0..(NumWords - 1), NEW to \in 1..NumWords, from < to,
             RemoveUncommittedRegion(from, to)
      PROVE  SoundStep /\ MemoryStep /\ (RegionsSound' => TrackerInv')
  <2>1. TrackerInv' /\ Memory!UncommitRange(from, to)
    BY <1>1, <1>3, <1>6, RemoveUncommittedRegionStep
  <2>2. SoundCall(from, to)
    BY <1>6, <2>1, InvSoundNext DEF SoundCall
  <2>3. MemoryCall(from, to)
    BY <1>6, <2>1 DEF MemoryCall
  <2> QED
    BY <1>2, <1>6, <2>1, <2>2, <2>3
<1>7. ASSUME NEW from \in 0..(NumWords - 1), NEW to \in 1..NumWords, from < to,
             RemoveReleasedRegion(from, to)
      PROVE  SoundStep /\ MemoryStep /\ (RegionsSound' => TrackerInv')
  <2>1. ~TwiceLinked(from, to) => TrackerInv' /\ Memory!Release(from, to)
    BY <1>1, <1>3, <1>7, RemoveReleasedRegionStep
  <2>2. TwiceLinked(from, to) => ~RegionsSound'
    BY <1>1, <1>3, <1>7, RemoveReleasedRegionBreaks
  <2>3. SoundCall(from, to)
    BY <1>7, <2>1, <2>2, InvSoundNext DEF SoundCall
  <2>4. MemoryCall(from, to)
    BY <1>7, <2>1 DEF MemoryCall
  <2> QED
    BY <1>2, <1>7, <2>1, <2>2, <2>3, <2>4
<1>8. ASSUME NEW w \in 0..(NumWords - 1), NEW flag \in Flags, SetReservedRegionType(w, flag)
      PROVE  SoundStep /\ MemoryStep /\ (RegionsSound' => TrackerInv')
  <2>1. TrackerInv' /\ Memory!Retag(w, flag)
    BY <1>1, <1>8, SetReservedRegionTypeStep
  <2>2. w + 1 \in 1..NumWords /\ w < w + 1
    BY <1>1
  <2>3. SoundCall(w, w + 1)
    BY <1>8, <2>1, InvSoundNext DEF SoundCall
  <2>4. MemoryCall(w, w + 1)
    BY <1>8, <2>1 DEF MemoryCall
  <2> QED
    BY <1>2, <2>1, <2>2, <2>3, <2>4
<1>9. ASSUME NEW i \in DOMAIN regions, NEW w \in 0..NumWords, SplitReservedRegion(i, w)
      PROVE  SoundStep /\ MemoryStep /\ (RegionsSound' => TrackerInv')
  <2>1. i \in 1..Len(regions)
    BY Members DEF TrackerInv, Sorted
  <2>2. TrackerInv' /\ Memory!Split /\ 0 < w
    BY <1>1, <1>9, <2>1, SplitReservedRegionStep
  <2>3. 0 \in 0..(NumWords - 1) /\ w \in 1..NumWords
    BY <1>1, <2>2
  <2>4. SoundCall(0, w)
    BY <1>9, <2>2, InvSoundNext DEF SoundCall
  <2>5. MemoryCall(0, w)
    BY <1>9, <2>2 DEF MemoryCall
  <2> QED
    BY <1>2, <2>2, <2>3, <2>4, <2>5
<1> QED
  BY <1>4, <1>5, <1>6, <1>7, <1>8, <1>9 DEF Call

\* What RegionsSound says, of any lists and sums.
SoundLists(list, sums) ==
  LET sorted(l) == /\ \A i \in DOMAIN l : l[i].base < l[i].end
                   /\ \A i, j \in DOMAIN l : i < j => l[i].end <= l[j].base
  IN  /\ sorted(list)
      /\ \A i \in DOMAIN list :
           /\ sorted(list[i].committed)
           /\ \A j \in DOMAIN list[i].committed :
                ContainRegion(list[i], list[i].committed[j].base, list[i].committed[j].end)
           /\ \A j \in 2..Len(list[i].committed) :
                list[i].committed[j - 1].end = list[i].committed[j].base
                  => list[i].committed[j - 1].stack # list[i].committed[j].stack
      /\ \A flag \in Flags :
           LET tagged == {i \in DOMAIN list : list[i].flag = flag} IN
           /\ sums.reserved[flag]  = MapThenSumSet(LAMBDA i : Size(list[i]), tagged)
           /\ sums.committed[flag] = MapThenSumSet(LAMBDA i : CommittedSize(list[i].committed), tagged)
           /\ sums.committed[flag] \in 0..sums.reserved[flag]

\* Lists that stay as they are stay sound, or unsound.
LEMMA UnchangedSound == UNCHANGED <<regions, summary>> => (RegionsSound' <=> RegionsSound)
<1>1. RegionsSound <=> SoundLists(regions, summary)
  BY DEF RegionsSound, SummaryExact, SoundLists
<1>2. RegionsSound' <=> SoundLists(regions, summary)'
  BY <1>1, PTL
<1>3. UNCHANGED <<regions, summary>> => (SoundLists(regions, summary)' <=> SoundLists(regions, summary))
  OBVIOUS
<1> QED
  BY <1>1, <1>2, <1>3

\* Every step does what the properties say of it.
LEMMA NextSteps ==
  ASSUME TrackerAssumption, SoundInv, [TrackerNext]_tracker
  PROVE  SoundInv' /\ [SoundStep]_tracker /\ [MemoryStep]_tracker
<1>1. CASE tracking /\ RegionsSound /\ UNCHANGED tracking /\ Call
  BY <1>1, CallSteps DEF SoundInv
<1>2. CASE Transition
  BY <1>2 DEF SoundInv, SoundStep, MemoryStep, Transition
<1>3. CASE UNCHANGED tracker
  <2>1. RegionsSound' <=> RegionsSound
    BY <1>3, UnchangedSound DEF tracker
  <2> QED
    BY <1>3, <2>1 DEF SoundInv, TrackerInv, tracker
<1> QED
  BY <1>1, <1>2, <1>3 DEF TrackerNext, Call

\* The inductive invariant holds initially.
LEMMA SoundInvInit == TrackerInit => SoundInv
BY InitInv DEF SoundInv

\* Every call keeps the lists of regions sorted, joined and inside their bounds
\* and the sums exact, but for those that meet what the tracker does not look
\* at, and those never do.
THEOREM TrackerSound ==
  ASSUME TrackerAssumption
  PROVE  TrackerSpec => SoundUnlessOverlooked
<1>1. TrackerInit => SoundInv
  BY SoundInvInit
<1>2. SoundInv /\ [TrackerNext]_tracker => SoundInv' /\ [SoundStep]_tracker
  BY NextSteps
<1>3. TrackerSpec => [][SoundStep]_tracker
  BY <1>1, <1>2, PTL DEF TrackerSpec
<1>4. [][SoundStep]_tracker => SoundUnlessOverlooked
  BY DEF SoundUnlessOverlooked, SoundStep
<1> QED
  BY <1>3, <1>4

\* Each call changes what is known of the words it is about, and nothing else,
\* unless it meets what the tracker does not look at.
THEOREM TrackerKnowsMemory ==
  ASSUME TrackerAssumption
  PROVE  TrackerSpec => ImplementsMemory
<1>1. TrackerInit => SoundInv
  BY SoundInvInit
<1>2. SoundInv /\ [TrackerNext]_tracker => SoundInv' /\ [MemoryStep]_tracker
  BY NextSteps
<1>3. TrackerSpec => [][MemoryStep]_tracker
  BY <1>1, <1>2, PTL DEF TrackerSpec
<1>4. [][MemoryStep]_tracker => ImplementsMemory
  BY DEF ImplementsMemory, MemoryStep
<1> QED
  BY <1>3, <1>4
=============================================================================
