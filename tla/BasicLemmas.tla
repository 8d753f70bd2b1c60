---------------------------- MODULE BasicLemmas ----------------------------
(***************************************************************************)
(* Integer division and alignment, smallest and largest numbers, sums over *)
(* finite sets.                                                            *)
(***************************************************************************)
EXTENDS Alignment, FiniteSetsExt, FiniteSetTheorems, WellFoundedInduction, TLAPS

-----------------------------------------------------------------------------
(* Division.                                                               *)

\* The quotient and what it leaves.
LEMMA DivisionBounds ==
  ASSUME NEW a \in Nat, NEW d \in Nat \ {0}
  PROVE  /\ a \div d \in Nat
         /\ (a \div d) * d <= a
         /\ a < (a \div d) * d + d
OBVIOUS

\* No other number has the bounds of the quotient.
LEMMA QuotientUnique ==
  ASSUME NEW a \in Nat, NEW d \in Nat \ {0}, NEW q \in Nat,
         q * d <= a, a < q * d + d
  PROVE  a \div d = q
OBVIOUS

\* The quotient grows with the number.
LEMMA QuotientMonotone ==
  ASSUME NEW a \in Nat, NEW b \in Nat, NEW d \in Nat \ {0}, a <= b
  PROVE  a \div d <= b \div d
<1> DEFINE p == a \div d
           q == b \div d
<1>1. p \in Nat /\ q \in Nat /\ p * d <= a /\ b < q * d + d
  BY DivisionBounds
<1> HIDE DEF p, q
<1>2. ASSUME q + 1 <= p
      PROVE  FALSE
  <2>1. (q + 1) * d <= p * d
    BY <1>1, <1>2
  <2>2. (q + 1) * d = q * d + d
    BY <1>1
  <2> QED
    BY <1>1, <2>1, <2>2
<1>3. p <= q
  BY <1>1, <1>2
<1> QED
  BY <1>3 DEF p, q

\* An aligned number is a multiple, and every multiple is aligned.
LEMMA AlignedIsMultiple ==
  ASSUME NEW a \in Nat, NEW d \in Nat \ {0}
  PROVE  IsAligned(a, d) <=> a = (a \div d) * d
BY DEF IsAligned

\* A multiple of the unit is aligned to it.
LEMMA MultipleIsAligned ==
  ASSUME NEW q \in Nat, NEW d \in Nat \ {0}
  PROVE  IsAligned(q * d, d)
<1>1. q * d \in Nat
  OBVIOUS
<1>2. (q * d) \div d = q
  BY <1>1, QuotientUnique
<1> QED
  BY <1>1, <1>2, AlignedIsMultiple

\* Sums and differences of aligned numbers are aligned.
LEMMA AlignedSum ==
  ASSUME NEW a \in Nat, NEW b \in Nat, NEW d \in Nat \ {0},
         IsAligned(a, d), IsAligned(b, d)
  PROVE  IsAligned(a + b, d)
<1> DEFINE p == a \div d
           q == b \div d
<1>1. p \in Nat /\ q \in Nat /\ a = p * d /\ b = q * d
  BY AlignedIsMultiple, DivisionBounds
<1> HIDE DEF p, q
<1>2. a + b = (p + q) * d /\ p + q \in Nat
  BY <1>1
<1> QED
  BY <1>2, MultipleIsAligned

\* The difference of aligned numbers is aligned.
LEMMA AlignedDifference ==
  ASSUME NEW a \in Nat, NEW b \in Nat, NEW d \in Nat \ {0},
         IsAligned(a, d), IsAligned(b, d), b <= a
  PROVE  IsAligned(a - b, d)
<1> DEFINE p == a \div d
           q == b \div d
<1>1. p \in Nat /\ q \in Nat /\ a = p * d /\ b = q * d
  BY AlignedIsMultiple, DivisionBounds
<1> HIDE DEF p, q
<1>2. q <= p
  <2>1. CASE q <= p
    BY <2>1
  <2>2. CASE q >= p + 1
    <3>1. q * d >= (p + 1) * d
      BY <1>1, <2>2
    <3>2. (p + 1) * d = p * d + d
      BY <1>1
    <3> QED
      BY <1>1, <3>1, <3>2
  <2> QED
    BY <1>1, <2>1, <2>2
<1>3. a - b = (p - q) * d /\ p - q \in Nat
  BY <1>1, <1>2
<1> QED
  BY <1>3, MultipleIsAligned

\* align_down: the next multiple below.
LEMMA AlignDownBounds ==
  ASSUME NEW a \in Nat, NEW d \in Nat \ {0}
  PROVE  AlignDown(a, d) \in Nat /\ AlignDown(a, d) <= a /\ IsAligned(AlignDown(a, d), d)
<1> DEFINE q == a \div d
<1>1. q \in Nat /\ q * d <= a
  BY DivisionBounds
<1>2. AlignDown(a, d) = q * d
  BY DEF AlignDown
<1> HIDE DEF q
<1>3. q * d \in Nat
  BY <1>1
<1>4. IsAligned(q * d, d)
  BY <1>1, MultipleIsAligned
<1> QED
  BY <1>1, <1>2, <1>3, <1>4

\* align_up: the next multiple above.
LEMMA AlignUpBounds ==
  ASSUME NEW a \in Nat, NEW d \in Nat \ {0}
  PROVE  /\ AlignUp(a, d) \in Nat
         /\ a <= AlignUp(a, d)
         /\ AlignUp(a, d) < a + d
         /\ IsAligned(AlignUp(a, d), d)
<1> DEFINE q == (a + d - 1) \div d
<1>1. q \in Nat /\ q * d <= a + d - 1 /\ a + d - 1 < q * d + d
  <2>1. a + d - 1 \in Nat
    OBVIOUS
  <2> QED
    BY <2>1, DivisionBounds
<1>2. AlignUp(a, d) = q * d
  BY DEF AlignUp
<1> HIDE DEF q
<1>3. q * d \in Nat
  BY <1>1
<1>4. IsAligned(q * d, d)
  BY <1>1, MultipleIsAligned
<1> QED
  BY <1>1, <1>2, <1>3, <1>4

\* Rounding up does not go past an aligned number.
LEMMA AlignUpBelow ==
  ASSUME NEW a \in Nat, NEW m \in Nat, NEW d \in Nat \ {0}, a <= m, IsAligned(m, d)
  PROVE  AlignUp(a, d) <= m
<1> DEFINE p == (a + d - 1) \div d
           q == m \div d
<1>1. p \in Nat /\ p * d < a + d /\ q \in Nat /\ m = q * d
  <2>1. a + d - 1 \in Nat
    OBVIOUS
  <2> QED
    BY <2>1, AlignedIsMultiple, DivisionBounds
<1>2. AlignUp(a, d) = p * d
  BY DEF AlignUp
<1> HIDE DEF p, q
<1>3. p <= q
  <2>1. CASE p <= q
    BY <2>1
  <2>2. CASE p >= q + 1
    <3>1. p * d >= (q + 1) * d
      BY <1>1, <2>2
    <3>2. (q + 1) * d = q * d + d
      BY <1>1
    <3> QED
      BY <1>1, <3>1, <3>2
  <2> QED
    BY <1>1, <2>1, <2>2
<1>4. p * d <= q * d
  BY <1>1, <1>3
<1> QED
  BY <1>1, <1>2, <1>4

-----------------------------------------------------------------------------
(* Minima and maxima.                                                      *)

\* The smaller one of two numbers.
LEMMA MinOfTwo ==
  ASSUME NEW a \in Int, NEW b \in Int
  PROVE  Min({a, b}) = IF a <= b THEN a ELSE b
BY DEF Min

\* Every finite set of numbers has a smallest one: a smallest set without one
\* would have one once an element is added to what is left without it.
LEMMA MinExists ==
  ASSUME NEW S \in SUBSET Int, IsFiniteSet(S), S # {}
  PROVE  Min(S) \in S /\ \A x \in S : Min(S) <= x
<1> DEFINE Has(U) == \E x \in U : \A y \in U : x <= y
           Bad    == {U \in FiniteSubsetsOf(S) : U # {} /\ ~Has(U)}
<1>1. Has(S)
  <2> SUFFICES ASSUME ~Has(S)
               PROVE  FALSE
    OBVIOUS
  <2>1. S \in Bad
    BY DEF FiniteSubsetsOf
  <2>2. PICK U \in Bad : \A V \in Bad : <<V, U>> \notin StrictSubsetOrdering(S)
    <3>1. Bad \subseteq FiniteSubsetsOf(S) /\ Bad # {}
      BY <2>1
    <3> QED
      BY <3>1, FS_StrictSubsetOrderingWellFounded, WFMin
  <2>3. PICK x \in U : TRUE
    OBVIOUS
  <2> DEFINE V == U \ {x}
  <2>4. V \in FiniteSubsetsOf(S) /\ <<V, U>> \in StrictSubsetOrdering(S)
    BY <2>3, FS_RemoveElement DEF FiniteSubsetsOf, StrictSubsetOrdering
  <2>5. V \notin Bad
    BY <2>2, <2>4
  <2>6. V = {} \/ Has(V)
    BY <2>4, <2>5
  <2>7. x \in Int /\ \A y \in V : y \in Int
    BY <2>3 DEF FiniteSubsetsOf
  <2>8. Has(U)
    BY <2>3, <2>6, <2>7
  <2> QED
    BY <2>8
<1> QED
  BY <1>1 DEF Min

\* What holds of 0 and goes on from each number to the next holds of all.
LEMMA NumberInduction ==
  ASSUME NEW Holds, 0 \in Holds, \A n \in Nat : n \in Holds => n + 1 \in Holds
  PROVE  Nat \subseteq Holds
<1> SUFFICES ASSUME NEW n \in Nat, n \notin Holds
             PROVE  FALSE
  OBVIOUS
<1> DEFINE Bad == {m \in 0..n : m \notin Holds}
<1>1. Bad \in SUBSET Int /\ IsFiniteSet(Bad) /\ Bad # {}
  <2>1. IsFiniteSet(0..n)
    BY FS_Interval
  <2>2. Bad \in SUBSET (0..n) /\ n \in Bad /\ Bad \subseteq Int
    OBVIOUS
  <2> HIDE DEF Bad
  <2> QED
    BY <2>1, <2>2, FS_Subset
<1>2. PICK m \in Bad : \A k \in Bad : m <= k
  <2> HIDE DEF Bad
  <2> QED
    BY <1>1, MinExists
<1>3. m # 0 /\ m - 1 \in Nat /\ m - 1 \in 0..n
  BY <1>2
<1>4. m - 1 \in Holds
  BY <1>2, <1>3
<1>5. (m - 1) + 1 = m
  BY <1>2
<1> QED
  BY <1>2, <1>3, <1>4, <1>5

\* Every finite set of numbers has a largest one.
LEMMA MaxExists ==
  ASSUME NEW S \in SUBSET Int, IsFiniteSet(S), S # {}
  PROVE  Max(S) \in S /\ \A x \in S : x <= Max(S)
<1> DEFINE T == {-x : x \in S}
           f == [x \in S |-> -x]
<1>1. f \in Surjection(S, T)
  BY DEF Surjection
<1>2. IsFiniteSet(T) /\ T \in SUBSET Int /\ T # {}
  <2>1. IsFiniteSet(T)
    <3> HIDE DEF f, T
    <3> QED
      BY <1>1, FS_Surjection
  <2>2. \A x \in S : -x \in Int
    OBVIOUS
  <2> QED
    BY <2>1, <2>2
<1>3. Min(T) \in T /\ \A y \in T : Min(T) <= y
  BY <1>2, MinExists
<1>4. PICK m \in S : Min(T) = -m
  BY <1>3
<1>5. \A x \in S : x <= m
  <2> SUFFICES ASSUME NEW x \in S
               PROVE  x <= m
    OBVIOUS
  <2>1. -m <= -x
    BY <1>3, <1>4
  <2> QED
    BY <2>1
<1> QED
  BY <1>5 DEF Max

-----------------------------------------------------------------------------
(* Sums over finite sets.  MapThenSumSet adds up in an order of its own;   *)
(* what it computes does not depend on that order.                         *)

\* Among sets of elements of a finite set there is one without a smaller one.
LEMMA SmallestSet ==
  ASSUME NEW S, IsFiniteSet(S), NEW Sets, Sets \subseteq SUBSET S, Sets # {}
  PROVE  \E U \in Sets : \A V \in Sets : V \subseteq U => V = U
<1>1. Sets \subseteq FiniteSubsetsOf(S)
  BY FS_Subset DEF FiniteSubsetsOf
<1>2. PICK U \in Sets : \A V \in Sets : <<V, U>> \notin StrictSubsetOrdering(S)
  BY <1>1, FS_StrictSubsetOrderingWellFounded, WFMin
<1>3. ASSUME NEW V \in Sets, V \subseteq U
      PROVE  V = U
  BY <1>1, <1>2, <1>3 DEF StrictSubsetOrdering
<1> QED
  BY <1>3

\* A finite set is reached from the empty one element by element.
LEMMA SetInduction ==
  ASSUME NEW S, IsFiniteSet(S), NEW Holds, {} \in Holds,
         \A T \in SUBSET S : \A x \in S \ T : T \in Holds => T \cup {x} \in Holds
  PROVE  S \in Holds
<1> SUFFICES ASSUME S \notin Holds
             PROVE  FALSE
  OBVIOUS
<1> DEFINE Sets == {T \in SUBSET S : T \notin Holds}
<1>1. PICK U \in Sets : \A V \in Sets : V \subseteq U => V = U
  <2>1. Sets \subseteq SUBSET S /\ Sets # {}
    OBVIOUS
  <2> HIDE DEF Sets
  <2> QED
    BY <2>1, SmallestSet
<1>2. PICK x \in U : TRUE
  BY <1>1
<1>3. U \ {x} \in Holds
  BY <1>1, <1>2
<1>4. (U \ {x}) \cup {x} = U
  BY <1>2
<1> QED
  BY <1>1, <1>2, <1>3, <1>4

\* The sum of the numbers g[x] for the elements x of S.
Total(g, S) == MapThenSumSet(LAMBDA x : g[x], S)

\* F sums up the subsets of S: in the order of MapThenSumSet, or in any.
Pick(s) == CHOOSE x \in s : TRUE

SumsUp(F, g, S) ==
  F = [s \in SUBSET S |-> IF s = {} THEN 0 ELSE g[Pick(s)] + F[s \ {Pick(s)}]]

AddsUp(F, g, S) ==
  /\ F \in [SUBSET S -> Int]
  /\ F[{}] = 0
  /\ \A s \in SUBSET S : \A x \in s : F[s] = g[x] + F[s \ {x}]

\* The fold, as a function of the subsets.
LEMMA TotalUnfolds ==
  ASSUME NEW g, NEW S
  PROVE  Total(g, S) = (CHOOSE F : SumsUp(F, g, S))[S]
BY DEF Total, MapThenSumSet, MapThenFoldSet, SumsUp, Pick

\* There are sums that do not depend on the order.
LEMMA SumsExist ==
  ASSUME NEW S, IsFiniteSet(S), NEW g, \A x \in S : g[x] \in Int
  PROVE  \E F : AddsUp(F, g, S)
<1> DEFINE Holds == {T \in SUBSET S : \E F : AddsUp(F, g, T)}
<1>1. {} \in Holds
  <2>1. AddsUp([s \in SUBSET {} |-> 0], g, {})
    BY DEF AddsUp
  <2> QED
    BY <2>1
<1>2. ASSUME NEW T \in SUBSET S, NEW x \in S \ T, T \in Holds
      PROVE  T \cup {x} \in Holds
  <2>1. PICK F : AddsUp(F, g, T)
    BY <1>2
  <2> DEFINE H == [s \in SUBSET (T \cup {x}) |-> IF x \in s THEN g[x] + F[s \ {x}] ELSE F[s]]
  <2>2. /\ F \in [SUBSET T -> Int] /\ F[{}] = 0 /\ g[x] \in Int
        /\ \A s \in SUBSET T : \A y \in s : F[s] = g[y] + F[s \ {y}]
    BY <2>1 DEF AddsUp
  <2>3. \A s \in SUBSET (T \cup {x}) : s \ {x} \in SUBSET T /\ (x \notin s => s \in SUBSET T)
    OBVIOUS
  <2>4. H \in [SUBSET (T \cup {x}) -> Int] /\ H[{}] = 0
    BY <2>2, <2>3
  <2>5. ASSUME NEW s \in SUBSET (T \cup {x}), NEW y \in s
        PROVE  H[s] = g[y] + H[s \ {y}]
    <3>1. s \ {y} \in SUBSET (T \cup {x}) /\ g[y] \in Int /\ H[s] \in Int
      BY <2>4
    <3>2. CASE y = x
      BY <2>2, <2>3, <3>1, <3>2
    <3>3. CASE y # x /\ x \in s
      <4>1. /\ s \ {x} \in SUBSET T /\ y \in s \ {x} /\ (s \ {y}) \ {x} \in SUBSET T
            /\ (s \ {x}) \ {y} = (s \ {y}) \ {x}
        BY <3>3
      <4>2. F[s \ {x}] = g[y] + F[(s \ {x}) \ {y}]
        BY <2>2, <4>1
      <4>3. F[s \ {x}] = g[y] + F[(s \ {y}) \ {x}] /\ F[(s \ {y}) \ {x}] \in Int
        BY <2>2, <4>1, <4>2
      <4>4. H[s] = g[x] + F[s \ {x}] /\ H[s \ {y}] = g[x] + F[(s \ {y}) \ {x}]
        BY <3>1, <3>3
      <4> QED
        BY <2>2, <3>1, <4>3, <4>4
    <3>4. CASE x \notin s
      BY <2>2, <2>3, <3>1, <3>4
    <3> QED
      BY <3>2, <3>3, <3>4
  <2> HIDE DEF H
  <2>6. AddsUp(H, g, T \cup {x})
    BY <2>4, <2>5 DEF AddsUp
  <2> QED
    BY <2>6
<1> HIDE DEF Holds
<1>3. S \in Holds
  BY <1>1, <1>2, SetInduction
<1> QED
  BY <1>3 DEF Holds

\* The sums in the order of MapThenSumSet are determined.
LEMMA SumsAgree ==
  ASSUME NEW S, IsFiniteSet(S), NEW g, NEW F, SumsUp(F, g, S), NEW H, SumsUp(H, g, S)
  PROVE  F[S] = H[S]
<1> DEFINE Sets == {s \in SUBSET S : F[s] # H[s]}
<1> SUFFICES ASSUME Sets # {}
             PROVE  FALSE
  OBVIOUS
<1>1. PICK U \in Sets : \A V \in Sets : V \subseteq U => V = U
  <2>1. Sets \subseteq SUBSET S
    OBVIOUS
  <2> HIDE DEF Sets
  <2> QED
    BY <2>1, SmallestSet
<1>2. U \in SUBSET S /\ F[U] # H[U]
  BY <1>1
<1>3. /\ F[U] = IF U = {} THEN 0 ELSE g[Pick(U)] + F[U \ {Pick(U)}]
      /\ H[U] = IF U = {} THEN 0 ELSE g[Pick(U)] + H[U \ {Pick(U)}]
  BY <1>2 DEF SumsUp
<1>4. U # {}
  BY <1>2, <1>3
<1>5. Pick(U) \in U
  BY <1>4 DEF Pick
<1>6. F[U \ {Pick(U)}] = H[U \ {Pick(U)}]
  BY <1>1, <1>2, <1>5
<1> QED
  BY <1>2, <1>3, <1>4, <1>6

\* What adds up in any order adds up in this one.
LEMMA AddsUpSumsUp ==
  ASSUME NEW S, NEW g, NEW F, AddsUp(F, g, S)
  PROVE  SumsUp(F, g, S)
<1>1. /\ F \in [SUBSET S -> Int] /\ F[{}] = 0
      /\ \A s \in SUBSET S : \A x \in s : F[s] = g[x] + F[s \ {x}]
  BY DEF AddsUp
<1>2. \A s \in SUBSET S : s # {} => Pick(s) \in s
  BY DEF Pick
<1>3. \A s \in SUBSET S : F[s] = IF s = {} THEN 0 ELSE g[Pick(s)] + F[s \ {Pick(s)}]
  BY <1>1, <1>2
<1> QED
  BY <1>1, <1>3 DEF SumsUp

\* And it is the sum.
LEMMA TotalAddsUp ==
  ASSUME NEW S, IsFiniteSet(S), NEW g, NEW F, AddsUp(F, g, S)
  PROVE  Total(g, S) = F[S]
<1>1. SumsUp(F, g, S)
  BY AddsUpSumsUp
<1> DEFINE H == CHOOSE G : SumsUp(G, g, S)
<1>2. SumsUp(H, g, S)
  BY <1>1
<1>3. Total(g, S) = H[S]
  BY TotalUnfolds
<1> HIDE DEF H
<1> QED
  BY <1>1, <1>2, <1>3, SumsAgree

\* The sum over nothing.
LEMMA TotalEmpty == \A g : Total(g, {}) = 0
<1> SUFFICES ASSUME NEW g
             PROVE  Total(g, {}) = 0
  OBVIOUS
<1> DEFINE F == [s \in SUBSET {} |-> 0]
<1>1. AddsUp(F, g, {}) /\ F[{}] = 0 /\ IsFiniteSet({})
  BY FS_EmptySet DEF AddsUp
<1> HIDE DEF F
<1> QED
  BY <1>1, TotalAddsUp

\* One more element adds its number.
LEMMA TotalAdd ==
  ASSUME NEW S, IsFiniteSet(S), NEW x, x \notin S, NEW g, \A y \in S \cup {x} : g[y] \in Int
  PROVE  /\ Total(g, S) \in Int
         /\ Total(g, S \cup {x}) = Total(g, S) + g[x]
<1> DEFINE T == S \cup {x}
<1>1. IsFiniteSet(T)
  BY FS_AddElement
<1>2. PICK F : AddsUp(F, g, T)
  BY <1>1, SumsExist
<1> DEFINE H == [s \in SUBSET S |-> F[s]]
<1>3. AddsUp(H, g, S)
  <2>1. /\ F \in [SUBSET T -> Int] /\ F[{}] = 0
        /\ \A s \in SUBSET T : \A y \in s : F[s] = g[y] + F[s \ {y}]
    BY <1>2 DEF AddsUp
  <2>2. \A s \in SUBSET S : s \in SUBSET T /\ \A y \in s : s \ {y} \in SUBSET S
    OBVIOUS
  <2> HIDE DEF T
  <2> QED
    BY <2>1, <2>2 DEF AddsUp
<1>4. F[T] = g[x] + F[S] /\ F[S] \in Int
  <2>1. T \in SUBSET T /\ x \in T /\ T \ {x} = S /\ S \in SUBSET T
    OBVIOUS
  <2> HIDE DEF T
  <2> QED
    BY <1>2, <2>1 DEF AddsUp
<1>5. H[S] = F[S]
  OBVIOUS
<1> HIDE DEF H
<1>6. Total(g, S) = F[S] /\ Total(g, T) = F[T]
  BY <1>1, <1>2, <1>3, <1>5, TotalAddsUp
<1> QED
  BY <1>4, <1>6

\* One element less takes its number away.
LEMMA TotalRemove ==
  ASSUME NEW S, IsFiniteSet(S), NEW x \in S, NEW g, \A y \in S : g[y] \in Int
  PROVE  Total(g, S) = Total(g, S \ {x}) + g[x]
<1>1. /\ IsFiniteSet(S \ {x}) /\ x \notin S \ {x} /\ (S \ {x}) \cup {x} = S
  BY FS_RemoveElement
<1> QED
  BY <1>1, TotalAdd

\* A sum of integers is one, a sum of natural numbers is one.
LEMMA TotalIsNumber ==
  ASSUME NEW S, IsFiniteSet(S), NEW g, \A y \in S : g[y] \in Int
  PROVE  /\ Total(g, S) \in Int
         /\ (\A y \in S : g[y] \in Nat) => Total(g, S) \in Nat
<1> DEFINE Holds == {T \in SUBSET S : /\ Total(g, T) \in Int
                                      /\ (\A y \in T : g[y] \in Nat) => Total(g, T) \in Nat}
<1>1. {} \in Holds
  BY TotalEmpty
<1>2. ASSUME NEW T \in SUBSET S, NEW x \in S \ T, T \in Holds
      PROVE  T \cup {x} \in Holds
  <2>1. IsFiniteSet(T)
    BY FS_Subset
  <2>2. Total(g, T \cup {x}) = Total(g, T) + g[x]
    BY <2>1, TotalAdd
  <2> QED
    BY <1>2, <2>2
<1> HIDE DEF Holds
<1>3. S \in Holds
  BY <1>1, <1>2, SetInduction
<1> QED
  BY <1>3 DEF Holds

\* Equal numbers have equal sums.
LEMMA TotalSame ==
  ASSUME NEW S, IsFiniteSet(S), NEW g, NEW h, \A y \in S : g[y] \in Int /\ h[y] = g[y]
  PROVE  Total(h, S) = Total(g, S)
<1> DEFINE Holds == {T \in SUBSET S : Total(h, T) = Total(g, T)}
<1>1. {} \in Holds
  BY TotalEmpty
<1>2. ASSUME NEW T \in SUBSET S, NEW x \in S \ T, T \in Holds
      PROVE  T \cup {x} \in Holds
  <2>1. IsFiniteSet(T)
    BY FS_Subset
  <2>2. Total(g, T \cup {x}) = Total(g, T) + g[x] /\ Total(h, T \cup {x}) = Total(h, T) + h[x]
    BY <2>1, TotalAdd
  <2> QED
    BY <1>2, <2>2
<1> HIDE DEF Holds
<1>3. S \in Holds
  BY <1>1, <1>2, SetInduction
<1> QED
  BY <1>3 DEF Holds

\* Sums over sets without a common element add up.
LEMMA TotalUnion ==
  ASSUME NEW S, IsFiniteSet(S), NEW R, IsFiniteSet(R), S \cap R = {},
         NEW g, \A y \in S \cup R : g[y] \in Int
  PROVE  Total(g, S \cup R) = Total(g, S) + Total(g, R)
<1> DEFINE Holds == {T \in SUBSET R : Total(g, S \cup T) = Total(g, S) + Total(g, T)}
<1>1. {} \in Holds
  <2>1. S \cup {} = S /\ Total(g, S) \in Int
    BY TotalIsNumber
  <2> QED
    BY <2>1, TotalEmpty
<1>2. ASSUME NEW T \in SUBSET R, NEW x \in R \ T, T \in Holds
      PROVE  T \cup {x} \in Holds
  <2>1. IsFiniteSet(T) /\ IsFiniteSet(S \cup T)
    BY FS_Subset, FS_Union
  <2>2. x \notin S \cup T /\ (S \cup T) \cup {x} = S \cup (T \cup {x})
    OBVIOUS
  <2>3. Total(g, T \cup {x}) = Total(g, T) + g[x]
    BY <2>1, TotalAdd
  <2>4. Total(g, (S \cup T) \cup {x}) = Total(g, S \cup T) + g[x]
    BY <2>1, <2>2, TotalAdd
  <2>5. Total(g, S) \in Int /\ Total(g, T) \in Int /\ g[x] \in Int
    BY <2>1, TotalIsNumber
  <2>6. Total(g, S \cup T) = Total(g, S) + Total(g, T)
    BY <1>2
  <2>7. Total(g, S \cup (T \cup {x})) = Total(g, S \cup T) + g[x]
    BY <2>2, <2>4
  <2>8. Total(g, S \cup (T \cup {x})) = Total(g, S) + Total(g, T \cup {x})
    BY <2>3, <2>5, <2>6, <2>7
  <2> QED
    BY <2>8
<1> HIDE DEF Holds
<1>3. R \in Holds
  BY <1>1, <1>2, SetInduction
<1> QED
  BY <1>3 DEF Holds

\* A sum of nothing but zeros.
LEMMA TotalOfZeros ==
  ASSUME NEW S, IsFiniteSet(S), NEW g, \A y \in S : g[y] = 0
  PROVE  Total(g, S) = 0
<1> DEFINE Holds == {T \in SUBSET S : Total(g, T) = 0}
<1>1. {} \in Holds
  BY TotalEmpty
<1>2. ASSUME NEW T \in SUBSET S, NEW x \in S \ T, T \in Holds
      PROVE  T \cup {x} \in Holds
  <2>1. IsFiniteSet(T)
    BY FS_Subset
  <2>2. \A y \in T \cup {x} : g[y] \in Int
    OBVIOUS
  <2>3. Total(g, T \cup {x}) = Total(g, T) + g[x]
    BY <2>1, <2>2, TotalAdd
  <2> QED
    BY <1>2, <2>3
<1> HIDE DEF Holds
<1>3. S \in Holds
  BY <1>1, <1>2, SetInduction
<1> QED
  BY <1>3 DEF Holds

\* A sum of which one term has changed.
LEMMA TotalChange ==
  ASSUME NEW S, IsFiniteSet(S), NEW x \in S, NEW g, \A y \in S : g[y] \in Int,
         NEW h, \A y \in S \ {x} : h[y] = g[y], h[x] \in Int
  PROVE  Total(h, S) = Total(g, S) + h[x] - g[x]
<1>1. IsFiniteSet(S \ {x})
  BY FS_Subset
<1>2. Total(g, S) = Total(g, S \ {x}) + g[x]
  BY TotalRemove
<1>3. \A y \in S : h[y] \in Int
  OBVIOUS
<1>4. Total(h, S) = Total(h, S \ {x}) + h[x]
  BY <1>3, TotalRemove
<1>5. Total(h, S \ {x}) = Total(g, S \ {x})
  BY <1>1, TotalSame
<1>6. Total(g, S \ {x}) \in Int
  BY <1>1, TotalIsNumber
<1> QED
  BY <1>2, <1>4, <1>5, <1>6
=============================================================================
