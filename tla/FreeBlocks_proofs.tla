-------------------------- MODULE FreeBlocks_proofs --------------------------
(***************************************************************************)
(* The free blocks of an arena, for blocks of any sizes and any sequence   *)
(* of calls: the tree stays a search tree over its nodes, with all other   *)
(* blocks in lists behind them; the bins and their mask agree; no word is  *)
(* handed out twice.                                                       *)
(*                                                                         *)
(* The shape of a tree is described by the set of nodes under each node.   *)
(* Removing a node of two children is shown to be the removal of another   *)
(* one, with one child at most, that then takes its place.                 *)
(***************************************************************************)
EXTENDS FreeBlocks, BasicLemmas

-----------------------------------------------------------------------------
(* Trees.                                                                  *)

NodeType == [parent: Int, left: Int, right: Int, next: Int, size: Int]

TreeType == [root: Int, node: UNION {[S -> NodeType] : S \in SUBSET Nat}, count: Int, total: Int]

\* The nodes of t that are in the tree, not in a list; under[n] are those below
\* n and n itself.
Heads(t, under) == under[t.root]

\* The links and sizes of one node.
ShapedAt(t, under, n) ==
  LET m == t.node[n] IN
  /\ {m.left, m.right} \subseteq Kin(t) \cup {Null}
  /\ under[n] = {n} \cup under[m.left] \cup under[m.right]
  /\ \A c \in under[m.left]  : t.node[c].size < m.size
  /\ \A c \in under[m.right] : t.node[c].size > m.size
  /\ \A c \in Children(t, n) : t.node[c].parent = n
  /\ n \notin Heads(t, under) => m.left = Null /\ m.right = Null /\ m.parent = Null

Shaped(t, under) ==
  /\ Null \notin Kin(t)
  /\ under \in [Kin(t) \cup {Null} -> SUBSET Kin(t)] /\ under[Null] = {}
  /\ t.root \in Kin(t) \cup {Null}
  /\ t.root # Null => t.node[t.root].parent = Null
  /\ \A n \in Kin(t) : \A c \in Kin(t) : t.node[c].size \in Int
  /\ \A n \in Kin(t) : ShapedAt(t, under, n)

\* What is below the two sides of a node.
LEMMA Sides ==
  ASSUME NEW t, NEW under, Shaped(t, under), NEW n \in Kin(t)
  PROVE  LET l == t.node[n].left
             r == t.node[n].right
         IN  /\ l \in Kin(t) \cup {Null} /\ r \in Kin(t) \cup {Null}
             /\ under[n] = {n} \cup under[l] \cup under[r]
             /\ n \in under[n] /\ n \notin under[l] /\ n \notin under[r]
             /\ under[l] \cap under[r] = {}
             /\ under[n] \subseteq Kin(t) /\ under[l] \subseteq Kin(t) /\ under[r] \subseteq Kin(t)
             /\ l # Null => l \in under[l] /\ l \in Children(t, n) /\ t.node[l].parent = n
             /\ r # Null => r \in under[r] /\ r \in Children(t, n) /\ t.node[r].parent = n
             /\ under[Null] = {} /\ Null \notin Kin(t)
<1> DEFINE l == t.node[n].left
           r == t.node[n].right
<1>1. /\ l \in Kin(t) \cup {Null} /\ r \in Kin(t) \cup {Null}
      /\ under[n] = {n} \cup under[l] \cup under[r]
      /\ \A c \in under[l] : t.node[c].size < t.node[n].size
      /\ \A c \in under[r] : t.node[c].size > t.node[n].size
      /\ \A c \in Children(t, n) : t.node[c].parent = n
      /\ Children(t, n) = {l, r} \ {Null}
  BY DEF Shaped, ShapedAt, Children
<1>2. /\ under \in [Kin(t) \cup {Null} -> SUBSET Kin(t)] /\ under[Null] = {} /\ Null \notin Kin(t)
      /\ \A c \in Kin(t) : t.node[c].size \in Int
      /\ \A c \in Kin(t) : c \in under[c]
  BY DEF Shaped, ShapedAt
<1>3. under[n] \subseteq Kin(t) /\ under[l] \subseteq Kin(t) /\ under[r] \subseteq Kin(t)
  BY <1>1, <1>2
<1> HIDE DEF l, r
<1>4. n \notin under[l] /\ n \notin under[r]
  BY <1>1, <1>2
<1>5. under[l] \cap under[r] = {}
  <2> SUFFICES ASSUME NEW c \in under[l], c \in under[r]
               PROVE  FALSE
    OBVIOUS
  <2>1. t.node[c].size < t.node[n].size /\ t.node[c].size > t.node[n].size
    BY <1>1
  <2>2. t.node[c].size \in Int /\ t.node[n].size \in Int
    BY <1>2, <1>3
  <2> QED
    BY <2>1, <2>2
<1>6. /\ l # Null => l \in under[l] /\ l \in Children(t, n) /\ t.node[l].parent = n
      /\ r # Null => r \in under[r] /\ r \in Children(t, n) /\ t.node[r].parent = n
  BY <1>1, <1>2
<1> QED
  BY <1>1, <1>2, <1>3, <1>4, <1>5, <1>6 DEF l, r

\* What holds of a node when it holds of its children holds of every node.
LEMMA TreeInduction ==
  ASSUME NEW t, IsFiniteSet(Kin(t)), NEW under, Shaped(t, under), NEW Holds,
         \A n \in Kin(t) : (\A c \in Children(t, n) : c \in Holds) => n \in Holds
  PROVE  Kin(t) \subseteq Holds
<1> DEFINE Bad  == {n \in Kin(t) : n \notin Holds}
           Sets == {under[n] : n \in Bad}
<1> SUFFICES ASSUME Bad # {}
             PROVE  FALSE
  OBVIOUS
<1>1. Sets \subseteq SUBSET Kin(t) /\ Sets # {}
  BY DEF Shaped
<1>2. PICK S \in Sets : \A V \in Sets : V \subseteq S => V = S
  <2> HIDE DEF Sets
  <2> QED
    BY <1>1, SmallestSet
<1>3. PICK n \in Bad : S = under[n]
  BY <1>2
<1>4. PICK c \in Children(t, n) : c \notin Holds
  BY <1>3
<1>5. c \in Kin(t) /\ under[c] \subseteq under[n] /\ n \notin under[c] /\ n \in under[n]
  <2>1. c = t.node[n].left \/ c = t.node[n].right
    BY DEF Children
  <2>2. c # Null
    BY DEF Children
  <2> QED
    BY <2>1, <2>2, <1>3, Sides
<1>6. under[c] \in Sets
  BY <1>4, <1>5
<1> QED
  BY <1>2, <1>3, <1>5, <1>6

\* Below a node, all below that node's nodes is below it.
LEMMA Nested ==
  ASSUME NEW t, IsFiniteSet(Kin(t)), NEW under, Shaped(t, under)
  PROVE  \A n \in Kin(t) : \A m \in under[n] : under[m] \subseteq under[n]
<1> DEFINE Holds == {n \in Kin(t) : \A m \in under[n] : under[m] \subseteq under[n]}
<1>1. ASSUME NEW n \in Kin(t), \A c \in Children(t, n) : c \in Holds
      PROVE  n \in Holds
  <2> DEFINE l == t.node[n].left
             r == t.node[n].right
  <2>1. /\ under[n] = {n} \cup under[l] \cup under[r] /\ under[Null] = {}
        /\ l # Null => l \in Children(t, n)
        /\ r # Null => r \in Children(t, n)
    BY Sides
  <2> HIDE DEF l, r
  <2>2. (\A m \in under[l] : under[m] \subseteq under[l]) /\ (\A m \in under[r] : under[m] \subseteq under[r])
    BY <1>1, <2>1
  <2> QED
    BY <2>1, <2>2
<1> HIDE DEF Holds
<1>2. Kin(t) \subseteq Holds
  BY <1>1, TreeInduction
<1> QED
  BY <1>2 DEF Holds

\* Nodes of one size in a tree are one node.
LEMMA SizesDiffer ==
  ASSUME NEW t, IsFiniteSet(Kin(t)), NEW under, Shaped(t, under)
  PROVE  \A n \in Kin(t) : \A m, k \in under[n] : t.node[m].size = t.node[k].size => m = k
<1> DEFINE Holds == {n \in Kin(t) : \A m, k \in under[n] : t.node[m].size = t.node[k].size => m = k}
<1>1. ASSUME NEW n \in Kin(t), \A c \in Children(t, n) : c \in Holds
      PROVE  n \in Holds
  <2> DEFINE l == t.node[n].left
             r == t.node[n].right
  <2>1. /\ under[n] = {n} \cup under[l] \cup under[r] /\ under[Null] = {}
        /\ l # Null => l \in Children(t, n)
        /\ r # Null => r \in Children(t, n)
        /\ under[n] \subseteq Kin(t)
    BY Sides
  <2>2. /\ \A c \in under[l] : t.node[c].size < t.node[n].size
        /\ \A c \in under[r] : t.node[c].size > t.node[n].size
        /\ \A c \in Kin(t) : t.node[c].size \in Int
    BY DEF Shaped, ShapedAt
  <2> HIDE DEF l, r
  <2>3. /\ \A m, k \in under[l] : t.node[m].size = t.node[k].size => m = k
        /\ \A m, k \in under[r] : t.node[m].size = t.node[k].size => m = k
    BY <1>1, <2>1
  <2>4. \A m, k \in under[n] : t.node[m].size = t.node[k].size => m = k
    BY <2>1, <2>2, <2>3
  <2> QED
    BY <2>4
<1> HIDE DEF Holds
<1>2. Kin(t) \subseteq Holds
  BY <1>1, TreeInduction
<1> QED
  BY <1>2 DEF Holds

\* The parent of a node below n is there too, and knows its child.
LEMMA ParentBelow ==
  ASSUME NEW t, IsFiniteSet(Kin(t)), NEW under, Shaped(t, under)
  PROVE  \A n \in Kin(t) : \A m \in under[n] :
           m # n => t.node[m].parent \in under[n] /\ m \in Children(t, t.node[m].parent)
<1> DEFINE Known(n, m) == t.node[m].parent \in under[n] /\ m \in Children(t, t.node[m].parent)
           Holds == {n \in Kin(t) : \A m \in under[n] : m # n => Known(n, m)}
<1>1. ASSUME NEW n \in Kin(t), \A c \in Children(t, n) : c \in Holds
      PROVE  n \in Holds
  <2> DEFINE l == t.node[n].left
             r == t.node[n].right
  <2>1. /\ under[n] = {n} \cup under[l] \cup under[r] /\ under[Null] = {}
        /\ l # Null => l \in Children(t, n) /\ t.node[l].parent = n
        /\ r # Null => r \in Children(t, n) /\ t.node[r].parent = n
    BY Sides
  <2> HIDE DEF l, r
  <2>2. /\ l # Null => \A m \in under[l] : m # l => Known(l, m)
        /\ r # Null => \A m \in under[r] : m # r => Known(r, m)
    BY <1>1, <2>1
  <2>3. \A m \in under[n] : m # n => Known(n, m)
    BY <2>1, <2>2
  <2> QED
    BY <2>3
<1> HIDE DEF Holds
<1>2. Kin(t) \subseteq Holds
  BY <1>1, TreeInduction
<1> QED
  BY <1>2 DEF Holds

\* What the walk along the links finds are the nodes under a node.
LEMMA SubtreeIsUnder ==
  ASSUME NEW t, IsFiniteSet(Kin(t)), NEW under, Shaped(t, under)
  PROVE  \A n \in Kin(t) \cup {Null} : Subtree(t, n) = under[n]
<1> DEFINE links == [m \in Kin(t) |-> Children(t, m)]
           Closed(C) == UNION {links[c] : c \in C} \subseteq C
           Holds == {n \in Kin(t) : \A C \in SUBSET Kin(t) : n \in C /\ Closed(C) => under[n] \subseteq C}
<1>1. \A m \in Kin(t) : links[m] = Children(t, m)
  OBVIOUS
<1>2. \A n : Subtree(t, n) = {m \in Kin(t) : \A C \in SUBSET Kin(t) :
                               ({n} \ {Null}) \subseteq C /\ Closed(C) => m \in C}
  BY DEF Subtree, Closure
<1>3. under[Null] = {} /\ Null \notin Kin(t) /\ \A n \in Kin(t) : under[n] \subseteq Kin(t)
  BY DEF Shaped
<1>4. ASSUME NEW n \in Kin(t), \A c \in Children(t, n) : c \in Holds
      PROVE  n \in Holds
  <2> SUFFICES ASSUME NEW C \in SUBSET Kin(t), n \in C, Closed(C)
               PROVE  under[n] \subseteq C
    OBVIOUS
  <2>1. Children(t, n) \subseteq C
    BY <1>1
  <2> DEFINE l == t.node[n].left
             r == t.node[n].right
  <2>2. /\ under[n] = {n} \cup under[l] \cup under[r] /\ under[Null] = {}
        /\ l # Null => l \in Children(t, n)
        /\ r # Null => r \in Children(t, n)
    BY Sides
  <2> HIDE DEF l, r
  <2>3. under[l] \subseteq C /\ under[r] \subseteq C
    BY <1>4, <2>1, <2>2
  <2> QED
    BY <2>2, <2>3
<1>5. ASSUME NEW n \in Kin(t)
      PROVE  Closed(under[n]) /\ n \in under[n]
  <2>1. ASSUME NEW m \in under[n]
        PROVE  links[m] \subseteq under[n]
    <3>1. m \in Kin(t) /\ under[m] \subseteq under[n]
      BY <1>3, Nested
    <3>2. Children(t, m) \subseteq under[m]
      BY <3>1, Sides DEF Children
    <3> QED
      BY <1>1, <3>1, <3>2
  <2>2. n \in under[n]
    BY Sides
  <2> QED
    BY <2>1, <2>2
<1> HIDE DEF links, Holds
<1>6. Kin(t) \subseteq Holds
  BY <1>4, TreeInduction
<1>7. ASSUME NEW n \in Kin(t)
      PROVE  Subtree(t, n) = under[n]
  <2>1. \A C \in SUBSET Kin(t) : n \in C /\ Closed(C) => under[n] \subseteq C
    BY <1>6 DEF Holds
  <2>2. {n} \ {Null} = {n}
    BY <1>3
  <2>3. under[n] \in SUBSET Kin(t) /\ {n} \subseteq under[n] /\ Closed(under[n])
    BY <1>3, <1>5
  <2> HIDE DEF Closed
  <2>4. Subtree(t, n) = {m \in Kin(t) : \A C \in SUBSET Kin(t) : {n} \subseteq C /\ Closed(C) => m \in C}
    BY <1>2, <2>2
  <2>5. Subtree(t, n) \subseteq under[n]
    BY <2>3, <2>4
  <2>6. \A C \in SUBSET Kin(t) : {n} \subseteq C /\ Closed(C) => under[n] \subseteq C
    BY <2>1
  <2>7. under[n] \subseteq Subtree(t, n)
    BY <2>3, <2>4, <2>6
  <2> QED
    BY <2>5, <2>7
<1>8. Subtree(t, Null) = under[Null]
  <2>1. Closed({})
    OBVIOUS
  <2> HIDE DEF Closed
  <2> QED
    BY <1>2, <1>3, <2>1
<1> QED
  BY <1>7, <1>8

\* f is base for no node, and for a node what body makes of its children.
Recurs(t, V, base, body, f) ==
  /\ f \in [Kin(t) \cup {Null} -> V]
  /\ f[Null] = base
  /\ \A n \in Kin(t) : f[n] = body[<<n, f[t.node[n].left], f[t.node[n].right]>>]

\* There is such an f: on the nodes with less than k nodes under them, for
\* every k.
LEMMA TreeRecursion ==
  ASSUME NEW t, IsFiniteSet(Kin(t)), NEW under, Shaped(t, under),
         NEW V, NEW base \in V, NEW body, body \in [Kin(t) \X V \X V -> V]
  PROVE  \E f : Recurs(t, V, base, body, f)
<1> DEFINE rank == [n \in Kin(t) |-> Cardinality(under[n])]
           Left == [n \in Kin(t) |-> t.node[n].left]
           Right == [n \in Kin(t) |-> t.node[n].right]
           Fits(k, f) == /\ f \in [Kin(t) \cup {Null} -> V]
                         /\ f[Null] = base
                         /\ \A n \in Kin(t) : rank[n] < k => f[n] = body[<<n, f[Left[n]], f[Right[n]]>>]
           Holds == {k \in Nat : \E f : Fits(k, f)}
<1>1. Null \notin Kin(t)
  BY DEF Shaped
<1>2. ASSUME NEW n \in Kin(t)
      PROVE  /\ rank[n] \in Nat /\ rank[n] <= Cardinality(Kin(t))
             /\ Left[n] \in Kin(t) \cup {Null} /\ Right[n] \in Kin(t) \cup {Null}
             /\ Left[n] # Null => rank[Left[n]] < rank[n]
             /\ Right[n] # Null => rank[Right[n]] < rank[n]
  <2> DEFINE l == t.node[n].left
             r == t.node[n].right
  <2>1. /\ l \in Kin(t) \cup {Null} /\ r \in Kin(t) \cup {Null}
        /\ under[n] = {n} \cup under[l] \cup under[r]
        /\ n \notin under[l] /\ n \notin under[r] /\ under[n] \subseteq Kin(t)
    BY Sides
  <2> HIDE DEF l, r
  <2>2. IsFiniteSet(under[n]) /\ Cardinality(under[n]) <= Cardinality(Kin(t))
    BY <2>1, FS_Subset
  <2>3. \A S \in SUBSET under[n] : n \notin S => Cardinality(S) < Cardinality(under[n])
    <3> SUFFICES ASSUME NEW S \in SUBSET under[n], n \notin S
                 PROVE  Cardinality(S) < Cardinality(under[n])
      OBVIOUS
    <3>1. IsFiniteSet(S) /\ Cardinality(S) <= Cardinality(under[n]) /\ S # under[n]
      BY <2>1, <2>2, FS_Subset
    <3>2. Cardinality(S) # Cardinality(under[n])
      BY <2>2, <3>1, FS_Subset
    <3>3. Cardinality(S) \in Nat /\ Cardinality(under[n]) \in Nat
      BY <2>2, <3>1, FS_CardinalityType
    <3> QED
      BY <3>1, <3>2, <3>3
  <2>4. under[l] \in SUBSET under[n] /\ under[r] \in SUBSET under[n]
    BY <2>1
  <2>5. Cardinality(under[l]) < Cardinality(under[n]) /\ Cardinality(under[r]) < Cardinality(under[n])
    BY <2>1, <2>3, <2>4
  <2>6. Cardinality(under[n]) \in Nat
    BY <2>2, FS_CardinalityType
  <2> QED
    BY <2>1, <2>2, <2>5, <2>6 DEF l, r
<1> HIDE DEF rank, Left, Right
<1>3. 0 \in Holds
  <2> DEFINE f == [x \in Kin(t) \cup {Null} |-> base]
  <2>1. f \in [Kin(t) \cup {Null} -> V] /\ f[Null] = base
    OBVIOUS
  <2>2. \A n \in Kin(t) : ~(rank[n] < 0)
    BY <1>2
  <2> HIDE DEF f
  <2>3. Fits(0, f)
    BY <2>1, <2>2
  <2> QED
    BY <2>3
<1>4. ASSUME NEW k \in Nat, k \in Holds
      PROVE  k + 1 \in Holds
  <2>1. PICK f : Fits(k, f)
    BY <1>4
  <2> DEFINE g == [x \in Kin(t) \cup {Null} |->
                     IF x = Null THEN base ELSE body[<<x, f[Left[x]], f[Right[x]]>>]]
  <2>2. /\ f \in [Kin(t) \cup {Null} -> V] /\ f[Null] = base
        /\ \A n \in Kin(t) : rank[n] < k => f[n] = body[<<n, f[Left[n]], f[Right[n]]>>]
    BY <2>1
  <2>3. ASSUME NEW n \in Kin(t)
        PROVE  /\ g[n] = body[<<n, f[Left[n]], f[Right[n]]>>] /\ g[n] \in V
               /\ <<n, f[Left[n]], f[Right[n]]>> \in Kin(t) \X V \X V
    BY <1>1, <1>2, <2>2
  <2>4. g[Null] = base
    OBVIOUS
  <2>5. g \in [Kin(t) \cup {Null} -> V]
    <3>1. \A x \in Kin(t) \cup {Null} : g[x] \in V
      BY <2>3, <2>4
    <3> QED
      BY <3>1
  <2> HIDE DEF g
  <2>6. ASSUME NEW x \in Kin(t) \cup {Null}, x # Null => rank[x] < k
        PROVE  g[x] = f[x]
    BY <2>2, <2>3, <2>4, <2>6
  <2>7. ASSUME NEW n \in Kin(t), rank[n] < k + 1
        PROVE  g[n] = body[<<n, g[Left[n]], g[Right[n]]>>]
    <3>1. g[Left[n]] = f[Left[n]]
      <4>1. Left[n] # Null => Left[n] \in Kin(t) /\ rank[Left[n]] < k
        <5>1. Left[n] # Null => rank[Left[n]] < rank[n] /\ Left[n] \in Kin(t)
          BY <1>2
        <5>2. Left[n] # Null => rank[Left[n]] \in Nat /\ rank[n] \in Nat
          BY <1>2, <5>1
        <5> QED
          BY <2>7, <5>1, <5>2
      <4> QED
        BY <1>2, <2>6, <4>1
    <3>2. g[Right[n]] = f[Right[n]]
      <4>1. Right[n] # Null => Right[n] \in Kin(t) /\ rank[Right[n]] < k
        <5>1. Right[n] # Null => rank[Right[n]] < rank[n] /\ Right[n] \in Kin(t)
          BY <1>2
        <5>2. Right[n] # Null => rank[Right[n]] \in Nat /\ rank[n] \in Nat
          BY <1>2, <5>1
        <5> QED
          BY <2>7, <5>1, <5>2
      <4> QED
        BY <1>2, <2>6, <4>1
    <3> QED
      BY <2>3, <3>1, <3>2
  <2>8. Fits(k + 1, g)
    BY <2>4, <2>5, <2>7
  <2> QED
    BY <2>8
<1> DEFINE K == Cardinality(Kin(t)) + 1
<1>5. K \in Nat /\ \A n \in Kin(t) : rank[n] < K
  <2>1. Cardinality(Kin(t)) \in Nat
    BY FS_CardinalityType
  <2> QED
    BY <1>2, <2>1
<1> HIDE DEF K
<1>6. K \in Holds
  <2> HIDE DEF Holds
  <2> QED
    BY <1>3, <1>4, <1>5, NumberInduction
<1>7. PICK f : Fits(K, f)
  BY <1>6
<1>8. /\ f \in [Kin(t) \cup {Null} -> V] /\ f[Null] = base
      /\ \A n \in Kin(t) : f[n] = body[<<n, f[Left[n]], f[Right[n]]>>]
  BY <1>5, <1>7
<1>9. \A n \in Kin(t) : Left[n] = t.node[n].left /\ Right[n] = t.node[n].right
  BY DEF Left, Right
<1> QED
  BY <1>8, <1>9 DEF Recurs

-----------------------------------------------------------------------------
(* Searches.                                                               *)

\* The functions that find_closest_fit, the walk to the leftmost node and
\* find_node_for_size define.
Fitting(t, size, fit) ==
  fit = [n \in Kin(t) \cup {Null} |->
           IF n = Null THEN Null
           ELSE IF t.node[n].size < size THEN fit[t.node[n].right]
           ELSE IF t.node[n].size = size \/ fit[t.node[n].left] = Null THEN n
           ELSE fit[t.node[n].left]]

GoingLeft(t, leftmost) ==
  leftmost = [m \in Kin(t) |-> IF t.node[m].left = Null THEN m ELSE leftmost[t.node[m].left]]

Descending(t, size, at) ==
  at = [n \in Kin(t) |->
          LET m == t.node[n] IN
          IF size > m.size /\ m.right # Null THEN at[m.right]
          ELSE IF size < m.size /\ m.left # Null THEN at[m.left]
          ELSE n]

\* The closest fit is found from the root on.
LEMMA FitsAre == \A t, size : ClosestFit(t, size) = (CHOOSE fit : Fitting(t, size, fit))[t.root]
BY DEF ClosestFit, Fitting

\* The successor is the leftmost node on the right.
LEMMA SuccessorsAre == \A t, n : Successor(t, n) = (CHOOSE leftmost : GoingLeft(t, leftmost))[t.node[n].right]
BY DEF Successor, GoingLeft

\* The insertion point is found from the root on.
LEMMA PointsAre == \A t, size : InsertionPoint(t, size) = (CHOOSE at : Descending(t, size, at))[t.root]
BY DEF InsertionPoint, Descending

\* n is the smallest node among S that is large enough, Null if there is none.
Closest(t, size, S, n) ==
  IF \E m \in S : t.node[m].size >= size
    THEN n \in S /\ t.node[n].size >= size
         /\ \A m \in S : t.node[m].size >= size => t.node[n].size <= t.node[m].size
    ELSE n = Null

\* The search for the closest fit finds it.
LEMMA FitFound ==
  ASSUME NEW t, IsFiniteSet(Kin(t)), NEW under, Shaped(t, under), NEW size \in Int
  PROVE  Closest(t, size, under[t.root], ClosestFit(t, size))
<1> DEFINE V == Kin(t) \cup {Null}
           body == [x \in Kin(t) \X V \X V |->
                      IF t.node[x[1]].size < size THEN x[3]
                      ELSE IF t.node[x[1]].size = size \/ x[2] = Null THEN x[1] ELSE x[2]]
           fit == CHOOSE fit : Fitting(t, size, fit)
           Holds == {n \in Kin(t) : Closest(t, size, under[n], fit[n])}
<1>1. /\ Null \notin Kin(t) /\ under[Null] = {} /\ t.root \in V
      /\ \A n \in Kin(t) : t.node[n].size \in Int
  BY DEF Shaped
<1>2. \E f : Fitting(t, size, f)
  <2>1. body \in [Kin(t) \X V \X V -> V] /\ Null \in V
    OBVIOUS
  <2>2. \A n \in Kin(t), x, y \in V :
          body[<<n, x, y>>] = IF t.node[n].size < size THEN y
                              ELSE IF t.node[n].size = size \/ x = Null THEN n ELSE x
    OBVIOUS
  <2> HIDE DEF body
  <2>3. PICK f : Recurs(t, V, Null, body, f)
    <3> HIDE DEF V
    <3> QED
      BY <2>1, TreeRecursion
  <2>4. ASSUME NEW n \in Kin(t)
        PROVE  f[n] = IF t.node[n].size < size THEN f[t.node[n].right]
                      ELSE IF t.node[n].size = size \/ f[t.node[n].left] = Null THEN n
                      ELSE f[t.node[n].left]
    <3>1. t.node[n].left \in V /\ t.node[n].right \in V
      BY Sides
    <3>2. f[t.node[n].left] \in V /\ f[t.node[n].right] \in V
      BY <2>3, <3>1 DEF Recurs
    <3> HIDE DEF V
    <3>3. f[n] = body[<<n, f[t.node[n].left], f[t.node[n].right]>>]
      BY <2>3 DEF Recurs
    <3> QED
      BY <2>2, <3>2, <3>3
  <2>5. Fitting(t, size, f)
    BY <1>1, <2>3, <2>4 DEF Fitting, Recurs
  <2> QED
    BY <2>5
<1>3. Fitting(t, size, fit)
  BY <1>2
<1>4. ClosestFit(t, size) = fit[t.root]
  BY FitsAre
<1> HIDE DEF fit, body
<1>5. fit[Null] = Null
  BY <1>3 DEF Fitting
<1>6. \A n \in Kin(t) : fit[n] = IF t.node[n].size < size THEN fit[t.node[n].right]
                               ELSE IF t.node[n].size = size \/ fit[t.node[n].left] = Null THEN n
                               ELSE fit[t.node[n].left]
  BY <1>1, <1>3 DEF Fitting
<1>7. Closest(t, size, under[Null], fit[Null])
  BY <1>1, <1>5 DEF Closest
<1>8. ASSUME NEW n \in Kin(t), \A c \in Children(t, n) : c \in Holds
      PROVE  n \in Holds
  <2> DEFINE l == t.node[n].left
             r == t.node[n].right
  <2>1. /\ under[n] = {n} \cup under[l] \cup under[r]
        /\ l # Null => l \in Children(t, n)
        /\ r # Null => r \in Children(t, n)
        /\ under[n] \subseteq Kin(t) /\ under[l] \subseteq Kin(t) /\ under[r] \subseteq Kin(t)
    BY Sides
  <2>2. /\ \A c \in under[l] : t.node[c].size < t.node[n].size
        /\ \A c \in under[r] : t.node[c].size > t.node[n].size
    BY DEF Shaped, ShapedAt
  <2>3. fit[n] = IF t.node[n].size < size THEN fit[r]
                 ELSE IF t.node[n].size = size \/ fit[l] = Null THEN n ELSE fit[l]
    BY <1>6
  <2> HIDE DEF l, r
  <2>4. Closest(t, size, under[l], fit[l]) /\ Closest(t, size, under[r], fit[r])
    BY <1>7, <1>8, <2>1
  <2>5. CASE t.node[n].size < size
    <3>1. \A c \in under[l] : t.node[c].size < size
      BY <1>1, <2>1, <2>2, <2>5
    <3>2. \A m \in under[n] : t.node[m].size >= size => m \in under[r]
      BY <1>1, <2>1, <2>5, <3>1
    <3>3. under[r] \subseteq under[n]
      BY <2>1
    <3> QED
      BY <2>3, <2>4, <2>5, <3>2, <3>3 DEF Closest
  <2>6. CASE t.node[n].size >= size
    <3>1. \A m \in under[r] : t.node[n].size <= t.node[m].size
      BY <1>1, <2>1, <2>2
    <3>2. \A m \in under[l] : t.node[m].size <= t.node[n].size
      BY <1>1, <2>1, <2>2
    <3>3. \E m \in under[n] : t.node[m].size >= size
      BY <2>1, <2>6
    <3>4. CASE t.node[n].size = size
      <4>1. fit[n] = n
        BY <1>1, <2>3, <3>4
      <4> QED
        BY <2>1, <3>3, <3>4, <4>1 DEF Closest
    <3>5. CASE t.node[n].size # size /\ fit[l] = Null
      <4>1. fit[n] = n
        BY <1>1, <2>3, <2>6, <3>5
      <4>2. \A m \in under[l] : ~(t.node[m].size >= size)
        BY <1>1, <2>1, <2>4, <3>5 DEF Closest
      <4>3. \A m \in under[n] : t.node[m].size >= size => t.node[n].size <= t.node[m].size
        BY <1>1, <2>1, <3>1, <4>2
      <4> QED
        BY <2>1, <2>6, <3>3, <4>1, <4>3 DEF Closest
    <3>6. CASE t.node[n].size # size /\ fit[l] # Null
      <4>1. fit[n] = fit[l]
        BY <1>1, <2>3, <2>6, <3>6
      <4>2. /\ fit[l] \in under[l] /\ t.node[fit[l]].size >= size
            /\ \A m \in under[l] : t.node[m].size >= size => t.node[fit[l]].size <= t.node[m].size
        BY <2>4, <3>6 DEF Closest
      <4>3. \A m \in under[n] : t.node[m].size >= size => t.node[fit[l]].size <= t.node[m].size
        <5> SUFFICES ASSUME NEW m \in under[n], t.node[m].size >= size
                     PROVE  t.node[fit[l]].size <= t.node[m].size
          OBVIOUS
        <5>1. t.node[fit[l]].size <= t.node[n].size
          BY <3>2, <4>2
        <5>2. /\ t.node[fit[l]].size \in Int /\ t.node[n].size \in Int /\ t.node[m].size \in Int
          BY <1>1, <2>1, <4>2
        <5>3. m \in under[l] \/ t.node[n].size <= t.node[m].size
          BY <2>1, <3>1, <5>2
        <5> QED
          BY <4>2, <5>1, <5>2, <5>3
      <4> QED
        BY <2>1, <3>3, <4>1, <4>2, <4>3 DEF Closest
    <3> QED
      BY <3>4, <3>5, <3>6
  <2> QED
    BY <1>1, <2>5, <2>6
<1> HIDE DEF Holds
<1>9. Kin(t) \subseteq Holds
  BY <1>8, TreeInduction
<1> QED
  BY <1>1, <1>4, <1>7, <1>9 DEF Holds

\* The successor of a node is the smallest one on its right.
LEMMA SuccessorFound ==
  ASSUME NEW t, IsFiniteSet(Kin(t)), NEW under, Shaped(t, under),
         NEW n \in Kin(t), t.node[n].right # Null
  PROVE  LET r    == t.node[n].right
             succ == Successor(t, n)
         IN  /\ succ \in under[r] /\ t.node[succ].left = Null
             /\ \A k \in under[r] : t.node[succ].size <= t.node[k].size
<1> DEFINE V == Kin(t) \cup {Null}
           body == [x \in Kin(t) \X V \X V |-> IF t.node[x[1]].left = Null THEN x[1] ELSE x[2]]
           leftmost == CHOOSE f : GoingLeft(t, f)
           First(m, k) == /\ k \in under[m] /\ t.node[k].left = Null
                          /\ \A x \in under[m] : t.node[k].size <= t.node[x].size
           Holds == {m \in Kin(t) : First(m, leftmost[m])}
<1>1. /\ Null \notin Kin(t) /\ under[Null] = {}
      /\ \A m \in Kin(t) : t.node[m].size \in Int
  BY DEF Shaped
<1>2. \E f : GoingLeft(t, f)
  <2>1. body \in [Kin(t) \X V \X V -> V] /\ Null \in V
    OBVIOUS
  <2>2. \A m \in Kin(t), x, y \in V : body[<<m, x, y>>] = IF t.node[m].left = Null THEN m ELSE x
    OBVIOUS
  <2> HIDE DEF body
  <2>3. PICK f : Recurs(t, V, Null, body, f)
    <3> HIDE DEF V
    <3> QED
      BY <2>1, TreeRecursion
  <2> DEFINE g == [m \in Kin(t) |-> f[m]]
  <2>4. ASSUME NEW m \in Kin(t)
        PROVE  f[m] = IF t.node[m].left = Null THEN m ELSE g[t.node[m].left]
    <3>1. t.node[m].left \in V /\ t.node[m].right \in V
      BY Sides
    <3>2. f[t.node[m].left] \in V /\ f[t.node[m].right] \in V
      BY <2>3, <3>1 DEF Recurs
    <3>3. t.node[m].left # Null => g[t.node[m].left] = f[t.node[m].left]
      BY <3>1
    <3> HIDE DEF V
    <3>4. f[m] = body[<<m, f[t.node[m].left], f[t.node[m].right]>>]
      BY <2>3 DEF Recurs
    <3> QED
      BY <2>2, <3>2, <3>3, <3>4
  <2>5. g = [m \in Kin(t) |-> IF t.node[m].left = Null THEN m ELSE g[t.node[m].left]]
    BY <2>4
  <2>6. GoingLeft(t, g)
    <3> HIDE DEF g
    <3> QED
      BY <2>5 DEF GoingLeft
  <2> QED
    BY <2>6
<1>3. GoingLeft(t, leftmost)
  BY <1>2
<1>4. Successor(t, n) = leftmost[t.node[n].right]
  BY SuccessorsAre
<1> HIDE DEF leftmost, body
<1>5. \A m \in Kin(t) : leftmost[m] = IF t.node[m].left = Null THEN m ELSE leftmost[t.node[m].left]
  BY <1>3 DEF GoingLeft
<1>6. ASSUME NEW m \in Kin(t), \A c \in Children(t, m) : c \in Holds
      PROVE  m \in Holds
  <2> DEFINE l == t.node[m].left
             r == t.node[m].right
  <2>1. /\ under[m] = {m} \cup under[l] \cup under[r]
        /\ l # Null => l \in Children(t, m) /\ l \in under[l]
        /\ under[m] \subseteq Kin(t) /\ under[l] \subseteq Kin(t) /\ under[r] \subseteq Kin(t)
    BY Sides
  <2>2. /\ \A c \in under[l] : t.node[c].size < t.node[m].size
        /\ \A c \in under[r] : t.node[c].size > t.node[m].size
    BY DEF Shaped, ShapedAt
  <2>3. leftmost[m] = IF l = Null THEN m ELSE leftmost[l]
    BY <1>5
  <2>4. l = Null => t.node[m].left = Null
    OBVIOUS
  <2> HIDE DEF l, r
  <2>5. CASE l = Null
    <3>1. \A x \in under[m] : t.node[m].size <= t.node[x].size
      BY <1>1, <2>1, <2>2, <2>5
    <3> QED
      BY <2>1, <2>3, <2>4, <2>5, <3>1
  <2>6. CASE l # Null
    <3>1. First(l, leftmost[l])
      BY <1>6, <2>1, <2>6
    <3> DEFINE k == leftmost[l]
    <3>2. /\ k \in under[l] /\ t.node[k].left = Null
          /\ \A x \in under[l] : t.node[k].size <= t.node[x].size
          /\ leftmost[m] = k
      BY <2>3, <2>6, <3>1
    <3> HIDE DEF k
    <3>3. t.node[k].size < t.node[m].size /\ k \in under[m] /\ k \in Kin(t)
      BY <2>1, <2>2, <3>2
    <3>4. ASSUME NEW x \in under[m]
          PROVE  t.node[k].size <= t.node[x].size
      <4>1. t.node[k].size \in Int /\ t.node[x].size \in Int /\ t.node[m].size \in Int
        BY <1>1, <2>1, <3>3
      <4>2. x \in under[r] => t.node[x].size > t.node[m].size
        BY <2>2
      <4> QED
        BY <2>1, <3>2, <3>3, <4>1, <4>2
    <3> QED
      BY <3>2, <3>3, <3>4
  <2> QED
    BY <2>5, <2>6
<1> HIDE DEF Holds
<1>7. Kin(t) \subseteq Holds
  BY <1>6, TreeInduction
<1>8. t.node[n].right \in Kin(t)
  BY Sides
<1> QED
  BY <1>4, <1>7, <1>8 DEF Holds

\* A place for a node of this size below n: the sizes on the way down agree,
\* and p has the size or no child where the size belongs.
PlaceFor(t, under, size, n, p) ==
  /\ p \in under[n]
  /\ \A z \in under[n] : /\ p \in under[t.node[z].left]  => size < t.node[z].size
                         /\ p \in under[t.node[z].right] => size > t.node[z].size
  /\ size > t.node[p].size => t.node[p].right = Null
  /\ size < t.node[p].size => t.node[p].left = Null

\* The descent finds it.
LEMMA PointFound ==
  ASSUME NEW t, IsFiniteSet(Kin(t)), NEW under, Shaped(t, under), NEW size \in Int, t.root # Null
  PROVE  PlaceFor(t, under, size, t.root, InsertionPoint(t, size))
<1> DEFINE V == Kin(t) \cup {Null}
           body == [x \in Kin(t) \X V \X V |->
                      IF size > t.node[x[1]].size /\ t.node[x[1]].right # Null THEN x[3]
                      ELSE IF size < t.node[x[1]].size /\ t.node[x[1]].left # Null THEN x[2]
                      ELSE x[1]]
           at == CHOOSE f : Descending(t, size, f)
           Holds == {n \in Kin(t) : PlaceFor(t, under, size, n, at[n])}
<1>1. /\ Null \notin Kin(t) /\ under[Null] = {} /\ t.root \in Kin(t)
      /\ \A m \in Kin(t) : t.node[m].size \in Int
  BY DEF Shaped
<1>2. \E f : Descending(t, size, f)
  <2>1. body \in [Kin(t) \X V \X V -> V] /\ Null \in V
    OBVIOUS
  <2>2. \A m \in Kin(t), x, y \in V :
          body[<<m, x, y>>] = IF size > t.node[m].size /\ t.node[m].right # Null THEN y
                              ELSE IF size < t.node[m].size /\ t.node[m].left # Null THEN x
                              ELSE m
    OBVIOUS
  <2> HIDE DEF body
  <2>3. PICK f : Recurs(t, V, Null, body, f)
    <3> HIDE DEF V
    <3> QED
      BY <2>1, TreeRecursion
  <2> DEFINE g == [m \in Kin(t) |-> f[m]]
  <2>4. ASSUME NEW m \in Kin(t)
        PROVE  f[m] = IF size > t.node[m].size /\ t.node[m].right # Null THEN g[t.node[m].right]
                      ELSE IF size < t.node[m].size /\ t.node[m].left # Null THEN g[t.node[m].left]
                      ELSE m
    <3>1. t.node[m].left \in V /\ t.node[m].right \in V
      BY Sides
    <3>2. f[t.node[m].left] \in V /\ f[t.node[m].right] \in V
      BY <2>3, <3>1 DEF Recurs
    <3>3. /\ t.node[m].left # Null => g[t.node[m].left] = f[t.node[m].left]
          /\ t.node[m].right # Null => g[t.node[m].right] = f[t.node[m].right]
      BY <3>1
    <3> HIDE DEF V, g
    <3>4. f[m] = body[<<m, f[t.node[m].left], f[t.node[m].right]>>]
      BY <2>3 DEF Recurs
    <3>5. f[m] = IF size > t.node[m].size /\ t.node[m].right # Null THEN f[t.node[m].right]
                 ELSE IF size < t.node[m].size /\ t.node[m].left # Null THEN f[t.node[m].left]
                 ELSE m
      BY <2>2, <3>2, <3>4
    <3> QED
      BY <3>3, <3>5
  <2>5. g = [m \in Kin(t) |-> LET k == t.node[m] IN
                             IF size > k.size /\ k.right # Null THEN g[k.right]
                             ELSE IF size < k.size /\ k.left # Null THEN g[k.left]
                             ELSE m]
    BY <2>4
  <2>6. Descending(t, size, g)
    <3> HIDE DEF g
    <3> QED
      BY <2>5 DEF Descending
  <2> QED
    BY <2>6
<1>3. Descending(t, size, at)
  BY <1>2
<1>4. InsertionPoint(t, size) = at[t.root]
  BY PointsAre
<1> HIDE DEF at, body
<1>5. \A m \in Kin(t) : at[m] = IF size > t.node[m].size /\ t.node[m].right # Null THEN at[t.node[m].right]
                              ELSE IF size < t.node[m].size /\ t.node[m].left # Null THEN at[t.node[m].left]
                              ELSE m
  BY <1>3 DEF Descending
<1>6. ASSUME NEW n \in Kin(t), \A c \in Children(t, n) : c \in Holds
      PROVE  n \in Holds
  <2> DEFINE l == t.node[n].left
             r == t.node[n].right
             p == at[n]
  <2>1. /\ under[n] = {n} \cup under[l] \cup under[r] /\ under[l] \cap under[r] = {}
        /\ n \notin under[l] /\ n \notin under[r]
        /\ l # Null => l \in Children(t, n) /\ l \in Kin(t)
        /\ r # Null => r \in Children(t, n) /\ r \in Kin(t)
        /\ under[n] \subseteq Kin(t) /\ under[l] \subseteq Kin(t) /\ under[r] \subseteq Kin(t)
    BY Sides
  <2>2. at[n] = IF size > t.node[n].size /\ r # Null THEN at[r]
                ELSE IF size < t.node[n].size /\ l # Null THEN at[l] ELSE n
    BY <1>5
  <2>3. \A z \in Kin(t) : /\ under[t.node[z].left] \subseteq under[z] /\ z \notin under[t.node[z].left]
                          /\ under[t.node[z].right] \subseteq under[z] /\ z \notin under[t.node[z].right]
    BY Sides
  <2>4. /\ \A z \in under[l] : under[z] \subseteq under[l]
        /\ \A z \in under[r] : under[z] \subseteq under[r]
    BY <1>1, <2>1, Nested
  <2>5. CASE size > t.node[n].size /\ r # Null
    <3>1. PlaceFor(t, under, size, r, p) /\ p = at[r]
      BY <1>6, <2>1, <2>2, <2>5
    <3>2. ASSUME NEW z \in under[n]
          PROVE  /\ p \in under[t.node[z].left]  => size < t.node[z].size
                 /\ p \in under[t.node[z].right] => size > t.node[z].size
      <4>1. CASE z = n
        BY <2>1, <2>5, <3>1, <4>1 DEF PlaceFor
      <4>2. CASE z \in under[l]
        <5>1. p \in under[r] /\ z \in Kin(t)
          BY <2>1, <3>1, <4>2 DEF PlaceFor
        <5>2. p \notin under[t.node[z].left] /\ p \notin under[t.node[z].right]
          BY <2>1, <2>3, <2>4, <4>2, <5>1
        <5> QED
          BY <5>2
      <4>3. CASE z \in under[r]
        BY <3>1, <4>3 DEF PlaceFor
      <4> QED
        BY <2>1, <4>1, <4>2, <4>3
    <3> HIDE DEF p, l, r
    <3>3. PlaceFor(t, under, size, n, p)
      BY <2>1, <3>1, <3>2 DEF PlaceFor
    <3> QED
      BY <3>3 DEF p
  <2>6. CASE size < t.node[n].size /\ l # Null
    <3>1. PlaceFor(t, under, size, l, p) /\ p = at[l]
      <4>1. t.node[n].size \in Int
        BY <1>1
      <4>2. ~(size > t.node[n].size)
        BY <2>6, <4>1
      <4> QED
        BY <1>6, <2>1, <2>2, <2>6, <4>2
    <3>2. ASSUME NEW z \in under[n]
          PROVE  /\ p \in under[t.node[z].left]  => size < t.node[z].size
                 /\ p \in under[t.node[z].right] => size > t.node[z].size
      <4>1. CASE z = n
        BY <2>1, <2>6, <3>1, <4>1 DEF PlaceFor
      <4>2. CASE z \in under[r]
        <5>1. p \in under[l] /\ z \in Kin(t)
          BY <2>1, <3>1, <4>2 DEF PlaceFor
        <5>2. p \notin under[t.node[z].left] /\ p \notin under[t.node[z].right]
          BY <2>1, <2>3, <2>4, <4>2, <5>1
        <5> QED
          BY <5>2
      <4>3. CASE z \in under[l]
        BY <3>1, <4>3 DEF PlaceFor
      <4> QED
        BY <2>1, <4>1, <4>2, <4>3
    <3> HIDE DEF p, l, r
    <3>3. PlaceFor(t, under, size, n, p)
      BY <2>1, <3>1, <3>2 DEF PlaceFor
    <3> QED
      BY <3>3 DEF p
  <2>7. CASE /\ ~(size > t.node[n].size /\ r # Null)
             /\ ~(size < t.node[n].size /\ l # Null)
    <3>1. p = n
      BY <2>2, <2>7
    <3>2. /\ size > t.node[n].size => t.node[n].right = Null
          /\ size < t.node[n].size => t.node[n].left = Null
      BY <2>7
    <3>3. ASSUME NEW z \in under[n]
          PROVE  n \notin under[t.node[z].left] /\ n \notin under[t.node[z].right]
      <4>1. CASE z = n
        BY <2>1, <4>1
      <4>2. CASE z # n
        <5>1. z \in Kin(t) /\ (under[z] \subseteq under[l] \/ under[z] \subseteq under[r])
          BY <2>1, <2>4, <4>2
        <5> QED
          BY <2>1, <2>3, <5>1
      <4> QED
        BY <4>1, <4>2
    <3> HIDE DEF p, l, r
    <3>4. PlaceFor(t, under, size, n, p)
      BY <2>1, <3>1, <3>2, <3>3 DEF PlaceFor
    <3> QED
      BY <3>4 DEF p
  <2> QED
    BY <2>5, <2>6, <2>7
<1> HIDE DEF Holds
<1>7. Kin(t) \subseteq Holds
  BY <1>6, TreeInduction
<1> QED
  BY <1>1, <1>4, <1>7 DEF Holds

-----------------------------------------------------------------------------
(* Links set.                                                              *)

\* The parts of a tree.
LEMMA TreeFacts ==
  ASSUME NEW t \in TreeType
  PROVE  /\ t = [root |-> t.root, node |-> t.node, count |-> t.count, total |-> t.total]
         /\ t.root \in Int /\ t.count \in Int /\ t.total \in Int
         /\ Kin(t) = DOMAIN t.node /\ Kin(t) \subseteq Nat /\ Null \notin Kin(t) /\ Null \in Int
         /\ t.node \in [Kin(t) -> NodeType]
         /\ \A f : f \in [Kin(t) -> NodeType] => [t EXCEPT !.node = f] \in TreeType
<1>1. PICK S \in SUBSET Nat : t.node \in [S -> NodeType]
  BY DEF TreeType
<1>2. Kin(t) = S /\ S \subseteq Nat /\ Null \notin S
  BY <1>1 DEF Kin, Null
<1>3. t \in [root: Int, node: UNION {[R -> NodeType] : R \in SUBSET Nat}, count: Int, total: Int]
  BY DEF TreeType
<1>4. /\ t = [root |-> t.root, node |-> t.node, count |-> t.count, total |-> t.total]
      /\ t.root \in Int /\ t.count \in Int /\ t.total \in Int
  BY <1>3
<1>5. ASSUME NEW f \in [Kin(t) -> NodeType]
      PROVE  [t EXCEPT !.node = f] \in TreeType
  <2>1. f \in UNION {[R -> NodeType] : R \in SUBSET Nat}
    BY <1>2, <1>5
  <2> QED
    BY <1>3, <2>1 DEF TreeType
<1> QED
  BY <1>1, <1>2, <1>4, <1>5 DEF Kin, Null

\* One node is changed.
LEMMA NodeSet ==
  ASSUME NEW t \in TreeType, NEW p \in Kin(t), NEW m \in NodeType
  PROVE  LET s == [t EXCEPT !.node[p] = m] IN
         /\ s \in TreeType /\ Kin(s) = Kin(t) /\ s.root = t.root /\ s.count = t.count /\ s.total = t.total
         /\ \A x \in Kin(t) : s.node[x] = IF x = p THEN m ELSE t.node[x]
<1> DEFINE f == [t.node EXCEPT ![p] = m]
           s == [t EXCEPT !.node = f]
<1>1. f \in [Kin(t) -> NodeType] /\ \A x \in Kin(t) : f[x] = IF x = p THEN m ELSE t.node[x]
  BY TreeFacts
<1> HIDE DEF f
<1>2. s \in TreeType
  BY <1>1, TreeFacts
<1>3. s.node = f /\ s.root = t.root /\ s.count = t.count /\ s.total = t.total
  BY TreeFacts
<1> HIDE DEF s
<1>4. Kin(s) = Kin(t)
  BY <1>1, <1>3 DEF Kin
<1>5. [t EXCEPT !.node[p] = m] = s
  BY DEF s, f
<1> QED
  BY <1>1, <1>2, <1>3, <1>4, <1>5

\* One link is changed.
LEMMA LinkSet ==
  ASSUME NEW m \in NodeType, NEW c \in Int
  PROVE  /\ [m EXCEPT !.left = c] \in NodeType /\ [m EXCEPT !.right = c] \in NodeType
         /\ [m EXCEPT !.parent = c] \in NodeType /\ [m EXCEPT !.next = c] \in NodeType
BY DEF NodeType

\* u has the nodes of t, with the same sizes and lists.
Relinked(t, u) ==
  /\ u \in TreeType /\ Kin(u) = Kin(t) /\ u.count = t.count /\ u.total = t.total
  /\ \A x \in Kin(t) : u.node[x].size = t.node[x].size /\ u.node[x].next = t.node[x].next

\* A child is hung up on the left, on the right.
LEMMA SetLeftDoes ==
  ASSUME NEW t \in TreeType, NEW p \in Kin(t), NEW c \in Kin(t) \cup {Null}
  PROVE  /\ Relinked(t, SetLeft(t, p, c)) /\ SetLeft(t, p, c).root = t.root
         /\ \A x \in Kin(t) :
              LET m == SetLeft(t, p, c).node[x] IN
              /\ m.left = IF x = p THEN c ELSE t.node[x].left
              /\ m.right = t.node[x].right
              /\ m.parent = IF x = c THEN p ELSE t.node[x].parent
<1> DEFINE m == [t.node[p] EXCEPT !.left = c]
           s == [t EXCEPT !.node[p] = m]
           u == SetLeft(t, p, c)
<1>1. c \in Int /\ p \in Int /\ \A x \in Kin(t) : x # Null /\ t.node[x] \in NodeType
  BY TreeFacts
<1>2. /\ m \in NodeType /\ m.left = c /\ m.right = t.node[p].right /\ m.parent = t.node[p].parent
      /\ m.size = t.node[p].size /\ m.next = t.node[p].next
  BY <1>1, LinkSet DEF NodeType
<1>3. [t EXCEPT !.node[p].left = c] = s
  OBVIOUS
<1> HIDE DEF m
<1>4. /\ s \in TreeType /\ Kin(s) = Kin(t) /\ s.root = t.root /\ s.count = t.count /\ s.total = t.total
      /\ \A x \in Kin(t) : s.node[x] = IF x = p THEN m ELSE t.node[x]
  BY <1>2, NodeSet
<1> HIDE DEF s
<1>5. /\ Relinked(t, s) /\ s.root = t.root
      /\ \A x \in Kin(t) : /\ s.node[x].left = IF x = p THEN c ELSE t.node[x].left
                           /\ s.node[x].right = t.node[x].right
                           /\ s.node[x].parent = t.node[x].parent
  BY <1>2, <1>4 DEF Relinked
<1>6. CASE c = Null
  <2>1. u = s
    BY <1>3, <1>6 DEF SetLeft
  <2> QED
    BY <1>1, <1>5, <1>6, <2>1
<1>7. CASE c # Null
  <2> DEFINE k == [s.node[c] EXCEPT !.parent = p]
             v == [s EXCEPT !.node[c] = k]
  <2>1. u = [s EXCEPT !.node[c].parent = p]
    BY <1>3, <1>7 DEF SetLeft
  <2>2. u = v
    BY <2>1
  <2>3. c \in Kin(s) /\ s.node[c] \in NodeType
    BY <1>4, <1>7, TreeFacts
  <2>4. /\ k \in NodeType /\ k.parent = p /\ k.left = s.node[c].left /\ k.right = s.node[c].right
        /\ k.size = s.node[c].size /\ k.next = s.node[c].next
    BY <1>1, <2>3, LinkSet DEF NodeType
  <2> HIDE DEF k, u
  <2>5. /\ v \in TreeType /\ Kin(v) = Kin(s) /\ v.root = s.root /\ v.count = s.count /\ v.total = s.total
        /\ \A x \in Kin(s) : v.node[x] = IF x = c THEN k ELSE s.node[x]
    BY <1>4, <2>3, <2>4, NodeSet
  <2> HIDE DEF v
  <2>6. /\ Relinked(s, v) /\ v.root = s.root
        /\ \A x \in Kin(s) : /\ v.node[x].left = s.node[x].left /\ v.node[x].right = s.node[x].right
                             /\ v.node[x].parent = IF x = c THEN p ELSE s.node[x].parent
    BY <2>4, <2>5 DEF Relinked
  <2>7. Relinked(t, v)
    BY <1>5, <2>6 DEF Relinked
  <2> QED
    BY <1>4, <1>5, <2>2, <2>6, <2>7 DEF u
<1> QED
  BY <1>6, <1>7

\* set_right_child links a node and its right child.
LEMMA SetRightDoes ==
  ASSUME NEW t \in TreeType, NEW p \in Kin(t), NEW c \in Kin(t) \cup {Null}
  PROVE  /\ Relinked(t, SetRight(t, p, c)) /\ SetRight(t, p, c).root = t.root
         /\ \A x \in Kin(t) :
              LET m == SetRight(t, p, c).node[x] IN
              /\ m.right = IF x = p THEN c ELSE t.node[x].right
              /\ m.left = t.node[x].left
              /\ m.parent = IF x = c THEN p ELSE t.node[x].parent
<1> DEFINE m == [t.node[p] EXCEPT !.right = c]
           s == [t EXCEPT !.node[p] = m]
           u == SetRight(t, p, c)
<1>1. c \in Int /\ p \in Int /\ \A x \in Kin(t) : x # Null /\ t.node[x] \in NodeType
  BY TreeFacts
<1>2. /\ m \in NodeType /\ m.right = c /\ m.left = t.node[p].left /\ m.parent = t.node[p].parent
      /\ m.size = t.node[p].size /\ m.next = t.node[p].next
  BY <1>1, LinkSet DEF NodeType
<1>3. [t EXCEPT !.node[p].right = c] = s
  OBVIOUS
<1> HIDE DEF m
<1>4. /\ s \in TreeType /\ Kin(s) = Kin(t) /\ s.root = t.root /\ s.count = t.count /\ s.total = t.total
      /\ \A x \in Kin(t) : s.node[x] = IF x = p THEN m ELSE t.node[x]
  BY <1>2, NodeSet
<1> HIDE DEF s
<1>5. /\ Relinked(t, s) /\ s.root = t.root
      /\ \A x \in Kin(t) : /\ s.node[x].right = IF x = p THEN c ELSE t.node[x].right
                           /\ s.node[x].left = t.node[x].left
                           /\ s.node[x].parent = t.node[x].parent
  BY <1>2, <1>4 DEF Relinked
<1>6. CASE c = Null
  <2>1. u = s
    BY <1>3, <1>6 DEF SetRight
  <2> QED
    BY <1>1, <1>5, <1>6, <2>1
<1>7. CASE c # Null
  <2> DEFINE k == [s.node[c] EXCEPT !.parent = p]
             v == [s EXCEPT !.node[c] = k]
  <2>1. u = [s EXCEPT !.node[c].parent = p]
    BY <1>3, <1>7 DEF SetRight
  <2>2. u = v
    BY <2>1
  <2>3. c \in Kin(s) /\ s.node[c] \in NodeType
    BY <1>4, <1>7, TreeFacts
  <2>4. /\ k \in NodeType /\ k.parent = p /\ k.left = s.node[c].left /\ k.right = s.node[c].right
        /\ k.size = s.node[c].size /\ k.next = s.node[c].next
    BY <1>1, <2>3, LinkSet DEF NodeType
  <2> HIDE DEF k, u
  <2>5. /\ v \in TreeType /\ Kin(v) = Kin(s) /\ v.root = s.root /\ v.count = s.count /\ v.total = s.total
        /\ \A x \in Kin(s) : v.node[x] = IF x = c THEN k ELSE s.node[x]
    BY <1>4, <2>3, <2>4, NodeSet
  <2> HIDE DEF v
  <2>6. /\ Relinked(s, v) /\ v.root = s.root
        /\ \A x \in Kin(s) : /\ v.node[x].left = s.node[x].left /\ v.node[x].right = s.node[x].right
                             /\ v.node[x].parent = IF x = c THEN p ELSE s.node[x].parent
    BY <2>4, <2>5 DEF Relinked
  <2>7. Relinked(t, v)
    BY <1>5, <2>6 DEF Relinked
  <2> QED
    BY <1>4, <1>5, <2>2, <2>6, <2>7 DEF u
<1> QED
  BY <1>6, <1>7

\* Who is above child: the root has no parent, any other node is on one side
\* of its parent.
HungUp(t, child) ==
  LET p == t.node[child].parent IN
  /\ p \in Kin(t) \cup {Null}
  /\ t.root = child <=> p = Null
  /\ \A x \in Kin(t) : t.node[x].left = child \/ t.node[x].right = child => x = p
  /\ \A x \in Kin(t) : x = p => (t.node[x].left = child <=> t.node[x].right # child)

\* Links of t that lead to child lead to its replacement in u.
Replaced(t, u, child, replacement) ==
  /\ Relinked(t, u)
  /\ u.root = IF t.root = child THEN replacement ELSE t.root
  /\ \A x \in Kin(t) :
       /\ u.node[x].left   = IF t.node[x].left = child THEN replacement ELSE t.node[x].left
       /\ u.node[x].right  = IF t.node[x].right = child THEN replacement ELSE t.node[x].right
       /\ u.node[x].parent = IF x = replacement THEN t.node[child].parent ELSE t.node[x].parent

\* replace_node_in_parent puts one node in the place of another.
LEMMA ReplaceInParentDoes ==
  ASSUME NEW t \in TreeType, NEW child \in Kin(t), NEW replacement \in Kin(t) \cup {Null},
         HungUp(t, child)
  PROVE  Replaced(t, ReplaceInParent(t, child, replacement), child, replacement)
<1> DEFINE p == t.node[child].parent
           u == ReplaceInParent(t, child, replacement)
<1>1. /\ p \in Kin(t) \cup {Null}
      /\ t.root = child <=> p = Null
      /\ \A x \in Kin(t) : t.node[x].left = child \/ t.node[x].right = child => x = p
      /\ \A x \in Kin(t) : x = p => (t.node[x].left = child <=> t.node[x].right # child)
  BY DEF HungUp
<1>2. Null \notin Kin(t) /\ Null \in Int /\ Kin(t) \subseteq Int
  BY TreeFacts
<1>3. CASE p = Null /\ replacement = Null
  <2> DEFINE s == [t EXCEPT !.root = Null]
  <2>1. u = s
    BY <1>3 DEF ReplaceInParent
  <2>2. s \in TreeType /\ s.root = Null /\ s.node = t.node /\ s.count = t.count /\ s.total = t.total
    BY <1>2 DEF TreeType
  <2> HIDE DEF u, s
  <2>3. Kin(s) = Kin(t)
    BY <2>2 DEF Kin
  <2> QED
    BY <1>1, <1>2, <1>3, <2>1, <2>2, <2>3 DEF Replaced, Relinked, u
<1>4. CASE p = Null /\ replacement # Null
  <2> DEFINE s == [t EXCEPT !.root = replacement]
             m == [s.node[replacement] EXCEPT !.parent = Null]
             v == [s EXCEPT !.node[replacement] = m]
  <2>1. u = v
    BY <1>4 DEF ReplaceInParent
  <2>2. /\ s \in TreeType /\ s.root = replacement /\ s.node = t.node
        /\ s.count = t.count /\ s.total = t.total
    BY <1>2 DEF TreeType
  <2> HIDE DEF u, s
  <2>3. Kin(s) = Kin(t) /\ replacement \in Kin(s) /\ s.node[replacement] \in NodeType
    <3>1. Kin(s) = Kin(t)
      BY <2>2 DEF Kin
    <3> QED
      BY <1>4, <2>2, <3>1, TreeFacts
  <2>4. /\ m \in NodeType /\ m.parent = Null
        /\ m.left = s.node[replacement].left /\ m.right = s.node[replacement].right
        /\ m.size = s.node[replacement].size /\ m.next = s.node[replacement].next
    BY <1>2, <2>3, LinkSet DEF NodeType
  <2> HIDE DEF m
  <2>5. /\ v \in TreeType /\ Kin(v) = Kin(s) /\ v.root = s.root /\ v.count = s.count /\ v.total = s.total
        /\ \A x \in Kin(s) : v.node[x] = IF x = replacement THEN m ELSE s.node[x]
    BY <2>2, <2>3, <2>4, NodeSet
  <2> HIDE DEF v
  <2> QED
    BY <1>1, <1>2, <1>4, <2>1, <2>2, <2>3, <2>4, <2>5 DEF Replaced, Relinked, u
<1>5. CASE p # Null /\ t.node[p].left = child
  <2>1. u = SetLeft(t, p, replacement)
    BY <1>5 DEF ReplaceInParent
  <2>2. p \in Kin(t) /\ t.root # child
    BY <1>1, <1>5
  <2> HIDE DEF u, p
  <2>3. /\ Relinked(t, u) /\ u.root = t.root
        /\ \A x \in Kin(t) : /\ u.node[x].left = IF x = p THEN replacement ELSE t.node[x].left
                             /\ u.node[x].right = t.node[x].right
                             /\ u.node[x].parent = IF x = replacement THEN p ELSE t.node[x].parent
    BY <2>1, <2>2, SetLeftDoes
  <2>4. \A x \in Kin(t) : t.node[x].right # child /\ (t.node[x].left = child <=> x = p)
    BY <1>1, <1>5, <2>2
  <2> QED
    BY <2>2, <2>3, <2>4 DEF Replaced, u, p
<1>6. CASE p # Null /\ t.node[p].left # child
  <2>1. u = SetRight(t, p, replacement)
    BY <1>6 DEF ReplaceInParent
  <2>2. p \in Kin(t) /\ t.root # child
    BY <1>1, <1>6
  <2> HIDE DEF u, p
  <2>3. /\ Relinked(t, u) /\ u.root = t.root
        /\ \A x \in Kin(t) : /\ u.node[x].right = IF x = p THEN replacement ELSE t.node[x].right
                             /\ u.node[x].left = t.node[x].left
                             /\ u.node[x].parent = IF x = replacement THEN p ELSE t.node[x].parent
    BY <2>1, <2>2, SetRightDoes
  <2>4. \A x \in Kin(t) : t.node[x].left # child /\ (t.node[x].right = child <=> x = p)
    BY <1>1, <1>6, <2>2
  <2> QED
    BY <2>2, <2>3, <2>4 DEF Replaced, u, p
<1> QED
  BY <1>3, <1>4, <1>5, <1>6

\* Every node of the tree hangs where its parent says.
LEMMA HeadsHang ==
  ASSUME NEW t, IsFiniteSet(Kin(t)), NEW under, Shaped(t, under), NEW n \in Heads(t, under)
  PROVE  n \in Kin(t) /\ HungUp(t, n) /\ (t.node[n].parent # Null => t.node[n].parent \in Heads(t, under))
<1> DEFINE H == under[t.root]
           p == t.node[n].parent
<1>1. /\ Null \notin Kin(t) /\ under[Null] = {} /\ t.root \in Kin(t) \cup {Null}
      /\ t.root # Null => t.node[t.root].parent = Null
      /\ H \subseteq Kin(t) /\ n \in H
  BY DEF Shaped, Heads
<1>2. t.root \in Kin(t) /\ n \in Kin(t)
  BY <1>1
<1>3. n # t.root => p \in H /\ n \in Children(t, p)
  BY <1>1, <1>2, ParentBelow
<1>4. ASSUME NEW x \in Kin(t), t.node[x].left = n \/ t.node[x].right = n
      PROVE  x = p
  <2>1. n \in Children(t, x)
    BY <1>1, <1>2, <1>4 DEF Children
  <2> QED
    BY <2>1 DEF Shaped, ShapedAt
<1>5. ASSUME NEW x \in Kin(t), t.node[x].left = n, t.node[x].right = n
      PROVE  FALSE
  <2>1. n # Null
    BY <1>1, <1>2
  <2>2. n \in under[n] /\ under[n] \cap under[n] = {}
    BY <1>2, <1>5, <2>1, Sides
  <2> QED
    BY <2>2
<1>6. n = t.root <=> p = Null
  BY <1>1, <1>2, <1>3
<1>7. ASSUME NEW x \in Kin(t), x = p
      PROVE  t.node[x].left = n \/ t.node[x].right = n
  <2>1. n # t.root
    BY <1>1, <1>6, <1>7
  <2> QED
    BY <1>3, <1>7, <2>1 DEF Children
<1>8. p \in Kin(t) \cup {Null}
  BY <1>1, <1>3, <1>6
<1> QED
  BY <1>1, <1>2, <1>3, <1>4, <1>5, <1>6, <1>7, <1>8 DEF HungUp, Heads

-----------------------------------------------------------------------------
(* Shapes.                                                                 *)

\* u is t without m, whose only child takes its place.
Spliced(t, u, m, c) ==
  /\ Kin(u) = Kin(t) \ {m}
  /\ u.root = IF t.root = m THEN c ELSE t.root
  /\ \A x \in Kin(u) :
       /\ u.node[x].size   = t.node[x].size
       /\ u.node[x].left   = IF t.node[x].left = m THEN c ELSE t.node[x].left
       /\ u.node[x].right  = IF t.node[x].right = m THEN c ELSE t.node[x].right
       /\ u.node[x].parent = IF x = c THEN t.node[m].parent ELSE t.node[x].parent

OnlyChild(t, m, c) ==
  \/ t.node[m].left = Null /\ c = t.node[m].right
  \/ t.node[m].right = Null /\ c = t.node[m].left

\* A node with one child leaves a tree, the child takes its place.
LEMMA Splice ==
  ASSUME NEW t, IsFiniteSet(Kin(t)), NEW under, Shaped(t, under),
         NEW m \in Heads(t, under), NEW c, OnlyChild(t, m, c), NEW u, Spliced(t, u, m, c)
  PROVE  \E v : Shaped(u, v) /\ Heads(u, v) = Heads(t, under) \ {m}
<1> DEFINE K == Kin(t) \ {m}
           v == [x \in K \cup {Null} |-> under[x] \ {m}]
<1>1. /\ m \in Kin(t) /\ m # Null /\ Null \notin Kin(t) /\ under[Null] = {}
      /\ under \in [Kin(t) \cup {Null} -> SUBSET Kin(t)]
      /\ t.root \in Kin(t) /\ t.node[t.root].parent = Null
      /\ \A x \in Kin(t) : t.node[x].size \in Int
  BY HeadsHang DEF Shaped, Heads
<1>2. /\ c \in K \cup {Null} /\ under[m] = {m} \cup under[c] /\ m \notin under[c]
      /\ c # Null => t.node[c].parent = m
  <2> DEFINE l == t.node[m].left
             r == t.node[m].right
  <2>1. /\ l \in Kin(t) \cup {Null} /\ r \in Kin(t) \cup {Null}
        /\ under[m] = {m} \cup under[l] \cup under[r] /\ under[Null] = {}
        /\ m \notin under[l] /\ m \notin under[r]
        /\ l # Null => l \in under[l] /\ t.node[l].parent = m
        /\ r # Null => r \in under[r] /\ t.node[r].parent = m
    BY <1>1, Sides
  <2>2. (l = Null /\ c = r) \/ (r = Null /\ c = l)
    BY DEF OnlyChild
  <2> HIDE DEF l, r
  <2> QED
    BY <2>1, <2>2
<1>3. /\ v \in [K \cup {Null} -> SUBSET K] /\ v[Null] = {} /\ v[c] = under[m] \ {m}
      /\ \A x \in K \cup {Null} : v[x] = under[x] \ {m}
  BY <1>1, <1>2
<1>4. /\ Kin(u) = K
      /\ u.root = IF t.root = m THEN c ELSE t.root
      /\ \A x \in K :
           /\ u.node[x].size   = t.node[x].size
           /\ u.node[x].left   = IF t.node[x].left = m THEN c ELSE t.node[x].left
           /\ u.node[x].right  = IF t.node[x].right = m THEN c ELSE t.node[x].right
           /\ u.node[x].parent = IF x = c THEN t.node[m].parent ELSE t.node[x].parent
  BY DEF Spliced
<1> HIDE DEF v
<1>5. Heads(u, v) = Heads(t, under) \ {m}
  BY <1>1, <1>2, <1>3, <1>4 DEF Heads
<1>6. u.root # Null => u.node[u.root].parent = Null
  BY <1>1, <1>2, <1>4
<1>7. ASSUME NEW x \in K
      PROVE  ShapedAt(u, v, x)
  <2> DEFINE l == t.node[x].left
             r == t.node[x].right
             L == u.node[x].left
             R == u.node[x].right
  <2>1. /\ l \in Kin(t) \cup {Null} /\ r \in Kin(t) \cup {Null}
        /\ under[x] = {x} \cup under[l] \cup under[r]
        /\ \A d \in under[l] : t.node[d].size < t.node[x].size
        /\ \A d \in under[r] : t.node[d].size > t.node[x].size
        /\ l # Null => t.node[l].parent = x
        /\ r # Null => t.node[r].parent = x
        /\ x \notin Heads(t, under) => l = Null /\ r = Null /\ t.node[x].parent = Null
    <3>1. x \in Kin(t) /\ ShapedAt(t, under, x)
      BY DEF Shaped
    <3> QED
      BY <3>1, Sides DEF ShapedAt
  <2>2. L = (IF l = m THEN c ELSE l) /\ R = (IF r = m THEN c ELSE r)
    BY <1>4
  <2>3. /\ \A k \in K : u.node[k].size = t.node[k].size
        /\ \A k \in K : u.node[k].parent = IF k = c THEN t.node[m].parent ELSE t.node[k].parent
    BY <1>4
  <2>4. Children(u, x) = {L, R} \ {Null}
    BY DEF Children
  <2> HIDE DEF l, r, L, R
  <2>5. /\ L \in K \cup {Null} /\ R \in K \cup {Null}
        /\ v[L] = under[l] \ {m} /\ v[R] = under[r] \ {m} /\ v[x] = under[x] \ {m}
    BY <1>1, <1>2, <1>3, <2>1, <2>2
  <2>6. v[x] = {x} \cup v[L] \cup v[R]
    BY <2>1, <2>5
  <2>7. /\ \A d \in v[L] : u.node[d].size < u.node[x].size
        /\ \A d \in v[R] : u.node[d].size > u.node[x].size
    BY <1>3, <2>1, <2>3, <2>5
  <2>8. L # Null => u.node[L].parent = x
    BY <1>1, <1>2, <2>1, <2>2, <2>3, <2>5
  <2>9. R # Null => u.node[R].parent = x
    BY <1>1, <1>2, <2>1, <2>2, <2>3, <2>5
  <2>10. x \notin Heads(u, v) => L = Null /\ R = Null /\ u.node[x].parent = Null
    <3>1. c \in Heads(t, under) \/ c = Null
      <4>1. c # Null => c \in under[m]
        BY <1>1, <1>2, Sides
      <4>2. under[m] \subseteq Heads(t, under)
        BY <1>1, Nested DEF Heads
      <4> QED
        BY <4>1, <4>2
    <3>2. x \notin Heads(u, v) => x \notin Heads(t, under)
      BY <1>5
    <3> QED
      BY <1>1, <1>2, <2>1, <2>2, <2>3, <3>1, <3>2
  <2> QED
    BY <1>4, <2>4, <2>5, <2>6, <2>7, <2>8, <2>9, <2>10 DEF ShapedAt, L, R
<1>8. Shaped(u, v)
  BY <1>1, <1>2, <1>3, <1>4, <1>6, <1>7 DEF Shaped
<1> QED
  BY <1>5, <1>8

\* u is t with b in the place of n, and with a size that fits there.
Renamed(t, u, n, b) ==
  /\ Kin(u) = (Kin(t) \ {n}) \cup {b}
  /\ u.root = IF t.root = n THEN b ELSE t.root
  /\ \A x \in Kin(u) :
       LET y == IF x = b THEN n ELSE x IN
       /\ u.node[x].left   = IF t.node[y].left = n THEN b ELSE t.node[y].left
       /\ u.node[x].right  = IF t.node[y].right = n THEN b ELSE t.node[y].right
       /\ u.node[x].parent = IF t.node[y].parent = n THEN b ELSE t.node[y].parent
  /\ \A x \in Kin(t) \ {n} : u.node[x].size = t.node[x].size

SizeFits(t, under, n, size) ==
  /\ size \in Int
  /\ \A x \in Heads(t, under) : /\ t.node[x].size < t.node[n].size => t.node[x].size < size
                                /\ t.node[x].size > t.node[n].size => t.node[x].size > size

\* A node takes the place of another one.
LEMMA Rename ==
  ASSUME NEW t, IsFiniteSet(Kin(t)), NEW under, Shaped(t, under), NEW n \in Heads(t, under),
         NEW b, b \notin Kin(t), b # Null, NEW u, Renamed(t, u, n, b), SizeFits(t, under, n, u.node[b].size)
  PROVE  \E v : Shaped(u, v) /\ Heads(u, v) = (Heads(t, under) \ {n}) \cup {b}
<1> DEFINE K == (Kin(t) \ {n}) \cup {b}
           Old(x) == IF x = b THEN n ELSE x
           New(x) == IF x = n THEN b ELSE x
           Swap(S) == IF n \in S THEN (S \ {n}) \cup {b} ELSE S
           v == [x \in K \cup {Null} |-> Swap(under[Old(x)])]
           H == Heads(t, under)
<1>1. /\ n \in Kin(t) /\ n # Null /\ n # b /\ Null \notin Kin(t) /\ under[Null] = {}
      /\ under \in [Kin(t) \cup {Null} -> SUBSET Kin(t)]
      /\ t.root \in Kin(t) /\ t.node[t.root].parent = Null
      /\ \A x \in Kin(t) : t.node[x].size \in Int
      /\ H = under[t.root] /\ n \in H /\ H \subseteq Kin(t)
  BY HeadsHang DEF Shaped, Heads
<1>2. \A S \in SUBSET Kin(t) : /\ Swap(S) \subseteq K
                               /\ \A x \in Kin(t) \ {n} : x \in Swap(S) <=> x \in S
                               /\ b \in Swap(S) <=> n \in S
                               /\ n \notin Swap(S)
  BY <1>1
<1>3. /\ v \in [K \cup {Null} -> SUBSET K] /\ v[Null] = {}
      /\ \A y \in Kin(t) \cup {Null} : v[New(y)] = Swap(under[y]) /\ New(y) \in K \cup {Null}
      /\ \A x \in K : Old(x) \in Kin(t) /\ v[x] = Swap(under[Old(x)])
  BY <1>1, <1>2
<1>4. /\ Kin(u) = K /\ u.root = New(t.root)
      /\ \A x \in K : /\ u.node[x].left   = New(t.node[Old(x)].left)
                      /\ u.node[x].right  = New(t.node[Old(x)].right)
                      /\ u.node[x].parent = New(t.node[Old(x)].parent)
      /\ \A x \in Kin(t) \ {n} : u.node[x].size = t.node[x].size
      /\ u.node[b].size \in Int
  BY DEF Renamed, SizeFits
<1>5. \A x \in K : u.node[x].size \in Int
  BY <1>1, <1>4
<1>6. H \in SUBSET Kin(t) /\ Swap(H) = (H \ {n}) \cup {b}
  BY <1>1
<1> HIDE DEF v
<1>7. Heads(u, v) = Swap(H)
  BY <1>1, <1>3, <1>4 DEF Heads
<1>8. u.root # Null => u.node[u.root].parent = Null
  <2>1. New(t.root) \in K /\ Old(New(t.root)) = t.root
    BY <1>1
  <2> QED
    BY <1>1, <1>4, <2>1
<1>9. ASSUME NEW x \in K
      PROVE  ShapedAt(u, v, x)
  <2> DEFINE y == Old(x)
             l == t.node[y].left
             r == t.node[y].right
             L == u.node[x].left
             R == u.node[x].right
  <2>1. /\ l \in Kin(t) \cup {Null} /\ r \in Kin(t) \cup {Null}
        /\ under[y] = {y} \cup under[l] \cup under[r] /\ y \notin under[l] /\ y \notin under[r]
        /\ \A d \in under[l] : t.node[d].size < t.node[y].size
        /\ \A d \in under[r] : t.node[d].size > t.node[y].size
        /\ l # Null => t.node[l].parent = y
        /\ r # Null => t.node[r].parent = y
        /\ y \notin H => l = Null /\ r = Null /\ t.node[y].parent = Null
        /\ y \in Kin(t)
    <3>1. y \in Kin(t) /\ ShapedAt(t, under, y)
      BY <1>3 DEF Shaped
    <3> QED
      BY <3>1, Sides DEF ShapedAt
  <2>2. /\ L = New(l) /\ R = New(r) /\ u.node[x].parent = New(t.node[y].parent)
        /\ x = New(y)
    BY <1>1, <1>4
  <2>3. Children(u, x) = {L, R} \ {Null}
    BY DEF Children
  <2> HIDE DEF l, r, L, R, y, Old
  <2>4. /\ L \in K \cup {Null} /\ R \in K \cup {Null}
        /\ v[L] = Swap(under[l]) /\ v[R] = Swap(under[r]) /\ v[x] = Swap(under[y])
    BY <1>3, <2>1, <2>2
  <2>5. under[l] \in SUBSET Kin(t) /\ under[r] \in SUBSET Kin(t) /\ under[y] \in SUBSET Kin(t)
    BY <1>1, <2>1
  <2>6. v[x] = {x} \cup v[L] \cup v[R]
    <3>1. Swap(under[y]) = {New(y)} \cup Swap(under[l]) \cup Swap(under[r])
      <4> HIDE DEF v
      <4> QED
        BY <1>1, <2>1, <2>5
    <3> HIDE DEF Swap, New
    <3> QED
      BY <2>2, <2>4, <3>1
  <2>7. y \in H => \A d \in under[l] \cup under[r] : d \in H
    <3>1. y \in H => under[y] \subseteq H
      BY <1>1, Nested
    <3> QED
      BY <2>1, <3>1
  <2>8. /\ \A d \in v[L] : u.node[d].size < u.node[x].size
        /\ \A d \in v[R] : u.node[d].size > u.node[x].size
    <3>1. \A d \in H : /\ t.node[d].size < t.node[n].size => t.node[d].size < u.node[b].size
                       /\ t.node[d].size > t.node[n].size => t.node[d].size > u.node[b].size
      BY DEF SizeFits
    <3>2. under[l] \cup under[r] # {} => y \in H
      BY <1>1, <2>1
    <3>3. ASSUME NEW d \in v[L]
          PROVE  u.node[d].size < u.node[x].size
      <4>1. d \in Swap(under[l]) /\ under[l] # {}
        BY <2>4, <3>3
      <4>2. y \in H
        BY <3>2, <4>1
      <4>3. CASE y = n
        <5>1. x = b /\ d # b /\ d \in under[l] /\ d # n /\ d \in H
          BY <1>1, <1>2, <2>1, <2>2, <2>5, <2>7, <4>1, <4>2, <4>3
        <5>2. t.node[d].size < t.node[n].size /\ u.node[d].size = t.node[d].size
          BY <1>1, <1>4, <2>1, <4>3, <5>1
        <5>3. t.node[d].size < u.node[b].size
          BY <3>1, <5>1, <5>2
        <5> QED
          BY <5>1, <5>2, <5>3
      <4>4. CASE y # n
        <5>1. x = y /\ u.node[x].size = t.node[y].size
          BY <1>4, <2>1, <2>2, <4>4
        <5>2. CASE d = b
          <6>1. n \in under[l]
            BY <1>2, <2>5, <4>1, <5>2
          <6>2. t.node[n].size < t.node[y].size
            BY <2>1, <6>1
          <6>3. t.node[y].size > t.node[n].size
            BY <1>1, <2>1, <6>2
          <6> QED
            BY <1>1, <1>5, <2>1, <3>1, <4>2, <4>4, <5>1, <5>2, <6>3
        <5>3. CASE d # b
          BY <1>1, <1>4, <2>1, <2>5, <4>1, <5>1, <5>3
        <5> QED
          BY <5>2, <5>3
      <4> QED
        BY <4>3, <4>4
    <3>4. ASSUME NEW d \in v[R]
          PROVE  u.node[d].size > u.node[x].size
      <4>1. d \in Swap(under[r]) /\ under[r] # {}
        BY <2>4, <3>4
      <4>2. y \in H
        BY <3>2, <4>1
      <4>3. CASE y = n
        <5>1. x = b /\ d # b /\ d \in under[r] /\ d # n /\ d \in H
          BY <1>1, <1>2, <2>1, <2>2, <2>5, <2>7, <4>1, <4>2, <4>3
        <5>2. t.node[d].size > t.node[n].size /\ u.node[d].size = t.node[d].size
          BY <1>1, <1>4, <2>1, <4>3, <5>1
        <5>3. t.node[d].size > u.node[b].size
          BY <3>1, <5>1, <5>2
        <5> QED
          BY <5>1, <5>2, <5>3
      <4>4. CASE y # n
        <5>1. x = y /\ u.node[x].size = t.node[y].size
          BY <1>4, <2>1, <2>2, <4>4
        <5>2. CASE d = b
          <6>1. n \in under[r]
            BY <1>2, <2>5, <4>1, <5>2
          <6>2. t.node[n].size > t.node[y].size
            BY <2>1, <6>1
          <6>3. t.node[y].size < t.node[n].size
            BY <1>1, <2>1, <6>2
          <6>4. t.node[y].size < u.node[b].size
            BY <3>1, <4>2, <6>3
          <6>5. u.node[b].size \in Int /\ t.node[y].size \in Int
            BY <1>1, <1>4, <2>1
          <6> QED
            BY <5>1, <5>2, <6>4, <6>5
        <5>3. CASE d # b
          BY <1>1, <1>4, <2>1, <2>5, <4>1, <5>1, <5>3
        <5> QED
          BY <5>2, <5>3
      <4> QED
        BY <4>3, <4>4
    <3> QED
      BY <3>3, <3>4
  <2>9. L # Null => u.node[L].parent = x
    <3> SUFFICES ASSUME L # Null
                 PROVE  u.node[L].parent = x
      OBVIOUS
    <3>1. l \in Kin(t) /\ L \in K /\ Old(L) = l
      BY <1>1, <2>1, <2>2, <2>4 DEF Old
    <3>2. u.node[L].parent = New(t.node[l].parent)
      BY <1>4, <3>1
    <3> QED
      BY <1>1, <2>1, <2>2, <3>1, <3>2
  <2>10. R # Null => u.node[R].parent = x
    <3> SUFFICES ASSUME R # Null
                 PROVE  u.node[R].parent = x
      OBVIOUS
    <3>1. r \in Kin(t) /\ R \in K /\ Old(R) = r
      BY <1>1, <2>1, <2>2, <2>4 DEF Old
    <3>2. u.node[R].parent = New(t.node[r].parent)
      BY <1>4, <3>1
    <3> QED
      BY <1>1, <2>1, <2>2, <3>1, <3>2
  <2>11. x \notin Heads(u, v) => L = Null /\ R = Null /\ u.node[x].parent = Null
    <3>1. x \notin Heads(u, v) => y \notin H
      BY <1>1, <1>6, <1>7, <2>1, <2>2
    <3> QED
      BY <1>1, <2>1, <2>2, <3>1
  <2> QED
    BY <1>4, <2>3, <2>4, <2>6, <2>8, <2>9, <2>10, <2>11 DEF ShapedAt, L, R
<1>10. Null \notin K /\ u.root \in K \cup {Null}
  BY <1>1, <1>4
<1>11. Shaped(u, v)
  BY <1>3, <1>4, <1>5, <1>8, <1>9, <1>10 DEF Shaped
<1> QED
  BY <1>6, <1>7, <1>11

\* A node that is not under n is larger than all under n or smaller than all.
LEMMA Apart ==
  ASSUME NEW t, IsFiniteSet(Kin(t)), NEW under, Shaped(t, under)
  PROVE  \A k \in Kin(t) : \A n \in under[k] : \A x \in under[k] \ under[n] : \A m \in under[n] :
           /\ t.node[x].size > t.node[n].size => t.node[x].size > t.node[m].size
           /\ t.node[x].size < t.node[n].size => t.node[x].size < t.node[m].size
<1> DEFINE Right(x, n, m) ==
             /\ t.node[x].size > t.node[n].size => t.node[x].size > t.node[m].size
             /\ t.node[x].size < t.node[n].size => t.node[x].size < t.node[m].size
           Holds == {k \in Kin(t) : \A n \in under[k] : \A x \in under[k] \ under[n] :
                                      \A m \in under[n] : Right(x, n, m)}
<1>1. under[Null] = {} /\ \A c \in Kin(t) : t.node[c].size \in Int
  BY DEF Shaped
<1>2. ASSUME NEW k \in Kin(t), \A c \in Children(t, k) : c \in Holds
      PROVE  k \in Holds
  <2> DEFINE l == t.node[k].left
             r == t.node[k].right
  <2>1. /\ under[k] = {k} \cup under[l] \cup under[r]
        /\ l # Null => l \in Children(t, k) /\ l \in Kin(t)
        /\ r # Null => r \in Children(t, k) /\ r \in Kin(t)
        /\ under[k] \subseteq Kin(t)
    BY Sides
  <2>2. /\ \A c \in under[l] : t.node[c].size < t.node[k].size
        /\ \A c \in under[r] : t.node[c].size > t.node[k].size
    BY DEF Shaped, ShapedAt
  <2> HIDE DEF l, r
  <2>3. /\ \A n \in under[l] : under[n] \subseteq under[l]
        /\ \A n \in under[r] : under[n] \subseteq under[r]
    BY <1>1, <2>1, Nested
  <2>4. /\ \A n \in under[l] : \A x \in under[l] \ under[n] : \A m \in under[n] : Right(x, n, m)
        /\ \A n \in under[r] : \A x \in under[r] \ under[n] : \A m \in under[n] : Right(x, n, m)
    BY <1>1, <1>2, <2>1
  <2>5. ASSUME NEW n \in under[k], NEW x \in under[k] \ under[n], NEW m \in under[n]
        PROVE  Right(x, n, m)
    <3>1. /\ t.node[n].size \in Int /\ t.node[x].size \in Int /\ t.node[k].size \in Int
          /\ m \in Kin(t) /\ t.node[m].size \in Int
      BY <1>1, <2>1, <2>3
    <3>2. n # k
      OBVIOUS
    <3>3. CASE n \in under[l]
      <4>1. m \in under[l] /\ t.node[m].size < t.node[k].size /\ t.node[n].size < t.node[k].size
        BY <2>2, <2>3, <3>3
      <4>2. CASE x \in under[l]
        BY <2>4, <3>3, <4>2
      <4>3. CASE x \notin under[l]
        <5>1. x = k \/ t.node[x].size > t.node[k].size
          BY <2>1, <2>2, <4>3
        <5> QED
          BY <3>1, <4>1, <5>1
      <4> QED
        BY <4>2, <4>3
    <3>4. CASE n \in under[r]
      <4>1. m \in under[r] /\ t.node[m].size > t.node[k].size /\ t.node[n].size > t.node[k].size
        BY <2>2, <2>3, <3>4
      <4>2. CASE x \in under[r]
        BY <2>4, <3>4, <4>2
      <4>3. CASE x \notin under[r]
        <5>1. x = k \/ t.node[x].size < t.node[k].size
          BY <2>1, <2>2, <4>3
        <5> QED
          BY <3>1, <4>1, <5>1
      <4> QED
        BY <4>2, <4>3
    <3> QED
      BY <2>1, <3>2, <3>3, <3>4
  <2> QED
    BY <2>5
<1> HIDE DEF Holds
<1>3. Kin(t) \subseteq Holds
  BY <1>2, TreeInduction
<1> QED
  BY <1>3 DEF Holds

\* What remove_node_from_tree finds at a node with two children.
LEMMA SuccessorFacts ==
  ASSUME NEW t, IsFiniteSet(Kin(t)), NEW under, Shaped(t, under), NEW n \in Heads(t, under),
         t.node[n].left # Null, t.node[n].right # Null
  PROVE  LET l    == t.node[n].left
             r    == t.node[n].right
             succ == Successor(t, n)
             p    == t.node[succ].parent
             c    == t.node[succ].right
         IN  /\ succ \in Heads(t, under) /\ succ \in Kin(t) /\ succ # n /\ succ # l /\ succ # Null
             /\ t.node[succ].left = Null
             /\ l \in Kin(t) /\ r \in Kin(t) /\ l # r /\ l # n /\ r # n
             /\ p \in Kin(t) /\ p # succ /\ (p = n <=> r = succ) /\ (p # n => t.node[p].left = succ)
             /\ c \in Kin(t) \cup {Null} /\ c # n /\ c # l /\ c # r /\ c # succ
             /\ t.node[succ].size \in Int
             /\ \A x \in Heads(t, under) : x # succ =>
                  /\ t.node[x].size < t.node[n].size => t.node[x].size < t.node[succ].size
                  /\ t.node[x].size > t.node[n].size => t.node[x].size > t.node[succ].size
<1> DEFINE l    == t.node[n].left
           r    == t.node[n].right
           succ == Successor(t, n)
           p    == t.node[succ].parent
           c    == t.node[succ].right
           H    == Heads(t, under)
<1>1. /\ n \in Kin(t) /\ n \in H /\ H \subseteq Kin(t) /\ t.root \in Kin(t) /\ H = under[t.root]
      /\ Null \notin Kin(t) /\ under[Null] = {} /\ \A x \in Kin(t) : t.node[x].size \in Int
      /\ l # Null /\ r # Null
  BY HeadsHang DEF Shaped, Heads
<1>2. /\ l \in Kin(t) /\ r \in Kin(t) /\ l \in under[l] /\ r \in under[r]
      /\ under[n] = {n} \cup under[l] \cup under[r] /\ under[l] \cap under[r] = {}
      /\ n \notin under[l] /\ n \notin under[r]
      /\ t.node[l].parent = n /\ t.node[r].parent = n
  BY <1>1, Sides
<1>3. /\ succ \in under[r] /\ t.node[succ].left = Null
      /\ \A k \in under[r] : t.node[succ].size <= t.node[k].size
  BY <1>1, SuccessorFound
<1>4. /\ \A d \in under[l] : t.node[d].size < t.node[n].size
      /\ \A d \in under[r] : t.node[d].size > t.node[n].size
  BY <1>1 DEF Shaped, ShapedAt
<1> HIDE DEF l, r, succ, H
<1>5. under[n] \subseteq H /\ under[r] \subseteq H /\ under[r] \subseteq Kin(t)
  BY <1>1, <1>2, Nested
<1>6. succ \in H /\ succ \in Kin(t) /\ succ # n /\ succ # l /\ succ # Null
  BY <1>1, <1>2, <1>3, <1>5
<1>7. p \in Kin(t) /\ p # succ /\ (p = n <=> r = succ) /\ (p # n => t.node[p].left = succ)
  <2>1. succ = r => p = n
    BY <1>2
  <2>2. ASSUME succ # r
        PROVE  p \in under[r] /\ t.node[p].left = succ
    <3>1. p \in under[r] /\ succ \in Children(t, p)
      BY <1>2, <1>3, <2>2, ParentBelow
    <3>2. p \in Kin(t)
      BY <1>5, <3>1
    <3>3. t.node[p].right # succ
      <4> SUFFICES ASSUME t.node[p].right = succ
                   PROVE  FALSE
        OBVIOUS
      <4>1. succ \in under[t.node[p].right]
        BY <1>6, <3>2, Sides
      <4>2. t.node[succ].size > t.node[p].size
        BY <3>2, <4>1 DEF Shaped, ShapedAt
      <4>3. t.node[succ].size <= t.node[p].size
        BY <1>3, <3>1
      <4>4. t.node[succ].size \in Int /\ t.node[p].size \in Int
        BY <1>1, <1>6, <3>2
      <4> QED
        BY <4>2, <4>3, <4>4
    <3> QED
      BY <3>1, <3>3 DEF Children
  <2>3. p \in Kin(t) /\ (p = n <=> r = succ) /\ (p # n => t.node[p].left = succ)
    BY <1>1, <1>2, <1>5, <2>1, <2>2
  <2>4. p # succ
    BY <1>2, <1>3, <1>6, <2>1, <2>2
  <2> QED
    BY <2>3, <2>4
<1>8. c \in Kin(t) \cup {Null} /\ c # n /\ c # l /\ c # r /\ c # succ
  <2>1. /\ c \in Kin(t) \cup {Null} /\ c # Null => c \in under[succ] /\ t.node[c].parent = succ
        /\ under[succ] \subseteq under[r] /\ succ \notin under[c]
    BY <1>2, <1>3, <1>6, Sides, Nested
  <2>2. c # Null => c \in under[r] /\ c \in under[c]
    <3>1. c # Null => c \in under[c] /\ under[c] \subseteq under[succ]
      BY <1>6, Sides
    <3> QED
      BY <2>1, <3>1
  <2>3. c \in Kin(t) \cup {Null}
    BY <1>6, Sides
  <2> QED
    BY <1>1, <1>2, <1>6, <2>1, <2>2, <2>3
<1>9. t.node[succ].size > t.node[n].size /\ t.node[succ].size \in Int
  BY <1>1, <1>3, <1>4, <1>6
<1>10. ASSUME NEW x \in H, t.node[x].size > t.node[n].size
       PROVE  x = succ \/ t.node[x].size > t.node[succ].size
  <2>1. /\ x \in Kin(t) /\ t.node[x].size \in Int /\ t.node[n].size \in Int
        /\ t.node[succ].size \in Int
    BY <1>1, <1>6
  <2>2. CASE x \notin under[n]
    <3>1. \A m \in under[n] : t.node[x].size > t.node[m].size
      BY <1>1, <1>10, <2>2, Apart
    <3> QED
      BY <1>2, <1>3, <3>1
  <2>3. CASE x \in under[n]
    <3>1. x \in under[r]
      BY <1>1, <1>2, <1>4, <1>10, <2>1, <2>3
    <3>2. t.node[succ].size <= t.node[x].size
      BY <1>3, <3>1
    <3>3. t.node[succ].size = t.node[x].size => succ = x
      BY <1>1, <1>6, SizesDiffer
    <3> QED
      BY <2>1, <3>2, <3>3
  <2> QED
    BY <2>2, <2>3
<1>11. \A x \in H : t.node[x].size < t.node[n].size => t.node[x].size < t.node[succ].size
  BY <1>1, <1>9
<1> QED
  BY <1>1, <1>2, <1>3, <1>6, <1>7, <1>8, <1>9, <1>10, <1>11 DEF l, r, succ, H

\* The links once a node with two children is unlinked: succ has its place.
TakenOver(t, u, n, succ) ==
  LET l == t.node[n].left
      r == t.node[n].right
      p == t.node[succ].parent
      c == t.node[succ].right
  IN  /\ Relinked(t, u)
      /\ u.root = IF t.root = n THEN succ ELSE t.root
      /\ \A x \in Kin(t) \ {n} :
           /\ u.node[x].left = IF x = succ THEN l
                               ELSE IF t.node[x].left = n THEN succ
                               ELSE IF t.node[x].left = succ THEN c ELSE t.node[x].left
           /\ u.node[x].right = IF x = succ THEN (IF p = n THEN c ELSE r)
                                ELSE IF t.node[x].right = n THEN succ ELSE t.node[x].right
           /\ u.node[x].parent = IF x = l \/ (p # n /\ x = r) THEN succ
                                 ELSE IF x = succ THEN t.node[n].parent
                                 ELSE IF p # n /\ x = c THEN p ELSE t.node[x].parent

\* The successor takes the place of a node with two children.
LEMMA UnlinkTwo ==
  ASSUME NEW t \in TreeType, IsFiniteSet(Kin(t)), NEW under, Shaped(t, under), NEW n \in Heads(t, under),
         t.node[n].left # Null, t.node[n].right # Null
  PROVE  TakenOver(t, Unlink(t, n), n, Successor(t, n))
<1> DEFINE l    == t.node[n].left
           r    == t.node[n].right
           succ == Successor(t, n)
           p    == t.node[succ].parent
           c    == t.node[succ].right
           s    == IF p = n THEN t ELSE SetLeft(t, p, c)
           q    == ReplaceInParent(s, n, succ)
           v    == SetLeft(q, succ, l)
           u    == Unlink(t, n)
<1>1. u = IF p = n THEN v ELSE SetRight(v, succ, r)
  BY DEF Unlink
<1>2. /\ succ \in Heads(t, under) /\ succ \in Kin(t) /\ succ # n /\ succ # l /\ succ # Null
      /\ t.node[succ].left = Null
      /\ l \in Kin(t) /\ r \in Kin(t) /\ l # r /\ l # n /\ r # n
      /\ p \in Kin(t) /\ p # succ /\ (p = n <=> r = succ) /\ (p # n => t.node[p].left = succ)
      /\ c \in Kin(t) \cup {Null} /\ c # n /\ c # l /\ c # r /\ c # succ
  BY SuccessorFacts
<1>3. n \in Kin(t) /\ n # Null /\ HungUp(t, n) /\ Null \notin Kin(t) /\ HungUp(t, succ)
  BY <1>2, HeadsHang, TreeFacts
<1>4. \A x \in Kin(t) : t.node[x].left = succ \/ t.node[x].right = succ => x = p
  BY <1>3 DEF HungUp
<1>5. t.node[n].parent \in Kin(t) \cup {Null} /\ (t.root = n <=> t.node[n].parent = Null)
  BY <1>3 DEF HungUp
<1> HIDE DEF l, r, succ, p, c
<1>6. /\ Relinked(t, s) /\ s.root = t.root
      /\ \A x \in Kin(t) :
           /\ s.node[x].left = IF p # n /\ x = p THEN c ELSE t.node[x].left
           /\ s.node[x].right = t.node[x].right
           /\ s.node[x].parent = IF p # n /\ x = c THEN p ELSE t.node[x].parent
  <2>1. CASE p = n
    <3>1. s = t
      BY <2>1
    <3> QED
      BY <2>1, <3>1 DEF Relinked
  <2>2. CASE p # n
    <3>1. s = SetLeft(t, p, c)
      BY <2>2
    <3> HIDE DEF s
    <3> QED
      BY <1>2, <2>2, <3>1, SetLeftDoes
  <2> QED
    BY <2>1, <2>2
<1> HIDE DEF s
<1>7. s \in TreeType /\ Kin(s) = Kin(t) /\ n \in Kin(s) /\ succ \in Kin(s)
  BY <1>2, <1>3, <1>6 DEF Relinked
<1>8. HungUp(s, n) /\ s.node[n].parent = t.node[n].parent
  <2>1. s.node[n].parent = t.node[n].parent
    BY <1>2, <1>3, <1>6
  <2>2. \A x \in Kin(t) : (s.node[x].left = n <=> t.node[x].left = n) /\ (s.node[x].right = n <=> t.node[x].right = n)
    BY <1>2, <1>3, <1>6
  <2> QED
    BY <1>3, <1>6, <1>7, <2>1, <2>2 DEF HungUp
<1>9. Replaced(s, q, n, succ)
  BY <1>7, <1>8, ReplaceInParentDoes
<1> HIDE DEF q
<1>10. /\ Relinked(s, q) /\ q.root = IF s.root = n THEN succ ELSE s.root
       /\ \A x \in Kin(t) :
            /\ q.node[x].left   = IF s.node[x].left = n THEN succ ELSE s.node[x].left
            /\ q.node[x].right  = IF s.node[x].right = n THEN succ ELSE s.node[x].right
            /\ q.node[x].parent = IF x = succ THEN t.node[n].parent ELSE s.node[x].parent
  BY <1>7, <1>8, <1>9 DEF Replaced
<1>11. q \in TreeType /\ Kin(q) = Kin(t)
  BY <1>7, <1>10 DEF Relinked
<1>12. /\ Relinked(q, v) /\ v.root = q.root
       /\ \A x \in Kin(t) :
            /\ v.node[x].left   = IF x = succ THEN l ELSE q.node[x].left
            /\ v.node[x].right  = q.node[x].right
            /\ v.node[x].parent = IF x = l THEN succ ELSE q.node[x].parent
  BY <1>2, <1>11, SetLeftDoes
<1> HIDE DEF v
<1>13. v \in TreeType /\ Kin(v) = Kin(t)
  BY <1>11, <1>12 DEF Relinked
<1>14. /\ Relinked(v, u) /\ u.root = v.root
       /\ \A x \in Kin(t) :
            /\ u.node[x].left   = v.node[x].left
            /\ u.node[x].right  = IF p # n /\ x = succ THEN r ELSE v.node[x].right
            /\ u.node[x].parent = IF p # n /\ x = r THEN succ ELSE v.node[x].parent
  <2> HIDE DEF u
  <2>1. CASE p = n
    BY <1>1, <1>13, <2>1 DEF Relinked
  <2>2. CASE p # n
    <3>1. u = SetRight(v, succ, r)
      BY <1>1, <2>2
    <3> QED
      BY <1>2, <1>13, <2>2, <3>1, SetRightDoes
  <2> QED
    BY <2>1, <2>2
<1> HIDE DEF u
<1>15. Relinked(t, u) /\ u.root = IF t.root = n THEN succ ELSE t.root
  BY <1>6, <1>7, <1>10, <1>11, <1>12, <1>13, <1>14 DEF Relinked
<1>16. ASSUME NEW x \in Kin(t) \ {n}
       PROVE  /\ u.node[x].left = IF x = succ THEN l
                                  ELSE IF t.node[x].left = n THEN succ
                                  ELSE IF t.node[x].left = succ THEN c ELSE t.node[x].left
              /\ u.node[x].right = IF x = succ THEN (IF p = n THEN c ELSE r)
                                   ELSE IF t.node[x].right = n THEN succ ELSE t.node[x].right
              /\ u.node[x].parent = IF x = l \/ (p # n /\ x = r) THEN succ
                                    ELSE IF x = succ THEN t.node[n].parent
                                    ELSE IF p # n /\ x = c THEN p ELSE t.node[x].parent
  <2>1. u.node[x].left = IF x = succ THEN l
                         ELSE IF t.node[x].left = n THEN succ
                         ELSE IF t.node[x].left = succ THEN c ELSE t.node[x].left
    <3>1. u.node[x].left = IF x = succ THEN l
                           ELSE IF s.node[x].left = n THEN succ ELSE s.node[x].left
      BY <1>10, <1>12, <1>14
    <3>2. t.node[x].left = succ <=> p # n /\ x = p
      BY <1>2, <1>4
    <3>3. s.node[x].left = IF t.node[x].left = succ THEN c ELSE t.node[x].left
      BY <1>6, <3>2
    <3> QED
      BY <1>2, <3>1, <3>3
  <2>2. u.node[x].right = IF x = succ THEN (IF p = n THEN c ELSE r)
                          ELSE IF t.node[x].right = n THEN succ ELSE t.node[x].right
    <3>1. u.node[x].right = IF p # n /\ x = succ THEN r
                            ELSE IF t.node[x].right = n THEN succ ELSE t.node[x].right
      BY <1>6, <1>10, <1>12, <1>14
    <3>2. t.node[succ].right = c
      BY DEF c
    <3> QED
      BY <1>2, <3>1, <3>2
  <2>3. u.node[x].parent = IF x = l \/ (p # n /\ x = r) THEN succ
                           ELSE IF x = succ THEN t.node[n].parent
                           ELSE IF p # n /\ x = c THEN p ELSE t.node[x].parent
    BY <1>2, <1>6, <1>10, <1>12, <1>14
  <2> QED
    BY <2>1, <2>2, <2>3
<1> QED
  BY <1>15, <1>16 DEF TakenOver, l, r, p, c, succ, u

\* w is u without n.
Less(u, w, n) ==
  /\ Kin(w) = Kin(u) \ {n} /\ w.root = u.root
  /\ \A x \in Kin(w) : w.node[x] = u.node[x]

\* Once n is unlinked it can be given up.
LEMMA UnlinkShapes ==
  ASSUME NEW t \in TreeType, IsFiniteSet(Kin(t)), NEW under, Shaped(t, under), NEW n \in Heads(t, under),
         NEW w, Less(Unlink(t, n), w, n)
  PROVE  /\ Relinked(t, Unlink(t, n))
         /\ \E v : Shaped(w, v) /\ Heads(w, v) = Heads(t, under) \ {n}
<1> DEFINE l == t.node[n].left
           r == t.node[n].right
           u == Unlink(t, n)
<1>1. /\ n \in Kin(t) /\ n # Null /\ HungUp(t, n) /\ l \in Kin(t) \cup {Null} /\ r \in Kin(t) \cup {Null}
  <2>1. n \in Kin(t) /\ HungUp(t, n) /\ Null \notin Kin(t)
    BY HeadsHang, TreeFacts
  <2>2. l \in Kin(t) \cup {Null} /\ r \in Kin(t) \cup {Null}
    BY <2>1, Sides
  <2> QED
    BY <2>1, <2>2
<1>2. ASSUME NEW c \in Kin(t) \cup {Null}, OnlyChild(t, n, c), u = ReplaceInParent(t, n, c)
      PROVE  Relinked(t, u) /\ \E v : Shaped(w, v) /\ Heads(w, v) = Heads(t, under) \ {n}
  <2> HIDE DEF u
  <2>1. Replaced(t, u, n, c)
    BY <1>1, <1>2, ReplaceInParentDoes
  <2>2. Less(u, w, n)
    BY DEF u
  <2>3. Spliced(t, w, n, c)
    BY <2>1, <2>2 DEF Replaced, Relinked, Spliced, Less
  <2>4. Relinked(t, u)
    BY <2>1 DEF Replaced
  <2> QED
    BY <1>2, <2>3, <2>4, Splice
<1>3. CASE l = Null
  <2>1. u = ReplaceInParent(t, n, r) /\ OnlyChild(t, n, r)
    BY <1>3 DEF Unlink, OnlyChild
  <2> QED
    BY <1>1, <1>2, <2>1
<1>4. CASE l # Null /\ r = Null
  <2>1. u = ReplaceInParent(t, n, l) /\ OnlyChild(t, n, l)
    BY <1>4 DEF Unlink, OnlyChild
  <2> QED
    BY <1>1, <1>2, <2>1
<1>5. CASE l # Null /\ r # Null
  <2> DEFINE succ == Successor(t, n)
             p == t.node[succ].parent
             c == t.node[succ].right
             K == Kin(t) \ {succ}
             New(x) == [size |-> t.node[x].size,
                        left |-> IF t.node[x].left = succ THEN c ELSE t.node[x].left,
                        right |-> IF t.node[x].right = succ THEN c ELSE t.node[x].right,
                        parent |-> IF x = c THEN p ELSE t.node[x].parent]
             g == [x \in K |-> New(x)]
             q == [root |-> t.root, node |-> g]
  <2>1. /\ succ \in Heads(t, under) /\ succ \in Kin(t) /\ succ # n /\ succ # l /\ succ # Null
        /\ t.node[succ].left = Null
        /\ l \in Kin(t) /\ r \in Kin(t) /\ l # r /\ l # n /\ r # n
        /\ p \in Kin(t) /\ p # succ /\ (p = n <=> r = succ) /\ (p # n => t.node[p].left = succ)
        /\ c \in Kin(t) \cup {Null} /\ c # n /\ c # l /\ c # r /\ c # succ
        /\ t.node[succ].size \in Int
        /\ \A x \in Heads(t, under) : x # succ =>
             /\ t.node[x].size < t.node[n].size => t.node[x].size < t.node[succ].size
             /\ t.node[x].size > t.node[n].size => t.node[x].size > t.node[succ].size
    BY <1>5, SuccessorFacts
  <2>2. TakenOver(t, u, n, succ)
    BY <1>5, UnlinkTwo
  <2>3. HungUp(t, succ) /\ t.root # succ /\ Null \notin Kin(t)
    <3>1. HungUp(t, succ) /\ Null \notin Kin(t)
      BY <2>1, HeadsHang, TreeFacts
    <3> QED
      BY <2>1, <3>1 DEF HungUp
  <2>4. Kin(q) = K /\ q.root = t.root /\ \A x \in K : q.node[x] = New(x)
    BY DEF Kin
  <2> HIDE DEF q, g, succ, p, c
  <2>5. ASSUME NEW x \in K
        PROVE  /\ q.node[x].size = t.node[x].size
               /\ q.node[x].left = IF t.node[x].left = succ THEN c ELSE t.node[x].left
               /\ q.node[x].right = IF t.node[x].right = succ THEN c ELSE t.node[x].right
               /\ q.node[x].parent = IF x = c THEN p ELSE t.node[x].parent
    <3>1. /\ New(x).size = t.node[x].size
          /\ New(x).left = IF t.node[x].left = succ THEN c ELSE t.node[x].left
          /\ New(x).right = IF t.node[x].right = succ THEN c ELSE t.node[x].right
          /\ New(x).parent = IF x = c THEN p ELSE t.node[x].parent
      OBVIOUS
    <3>2. q.node[x] = New(x)
      BY <2>4
    <3> HIDE DEF New
    <3> QED
      BY <3>1, <3>2
  <2>6. Spliced(t, q, succ, c) /\ OnlyChild(t, succ, c)
    BY <2>1, <2>3, <2>4, <2>5 DEF Spliced, OnlyChild, p, c
  <2>7. PICK mid : Shaped(q, mid) /\ Heads(q, mid) = Heads(t, under) \ {succ}
    BY <2>1, <2>6, Splice
  <2>8. IsFiniteSet(Kin(q)) /\ succ \notin Kin(q) /\ n \in Kin(q) /\ n \in Heads(q, mid) /\ Kin(q) = Kin(t) \ {succ}
    <3>1. IsFiniteSet(Kin(q))
      BY <2>4, FS_Subset
    <3> QED
      BY <1>1, <2>1, <2>4, <2>7, <3>1
  <2>9. /\ Kin(u) = Kin(t) /\ Kin(w) = Kin(t) \ {n}
        /\ u.root = IF t.root = n THEN succ ELSE t.root
        /\ w.root = u.root
        /\ \A x \in Kin(t) : u.node[x].size = t.node[x].size
        /\ \A x \in Kin(t) \ {n} :
             /\ w.node[x] = u.node[x]
             /\ u.node[x].left = IF x = succ THEN l
                                 ELSE IF t.node[x].left = n THEN succ
                                 ELSE IF t.node[x].left = succ THEN c ELSE t.node[x].left
             /\ u.node[x].right = IF x = succ THEN (IF p = n THEN c ELSE r)
                                  ELSE IF t.node[x].right = n THEN succ ELSE t.node[x].right
             /\ u.node[x].parent = IF x = l \/ (p # n /\ x = r) THEN succ
                                   ELSE IF x = succ THEN t.node[n].parent
                                   ELSE IF p # n /\ x = c THEN p ELSE t.node[x].parent
    BY <2>2 DEF TakenOver, Relinked, Less, p, c
  <2>10. /\ \A x \in Kin(t) : t.node[x].parent = n => x = l \/ x = r
         /\ t.node[l].parent = n /\ t.node[r].parent = n
         /\ t.node[n].parent # n
    <3>1. ASSUME NEW x \in Kin(t), t.node[x].parent = n
          PROVE  x = l \/ x = r
      <4>1. x \in Heads(t, under)
        BY <1>1, <3>1 DEF Shaped, ShapedAt
      <4>2. x # t.root
        BY <1>1, <3>1 DEF Shaped
      <4>3. t.root \in Kin(t) /\ Heads(t, under) = under[t.root]
        BY <4>1 DEF Shaped, Heads
      <4>4. x \in Children(t, n)
        BY <3>1, <4>1, <4>2, <4>3, ParentBelow
      <4> QED
        BY <4>4 DEF Children
    <3>2. t.node[l].parent = n /\ t.node[r].parent = n
      BY <1>1, <1>5, Sides
    <3>3. t.node[n].parent # n
      <4>1. t.node[n].left # n /\ t.node[n].right # n
        BY <2>1
      <4> QED
        BY <1>1, <4>1 DEF HungUp
    <3> QED
      BY <3>1, <3>2, <3>3
  <2>11. \A x \in Kin(t) : t.node[x].left = succ \/ t.node[x].right = succ => x = p
    BY <2>3 DEF HungUp, p
  <2>12. c # Null => t.node[c].parent = succ
    BY <2>1, Sides DEF c
  <2>13. p # n => t.node[p].right # succ
    BY <2>1, <2>3 DEF HungUp, p
  <2> HIDE DEF u, l, r
  <2>14. Renamed(q, w, n, succ)
    <3>1. Kin(w) = (Kin(q) \ {n}) \cup {succ}
      BY <2>1, <2>8, <2>9
    <3>2. w.root = IF q.root = n THEN succ ELSE q.root
      BY <2>4, <2>9
    <3>3. ASSUME NEW x \in Kin(w), x = succ
          PROVE  /\ w.node[x].left   = IF q.node[n].left = n THEN succ ELSE q.node[n].left
                 /\ w.node[x].right  = IF q.node[n].right = n THEN succ ELSE q.node[n].right
                 /\ w.node[x].parent = IF q.node[n].parent = n THEN succ ELSE q.node[n].parent
      <4>1. /\ q.node[n].left = l /\ q.node[n].right = (IF r = succ THEN c ELSE r)
            /\ q.node[n].parent = t.node[n].parent
        BY <2>1, <2>5, <2>8 DEF l, r
      <4>2. w.node[x].left = l /\ w.node[x].right = (IF p = n THEN c ELSE r)
        BY <2>1, <2>9, <3>3
      <4>3. w.node[x].parent = t.node[n].parent
        BY <2>1, <2>9, <3>3
      <4> QED
        BY <2>1, <2>10, <4>1, <4>2, <4>3
    <3>4. ASSUME NEW x \in Kin(w), x # succ
          PROVE  /\ w.node[x].left   = IF q.node[x].left = n THEN succ ELSE q.node[x].left
                 /\ w.node[x].right  = IF q.node[x].right = n THEN succ ELSE q.node[x].right
                 /\ w.node[x].parent = IF q.node[x].parent = n THEN succ ELSE q.node[x].parent
      <4>1. x \in Kin(t) /\ x # n /\ x \in K
        BY <2>9, <3>4
      <4>2. w.node[x].left = IF q.node[x].left = n THEN succ ELSE q.node[x].left
        BY <2>1, <2>5, <2>9, <3>4, <4>1
      <4>3. w.node[x].right = IF q.node[x].right = n THEN succ ELSE q.node[x].right
        BY <2>1, <2>5, <2>9, <2>11, <2>13, <3>4, <4>1
      <4>4. w.node[x].parent = IF q.node[x].parent = n THEN succ ELSE q.node[x].parent
        BY <2>1, <2>3, <2>5, <2>9, <2>10, <2>12, <3>4, <4>1
      <4> QED
        BY <4>2, <4>3, <4>4
    <3>5. \A x \in Kin(q) \ {n} : w.node[x].size = q.node[x].size
      BY <2>4, <2>5, <2>8, <2>9
    <3> QED
      BY <3>1, <3>2, <3>3, <3>4, <3>5 DEF Renamed
  <2>15. SizeFits(q, mid, n, w.node[succ].size)
    <3>1. w.node[succ].size = t.node[succ].size
      BY <2>1, <2>9
    <3>2. \A x \in Heads(q, mid) : x \in Kin(q) /\ x \in Heads(t, under) /\ x # succ /\ q.node[x].size = t.node[x].size
      <4>1. Heads(q, mid) \subseteq Kin(q)
        BY <2>7 DEF Heads, Shaped
      <4> QED
        BY <2>5, <2>7, <2>8, <4>1
    <3>3. q.node[n].size = t.node[n].size
      BY <2>8, <3>2
    <3> QED
      BY <2>1, <3>1, <3>2, <3>3 DEF SizeFits
  <2>16. PICK v : Shaped(w, v) /\ Heads(w, v) = (Heads(q, mid) \ {n}) \cup {succ}
    <3>1. succ # Null
      BY <2>1, <2>3
    <3>2. /\ IsFiniteSet(Kin(q)) /\ Shaped(q, mid) /\ n \in Heads(q, mid)
          /\ succ \notin Kin(q) /\ succ # Null
      BY <2>7, <2>8, <3>1
    <3>3. \E v : Shaped(w, v) /\ Heads(w, v) = (Heads(q, mid) \ {n}) \cup {succ}
      BY <2>14, <2>15, <3>2, Rename
    <3> QED
      BY <3>3
  <2>17. Heads(w, v) = Heads(t, under) \ {n}
    BY <2>1, <2>7, <2>16
  <2>18. Relinked(t, u)
    BY <2>2 DEF TakenOver
  <2> QED
    BY <2>16, <2>17, <2>18 DEF u
<1> QED
  BY <1>3, <1>4, <1>5

\* The nodes of a set have the same links and sizes in u.
SameNodes(t, u, S) ==
  \A x \in S : /\ u.node[x].size = t.node[x].size
               /\ u.node[x].left = t.node[x].left
               /\ u.node[x].right = t.node[x].right
               /\ u.node[x].parent = t.node[x].parent

\* The nodes under a node are in the tree if it is, else there are no others.
LEMMA UnderHeads ==
  ASSUME NEW t, IsFiniteSet(Kin(t)), NEW under, Shaped(t, under), NEW x \in Kin(t)
  PROVE  /\ x \in Heads(t, under) => under[x] \subseteq Heads(t, under)
         /\ x \notin Heads(t, under) => under[x] = {x}
<1>1. x \in Heads(t, under) => under[x] \subseteq Heads(t, under)
  <2> SUFFICES ASSUME x \in Heads(t, under)
               PROVE  under[x] \subseteq Heads(t, under)
    OBVIOUS
  <2>1. t.root \in Kin(t) /\ Heads(t, under) = under[t.root]
    BY DEF Shaped, Heads
  <2> QED
    BY <2>1, Nested
<1>2. x \notin Heads(t, under) => under[x] = {x}
  BY DEF Shaped, ShapedAt
<1> QED
  BY <1>1, <1>2

\* Links of lists are no links of the tree: nothing changes.
LEMMA SameShape ==
  ASSUME NEW t, NEW under, Shaped(t, under),
         NEW u, Kin(u) = Kin(t), u.root = t.root, SameNodes(t, u, Kin(t))
  PROVE  Shaped(u, under) /\ Heads(u, under) = Heads(t, under)
<1>1. Heads(u, under) = Heads(t, under)
  BY DEF Heads
<1>2. ASSUME NEW x \in Kin(t)
      PROVE  ShapedAt(u, under, x)
  <2>1. ShapedAt(t, under, x) /\ under \in [Kin(t) \cup {Null} -> SUBSET Kin(t)]
    BY DEF Shaped
  <2>2. /\ t.node[x].left \in Kin(t) \cup {Null} /\ t.node[x].right \in Kin(t) \cup {Null}
        /\ under[t.node[x].left] \subseteq Kin(t) /\ under[t.node[x].right] \subseteq Kin(t)
        /\ Children(t, x) \subseteq Kin(t) /\ Children(u, x) = Children(t, x)
    BY <2>1 DEF ShapedAt, Children, SameNodes
  <2> QED
    BY <1>1, <2>1, <2>2 DEF ShapedAt, SameNodes
<1> QED
  BY <1>1, <1>2 DEF Shaped, SameNodes

\* A follower is no part of the tree.
LEMMA DropFollower ==
  ASSUME NEW t, IsFiniteSet(Kin(t)), NEW under, Shaped(t, under), NEW b \in Kin(t) \ Heads(t, under),
         NEW u, Kin(u) = Kin(t) \ {b}, u.root = t.root, SameNodes(t, u, Kin(u))
  PROVE  \E v : Shaped(u, v) /\ Heads(u, v) = Heads(t, under)
<1> DEFINE K == Kin(t) \ {b}
           v == [x \in K \cup {Null} |-> under[x]]
<1>1. /\ under \in [Kin(t) \cup {Null} -> SUBSET Kin(t)] /\ under[Null] = {} /\ Null \notin Kin(t)
      /\ t.root \in Kin(t) \cup {Null} /\ \A x \in Kin(t) : x \in under[x]
      /\ \A x \in Kin(t) : t.node[x].size \in Int
  BY Sides DEF Shaped
<1>2. \A x \in K : b \notin under[x]
  BY UnderHeads
<1>3. v \in [K \cup {Null} -> SUBSET K] /\ v[Null] = {} /\ \A x \in K \cup {Null} : v[x] = under[x]
  BY <1>1, <1>2
<1> HIDE DEF v
<1>4. t.root \in K \cup {Null}
  BY <1>1 DEF Heads
<1>5. Heads(u, v) = Heads(t, under)
  BY <1>3, <1>4 DEF Heads
<1>6. ASSUME NEW x \in K
      PROVE  ShapedAt(u, v, x)
  <2>1. x \in Kin(t) /\ ShapedAt(t, under, x)
    BY DEF Shaped
  <2>2. /\ t.node[x].left \in Kin(t) \cup {Null} /\ t.node[x].right \in Kin(t) \cup {Null}
        /\ t.node[x].left # b /\ t.node[x].right # b
    <3>1. /\ t.node[x].left \in Kin(t) \cup {Null} /\ t.node[x].right \in Kin(t) \cup {Null}
          /\ under[t.node[x].left] \subseteq under[x] /\ under[t.node[x].right] \subseteq under[x]
      BY <2>1 DEF ShapedAt
    <3> QED
      BY <1>1, <1>2, <3>1
  <2>3. /\ t.node[x].left \in K \cup {Null} /\ t.node[x].right \in K \cup {Null}
        /\ v[t.node[x].left] = under[t.node[x].left] /\ v[t.node[x].right] = under[t.node[x].right]
        /\ under[t.node[x].left] \subseteq K /\ under[t.node[x].right] \subseteq K
        /\ Children(t, x) \subseteq K /\ Children(u, x) = Children(t, x) /\ v[x] = under[x]
    BY <1>3, <2>2 DEF Children, SameNodes
  <2> QED
    BY <1>5, <2>1, <2>3 DEF ShapedAt, SameNodes
<1>7. Shaped(u, v)
  BY <1>1, <1>3, <1>4, <1>6 DEF Shaped, SameNodes
<1> QED
  BY <1>5, <1>7

\* A new node is not in the tree as long as nothing leads to it.
LEMMA AddFollower ==
  ASSUME NEW t, IsFiniteSet(Kin(t)), NEW under, Shaped(t, under), NEW b, b \notin Kin(t), b # Null,
         NEW u, Kin(u) = Kin(t) \cup {b}, u.root = t.root, SameNodes(t, u, Kin(t)),
         u.node[b].left = Null, u.node[b].right = Null, u.node[b].parent = Null, u.node[b].size \in Int
  PROVE  \E v : Shaped(u, v) /\ Heads(u, v) = Heads(t, under)
<1> DEFINE K == Kin(t) \cup {b}
           v == [x \in K \cup {Null} |-> IF x = b THEN {b} ELSE under[x]]
<1>1. /\ under \in [Kin(t) \cup {Null} -> SUBSET Kin(t)] /\ under[Null] = {} /\ Null \notin Kin(t)
      /\ t.root \in Kin(t) \cup {Null}
      /\ \A x \in Kin(t) : t.node[x].size \in Int
  BY DEF Shaped
<1>2. /\ v \in [K \cup {Null} -> SUBSET K] /\ v[Null] = {} /\ v[b] = {b}
      /\ \A x \in Kin(t) \cup {Null} : v[x] = under[x]
  BY <1>1
<1> HIDE DEF v
<1>3. Heads(u, v) = Heads(t, under) /\ b \notin Heads(u, v)
  BY <1>1, <1>2 DEF Heads
<1>4. ASSUME NEW x \in Kin(t)
      PROVE  ShapedAt(u, v, x)
  <2>1. ShapedAt(t, under, x)
    BY DEF Shaped
  <2>2. t.node[x].left \in Kin(t) \cup {Null} /\ t.node[x].right \in Kin(t) \cup {Null}
    BY <2>1 DEF ShapedAt
  <2>3. /\ v[t.node[x].left] = under[t.node[x].left] /\ v[t.node[x].right] = under[t.node[x].right]
        /\ under[t.node[x].left] \subseteq Kin(t) /\ under[t.node[x].right] \subseteq Kin(t)
        /\ Children(t, x) \subseteq Kin(t) /\ Children(u, x) = Children(t, x) /\ v[x] = under[x]
    BY <1>1, <1>2, <2>2 DEF Children, SameNodes
  <2> QED
    BY <1>3, <2>1, <2>2, <2>3 DEF ShapedAt, SameNodes
<1>5. ShapedAt(u, v, b)
  BY <1>2, <1>3 DEF ShapedAt, Children
<1>6. Null \notin K /\ u.root \in K \cup {Null} /\ (u.root # Null => u.node[u.root].parent = Null)
  BY <1>1 DEF Shaped, SameNodes
<1>7. Shaped(u, v)
  BY <1>1, <1>2, <1>4, <1>5, <1>6 DEF Shaped, SameNodes
<1> QED
  BY <1>3, <1>7

\* The first node of a tree.
LEMMA FirstNode ==
  ASSUME NEW t, IsFiniteSet(Kin(t)), NEW under, Shaped(t, under), t.root = Null, NEW b \in Kin(t),
         NEW u, Kin(u) = Kin(t), u.root = b, SameNodes(t, u, Kin(t))
  PROVE  Shaped(u, under) /\ Heads(u, under) = {b}
<1>1. Heads(t, under) = {} /\ under[b] = {b} /\ t.node[b].parent = Null
  <2>1. Heads(t, under) = {}
    BY DEF Heads, Shaped
  <2> QED
    BY <2>1, UnderHeads DEF Shaped, ShapedAt
<1>2. Heads(u, under) = {b}
  BY <1>1 DEF Heads
<1>3. ASSUME NEW x \in Kin(t)
      PROVE  ShapedAt(u, under, x)
  <2>1. ShapedAt(t, under, x) /\ under \in [Kin(t) \cup {Null} -> SUBSET Kin(t)]
    BY DEF Shaped
  <2>2. /\ t.node[x].left = Null /\ t.node[x].right = Null /\ t.node[x].parent = Null
        /\ under[Null] = {}
    BY <1>1, <2>1 DEF ShapedAt, Shaped
  <2> QED
    BY <1>1, <2>1, <2>2 DEF ShapedAt, SameNodes, Children
<1> QED
  BY <1>1, <1>2, <1>3 DEF Shaped, SameNodes

\* b becomes the child of p on the side where its size belongs.
Hung(t, u, p, b) ==
  /\ Kin(u) = Kin(t) /\ u.root = t.root
  /\ t.node[b].size # t.node[p].size
  /\ \A x \in Kin(t) :
       /\ u.node[x].size = t.node[x].size
       /\ u.node[x].left = IF x = p /\ t.node[b].size < t.node[p].size THEN b ELSE t.node[x].left
       /\ u.node[x].right = IF x = p /\ t.node[b].size > t.node[p].size THEN b ELSE t.node[x].right
       /\ u.node[x].parent = IF x = b THEN p ELSE t.node[x].parent

\* A node comes in where the search ends.
LEMMA Hang ==
  ASSUME NEW t, IsFiniteSet(Kin(t)), NEW under, Shaped(t, under), t.root # Null,
         NEW b \in Kin(t) \ Heads(t, under), NEW p, PlaceFor(t, under, t.node[b].size, t.root, p),
         NEW u, Hung(t, u, p, b)
  PROVE  \E v : Shaped(u, v) /\ Heads(u, v) = Heads(t, under) \cup {b}
<1> DEFINE K == Kin(t)
           H == Heads(t, under)
           More(S) == IF p \in S THEN S \cup {b} ELSE S
           v == [x \in K \cup {Null} |-> More(under[x])]
<1>1. /\ under \in [K \cup {Null} -> SUBSET K] /\ under[Null] = {} /\ Null \notin K
      /\ t.root \in K /\ t.node[t.root].parent = Null /\ H = under[t.root] /\ H \subseteq K
      /\ \A x \in K : t.node[x].size \in Int
      /\ b \in K /\ b \notin H /\ b # Null
  BY DEF Shaped, Heads
<1>2. /\ p \in H /\ p \in K /\ p # b /\ p \in under[p] /\ under[b] = {b}
      /\ t.node[b].left = Null /\ t.node[b].right = Null /\ t.node[b].parent = Null
      /\ t.node[b].size \in Int /\ t.node[p].size \in Int
      /\ t.node[b].size > t.node[p].size => t.node[p].right = Null
      /\ t.node[b].size < t.node[p].size => t.node[p].left = Null
  <2>1. /\ p \in H
        /\ t.node[b].size > t.node[p].size => t.node[p].right = Null
        /\ t.node[b].size < t.node[p].size => t.node[p].left = Null
    BY <1>1 DEF PlaceFor
  <2>2. p \in under[p] /\ under[b] = {b}
    BY <1>1, <2>1, Sides, UnderHeads
  <2>3. t.node[b].left = Null /\ t.node[b].right = Null /\ t.node[b].parent = Null
    BY <1>1 DEF Shaped, ShapedAt
  <2> QED
    BY <1>1, <2>1, <2>2, <2>3
<1>3. \A z \in H : /\ p \in under[t.node[z].left]  => t.node[b].size < t.node[z].size
                   /\ p \in under[t.node[z].right] => t.node[b].size > t.node[z].size
  BY <1>1 DEF PlaceFor
<1>4. \A x \in K : x # b => b \notin under[x]
  BY UnderHeads
<1>5. /\ v \in [K \cup {Null} -> SUBSET K] /\ v[Null] = {} /\ v[b] = {b}
      /\ \A x \in K \cup {Null} : v[x] = More(under[x])
  BY <1>1, <1>2
<1>6. /\ Kin(u) = K /\ u.root = t.root
      /\ t.node[b].size # t.node[p].size
      /\ \A x \in K :
           /\ u.node[x].size = t.node[x].size
           /\ u.node[x].left = IF x = p /\ t.node[b].size < t.node[p].size THEN b ELSE t.node[x].left
           /\ u.node[x].right = IF x = p /\ t.node[b].size > t.node[p].size THEN b ELSE t.node[x].right
           /\ u.node[x].parent = IF x = b THEN p ELSE t.node[x].parent
  BY DEF Hung
<1> HIDE DEF v, H
<1>7. Heads(u, v) = H \cup {b}
  BY <1>1, <1>2, <1>5, <1>6 DEF Heads
<1>8. ASSUME NEW x \in K
      PROVE  ShapedAt(u, v, x)
  <2> DEFINE l == t.node[x].left
             r == t.node[x].right
             L == u.node[x].left
             R == u.node[x].right
  <2>1. /\ l \in K \cup {Null} /\ r \in K \cup {Null} /\ x \in under[x]
        /\ under[x] = {x} \cup under[l] \cup under[r] /\ x \notin under[l] /\ x \notin under[r]
        /\ l # Null => l \in under[l] /\ t.node[l].parent = x
        /\ r # Null => r \in under[r] /\ t.node[r].parent = x
    BY Sides
  <2>2. /\ \A d \in under[l] : t.node[d].size < t.node[x].size
        /\ \A d \in under[r] : t.node[d].size > t.node[x].size
        /\ x \notin H => l = Null /\ r = Null /\ t.node[x].parent = Null
    BY DEF Shaped, ShapedAt, H
  <2>3. l # b /\ r # b
    BY <1>1, <1>2, <1>4, <2>1
  <2>4. Children(u, x) = {L, R} \ {Null}
    BY DEF Children
  <2>5. u.node[x].size = t.node[x].size /\ t.node[x].size \in Int
    BY <1>1, <1>6
  <2>6. u.node[x].parent = IF x = b THEN p ELSE t.node[x].parent
    BY <1>6
  <2>7. under[x] \subseteq K /\ under[l] \subseteq K /\ under[r] \subseteq K
    BY <1>1, <2>1
  <2>8. x \notin Heads(u, v) => x \notin H /\ x # p /\ x # b
    BY <1>2, <1>7
  <2>9. CASE x = p
    <3>1. CASE t.node[b].size < t.node[p].size
      <4>1. L = b /\ R = r /\ l = Null
        BY <1>2, <1>6, <2>9, <3>1
      <4> HIDE DEF l, r, L, R
      <4>2. v[L] = {b} /\ v[R] = under[r] /\ v[x] = {x} \cup {b} \cup under[r]
        BY <1>1, <1>2, <1>5, <2>1, <2>9, <4>1
      <4>3. \A d \in v[L] : u.node[d].size < u.node[x].size
        BY <1>1, <1>6, <2>5, <2>9, <3>1, <4>2
      <4>4. \A d \in v[R] : u.node[d].size > u.node[x].size
        BY <1>6, <2>2, <2>5, <2>7, <4>2
      <4>5. /\ L # Null => u.node[L].parent = x
            /\ R # Null => u.node[R].parent = x
        BY <1>1, <1>6, <2>1, <2>3, <2>9, <4>1
      <4>6. L \in K \cup {Null} /\ R \in K \cup {Null} /\ v[x] = {x} \cup v[L] \cup v[R]
        BY <1>1, <2>1, <4>1, <4>2
      <4> QED
        BY <1>6, <2>4, <2>8, <2>9, <4>3, <4>4, <4>5, <4>6 DEF ShapedAt, L, R
    <3>2. CASE ~(t.node[b].size < t.node[p].size)
      <4>1. t.node[b].size > t.node[p].size
        BY <1>2, <1>6, <3>2
      <4>2. L = l /\ R = b /\ r = Null
        BY <1>2, <1>6, <2>9, <3>2, <4>1
      <4> HIDE DEF l, r, L, R
      <4>3. v[L] = under[l] /\ v[R] = {b} /\ v[x] = {x} \cup {b} \cup under[l]
        BY <1>1, <1>2, <1>5, <2>1, <2>9, <4>2
      <4>4. \A d \in v[R] : u.node[d].size > u.node[x].size
        BY <1>1, <1>6, <2>5, <2>9, <4>1, <4>3
      <4>5. \A d \in v[L] : u.node[d].size < u.node[x].size
        BY <1>6, <2>2, <2>5, <2>7, <4>3
      <4>6. /\ L # Null => u.node[L].parent = x
            /\ R # Null => u.node[R].parent = x
        BY <1>1, <1>6, <2>1, <2>3, <2>9, <4>2
      <4>7. L \in K \cup {Null} /\ R \in K \cup {Null} /\ v[x] = {x} \cup v[L] \cup v[R]
        BY <1>1, <2>1, <4>2, <4>3
      <4> QED
        BY <1>6, <2>4, <2>8, <2>9, <4>4, <4>5, <4>6, <4>7 DEF ShapedAt, L, R
    <3> QED
      BY <3>1, <3>2
  <2>10. CASE x # p
    <3>1. L = l /\ R = r
      BY <1>6, <2>10
    <3> HIDE DEF l, r, L, R
    <3>2. /\ L \in K \cup {Null} /\ R \in K \cup {Null}
          /\ v[L] = More(under[l]) /\ v[R] = More(under[r]) /\ v[x] = More(under[x])
      BY <1>5, <2>1, <3>1
    <3>3. v[x] = {x} \cup v[L] \cup v[R]
      BY <2>1, <2>10, <3>2
    <3>4. p \in under[l] \cup under[r] => x \in H
      BY <1>1, <2>1, <2>2
    <3>5. /\ p \in under[l] => t.node[b].size < t.node[x].size
          /\ p \in under[r] => t.node[b].size > t.node[x].size
      BY <1>3, <3>4 DEF l, r
    <3>6. ASSUME NEW d \in v[L]
          PROVE  u.node[d].size < u.node[x].size
      <4>1. d \in under[l] \/ (d = b /\ p \in under[l])
        BY <3>2
      <4>2. d \in K /\ u.node[d].size = t.node[d].size
        BY <1>1, <1>6, <2>7, <4>1
      <4> QED
        BY <2>2, <2>5, <3>5, <4>1, <4>2
    <3>7. ASSUME NEW d \in v[R]
          PROVE  u.node[d].size > u.node[x].size
      <4>1. d \in under[r] \/ (d = b /\ p \in under[r])
        BY <3>2
      <4>2. d \in K /\ u.node[d].size = t.node[d].size
        BY <1>1, <1>6, <2>7, <4>1
      <4> QED
        BY <2>2, <2>5, <3>5, <4>1, <4>2
    <3>8. /\ L # Null => u.node[L].parent = x
          /\ R # Null => u.node[R].parent = x
      BY <1>6, <2>1, <2>3, <3>1
    <3>9. x \notin Heads(u, v) => L = Null /\ R = Null /\ u.node[x].parent = Null
      BY <2>2, <2>6, <2>8, <3>1
    <3> QED
      BY <1>6, <2>4, <3>2, <3>3, <3>6, <3>7, <3>8, <3>9 DEF ShapedAt, L, R
  <2> QED
    BY <2>9, <2>10
<1>9. u.root # Null => u.node[u.root].parent = Null
  <2>1. t.root # b
    <3>1. t.root \in under[t.root]
      BY <1>1, Sides
    <3> QED
      BY <1>1, <3>1
  <2> QED
    BY <1>1, <1>6, <2>1
<1>10. Shaped(u, v)
  BY <1>1, <1>5, <1>6, <1>8, <1>9 DEF Shaped
<1> QED
  BY <1>7, <1>10 DEF H

-----------------------------------------------------------------------------
(* Lists.                                                                  *)

\* Every node has a place in the list it is in, the heads the first; the next
\* one in the list is behind it and of the same size.
Chained(t, heads, place) ==
  /\ place \in [Kin(t) -> Nat]
  /\ \A x \in Kin(t) : x \in heads <=> place[x] = 0
  /\ \A x \in Kin(t) : t.node[x].next \in Kin(t) \cup {Null}
  /\ \A x \in Kin(t) : t.node[x].next # Null =>
       /\ t.node[t.node[x].next].size = t.node[x].size
       /\ place[t.node[x].next] > place[x]
  /\ \A x, y \in Kin(t) : t.node[x].next # Null /\ t.node[x].next = t.node[y].next => x = y
  /\ \A x \in Kin(t) \ heads : \E y \in Kin(t) : t.node[y].next = x

Listed(t, heads) == \E place : Chained(t, heads, place)

\* The walk along a list finds nodes of one size, and every node is found.
LEMMA ChainsFound ==
  ASSUME NEW t, Null \notin Kin(t), NEW heads \in SUBSET Kin(t), Listed(t, heads)
  PROVE  /\ \A n \in heads : \A m \in Chain(t, n) : m \in Kin(t) /\ t.node[m].size = t.node[n].size
         /\ \A m \in Kin(t) : \E n \in heads : m \in Chain(t, n)
<1> DEFINE links == [m \in Kin(t) |-> {t.node[m].next} \ {Null}]
           Closed(C) == UNION {links[c] : c \in C} \subseteq C
<1>1. PICK place : Chained(t, heads, place)
  BY DEF Listed
<1>2. \A m \in Kin(t) : links[m] = {t.node[m].next} \ {Null}
  OBVIOUS
<1>3. ASSUME NEW n \in heads
      PROVE  Chain(t, n) = {m \in Kin(t) : \A C \in SUBSET Kin(t) : n \in C /\ Closed(C) => m \in C}
  <2>1. {n} \ {Null} = {n}
    OBVIOUS
  <2>2. Chain(t, n) = {m \in Kin(t) : \A C \in SUBSET Kin(t) : {n} \subseteq C /\ Closed(C) => m \in C}
    BY <2>1 DEF Chain, Closure
  <2> HIDE DEF Closed
  <2> QED
    BY <2>2
<1> HIDE DEF links
<1>4. ASSUME NEW n \in heads, NEW m \in Chain(t, n)
      PROVE  m \in Kin(t) /\ t.node[m].size = t.node[n].size
  <2> DEFINE C == {x \in Kin(t) : t.node[x].size = t.node[n].size}
  <2>1. C \in SUBSET Kin(t) /\ n \in C
    OBVIOUS
  <2>2. Closed(C)
    BY <1>1, <1>2 DEF Chained
  <2> HIDE DEF C, Closed
  <2>3. m \in Kin(t) /\ m \in C
    BY <1>3, <1>4, <2>1, <2>2
  <2> QED
    BY <2>3 DEF C
<1>5. ASSUME NEW m \in Kin(t), \A n \in heads : m \notin Chain(t, n)
      PROVE  FALSE
  <2> DEFINE Lost(x) == \A n \in heads : x \notin Chain(t, n)
             Holds == {k \in Nat : \A x \in Kin(t) : place[x] < k => ~Lost(x)}
  <2>1. 0 \in Holds
    <3>1. \A x \in Kin(t) : ~(place[x] < 0)
      BY <1>1 DEF Chained
    <3> QED
      BY <3>1
  <2>2. ASSUME NEW k \in Nat, k \in Holds
        PROVE  k + 1 \in Holds
    <3> SUFFICES ASSUME NEW x \in Kin(t), place[x] < k + 1
                 PROVE  ~Lost(x)
      OBVIOUS
    <3>1. CASE x \in heads
      <4>1. x \in Chain(t, x)
        <5> HIDE DEF Closed
        <5> QED
          BY <1>3, <3>1
      <4> QED
        BY <3>1, <4>1
    <3>2. CASE x \notin heads
      <4>1. PICK y \in Kin(t) : t.node[y].next = x
        BY <1>1, <3>2 DEF Chained
      <4>2. place[x] > place[y] /\ place[x] \in Nat /\ place[y] \in Nat
        BY <1>1, <4>1 DEF Chained
      <4>3. ~Lost(y)
        <5>1. place[y] < k
          BY <3>2, <4>2
        <5> QED
          BY <2>2, <5>1
      <4>4. PICK n \in heads : y \in Chain(t, n)
        BY <4>3
      <4>5. ASSUME NEW C \in SUBSET Kin(t), n \in C, Closed(C)
            PROVE  x \in C
        <5>1. y \in C
          <6> HIDE DEF Closed
          <6> QED
            BY <1>3, <4>4, <4>5
        <5>2. x \in links[y]
          BY <1>2, <4>1
        <5> QED
          BY <4>5, <5>1, <5>2
      <4>6. x \in Chain(t, n)
        <5> HIDE DEF Closed
        <5> QED
          BY <1>3, <4>5
      <4> QED
        BY <4>6
    <3> QED
      BY <3>1, <3>2
  <2> HIDE DEF Holds, Lost
  <2>3. Nat \subseteq Holds
    BY <2>1, <2>2, NumberInduction
  <2>4. place[m] \in Nat /\ place[m] + 1 \in Nat /\ place[m] < place[m] + 1
    BY <1>1 DEF Chained
  <2>5. ~Lost(m)
    BY <2>3, <2>4 DEF Holds
  <2> QED
    BY <1>5, <2>5 DEF Lost
<1> QED
  BY <1>4, <1>5

\* u has the lists of t as far as the nodes of S are concerned.
SameLists(t, u, S) ==
  \A x \in S : u.node[x].size = t.node[x].size /\ u.node[x].next = t.node[x].next

\* A new head, with nothing behind it.
LEMMA HeadAdded ==
  ASSUME NEW t, NEW heads, Listed(t, heads), Null \notin Kin(t), NEW b, b \notin Kin(t), b # Null,
         NEW u, Kin(u) = Kin(t) \cup {b}, SameLists(t, u, Kin(t)), u.node[b].next = Null
  PROVE  Listed(u, heads \cup {b})
<1>1. PICK place : Chained(t, heads, place)
  BY DEF Listed
<1> DEFINE at == [x \in Kin(t) \cup {b} |-> IF x = b THEN 0 ELSE place[x]]
<1>2. /\ at \in [Kin(t) \cup {b} -> Nat] /\ at[b] = 0
      /\ \A x \in Kin(t) : x # b /\ at[x] = place[x]
  BY <1>1 DEF Chained
<1> HIDE DEF at
<1>3. Chained(u, heads \cup {b}, at)
  BY <1>1, <1>2 DEF Chained, SameLists
<1> QED
  BY <1>3 DEF Listed

\* A new node right behind a head.
LEMMA FollowerAdded ==
  ASSUME NEW t, NEW heads, Listed(t, heads), Null \notin Kin(t), NEW b, b \notin Kin(t), b # Null,
         b \notin heads, NEW n \in heads, n \in Kin(t),
         NEW u, Kin(u) = Kin(t) \cup {b}, SameLists(t, u, Kin(t) \ {n}),
         u.node[n].size = t.node[n].size, u.node[n].next = b,
         u.node[b].size = t.node[n].size, u.node[b].next = t.node[n].next
  PROVE  Listed(u, heads)
<1>1. PICK place : Chained(t, heads, place)
  BY DEF Listed
<1> DEFINE at == [x \in Kin(t) \cup {b} |-> IF x = b THEN 1 ELSE IF place[x] = 0 THEN 0 ELSE place[x] + 1]
<1>2. /\ at \in [Kin(t) \cup {b} -> Nat] /\ at[b] = 1
      /\ \A x \in Kin(t) : x # b /\ at[x] = (IF place[x] = 0 THEN 0 ELSE place[x] + 1) /\ place[x] \in Nat
  BY <1>1 DEF Chained
<1> HIDE DEF at
<1>3. /\ \A x \in Kin(t) : x \in heads <=> place[x] = 0
      /\ \A x \in Kin(t) : t.node[x].next \in Kin(t) \cup {Null}
      /\ \A x \in Kin(t) : t.node[x].next # Null =>
           /\ t.node[t.node[x].next].size = t.node[x].size
           /\ place[t.node[x].next] > place[x]
      /\ \A x, y \in Kin(t) : t.node[x].next # Null /\ t.node[x].next = t.node[y].next => x = y
      /\ \A x \in Kin(t) \ heads : \E y \in Kin(t) : t.node[y].next = x
  BY <1>1 DEF Chained
<1>4. /\ \A x \in Kin(t) : x # n => u.node[x].next = t.node[x].next
      /\ \A x \in Kin(t) : u.node[x].size = t.node[x].size
  BY DEF SameLists
<1>5. \A x \in Kin(t) \cup {b} : x \in heads <=> at[x] = 0
  BY <1>2, <1>3
<1>6. \A x \in Kin(t) \cup {b} : u.node[x].next \in Kin(t) \cup {b} \cup {Null}
  BY <1>3, <1>4
<1>7. ASSUME NEW x \in Kin(t) \cup {b}, u.node[x].next # Null
      PROVE  /\ u.node[u.node[x].next].size = u.node[x].size
             /\ at[u.node[x].next] > at[x]
  <2>1. CASE x = n
    BY <1>2, <1>3, <1>4, <2>1
  <2>2. CASE x = b
    <3> DEFINE y == t.node[n].next
    <3>1. y \in Kin(t) /\ t.node[y].size = t.node[n].size /\ place[y] > 0 /\ u.node[x].next = y
      BY <1>3, <1>7, <2>2
    <3> HIDE DEF y
    <3>2. at[y] = place[y] + 1 /\ place[y] \in Nat
      BY <1>2, <3>1
    <3> QED
      BY <1>2, <1>4, <2>2, <3>1, <3>2
  <2>3. CASE x # n /\ x # b
    <3> DEFINE y == t.node[x].next
    <3>1. x \in Kin(t) /\ y \in Kin(t) /\ t.node[y].size = t.node[x].size /\ place[y] > place[x] /\ u.node[x].next = y
      BY <1>3, <1>4, <1>7, <2>3
    <3> HIDE DEF y
    <3>2. place[x] \in Nat /\ place[y] \in Nat
      BY <1>2, <3>1
    <3>3. at[y] > at[x]
      BY <1>2, <3>1, <3>2
    <3> QED
      BY <1>4, <3>1, <3>3
  <2> QED
    BY <2>1, <2>2, <2>3
<1>8. \A x, y \in Kin(t) \cup {b} : u.node[x].next # Null /\ u.node[x].next = u.node[y].next => x = y
  BY <1>3, <1>4
<1>9. ASSUME NEW x \in (Kin(t) \cup {b}) \ heads
      PROVE  \E y \in Kin(t) \cup {b} : u.node[y].next = x
  <2>1. CASE x = b
    BY <2>1
  <2>2. CASE x # b
    <3>1. PICK y \in Kin(t) : t.node[y].next = x
      BY <1>3, <2>2
    <3>2. CASE y = n
      BY <3>1, <3>2
    <3>3. CASE y # n
      BY <1>4, <3>1, <3>3
    <3> QED
      BY <3>2, <3>3
  <2> QED
    BY <2>1, <2>2
<1>10. Chained(u, heads, at)
  BY <1>2, <1>5, <1>6, <1>7, <1>8, <1>9 DEF Chained
<1> QED
  BY <1>10 DEF Listed

\* A head with nothing behind it is dropped.
LEMMA HeadDropped ==
  ASSUME NEW t, NEW heads, Listed(t, heads), Null \notin Kin(t), NEW n \in heads, n \in Kin(t), t.node[n].next = Null,
         NEW u, Kin(u) = Kin(t) \ {n}, SameLists(t, u, Kin(u))
  PROVE  Listed(u, heads \ {n})
<1>1. PICK place : Chained(t, heads, place)
  BY DEF Listed
<1> DEFINE at == [x \in Kin(t) \ {n} |-> place[x]]
<1>2. at \in [Kin(t) \ {n} -> Nat] /\ \A x \in Kin(t) \ {n} : at[x] = place[x]
  BY <1>1 DEF Chained
<1> HIDE DEF at
<1>3. \A x \in Kin(t) : t.node[x].next # n
  <2> SUFFICES ASSUME NEW x \in Kin(t), t.node[x].next = n
               PROVE  FALSE
    OBVIOUS
  <2>1. place[n] > place[x] /\ place[n] = 0 /\ place[x] \in Nat
    BY <1>1 DEF Chained
  <2> QED
    BY <2>1
<1>4. \A x \in Kin(t) \ {n} : u.node[x].next = t.node[x].next /\ u.node[x].size = t.node[x].size
  BY DEF SameLists
<1>5. Chained(u, heads \ {n}, at)
  <2>1. \A x \in Kin(u) \ (heads \ {n}) : \E y \in Kin(u) : u.node[y].next = x
    <3> SUFFICES ASSUME NEW x \in Kin(u) \ (heads \ {n})
                 PROVE  \E y \in Kin(u) : u.node[y].next = x
      OBVIOUS
    <3>1. PICK y \in Kin(t) : t.node[y].next = x
      BY <1>1 DEF Chained
    <3>2. y # n
      BY <3>1
    <3> QED
      BY <1>4, <3>1, <3>2
  <2> QED
    BY <1>1, <1>2, <1>3, <1>4, <2>1 DEF Chained
<1> QED
  BY <1>5 DEF Listed

\* The node behind n is dropped.
LEMMA FollowerDropped ==
  ASSUME NEW t, NEW heads, Listed(t, heads), Null \notin Kin(t), NEW n \in Kin(t), t.node[n].next # Null,
         NEW u, Kin(u) = Kin(t) \ {t.node[n].next}, SameLists(t, u, Kin(u) \ {n}),
         u.node[n].size = t.node[n].size, u.node[n].next = t.node[t.node[n].next].next
  PROVE  Listed(u, heads) /\ t.node[n].next \in Kin(t) \ heads /\ t.node[n].next # n
<1>1. PICK place : Chained(t, heads, place)
  BY DEF Listed
<1> DEFINE b == t.node[n].next
           K == Kin(t) \ {b}
           at == [x \in K |-> place[x]]
<1>2. /\ \A x \in Kin(t) : x \in heads <=> place[x] = 0
      /\ \A x \in Kin(t) : t.node[x].next \in Kin(t) \cup {Null}
      /\ \A x \in Kin(t) : t.node[x].next # Null =>
           /\ t.node[t.node[x].next].size = t.node[x].size
           /\ place[t.node[x].next] > place[x]
      /\ \A x, y \in Kin(t) : t.node[x].next # Null /\ t.node[x].next = t.node[y].next => x = y
      /\ \A x \in Kin(t) \ heads : \E y \in Kin(t) : t.node[y].next = x
      /\ \A x \in Kin(t) : place[x] \in Nat
  BY <1>1 DEF Chained
<1>3. at \in [K -> Nat] /\ \A x \in K : at[x] = place[x]
  BY <1>2
<1>4. b \in Kin(t) /\ place[b] > place[n] /\ t.node[b].size = t.node[n].size /\ b # Null
  BY <1>2
<1>5. b \notin heads /\ b # n /\ n \in K
  BY <1>2, <1>4
<1>6. /\ Kin(u) = K /\ u.node[n].size = t.node[n].size /\ u.node[n].next = t.node[b].next
      /\ \A x \in K \ {n} : u.node[x].size = t.node[x].size /\ u.node[x].next = t.node[x].next
  BY DEF SameLists
<1>7. t.node[n].next = b
  OBVIOUS
<1> HIDE DEF at, b
<1>8. \A x \in K : u.node[x].size = t.node[x].size
  BY <1>6
<1>9. ASSUME NEW x \in K
      PROVE  /\ u.node[x].next \in K \cup {Null}
             /\ u.node[x].next # Null =>
                  /\ u.node[u.node[x].next].size = u.node[x].size
                  /\ at[u.node[x].next] > at[x]
  <2>1. CASE x = n
    <3> DEFINE y == t.node[b].next
    <3>1. y # Null => y \in Kin(t) /\ t.node[y].size = t.node[b].size /\ place[y] > place[b] /\ y # b
      BY <1>2, <1>4
    <3>2. u.node[x].next = y /\ y \in Kin(t) \cup {Null}
      BY <1>2, <1>4, <1>6, <2>1
    <3> HIDE DEF y
    <3>3. ASSUME y # Null
          PROVE  y \in K /\ u.node[y].size = u.node[x].size /\ at[y] > at[x]
      <4>1. y \in K /\ place[y] \in Nat /\ place[b] \in Nat /\ place[n] \in Nat
        BY <1>2, <1>4, <3>1, <3>3
      <4>2. u.node[y].size = u.node[x].size
        BY <1>4, <1>8, <2>1, <3>1, <3>3, <4>1
      <4>3. at[y] > at[x]
        BY <1>3, <1>4, <1>5, <2>1, <3>1, <3>3, <4>1
      <4> QED
        BY <4>1, <4>2, <4>3
    <3> QED
      BY <3>2, <3>3
  <2>2. CASE x # n
    <3> DEFINE y == t.node[x].next
    <3>1. u.node[x].next = y /\ y \in Kin(t) \cup {Null} /\ y # b
      BY <1>2, <1>4, <1>6, <1>7, <2>2
    <3>2. y # Null => t.node[y].size = t.node[x].size /\ place[y] > place[x]
      BY <1>2
    <3> HIDE DEF y
    <3> QED
      BY <1>3, <1>8, <3>1, <3>2
  <2> QED
    BY <2>1, <2>2
<1>10. ASSUME NEW x \in K, NEW y \in K, u.node[x].next # Null, u.node[x].next = u.node[y].next
       PROVE  x = y
  <2>1. \A z \in K : z # n => t.node[z].next # t.node[b].next \/ t.node[b].next = Null
    BY <1>2, <1>4
  <2> QED
    BY <1>2, <1>6, <1>10, <2>1
<1>11. ASSUME NEW x \in K \ heads
       PROVE  \E y \in K : u.node[y].next = x
  <2>1. PICK y \in Kin(t) : t.node[y].next = x
    BY <1>2
  <2>2. CASE y = b
    BY <1>5, <1>6, <2>1, <2>2
  <2>3. CASE y # b
    <3>1. y # n
      BY <1>7, <2>1
    <3> QED
      BY <1>6, <2>1, <2>3, <3>1
  <2> QED
    BY <2>2, <2>3
<1>12. \A x \in K : x \in heads <=> at[x] = 0
  BY <1>2, <1>3
<1>13. Chained(u, heads, at)
  BY <1>3, <1>6, <1>9, <1>10, <1>11, <1>12 DEF Chained
<1> QED
  BY <1>4, <1>5, <1>13 DEF Listed, b

-----------------------------------------------------------------------------
(* The tree as a whole.                                                    *)

SizesOf(t) == [n \in Kin(t) |-> t.node[n].size]

Summed(t) ==
  /\ IsFiniteSet(Kin(t))
  /\ t.count = Cardinality(Kin(t))
  /\ t.total = Total(SizesOf(t), Kin(t))

TreeSound(t) ==
  /\ t \in TreeType /\ Summed(t)
  /\ \E under : Shaped(t, under) /\ Listed(t, Heads(t, under))

\* u has the block b and those of t, with their sizes.
Grown(t, u, b, size) ==
  /\ Kin(u) = Kin(t) \cup {b}
  /\ u.node[b].size = size
  /\ \A x \in Kin(t) : u.node[x].size = t.node[x].size

\* u has the blocks of t without b, with their sizes.
Shrunk(t, u, b) ==
  /\ Kin(u) = Kin(t) \ {b}
  /\ \A x \in Kin(u) : u.node[x].size = t.node[x].size

\* The fields of a node.
LEMMA NodeParts ==
  ASSUME NEW t \in TreeType, NEW x \in Kin(t)
  PROVE  /\ t.node[x] \in NodeType
         /\ t.node[x].size \in Int /\ t.node[x].next \in Int
         /\ t.node[x].left \in Int /\ t.node[x].right \in Int /\ t.node[x].parent \in Int
<1>1. t.node[x] \in NodeType
  BY TreeFacts
<1> QED
  BY <1>1 DEF NodeType

\* A tree with other nodes and counters.
Changed(t, f, c, d) == [t EXCEPT !.node = f, !.count = c, !.total = d]

\* The fields of a changed tree.
LEMMA TreeChanged ==
  ASSUME NEW t \in TreeType, NEW f, NEW c, NEW d
  PROVE  LET s == Changed(t, f, c, d) IN
         /\ s.root = t.root /\ s.node = f /\ s.count = c /\ s.total = d
         /\ s = [root |-> t.root, node |-> f, count |-> c, total |-> d]
<1> DEFINE N == UNION {[S -> NodeType] : S \in SUBSET Nat}
           s == [t EXCEPT !.node = f, !.count = c, !.total = d]
<1>1. t \in [root: Int, node: N, count: Int, total: Int]
  BY DEF TreeType
<1> HIDE DEF N
<1>2. s.root = t.root /\ s.node = f /\ s.count = c /\ s.total = d
  BY <1>1
<1>3. s \in [root: {t.root}, node: {f}, count: {c}, total: {d}]
  BY <1>1
<1> HIDE DEF s
<1>4. s = [root |-> t.root, node |-> f, count |-> c, total |-> d]
  BY <1>2, <1>3
<1> QED
  BY <1>2, <1>4 DEF s, Changed

\* The counters after a block is added.
LEMMA SummedGrown ==
  ASSUME NEW t \in TreeType, Summed(t), NEW b, b \notin Kin(t), NEW size \in Int, NEW u, Grown(t, u, b, size),
         u.count = t.count + 1, u.total = t.total + size
  PROVE  Summed(u)
<1> DEFINE S == Kin(t)
           g == SizesOf(t)
           h == SizesOf(u)
<1>1. /\ Kin(u) = S \cup {b}
      /\ \A x \in S : g[x] \in Int /\ h[x] = g[x]
      /\ h[b] = size /\ \A x \in S \cup {b} : h[x] \in Int
  BY NodeParts DEF Grown, SizesOf
<1>2. IsFiniteSet(S) /\ t.count = Cardinality(S) /\ t.total = Total(g, S)
  BY DEF Summed
<1> HIDE DEF S, g, h
<1>3. IsFiniteSet(S \cup {b}) /\ Cardinality(S \cup {b}) = Cardinality(S) + 1
  BY <1>2, FS_AddElement DEF S
<1>4. Total(h, S \cup {b}) = Total(h, S) + h[b]
  BY <1>1, <1>2, TotalAdd DEF S
<1>5. Total(h, S) = Total(g, S)
  BY <1>1, <1>2, TotalSame
<1> QED
  BY <1>1, <1>2, <1>3, <1>4, <1>5 DEF Summed, h

\* And after one is removed.
LEMMA SummedShrunk ==
  ASSUME NEW t \in TreeType, Summed(t), NEW b \in Kin(t), NEW u, Shrunk(t, u, b),
         u.count = t.count - 1, u.total = t.total - t.node[b].size
  PROVE  Summed(u)
<1> DEFINE S == Kin(t)
           g == SizesOf(t)
           h == SizesOf(u)
<1>1. /\ Kin(u) = S \ {b}
      /\ \A x \in S : g[x] \in Int
      /\ \A x \in S \ {b} : h[x] = g[x] /\ g[x] \in Int
      /\ g[b] = t.node[b].size
  BY NodeParts DEF Shrunk, SizesOf
<1>2. IsFiniteSet(S) /\ t.count = Cardinality(S) /\ t.total = Total(g, S) /\ b \in S
  BY DEF Summed
<1> HIDE DEF S, g, h
<1>3. IsFiniteSet(S \ {b}) /\ Cardinality(S \ {b}) = Cardinality(S) - 1
  BY <1>2, FS_RemoveElement
<1>4. Total(g, S) = Total(g, S \ {b}) + g[b]
  BY <1>1, <1>2, TotalRemove
<1>5. Total(h, S \ {b}) = Total(g, S \ {b}) /\ Total(g, S \ {b}) \in Int
  BY <1>1, <1>3, TotalSame, TotalIsNumber
<1>6. g[b] \in Int
  BY <1>1, <1>2
<1> QED
  BY <1>1, <1>2, <1>3, <1>4, <1>5, <1>6 DEF Summed, h

\* The empty tree is sound.
LEMMA EmptyTreeSound == TreeSound(EmptyTree) /\ Kin(EmptyTree) = {}
<1> DEFINE t == EmptyTree
           under == [x \in {Null} |-> {}]
<1>1. t.root = Null /\ t.count = 0 /\ t.total = 0 /\ t.node = [b \in {} |-> Node(0)]
  BY DEF EmptyTree
<1>2. Kin(t) = {}
  BY <1>1 DEF Kin
<1>3. t \in TreeType
  <2>1. [b \in {} |-> Node(0)] \in [{} -> NodeType] /\ {} \in SUBSET Nat /\ Null \in Int
    BY DEF Null
  <2>2. [b \in {} |-> Node(0)] \in UNION {[S -> NodeType] : S \in SUBSET Nat}
    BY <2>1
  <2> QED
    BY <2>1, <2>2 DEF EmptyTree, TreeType
<1>4. Summed(t)
  BY <1>1, <1>2, FS_EmptySet, TotalEmpty DEF Summed
<1> HIDE DEF t
<1>5. Shaped(t, under) /\ Heads(t, under) = {}
  BY <1>1, <1>2 DEF Shaped, Heads
<1>6. Listed(t, {})
  <2>1. Chained(t, {}, [x \in {} |-> 0])
    BY <1>2 DEF Chained
  <2> QED
    BY <2>1 DEF Listed
<1> QED
  BY <1>2, <1>3, <1>4, <1>5, <1>6 DEF TreeSound, t

\* A block hung behind a head.
LEMMA AddToListDoes ==
  ASSUME NEW t \in TreeType, NEW b \in Kin(t), NEW n \in Kin(t), n # b
  PROVE  LET u == AddToList(t, b, n) IN
         /\ u \in TreeType /\ Kin(u) = Kin(t) /\ u.root = t.root /\ u.count = t.count /\ u.total = t.total
         /\ SameNodes(t, u, Kin(t))
         /\ \A x \in Kin(t) : u.node[x].next = IF x = b THEN t.node[n].next ELSE IF x = n THEN b ELSE t.node[x].next
<1> DEFINE m == [t.node[b] EXCEPT !.next = t.node[n].next]
           s == [t EXCEPT !.node[b] = m]
           k == [s.node[n] EXCEPT !.next = b]
           u == [s EXCEPT !.node[n] = k]
<1>1. AddToList(t, b, n) = u
  BY DEF AddToList
<1>2. /\ m \in NodeType /\ m.next = t.node[n].next /\ m.size = t.node[b].size
      /\ m.left = t.node[b].left /\ m.right = t.node[b].right /\ m.parent = t.node[b].parent
  BY NodeParts DEF NodeType
<1> HIDE DEF m
<1>3. /\ s \in TreeType /\ Kin(s) = Kin(t) /\ s.root = t.root /\ s.count = t.count /\ s.total = t.total
      /\ \A x \in Kin(t) : s.node[x] = IF x = b THEN m ELSE t.node[x]
  BY <1>2, NodeSet
<1> HIDE DEF s
<1>4. b \in Int
  BY TreeFacts
<1>5. /\ k \in NodeType /\ k.next = b /\ k.size = s.node[n].size
      /\ k.left = s.node[n].left /\ k.right = s.node[n].right /\ k.parent = s.node[n].parent
  <2>1. s.node[n] \in NodeType
    BY <1>3, NodeParts
  <2> QED
    BY <1>4, <2>1 DEF NodeType
<1> HIDE DEF k
<1>6. /\ u \in TreeType /\ Kin(u) = Kin(s) /\ u.root = s.root /\ u.count = s.count /\ u.total = s.total
      /\ \A x \in Kin(s) : u.node[x] = IF x = n THEN k ELSE s.node[x]
  BY <1>3, <1>5, NodeSet
<1> HIDE DEF u
<1>7. SameNodes(t, u, Kin(t))
  BY <1>2, <1>3, <1>5, <1>6 DEF SameNodes
<1>8. \A x \in Kin(t) : u.node[x].next = IF x = b THEN t.node[n].next ELSE IF x = n THEN b ELSE t.node[x].next
  BY <1>2, <1>3, <1>5, <1>6
<1> QED
  BY <1>1, <1>3, <1>6, <1>7, <1>8

\* add_block
LEMMA BlockAdded ==
  ASSUME NEW t, TreeSound(t), NEW b \in Nat, b \notin Kin(t), NEW size \in Int
  PROVE  TreeSound(AddBlock(t, b, size)) /\ Grown(t, AddBlock(t, b, size), b, size)
<1> DEFINE f == [m \in Kin(t) \cup {b} |-> IF m = b THEN Node(size) ELSE t.node[m]]
           c == t.count + 1
           d == t.total + size
           s == Changed(t, f, c, d)
           u == AddBlock(t, b, size)
<1>1. t \in TreeType /\ Summed(t) /\ IsFiniteSet(Kin(t))
  BY DEF TreeSound, Summed
<1>2. PICK under : Shaped(t, under) /\ Listed(t, Heads(t, under))
  BY DEF TreeSound
<1> DEFINE H == Heads(t, under)
<1>3. u = IF t.root = Null THEN [s EXCEPT !.root = b] ELSE Insert(s, b)
  BY DEF AddBlock, Changed
<1>4. /\ Node(size) \in NodeType /\ Node(size).size = size /\ Node(size).next = Null
      /\ Node(size).left = Null /\ Node(size).right = Null /\ Node(size).parent = Null
  BY TreeFacts, <1>1 DEF Node, NodeType, Null
<1>5. /\ Kin(t) \subseteq Nat /\ Null \notin Kin(t) /\ b # Null /\ t.node \in [Kin(t) -> NodeType]
      /\ t.root \in Int /\ t.count \in Int /\ t.total \in Int
      /\ t = [root |-> t.root, node |-> t.node, count |-> t.count, total |-> t.total]
  BY <1>1, TreeFacts DEF Null
<1>6. /\ f \in [Kin(t) \cup {b} -> NodeType] /\ f[b] = Node(size)
      /\ \A x \in Kin(t) : f[x] = t.node[x]
  BY <1>4, <1>5
<1> HIDE DEF f
<1>7. /\ s = [root |-> t.root, node |-> f, count |-> t.count + 1, total |-> t.total + size]
      /\ s.root = t.root /\ s.node = f /\ s.count = t.count + 1 /\ s.total = t.total + size
  <2> HIDE DEF c, d
  <2>1. /\ s = [root |-> t.root, node |-> f, count |-> c, total |-> d]
        /\ s.root = t.root /\ s.node = f /\ s.count = c /\ s.total = d
    BY <1>1, TreeChanged
  <2> HIDE DEF s
  <2> QED
    BY <2>1 DEF c, d
<1>8. s \in TreeType /\ Kin(s) = Kin(t) \cup {b}
  <2>1. Kin(t) \cup {b} \in SUBSET Nat
    BY <1>5
  <2>2. f \in UNION {[S -> NodeType] : S \in SUBSET Nat}
    BY <1>6, <2>1
  <2>3. Kin(s) = Kin(t) \cup {b}
    BY <1>6, <1>7 DEF Kin
  <2> QED
    BY <1>5, <1>7, <2>2, <2>3 DEF TreeType
<1> HIDE DEF s
<1>9. /\ SameNodes(t, s, Kin(t)) /\ SameLists(t, s, Kin(t))
      /\ s.node[b] = Node(size) /\ Grown(t, s, b, size)
  BY <1>4, <1>6, <1>7, <1>8 DEF SameNodes, SameLists, Grown
<1>10. PICK v : Shaped(s, v) /\ Heads(s, v) = H
  <2>1. /\ s.node[b].left = Null /\ s.node[b].right = Null /\ s.node[b].parent = Null
        /\ s.node[b].size \in Int
    BY <1>4, <1>9
  <2> QED
    BY <1>1, <1>2, <1>5, <1>7, <1>8, <1>9, <2>1, AddFollower
<1>11. IsFiniteSet(Kin(s)) /\ b \in Kin(s) /\ b \notin H /\ H \in SUBSET Kin(t)
  <2>1. IsFiniteSet(Kin(s))
    BY <1>1, <1>8, FS_AddElement
  <2>2. H \in SUBSET Kin(t)
    BY <1>2 DEF Shaped, Heads
  <2> QED
    BY <1>8, <2>1, <2>2
<1>12. ASSUME u \in TreeType, Kin(u) = Kin(s), u.count = s.count, u.total = s.total,
              \A x \in Kin(s) : u.node[x].size = s.node[x].size,
              \E z : Shaped(u, z) /\ Listed(u, Heads(u, z))
       PROVE  TreeSound(u) /\ Grown(t, u, b, size)
  <2> HIDE DEF u
  <2>1. Grown(t, u, b, size)
    BY <1>8, <1>9, <1>12 DEF Grown
  <2>2. Summed(u)
    BY <1>1, <1>7, <1>12, <2>1, SummedGrown
  <2> QED
    BY <1>12, <2>1, <2>2 DEF TreeSound
<1>13. CASE t.root = Null
  <2> DEFINE w == [s EXCEPT !.root = b]
  <2>1. u = w
    BY <1>3, <1>13
  <2>2. /\ w \in TreeType /\ w.root = b /\ w.node = s.node /\ w.count = s.count /\ w.total = s.total
    <3>1. b \in Int /\ w = [root |-> b, node |-> s.node, count |-> s.count, total |-> s.total]
      BY <1>7
    <3>2. s.count \in Int /\ s.total \in Int /\ s.node \in UNION {[S -> NodeType] : S \in SUBSET Nat}
      BY <1>8 DEF TreeType
    <3> QED
      BY <3>1, <3>2 DEF TreeType
  <2> HIDE DEF u, w
  <2>3. Kin(w) = Kin(s)
    BY <2>2 DEF Kin
  <2>4. SameNodes(s, w, Kin(s)) /\ SameLists(s, w, Kin(s)) /\ s.root = Null
    BY <1>7, <1>13, <2>2 DEF SameNodes, SameLists
  <2>5. Shaped(w, v) /\ Heads(w, v) = {b}
    BY <1>10, <1>11, <2>2, <2>3, <2>4, FirstNode
  <2>6. H = {}
    BY <1>2, <1>13 DEF Heads, Shaped
  <2>7. Listed(w, {} \cup {b})
    <3>1. SameLists(t, w, Kin(t)) /\ w.node[b].next = Null /\ Listed(t, {})
      BY <1>2, <1>4, <1>8, <1>9, <2>2, <2>6 DEF SameLists
    <3> QED
      BY <1>5, <1>8, <2>3, <3>1, HeadAdded
  <2>8. Shaped(w, v) /\ Listed(w, Heads(w, v))
    BY <2>5, <2>7
  <2> QED
    BY <1>12, <2>1, <2>2, <2>3, <2>8 DEF u
<1>14. CASE t.root # Null
  <2> DEFINE n == InsertionPoint(s, size)
  <2>1. s.node[b].size = size
    BY <1>4, <1>9
  <2>2. u = IF size = s.node[n].size THEN AddToList(s, b, n)
            ELSE IF size > s.node[n].size THEN SetRight(s, n, b)
            ELSE SetLeft(s, n, b)
    BY <1>3, <1>14, <2>1 DEF Insert
  <2>3. PlaceFor(s, v, size, s.root, n) /\ s.root # Null
    BY <1>7, <1>10, <1>11, <1>14, PointFound
  <2> HIDE DEF n, u
  <2>4. n \in H /\ n \in Kin(s) /\ n # b /\ n \in Kin(t)
    BY <1>8, <1>10, <1>11, <2>3 DEF PlaceFor, Heads
  <2>5. s.node[n].size \in Int /\ b \in Kin(s) \cup {Null}
    BY <1>8, <1>11, <2>4, NodeParts
  <2>6. CASE size = s.node[n].size
    <3>1. u = AddToList(s, b, n)
      BY <2>2, <2>6
    <3>2. /\ u \in TreeType /\ Kin(u) = Kin(s) /\ u.root = s.root /\ u.count = s.count /\ u.total = s.total
          /\ SameNodes(s, u, Kin(s))
          /\ \A x \in Kin(s) : u.node[x].next = IF x = b THEN s.node[n].next ELSE IF x = n THEN b ELSE s.node[x].next
      <4>1. s \in TreeType /\ b \in Kin(s) /\ n \in Kin(s) /\ n # b
        BY <1>8, <1>11, <2>4
      <4> DEFINE a == AddToList(s, b, n)
      <4>2. /\ a \in TreeType /\ Kin(a) = Kin(s) /\ a.root = s.root /\ a.count = s.count /\ a.total = s.total
            /\ SameNodes(s, a, Kin(s))
            /\ \A x \in Kin(s) : a.node[x].next = IF x = b THEN s.node[n].next ELSE IF x = n THEN b ELSE s.node[x].next
        BY <4>1, AddToListDoes
      <4>3. u = a
        BY <3>1
      <4> HIDE DEF a
      <4> QED
        BY <4>2, <4>3
    <3>3. Shaped(u, v) /\ Heads(u, v) = H
      BY <1>10, <3>2, SameShape
    <3>4. Listed(u, H)
      <4>1. SameLists(t, u, Kin(t) \ {n})
        BY <1>8, <1>9, <3>2 DEF SameLists, SameNodes
      <4>2. /\ u.node[n].size = t.node[n].size /\ u.node[n].next = b
            /\ u.node[b].size = t.node[n].size /\ u.node[b].next = t.node[n].next
        BY <1>8, <1>9, <1>11, <2>1, <2>4, <2>6, <3>2 DEF SameLists, SameNodes
      <4> QED
        BY <1>2, <1>5, <1>8, <1>11, <2>4, <3>2, <4>1, <4>2, FollowerAdded
    <3>5. \E z : Shaped(u, z) /\ Listed(u, Heads(u, z))
      BY <3>3, <3>4
    <3>6. \A x \in Kin(s) : u.node[x].size = s.node[x].size
      BY <3>2 DEF SameNodes
    <3> QED
      BY <1>12, <3>2, <3>5, <3>6 DEF u
  <2>7. CASE size # s.node[n].size
    <3>1. /\ Relinked(s, u) /\ u.root = s.root
          /\ \A x \in Kin(s) :
               /\ u.node[x].left = IF x = n /\ size < s.node[n].size THEN b ELSE s.node[x].left
               /\ u.node[x].right = IF x = n /\ size > s.node[n].size THEN b ELSE s.node[x].right
               /\ u.node[x].parent = IF x = b THEN n ELSE s.node[x].parent
      <4>1. CASE size > s.node[n].size
        <5>1. u = SetRight(s, n, b) /\ ~(size < s.node[n].size)
          BY <2>2, <2>5, <2>7, <4>1
        <5>2. s \in TreeType /\ n \in Kin(s) /\ b \in Kin(s) \cup {Null}
          BY <1>8, <2>4, <2>5
        <5>3. /\ Relinked(s, u) /\ u.root = s.root
              /\ \A x \in Kin(s) : /\ u.node[x].right = IF x = n THEN b ELSE s.node[x].right
                                   /\ u.node[x].left = s.node[x].left
                                   /\ u.node[x].parent = IF x = b THEN n ELSE s.node[x].parent
          <6> DEFINE w == SetRight(s, n, b)
          <6>1. /\ Relinked(s, w) /\ w.root = s.root
                /\ \A x \in Kin(s) : /\ w.node[x].right = IF x = n THEN b ELSE s.node[x].right
                                     /\ w.node[x].left = s.node[x].left
                                     /\ w.node[x].parent = IF x = b THEN n ELSE s.node[x].parent
            BY <5>2, SetRightDoes
          <6> QED
            BY <5>1, <6>1
        <5> QED
          BY <4>1, <5>1, <5>3
      <4>2. CASE ~(size > s.node[n].size)
        <5>1. u = SetLeft(s, n, b) /\ size < s.node[n].size
          BY <2>2, <2>5, <2>7, <4>2
        <5>2. s \in TreeType /\ n \in Kin(s) /\ b \in Kin(s) \cup {Null}
          BY <1>8, <2>4, <2>5
        <5>3. /\ Relinked(s, u) /\ u.root = s.root
              /\ \A x \in Kin(s) : /\ u.node[x].left = IF x = n THEN b ELSE s.node[x].left
                                   /\ u.node[x].right = s.node[x].right
                                   /\ u.node[x].parent = IF x = b THEN n ELSE s.node[x].parent
          <6> DEFINE w == SetLeft(s, n, b)
          <6>1. /\ Relinked(s, w) /\ w.root = s.root
                /\ \A x \in Kin(s) : /\ w.node[x].left = IF x = n THEN b ELSE s.node[x].left
                                     /\ w.node[x].right = s.node[x].right
                                     /\ w.node[x].parent = IF x = b THEN n ELSE s.node[x].parent
            BY <5>2, SetLeftDoes
          <6> QED
            BY <5>1, <6>1
        <5> QED
          BY <4>2, <5>1, <5>3
      <4> QED
        BY <4>1, <4>2
    <3>2. Hung(s, u, n, b)
      BY <2>1, <2>7, <3>1 DEF Hung, Relinked
    <3>3. PICK z : Shaped(u, z) /\ Heads(u, z) = H \cup {b}
      BY <1>10, <1>11, <2>1, <2>3, <3>2, Hang
    <3>4. Listed(u, H \cup {b})
      <4>1. Kin(u) = Kin(t) \cup {b} /\ SameLists(t, u, Kin(t)) /\ u.node[b].next = Null
        BY <1>4, <1>8, <1>9, <1>11, <3>1 DEF Relinked, SameLists
      <4> QED
        BY <1>2, <1>5, <4>1, HeadAdded
    <3>5. \E y : Shaped(u, y) /\ Listed(u, Heads(u, y))
      BY <3>3, <3>4
    <3> QED
      BY <1>12, <3>1, <3>5 DEF Relinked, u
  <2> QED
    BY <2>6, <2>7
<1> QED
  BY <1>13, <1>14

\* remove_block takes a block of the size found, the node of the tree only if
\* no other block has that size.
LEMMA BlockDetached ==
  ASSUME NEW t, TreeSound(t), NEW n \in Subtree(t, t.root)
  PROVE  LET b == Victim(t, n) IN
         /\ n \in Kin(t) /\ b \in Kin(t) /\ t.node[b].size = t.node[n].size
         /\ TreeSound(Detach(t, n)) /\ Shrunk(t, Detach(t, n), b)
<1> DEFINE b == Victim(t, n)
           s == IF b = n THEN Unlink(t, n) ELSE [t EXCEPT !.node[n].next = t.node[b].next]
           f == Restrict(s.node, Kin(s) \ {b})
           c == s.count - 1
           d == s.total - t.node[b].size
           w == Changed(s, f, c, d)
<1>1. t \in TreeType /\ Summed(t) /\ IsFiniteSet(Kin(t)) /\ Null \notin Kin(t) /\ Kin(t) \subseteq Nat
  BY TreeFacts DEF TreeSound, Summed
<1>2. PICK under : Shaped(t, under) /\ Listed(t, Heads(t, under))
  BY DEF TreeSound
<1> DEFINE H == Heads(t, under)
<1>3. n \in H /\ n \in Kin(t) /\ H \subseteq Kin(t)
  <2>1. t.root \in Kin(t) \cup {Null}
    BY <1>2 DEF Shaped
  <2>2. Subtree(t, t.root) = H
    BY <1>1, <1>2, <2>1, SubtreeIsUnder DEF Heads
  <2>3. H \subseteq Kin(t)
    BY <1>2, <2>1 DEF Shaped, Heads
  <2> QED
    BY <2>2, <2>3
<1>4. Detach(t, n) = w
  BY DEF Detach, Changed
<1>5. b = IF t.node[n].next # Null THEN t.node[n].next ELSE n
  BY DEF Victim
<1> HIDE DEF b
<1>6. ASSUME b \in Kin(t), s \in TreeType, Kin(s) = Kin(t), s.count = t.count, s.total = t.total,
             \A x \in Kin(t) : s.node[x].size = t.node[x].size,
             ASSUME Kin(w) = Kin(t) \ {b}, w.root = s.root, \A x \in Kin(w) : w.node[x] = s.node[x]
             PROVE  \E z : Shaped(w, z) /\ Listed(w, Heads(w, z))
      PROVE  TreeSound(w) /\ Shrunk(t, w, b)
  <2> HIDE DEF s
  <2>1. /\ w.root = s.root /\ w.node = f /\ w.count = c /\ w.total = d
        /\ w = [root |-> s.root, node |-> f, count |-> c, total |-> d]
    <3> HIDE DEF f, c, d
    <3> QED
      BY <1>6, TreeChanged
  <2>2. s.node \in [Kin(t) -> NodeType] /\ s.root \in Int /\ s.count \in Int /\ s.total \in Int
    BY <1>6, TreeFacts
  <2>3. f \in [Kin(t) \ {b} -> NodeType] /\ \A x \in Kin(t) \ {b} : f[x] = s.node[x]
    BY <1>6, <2>2 DEF Restrict
  <2>4. c \in Int /\ d \in Int
    BY <1>1, <1>6, <2>2, NodeParts
  <2>5. c = t.count - 1 /\ d = t.total - t.node[b].size
    BY <1>6
  <2> HIDE DEF w, f, c, d
  <2>6. Kin(w) = Kin(t) \ {b} /\ \A x \in Kin(w) : w.node[x] = s.node[x]
    BY <2>1, <2>3 DEF Kin
  <2>7. w \in TreeType
    <3>1. Kin(t) \ {b} \in SUBSET Nat
      BY <1>1
    <3>2. f \in UNION {[S -> NodeType] : S \in SUBSET Nat}
      BY <2>3, <3>1
    <3> QED
      BY <2>1, <2>2, <2>4, <3>2 DEF TreeType
  <2>8. Shrunk(t, w, b)
    BY <1>6, <2>6 DEF Shrunk
  <2>9. Summed(w)
    BY <1>1, <1>6, <2>1, <2>5, <2>8, SummedShrunk
  <2>10. \E z : Shaped(w, z) /\ Listed(w, Heads(w, z))
    BY <1>6, <2>1, <2>6
  <2> QED
    BY <2>7, <2>8, <2>9, <2>10 DEF TreeSound
<1>7. CASE t.node[n].next = Null
  <2>1. b = n /\ s = Unlink(t, n)
    BY <1>5, <1>7
  <2>2. Relinked(t, s)
    <3>1. \E y : Less(s, y, n)
      <4> DEFINE g == [x \in Kin(s) \ {n} |-> s.node[x]]
                 y == [root |-> s.root, node |-> g]
      <4>1. Kin(y) = Kin(s) \ {n} /\ y.root = s.root /\ \A x \in Kin(y) : y.node[x] = s.node[x]
        BY DEF Kin
      <4> QED
        BY <4>1 DEF Less
    <3> HIDE DEF s
    <3> QED
      BY <1>1, <1>2, <1>3, <2>1, <3>1, UnlinkShapes
  <2> HIDE DEF s, w
  <2>3. ASSUME Kin(w) = Kin(t) \ {b}, w.root = s.root, \A x \in Kin(w) : w.node[x] = s.node[x]
        PROVE  \E z : Shaped(w, z) /\ Listed(w, Heads(w, z))
    <3>1. Less(s, w, n)
      BY <2>1, <2>2, <2>3 DEF Less, Relinked
    <3>2. PICK z : Shaped(w, z) /\ Heads(w, z) = H \ {n}
      BY <1>1, <1>2, <1>3, <2>1, <3>1, UnlinkShapes
    <3>3. SameLists(t, w, Kin(w))
      BY <2>2, <2>3 DEF SameLists, Relinked
    <3>4. Listed(w, H \ {n})
      BY <1>1, <1>2, <1>3, <1>7, <2>1, <2>3, <3>3, HeadDropped
    <3> QED
      BY <3>2, <3>4
  <2>4. TreeSound(w) /\ Shrunk(t, w, b)
    BY <1>3, <1>6, <2>1, <2>2, <2>3 DEF Relinked
  <2> QED
    BY <1>3, <1>4, <2>1, <2>4 DEF b
<1>8. CASE t.node[n].next # Null
  <2> DEFINE m == [t.node[n] EXCEPT !.next = t.node[b].next]
             q == [t EXCEPT !.node[n] = m]
  <2>1. b = t.node[n].next
    BY <1>5, <1>8
  <2>2. b \in Kin(t) \ H /\ b # n /\ t.node[b].size = t.node[n].size
    <3>1. PICK place : Chained(t, H, place)
      BY <1>2 DEF Listed
    <3>2. b \in Kin(t) /\ t.node[b].size = t.node[n].size /\ place[b] > place[n] /\ place[n] \in Nat /\ place[b] \in Nat
      BY <1>3, <1>8, <2>1, <3>1 DEF Chained
    <3>3. place[b] # 0
      BY <3>2
    <3> QED
      BY <3>1, <3>2, <3>3 DEF Chained
  <2>3. s = q
    BY <2>2
  <2>4. /\ m \in NodeType /\ m.next = t.node[b].next /\ m.size = t.node[n].size
        /\ m.left = t.node[n].left /\ m.right = t.node[n].right /\ m.parent = t.node[n].parent
    BY <1>1, <1>3, <2>2, NodeParts DEF NodeType
  <2> HIDE DEF m
  <2>5. /\ q \in TreeType /\ Kin(q) = Kin(t) /\ q.root = t.root /\ q.count = t.count /\ q.total = t.total
        /\ \A x \in Kin(t) : q.node[x] = IF x = n THEN m ELSE t.node[x]
    BY <1>1, <1>3, <2>4, NodeSet
  <2> HIDE DEF q, s, w
  <2>6. \A x \in Kin(t) : s.node[x].size = t.node[x].size
    BY <2>3, <2>4, <2>5
  <2>7. ASSUME Kin(w) = Kin(t) \ {b}, w.root = s.root, \A x \in Kin(w) : w.node[x] = s.node[x]
        PROVE  \E z : Shaped(w, z) /\ Listed(w, Heads(w, z))
    <3>1. SameNodes(t, w, Kin(w)) /\ w.root = t.root
      BY <2>3, <2>4, <2>5, <2>7 DEF SameNodes
    <3>2. PICK z : Shaped(w, z) /\ Heads(w, z) = H
      <4>1. b \in Kin(t) \ Heads(t, under)
        BY <2>2
      <4>2. Kin(w) = Kin(t) \ {b}
        BY <2>7
      <4> QED
        BY <1>1, <1>2, <3>1, <4>1, <4>2, DropFollower
    <3>3. /\ SameLists(t, w, Kin(w) \ {n})
          /\ w.node[n].size = t.node[n].size /\ w.node[n].next = t.node[b].next
      BY <1>3, <2>2, <2>3, <2>4, <2>5, <2>7 DEF SameLists
    <3>4. Listed(w, H)
      BY <1>1, <1>2, <1>3, <1>8, <2>1, <2>7, <3>3, FollowerDropped
    <3> QED
      BY <3>2, <3>4
  <2>8. TreeSound(w) /\ Shrunk(t, w, b)
    BY <1>6, <2>2, <2>3, <2>5, <2>6, <2>7
  <2> QED
    BY <1>3, <1>4, <2>2, <2>8 DEF b
<1> QED
  BY <1>7, <1>8

\* MapThenSumSet adds up sizes: its fold, as a function of the subsets.
SizeSums(F, t, S) ==
  F = [d \in SUBSET S |-> IF d = {} THEN 0 ELSE t.node[Pick(d)].size + F[d \ {Pick(d)}]]

\* The fold in BlockTree::verify adds up the sizes of the nodes.
LEMMA SizeSum ==
  ASSUME NEW t \in TreeType, IsFiniteSet(Kin(t))
  PROVE  MapThenSumSet(LAMBDA n : t.node[n].size, Kin(t)) = Total(SizesOf(t), Kin(t))
<1> DEFINE S == Kin(t)
           g == SizesOf(t)
           H == CHOOSE F : SizeSums(F, t, S)
<1>1. MapThenSumSet(LAMBDA n : t.node[n].size, S) = H[S]
  BY DEF MapThenSumSet, MapThenFoldSet, SizeSums, Pick
<1>2. IsFiniteSet(S) /\ \A d \in S : g[d] \in Int /\ g[d] = t.node[d].size
  BY NodeParts DEF SizesOf
<1> HIDE DEF S, g
<1>3. PICK F : AddsUp(F, g, S)
  BY <1>2, SumsExist
<1>4. SumsUp(F, g, S) /\ Total(g, S) = F[S]
  BY <1>2, <1>3, AddsUpSumsUp, TotalAddsUp
<1>5. ASSUME NEW G
      PROVE  SizeSums(G, t, S) <=> SumsUp(G, g, S)
  <2>1. \A d \in SUBSET S : d # {} => Pick(d) \in S
    BY DEF Pick
  <2>2. [d \in SUBSET S |-> IF d = {} THEN 0 ELSE t.node[Pick(d)].size + G[d \ {Pick(d)}]]
        = [d \in SUBSET S |-> IF d = {} THEN 0 ELSE g[Pick(d)] + G[d \ {Pick(d)}]]
    BY <1>2, <2>1
  <2> QED
    BY <2>2 DEF SizeSums, SumsUp
<1>6. SizeSums(H, t, S)
  BY <1>4, <1>5
<1> HIDE DEF H
<1>7. H[S] = F[S]
  BY <1>2, <1>4, <1>5, <1>6, SumsAgree
<1> QED
  BY <1>1, <1>4, <1>7 DEF S, g

\* What a sound tree is for the code that uses and verifies it.
LEMMA SoundTreeVerifies ==
  ASSUME NEW t, TreeSound(t)
  PROVE  LinksInside(t) /\ Ordered(t) /\ ParentsKnown(t) /\ ListsComplete(t) /\ Counted(t)
<1>1. t \in TreeType /\ Summed(t) /\ IsFiniteSet(Kin(t)) /\ Null \notin Kin(t)
  BY TreeFacts DEF TreeSound, Summed
<1>2. PICK under : Shaped(t, under) /\ Listed(t, Heads(t, under))
  BY DEF TreeSound
<1> DEFINE H == Heads(t, under)
<1>3. t.root \in Kin(t) \cup {Null} /\ under[Null] = {}
  BY <1>2 DEF Shaped
<1>4. H \subseteq Kin(t) /\ Subtree(t, t.root) = H
  <2>1. Subtree(t, t.root) = H
    BY <1>1, <1>2, <1>3, SubtreeIsUnder DEF Heads
  <2> QED
    BY <1>2, <1>3, <2>1 DEF Shaped, Heads
<1>5. ASSUME NEW n \in Kin(t)
      PROVE  /\ ShapedAt(t, under, n)
             /\ t.node[n].left \in Kin(t) \cup {Null} /\ t.node[n].right \in Kin(t) \cup {Null}
             /\ Subtree(t, t.node[n].left) = under[t.node[n].left]
             /\ Subtree(t, t.node[n].right) = under[t.node[n].right]
  <2>1. ShapedAt(t, under, n)
    BY <1>2 DEF Shaped
  <2>2. t.node[n].left \in Kin(t) \cup {Null} /\ t.node[n].right \in Kin(t) \cup {Null}
    BY <2>1 DEF ShapedAt
  <2> QED
    BY <1>1, <1>2, <2>1, <2>2, SubtreeIsUnder
<1>6. LinksInside(t)
  <2>1. ASSUME NEW n \in Kin(t)
        PROVE  t.node[n].parent \in Kin(t) \cup {Null} /\ t.node[n].next \in Kin(t) \cup {Null}
    <3>1. t.node[n].next \in Kin(t) \cup {Null}
      BY <1>2 DEF Listed, Chained
    <3>2. CASE n \in H
      BY <1>1, <1>2, <3>1, <3>2, HeadsHang DEF HungUp
    <3>3. CASE n \notin H
      BY <1>5, <3>1, <3>3 DEF ShapedAt
    <3> QED
      BY <3>2, <3>3
  <2> QED
    BY <1>3, <1>5, <2>1 DEF LinksInside
<1>7. Ordered(t)
  BY <1>4, <1>5 DEF Ordered, ShapedAt
<1>8. ParentsKnown(t)
  <2>1. t.root # Null => t.node[t.root].parent = Null
    BY <1>2 DEF Shaped
  <2>2. \A n \in H : \A c \in Children(t, n) : t.node[c].parent = n
    BY <1>4, <1>5 DEF ShapedAt
  <2> QED
    BY <1>4, <2>1, <2>2 DEF ParentsKnown
<1>9. ListsComplete(t)
  <2>1. /\ \A n \in H : \A m \in Chain(t, n) : m \in Kin(t) /\ t.node[m].size = t.node[n].size
        /\ \A m \in Kin(t) : \E n \in H : m \in Chain(t, n)
    <3>1. H \in SUBSET Kin(t)
      BY <1>4
    <3> QED
      BY <1>1, <1>2, <3>1, ChainsFound
  <2>2. UNION {Chain(t, n) : n \in H} = Kin(t)
    BY <2>1
  <2> QED
    BY <1>4, <2>1, <2>2 DEF ListsComplete
<1>10. Counted(t)
  <2>1. t.total = MapThenSumSet(LAMBDA n : t.node[n].size, Kin(t))
    BY <1>1, SizeSum DEF Summed
  <2> QED
    BY <1>1, <2>1 DEF Counted, Summed
<1> QED
  BY <1>6, <1>7, <1>8, <1>9, <1>10

\* The search over all blocks, those behind the heads too; what it finds is a
\* node of the tree.
LEMMA ClosestIsFound ==
  ASSUME NEW t, TreeSound(t), NEW size \in Int
  PROVE  LET n == ClosestFit(t, size) IN
         IF \E m \in Kin(t) : t.node[m].size >= size
           THEN /\ n \in Subtree(t, t.root) /\ n \in Kin(t) /\ n # Null /\ t.node[n].size >= size
                /\ \A m \in Kin(t) : t.node[m].size >= size => t.node[n].size <= t.node[m].size
           ELSE n = Null
<1> DEFINE n == ClosestFit(t, size)
<1>1. t \in TreeType /\ IsFiniteSet(Kin(t)) /\ Null \notin Kin(t)
  BY TreeFacts DEF TreeSound, Summed
<1>2. PICK under : Shaped(t, under) /\ Listed(t, Heads(t, under))
  BY DEF TreeSound
<1> DEFINE H == Heads(t, under)
<1>3. H \in SUBSET Kin(t) /\ Subtree(t, t.root) = H
  <2>1. t.root \in Kin(t) \cup {Null} /\ under \in [Kin(t) \cup {Null} -> SUBSET Kin(t)]
    BY <1>2 DEF Shaped
  <2>2. Subtree(t, t.root) = H
    BY <1>1, <1>2, <2>1, SubtreeIsUnder DEF Heads
  <2> QED
    BY <2>1, <2>2 DEF Heads
<1>4. Closest(t, size, H, n)
  BY <1>1, <1>2, FitFound DEF Heads
<1>5. \A m \in Kin(t) : \E k \in H : t.node[m].size = t.node[k].size
  BY <1>1, <1>2, <1>3, ChainsFound
<1> HIDE DEF n, H
<1>6. CASE \E m \in Kin(t) : t.node[m].size >= size
  <2>1. \E k \in H : t.node[k].size >= size
    BY <1>5, <1>6
  <2>2. /\ n \in H /\ t.node[n].size >= size
        /\ \A k \in H : t.node[k].size >= size => t.node[n].size <= t.node[k].size
    BY <1>4, <2>1 DEF Closest
  <2>3. ASSUME NEW m \in Kin(t), t.node[m].size >= size
        PROVE  t.node[n].size <= t.node[m].size
    <3>1. PICK k \in H : t.node[m].size = t.node[k].size
      BY <1>5
    <3> QED
      BY <2>2, <2>3, <3>1
  <2> QED
    BY <1>1, <1>3, <1>6, <2>2, <2>3 DEF n
<1>7. CASE ~\E m \in Kin(t) : t.node[m].size >= size
  <2>1. n = Null
    BY <1>3, <1>4, <1>7 DEF Closest
  <2> QED
    BY <1>7, <2>1 DEF n
<1> QED
  BY <1>6, <1>7

-----------------------------------------------------------------------------
(* Bins.                                                                   *)

BinType == [list: [SmallSizes -> Seq(Nat)], mask: SUBSET SmallSizes, count: Int, total: Int]

Lengths(bins) == [size \in SmallSizes |-> Len(bins.list[size])]
Words(bins)   == [size \in SmallSizes |-> size * Len(bins.list[size])]

BinsSound(bins) ==
  /\ bins \in BinType
  /\ bins.mask = {size \in SmallSizes : bins.list[size] # <<>>}
  /\ bins.count = Total(Lengths(bins), SmallSizes)
  /\ bins.total = Total(Words(bins), SmallSizes)

\* Small sizes are finitely many numbers, none of them 0.
LEMMA SmallFacts ==
  ASSUME BinAssumption
  PROVE  /\ IsFiniteSet(SmallSizes) /\ SmallSizes \subseteq Nat \ {0} /\ NoBin \notin SmallSizes
         /\ MinWordSize \in Nat \ {0} /\ MaxSmallBlocksWordSize \in Nat
         /\ \A size \in Int : size \in SmallSizes <=> MinWordSize <= size /\ size <= MaxSmallBlocksWordSize
<1>1. MinWordSize \in Nat \ {0} /\ MaxSmallBlocksWordSize \in Nat
  BY DEF BinAssumption
<1>2. IsFiniteSet(SmallSizes)
  BY <1>1, FS_Interval DEF SmallSizes
<1> QED
  BY <1>1, <1>2 DEF SmallSizes, NoBin

\* The lengths of the lists and their words are numbers.
LEMMA BinSums ==
  ASSUME BinAssumption, NEW bins \in BinType
  PROVE  /\ \A size \in SmallSizes : /\ bins.list[size] \in Seq(Nat) /\ Len(bins.list[size]) \in Nat
                                     /\ Lengths(bins)[size] = Len(bins.list[size]) /\ Lengths(bins)[size] \in Int
                                     /\ Words(bins)[size] = size * Len(bins.list[size]) /\ Words(bins)[size] \in Int
         /\ bins.count \in Int /\ bins.total \in Int
<1>1. ASSUME NEW size \in SmallSizes
      PROVE  bins.list[size] \in Seq(Nat) /\ Len(bins.list[size]) \in Nat /\ size \in Int
  <2>1. bins.list \in [SmallSizes -> Seq(Nat)]
    BY DEF BinType
  <2>2. bins.list[size] \in Seq(Nat)
    BY <2>1
  <2> QED
    BY <2>2, SmallFacts
<1>2. ASSUME NEW size \in SmallSizes
      PROVE  size * Len(bins.list[size]) \in Int
  BY <1>1
<1> QED
  BY <1>1, <1>2 DEF BinType, Lengths, Words

\* One list gets another length.
LEMMA BinChanged ==
  ASSUME BinAssumption, NEW bins, BinsSound(bins), NEW size \in SmallSizes, NEW list \in Seq(Nat),
         NEW u \in BinType,
         u.list = [bins.list EXCEPT ![size] = list],
         u.mask = IF list = <<>> THEN bins.mask \ {size} ELSE bins.mask \cup {size},
         u.count = bins.count + Len(list) - Len(bins.list[size]),
         u.total = bins.total + size * (Len(list) - Len(bins.list[size]))
  PROVE  BinsSound(u)
<1>1. bins \in BinType /\ bins.list \in [SmallSizes -> Seq(Nat)]
  BY DEF BinsSound, BinType
<1>2. u.list[size] = list /\ \A k \in SmallSizes \ {size} : u.list[k] = bins.list[k]
  BY <1>1
<1>3. u.mask = {k \in SmallSizes : u.list[k] # <<>>}
  <2>1. bins.mask = {k \in SmallSizes : bins.list[k] # <<>>}
    BY DEF BinsSound
  <2> QED
    BY <1>2, <2>1
<1> DEFINE g == Lengths(bins)
           h == Lengths(u)
           p == Words(bins)
           q == Words(u)
           new == Len(list)
           old == Len(bins.list[size])
<1>4. /\ IsFiniteSet(SmallSizes) /\ size \in Int /\ new \in Int /\ old \in Int
      /\ \A k \in SmallSizes : g[k] \in Int /\ p[k] \in Int
      /\ h[size] \in Int /\ q[size] \in Int
  <2>1. old \in Int
    BY <1>1, BinSums
  <2>2. \A k \in SmallSizes : g[k] \in Int /\ p[k] \in Int
    BY <1>1, BinSums
  <2>3. h[size] \in Int /\ q[size] \in Int
    BY BinSums
  <2> QED
    BY <2>1, <2>2, <2>3, SmallFacts
<1>5. /\ \A k \in SmallSizes \ {size} : h[k] = g[k] /\ q[k] = p[k]
      /\ h[size] = new /\ g[size] = old /\ q[size] = size * new /\ p[size] = size * old
  BY <1>2 DEF Lengths, Words
<1>6. bins.count = Total(g, SmallSizes) /\ bins.total = Total(p, SmallSizes)
  BY DEF BinsSound
<1>7. /\ u.count = bins.count + new - old
      /\ u.total = bins.total + size * (new - old)
  OBVIOUS
<1> HIDE DEF g, h, p, q, new, old
<1>8. Total(h, SmallSizes) = Total(g, SmallSizes) + h[size] - g[size]
  <2>1. /\ IsFiniteSet(SmallSizes) /\ \A k \in SmallSizes : g[k] \in Int
        /\ \A k \in SmallSizes \ {size} : h[k] = g[k]
    BY <1>4, <1>5
  <2>2. h[size] \in Int
    BY <1>4
  <2> QED
    BY <2>1, <2>2, TotalChange
<1>9. Total(q, SmallSizes) = Total(p, SmallSizes) + q[size] - p[size]
  <2>1. /\ IsFiniteSet(SmallSizes) /\ \A k \in SmallSizes : p[k] \in Int
        /\ \A k \in SmallSizes \ {size} : q[k] = p[k]
    BY <1>4, <1>5
  <2>2. q[size] \in Int
    BY <1>4
  <2> QED
    BY <2>1, <2>2, TotalChange
<1>10. Total(g, SmallSizes) \in Int /\ Total(p, SmallSizes) \in Int
  BY <1>4, TotalIsNumber
<1>11. size * (new - old) = size * new - size * old
  BY <1>4
<1>12. u.count = Total(h, SmallSizes)
  BY <1>4, <1>5, <1>6, <1>7, <1>8, <1>10
<1>13. u.total = Total(q, SmallSizes)
  <2>1. size * new \in Int /\ size * old \in Int
    BY <1>4
  <2> QED
    BY <1>5, <1>6, <1>7, <1>9, <1>10, <1>11, <2>1
<1> QED
  BY <1>3, <1>12, <1>13 DEF BinsSound, h, q

\* The empty bins are sound.
LEMMA EmptyBinsSound ==
  ASSUME BinAssumption
  PROVE  BinsSound(EmptyBins) /\ \A size \in SmallSizes : EmptyBins.list[size] = <<>>
<1>1. /\ EmptyBins.list = [size \in SmallSizes |-> <<>>] /\ EmptyBins.mask = {}
      /\ EmptyBins.count = 0 /\ EmptyBins.total = 0
  BY DEF EmptyBins
<1>2. EmptyBins \in BinType
  BY DEF EmptyBins, BinType
<1>3. \A size \in SmallSizes : EmptyBins.list[size] = <<>>
  BY <1>1
<1>4. \A size \in SmallSizes : Lengths(EmptyBins)[size] = 0 /\ Words(EmptyBins)[size] = 0
  BY <1>3, SmallFacts DEF Lengths, Words
<1>5. Total(Lengths(EmptyBins), SmallSizes) = 0 /\ Total(Words(EmptyBins), SmallSizes) = 0
  BY <1>4, SmallFacts, TotalOfZeros
<1> QED
  BY <1>1, <1>2, <1>3, <1>5 DEF BinsSound

\* A list with one more block in front, a list without its first block.
LEMMA FrontAdded ==
  ASSUME NEW list \in Seq(Nat), NEW b \in Nat
  PROVE  LET u == <<b>> \o list IN
         /\ u \in Seq(Nat) /\ u # <<>> /\ Len(u) = Len(list) + 1
         /\ ToSet(u) = ToSet(list) \cup {b}
         /\ IsInjective(list) /\ b \notin ToSet(list) => IsInjective(u)
<1> DEFINE u == <<b>> \o list
<1>1. /\ u \in Seq(Nat) /\ u # <<>> /\ Len(u) = Len(list) + 1 /\ Len(list) \in Nat
      /\ u[1] = b /\ \A i \in 1..Len(list) : u[i + 1] = list[i]
  OBVIOUS
<1>2. DOMAIN u = 1..(Len(list) + 1) /\ DOMAIN list = 1..Len(list)
  BY <1>1
<1> HIDE DEF u
<1>3. \A i \in DOMAIN u : i = 1 \/ (i - 1 \in DOMAIN list /\ u[i] = list[i - 1])
  <2> SUFFICES ASSUME NEW i \in DOMAIN u, i # 1
               PROVE  i - 1 \in DOMAIN list /\ u[i] = list[i - 1]
    OBVIOUS
  <2>1. i - 1 \in 1..Len(list)
    BY <1>1, <1>2
  <2>2. (i - 1) + 1 = i
    BY <1>2
  <2> QED
    BY <1>1, <1>2, <2>1, <2>2
<1>4. ToSet(u) \subseteq ToSet(list) \cup {b}
  BY <1>1, <1>3 DEF ToSet
<1>5. b \in ToSet(u)
  <2>1. 1 \in DOMAIN u
    BY <1>1, <1>2
  <2> QED
    BY <1>1, <2>1 DEF ToSet
<1>6. ToSet(list) \subseteq ToSet(u)
  <2> SUFFICES ASSUME NEW i \in DOMAIN list
               PROVE  list[i] \in ToSet(u)
    BY DEF ToSet
  <2>1. i + 1 \in DOMAIN u /\ u[i + 1] = list[i]
    BY <1>1, <1>2
  <2> QED
    BY <2>1 DEF ToSet
<1>7. ASSUME IsInjective(list), b \notin ToSet(list)
      PROVE  IsInjective(u)
  <2> SUFFICES ASSUME NEW i \in DOMAIN u, NEW j \in DOMAIN u, u[i] = u[j]
               PROVE  i = j
    BY DEF IsInjective
  <2>1. \A k \in DOMAIN list : list[k] # b
    BY <1>7 DEF ToSet
  <2>2. i \in Int /\ j \in Int
    BY <1>2
  <2>3. CASE i = 1 \/ j = 1
    BY <1>1, <1>3, <2>1, <2>3
  <2>4. CASE i # 1 /\ j # 1
    <3>1. i - 1 \in DOMAIN list /\ j - 1 \in DOMAIN list /\ list[i - 1] = list[j - 1]
      BY <1>3, <2>4
    <3>2. i - 1 = j - 1
      BY <1>7, <3>1 DEF IsInjective
    <3> QED
      BY <2>2, <3>2
  <2> QED
    BY <2>3, <2>4
<1> QED
  BY <1>1, <1>4, <1>5, <1>6, <1>7 DEF u

\* A list without its first block.
LEMMA FrontTaken ==
  ASSUME NEW list \in Seq(Nat), list # <<>>
  PROVE  LET u == Tail(list)
             b == Head(list)
         IN  /\ u \in Seq(Nat) /\ Len(u) = Len(list) - 1 /\ Len(list) \in Nat
             /\ (u = <<>>) <=> Len(list) = 1
             /\ b \in ToSet(list) /\ b \in Nat
             /\ IsInjective(list) => IsInjective(u) /\ ToSet(u) = ToSet(list) \ {b}
<1> DEFINE u == Tail(list)
           b == Head(list)
<1>1. /\ u \in Seq(Nat) /\ Len(list) \in Nat /\ Len(list) > 0 /\ Len(u) = Len(list) - 1
      /\ b = list[1] /\ \A i \in 1..(Len(list) - 1) : u[i] = list[i + 1]
      /\ DOMAIN list = 1..Len(list)
  OBVIOUS
<1>2. DOMAIN u = 1..(Len(list) - 1)
  BY <1>1
<1>3. (u = <<>>) <=> Len(list) = 1
  <2>1. \A w \in Seq(Nat) : (w = <<>>) <=> Len(w) = 0
    OBVIOUS
  <2>2. Len(u) = 0 <=> Len(list) = 1
    BY <1>1
  <2> QED
    BY <1>1, <2>1, <2>2
<1> HIDE DEF u, b
<1>4. 1 \in DOMAIN list /\ \A i \in DOMAIN u : i + 1 \in DOMAIN list /\ u[i] = list[i + 1] /\ i + 1 # 1
  BY <1>1, <1>2
<1>5. b \in ToSet(list)
  BY <1>1, <1>4 DEF ToSet
<1>6. b \in Nat
  BY <1>1, <1>4
<1>7. ASSUME IsInjective(list)
      PROVE  IsInjective(u) /\ ToSet(u) = ToSet(list) \ {b}
  <2>1. ASSUME NEW i \in DOMAIN u, NEW j \in DOMAIN u, u[i] = u[j]
        PROVE  i = j
    <3>1. i + 1 = j + 1
      BY <1>4, <1>7, <2>1 DEF IsInjective
    <3>2. i \in Int /\ j \in Int
      BY <1>2
    <3> QED
      BY <3>1, <3>2
  <2>2. ToSet(u) \subseteq ToSet(list) \ {b}
    <3> SUFFICES ASSUME NEW i \in DOMAIN u
                 PROVE  u[i] \in ToSet(list) /\ u[i] # b
      BY DEF ToSet
    <3>1. u[i] = list[i + 1] /\ i + 1 \in DOMAIN list /\ i + 1 # 1
      BY <1>4
    <3>2. list[i + 1] # list[1]
      BY <1>4, <1>7, <3>1 DEF IsInjective
    <3> QED
      BY <1>1, <3>1, <3>2 DEF ToSet
  <2>3. ToSet(list) \ {b} \subseteq ToSet(u)
    <3> SUFFICES ASSUME NEW i \in DOMAIN list, list[i] # b
                 PROVE  list[i] \in ToSet(u)
      BY DEF ToSet
    <3>1. i # 1 /\ i \in 1..Len(list)
      BY <1>1
    <3>2. i - 1 \in DOMAIN u /\ (i - 1) + 1 = i
      BY <1>1, <1>2, <3>1
    <3>3. u[i - 1] = list[i]
      BY <1>4, <3>2
    <3> QED
      BY <3>2, <3>3 DEF ToSet
  <2>4. IsInjective(u)
    BY <2>1 DEF IsInjective
  <2> QED
    BY <2>2, <2>3, <2>4
<1> QED
  BY <1>1, <1>3, <1>5, <1>6, <1>7 DEF u, b

\* What BinListImpl::verify counts up.
LengthSums(F, bins) ==
  F = [d \in SUBSET SmallSizes |->
         IF d = {} THEN 0 ELSE Len(bins.list[Pick(d)]) + F[d \ {Pick(d)}]]

WordSums(F, bins) ==
  F = [d \in SUBSET SmallSizes |->
         IF d = {} THEN 0 ELSE Pick(d) * Len(bins.list[Pick(d)]) + F[d \ {Pick(d)}]]

\* The fold in BinList::verify adds up the lengths.
LEMMA LengthSum ==
  ASSUME BinAssumption, NEW bins \in BinType
  PROVE  MapThenSumSet(LAMBDA size : Len(bins.list[size]), SmallSizes) = Total(Lengths(bins), SmallSizes)
<1> DEFINE g == Lengths(bins)
           H == CHOOSE F : LengthSums(F, bins)
<1>1. MapThenSumSet(LAMBDA size : Len(bins.list[size]), SmallSizes) = H[SmallSizes]
  BY DEF MapThenSumSet, MapThenFoldSet, LengthSums, Pick
<1>2. IsFiniteSet(SmallSizes) /\ \A d \in SmallSizes : g[d] \in Int /\ g[d] = Len(bins.list[d])
  BY BinSums, SmallFacts
<1> HIDE DEF g
<1>3. PICK F : AddsUp(F, g, SmallSizes)
  BY <1>2, SumsExist
<1>4. SumsUp(F, g, SmallSizes) /\ Total(g, SmallSizes) = F[SmallSizes]
  BY <1>2, <1>3, AddsUpSumsUp, TotalAddsUp
<1>5. ASSUME NEW G
      PROVE  LengthSums(G, bins) <=> SumsUp(G, g, SmallSizes)
  <2>1. \A d \in SUBSET SmallSizes : d # {} => Pick(d) \in SmallSizes
    BY DEF Pick
  <2>2. [d \in SUBSET SmallSizes |-> IF d = {} THEN 0 ELSE Len(bins.list[Pick(d)]) + G[d \ {Pick(d)}]]
        = [d \in SUBSET SmallSizes |-> IF d = {} THEN 0 ELSE g[Pick(d)] + G[d \ {Pick(d)}]]
    BY <1>2, <2>1
  <2> QED
    BY <2>2 DEF LengthSums, SumsUp
<1>6. LengthSums(H, bins)
  BY <1>4, <1>5
<1> HIDE DEF H
<1>7. H[SmallSizes] = F[SmallSizes]
  BY <1>2, <1>4, <1>5, <1>6, SumsAgree
<1> QED
  BY <1>1, <1>4, <1>7 DEF g

\* The fold in BinList::verify adds up the words.
LEMMA WordSum ==
  ASSUME BinAssumption, NEW bins \in BinType
  PROVE  MapThenSumSet(LAMBDA size : size * Len(bins.list[size]), SmallSizes) = Total(Words(bins), SmallSizes)
<1> DEFINE g == Words(bins)
           H == CHOOSE F : WordSums(F, bins)
<1>1. MapThenSumSet(LAMBDA size : size * Len(bins.list[size]), SmallSizes) = H[SmallSizes]
  BY DEF MapThenSumSet, MapThenFoldSet, WordSums, Pick
<1>2. IsFiniteSet(SmallSizes) /\ \A d \in SmallSizes : g[d] \in Int /\ g[d] = d * Len(bins.list[d])
  BY BinSums, SmallFacts
<1> HIDE DEF g
<1>3. PICK F : AddsUp(F, g, SmallSizes)
  BY <1>2, SumsExist
<1>4. SumsUp(F, g, SmallSizes) /\ Total(g, SmallSizes) = F[SmallSizes]
  BY <1>2, <1>3, AddsUpSumsUp, TotalAddsUp
<1>5. ASSUME NEW G
      PROVE  WordSums(G, bins) <=> SumsUp(G, g, SmallSizes)
  <2>1. \A d \in SUBSET SmallSizes : d # {} => Pick(d) \in SmallSizes
    BY DEF Pick
  <2>2. [d \in SUBSET SmallSizes |-> IF d = {} THEN 0 ELSE Pick(d) * Len(bins.list[Pick(d)]) + G[d \ {Pick(d)}]]
        = [d \in SUBSET SmallSizes |-> IF d = {} THEN 0 ELSE g[Pick(d)] + G[d \ {Pick(d)}]]
    BY <1>2, <2>1
  <2> QED
    BY <2>2 DEF WordSums, SumsUp
<1>6. WordSums(H, bins)
  BY <1>4, <1>5
<1> HIDE DEF H
<1>7. H[SmallSizes] = F[SmallSizes]
  BY <1>2, <1>4, <1>5, <1>6, SumsAgree
<1> QED
  BY <1>1, <1>4, <1>7 DEF g

\* Sound bins pass BinList::verify.
LEMMA SoundBinsVerify ==
  ASSUME BinAssumption, NEW bins, BinsSound(bins)
  PROVE  BinsExact(bins)
<1>1. bins \in BinType
  BY DEF BinsSound
<1>2. bins.count = MapThenSumSet(LAMBDA size : Len(bins.list[size]), SmallSizes)
  BY <1>1, LengthSum DEF BinsSound
<1>3. bins.total = MapThenSumSet(LAMBDA size : size * Len(bins.list[size]), SmallSizes)
  BY <1>1, WordSum DEF BinsSound
<1> QED
  BY <1>2, <1>3 DEF BinsExact, BinsSound

\* Bins with another list and other counters.
Refilled(bins, f, m, c, d) == [bins EXCEPT !.list = f, !.mask = m, !.count = c, !.total = d]

\* The fields of the bins with other lists.
LEMMA RefilledParts ==
  ASSUME NEW bins \in BinType, NEW f \in [SmallSizes -> Seq(Nat)], NEW m \in SUBSET SmallSizes,
         NEW c \in Int, NEW d \in Int
  PROVE  LET u == Refilled(bins, f, m, c, d) IN
         /\ u \in BinType
         /\ u.list = f /\ u.mask = m /\ u.count = c /\ u.total = d
BY DEF Refilled, BinType

\* BinList::add_block puts a block in front of the list of its size.
LEMMA BinAdded ==
  ASSUME BinAssumption, NEW bins, BinsSound(bins), NEW size \in SmallSizes, NEW b \in Nat
  PROVE  LET u == BinAdd(bins, b, size) IN
         /\ BinsSound(u)
         /\ u.list = [bins.list EXCEPT ![size] = <<b>> \o bins.list[size]]
<1> DEFINE list == <<b>> \o bins.list[size]
           f == [bins.list EXCEPT ![size] = list]
           m == bins.mask \cup {size}
           c == bins.count + 1
           d == bins.total + size
           u == Refilled(bins, f, m, c, d)
<1>1. /\ bins \in BinType /\ bins.list \in [SmallSizes -> Seq(Nat)] /\ bins.mask \in SUBSET SmallSizes
      /\ bins.list[size] \in Seq(Nat) /\ Len(bins.list[size]) \in Nat
      /\ bins.count \in Int /\ bins.total \in Int /\ size \in Int
  BY BinSums, SmallFacts DEF BinsSound, BinType
<1>2. list \in Seq(Nat) /\ list # <<>> /\ Len(list) = Len(bins.list[size]) + 1
  BY <1>1, FrontAdded
<1> HIDE DEF list
<1>3. f \in [SmallSizes -> Seq(Nat)] /\ m \in SUBSET SmallSizes /\ c \in Int /\ d \in Int
  BY <1>1, <1>2
<1>4. BinAdd(bins, b, size) = u
  BY <1>1 DEF BinAdd, Refilled, list, BinType
<1> HIDE DEF f, m, c, d
<1>5. u \in BinType /\ u.list = f /\ u.mask = m /\ u.count = c /\ u.total = d
  BY <1>1, <1>3, RefilledParts
<1> HIDE DEF u
<1>6. /\ u.list = [bins.list EXCEPT ![size] = list]
      /\ u.mask = IF list = <<>> THEN bins.mask \ {size} ELSE bins.mask \cup {size}
  BY <1>2, <1>5 DEF f, m
<1>7. u.count = bins.count + Len(list) - Len(bins.list[size])
  BY <1>1, <1>2, <1>5 DEF c
<1>8. u.total = bins.total + size * (Len(list) - Len(bins.list[size]))
  <2>1. Len(list) - Len(bins.list[size]) = 1
    BY <1>1, <1>2
  <2>2. size * 1 = size
    BY <1>1
  <2>3. size * (Len(list) - Len(bins.list[size])) = size
    BY <2>1, <2>2
  <2> QED
    BY <1>5, <2>3 DEF d
<1>9. BinsSound(u)
  BY <1>2, <1>5, <1>6, <1>7, <1>8, BinChanged
<1> QED
  BY <1>4, <1>6, <1>9 DEF list

\* BinList::remove_block takes the first block of a list.
LEMMA BinTaken ==
  ASSUME BinAssumption, NEW bins, BinsSound(bins), NEW size \in SmallSizes, bins.list[size] # <<>>
  PROVE  LET u == BinTake(bins, size) IN
         /\ BinsSound(u)
         /\ u.list = [bins.list EXCEPT ![size] = Tail(bins.list[size])]
<1> DEFINE list == Tail(bins.list[size])
           f == [bins.list EXCEPT ![size] = list]
           m == IF Len(bins.list[size]) = 1 THEN bins.mask \ {size} ELSE bins.mask
           c == bins.count - 1
           d == bins.total - size
           u == Refilled(bins, f, m, c, d)
<1>1. /\ bins \in BinType /\ bins.list \in [SmallSizes -> Seq(Nat)] /\ bins.mask \in SUBSET SmallSizes
      /\ bins.list[size] \in Seq(Nat) /\ Len(bins.list[size]) \in Nat
      /\ bins.count \in Int /\ bins.total \in Int /\ size \in Int
      /\ size \in bins.mask
  BY BinSums, SmallFacts DEF BinsSound, BinType
<1>2. /\ list \in Seq(Nat) /\ Len(list) = Len(bins.list[size]) - 1
      /\ (list = <<>>) <=> Len(bins.list[size]) = 1
  BY <1>1, FrontTaken
<1>3. BinTake(bins, size) = u
  BY <1>1 DEF BinTake, Refilled, BinType
<1> HIDE DEF list
<1>4. f \in [SmallSizes -> Seq(Nat)] /\ m \in SUBSET SmallSizes /\ c \in Int /\ d \in Int
  BY <1>1, <1>2
<1> HIDE DEF f, m, c, d
<1>5. u \in BinType /\ u.list = f /\ u.mask = m /\ u.count = c /\ u.total = d
  <2>1. bins \in BinType
    BY <1>1
  <2> QED
    BY <1>4, <2>1, RefilledParts
<1> HIDE DEF u
<1>6. /\ u.list = [bins.list EXCEPT ![size] = list]
      /\ u.mask = IF list = <<>> THEN bins.mask \ {size} ELSE bins.mask \cup {size}
  BY <1>1, <1>2, <1>5 DEF f, m
<1>7. u.count = bins.count + Len(list) - Len(bins.list[size])
  BY <1>1, <1>2, <1>5 DEF c
<1>8. u.total = bins.total + size * (Len(list) - Len(bins.list[size]))
  <2>1. Len(list) - Len(bins.list[size]) = -1
    BY <1>1, <1>2
  <2>2. size * (-1) = -size
    BY <1>1
  <2>3. size * (Len(list) - Len(bins.list[size])) = -size
    BY <2>1, <2>2
  <2> QED
    BY <1>1, <1>5, <2>3 DEF d
<1>9. BinsSound(u)
  BY <1>2, <1>5, <1>6, <1>7, <1>8, BinChanged
<1> QED
  BY <1>3, <1>6, <1>9 DEF list

\* The mask finds a list with blocks that are large enough.
LEMMA BinFound ==
  ASSUME BinAssumption, NEW bins, BinsSound(bins), NEW size \in Int, NextBin(bins, size) # NoBin
  PROVE  LET bin == NextBin(bins, size) IN
         bin \in SmallSizes /\ bin >= size /\ bins.list[bin] # <<>>
<1> DEFINE set == {k \in bins.mask : k >= size}
<1>1. /\ bins.mask = {k \in SmallSizes : bins.list[k] # <<>>} /\ set \subseteq SmallSizes
      /\ IsFiniteSet(SmallSizes) /\ SmallSizes \subseteq Int
  BY SmallFacts DEF BinsSound
<1>2. set # {} /\ NextBin(bins, size) = Min(set)
  BY DEF NextBin
<1>3. IsFiniteSet(set) /\ set \in SUBSET Int
  BY <1>1, FS_Subset
<1> HIDE DEF set
<1>4. Min(set) \in set
  BY <1>2, <1>3, MinExists
<1> QED
  BY <1>1, <1>2, <1>4 DEF set

-----------------------------------------------------------------------------
(* Both structures together.                                               *)

ListedIn(s) == UNION {ToSet(s.small.list[size]) : size \in SmallSizes}

\* The free blocks of a store: sizes by addresses.
FreeOf(s) == [b \in ListedIn(s) \cup Kin(s.tree) |->
                IF b \in Kin(s.tree) THEN s.tree.node[b].size
                ELSE CHOOSE size \in SmallSizes : b \in ToSet(s.small.list[size])]

\* Each free block is in one place, once.
Partition(s) ==
  /\ \A size \in SmallSizes : IsInjective(s.small.list[size])
  /\ \A size, other \in SmallSizes :
       size # other => ToSet(s.small.list[size]) \cap ToSet(s.small.list[other]) = {}
  /\ ListedIn(s) \cap Kin(s.tree) = {}

StoreSound(s) ==
  /\ s = [small |-> s.small, tree |-> s.tree]
  /\ TreeSound(s.tree) /\ BinsSound(s.small) /\ Partition(s)
  /\ \A n \in Kin(s.tree) : s.tree.node[n].size > MaxSmallBlocksWordSize

\* f gives the free blocks of s with their sizes.
Describes(s, f) ==
  /\ f = [b \in ListedIn(s) \cup Kin(s.tree) |-> f[b]]
  /\ \A b \in Kin(s.tree) : f[b] = s.tree.node[b].size
  /\ \A size \in SmallSizes : \A b \in ToSet(s.small.list[size]) : f[b] = size

\* What is free, by lists and nodes.
LEMMA FreeDescribed ==
  ASSUME NEW s, Partition(s)
  PROVE  Describes(s, FreeOf(s))
<1> DEFINE f == FreeOf(s)
           g(b) == IF b \in Kin(s.tree) THEN s.tree.node[b].size
                   ELSE CHOOSE size \in SmallSizes : b \in ToSet(s.small.list[size])
<1>1. f = [b \in ListedIn(s) \cup Kin(s.tree) |-> g(b)]
  BY DEF FreeOf
<1> HIDE DEF f
<1>2. \A b \in ListedIn(s) \cup Kin(s.tree) : f[b] = g(b)
  BY <1>1
<1>3. f = [b \in ListedIn(s) \cup Kin(s.tree) |-> f[b]]
  BY <1>1
<1>4. \A b \in Kin(s.tree) : f[b] = s.tree.node[b].size
  BY <1>2
<1>5. ASSUME NEW size \in SmallSizes, NEW b \in ToSet(s.small.list[size])
      PROVE  f[b] = size
  <2>1. b \in ListedIn(s)
    BY DEF ListedIn
  <2>2. b \notin Kin(s.tree)
    BY <2>1 DEF Partition
  <2>3. \A other \in SmallSizes : b \in ToSet(s.small.list[other]) <=> other = size
    BY DEF Partition
  <2>4. (CHOOSE other \in SmallSizes : b \in ToSet(s.small.list[other])) = size
    BY <2>3
  <2> QED
    BY <1>2, <2>1, <2>2, <2>4
<1> QED
  BY <1>3, <1>4, <1>5 DEF Describes, f

\* There is one such function.
LEMMA DescribedOnce ==
  ASSUME NEW s, NEW f, Describes(s, f), NEW g, Describes(s, g)
  PROVE  f = g
<1>1. ASSUME NEW b \in ListedIn(s) \cup Kin(s.tree)
      PROVE  f[b] = g[b]
  <2>1. CASE b \in Kin(s.tree)
    BY <2>1 DEF Describes
  <2>2. CASE b \in ListedIn(s)
    <3>1. PICK size \in SmallSizes : b \in ToSet(s.small.list[size])
      BY <2>2 DEF ListedIn
    <3> QED
      BY <3>1 DEF Describes
  <2> QED
    BY <2>1, <2>2
<1> QED
  BY <1>1 DEF Describes

\* The blocks with one more and with one less, and what they are.
With(f, b, size) == [c \in DOMAIN f \cup {b} |-> IF c = b THEN size ELSE f[c]]
Without(f, b)    == [c \in DOMAIN f \ {b} |-> f[c]]

\* A block more and a block less.
LEMMA WithParts ==
  ASSUME NEW f, NEW b, NEW size
  PROVE  /\ DOMAIN With(f, b, size) = DOMAIN f \cup {b}
         /\ With(f, b, size)[b] = size
         /\ \A c \in DOMAIN f \ {b} : With(f, b, size)[c] = f[c]
         /\ DOMAIN Without(f, b) = DOMAIN f \ {b}
         /\ \A c \in DOMAIN f \ {b} : Without(f, b)[c] = f[c]
BY DEF With, Without

\* Where the free blocks are, with their sizes.
LEMMA FreeParts ==
  ASSUME BinAssumption, NEW s, StoreSound(s)
  PROVE  /\ DOMAIN FreeOf(s) = ListedIn(s) \cup Kin(s.tree)
         /\ DOMAIN FreeOf(s) \subseteq Nat
         /\ \A b \in Kin(s.tree) : FreeOf(s)[b] = s.tree.node[b].size
         /\ \A size \in SmallSizes : \A b \in ToSet(s.small.list[size]) : FreeOf(s)[b] = size
         /\ \A b \in DOMAIN FreeOf(s) : FreeOf(s)[b] \in Nat /\ FreeOf(s)[b] >= MinWordSize
<1>1. Describes(s, FreeOf(s)) /\ DOMAIN FreeOf(s) = ListedIn(s) \cup Kin(s.tree)
  BY FreeDescribed DEF StoreSound, FreeOf
<1>2. s.tree \in TreeType /\ Kin(s.tree) \subseteq Nat
  BY TreeFacts DEF StoreSound, TreeSound
<1>3. ASSUME NEW size \in SmallSizes, NEW b \in ToSet(s.small.list[size])
      PROVE  b \in Nat
  <2>1. s.small.list[size] \in Seq(Nat)
    BY BinSums DEF StoreSound, BinsSound
  <2> QED
    BY <2>1 DEF ToSet
<1>4. ListedIn(s) \subseteq Nat
  BY <1>3 DEF ListedIn
<1>5. ASSUME NEW b \in DOMAIN FreeOf(s)
      PROVE  FreeOf(s)[b] \in Nat /\ FreeOf(s)[b] >= MinWordSize
  <2>1. CASE b \in Kin(s.tree)
    <3>1. FreeOf(s)[b] = s.tree.node[b].size
      BY <1>1, <2>1 DEF Describes
    <3>2. s.tree.node[b].size \in Int /\ s.tree.node[b].size > MaxSmallBlocksWordSize
      BY <1>2, <2>1, NodeParts DEF StoreSound
    <3> QED
      BY <3>1, <3>2 DEF BinAssumption
  <2>2. CASE b \in ListedIn(s)
    <3>1. PICK size \in SmallSizes : b \in ToSet(s.small.list[size])
      BY <2>2 DEF ListedIn
    <3>2. FreeOf(s)[b] = size
      BY <1>1, <3>1 DEF Describes
    <3> QED
      BY <3>2, SmallFacts
  <2> QED
    BY <1>1, <2>1, <2>2
<1> QED
  BY <1>1, <1>2, <1>4, <1>5 DEF Describes

\* Another tree or other bins.
LEMMA OtherTree ==
  ASSUME NEW s, s = [small |-> s.small, tree |-> s.tree], NEW t
  PROVE  LET u == [s EXCEPT !.tree = t] IN
         u = [small |-> u.small, tree |-> u.tree] /\ u.small = s.small /\ u.tree = t
OBVIOUS

\* A store with other bins and the same tree.
LEMMA OtherBins ==
  ASSUME NEW s, s = [small |-> s.small, tree |-> s.tree], NEW bins
  PROVE  LET u == [s EXCEPT !.small = bins] IN
         u = [small |-> u.small, tree |-> u.tree] /\ u.small = bins /\ u.tree = s.tree
OBVIOUS

\* A store whose tree has one more block.
LEMMA TreeGrows ==
  ASSUME BinAssumption, NEW s, StoreSound(s), NEW b \in Nat, b \notin DOMAIN FreeOf(s),
         NEW size \in Int, size > MaxSmallBlocksWordSize,
         NEW u, u = [small |-> u.small, tree |-> u.tree], u.small = s.small,
         TreeSound(u.tree), Grown(s.tree, u.tree, b, size)
  PROVE  StoreSound(u) /\ FreeOf(u) = With(FreeOf(s), b, size)
<1> DEFINE f == With(FreeOf(s), b, size)
<1>1. DOMAIN FreeOf(s) = ListedIn(s) \cup Kin(s.tree)
  BY FreeParts
<1>2. Kin(u.tree) = Kin(s.tree) \cup {b} /\ ListedIn(u) = ListedIn(s)
  BY DEF Grown, ListedIn
<1>3. ListedIn(s) \cap Kin(s.tree) = {} /\ b \notin ListedIn(s) /\ b \notin Kin(s.tree)
  BY <1>1 DEF StoreSound, Partition
<1>4. Partition(u)
  BY <1>2, <1>3 DEF StoreSound, Partition
<1>5. \A n \in Kin(u.tree) : u.tree.node[n].size > MaxSmallBlocksWordSize
  BY <1>2 DEF Grown, StoreSound
<1>6. StoreSound(u)
  BY <1>4, <1>5 DEF StoreSound
<1>7. DOMAIN f = ListedIn(u) \cup Kin(u.tree) /\ f = [c \in DOMAIN f |-> f[c]]
  BY <1>1, <1>2 DEF With
<1>8. f[b] = size /\ \A c \in DOMAIN FreeOf(s) : f[c] = FreeOf(s)[c]
  BY DEF With
<1> HIDE DEF f
<1>9. \A c \in Kin(u.tree) : f[c] = u.tree.node[c].size
  BY <1>1, <1>2, <1>8, FreeParts DEF Grown
<1>10. ASSUME NEW k \in SmallSizes, NEW c \in ToSet(u.small.list[k])
       PROVE  f[c] = k
  <2>1. c \in ToSet(s.small.list[k]) /\ c \in ListedIn(s)
    BY DEF ListedIn
  <2> QED
    BY <1>1, <1>8, <2>1, FreeParts
<1>11. Describes(u, f)
  BY <1>7, <1>9, <1>10 DEF Describes
<1> QED
  BY <1>4, <1>6, <1>11, FreeDescribed, DescribedOnce DEF f

\* A store whose tree has one block less.
LEMMA TreeShrinks ==
  ASSUME BinAssumption, NEW s, StoreSound(s), NEW b \in Kin(s.tree),
         NEW u, u = [small |-> u.small, tree |-> u.tree], u.small = s.small,
         TreeSound(u.tree), Shrunk(s.tree, u.tree, b)
  PROVE  StoreSound(u) /\ FreeOf(u) = Without(FreeOf(s), b)
<1> DEFINE f == Without(FreeOf(s), b)
<1>1. DOMAIN FreeOf(s) = ListedIn(s) \cup Kin(s.tree)
  BY FreeParts
<1>2. Kin(u.tree) = Kin(s.tree) \ {b} /\ ListedIn(u) = ListedIn(s)
  BY DEF Shrunk, ListedIn
<1>3. ListedIn(s) \cap Kin(s.tree) = {} /\ b \notin ListedIn(s)
  BY DEF StoreSound, Partition
<1>4. Partition(u)
  BY <1>2, <1>3 DEF StoreSound, Partition
<1>5. \A n \in Kin(u.tree) : u.tree.node[n].size > MaxSmallBlocksWordSize
  BY <1>2 DEF Shrunk, StoreSound
<1>6. StoreSound(u)
  BY <1>4, <1>5 DEF StoreSound
<1>7. DOMAIN f = ListedIn(u) \cup Kin(u.tree) /\ f = [c \in DOMAIN f |-> f[c]]
  BY <1>1, <1>2, <1>3 DEF Without
<1>8. \A c \in DOMAIN FreeOf(s) \ {b} : f[c] = FreeOf(s)[c]
  BY WithParts
<1> HIDE DEF f
<1>9. \A c \in Kin(u.tree) : f[c] = u.tree.node[c].size
  BY <1>1, <1>2, <1>8, FreeParts DEF Shrunk
<1>10. ASSUME NEW k \in SmallSizes, NEW c \in ToSet(u.small.list[k])
       PROVE  f[c] = k
  <2>1. c \in ToSet(s.small.list[k]) /\ c \in ListedIn(s)
    BY DEF ListedIn
  <2> QED
    BY <1>1, <1>3, <1>8, <2>1, FreeParts
<1>11. Describes(u, f)
  BY <1>7, <1>9, <1>10 DEF Describes
<1> QED
  BY <1>4, <1>6, <1>11, FreeDescribed, DescribedOnce DEF f

\* A store with one more block in one list.
LEMMA BinGrows ==
  ASSUME BinAssumption, NEW s, StoreSound(s), NEW b \in Nat, b \notin DOMAIN FreeOf(s),
         NEW size \in SmallSizes,
         NEW u, u = [small |-> u.small, tree |-> u.tree], u.tree = s.tree, BinsSound(u.small),
         u.small.list = [s.small.list EXCEPT ![size] = <<b>> \o s.small.list[size]]
  PROVE  StoreSound(u) /\ FreeOf(u) = With(FreeOf(s), b, size)
<1> DEFINE f == With(FreeOf(s), b, size)
           L(k) == ToSet(s.small.list[k])
           M(k) == ToSet(u.small.list[k])
<1>1. /\ DOMAIN FreeOf(s) = ListedIn(s) \cup Kin(s.tree)
      /\ \A c \in Kin(s.tree) : FreeOf(s)[c] = s.tree.node[c].size
      /\ \A k \in SmallSizes : \A c \in L(k) : FreeOf(s)[c] = k
  BY FreeParts
<1>2. s.small \in BinType /\ s.small.list \in [SmallSizes -> Seq(Nat)] /\ s.small.list[size] \in Seq(Nat)
  BY DEF StoreSound, BinsSound, BinType
<1>3. /\ M(size) = L(size) \cup {b}
      /\ IsInjective(s.small.list[size]) /\ b \notin L(size) => IsInjective(u.small.list[size])
  BY <1>2, FrontAdded
<1>4. \A k \in SmallSizes \ {size} : u.small.list[k] = s.small.list[k] /\ M(k) = L(k)
  BY <1>2
<1>5. ListedIn(s) = UNION {L(k) : k \in SmallSizes} /\ ListedIn(u) = UNION {M(k) : k \in SmallSizes}
  BY DEF ListedIn
<1>6. /\ \A k \in SmallSizes : IsInjective(s.small.list[k])
      /\ \A k, j \in SmallSizes : k # j => L(k) \cap L(j) = {}
      /\ ListedIn(s) \cap Kin(s.tree) = {}
  BY DEF StoreSound, Partition
<1> HIDE DEF L, M
<1>7. b \notin ListedIn(s) /\ b \notin Kin(s.tree) /\ \A k \in SmallSizes : b \notin L(k)
  BY <1>1, <1>5
<1>8. \A k \in SmallSizes : M(k) \subseteq L(k) \cup {b} /\ L(k) \subseteq M(k) /\ (b \in M(k) <=> k = size)
  BY <1>3, <1>4, <1>7
<1>9. ListedIn(u) = ListedIn(s) \cup {b}
  BY <1>5, <1>8
<1>10. \A k, j \in SmallSizes : k # j => M(k) \cap M(j) = {}
  BY <1>6, <1>8
<1>11. \A k \in SmallSizes : IsInjective(u.small.list[k])
  BY <1>3, <1>4, <1>6, <1>7
<1>12. Partition(u)
  BY <1>6, <1>7, <1>9, <1>10, <1>11 DEF Partition, M
<1>13. StoreSound(u)
  BY <1>12 DEF StoreSound
<1>14. DOMAIN f = ListedIn(u) \cup Kin(u.tree) /\ f = [c \in DOMAIN f |-> f[c]]
  BY <1>1, <1>9 DEF With
<1>15. f[b] = size /\ \A c \in DOMAIN FreeOf(s) : f[c] = FreeOf(s)[c]
  BY DEF With
<1> HIDE DEF f
<1>16. \A c \in Kin(u.tree) : f[c] = u.tree.node[c].size
  BY <1>1, <1>15
<1>17. ASSUME NEW k \in SmallSizes, NEW c \in M(k)
       PROVE  f[c] = k
  <2>1. CASE c = b
    BY <1>8, <1>15, <2>1
  <2>2. CASE c # b
    <3>1. c \in L(k) /\ c \in ListedIn(s)
      BY <1>5, <1>8, <2>2
    <3> QED
      BY <1>1, <1>15, <3>1
  <2> QED
    BY <2>1, <2>2
<1>18. Describes(u, f)
  BY <1>14, <1>16, <1>17 DEF Describes, M
<1> QED
  BY <1>12, <1>13, <1>18, FreeDescribed, DescribedOnce DEF f

\* A store without the first block of one list.
LEMMA BinShrinks ==
  ASSUME BinAssumption, NEW s, StoreSound(s),
         NEW size \in SmallSizes, s.small.list[size] # <<>>,
         NEW u, u = [small |-> u.small, tree |-> u.tree], u.tree = s.tree, BinsSound(u.small),
         u.small.list = [s.small.list EXCEPT ![size] = Tail(s.small.list[size])]
  PROVE  LET b == Head(s.small.list[size]) IN
         /\ b \in DOMAIN FreeOf(s) /\ FreeOf(s)[b] = size
         /\ StoreSound(u) /\ FreeOf(u) = Without(FreeOf(s), b)
<1> DEFINE b == Head(s.small.list[size])
           f == Without(FreeOf(s), b)
           L(k) == ToSet(s.small.list[k])
           M(k) == ToSet(u.small.list[k])
<1>1. /\ DOMAIN FreeOf(s) = ListedIn(s) \cup Kin(s.tree)
      /\ \A c \in Kin(s.tree) : FreeOf(s)[c] = s.tree.node[c].size
      /\ \A k \in SmallSizes : \A c \in L(k) : FreeOf(s)[c] = k
  BY FreeParts
<1>2. s.small \in BinType /\ s.small.list \in [SmallSizes -> Seq(Nat)] /\ s.small.list[size] \in Seq(Nat)
  BY DEF StoreSound, BinsSound, BinType
<1>3. /\ \A k \in SmallSizes : IsInjective(s.small.list[k])
      /\ \A k, j \in SmallSizes : k # j => L(k) \cap L(j) = {}
      /\ ListedIn(s) \cap Kin(s.tree) = {}
  BY DEF StoreSound, Partition
<1>4. M(size) = L(size) \ {b} /\ IsInjective(u.small.list[size]) /\ b \in L(size)
  <2>1. u.small.list[size] = Tail(s.small.list[size])
    BY <1>2
  <2> QED
    BY <1>2, <1>3, <2>1, FrontTaken
<1>5. \A k \in SmallSizes \ {size} : u.small.list[k] = s.small.list[k] /\ M(k) = L(k)
  BY <1>2
<1>6. ListedIn(s) = UNION {L(k) : k \in SmallSizes} /\ ListedIn(u) = UNION {M(k) : k \in SmallSizes}
  BY DEF ListedIn
<1>7. FreeOf(s)[b] = size /\ b \in ListedIn(s) /\ b \notin Kin(s.tree)
  BY <1>1, <1>3, <1>4, <1>6
<1> HIDE DEF L, M, b
<1>8. \A k \in SmallSizes : M(k) = L(k) \ {b}
  BY <1>3, <1>4, <1>5
<1>9. ListedIn(u) = ListedIn(s) \ {b}
  BY <1>6, <1>8
<1>10. \A k, j \in SmallSizes : k # j => M(k) \cap M(j) = {}
  BY <1>3, <1>8
<1>11. \A k \in SmallSizes : IsInjective(u.small.list[k])
  BY <1>3, <1>4, <1>5
<1>12. Partition(u)
  BY <1>3, <1>9, <1>10, <1>11 DEF Partition, M
<1>13. StoreSound(u)
  BY <1>12 DEF StoreSound
<1>14. DOMAIN f = ListedIn(u) \cup Kin(u.tree) /\ f = [c \in DOMAIN f |-> f[c]]
  BY <1>1, <1>7, <1>9 DEF Without
<1>15. \A c \in DOMAIN FreeOf(s) \ {b} : f[c] = FreeOf(s)[c]
  BY WithParts
<1> HIDE DEF f
<1>16. \A c \in Kin(u.tree) : f[c] = u.tree.node[c].size
  BY <1>1, <1>7, <1>15
<1>17. ASSUME NEW k \in SmallSizes, NEW c \in M(k)
       PROVE  f[c] = k
  <2>1. c \in L(k) /\ c # b /\ c \in ListedIn(s)
    BY <1>6, <1>8
  <2> QED
    BY <1>1, <1>15, <2>1
<1>18. Describes(u, f)
  BY <1>14, <1>16, <1>17 DEF Describes, M
<1>19. FreeOf(u) = f
  BY <1>12, <1>18, FreeDescribed, DescribedOnce
<1> QED
  BY <1>1, <1>7, <1>13, <1>19 DEF f, b

\* A block is put where its size belongs.
LEMMA BlockKept ==
  ASSUME BinAssumption, NEW s, StoreSound(s), NEW b \in Nat, b \notin DOMAIN FreeOf(s),
         NEW size \in Nat, size >= MinWordSize
  PROVE  LET u == Keep(s, b, size) IN
         StoreSound(u) /\ FreeOf(u) = With(FreeOf(s), b, size)
<1> DEFINE u == Keep(s, b, size)
<1>1. s = [small |-> s.small, tree |-> s.tree] /\ TreeSound(s.tree) /\ BinsSound(s.small)
  BY DEF StoreSound
<1>2. CASE size > MaxSmallBlocksWordSize
  <2> DEFINE t == AddBlock(s.tree, b, size)
  <2>1. b \notin Kin(s.tree)
    BY FreeParts
  <2>2. TreeSound(t) /\ Grown(s.tree, t, b, size)
    BY <1>1, <2>1, BlockAdded
  <2>3. u = [s EXCEPT !.tree = t]
    BY <1>2 DEF Keep
  <2> HIDE DEF u, t
  <2>4. u = [small |-> u.small, tree |-> u.tree] /\ u.small = s.small /\ u.tree = t
    BY <1>1, <2>3, OtherTree
  <2>5. StoreSound(u) /\ FreeOf(u) = With(FreeOf(s), b, size)
    <3>1. TreeSound(u.tree) /\ Grown(s.tree, u.tree, b, size) /\ size \in Int
      BY <2>2, <2>4
    <3> QED
      BY <1>2, <2>4, <3>1, TreeGrows
  <2> QED
    BY <2>5 DEF u
<1>3. CASE ~(size > MaxSmallBlocksWordSize)
  <2> DEFINE bins == BinAdd(s.small, b, size)
  <2>1. size \in SmallSizes
    BY <1>3, SmallFacts
  <2>2. BinsSound(bins) /\ bins.list = [s.small.list EXCEPT ![size] = <<b>> \o s.small.list[size]]
    BY <1>1, <2>1, BinAdded
  <2>3. u = [s EXCEPT !.small = bins]
    BY <1>3 DEF Keep
  <2> HIDE DEF u, bins
  <2>4. u = [small |-> u.small, tree |-> u.tree] /\ u.small = bins /\ u.tree = s.tree
    BY <1>1, <2>3, OtherBins
  <2>5. StoreSound(u) /\ FreeOf(u) = With(FreeOf(s), b, size)
    <3>1. /\ BinsSound(u.small)
          /\ u.small.list = [s.small.list EXCEPT ![size] = <<b>> \o s.small.list[size]]
      BY <2>2, <2>4
    <3> QED
      BY <2>1, <2>4, <3>1, BinGrows
  <2> QED
    BY <2>5 DEF u
<1> QED
  BY <1>2, <1>3

\* What is taken for a small and for a large request.
LEMMA SmallTaken ==
  ASSUME BinAssumption, NEW s, StoreSound(s), NEW size \in Int, NextBin(s.small, size) # NoBin
  PROVE  LET bin == NextBin(s.small, size)
             b   == Head(s.small.list[bin])
             u   == [s EXCEPT !.small = BinTake(@, bin)]
         IN  /\ b \in DOMAIN FreeOf(s) /\ FreeOf(s)[b] = bin /\ bin >= size
             /\ StoreSound(u) /\ FreeOf(u) = Without(FreeOf(s), b)
<1> DEFINE bin  == NextBin(s.small, size)
           b    == Head(s.small.list[bin])
           bins == BinTake(s.small, bin)
           u    == [s EXCEPT !.small = BinTake(@, bin)]
<1>1. s = [small |-> s.small, tree |-> s.tree] /\ BinsSound(s.small)
  BY DEF StoreSound
<1>2. bin \in SmallSizes /\ bin >= size /\ s.small.list[bin] # <<>>
  BY <1>1, BinFound
<1> HIDE DEF bin
<1>3. BinsSound(bins) /\ bins.list = [s.small.list EXCEPT ![bin] = Tail(s.small.list[bin])]
  BY <1>1, <1>2, BinTaken
<1>4. u = [s EXCEPT !.small = bins]
  OBVIOUS
<1> HIDE DEF u, bins
<1>5. u = [small |-> u.small, tree |-> u.tree] /\ u.small = bins /\ u.tree = s.tree
  BY <1>1, <1>4, OtherBins
<1>6. /\ b \in DOMAIN FreeOf(s) /\ FreeOf(s)[b] = bin
      /\ StoreSound(u) /\ FreeOf(u) = Without(FreeOf(s), b)
  <2>1. /\ BinsSound(u.small)
        /\ u.small.list = [s.small.list EXCEPT ![bin] = Tail(s.small.list[bin])]
    BY <1>3, <1>5
  <2> QED
    BY <1>2, <1>5, <2>1, BinShrinks
<1> QED
  BY <1>2, <1>6 DEF u, bin

\* Taking a block from the tree takes it from what is free.
LEMMA LargeTaken ==
  ASSUME BinAssumption, NEW s, StoreSound(s), NEW size \in Int, ClosestFit(s.tree, size) # Null
  PROVE  LET n == ClosestFit(s.tree, size)
             b == Victim(s.tree, n)
             u == [s EXCEPT !.tree = Detach(@, n)]
         IN  /\ b \in DOMAIN FreeOf(s) /\ FreeOf(s)[b] = s.tree.node[n].size
             /\ s.tree.node[n].size >= size
             /\ StoreSound(u) /\ FreeOf(u) = Without(FreeOf(s), b)
<1> DEFINE n == ClosestFit(s.tree, size)
           b == Victim(s.tree, n)
           t == Detach(s.tree, n)
           u == [s EXCEPT !.tree = Detach(@, n)]
<1>1. s = [small |-> s.small, tree |-> s.tree] /\ TreeSound(s.tree)
  BY DEF StoreSound
<1>2. n \in Subtree(s.tree, s.tree.root) /\ s.tree.node[n].size >= size
  BY <1>1, ClosestIsFound
<1> HIDE DEF n
<1>3. /\ b \in Kin(s.tree) /\ s.tree.node[b].size = s.tree.node[n].size
      /\ TreeSound(t) /\ Shrunk(s.tree, t, b)
  BY <1>1, <1>2, BlockDetached
<1>4. u = [s EXCEPT !.tree = t]
  OBVIOUS
<1> HIDE DEF u, t, b
<1>5. u = [small |-> u.small, tree |-> u.tree] /\ u.small = s.small /\ u.tree = t
  BY <1>1, <1>4, OtherTree
<1>6. StoreSound(u) /\ FreeOf(u) = Without(FreeOf(s), b)
  <2>1. TreeSound(u.tree) /\ Shrunk(s.tree, u.tree, b)
    BY <1>3, <1>5
  <2> QED
    BY <1>3, <1>5, <2>1, TreeShrinks
<1>7. b \in DOMAIN FreeOf(s) /\ FreeOf(s)[b] = s.tree.node[n].size
  BY <1>3, FreeParts
<1> QED
  BY <1>2, <1>6, <1>7 DEF u, b, n

-----------------------------------------------------------------------------
(* Blocks in memory.                                                       *)

\* Two ranges without a common word.
Clear(b, m, c, n) == b + m <= c \/ c + n <= b

\* Blocks are clear of each other if they share no word.
LEMMA ClearExtents ==
  ASSUME NEW b \in Nat, NEW m \in Nat \ {0}, NEW c \in Nat, NEW n \in Nat \ {0}
  PROVE  Clear(b, m, c, n) <=> Extent(b, m) \cap Extent(c, n) = {}
<1>1. ASSUME Clear(b, m, c, n)
      PROVE  Extent(b, m) \cap Extent(c, n) = {}
  BY <1>1 DEF Clear, Extent
<1>2. ASSUME ~Clear(b, m, c, n)
      PROVE  \E w : w \in Extent(b, m) /\ w \in Extent(c, n)
  <2>1. CASE b <= c
    <3>1. c \in Extent(b, m) /\ c \in Extent(c, n)
      BY <1>2, <2>1 DEF Clear, Extent
    <3> QED
      BY <3>1
  <2>2. CASE c <= b
    <3>1. b \in Extent(b, m) /\ b \in Extent(c, n)
      BY <1>2, <2>2 DEF Clear, Extent
    <3> QED
      BY <3>1
  <2> QED
    BY <2>1, <2>2
<1> QED
  BY <1>1, <1>2

\* Blocks of the sizes that occur, at addresses.
Sized(f) == \A b \in DOMAIN f : b \in Nat /\ f[b] \in Nat /\ f[b] >= MinWordSize

\* No word in two of them, or in one of f and one of g.
Spread(f)   == \A b, c \in DOMAIN f : b # c => Clear(b, f[b], c, f[c])
Across(f, g) == \A b \in DOMAIN f : \A c \in DOMAIN g : Clear(b, f[b], c, g[c])

\* The blocks held and the free blocks.
MemoryShared(f, g) == Sized(f) /\ Sized(g) /\ Spread(f) /\ Spread(g) /\ Across(f, g)

\* A block moves from one side to the other.
LEMMA BlockGiven ==
  ASSUME BinAssumption, NEW f, NEW g, MemoryShared(f, g), NEW b \in DOMAIN f
  PROVE  /\ b \notin DOMAIN g
         /\ MemoryShared(Without(f, b), With(g, b, f[b]))
<1> DEFINE h == Without(f, b)
           k == With(g, b, f[b])
<1>1. /\ Sized(f) /\ Sized(g) /\ Spread(f) /\ Spread(g) /\ Across(f, g)
      /\ MinWordSize \in Nat \ {0}
  BY SmallFacts DEF MemoryShared
<1>2. /\ DOMAIN h = DOMAIN f \ {b} /\ \A c \in DOMAIN h : h[c] = f[c]
      /\ DOMAIN k = DOMAIN g \cup {b} /\ k[b] = f[b]
      /\ \A c \in DOMAIN k : c # b => c \in DOMAIN g /\ k[c] = g[c]
  BY DEF With, Without
<1> HIDE DEF h, k
<1>3. b \notin DOMAIN g
  BY <1>1 DEF Across, Clear, Sized
<1>4. Sized(h)
  BY <1>1, <1>2 DEF Sized
<1>5. Sized(k)
  BY <1>1, <1>2 DEF Sized
<1>6. Spread(h)
  BY <1>1, <1>2 DEF Spread
<1>7. \A c \in DOMAIN g : Clear(b, f[b], c, g[c]) /\ Clear(c, g[c], b, f[b])
  BY <1>1 DEF Across, Clear
<1>8. Spread(k)
  BY <1>1, <1>2, <1>7 DEF Spread
<1>9. Across(h, k)
  BY <1>1, <1>2 DEF Spread, Across
<1> QED
  BY <1>3, <1>4, <1>5, <1>6, <1>8, <1>9 DEF MemoryShared, h, k

\* The front of a free block is handed out.
LEMMA BlockTaken ==
  ASSUME BinAssumption, NEW f, NEW g, MemoryShared(f, g), NEW b \in DOMAIN g,
         NEW size \in Nat, size >= MinWordSize, size <= g[b]
  PROVE  MemoryShared(With(f, b, size), Without(g, b))
<1> DEFINE h == With(f, b, size)
           k == Without(g, b)
<1>1. /\ Sized(f) /\ Sized(g) /\ Spread(f) /\ Spread(g) /\ Across(f, g)
      /\ MinWordSize \in Nat \ {0} /\ b \in Nat /\ g[b] \in Nat
  BY SmallFacts DEF MemoryShared, Sized
<1>2. /\ DOMAIN h = DOMAIN f \cup {b} /\ h[b] = size
      /\ \A c \in DOMAIN h : c # b => c \in DOMAIN f /\ h[c] = f[c]
      /\ DOMAIN k = DOMAIN g \ {b} /\ \A c \in DOMAIN k : k[c] = g[c] /\ c # b
  BY DEF With, Without
<1> HIDE DEF h, k
<1>3. Sized(h)
  BY <1>1, <1>2 DEF Sized
<1>4. Sized(k)
  BY <1>1, <1>2 DEF Sized
<1>5. Spread(k)
  BY <1>1, <1>2 DEF Spread
<1>6. ASSUME NEW c \in Nat, NEW n \in Nat, Clear(c, n, b, g[b])
      PROVE  Clear(b, size, c, n) /\ Clear(c, n, b, size)
  BY <1>1, <1>6 DEF Clear
<1>7. \A c \in DOMAIN f : Clear(b, size, c, f[c]) /\ Clear(c, f[c], b, size)
  BY <1>1, <1>6 DEF Across, Sized
<1>8. \A c \in DOMAIN k : Clear(b, size, c, k[c])
  BY <1>1, <1>2, <1>6 DEF Spread, Sized
<1>9. Spread(h)
  BY <1>1, <1>2, <1>7 DEF Spread
<1>10. Across(h, k)
  BY <1>1, <1>2, <1>8 DEF Across
<1> QED
  BY <1>3, <1>4, <1>5, <1>9, <1>10 DEF MemoryShared, h, k

\* What is left of it is a free block again.
LEMMA RestLeft ==
  ASSUME BinAssumption, NEW f, NEW g, MemoryShared(f, g), NEW b \in DOMAIN g,
         NEW size \in Nat, size >= MinWordSize, g[b] - size > MinWordSize
  PROVE  LET k == Without(g, b) IN
         /\ b + size \in Nat /\ g[b] - size \in Nat /\ b + size \notin DOMAIN k
         /\ MemoryShared(With(f, b, size), With(k, b + size, g[b] - size))
<1> DEFINE h == With(f, b, size)
           k == Without(g, b)
           d == b + size
           rest == g[b] - size
           l == With(k, d, rest)
<1>1. /\ Sized(f) /\ Sized(g) /\ Spread(f) /\ Spread(g) /\ Across(f, g)
      /\ MinWordSize \in Nat \ {0} /\ b \in Nat /\ g[b] \in Nat
  BY SmallFacts DEF MemoryShared, Sized
<1>2. /\ d \in Nat /\ rest \in Nat /\ rest > MinWordSize /\ d = b + size /\ d + rest = b + g[b]
      /\ size > 0
  BY <1>1
<1>3. MemoryShared(h, k)
  BY <1>1, <1>2, BlockTaken
<1>4. /\ DOMAIN h = DOMAIN f \cup {b} /\ h[b] = size
      /\ \A c \in DOMAIN h : c # b => c \in DOMAIN f /\ h[c] = f[c]
      /\ DOMAIN k = DOMAIN g \ {b} /\ \A c \in DOMAIN k : k[c] = g[c] /\ c # b
      /\ DOMAIN l = DOMAIN k \cup {d} /\ l[d] = rest
      /\ \A c \in DOMAIN l : c # d => c \in DOMAIN k /\ l[c] = k[c]
  BY DEF With, Without
<1> HIDE DEF h, k, d, rest, l
<1>5. Sized(h) /\ Sized(k) /\ Spread(h) /\ Spread(k) /\ Across(h, k)
  BY <1>3 DEF MemoryShared
<1>6. ASSUME NEW c \in Nat, NEW n \in Nat \ {0}, Clear(c, n, b, g[b])
      PROVE  Clear(d, rest, c, n) /\ Clear(c, n, d, rest) /\ c # d
  BY <1>1, <1>2, <1>6 DEF Clear
<1>7. \A c \in DOMAIN k : Clear(d, rest, c, k[c]) /\ Clear(c, k[c], d, rest) /\ c # d
  <2> SUFFICES ASSUME NEW c \in DOMAIN k
               PROVE  Clear(d, rest, c, k[c]) /\ Clear(c, k[c], d, rest) /\ c # d
    OBVIOUS
  <2>1. c \in Nat /\ k[c] \in Nat \ {0} /\ c \in DOMAIN g /\ c # b /\ k[c] = g[c]
    BY <1>1, <1>4, <1>5 DEF Sized
  <2>2. Clear(c, k[c], b, g[b])
    BY <1>1, <2>1 DEF Spread
  <2> QED
    BY <1>6, <2>1, <2>2
<1>8. \A c \in DOMAIN h : Clear(c, h[c], d, rest)
  <2> SUFFICES ASSUME NEW c \in DOMAIN h
               PROVE  Clear(c, h[c], d, rest)
    OBVIOUS
  <2>1. CASE c = b
    BY <1>1, <1>2, <1>4, <2>1 DEF Clear
  <2>2. CASE c # b
    <3>1. c \in DOMAIN f /\ h[c] = f[c] /\ c \in Nat /\ h[c] \in Nat \ {0}
      BY <1>1, <1>4, <1>5, <2>2 DEF Sized
    <3>2. Clear(c, h[c], b, g[b])
      BY <1>1, <3>1 DEF Across
    <3> QED
      BY <1>6, <3>1, <3>2
  <2> QED
    BY <2>1, <2>2
<1>9. Sized(l)
  BY <1>1, <1>2, <1>4, <1>5 DEF Sized
<1>10. Spread(l)
  BY <1>4, <1>5, <1>7 DEF Spread
<1>11. Across(h, l)
  BY <1>4, <1>5, <1>8 DEF Across
<1>12. MemoryShared(h, l)
  BY <1>5, <1>9, <1>10, <1>11 DEF MemoryShared
<1>13. d \notin DOMAIN k
  BY <1>7
<1> QED
  BY <1>2, <1>12, <1>13 DEF h, l, k, d, rest

-----------------------------------------------------------------------------
(* The specification.                                                      *)

\* The inductive invariant: both structures are sound, and the blocks they
\* hold and those of the loader share no word.
BlocksSound == StoreSound(Store) /\ MemoryShared(live, Free)

\* The variables as one store.
LEMMA FreeIsOfStore ==
  /\ Store = [small |-> small, tree |-> tree] /\ Store.small = small /\ Store.tree = tree
  /\ Free = FreeOf(Store) /\ SmallBlocks = ListedIn(Store)
BY DEF Store, Free, FreeOf, SmallBlocks, ListedIn

\* What a step to another store does to the free blocks.
LEMMA NextFree ==
  ASSUME NEW s, StoreSound(s), small' = s.small, tree' = s.tree
  PROVE  Store' = s /\ Free' = FreeOf(s) /\ StoreSound(Store')
<1>1. s = [small |-> s.small, tree |-> s.tree]
  BY DEF StoreSound
<1>2. Store' = s
  BY <1>1 DEF Store
<1>3. Free' = FreeOf(s)
  BY DEF Free, SmallBlocks, FreeOf, ListedIn
<1> QED
  BY <1>2, <1>3

\* Nothing is free in an empty store.
LEMMA EmptyFree ==
  ASSUME BinAssumption, NEW s, s = [small |-> EmptyBins, tree |-> EmptyTree]
  PROVE  StoreSound(s) /\ FreeOf(s) = [b \in {} |-> 0]
<1>1. s.small = EmptyBins /\ s.tree = EmptyTree /\ s = [small |-> s.small, tree |-> s.tree]
  OBVIOUS
<1>2. /\ TreeSound(s.tree) /\ Kin(s.tree) = {}
      /\ BinsSound(s.small) /\ \A size \in SmallSizes : s.small.list[size] = <<>>
  BY <1>1, EmptyTreeSound, EmptyBinsSound
<1>3. \A size \in SmallSizes : ToSet(s.small.list[size]) = {} /\ IsInjective(s.small.list[size])
  BY <1>2 DEF ToSet, IsInjective
<1>4. ListedIn(s) = {}
  BY <1>3 DEF ListedIn
<1>5. Partition(s)
  BY <1>2, <1>3, <1>4 DEF Partition
<1>6. FreeOf(s) = [b \in {} |-> 0]
  <2> DEFINE g(b) == IF b \in Kin(s.tree) THEN s.tree.node[b].size
                     ELSE CHOOSE size \in SmallSizes : b \in ToSet(s.small.list[size])
  <2>1. FreeOf(s) = [b \in ListedIn(s) \cup Kin(s.tree) |-> g(b)]
    BY DEF FreeOf
  <2>2. ListedIn(s) \cup Kin(s.tree) = {}
    BY <1>2, <1>4
  <2> HIDE DEF g
  <2> QED
    BY <2>1, <2>2
<1> QED
  BY <1>1, <1>2, <1>5, <1>6 DEF StoreSound

\* The first state is sound, and nothing is free in it.
LEMMA SoundInitially ==
  ASSUME BinAssumption, BlocksAssumption, Init
  PROVE  BlocksSound /\ Free = [b \in {} |-> 0]
<1>1. StoreSound(Store) /\ Free = [b \in {} |-> 0]
  BY EmptyFree, FreeIsOfStore DEF Init
<1>2. Sized(live) /\ \A b, c \in DOMAIN live : b # c => Extent(b, live[b]) \cap Extent(c, live[c]) = {}
  BY DEF Init, BlocksAssumption, Sized
<1>3. Spread(live)
  <2> SUFFICES ASSUME NEW b \in DOMAIN live, NEW c \in DOMAIN live, b # c
               PROVE  Clear(b, live[b], c, live[c])
    BY DEF Spread
  <2>1. b \in Nat /\ c \in Nat /\ live[b] \in Nat \ {0} /\ live[c] \in Nat \ {0}
    BY <1>2, SmallFacts DEF Sized
  <2> QED
    BY <1>2, <2>1, ClearExtents
<1>4. DOMAIN Free = {}
  BY <1>1
<1>5. MemoryShared(live, Free)
  BY <1>2, <1>3, <1>4 DEF MemoryShared, Sized, Spread, Across
<1> QED
  BY <1>1, <1>5 DEF BlocksSound

\* The ledger adds and removes blocks as the store does.
LEMMA LedgerTerms ==
  ASSUME NEW f, NEW b, NEW size
  PROVE  /\ Ledger!With(f, b, size) = With(f, b, size)
         /\ Ledger!Without(f, b) = Without(f, b)
         /\ Restrict(f, DOMAIN f \ {b}) = Without(f, b)
BY DEF Ledger!With, Ledger!Without, Ledger!Restrict, With, Without, Restrict

\* Giving a block back keeps the store sound, and the ledger sees it.
LEMMA GiveSteps ==
  ASSUME BinAssumption, BlocksSound, NEW b \in DOMAIN live, Give(b)
  PROVE  BlocksSound' /\ Ledger!Give(b)
<1> DEFINE s == Keep(Store, b, live[b])
<1>1. /\ StoreSound(Store) /\ MemoryShared(live, Free) /\ Free = FreeOf(Store)
      /\ b \in Nat /\ live[b] \in Nat /\ live[b] >= MinWordSize
  BY FreeIsOfStore DEF BlocksSound, MemoryShared, Sized
<1>2. small' = s.small /\ tree' = s.tree /\ live' = Without(live, b)
  BY LedgerTerms DEF Give
<1>3. b \notin DOMAIN Free /\ MemoryShared(Without(live, b), With(Free, b, live[b]))
  BY <1>1, BlockGiven
<1>4. StoreSound(s) /\ FreeOf(s) = With(Free, b, live[b])
  <2>1. b \notin DOMAIN FreeOf(Store)
    BY <1>1, <1>3
  <2> QED
    BY <1>1, <2>1, BlockKept
<1> HIDE DEF s
<1>5. Free' = With(Free, b, live[b]) /\ StoreSound(Store')
  BY <1>2, <1>4, NextFree
<1>6. BlocksSound'
  BY <1>2, <1>3, <1>5 DEF BlocksSound
<1>7. Ledger!Give(b)
  BY <1>2, <1>5, LedgerTerms DEF Ledger!Give
<1> QED
  BY <1>6, <1>7

\* So does handing one out, cut to what was asked for.
LEMMA HandOutSteps ==
  ASSUME BinAssumption, BlocksSound,
         NEW s, StoreSound(s), NEW b \in DOMAIN Free, FreeOf(s) = Without(Free, b),
         NEW size \in Nat, size >= MinWordSize, size <= Free[b], HandOut(b, size, Free[b], s)
  PROVE  BlocksSound' /\ Ledger!Take(b, size)
<1> DEFINE real == Free[b]
           rest == real - size
           t == KeepRest(s, b, size, real)
<1>1. StoreSound(Store) /\ MemoryShared(live, Free)
  BY DEF BlocksSound
<1>2. small' = t.small /\ tree' = t.tree /\ live' = With(live, b, size)
  BY DEF HandOut, With
<1>3. real \in Nat /\ rest \in Nat /\ MinWordSize \in Nat \ {0}
  BY <1>1, SmallFacts DEF MemoryShared, Sized
<1>4. CASE rest > MinWordSize
  <2>1. t = Keep(s, b + size, rest)
    BY <1>4 DEF KeepRest
  <2>2. /\ b + size \in Nat /\ rest \in Nat /\ b + size \notin DOMAIN FreeOf(s)
        /\ MemoryShared(With(live, b, size), With(FreeOf(s), b + size, rest))
    BY <1>1, <1>4, RestLeft
  <2>3. rest >= MinWordSize
    BY <1>3, <1>4
  <2> HIDE DEF t, rest
  <2>4. StoreSound(t) /\ FreeOf(t) = With(FreeOf(s), b + size, rest)
    BY <2>1, <2>2, <2>3, BlockKept
  <2>5. Free' = With(Without(Free, b), b + size, rest) /\ StoreSound(Store')
    BY <1>2, <2>4, NextFree
  <2>6. BlocksSound'
    BY <1>2, <2>2, <2>5 DEF BlocksSound
  <2>7. rest > 0
    BY <1>3, <1>4
  <2>8. Ledger!With(Ledger!Without(Free, b), b + size, rest) = Free'
    BY <2>5, LedgerTerms
  <2>9. live' = Ledger!With(live, b, size)
    BY <1>2, LedgerTerms
  <2>10. Ledger!Take(b, size)
    BY <2>7, <2>8, <2>9 DEF Ledger!Take, rest
  <2> QED
    BY <2>6, <2>10
<1>5. CASE ~(rest > MinWordSize)
  <2>1. t = s
    BY <1>5 DEF KeepRest
  <2>2. rest <= MinWordSize
    BY <1>3, <1>5
  <2>3. MemoryShared(With(live, b, size), Without(Free, b))
    BY <1>1, BlockTaken
  <2> HIDE DEF t, rest
  <2>4. Free' = Without(Free, b) /\ StoreSound(Store')
    BY <1>2, <2>1, NextFree
  <2>5. BlocksSound'
    BY <1>2, <2>3, <2>4 DEF BlocksSound
  <2>6. Ledger!Take(b, size)
    BY <1>2, <2>2, <2>4, LedgerTerms DEF Ledger!Take, rest
  <2> QED
    BY <2>5, <2>6
<1> QED
  BY <1>4, <1>5

\* A request takes from one free block.
LEMMA TakeSteps ==
  ASSUME BinAssumption, BlocksSound, NEW size \in Requests, Take(size)
  PROVE  BlocksSound' /\ \E b \in DOMAIN Free : size \in 1..Free[b] /\ Ledger!Take(b, size)
<1>1. /\ StoreSound(Store) /\ MemoryShared(live, Free) /\ Free = FreeOf(Store)
      /\ Store.small = small /\ Store.tree = tree
  BY FreeIsOfStore DEF BlocksSound
<1>2. size \in Nat \ {0} /\ size >= MinWordSize /\ size \in Int
  BY SmallFacts DEF Requests
<1>3. \A b \in DOMAIN Free : Free[b] \in Nat
  BY <1>1 DEF MemoryShared, Sized
<1>4. CASE TakeSmall(size)
  <2> DEFINE bin == NextBin(small, size)
             b   == Head(small.list[bin])
             u   == [Store EXCEPT !.small = BinTake(@, bin)]
  <2>1. bin # NoBin /\ HandOut(b, size, bin, u)
    BY <1>4 DEF TakeSmall
  <2>2. /\ b \in DOMAIN Free /\ Free[b] = bin /\ bin >= size
        /\ StoreSound(u) /\ FreeOf(u) = Without(Free, b)
    BY <1>1, <1>2, <2>1, SmallTaken
  <2> HIDE DEF bin, b, u
  <2>3. HandOut(b, size, Free[b], u) /\ size <= Free[b] /\ size \in 1..Free[b]
    BY <1>2, <1>3, <2>1, <2>2
  <2>4. BlocksSound' /\ Ledger!Take(b, size)
    BY <1>2, <2>2, <2>3, HandOutSteps
  <2> QED
    BY <2>2, <2>3, <2>4
<1>5. CASE TakeLarge(size)
  <2> DEFINE n == ClosestFit(tree, size)
             b == Victim(tree, n)
             u == [Store EXCEPT !.tree = Detach(@, n)]
             real == tree.node[n].size
  <2>1. n # Null /\ HandOut(b, size, real, u)
    BY <1>5 DEF TakeLarge
  <2>2. /\ b \in DOMAIN Free /\ Free[b] = real /\ real >= size
        /\ StoreSound(u) /\ FreeOf(u) = Without(Free, b)
    BY <1>1, <1>2, <2>1, LargeTaken
  <2> HIDE DEF n, b, u, real
  <2>3. HandOut(b, size, Free[b], u) /\ size <= Free[b] /\ size \in 1..Free[b]
    BY <1>2, <1>3, <2>1, <2>2
  <2>4. BlocksSound' /\ Ledger!Take(b, size)
    BY <1>2, <2>2, <2>3, HandOutSteps
  <2> QED
    BY <2>2, <2>3, <2>4
<1> QED
  BY <1>4, <1>5 DEF Take

\* Every step keeps the store sound and is one of the ledger, or none.
LEMMA SoundStays ==
  ASSUME BinAssumption, BlocksSound, [Next]_vars
  PROVE  BlocksSound' /\ [Ledger!Next]_(Ledger!blocks)
<1>1. ASSUME NEW b \in DOMAIN live, Give(b)
      PROVE  BlocksSound' /\ Ledger!Next
  BY <1>1, GiveSteps DEF Ledger!Next
<1>2. ASSUME NEW size \in Requests, Take(size)
      PROVE  BlocksSound' /\ Ledger!Next
  <2>1. BlocksSound' /\ \E b \in DOMAIN Free : size \in 1..Free[b] /\ Ledger!Take(b, size)
    BY <1>2, TakeSteps
  <2> QED
    BY <2>1 DEF Ledger!Next
<1>3. ASSUME UNCHANGED vars
      PROVE  BlocksSound' /\ UNCHANGED Ledger!blocks
  <2>1. small' = small /\ tree' = tree /\ live' = live
    BY <1>3 DEF vars
  <2>2. Store' = Store /\ Free' = Free
    BY <2>1 DEF Store, Free, SmallBlocks
  <2>3. BlocksSound'
    BY <2>1, <2>2 DEF BlocksSound
  <2> QED
    BY <2>1, <2>2, <2>3 DEF Ledger!blocks
<1> QED
  BY <1>1, <1>2, <1>3 DEF Next

\* The words of sound blocks.
LEMMA SoundSharesNothing ==
  ASSUME BinAssumption, BlocksSound
  PROVE  NothingTwice
<1>1. /\ StoreSound(Store) /\ MemoryShared(live, Free) /\ SmallBlocks = ListedIn(Store)
      /\ Store.small = small /\ Store.tree = tree
  BY FreeIsOfStore DEF BlocksSound
<1>2. /\ \A b \in DOMAIN live : b \in Nat /\ live[b] \in Nat \ {0}
      /\ \A b \in DOMAIN Free : b \in Nat /\ Free[b] \in Nat \ {0}
  BY <1>1, SmallFacts DEF MemoryShared, Sized
<1>3. \A b, c \in DOMAIN live : b # c => Extent(b, live[b]) \cap Extent(c, live[c]) = {}
  <2> SUFFICES ASSUME NEW b \in DOMAIN live, NEW c \in DOMAIN live, b # c
               PROVE  Extent(b, live[b]) \cap Extent(c, live[c]) = {}
    OBVIOUS
  <2>1. Clear(b, live[b], c, live[c])
    BY <1>1 DEF MemoryShared, Spread
  <2> QED
    BY <1>2, <2>1, ClearExtents
<1>4. \A b, c \in DOMAIN Free : b # c => Extent(b, Free[b]) \cap Extent(c, Free[c]) = {}
  <2> SUFFICES ASSUME NEW b \in DOMAIN Free, NEW c \in DOMAIN Free, b # c
               PROVE  Extent(b, Free[b]) \cap Extent(c, Free[c]) = {}
    OBVIOUS
  <2>1. Clear(b, Free[b], c, Free[c])
    BY <1>1 DEF MemoryShared, Spread
  <2> QED
    BY <1>2, <2>1, ClearExtents
<1>5. \A b \in DOMAIN live, c \in DOMAIN Free : Extent(b, live[b]) \cap Extent(c, Free[c]) = {}
  <2> SUFFICES ASSUME NEW b \in DOMAIN live, NEW c \in DOMAIN Free
               PROVE  Extent(b, live[b]) \cap Extent(c, Free[c]) = {}
    OBVIOUS
  <2>1. Clear(b, live[b], c, Free[c])
    BY <1>1 DEF MemoryShared, Across
  <2> QED
    BY <1>2, <2>1, ClearExtents
<1>6. /\ \A size, other \in SmallSizes :
           /\ IsInjective(small.list[size])
           /\ size # other => ToSet(small.list[size]) \cap ToSet(small.list[other]) = {}
      /\ SmallBlocks \cap Kin(tree) = {}
  BY <1>1 DEF StoreSound, Partition
<1> HIDE DEF Free, SmallBlocks
<1> QED
  BY <1>3, <1>4, <1>5, <1>6 DEF NothingTwice

\* What FreeBlocks::verify finds.
LEMMA SoundIsVerified ==
  ASSUME BinAssumption, BlocksSound
  PROVE  StructuresSound
<1>1. /\ StoreSound(Store) /\ Store.small = small /\ Store.tree = tree
  BY FreeIsOfStore DEF BlocksSound
<1>2. /\ TreeSound(tree) /\ BinsSound(small)
      /\ \A n \in Kin(tree) : tree.node[n].size > MaxSmallBlocksWordSize
  BY <1>1 DEF StoreSound
<1>3. LinksInside(tree) /\ Ordered(tree) /\ ParentsKnown(tree) /\ ListsComplete(tree) /\ Counted(tree)
  BY <1>2, SoundTreeVerifies
<1>4. BinsExact(small)
  BY <1>2, SoundBinsVerify
<1>5. ASSUME NEW size \in Requests
      PROVE  FindsClosest(size)
  <2> DEFINE n == ClosestFit(tree, size)
  <2>1. size \in Int
    BY SmallFacts DEF Requests
  <2>2. IF \E m \in Kin(tree) : tree.node[m].size >= size
          THEN /\ n \in Kin(tree) /\ tree.node[n].size >= size
               /\ \A m \in Kin(tree) : tree.node[m].size >= size => tree.node[n].size <= tree.node[m].size
          ELSE n = Null
    BY <1>2, <2>1, ClosestIsFound
  <2> HIDE DEF n
  <2> QED
    BY <2>2 DEF FindsClosest, n
<1> QED
  BY <1>2, <1>3, <1>4, <1>5 DEF StructuresSound

\* FreeBlocks keeps its blocks apart, from each other and from those of the
\* loader: no word is handed out twice, whatever is given and asked for.
THEOREM BlocksStayApart ==
  ASSUME BinAssumption, BlocksAssumption
  PROVE  Spec => []NothingTwice
<1>1. Init => BlocksSound
  BY SoundInitially
<1>2. BlocksSound /\ [Next]_vars => BlocksSound'
  BY SoundStays
<1>3. BlocksSound => NothingTwice
  BY SoundSharesNothing
<1> QED
  BY <1>1, <1>2, <1>3, PTL DEF Spec

\* FreeBlocks::verify finds nothing wrong after any sequence of blocks given
\* and taken, and the search for a block finds the smallest that fits.
THEOREM StructuresStaySound ==
  ASSUME BinAssumption, BlocksAssumption
  PROVE  Spec => []StructuresSound
<1>1. Init => BlocksSound
  BY SoundInitially
<1>2. BlocksSound /\ [Next]_vars => BlocksSound'
  BY SoundStays
<1>3. BlocksSound => StructuresSound
  BY SoundIsVerified
<1> QED
  BY <1>1, <1>2, <1>3, PTL DEF Spec

\* add_block and remove_block are steps of the ledger of blocks: a request
\* takes the front of one free block and loses at most a smallest block.
THEOREM BlocksAreALedger ==
  ASSUME BinAssumption, BlocksAssumption
  PROVE  Spec => ImplementsLedger
<1>1. Init => BlocksSound /\ Ledger!Init
  BY SoundInitially DEF Ledger!Init
<1>2. BlocksSound /\ [Next]_vars => BlocksSound' /\ [Ledger!Next]_(Ledger!blocks)
  BY SoundStays
<1> QED
  BY <1>1, <1>2, PTL DEF Spec, ImplementsLedger, Ledger!Spec
=============================================================================
