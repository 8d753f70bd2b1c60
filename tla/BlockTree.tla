------------------------------ MODULE BlockTree ------------------------------
(***************************************************************************)
(* The binary search tree of large free blocks.  A node lies in the block  *)
(* it stands for, so it must not move or be copied when the tree changes:  *)
(* removal relinks nodes.  Blocks of one size hang off the node of that    *)
(* size in a list.                                                         *)
(*                                                                         *)
(* A tree t is a record; its nodes are known by the address of their       *)
(* block.  The operators are the methods of the class, on trees.           *)
(***************************************************************************)
EXTENDS Integers, FiniteSets, FiniteSetsExt, Functions

Null == -1

Node(size) == [parent |-> Null, left |-> Null, right |-> Null, next |-> Null,
               size |-> size]

EmptyTree == [root |-> Null, node |-> [b \in {} |-> Node(0)], count |-> 0, total |-> 0]

Kin(t) == DOMAIN t.node

SetLeft(t, p, c) ==
  LET s == [t EXCEPT !.node[p].left = c] IN
  IF c = Null THEN s ELSE [s EXCEPT !.node[c].parent = p]

SetRight(t, p, c) ==
  LET s == [t EXCEPT !.node[p].right = c] IN
  IF c = Null THEN s ELSE [s EXCEPT !.node[c].parent = p]

AddToList(t, b, head) == [t EXCEPT !.node[b].next = t.node[head].next,
                                   !.node[head].next = b]

\* The node the descent from the root ends at: of this size, or with room
\* for a child on the side where the size belongs.
InsertionPoint(t, size) ==
  LET at[n \in Kin(t)] ==
        LET m == t.node[n] IN
        IF size > m.size /\ m.right # Null THEN at[m.right]
        ELSE IF size < m.size /\ m.left # Null THEN at[m.left]
        ELSE n
  IN  at[t.root]

Insert(t, b) ==
  LET size == t.node[b].size
      n    == InsertionPoint(t, size)
  IN  IF size = t.node[n].size THEN AddToList(t, b, n)
      ELSE IF size > t.node[n].size THEN SetRight(t, n, b)
      ELSE SetLeft(t, n, b)

AddBlock(t, b, size) ==
  LET s == [t EXCEPT !.node  = [m \in Kin(t) \cup {b} |->
                                  IF m = b THEN Node(size) ELSE t.node[m]],
                     !.count = @ + 1,
                     !.total = @ + size]
  IN  IF t.root = Null THEN [s EXCEPT !.root = b] ELSE Insert(s, b)

\* The last node on the way down that is large enough.
ClosestFit(t, size) ==
  LET fit[n \in Kin(t) \cup {Null}] ==
        IF n = Null THEN Null
        ELSE IF t.node[n].size < size THEN fit[t.node[n].right]
        ELSE IF t.node[n].size = size \/ fit[t.node[n].left] = Null THEN n
        ELSE fit[t.node[n].left]
  IN  fit[t.root]

ReplaceInParent(t, child, replacement) ==
  LET p == t.node[child].parent IN
  IF p = Null
    THEN IF replacement = Null THEN [t EXCEPT !.root = Null]
         ELSE [t EXCEPT !.root = replacement, !.node[replacement].parent = Null]
  ELSE IF t.node[p].left = child THEN SetLeft(t, p, replacement)
  ELSE SetRight(t, p, replacement)

\* The next larger node of a node with a right child.
Successor(t, n) ==
  LET leftmost[m \in Kin(t)] ==
        IF t.node[m].left = Null THEN m ELSE leftmost[t.node[m].left]
  IN  leftmost[t.node[n].right]

\* Faulty: a deep successor leaves its right child behind.
UnlinkForgetful(t, n) ==
  LET l == t.node[n].left
      r == t.node[n].right
  IN  IF l = Null THEN ReplaceInParent(t, n, r)
      ELSE IF r = Null THEN ReplaceInParent(t, n, l)
      ELSE LET succ == Successor(t, n)
               p    == t.node[succ].parent
               s    == IF p = n THEN t ELSE SetLeft(t, p, Null)
               u    == SetLeft(ReplaceInParent(s, n, succ), succ, l)
           IN  IF p = n THEN u ELSE SetRight(u, succ, r)

\* remove_node_from_tree, short of giving up the node itself.  The successor
\* takes the place of a node with two children; unless it is the right child
\* itself, its own right child first takes its place.
Unlink(t, n) ==
  LET l == t.node[n].left
      r == t.node[n].right
  IN  IF l = Null THEN ReplaceInParent(t, n, r)
      ELSE IF r = Null THEN ReplaceInParent(t, n, l)
      ELSE LET succ == Successor(t, n)
               p    == t.node[succ].parent
               s    == IF p = n THEN t ELSE SetLeft(t, p, t.node[succ].right)
               u    == SetLeft(ReplaceInParent(s, n, succ), succ, l)
           IN  IF p = n THEN u ELSE SetRight(u, succ, r)

\* What remove_block takes when n fits best: a follower of n if there is one.
Victim(t, n) == IF t.node[n].next # Null THEN t.node[n].next ELSE n

Detach(t, n) ==
  LET b == Victim(t, n)
      s == IF b = n THEN Unlink(t, n)
           ELSE [t EXCEPT !.node[n].next = t.node[b].next]
  IN  [s EXCEPT !.node  = Restrict(s.node, Kin(s) \ {b}),
                !.count = @ - 1,
                !.total = @ - t.node[b].size]

-----------------------------------------------------------------------------
(* What a tree must be.                                                    *)

LinksInside(t) ==
  /\ t.root \in Kin(t) \cup {Null}
  /\ \A n \in Kin(t) : {t.node[n].left, t.node[n].right, t.node[n].parent, t.node[n].next}
                         \subseteq Kin(t) \cup {Null}

Children(t, n) == {t.node[n].left, t.node[n].right} \ {Null}

\* What can be reached from n along the links: what is in every set of nodes
\* that contains n and all that its members have links to.
Closure(t, n, links) ==
  {m \in Kin(t) : \A C \in SUBSET Kin(t) :
                    ({n} \ {Null}) \cup UNION {links[c] : c \in C} \subseteq C => m \in C}

\* The nodes of the tree below and at n, and those in the list behind n and n.
Subtree(t, n) == Closure(t, n, [m \in Kin(t) |-> Children(t, m)])
Chain(t, n)   == Closure(t, n, [m \in Kin(t) |-> {t.node[m].next} \ {Null}])

Ordered(t) ==
  \A n \in Subtree(t, t.root) :
    /\ \A m \in Subtree(t, t.node[n].left)  : t.node[m].size < t.node[n].size
    /\ \A m \in Subtree(t, t.node[n].right) : t.node[m].size > t.node[n].size

ParentsKnown(t) ==
  /\ t.root # Null => t.node[t.root].parent = Null
  /\ \A n \in Subtree(t, t.root) : \A c \in Children(t, n) : t.node[c].parent = n

\* Every node in exactly one list, every list headed by a node of the tree.
ListsComplete(t) ==
  LET heads == Subtree(t, t.root) IN
  /\ UNION {Chain(t, n) : n \in heads} = Kin(t)
  /\ \A n \in heads : \A m \in Chain(t, n) : t.node[m].size = t.node[n].size

Counted(t) ==
  /\ t.count = Cardinality(Kin(t))
  /\ t.total = MapThenSumSet(LAMBDA n : t.node[n].size, Kin(t))
=============================================================================
