----------------------------- MODULE FreeBlocks -----------------------------
(***************************************************************************)
(* The free blocks of one arena: small ones in a BinList, larger ones in a *)
(* BlockTree, split when handed out.  Every call comes from the loader     *)
(* that owns the arena, under its lock.  The words are those of the        *)
(* arena's chunks.                                                         *)
(***************************************************************************)
EXTENDS BlockTree, BinList

CONSTANTS
  InitialBlocks  \* the sets of blocks a loader may hold at first: sizes by addresses

VARIABLES
  small,         \* FreeBlocks::_small_blocks
  tree,          \* FreeBlocks::_tree
  live           \* the blocks the loader holds: sizes by addresses

vars == <<small, tree, live>>

Extent(b, size) == b..(b + size - 1)

LargestBlock == Max(UNION {Range(blocks) : blocks \in InitialBlocks})

BlocksAssumption ==
  /\ LargestBlock \in Nat
  /\ \A blocks \in InitialBlocks :
       /\ \A b \in DOMAIN blocks : b \in Nat /\ blocks[b] \in Nat /\ blocks[b] >= MinWordSize
       /\ \A b, c \in DOMAIN blocks :
            b # c => Extent(b, blocks[b]) \cap Extent(c, blocks[c]) = {}

Store == [small |-> small, tree |-> tree]

Keep(s, b, size) ==
  IF size > MaxSmallBlocksWordSize
    THEN [s EXCEPT !.tree  = AddBlock(@, b, size)]
    ELSE [s EXCEPT !.small = BinAdd(@, b, size)]

\* Faulty: the remainder starts where the block starts.
KeepWaste(s, b, size, real) ==
  IF real - size > MinWordSize THEN Keep(s, b, real - size) ELSE s

\* Faulty: only remainders for the tree are kept.
KeepLargeRest(s, b, size, real) ==
  IF real - size > MaxSmallBlocksWordSize THEN Keep(s, b + size, real - size) ELSE s

\* What is left of a block after a request is kept if it is larger than the
\* smallest block; otherwise nobody will see it again.
KeepRest(s, b, size, real) ==
  IF real - size > MinWordSize THEN Keep(s, b + size, real - size) ELSE s

\* add_block
Give(b) ==
  /\ b \in DOMAIN live
  /\ LET s == Keep(Store, b, live[b]) IN small' = s.small /\ tree' = s.tree
  /\ live' = Restrict(live, DOMAIN live \ {b})

HandOut(b, size, real, s) ==
  /\ LET t == KeepRest(s, b, size, real) IN small' = t.small /\ tree' = t.tree
  /\ live' = [c \in DOMAIN live \cup {b} |-> IF c = b THEN size ELSE live[c]]

\* remove_block: the size of the request decides where to look, and a small
\* request does not look at large blocks.
TakeSmall(size) ==
  /\ size <= MaxSmallBlocksWordSize
  /\ LET bin == NextBin(small, size) IN
     /\ bin # NoBin
     /\ HandOut(Head(small.list[bin]), size, bin, [Store EXCEPT !.small = BinTake(@, bin)])

TakeLarge(size) ==
  /\ size > MaxSmallBlocksWordSize
  /\ LET n == ClosestFit(tree, size) IN
     /\ n # Null
     /\ HandOut(Victim(tree, n), size, tree.node[n].size, [Store EXCEPT !.tree = Detach(@, n)])

Take(size) == TakeSmall(size) \/ TakeLarge(size)

Init ==
  /\ small = EmptyBins
  /\ tree = EmptyTree
  /\ live \in InitialBlocks

Requests == MinWordSize..LargestBlock

Next == \/ \E b \in DOMAIN live : Give(b)
        \/ \E size \in Requests : Take(size)

Spec == Init /\ [][Next]_vars

-----------------------------------------------------------------------------
(* Properties.                                                             *)

SmallBlocks == UNION {ToSet(small.list[size]) : size \in SmallSizes}

Free == [b \in SmallBlocks \cup Kin(tree) |->
           IF b \in Kin(tree) THEN tree.node[b].size
           ELSE CHOOSE size \in SmallSizes : b \in ToSet(small.list[size])]

\* A word is held by the loader or lies in one free block, and a free block
\* is listed once: the memory of a block that is handed out holds no part of
\* another block and no node of the tree, whatever was split before.
NothingTwice ==
  LET words(f) == [b \in DOMAIN f |-> Extent(b, f[b])]
      apart(f) == \A b, c \in DOMAIN f : b # c => words(f)[b] \cap words(f)[c] = {}
  IN  /\ apart(live) /\ apart(Free)
      /\ \A b \in DOMAIN live, c \in DOMAIN Free : words(live)[b] \cap words(Free)[c] = {}
      /\ \A size, other \in SmallSizes :
           /\ IsInjective(small.list[size])
           /\ size # other => ToSet(small.list[size]) \cap ToSet(small.list[other]) = {}
      /\ SmallBlocks \cap Kin(tree) = {}

\* find_closest_fit: "Given a word_size, search and return the smallest block
\* that is equal or larger than that size."
FindsClosest(size) ==
  LET n       == ClosestFit(tree, size)
      fitting == {m \in Kin(tree) : tree.node[m].size >= size}
  IN  IF fitting = {} THEN n = Null
      ELSE n \in fitting /\ \A m \in fitting : tree.node[n].size <= tree.node[m].size

\* FreeBlocks::verify, after any sequence of blocks given and taken: children
\* and parents agree, all nodes on the left are smaller and all on the right
\* larger, each free block can be reached from the root, a bit of the mask is
\* set exactly for a list with blocks, and both pairs of counters are exact;
\* so the search misses no block that fits and none that fits better.
StructuresSound ==
  /\ LinksInside(tree) /\ Ordered(tree) /\ ParentsKnown(tree) /\ ListsComplete(tree)
  /\ Counted(tree)
  /\ \A n \in Kin(tree) : tree.node[n].size > MaxSmallBlocksWordSize
  /\ \A size \in Requests : FindsClosest(size)
  /\ BinsExact(small)

\* For the arena all this is a ledger of blocks: who gives a block does not
\* have it any more, who asks gets the front of one free block, and of the
\* rest at most a smallest block is lost.
Ledger == INSTANCE BlockLedger WITH Slack <- MinWordSize, free <- Free

ImplementsLedger == Ledger!Spec

=============================================================================
