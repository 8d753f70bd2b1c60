------------------------------- MODULE BinList -------------------------------
(***************************************************************************)
(* The lists of small free blocks, one for each size, with a mask of the   *)
(* lists that are not empty.  The operators are the methods, on a record.  *)
(***************************************************************************)
EXTENDS Integers, FiniteSets, FiniteSetsExt, Sequences, SequencesExt

CONSTANTS
  MinWordSize,           \* the size of the blocks in the first list
  MaxSmallBlocksWordSize \* and of those in the last

\* What the constants must be, as for the other structures in MCStructures.
BinAssumption ==
  /\ MinWordSize \in Nat \ {0}
  /\ MaxSmallBlocksWordSize \in Nat /\ MaxSmallBlocksWordSize >= MinWordSize

SmallSizes == MinWordSize..MaxSmallBlocksWordSize

EmptyBins == [list |-> [size \in SmallSizes |-> <<>>], mask |-> {},
              count |-> 0, total |-> 0]

BinAdd(bins, b, size) ==
  [bins EXCEPT !.list[size] = <<b>> \o @, !.mask = @ \cup {size},
               !.count = @ + 1, !.total = @ + size]

NoBin == 0

\* index_for_next_non_empty_list: looks at the mask, not at the lists.
NextBin(bins, size) ==
  LET set == {k \in bins.mask : k >= size} IN IF set = {} THEN NoBin ELSE Min(set)

BinTake(bins, size) ==
  [bins EXCEPT !.list[size] = Tail(@),
               !.mask  = IF Len(bins.list[size]) = 1 THEN @ \ {size} ELSE @,
               !.count = @ - 1,
               !.total = @ - size]

\* BinListImpl::verify
BinsExact(bins) ==
  /\ bins.mask = {size \in SmallSizes : bins.list[size] # <<>>}
  /\ bins.count = MapThenSumSet(LAMBDA size : Len(bins.list[size]), SmallSizes)
  /\ bins.total = MapThenSumSet(LAMBDA size : size * Len(bins.list[size]), SmallSizes)
=============================================================================
