---------------------------- MODULE ChunkLedger ----------------------------
(***************************************************************************)
(* What a metaspace context promises to the arenas that live on it: a      *)
(* chunk taken belongs to its taker alone until it is given back, it may   *)
(* grow in place and never moves or shrinks, and metadata stored in it     *)
(* stays.  How chunks are found, cut, merged, committed and purged does    *)
(* not show.                                                               *)
(***************************************************************************)
EXTENDS Integers, Functions

CONSTANTS
  Bases,   \* where chunks may start
  Sizes    \* how long they may be, in words

VARIABLES
  owned,   \* the chunks taken: their sizes by their bases
  stored   \* the words in which metadata is stored

ledger == <<owned, stored>>

Extent(b, size) == b..(b + size - 1)

Owned == UNION {Extent(b, owned[b]) : b \in DOMAIN owned}

OwnedByOthers(b) == UNION {Extent(c, owned[c]) : c \in DOMAIN owned \ {b}}

Take(b, size) ==
  /\ Extent(b, size) \cap Owned = {}
  /\ owned' = [c \in DOMAIN owned \cup {b} |-> IF c = b THEN size ELSE owned[c]]
  /\ UNCHANGED stored

Grow(b, size) ==
  /\ size > owned[b]
  /\ Extent(b, size) \cap OwnedByOthers(b) = {}
  /\ owned' = [owned EXCEPT ![b] = size]
  /\ UNCHANGED stored

Give(b) ==
  /\ owned' = Restrict(owned, DOMAIN owned \ {b})
  /\ stored' = stored \ Extent(b, owned[b])

\* Metadata goes where none is.
Store(b) ==
  /\ stored \subseteq stored' /\ stored' # stored
  /\ stored' \ stored \subseteq Extent(b, owned[b])
  /\ UNCHANGED owned

Init == owned = [b \in {} |-> 0] /\ stored = {}

\* Most of what the context does does not show.
Next ==
  /\ ledger' # ledger
  /\ \/ \E b \in Bases, size \in Sizes : Take(b, size)
     \/ \E b \in DOMAIN owned : Store(b) \/ Give(b) \/ \E size \in Sizes : Grow(b, size)

Spec == Init /\ [][Next]_ledger
=============================================================================
