----------------------------- MODULE BlockLedger -----------------------------
(***************************************************************************)
(* What the block manager of an arena promises: a block given to it is     *)
(* handed out again, whole or in part, only to one holder at a time.  A    *)
(* request takes its words from the front of one free block; what is left  *)
(* of it stays free unless it is too small to be kept.                     *)
(***************************************************************************)
EXTENDS Integers, Functions

CONSTANTS
  Slack        \* the largest remainder that may be lost

VARIABLES
  live,        \* the blocks held by the loader: sizes by addresses
  free         \* the blocks kept for reuse: sizes by addresses

blocks == <<live, free>>

With(f, b, size) == [c \in DOMAIN f \cup {b} |-> IF c = b THEN size ELSE f[c]]
Without(f, b)    == Restrict(f, DOMAIN f \ {b})

Give(b) ==
  /\ b \in DOMAIN live
  /\ free' = With(free, b, live[b])
  /\ live' = Without(live, b)

\* The remainder of block b after a request is kept or lost.
Take(b, size) ==
  /\ b \in DOMAIN free
  /\ size <= free[b]
  /\ live' = With(live, b, size)
  /\ LET rest == free[b] - size IN
     \/ rest > 0 /\ free' = With(Without(free, b), b + size, rest)
     \/ rest <= Slack /\ free' = Without(free, b)

Init == free = [b \in {} |-> 0]

Next == \/ \E b \in DOMAIN live : Give(b)
        \/ \E b \in DOMAIN free : \E size \in 1..free[b] : Take(b, size)

Spec == Init /\ [][Next]_blocks
=============================================================================
