---------------------------- MODULE LoaderMemory ----------------------------
(***************************************************************************)
(* What class loaders see of metaspace: words allocated for one loader     *)
(* belong to it alone until it gives them back or dies.                    *)
(***************************************************************************)
EXTENDS Integers, Functions

CONSTANTS
  Loaders,
  Addresses,
  Sizes        \* how long a block may be

VARIABLE held   \* each loader's blocks: sizes by addresses

Extent(p, size) == p..(p + size - 1)

Nothing == [p \in {} |-> 0]

HeldWords(a) == UNION {Extent(p, held[a][p]) : p \in DOMAIN held[a]}

AllocateBlock(a, p, size) ==
  /\ \A b \in Loaders : Extent(p, size) \cap HeldWords(b) = {}
  /\ held' = [held EXCEPT ![a] = [q \in DOMAIN @ \cup {p} |-> IF q = p THEN size ELSE @[q]]]

DeallocateBlock(a, p) == held' = [held EXCEPT ![a] = Restrict(@, DOMAIN @ \ {p})]

Die(a) == held' = [held EXCEPT ![a] = Nothing]

Init == held = [a \in Loaders |-> Nothing]

Next == \E a \in Loaders :
          \/ \E p \in Addresses, size \in Sizes : AllocateBlock(a, p, size)
          \/ \E p \in DOMAIN held[a] : DeallocateBlock(a, p)
          \/ Die(a)

Spec == Init /\ [][Next]_held
=============================================================================
