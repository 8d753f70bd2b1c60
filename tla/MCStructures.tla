---------------------------- MODULE MCStructures ----------------------------
(***************************************************************************)
(* Small instances of two data structures that share nothing: the free     *)
(* blocks of an arena, the regions of native memory tracking.  Each        *)
(* behaviour is one of one of them, picked in the initial state; the other *)
(* stays as it is initially.                                               *)
(***************************************************************************)
EXTENDS FreeBlocks, VirtualMemoryTracker

VARIABLE
  part                   \* which structure the behaviour is about

ASSUME StructuresAssumption ==
  /\ BinAssumption
  /\ BlocksAssumption
  /\ TrackerAssumption

StructuresInit ==
  /\ part \in {"blocks", "tracker"}
  /\ Init
  /\ part # "blocks" => live = CHOOSE held \in InitialBlocks : TRUE
  /\ TrackerInit

StructuresNext ==
  \/ part = "blocks"  /\ Next        /\ UNCHANGED <<part, tracker>>
  \/ part = "tracker" /\ TrackerNext /\ UNCHANGED <<part, vars>>

Structures == StructuresInit /\ [][StructuresNext]_<<part, vars, tracker>>

-----------------------------------------------------------------------------
\* Large blocks of five sizes, for the shapes of the tree; a block that can be
\* split again and again, two of one size, and a small one.
MCInitialBlocks ==
  { [b \in {0, 5, 11, 18, 26}  |-> CASE b = 0 -> 5 [] b = 5 -> 6 [] b = 11 -> 7
                                     [] b = 18 -> 8 [] b = 26 -> 9],
    [b \in {0, 12, 17, 22} |-> CASE b = 0 -> 12 [] b = 12 -> 5 [] b = 17 -> 5 [] b = 22 -> 3] }
=============================================================================
