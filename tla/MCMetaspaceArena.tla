-------------------------- MODULE MCMetaspaceArena --------------------------
(***************************************************************************)
(* Small instances of MetaspaceArena for TLC.                              *)
(***************************************************************************)
EXTENDS MetaspaceArena, TLC

MCWordSize == [l \in 0..2 |-> <<4, 2, 1>>[l + 1]]

MCPolicy == <<1, 0>>

ArenaSymmetry == Permutations(Arenas)
=============================================================================
