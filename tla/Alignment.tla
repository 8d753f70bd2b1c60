---------------------------- MODULE Alignment ----------------------------
(***************************************************************************)
(* HotSpot's align_down and align_up.                                      *)
(***************************************************************************)
EXTENDS Integers

AlignDown(v, unit) == (v \div unit) * unit
AlignUp(v, unit)   == ((v + unit - 1) \div unit) * unit

IsAligned(v, unit) == v % unit = 0
=============================================================================
