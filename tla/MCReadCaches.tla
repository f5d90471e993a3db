---------------------------- MODULE MCReadCaches ----------------------------
(***************************************************************************)
(* ReadCaches for TLC: three interchangeable handlers.                     *)
(***************************************************************************)
EXTENDS ReadCaches, TLC

CONSTANTS r1, r2, r3
ThreeHandlers == {r1, r2, r3}
Symmetry == Permutations(ThreeHandlers)
=============================================================================
