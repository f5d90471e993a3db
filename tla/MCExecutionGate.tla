-------------------------- MODULE MCExecutionGate --------------------------
(***************************************************************************)
(* ExecutionGate for three interchangeable recoveries.  The properties are *)
(* invariants and step properties, so the symmetry is sound.                *)
(***************************************************************************)
EXTENDS ExecutionGate, TLC

Symmetry == Permutations(Recoveries)
=============================================================================
