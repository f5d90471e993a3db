----------------------------- MODULE MCGateway -----------------------------
(***************************************************************************)
(* Gateway for TLC; its constants are ordinary values.  No symmetry: the   *)
(* run checks a liveness property.                                         *)
(***************************************************************************)
EXTENDS Gateway
=============================================================================
