--------------------------- MODULE MCPeerRollback ---------------------------
(***************************************************************************)
(* PeerRollback for TLC: the order service and the two services it calls,  *)
(* and a call from one of them to the other that only Jaeger knows of.     *)
(***************************************************************************)
EXTENDS PeerRollback

OrderCalls == {<<"order", "inventory">>, <<"order", "payment">>}
AlsoSeen == {<<"payment", "inventory">>}
=============================================================================
