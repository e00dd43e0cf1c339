-------------------------------- MODULE MCRpc --------------------------------
(* A small instance of Rpc for TLC: both callers are at one end. *)
EXTENDS Rpc, TLC

CONSTANTS a, b, r1, r2

MCSideOf == (r1 :> a) @@ (r2 :> a)
=============================================================================
