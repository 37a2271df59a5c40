-------------------------- MODULE MCRpcConnection --------------------------
(* Instances of the connection for TLC. *)
EXTENDS RpcConnection

CONSTANTS c1, c2, c3
=============================================================================
