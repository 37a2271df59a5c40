-------------------------- MODULE MCClientChannel --------------------------
(* Instances of the client channel for TLC. *)
EXTENDS ClientChannel

CONSTANTS c1, c2, c3
=============================================================================
