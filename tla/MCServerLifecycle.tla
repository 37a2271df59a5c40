------------------------- MODULE MCServerLifecycle -------------------------
(* Instances of the server lifecycle for TLC. *)
EXTENDS ServerLifecycle

CONSTANTS p1, p2
=============================================================================
