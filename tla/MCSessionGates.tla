--------------------------- MODULE MCSessionGates ---------------------------
(* A small instance of SessionGates for TLC. *)
EXTENDS SessionGates
=============================================================================
