------------------------------ MODULE MCPyGates ------------------------------
(* Instances of PyGates for TLC. *)
EXTENDS PyGates, TLC
=============================================================================
