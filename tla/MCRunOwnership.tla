--------------------------- MODULE MCRunOwnership ---------------------------
(* Instances of RunOwnership for TLC. *)
EXTENDS RunOwnership, TLC

CONSTANTS app1, app2
OneOfTwo == {app1}
=============================================================================
