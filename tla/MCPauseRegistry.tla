-------------------------- MODULE MCPauseRegistry ---------------------------
(* Small instances of PauseRegistry for TLC. *)
EXTENDS PauseRegistry, TLC

CONSTANTS p1, p2, run1, run2

\* Two pauses, of different runs.
EachItsRun == (p1 :> run1) @@ (p2 :> run2)
=============================================================================
