---------------------------- MODULE MCLoopGuard -----------------------------
(* Small instance of LoopGuard for TLC. *)
EXTENDS LoopGuard, TLC

Symmetric == Permutations(Nodes)
=============================================================================
