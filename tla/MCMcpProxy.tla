----------------------------- MODULE MCMcpProxy -----------------------------
(* Instances of McpProxy for TLC. *)
EXTENDS McpProxy, TLC
=============================================================================
