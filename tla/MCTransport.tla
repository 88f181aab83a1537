---------------------------- MODULE MCTransport ----------------------------
(* Instances of Transport for TLC. *)
EXTENDS Transport, TLC

CONSTANTS onError, step
FreshServer == {onError}
=============================================================================
