---------------------------- MODULE MCViewerSync ----------------------------
(* Instances of ViewerSync for TLC. *)
EXTENDS ViewerSync, TLC

CONSTANTS onError
FreshServer == {onError}
=============================================================================
