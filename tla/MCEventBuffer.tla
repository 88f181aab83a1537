----------------------------- MODULE MCEventBuffer -----------------------------
(* A small instance of EventBuffer for TLC. *)
EXTENDS EventBuffer

CONSTANTS run1, run2

MCRuns == {run1, run2}
MCSizes == {1, 2, 4}

===============================================================================
