----------------------------- MODULE MCLongPolls ----------------------------
(* Instances of LongPolls for TLC. *)
EXTENDS LongPolls, TLC

CONSTANTS tab, img, post, r1, p1

\* img watches every run, tab one of them.
MCRunOf == [p \in Pauses |-> r1]
MCWatched == [c \in Waiters |-> IF c = img THEN None ELSE r1]
MCTarget == [c \in Resumers |-> p1]
=============================================================================
