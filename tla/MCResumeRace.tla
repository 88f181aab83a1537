---------------------------- MODULE MCResumeRace ----------------------------
(* Small instances of ResumeRace for TLC. *)
EXTENDS ResumeRace

CONSTANT run1

OneRun == [p \in Pauses |-> run1]

\* Requests are interchangeable until they are begun, connections until they
\* are used.
Symmetric == Permutations(Requests) \cup Permutations(Owners)
=============================================================================
