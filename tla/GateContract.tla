---------------------------- MODULE GateContract ----------------------------
(***************************************************************************)
(* What session.gate() promises its callers, whatever the engine, the      *)
(* validators and the transport do inside: each call gets one decision,    *)
(* the record of the run tells the same story as the caller got, and with  *)
(* the debugger gone nobody waits ("FAIL-OPEN: no debugger, no holds").    *)
(***************************************************************************)
EXTENDS Sequences

CONSTANTS Calls, Actions, Requests, None

VARIABLES
    attached,  \* is a debugger attached?
    call,      \* each call: not made yet, held, or released with a decision
    record     \* the exec.* events of its pause

vars == <<attached, call, record>>

Idle == [st |-> "idle", action |-> "continue", edited |-> FALSE]
Held == [st |-> "held", action |-> "continue", edited |-> FALSE]
Released(a, e) == [st |-> "released", action |-> a, edited |-> e]

Paused == [type |-> "paused", action |-> "continue", req |-> None, edited |-> FALSE]
Refused(r) == [type |-> "refused", action |-> "continue", req |-> r, edited |-> FALSE]
Resumed(a, r, e) == [type |-> "resumed", action |-> a, req |-> r, edited |-> e]

Init ==
    /\ ~attached
    /\ call = [c \in Calls |-> Idle]
    /\ record = [c \in Calls |-> << >>]

\* A call is held for an attached debugger, which its own events may lose.
Holds(c) ==
    /\ attached /\ call[c] = Idle
    /\ call'[c] = Held /\ record'[c] = <<Paused>>

HoldsInVain(c) ==
    /\ attached /\ ~attached' /\ call[c] = Idle
    /\ call'[c] = Released("continue", FALSE)
    /\ record'[c] = <<Paused, Resumed("continue", None, FALSE)>>

\* An edit that is not accepted leaves the call held.
Refuses(c, r) ==
    /\ attached /\ attached' /\ call[c] = Held /\ call'[c] = Held
    /\ record'[c] = Append(record[c], Refused(r))

\* One decision, announced once; an edited input only from a debugger that is
\* attached.
Releases(c, a, r, e) ==
    /\ call[c] = Held
    /\ e => attached /\ r # None
    /\ attached' => attached
    /\ call'[c] = Released(a, e)
    /\ record'[c] = Append(record[c], Resumed(a, r, e))

\* The debugger is lost, perhaps while it refuses an edit: the call goes on as
\* if nothing had been asked.
LosesHeld(c, refusals) ==
    /\ attached /\ ~attached' /\ call[c] = Held
    /\ call'[c] = Released("continue", FALSE)
    /\ record'[c] = record[c] \o refusals \o <<Resumed("continue", None, FALSE)>>

\* The connection changes elsewhere; a call that is held sees it come back,
\* never go.
Elsewhere(c) ==
    /\ call[c] = Held => (attached => attached')
    /\ call'[c] = call[c] /\ record'[c] = record[c]

Next ==
    \A c \in Calls :
        \/ Holds(c) \/ HoldsInVain(c)
        \/ \E r \in Requests : Refuses(c, r)
        \/ \E a \in Actions, r \in Requests \cup {None}, e \in BOOLEAN : Releases(c, a, r, e)
        \/ LosesHeld(c, << >>) \/ \E r \in Requests : LosesHeld(c, <<Refused(r)>>)
        \/ Elsewhere(c)

Safely == Init /\ [][Next]_vars

\* No call is held for ever.
Ends == \A c \in Calls : call[c].st = "held" ~> call[c].st = "released"

Spec == Safely /\ Ends
=============================================================================
