------------------------------ MODULE PyGates -------------------------------
(***************************************************************************)
(* The held gates of the Python client (python/graphmind gate.py and the   *)
(* gate code of session.py).  The same promises as SessionGates, in        *)
(* threads: hosts block in their own threads or tasks, the transport and   *)
(* the resumes run on one loop thread, every pause timeout is a thread of  *)
(* its own, and any thread may dispose of the session.                     *)
(*                                                                         *)
(* A step is what one thread does under the engine's lock, or between two  *)
(* reads of something that another thread writes.  A host is one call of   *)
(* gate() or gate_async(), which opens at most one pause.  The second a    *)
(* host grants the thread that is releasing its gate (_DISCARD_GRACE) is   *)
(* long enough here, and exec.refused is left out.                         *)
(***************************************************************************)
EXTENDS Naturals, Sequences, FiniteSets, SequencesExt

CONSTANTS
    Hosts,
    MaxEdits   \* bound: edits proposed at one gate

Acts == {"continue", "abort", "edited"}

ASSUME PyGatesAssumption == MaxEdits \in Nat

VARIABLES
    tasks,     \* the hosts that are asyncio tasks; the others are threads
    gate,      \* the engine's record of each host's gate
    box,       \* the mailboxes of the gate, in the order they were made
    rel,       \* its release: by whom, with what, how far it has come
    events,    \* exec.paused and exec.resumed, as they were emitted
    pc, watch, handled, ret,  \* each host
    due,       \* the gates whose pause timeout is over
    attached, armed,  \* the transport's state; breakpoints in the engine
    loop, owner       \* the loop thread, and the one that disposes

engine == <<gate, box, rel, events>>
hosts == <<tasks, pc, watch, handled, ret>>
transport == <<attached, armed, loop>>
vars == <<engine, hosts, due, transport, owner>>

Gates == [at : {"new", "held", "validating", "out"}, ticket : Nat]
Releases == [phase : {"none", "taken", "told", "done"}, act : Acts,
             by : {"loop", "timer", "host", "owner"}]
Threads == [at : {"away", "arming", "pump", "closing", "disarmed", "sweeping"},
            todo : SUBSET Hosts]
\* What ends a held call from outside: Ctrl-C, SystemExit, a cancelled task, and
\* the GeneratorExit of a coroutine that is closed.
Exceptions == {"interrupt", "exit", "cancelled", "closed"}
Ends == Acts \cup Exceptions \cup {"none", "inHold"}
Owners == [at : {"idle", "disposed", "sweeping", "over"}, todo : SUBSET Hosts]

Init ==
    /\ tasks \in SUBSET Hosts
    /\ gate = [h \in Hosts |-> [at |-> "new", ticket |-> 0]]
    /\ box = [h \in Hosts |-> << >>]
    /\ rel = [h \in Hosts |-> [phase |-> "none", act |-> "continue", by |-> "host"]]
    /\ events = [h \in Hosts |-> << >>]
    /\ pc = [h \in Hosts |-> "idle"]
    /\ watch = [h \in Hosts |-> 0] /\ handled = [h \in Hosts |-> 0]
    /\ ret = [h \in Hosts |-> "none"]
    /\ due = {}
    /\ attached = FALSE /\ armed = FALSE
    /\ loop = [at |-> "away", todo |-> {}] /\ owner = [at |-> "idle", todo |-> {}]

-----------------------------------------------------------------------------
(* Releasing a gate.  One thread takes it out of the engine under the      *)
(* lock, then tells the debugger, then resolves the mailbox.               *)

Registered == {h \in Hosts : gate[h].at \in {"held", "validating"}}
Disposed == owner.at # "idle"
Gone == Disposed \/ ~attached

Releasing(by) == {h \in Hosts : rel[h].by = by /\ rel[h].phase \in {"taken", "told"}}

\* A mailbox that holds a request, or was cancelled, is followed by another.
Fresh(h) == IF Last(box[h]) = "empty" THEN box[h] ELSE Append(box[h], "empty")

Take(h, act, by) ==
    /\ gate' = [gate EXCEPT ![h] = [at |-> "out", ticket |-> 0]]
    /\ rel' = [rel EXCEPT ![h] = [phase |-> "taken", act |-> act, by |-> by]]
    /\ box' = [box EXCEPT ![h] = Fresh(h)]
    /\ UNCHANGED events

\* _settle() with "continue": a gate that another thread has released is left.
StillHeld_Assumed(h) == TRUE
StillHeld(h) == h \in Registered

Continue(h, by) ==
    IF StillHeld(h) THEN Take(h, "continue", by) ELSE UNCHANGED engine

\* _emit_or_warn: a disposed session emits nothing.
Emitted(h, e) == events' = [events EXCEPT ![h] = IF Disposed THEN @ ELSE Append(@, e)]

Tell(h) ==
    /\ rel[h].phase = "taken"
    /\ rel' = [rel EXCEPT ![h].phase = "told"]
    /\ Emitted(h, rel[h].act)
    /\ UNCHANGED <<gate, box, hosts, due, transport, owner>>

\* A mailbox whose waiter was cancelled takes nothing.
Deliver(h) ==
    /\ rel[h].phase = "told"
    /\ rel' = [rel EXCEPT ![h].phase = "done"]
    /\ box' = [box EXCEPT ![h][Len(box[h])] = IF @ = "empty" THEN rel[h].act ELSE @]
    /\ UNCHANGED <<gate, events, hosts, due, transport, owner>>

-----------------------------------------------------------------------------
(* A host.                                                                 *)

\* It does nothing else while it releases its own gate.
At(h, at) == pc[h] = at /\ h \notin Releasing("host")
Goto(h, at) == pc' = [pc EXCEPT ![h] = at]
Return(h, with) == Goto(h, "out") /\ ret' = [ret EXCEPT ![h] = with]

Stays == UNCHANGED <<tasks, due, transport, owner>>

Enters(h) ==
    /\ At(h, "idle")
    /\ IF Gone THEN Return(h, "continue") ELSE Goto(h, "matching") /\ UNCHANGED ret
    /\ UNCHANGED <<engine, watch, handled>> /\ Stays

Matches(h) ==
    /\ At(h, "matching") /\ armed
    /\ Goto(h, "matched")
    /\ UNCHANGED <<engine, watch, handled, ret>> /\ Stays

MatchesNot(h) ==
    /\ At(h, "matching")
    /\ Return(h, "continue")
    /\ UNCHANGED <<engine, watch, handled>> /\ Stays

\* hold(): registered, and its timer started, under the lock ...
Holds(h) ==
    /\ At(h, "matched")
    /\ gate' = [gate EXCEPT ![h].at = "held"]
    /\ box' = [box EXCEPT ![h] = <<"empty">>]
    /\ Goto(h, "announcing")
    /\ UNCHANGED <<rel, events, watch, handled, ret>> /\ Stays

\* ... and announced after it.
Announces(h) ==
    /\ At(h, "announcing")
    /\ Emitted(h, "paused")
    /\ Goto(h, "reading")
    /\ UNCHANGED <<gate, box, rel, watch, handled, ret>> /\ Stays

\* mailbox(): the one of this moment.
ReadsMailbox(h) ==
    /\ At(h, "reading")
    /\ watch' = [watch EXCEPT ![h] = Len(box[h])]
    /\ Goto(h, "looking")
    /\ UNCHANGED <<engine, handled, ret>> /\ Stays

Mail(h) == box[h][watch[h]]

Looks(h) ==
    /\ At(h, "looking")
    /\ Goto(h, IF Mail(h) = "empty" THEN "asking" ELSE "taking")
    /\ UNCHANGED <<engine, watch, handled, ret>> /\ Stays

\* _debugger_gone, asked before every wait.
AfterAsking_Blocks == "blocked"
AfterAsking == IF Gone THEN "discarding" ELSE "blocked"

Asks(h) ==
    /\ At(h, "asking")
    /\ Goto(h, AfterAsking)
    /\ UNCHANGED <<engine, watch, handled, ret>> /\ Stays

\* The wait ends with mail, or after _GATE_POLL.
Wakes(h) ==
    /\ At(h, "blocked")
    /\ Goto(h, IF Mail(h) = "empty" THEN "reading" ELSE "taking")
    /\ UNCHANGED <<engine, watch, handled, ret>> /\ Stays

\* The host validates an edit in its own thread.  A request that it handled
\* before would be discarded; NeverTwice says that there is none.
TakesRequest(h) ==
    /\ At(h, "taking") /\ Mail(h) = "request"
    /\ handled' = [handled EXCEPT ![h] = watch[h]]
    /\ Goto(h, "validating")
    /\ UNCHANGED <<engine, watch, ret>> /\ Stays

TakesDecision(h) ==
    /\ At(h, "taking") /\ Mail(h) \in Acts
    /\ Return(h, Mail(h))
    /\ UNCHANGED <<engine, watch, handled>> /\ Stays

TicketCurrent_Any(h) == TRUE
TicketCurrent(h) == gate[h].at = "validating" /\ gate[h].ticket = handled[h]

\* complete_validation.
Accepts(h) ==
    /\ At(h, "validating")
    /\ Goto(h, "reading")
    /\ IF TicketCurrent(h)
       THEN Take(h, IF h \in due THEN "continue" ELSE "edited", "host")
       ELSE UNCHANGED engine
    /\ UNCHANGED <<watch, handled, ret>> /\ Stays

\* reopen(): held again, with a mailbox for what comes next.
Reopened(h) == box' = [box EXCEPT ![h] = Append(@, "empty")]

Refuses(h) ==
    /\ At(h, "validating")
    /\ Goto(h, "reading")
    /\ IF ~TicketCurrent(h) THEN UNCHANGED engine
       ELSE IF h \in due THEN Take(h, "continue", "host")
       ELSE /\ gate' = [gate EXCEPT ![h] = [at |-> "held", ticket |-> 0]]
            /\ Reopened(h)
            /\ UNCHANGED <<rel, events>>
    /\ UNCHANGED <<watch, handled, ret>> /\ Stays

Leaving(h) == ret[h] \in Exceptions

\* discard(), if nobody has released the gate meanwhile.
Discards(h) ==
    /\ At(h, "discarding")
    /\ Continue(h, "host")
    /\ Goto(h, IF Leaving(h) THEN "out" ELSE "final")
    /\ UNCHANGED <<watch, handled, ret>> /\ Stays

\* _final_decision: what the gate was released with, whoever did it.
FinalDecision_Continue(h) == "continue"
FinalDecision(h) == Last(box[h])

Finishes(h) ==
    /\ At(h, "final") /\ Last(box[h]) \in Acts
    /\ Return(h, FinalDecision(h))
    /\ UNCHANGED <<engine, watch, handled>> /\ Stays

Waits == {"blocked", "validating"}
Loops == Waits \cup {"reading", "looking", "asking", "taking"}

\* A signal interrupts a call anywhere in its loop, and a validator may raise
\* what the signal would; a task is cancelled, or closed, where it awaits.
Strikes(h, exc) ==
    IF exc \in {"interrupt", "exit"} THEN \E at \in Loops : At(h, at)
    ELSE h \in tasks /\ \E at \in Waits : At(h, at)

\* gate() catches BaseException, gate_async() CancelledError and Exception.
Catches_InTask(h, exc) == exc = "cancelled"
Catches(h, exc) == h \notin tasks \/ exc = "cancelled"

\* The handler discards the gate.  (gate() then raises Ctrl-C again, and
\* returns CONTINUE for an exit.)
Interrupted(h, exc) ==
    /\ Strikes(h, exc)
    /\ Goto(h, IF Catches(h, exc) THEN "discarding" ELSE "out")
    /\ ret' = [ret EXCEPT ![h] = exc]
    /\ UNCHANGED <<engine, watch, handled>> /\ Stays

\* A signal inside hold(): there is no Hold to discard yet.
InterruptedInHold(h) ==
    /\ At(h, "announcing")
    /\ Return(h, "inHold")
    /\ UNCHANGED <<engine, watch, handled>> /\ Stays

\* A task that leaves cancels the mailbox it watched, in a later turn of its loop.
MailboxCancelled(h) ==
    /\ h \in tasks /\ Leaving(h) /\ watch[h] > 0 /\ Mail(h) = "empty"
    /\ box' = [box EXCEPT ![h][watch[h]] = "cancelled"]
    /\ UNCHANGED <<gate, rel, events, hosts>> /\ Stays

HostStep(h) ==
    \/ Matches(h) \/ MatchesNot(h) \/ Holds(h) \/ Announces(h)
    \/ ReadsMailbox(h) \/ Looks(h) \/ Asks(h) \/ Wakes(h)
    \/ TakesRequest(h) \/ TakesDecision(h) \/ Discards(h) \/ Finishes(h)

Host(h) ==
    \/ Enters(h) \/ HostStep(h) \/ Accepts(h) \/ Refuses(h)
    \/ InterruptedInHold(h) \/ MailboxCancelled(h)
    \/ \E exc \in Exceptions : Interrupted(h, exc)

-----------------------------------------------------------------------------
(* The pause timeout of a gate: a thread that sleeps, then settles.        *)

TimeoutPasses(h) ==
    /\ h \in Registered \ due
    /\ due' = due \cup {h}
    /\ UNCHANGED <<engine, hosts, transport, owner>>

TimerFires(h) ==
    /\ h \in due \cap Registered
    /\ Take(h, "continue", "timer")
    /\ UNCHANGED <<hosts, due, transport, owner>>

-----------------------------------------------------------------------------
(* The loop thread: one transport, whose state the hosts read.             *)

LoopAt(at) == loop.at = at /\ Releasing("loop") = {}
LoopGoes(at) == loop' = [loop EXCEPT !.at = at]

\* The state is set before the debugger's breakpoints are adopted.
Attaches ==
    /\ LoopAt("away") /\ owner.at # "over"
    /\ LoopGoes("arming") /\ attached' = TRUE
    /\ UNCHANGED <<engine, hosts, due, armed, owner>>

Arms ==
    /\ LoopAt("arming")
    /\ LoopGoes("pump") /\ armed' = TRUE
    /\ UNCHANGED <<engine, hosts, due, attached, owner>>

\* The debugger knows the pauses it was told of.
Known(h) == Contains(events[h], "paused")

\* exec.resume without an input.
Resumes(h, act) ==
    /\ LoopAt("pump") /\ Known(h) /\ gate[h].at = "held"
    /\ Take(h, act, "loop")
    /\ UNCHANGED <<hosts, due, transport, owner>>

\* exec.resume with one: handed to the host through its mailbox.
Edits(h) == Cardinality({i \in DOMAIN box[h] : box[h][i] = "request"})

BeginsValidation(h) ==
    /\ LoopAt("pump") /\ Known(h) /\ gate[h].at = "held"
    /\ Last(box[h]) = "empty" /\ Edits(h) < MaxEdits
    /\ gate' = [gate EXCEPT ![h] = [at |-> "validating", ticket |-> Len(box[h])]]
    /\ box' = [box EXCEPT ![h][Len(box[h])] = "request"]
    /\ UNCHANGED <<rel, events, hosts, due, transport, owner>>

\* The connection is lost, or the supervisor is cancelled: detached at once,
\* though the closing handshake comes before on_detached.
Loses ==
    /\ LoopAt("pump")
    /\ LoopGoes("closing") /\ attached' = FALSE
    /\ UNCHANGED <<engine, hosts, due, armed, owner>>

Disarms ==
    /\ LoopAt("closing")
    /\ LoopGoes("disarmed") /\ armed' = FALSE
    /\ UNCHANGED <<engine, hosts, due, attached, owner>>

\* release_all(): those that are registered now, one after the other.
LoopSweeps ==
    /\ LoopAt("disarmed")
    /\ loop' = [at |-> "sweeping", todo |-> Registered]
    /\ UNCHANGED <<engine, hosts, due, attached, armed, owner>>

LoopReleases(h) ==
    /\ LoopAt("sweeping") /\ h \in loop.todo
    /\ loop' = [loop EXCEPT !.todo = @ \ {h}]
    /\ Continue(h, "loop")
    /\ UNCHANGED <<hosts, due, attached, armed, owner>>

Detached ==
    /\ LoopAt("sweeping") /\ loop.todo = {}
    /\ LoopGoes("away")
    /\ UNCHANGED <<engine, hosts, due, attached, armed, owner>>

Detaching == Disarms \/ LoopSweeps \/ Detached \/ \E h \in Hosts : LoopReleases(h)

-----------------------------------------------------------------------------
(* dispose(), on any thread.                                               *)

OwnerAt(at) == owner.at = at /\ Releasing("owner") = {}

Disposes ==
    /\ OwnerAt("idle")
    /\ owner' = [owner EXCEPT !.at = "disposed"]
    /\ UNCHANGED <<engine, hosts, due, transport>>

OwnerSweeps ==
    /\ OwnerAt("disposed")
    /\ owner' = [at |-> "sweeping", todo |-> Registered]
    /\ UNCHANGED <<engine, hosts, due, transport>>

OwnerReleases(h) ==
    /\ OwnerAt("sweeping") /\ h \in owner.todo
    /\ owner' = [owner EXCEPT !.todo = @ \ {h}]
    /\ Continue(h, "owner")
    /\ UNCHANGED <<hosts, due, transport>>

\* disarm(), and the transport is disposed of: its state is no longer attached.
IsDisposed ==
    /\ OwnerAt("sweeping") /\ owner.todo = {}
    /\ owner' = [owner EXCEPT !.at = "over"]
    /\ attached' = FALSE /\ armed' = FALSE
    /\ UNCHANGED <<engine, hosts, due, loop>>

Disposing == OwnerSweeps \/ IsDisposed \/ \E h \in Hosts : OwnerReleases(h)

-----------------------------------------------------------------------------
Next ==
    \/ \E h \in Hosts : Host(h) \/ Tell(h) \/ Deliver(h) \/ TimeoutPasses(h) \/ TimerFires(h)
    \/ \E h \in Hosts, act \in {"continue", "abort"} : Resumes(h, act)
    \/ \E h \in Hosts : BeginsValidation(h)
    \/ Attaches \/ Arms \/ Loses \/ Detaching \/ Disposes \/ Disposing

Spec == Init /\ [][Next]_vars

\* Threads run, and finish what they began.  Nobody has to resume, a validator
\* need not return, and no pause timeout is set.
FairSpec ==
    /\ Spec
    /\ \A h \in Hosts : WF_vars(HostStep(h)) /\ WF_vars(Tell(h) \/ Deliver(h))
    /\ WF_vars(Detaching) /\ WF_vars(Disposing)

-----------------------------------------------------------------------------
(* Properties.                                                             *)

\* The values of every variable.
TypeOK ==
    /\ gate \in [Hosts -> Gates] /\ rel \in [Hosts -> Releases]
    /\ box \in [Hosts -> Seq({"empty", "request", "cancelled"} \cup Acts)]
    /\ events \in [Hosts -> Seq({"paused"} \cup Acts)]
    /\ pc \in [Hosts -> {"idle", "matching", "matched", "announcing", "reading", "looking",
                         "asking", "blocked", "taking", "validating", "discarding", "final", "out"}]
    /\ watch \in [Hosts -> Nat] /\ handled \in [Hosts -> Nat]
    /\ ret \in [Hosts -> Ends]
    /\ tasks \subseteq Hosts /\ due \subseteq Hosts /\ attached \in BOOLEAN /\ armed \in BOOLEAN
    /\ loop \in Threads /\ owner \in Owners

Resumptions(h) == {i \in DOMAIN events[h] : events[h][i] \in Acts}

\* However many threads race to release a gate, one of them does, the debugger
\* hears of it once, and the host goes on with that decision: also when it had
\* given up on the gate itself.
OneDecision ==
    \A h \in Hosts :
        /\ rel[h].phase = "none" <=> gate[h].at # "out"
        /\ \A i, j \in Resumptions(h) : i = j
        /\ ret[h] \in Acts /\ gate[h].at # "new" =>
              /\ ret[h] = rel[h].act
              /\ \A i \in Resumptions(h) : events[h][i] = ret[h]

\* A host never takes the same request out of its mailbox twice: whatever
\* ends a validation leaves it another mailbox to wait on.
NeverTwice ==
    \A h \in Hosts : pc[h] = "taking" /\ Mail(h) = "request" => handled[h] # watch[h]

\* "Never leave a gate registered that nobody waits on" holds of a thread,
\* whatever ends its call, and of a task that is cancelled: the gate is released
\* before the call is over.  The gates that stay behind are those of a call that
\* was struck inside hold(), and of a task that ends by an exception which
\* gate_async() does not catch.
WaitedOn ==
    \A h \in Registered : pc[h] = "out" =>
        ret[h] = "inHold" \/ (h \in tasks /\ ret[h] \in Exceptions \ {"cancelled"})

\* FAIL-OPEN: a host goes on once its gate is released, and a gate that is held
\* with the debugger gone is released, even when it was registered after the
\* detach had released the others.  (A validator need not return; WaitedOn
\* bounds the gates that a host leaves behind.)
HostGoesOn ==
    \A h \in Hosts :
        /\ gate[h].at = "out" ~> pc[h] \in {"validating", "out"}
        /\ h \in Registered /\ Gone ~> h \notin Registered \/ ~Gone \/ pc[h] = "out"
=============================================================================
