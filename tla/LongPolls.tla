----------------------------- MODULE LongPolls ------------------------------
(***************************************************************************)
(* The hub's two long-polls, GET /api/pauses?wait= and POST .../resume     *)
(* (packages/cli control-http.ts), and `graphmind wait`, which loops over  *)
(* the first one (commands/control.ts).                                    *)
(*                                                                         *)
(* What a poll waits for is a change of the pause registry or of a run's   *)
(* status.  PauseRegistry models the registry; here it is reduced to what  *)
(* a poll can see, one action per method that calls emitChange(), and the  *)
(* app behind a run does whatever an app may do.                           *)
(***************************************************************************)
EXTENDS Naturals, FiniteSets

CONSTANTS
    Waiters,      \* `graphmind wait` processes
    Resumers,     \* POST .../resume requests
    Tokened,      \* the callers that present a valid token
    Runs, Pauses, RunOf,
    Watched,      \* the run a waiter names with --run, or None
    Target,       \* the pause a resumer names
    None,
    MaxWaits,     \* MAX_CONCURRENT_WAITS
    MaxTokenless  \* MAX_TOKENLESS_WAITS

Callers == Waiters \cup Resumers

ASSUME PollAssumption ==
    /\ IsFiniteSet(Callers) /\ Waiters \cap Resumers = {}
    /\ Resumers \subseteq Tokened /\ Tokened \subseteq Callers
    /\ RunOf \in [Pauses -> Runs] /\ Target \in [Resumers -> Pauses]
    /\ Watched \in [Waiters -> Runs \cup {None}] /\ None \notin Runs \cup Resumers
    /\ MaxWaits \in Nat /\ MaxTokenless \in 0..MaxWaits

VARIABLES
    pause,     \* unknown, open, resolving or closed
    by,        \* the resume a pause is resolving on
    outcome,   \* what became of each resume request
    status,    \* of each run, as stored
    owned,     \* the runs whose app is connected
    call,      \* each caller's request
    waits, tokenless,  \* activeWaits, tokenlessWaits
    due,       \* the waiters whose --timeout is up
    exit,      \* how each waiter ended
    gone,      \* the callers that were killed
    server     \* up, closing (after closeWaits) or closed

registry == <<pause, by, outcome, status, owned>>
polls == <<call, waits, tokenless>>
clients == <<due, exit, gone>>
vars == <<registry, polls, clients, server>>

Outcomes == {"resumed", "refused", "taken", "no-answer", "run-finished",
             "app-disconnected", "send-failed", "server-closing"}

\* A request travels, is parked on a slot, is woken, and is answered: with
\* the pauses listed and the run's status, with an outcome, or with a 429.
Calls == [at : {"idle", "sent", "parked", "woken", "answered"}, chunk : BOOLEAN,
          reply : {"none", "list", "429", "busy"} \cup Outcomes,
          open : BOOLEAN, ended : BOOLEAN]
NoCall == [at |-> "idle", chunk |-> FALSE, reply |-> "none", open |-> FALSE, ended |-> FALSE]

Init ==
    /\ pause = [p \in Pauses |-> "unknown"]
    /\ by = [p \in Pauses |-> None]
    /\ outcome = [c \in Resumers |-> "none"]
    /\ status = [r \in Runs |-> "running"]
    /\ owned = Runs
    /\ call = [c \in Callers |-> NoCall]
    /\ waits = 0 /\ tokenless = 0
    /\ due = {} /\ exit = [c \in Waiters |-> "none"] /\ gone = {}
    /\ server = "up"

-----------------------------------------------------------------------------
(* What a poll looks at.                                                   *)

\* registry.hasOpen(runId): a pause that is resolving is not open.
HasOpen(r) == \E p \in Pauses : pause[p] = "open" /\ r \in {None, RunOf[p]}

RunEnded(r) == r # None /\ status[r] # "running"

News(c) == HasOpen(Watched[c]) \/ RunEnded(Watched[c])

Parked == {c \in Callers : call[c].at = "parked"}
Pending == {c \in Resumers : outcome[c] = "pending"}

-----------------------------------------------------------------------------
(* The registry and the runs.  The methods that call emitChange() wake the *)
(* polls that have something to say; a settled request wakes its own.      *)

Settle(S, o) == outcome' = [c \in Resumers |-> IF c \in S \cap Pending THEN o ELSE outcome[c]]

Answered == {c \in Parked \cap Resumers : outcome'[c] # "pending"}

\* finish(): the poll hears nothing more.  What the listener of a resume was
\* told by then is its answer: `outcome ?? no answer`.
Told_Nothing(c) == IF c \in Resumers THEN "no-answer" ELSE "none"
Told(c) == IF c \in Waiters THEN "none"
           ELSE IF outcome'[c] = "pending" THEN "no-answer" ELSE outcome'[c]

Wake(S) == call' = [c \in Callers |->
               IF c \in S THEN [call[c] EXCEPT !.at = "woken", !.reply = Told(c)] ELSE call[c]]

\* emitChange(), with the settled requests' own listeners.
EmitChange ==
    /\ Wake(Answered \cup {c \in Parked \cap Waiters : News(c)'})
    /\ UNCHANGED <<waits, tokenless, clients, server>>
\* A step of the registry that tells no change listener.
Quietly ==
    /\ Wake(Answered)
    /\ UNCHANGED <<waits, tokenless, clients, server>>

Opens(p) ==
    /\ server # "closed" /\ RunOf[p] \in owned
    /\ pause[p] \in {"unknown", "closed"} /\ status[RunOf[p]] = "running"
    /\ pause' = [pause EXCEPT ![p] = "open"]
    /\ UNCHANGED <<by, outcome, status, owned>>
    /\ EmitChange

\* exec.resumed, credited to one of the pending requests or to none of them.
IsResumed(p) ==
    /\ server # "closed" /\ RunOf[p] \in owned
    /\ pause' = [pause EXCEPT ![p] = "closed"]
    /\ by' = [by EXCEPT ![p] = None]
    /\ \E winner \in {c \in Pending : Target[c] = p} \cup {None} :
           outcome' = [c \in Resumers |->
               IF c = winner THEN "resumed"
               ELSE IF c \in Pending /\ Target[c] = p THEN "taken" ELSE outcome[c]]
    /\ UNCHANGED <<status, owned>>
    /\ EmitChange

Reopen(p) ==
    /\ pause' = [pause EXCEPT ![p] = IF @ = "resolving" THEN "open" ELSE @]
    /\ by' = [by EXCEPT ![p] = None]
    /\ UNCHANGED <<status, owned>>

IsRefused(c) ==
    /\ server # "closed" /\ c \in Pending /\ RunOf[Target[c]] \in owned
    /\ Reopen(Target[c])
    /\ Settle({c}, "refused")
    /\ EmitChange

SendFails(c) ==
    /\ server # "closed" /\ c \in Pending
    /\ IF by[Target[c]] = c THEN Reopen(Target[c]) ELSE UNCHANGED <<pause, by, status, owned>>
    /\ Settle({c}, "send-failed")
    /\ EmitChange

\* The resolving timeout: the request stays pending, its pause is open again.
Reopens(p) ==
    /\ server # "closed" /\ pause[p] = "resolving"
    /\ Reopen(p)
    /\ UNCHANGED outcome
    /\ EmitChange

\* armDeadline: the caller has waited as long as it asked to.
RequestDeadline(c) ==
    /\ server # "closed" /\ c \in Pending
    /\ Settle({c}, "no-answer")
    /\ UNCHANGED <<pause, by, status, owned>>
    /\ Quietly

CloseAll(S) ==
    /\ pause' = [p \in Pauses |-> IF RunOf[p] \in S /\ pause[p] \in {"open", "resolving"}
                                  THEN "closed" ELSE pause[p]]
    /\ by' = [p \in Pauses |-> IF RunOf[p] \in S THEN None ELSE by[p]]

RunFinishes(r) ==
    /\ server # "closed" /\ r \in owned /\ status[r] = "running"
    /\ status' = [status EXCEPT ![r] = "finished"]
    /\ CloseAll({r})
    /\ Settle({c \in Resumers : RunOf[Target[c]] = r}, "run-finished")
    /\ UNCHANGED owned
    /\ EmitChange

AppLeaves(r) ==
    /\ server # "closed" /\ r \in owned
    /\ owned' = owned \ {r}
    /\ CloseAll({r})
    /\ Settle({c \in Resumers : RunOf[Target[c]] = r}, "app-disconnected")
    /\ UNCHANGED status
    /\ EmitChange

\* The grace period is over and nobody came back.  touch() wakes the polls.
Abandoned_Untouched(r) ==
    /\ server = "up" /\ r \notin owned /\ status[r] = "running"
    /\ status' = [status EXCEPT ![r] = "abandoned"]
    /\ UNCHANGED <<pause, by, outcome, owned>>
    /\ Quietly
Abandoned(r) ==
    /\ server = "up" /\ r \notin owned /\ status[r] = "running"
    /\ status' = [status EXCEPT ![r] = "abandoned"]
    /\ UNCHANGED <<pause, by, outcome, owned>>
    /\ EmitChange

\* The app reconnects: an abandoned run runs again, a finished one does not.
AppReturns(r) ==
    /\ server # "closed" /\ r \notin owned
    /\ owned' = owned \cup {r}
    /\ status' = [status EXCEPT ![r] = IF @ = "abandoned" THEN "running" ELSE @]
    /\ UNCHANGED <<pause, by, outcome, polls, clients, server>>

Registry ==
    \/ \E p \in Pauses : Opens(p) \/ IsResumed(p) \/ Reopens(p)
    \/ \E c \in Resumers : IsRefused(c) \/ SendFails(c) \/ RequestDeadline(c)
    \/ \E r \in Runs : RunFinishes(r) \/ AppLeaves(r) \/ Abandoned(r) \/ AppReturns(r)

-----------------------------------------------------------------------------
(* park(): a slot for as long as the request is held open.                 *)

SlotFree(c) == waits < MaxWaits /\ (c \in Tokened \/ tokenless < MaxTokenless)

Share(c) == IF c \in Tokened THEN 0 ELSE 1

TakeSlot(c) ==
    /\ waits' = waits + 1
    /\ tokenless' = tokenless + Share(c)

\* The `finally` of park(), in a later turn than the wake.
FreeSlot_OneCounter(c) ==
    /\ waits' = waits - 1
    /\ UNCHANGED tokenless
FreeSlot(c) ==
    /\ waits' = waits - 1
    /\ tokenless' = tokenless - Share(c)

Set(c, changes) == call' = [call EXCEPT ![c] = changes]
Listed(c) == [call[c] EXCEPT !.at = "answered", !.reply = "list",
                             !.open = HasOpen(Watched[c]), !.ended = RunEnded(Watched[c])]
Replied(c, reply) == [call[c] EXCEPT !.at = "answered", !.reply = reply]

\* Nothing to wait for, or nothing to wait on: no slot is looked for.
NeedsSlot_Always(c) == call[c].chunk
NeedsSlot(c) == call[c].chunk /\ ~News(c)

GetAnsweredAtOnce(c) ==
    /\ call[c].at = "sent" /\ ~NeedsSlot(c)
    /\ Set(c, Listed(c))
    /\ UNCHANGED <<registry, waits, tokenless, clients, server>>

GetParks(c) ==
    /\ call[c].at = "sent" /\ NeedsSlot(c) /\ SlotFree(c)
    /\ Set(c, [call[c] EXCEPT !.at = "parked"])
    /\ TakeSlot(c)
    /\ UNCHANGED <<registry, clients, server>>

GetTurnedAway(c) ==
    /\ call[c].at = "sent" /\ NeedsSlot(c) /\ ~SlotFree(c)
    /\ Set(c, Replied(c, "429"))
    /\ UNCHANGED <<registry, waits, tokenless, clients, server>>

\* requestResume: refused where it stands, or recorded and forwarded.
Refusable(c) ==
    \/ pause[Target[c]] \in {"resolving", "closed"}
    \/ RunOf[Target[c]] \notin owned

PostTurnedAway(c) ==
    /\ call[c].at = "sent" /\ ~SlotFree(c)
    /\ Set(c, Replied(c, "429"))
    /\ UNCHANGED <<registry, waits, tokenless, clients, server>>

PostRefused(c) ==
    /\ call[c].at = "sent" /\ SlotFree(c) /\ Refusable(c)
    /\ Set(c, Replied(c, "busy"))
    /\ UNCHANGED <<registry, waits, tokenless, clients, server>>

Begin(c) ==
    /\ outcome' = [outcome EXCEPT ![c] = "pending"]
    /\ IF pause[Target[c]] = "open"
       THEN /\ pause' = [pause EXCEPT ![Target[c]] = "resolving"]
            /\ by' = [by EXCEPT ![Target[c]] = c]
       ELSE UNCHANGED <<pause, by>>
    /\ UNCHANGED <<status, owned>>

\* The slot is looked for before the resume is forwarded, and park() looks
\* again in the same turn.
PostParks(c) ==
    /\ call[c].at = "sent" /\ SlotFree(c) /\ ~Refusable(c)
    /\ Begin(c)
    /\ Set(c, [call[c] EXCEPT !.at = "parked"]) /\ TakeSlot(c)
    /\ UNCHANGED <<clients, server>>

\* The poll's own timer.  A resume's is a second longer than its deadline in
\* the registry, so it only ever finds the request settled: no step here.
PollTimer(c) ==
    /\ c \in Parked \cap Waiters
    /\ UNCHANGED <<registry, waits, tokenless, clients, server>>
    /\ Wake({c})

GetAnswered(c) ==
    /\ call[c].at = "woken"
    /\ Set(c, Listed(c))
    /\ FreeSlot(c)
    /\ UNCHANGED <<registry, clients, server>>

PostAnswered(c) ==
    /\ call[c].at = "woken"
    /\ Set(c, Replied(c, call[c].reply))
    /\ FreeSlot(c)
    /\ UNCHANGED <<registry, clients, server>>

Handle(c) ==
    \/ c \in Waiters /\ (GetAnsweredAtOnce(c) \/ GetParks(c) \/ GetTurnedAway(c) \/ GetAnswered(c))
    \/ c \in Resumers /\ (PostTurnedAway(c) \/ PostRefused(c) \/ PostParks(c) \/ PostAnswered(c))

-----------------------------------------------------------------------------
(* The callers.                                                            *)

PostSent(c) ==
    /\ server # "closed" /\ call[c] = NoCall
    /\ Set(c, [NoCall EXCEPT !.at = "sent"])
    /\ UNCHANGED <<registry, waits, tokenless, clients, server>>

\* A waiter asks for at most the time it has left: none, once that is up.
Chunk(c) == c \notin due

Asking(c) == exit[c] = "none" /\ c \notin gone

WaitAsks(c) ==
    /\ server # "closed" /\ Asking(c) /\ call[c].at = "idle"
    /\ Set(c, [NoCall EXCEPT !.at = "sent", !.chunk = Chunk(c)])
    /\ UNCHANGED <<registry, waits, tokenless, clients, server>>

\* A 429 is asked again; an open pause, the end of the run or the end of the
\* timeout ends the wait, in that order.
Leaves(c, how) ==
    /\ exit' = [exit EXCEPT ![c] = how]
    /\ Set(c, NoCall)
AsksAgain(c) == Set(c, NoCall) /\ UNCHANGED exit

WaitReads(c) ==
    /\ Asking(c) /\ call[c].at = "answered"
    /\ IF call[c].reply = "429" THEN AsksAgain(c)
       ELSE IF call[c].open THEN Leaves(c, "ok")
       ELSE IF call[c].ended THEN Leaves(c, "gone")
       ELSE IF c \in due THEN Leaves(c, "timeout") ELSE AsksAgain(c)
    /\ UNCHANGED <<registry, waits, tokenless, due, gone, server>>

WaitUnreachable(c) ==
    /\ server = "closed" /\ Asking(c) /\ call[c].at \in {"idle", "sent"}
    /\ Leaves(c, "unreachable")
    /\ UNCHANGED <<registry, waits, tokenless, due, gone, server>>

DeadlinePasses(c) ==
    /\ Asking(c) /\ c \notin due
    /\ due' = due \cup {c}
    /\ UNCHANGED <<registry, polls, exit, gone, server>>

\* The abort listener ends a poll that is parked.  A request whose client is
\* gone before it is parked is parked all the same: the event is over.
Killed(c) ==
    /\ c \notin gone /\ call[c].at \in {"sent", "parked"}
    /\ gone' = gone \cup {c}
    /\ UNCHANGED <<registry, waits, tokenless, due, exit, server>>
    /\ Wake({c} \cap Parked)

Client ==
    \/ \E c \in Callers : Killed(c)
    \/ \E c \in Resumers : PostSent(c)
    \/ \E c \in Waiters : WaitAsks(c) \/ WaitReads(c) \/ WaitUnreachable(c) \/ DeadlinePasses(c)

-----------------------------------------------------------------------------
(* Closing the server.                                                     *)

CloseWaits ==
    /\ server = "up"
    /\ server' = "closing"
    /\ UNCHANGED <<registry, waits, tokenless, clients>>
    /\ Wake(Parked)

\* hub.dispose() and the HTTP server, in one turn, once the sockets are
\* closed: the requests are settled and what is still parked loses its
\* connection, which ends it too.
CloseServer ==
    /\ server = "closing"
    /\ server' = "closed"
    /\ Settle(Resumers, "server-closing")
    /\ Wake(Parked)
    /\ UNCHANGED <<pause, by, status, owned, waits, tokenless, clients>>

Next ==
    \/ Registry
    \/ \E c \in Callers : Handle(c)
    \/ \E c \in Waiters : PollTimer(c)
    \/ Client
    \/ CloseWaits \/ CloseServer

Spec == Init /\ [][Next]_vars

\* Requests are handled, polls time out, and a waiter goes on.
FairSpec ==
    /\ Spec
    /\ \A c \in Callers : WF_vars(Handle(c))
    /\ \A c \in Waiters : WF_vars(PollTimer(c)) /\ WF_vars(WaitAsks(c) \/ WaitReads(c) \/ WaitUnreachable(c))

-----------------------------------------------------------------------------
(* Properties.                                                             *)

Holding == {c \in Callers : call[c].at \in {"parked", "woken"}}

\* The values of every variable.
TypeOK ==
    /\ pause \in [Pauses -> {"unknown", "open", "resolving", "closed"}]
    /\ by \in [Pauses -> Resumers \cup {None}]
    /\ outcome \in [Resumers -> {"none", "pending"} \cup Outcomes]
    /\ status \in [Runs -> {"running", "finished", "abandoned"}]
    /\ owned \subseteq Runs
    /\ call \in [Callers -> Calls]
    /\ waits \in Nat /\ tokenless \in Nat
    /\ due \subseteq Waiters
    /\ exit \in [Waiters -> {"none", "ok", "gone", "timeout", "unreachable"}]
    /\ gone \subseteq Callers
    /\ server \in {"up", "closing", "closed"}

\* Every slot that is counted belongs to a request that is held open, however
\* that request ends: by a change, its timer, its client or the server closing.
SlotsAccounted ==
    /\ waits = Cardinality(Holding) /\ waits <= MaxWaits
    /\ tokenless = Cardinality(Holding \ Tokened) /\ tokenless <= MaxTokenless

\* A poll never sleeps on while there is something to tell it: whatever made
\* a pause open, or ended the run it watches, also woke it.
NoSleepThroughNews == \A c \in Parked \cap Waiters : ~News(c)

\* A resume that was turned away was never forwarded; one that was forwarded
\* is answered with what became of it, unless the server was closing.  (A
\* killed caller reads no answer.)
PostIsTruthful ==
    \A c \in Resumers \ gone :
        /\ call[c].reply = "429" => outcome[c] = "none"
        /\ call[c].reply = "no-answer" /\ server = "up" => outcome[c] = "no-answer"
        /\ call[c].reply \in Outcomes \ {"no-answer"} => outcome[c] = call[c].reply

\* An open pause is found by every waiter it concerns, however many polls are
\* parked and turned away meanwhile, unless it is taken first; and a waiter
\* ends once its timeout is up: it then asks without waiting, and such a
\* request needs no slot.
WaitsEnd ==
    \A c \in Waiters :
        LET over == exit[c] # "none" \/ c \in gone
        IN /\ c \in due ~> over
           /\ \A p \in Pauses :
                  pause[p] = "open" /\ Watched[c] \in {None, RunOf[p]} ~> pause[p] # "open" \/ over
=============================================================================
