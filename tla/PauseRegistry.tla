--------------------------- MODULE PauseRegistry ----------------------------
(***************************************************************************)
(* The hub's pause registry: packages/cli pause-registry.ts.  Which gates  *)
(* are held, which resume each of them is resolving on, and what became of *)
(* every resume request.                                                   *)
(*                                                                         *)
(* Each method of the registry is one action, called here with every       *)
(* argument the hub could pass; ResumeRace composes the same actions with  *)
(* the application at the other end of the socket.  A request stands for   *)
(* its requestId: the hub mints one whenever the caller's own id is still  *)
(* remembered.                                                             *)
(***************************************************************************)
EXTENDS Naturals, FiniteSets

CONSTANTS
    Pauses,            \* the (runId, pauseId) keys
    Runs, RunOf,       \* the runs, and the run of each key
    Owners,            \* app connections
    Requests,          \* resume requests (bounds the calls of begin())
    Actions,           \* the resume actions in use
    None,              \* no owner, no request
    MaxPerOwner,       \* MAX_PAUSES_PER_OWNER
    MaxClosed,         \* MAX_CLOSED
    MaxRequests,       \* MAX_REQUESTS
    MaxUnknownPending  \* MAX_UNKNOWN_PENDING

ASSUME RegistryAssumption ==
    /\ None \notin Owners \cup Requests \cup Actions
    /\ RunOf \in [Pauses -> Runs]
    /\ IsFiniteSet(Pauses) /\ IsFiniteSet(Requests)
    /\ {MaxPerOwner, MaxClosed, MaxRequests, MaxUnknownPending} \subseteq Nat \ {0}
    /\ Actions # {} /\ Pauses # {}

VARIABLES
    entry,      \* entries: who owns a pause, and the request it resolves on
    ownerCount, \* ownerCounts
    closed,     \* the keys remembered as closed
    req,        \* every request, remembered (in `requests`) or forgotten
    arrivals,   \* requests begun so far: the insertion order of `requests`
    disposed

registryVars == <<entry, ownerCount, closed, req, arrivals, disposed>>

\* 'no-answer' is the only timeout a late answer may still be credited to.
Answers == {"resumed", "refused", "superseded", "no-answer", "app-disconnected",
            "send-failed", "run-finished", "server-closing"}

Entries == [owner : Owners \cup {None}, resolving : Requests \cup {None}]
NoEntry == [owner |-> None, resolving |-> None]

Reqs == [outcome : {"unused", "pending"} \cup Answers, pause : Pauses,
         owner : Owners \cup {None}, action : Actions, known : BOOLEAN,
         held : BOOLEAN, at : Nat]
NoReq == [outcome |-> "unused", pause |-> CHOOSE p \in Pauses : TRUE, owner |-> None,
          action |-> CHOOSE a \in Actions : TRUE, known |-> FALSE, held |-> FALSE, at |-> 0]

RegistryInit ==
    /\ entry = [p \in Pauses |-> NoEntry]
    /\ ownerCount = [o \in Owners |-> 0]
    /\ closed = {}
    /\ req = [r \in Requests |-> NoReq]
    /\ arrivals = 0
    /\ disposed = FALSE

-----------------------------------------------------------------------------
(* Reading and changing the maps.                                          *)

Tracked(p) == entry[p].owner # None
Resolving(p) == entry[p].resolving # None
EntriesOf_Anyone(o) == {p \in Pauses : Tracked(p)}
EntriesOf(o) == {p \in Pauses : entry[p].owner = o}

Remembered == {r \in Requests : req[r].held}
Waiting == {r \in Remembered : req[r].outcome = "pending"}

\* settle(): the first answer stands.
Settled(q, answer) == IF q.outcome = "pending" THEN [q EXCEPT !.outcome = answer] ELSE q

\* removeEntry() for the entries of S.
RemoveEntries(S) ==
    /\ entry' = [p \in Pauses |-> IF p \in S THEN NoEntry ELSE entry[p]]
    /\ ownerCount' = [o \in Owners |-> ownerCount[o] - Cardinality(S \cap EntriesOf(o))]

\* markClosed() for the keys of S: past MaxClosed the oldest are forgotten.
\* Which ones are older is not modelled: any may go but the last one marked.
MarkClosed(S) ==
    /\ closed' \in SUBSET (closed \cup S)
    /\ Cardinality(closed') = IF Cardinality(closed \cup S) <= MaxClosed
                              THEN Cardinality(closed \cup S) ELSE MaxClosed
    /\ S # {} => S \cap closed' # {}

Reopen(p) == entry' = [entry EXCEPT ![p].resolving = None]

\* An un-echoed answer may be to a request for this pause that the app can
\* still have applied and that asked for the action it reports.
Matches_AnyAction(r, p, action) ==
    /\ r \in Remembered /\ req[r].pause = p
    /\ req[r].outcome \in {"pending", "no-answer"}
Matches(r, p, action) ==
    /\ r \in Remembered /\ req[r].pause = p
    /\ req[r].outcome \in {"pending", "no-answer"}
    /\ action \in {None, req[r].action}

Newest(S) == CHOOSE r \in S : \A s \in S : req[s].at <= req[r].at

\* Among those, the one the pause resolves on first, then the newest.
Guess(p, action) ==
    LET candidates == {r \in Requests : Matches(r, p, action)} IN
    IF entry[p].resolving \in candidates THEN entry[p].resolving
    ELSE IF candidates = {} THEN None ELSE Newest(candidates)

\* correlate(): the request an app's answer is for, or None.
Correlate_AlwaysGuesses(p, echoed, echoes, action) ==
    IF echoed # None
    THEN IF echoed \in Remembered /\ req[echoed].pause = p THEN echoed ELSE None
    ELSE Guess(p, action)
Correlate(p, echoed, echoes, action) ==
    IF echoed # None
    THEN IF echoed \in Remembered /\ req[echoed].pause = p THEN echoed ELSE None
    ELSE IF echoes THEN None ELSE Guess(p, action)

-----------------------------------------------------------------------------
(* What the stored frames of an app do.                                    *)

\* exec.paused.  An entry of the same key goes first, whoever owns it.
OpenCount_Kept(p) == ownerCount
OpenCount(p) ==
    [o \in Owners |-> ownerCount[o] - Cardinality({p} \cap EntriesOf(o))]

Forget(p) == closed \ {p}

Open(o, p) ==
    /\ ~disposed
    /\ IF OpenCount(p)[o] >= MaxPerOwner
       THEN /\ entry' = [entry EXCEPT ![p] = NoEntry]
            /\ ownerCount' = OpenCount(p)
            /\ UNCHANGED closed
       ELSE /\ entry' = [entry EXCEPT ![p] = [owner |-> o, resolving |-> None]]
            /\ ownerCount' = [OpenCount(p) EXCEPT ![o] = @ + 1]
            /\ closed' = Forget(p)
    /\ UNCHANGED <<req, arrivals, disposed>>

\* exec.resumed: whoever it is credited to, the pause is over.
ResumedEntries_Credited(p, by) == IF by = None THEN {} ELSE {p}
ResumedEntries(p, by) == {p}

Resumed(p, echoed, echoes, action) ==
    LET by == Correlate(p, echoed, echoes, action) IN
    /\ ~disposed
    /\ RemoveEntries(ResumedEntries(p, by))
    /\ MarkClosed({p})
    /\ req' = [r \in Requests |->
                  IF r = by THEN Settled(req[r], "resumed")
                  ELSE IF r \in Waiting /\ req[r].pause = p
                       THEN Settled(req[r], "superseded")
                  ELSE req[r]]
    /\ UNCHANGED <<arrivals, disposed>>

\* exec.refused: the gate is held again, whichever request it resolves on.
RefusedRequest(p, echoed) ==
    IF echoed # None THEN Correlate(p, echoed, FALSE, None)
    ELSE IF Resolving(p)
         THEN IF entry[p].resolving \in Remembered THEN entry[p].resolving ELSE None
    ELSE Correlate(p, None, FALSE, None)

RefusedEntry_Kept(p, echoed) == entry[p].resolving
RefusedEntry(p, echoed) == None

Refused(p, echoed) ==
    /\ ~disposed
    /\ entry' = [entry EXCEPT ![p].resolving = RefusedEntry(p, echoed)]
    /\ req' = [r \in Requests |->
                  IF r = RefusedRequest(p, echoed) THEN Settled(req[r], "refused") ELSE req[r]]
    /\ UNCHANGED <<ownerCount, closed, arrivals, disposed>>

\* run.finished.
CloseRun(run) ==
    LET gone == {p \in Pauses : Tracked(p) /\ RunOf[p] = run} IN
    /\ ~disposed
    /\ RemoveEntries(gone) /\ MarkClosed(gone)
    /\ req' = [r \in Requests |->
                  IF r \in Waiting /\ RunOf[req[r].pause] = run
                  THEN Settled(req[r], "run-finished") ELSE req[r]]
    /\ UNCHANGED <<arrivals, disposed>>

\* The app's socket closed.
CloseOwner(o) ==
    /\ ~disposed
    /\ entry' = [p \in Pauses |-> IF p \in EntriesOf(o) THEN NoEntry ELSE entry[p]]
    /\ ownerCount' = [ownerCount EXCEPT ![o] = 0]
    /\ MarkClosed(EntriesOf(o))
    /\ req' = [r \in Requests |->
                  IF r \in Waiting /\ req[r].owner = o
                  THEN Settled(req[r], "app-disconnected") ELSE req[r]]
    /\ UNCHANGED <<arrivals, disposed>>

-----------------------------------------------------------------------------
(* The resume race.                                                        *)

\* What begin() answers, and requestResume before it: taken, closed, or go.
Taken(p) == Tracked(p) /\ Resolving(p)
KnownClosed(p) == ~Tracked(p) /\ p \in closed

\* resolvingUnanswered(): is somebody still waiting on the resume p resolves on?
ResolvingUnanswered(p) ==
    /\ Resolving(p)
    /\ entry[p].resolving \in Remembered => req[entry[p].resolving].outcome = "pending"

\* rememberRequest(): best-effort requests past their cap, all but the newest.
UnknownPending(q) == {r \in Requests : q[r].held /\ ~q[r].known /\ q[r].outcome = "pending"}
Crowded(q) ==
    {r \in UnknownPending(q) :
        Cardinality({s \in UnknownPending(q) : q[s].at >= q[r].at}) > MaxUnknownPending}

\* Past MaxRequests one is forgotten: an answered one, else a best-effort one,
\* else any; the oldest of those.
Evictable(q) ==
    LET answered == {r \in Requests : q[r].held /\ q[r].outcome # "pending"} IN
    IF answered # {} THEN answered
    ELSE IF UnknownPending(q) # {} THEN UnknownPending(q)
    ELSE {r \in Requests : q[r].held}

Full_OneMore(q) == Cardinality({r \in Requests : q[r].held}) > MaxRequests + 1
Full(q) == Cardinality({r \in Requests : q[r].held}) > MaxRequests
Evicted(q) ==
    IF Full(q) THEN {r \in Evictable(q) : \A s \in Evictable(q) : q[r].at <= q[s].at} ELSE {}

\* The request is recorded and, for a listed pause, claims it.  When the socket
\* is already closing the forward is not even sent, and the hub aborts the
\* request in the same call: the pause is open again.
Begin(r, p, o, action, sent) ==
    LET new == [outcome |-> "pending", pause |-> p, owner |-> o, action |-> action,
                known |-> Tracked(p), held |-> TRUE, at |-> arrivals]
        begun == [req EXCEPT ![r] = new]
        shed == IF Tracked(p) THEN {} ELSE Crowded(begun)
        asked == [s \in Requests |->
                     IF s \in shed THEN Settled(begun[s], "no-answer") ELSE begun[s]]
        out == Evicted(asked)
    IN
    /\ ~disposed /\ req[r].outcome = "unused"
    /\ ~Taken(p) /\ ~KnownClosed(p)
    /\ req' = [s \in Requests |->
                  IF s \in out THEN [Settled(asked[s], "no-answer") EXCEPT !.held = FALSE]
                  ELSE IF s = r /\ ~sent THEN Settled(asked[s], "app-disconnected")
                  ELSE asked[s]]
    /\ arrivals' = arrivals + 1
    /\ entry' = IF Tracked(p) /\ (sent \/ r \in out)
                THEN [entry EXCEPT ![p].resolving = r] ELSE entry
    /\ UNCHANGED <<ownerCount, closed, disposed>>

\* A late write error of the forward: the claim is undone, if it is still this
\* request's.
AbortEntry(p, r) == IF entry[p].resolving = r THEN None ELSE entry[p].resolving

Abort(r) ==
    /\ ~disposed /\ r \in Remembered
    /\ entry' = [entry EXCEPT ![req[r].pause].resolving = AbortEntry(req[r].pause, r)]
    /\ req' = [req EXCEPT ![r] = Settled(@, "send-failed")]
    /\ UNCHANGED <<ownerCount, closed, arrivals, disposed>>

-----------------------------------------------------------------------------
(* Timers.  reopen() and removeEntry() clear an entry's timer, so one is   *)
(* armed exactly while its entry is resolving.                             *)

TimerArmed_WhileWaiting(p) == entry[p].resolving \in Waiting
TimerArmed(p) == Resolving(p)
ResolvingTimeout(p) ==
    /\ ~disposed /\ TimerArmed(p)
    /\ Reopen(p)
    /\ UNCHANGED <<ownerCount, closed, req, arrivals, disposed>>

DeadlineArmed_KnownOnly(r) == req[r].known
DeadlineArmed(r) == TRUE
Deadline(r) ==
    /\ ~disposed /\ r \in Waiting /\ DeadlineArmed(r)
    /\ req' = [req EXCEPT ![r] = Settled(@, "no-answer")]
    /\ UNCHANGED <<entry, ownerCount, closed, arrivals, disposed>>

\* The server closes its sockets first: nothing is called afterwards.
Dispose ==
    /\ ~disposed
    /\ disposed' = TRUE
    /\ req' = [r \in Requests |-> IF r \in Waiting THEN Settled(req[r], "server-closing") ELSE req[r]]
    /\ UNCHANGED <<entry, ownerCount, closed, arrivals>>

-----------------------------------------------------------------------------
Frames ==
    \/ \E o \in Owners : CloseOwner(o) \/ \E p \in Pauses : Open(o, p)
    \/ \E run \in Runs : CloseRun(run)
    \/ \E p \in Pauses, echoed \in Requests \cup {None} :
          \/ Refused(p, echoed)
          \/ \E echoes \in BOOLEAN, a \in Actions : Resumed(p, echoed, echoes, a)

Resumes ==
    \E r \in Requests :
        \/ \E p \in Pauses, o \in Owners, a \in Actions :
              /\ Tracked(p) => o = entry[p].owner
              /\ \E sent \in BOOLEAN : Begin(r, p, o, a, sent)
        \/ Abort(r)

RegistryNext ==
    \/ Frames
    \/ Resumes
    \/ \E p \in Pauses : ResolvingTimeout(p)
    \/ \E r \in Requests : Deadline(r)
    \/ Dispose

\* What the hub's callers may rely on: any order of the registry's calls, with
\* any arguments, but a resume for a listed pause goes through its connection.
RegistrySpec == RegistryInit /\ [][RegistryNext]_registryVars

\* Node's timers fire.  Nothing else is promised.
FairRegistrySpec ==
    /\ RegistrySpec
    /\ \A p \in Pauses : WF_registryVars(ResolvingTimeout(p))
    /\ \A r \in Requests : WF_registryVars(Deadline(r))

-----------------------------------------------------------------------------
(* Properties.                                                             *)

\* Type invariant: the pauses the registry tracks, the tombstones of closed
\* ones, the per-connection counts and the callers' promises.
TypeOK ==
    /\ entry \in [Pauses -> Entries]
    /\ ownerCount \in [Owners -> Nat]
    /\ closed \subseteq Pauses
    /\ req \in [Requests -> Reqs]
    /\ arrivals \in Nat
    /\ disposed \in BOOLEAN

\* ownerCounts is kept by hand on every open, close and replacement; the cap
\* on a connection's pauses is only as good as that count.
OwnerCountExact ==
    \A o \in Owners : /\ ownerCount[o] = Cardinality(EntriesOf(o))
                      /\ ownerCount[o] <= MaxPerOwner

\* No key is both listed and known to be closed: a re-opened pause can be
\* resumed again, and a closed one is not served as held.
ClosedApart == \A p \in Pauses : Tracked(p) => p \notin closed

\* The request an entry resolves on was made for that pause through that
\* connection, and is unanswered or has only run out of time: a refusal, a
\* failed send, a release or a disconnect always gives the pause back.
ResolvingIsUnsettled ==
    \A p \in Pauses :
        LET r == entry[p].resolving IN
        r # None => /\ Tracked(p)
                    /\ req[r].pause = p /\ req[r].owner = entry[p].owner /\ req[r].known
                    /\ ~disposed => req[r].outcome \in {"pending", "no-answer"}

\* A caller that waits is never forgotten without an answer, and the maps stay
\* within their bounds.
RequestsBounded ==
    /\ \A r \in Requests : req[r].outcome = "pending" => req[r].held
    /\ Cardinality(Remembered) <= MaxRequests
    /\ Cardinality(UnknownPending(req)) <= MaxUnknownPending

\* "Each request is answered by what actually happens to it": once.
AnswersAreFinal ==
    [][\A r \in Requests :
          req[r].outcome \in Answers => req'[r].outcome = req[r].outcome]_registryVars

\* "resumes for made-up pause ids must never crowd out the ones for real, held
\* gates": a waiting request for a listed pause is forgotten only when every
\* other one remembered was one too (the newcomer, whose forward may not even
\* be sent, included).
KnownForgottenLast ==
    [][\A r \in Requests :
          (r \in Waiting /\ req[r].known /\ ~req'[r].held) =>
              \A s \in Requests :
                  req'[s].held => /\ req'[s].known
                                  /\ req'[s].outcome = "pending" \/ s \notin Remembered
      ]_registryVars

\* "a resolving entry must never wedge": whatever the app and the connection
\* do, the pause is given back (or released) unless the server closes, and the
\* caller gets an answer.
NeverWedged ==
    \A r \in Requests :
        /\ \A p \in Pauses : entry[p].resolving = r ~> (entry[p].resolving # r \/ disposed)
        /\ req[r].outcome = "pending" ~> req[r].outcome \in Answers
=============================================================================
