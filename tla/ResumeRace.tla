----------------------------- MODULE ResumeRace -----------------------------
(***************************************************************************)
(* The resume race end to end, for one run: operators whose resumes go     *)
(* through Hub.requestResume, the hub's pause registry (PauseRegistry),    *)
(* the sockets, and the application whose gates they release.              *)
(*                                                                         *)
(* The application is SessionGates seen from the hub: gates that are held, *)
(* that may validate an edit, and that are released by a request or by the *)
(* application itself.  Its events form one log; it replays the log on     *)
(* every connection and the hub stores each (runId, seq) once, so the hub  *)
(* takes in a growing prefix of it.  (EventBuffer models how events can be *)
(* lost; here none is.)                                                    *)
(***************************************************************************)
EXTENDS PauseRegistry, Sequences, SequencesExt

\* What lets go by itself goes on as if nothing had held it.
ASSUME RaceAssumption == "continue" \in Actions

VARIABLES
    echoes,  \* does this client echo requestIds (0.6), or never (older)?
    gate,    \* the gates, in the application
    up,      \* the events it emitted, in seq order
    stored,  \* how many of them the hub has stored
    appConn, \* the connection the application is attached by
    hubConn, \* each connection as the hub sees it
    sent,    \* how many events went out on a connection the app has left
    down,    \* the resumes on their way to the app, by connection
    credit   \* who each stored exec.resumed was attributed to

appVars == <<echoes, gate, up, appConn, sent>>
vars == <<entry, ownerCount, closed, req, arrivals, disposed,
          echoes, gate, up, stored, appConn, hubConn, sent, down, credit>>

Gates == [st : {"none", "held", "validating", "released"},
          by : Requests \cup {None}, action : Actions]
Events == [type : {"paused", "resumed", "refused", "finished"}, pause : Pauses \cup {None},
           req : Requests \cup {None}, action : Actions]
Event(type, p, r, a) == [type |-> type, pause |-> p, req |-> r, action |-> a]

Init ==
    /\ RegistryInit
    /\ echoes \in BOOLEAN
    /\ gate = [p \in Pauses |-> [st |-> "none", by |-> None, action |-> "continue"]]
    /\ up = << >> /\ stored = 0
    /\ appConn = None
    /\ hubConn = [o \in Owners |-> "new"]
    /\ sent = [o \in Owners |-> 0]
    /\ down = [o \in Owners |-> << >>]
    /\ credit = [p \in Pauses |-> None]

IsOpen(p) == gate[p].st \in {"held", "validating"}
Echo(r) == IF echoes THEN r ELSE None

-----------------------------------------------------------------------------
(* The application.                                                        *)

AppAttaches(o) ==
    /\ appConn = None /\ hubConn[o] = "new"
    /\ appConn' = o
    /\ hubConn' = [hubConn EXCEPT ![o] = "live"]
    /\ UNCHANGED <<registryVars, echoes, gate, up, stored, sent, down, credit>>

\* handleDetached: every gate fails open.  What was not read is lost, and the
\* hub may not know yet.
AppDetaches ==
    LET open == SetToSeq({p \in Pauses : IsOpen(p)}) IN
    /\ appConn # None
    /\ appConn' = None
    /\ sent' = [sent EXCEPT ![appConn] = Len(up)]
    /\ down' = [down EXCEPT ![appConn] = << >>]
    /\ gate' = [p \in Pauses |->
                   IF IsOpen(p) THEN [st |-> "released", by |-> None, action |-> "continue"]
                   ELSE gate[p]]
    /\ up' = up \o [i \in DOMAIN open |-> Event("resumed", open[i], None, "continue")]
    /\ UNCHANGED <<registryVars, echoes, stored, hubConn, credit>>

AppPauses(p) ==
    /\ appConn # None /\ gate[p].st = "none"
    /\ gate' = [gate EXCEPT ![p].st = "held"]
    /\ up' = Append(up, Event("paused", p, None, "continue"))
    /\ UNCHANGED <<registryVars, echoes, stored, appConn, hubConn, sent, down, credit>>

Releases(p, r, a) ==
    /\ gate' = [gate EXCEPT ![p] = [st |-> "released", by |-> r, action |-> a]]
    /\ up' = Append(up, Event("resumed", p, Echo(r), a))

Refuses(p, r) ==
    /\ gate' = [gate EXCEPT ![p].st = "held", ![p].by = None]
    /\ up' = Append(up, Event("refused", p, Echo(r), "continue"))

\* handleResume: ignored, applied, refused, or validated first.  A client that
\* echoes no ids knows neither edits nor refusals.
AppReads ==
    /\ appConn # None /\ down[appConn] # << >>
    /\ down' = [down EXCEPT ![appConn] = Tail(@)]
    /\ LET r == Head(down[appConn])
           p == req[r].pause
       IN \/ gate[p].st # "held" /\ UNCHANGED <<gate, up>>
          \/ gate[p].st = "held" /\ Releases(p, r, req[r].action)
          \/ gate[p].st = "held" /\ echoes /\ Refuses(p, r)
          \/ /\ gate[p].st = "held" /\ echoes
             /\ gate' = [gate EXCEPT ![p].st = "validating", ![p].by = r]
             /\ UNCHANGED up
    /\ UNCHANGED <<registryVars, echoes, stored, appConn, hubConn, sent, credit>>

AppVerdict(p) ==
    /\ gate[p].st = "validating"
    /\ LET r == gate[p].by IN Releases(p, r, req[r].action) \/ Refuses(p, r)
    /\ UNCHANGED <<registryVars, echoes, stored, appConn, hubConn, sent, down, credit>>

\* The pause timeout, or the signal of a caller that no longer waits.
AppLetsGo(p) ==
    /\ IsOpen(p)
    /\ Releases(p, None, "continue")
    /\ UNCHANGED <<registryVars, echoes, stored, appConn, hubConn, sent, down, credit>>

\* session.run() ends: its function settled, whatever calls it left behind.
AppRunFinishes ==
    /\ \A i \in DOMAIN up : up[i].type # "finished"
    /\ up' = Append(up, Event("finished", None, None, "continue"))
    /\ UNCHANGED <<registryVars, echoes, gate, stored, appConn, hubConn, sent, down, credit>>

-----------------------------------------------------------------------------
(* The hub.                                                                *)

\* The next event a connection can bring: the app's own log while it is
\* attached, what had been sent before that otherwise.
Reaches(o) == IF o = appConn THEN Len(up) ELSE sent[o]

\* handleIngestFrame, a frame that is newly stored.
HubStores(o) ==
    LET e == up[stored + 1] IN
    /\ hubConn[o] = "live" /\ stored < Reaches(o)
    /\ stored' = stored + 1
    /\ \/ e.type = "paused" /\ Open(o, e.pause) /\ UNCHANGED credit
       \/ /\ e.type = "resumed"
          /\ credit' = [credit EXCEPT ![e.pause] = Correlate(e.pause, e.req, echoes, e.action)]
          /\ Resumed(e.pause, e.req, echoes, e.action)
       \/ e.type = "refused" /\ Refused(e.pause, e.req) /\ UNCHANGED credit
       \/ /\ e.type = "finished" /\ UNCHANGED credit
          /\ \E run \in Runs : CloseRun(run)
    /\ UNCHANGED <<appVars, hubConn, down>>

\* removeIngest: the socket is gone, with what it had in flight.
HubLoses(o) ==
    /\ hubConn[o] = "live"
    /\ hubConn' = [hubConn EXCEPT ![o] = "dead"]
    /\ down' = [down EXCEPT ![o] = << >>]
    /\ CloseOwner(o)
    /\ UNCHANGED <<appVars, stored, credit>>

\* requestResume, past the checks that leave no trace: the owner of the pause,
\* or for one the hub does not list a connection that owns the run.
HubForwards_AnyConnection(r, p, o, a, delivered) ==
    /\ hubConn[o] = "live" /\ stored > 0
    /\ Begin(r, p, o, a, delivered)
    /\ down' = IF delivered /\ o = appConn THEN [down EXCEPT ![o] = Append(@, r)] ELSE down
    /\ UNCHANGED <<appVars, stored, hubConn, credit>>
HubForwards(r, p, o, a, delivered) ==
    /\ hubConn[o] = "live" /\ stored > 0
    /\ Tracked(p) => o = entry[p].owner
    /\ Begin(r, p, o, a, delivered)
    /\ down' = IF delivered /\ o = appConn THEN [down EXCEPT ![o] = Append(@, r)] ELSE down
    /\ UNCHANGED <<appVars, stored, hubConn, credit>>

\* The socket reports that the frame was not written.
HubSendFails(o) ==
    /\ down[o] # << >>
    /\ down' = [down EXCEPT ![o] = Front(@)]
    /\ Abort(Last(down[o]))
    /\ UNCHANGED <<appVars, stored, hubConn, credit>>

HubTimers ==
    /\ \/ \E p \in Pauses : ResolvingTimeout(p)
       \/ \E r \in Requests : Deadline(r)
    /\ UNCHANGED <<appVars, stored, hubConn, down, credit>>

Next ==
    \/ \E o \in Owners : AppAttaches(o) \/ HubStores(o) \/ HubLoses(o) \/ HubSendFails(o)
    \/ AppDetaches \/ AppReads \/ AppRunFinishes
    \/ \E p \in Pauses : AppPauses(p) \/ AppVerdict(p) \/ AppLetsGo(p)
    \/ \E r \in Requests, p \in Pauses, o \in Owners, a \in Actions, delivered \in BOOLEAN :
          HubForwards(r, p, o, a, delivered)
    \/ HubTimers

Spec == Init /\ [][Next]_vars

-----------------------------------------------------------------------------
(* Properties.                                                             *)

\* Type invariant: the registry's, the application's gates, and the two
\* channels of each connection (how far the hub read, which resumes are on
\* their way down).
RaceTypeOK ==
    /\ TypeOK
    /\ echoes \in BOOLEAN
    /\ gate \in [Pauses -> Gates]
    /\ up \in Seq(Events) /\ stored \in 0..Len(up)
    /\ appConn \in Owners \cup {None}
    /\ hubConn \in [Owners -> {"new", "live", "dead"}]
    /\ sent \in [Owners -> 0..Len(up)]
    /\ down \in [Owners -> Seq(Requests)]
    /\ credit \in [Pauses -> Requests \cup {None}]

ReleasedBy(p, r) == gate[p].st = "released" /\ gate[p].by = r
Emitted(type, p) == {i \in DOMAIN up : up[i].type = type /\ up[i].pause = p}

\* "Each request is answered by what actually happens to it": whoever is told
\* resumed released the call, with the action asked for; whoever is told
\* refused, superseded or not delivered did not, and somebody else (or the
\* app) did in the case of superseded.
AnswerIsTrue ==
    echoes => \A r \in Requests :
        LET p == req[r].pause IN
        /\ req[r].outcome = "resumed" => ReleasedBy(p, r) /\ gate[p].action = req[r].action
        /\ req[r].outcome = "refused" =>
              ~ReleasedBy(p, r) /\ \E i \in Emitted("refused", p) : i <= stored /\ up[i].req = r
        /\ req[r].outcome = "superseded" => gate[p].st = "released" /\ gate[p].by # r
        /\ req[r].outcome = "send-failed" => ~ReleasedBy(p, r)

\* The principal stamped on a stored exec.resumed is the one whose resume the
\* app applied, and nobody when the app let go by itself: across timeouts,
\* lost slots, disconnects and replays.  For a client that echoes nothing the
\* guess names a resume of that pause that asked for what the app did.
CreditIsTrue ==
    \A p \in Pauses :
        (\E i \in Emitted("resumed", p) : i <= stored) =>
            IF echoes THEN credit[p] = gate[p].by
            ELSE credit[p] # None =>
                    /\ req[credit[p]].pause = p
                    /\ req[credit[p]].action = gate[p].action

Attached == appConn # None /\ hubConn[appConn] = "live"
RunFinishStored == \E i \in 1..stored : up[i].type = "finished"

\* The list of held calls has no phantoms: a listed pause is held, or the
\* answer that will close it is already on its way.  And an attached app's held
\* call is never answered "no longer held": the hub forgets a pause only for a
\* reason that released it.  (One reason does not: see HeldIsResumable.)
ListIsTrue ==
    \A p \in Pauses :
        /\ Tracked(p) => IsOpen(p) \/ \E i \in Emitted("resumed", p) : i > stored
        /\ IsOpen(p) /\ Attached /\ ~RunFinishStored => p \notin closed

\* The second half without the exception.  closeRun: "`run.finished` was stored:
\* nothing in that run can still be held."
HeldIsResumable == \A p \in Pauses : IsOpen(p) /\ Attached => p \notin closed
=============================================================================
