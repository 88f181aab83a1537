---------------------------- MODULE SessionGates ----------------------------
(***************************************************************************)
(* The held gates of one client session: packages/client gate-engine.ts    *)
(* (registration, resume, edit validation, pause timeout, release) and the *)
(* part of session.ts that drives it (gate(), handleControl, handleResume, *)
(* validateEdit / applyVerdict, attach, detach, dispose).                  *)
(*                                                                         *)
(* JavaScript runs one handler to its end before the next, so a handler is *)
(* one action.  What happens inside a handler and still matters is a       *)
(* socket that throws on send(): transport.send then closes the            *)
(* connection synchronously and every held gate is released before the     *)
(* handler goes on.  Every action that emits takes that outcome as its     *)
(* parameter "dies".                                                       *)
(***************************************************************************)
EXTENDS Naturals, FiniteSets, Sequences

CONSTANTS
    Pauses,           \* pause ids newPauseId() may mint (bounds the gates)
    Requests,         \* exec.resume frames a debugger may send, by requestId
    Points,           \* the pause points in use
    Actions,          \* the resume actions in use
    None,             \* no ticket, no request
    PauseTimeout,     \* options.pauseTimeoutMs is set
    LoopPause,        \* loopGuard.mode = 'pause' (the default)
    EditInputEnabled, \* GRAPHMIND_DISABLE_EDIT_INPUT is off
    MaxEpoch          \* bound: attachments per behaviour

ASSUME GatesAssumption ==
    /\ Points \subseteq {"before", "after", "error"} /\ Points # {}
    /\ Actions \subseteq {"continue", "retry", "abort", "inject"} /\ "continue" \in Actions
    /\ None \notin Requests \cup Pauses
    /\ {PauseTimeout, LoopPause, EditInputEnabled} \subseteq BOOLEAN
    /\ MaxEpoch \in Nat

VARIABLES
    link,        \* the transport as the session sees it
    epoch,       \* attachments so far
    hubEdit,     \* hubCapabilities has 'edit-input'
    implicitRun, \* the implicit run exists
    gate,        \* GateEngine.held, and what became of released gates
    req,         \* each resume request and the validation it started
    log          \* the exec.* events emitted for each pause, in seq order

vars == <<link, epoch, hubEdit, implicitRun, gate, req, log>>

Gates == [st : {"none", "held", "validating", "released"}, point : Points,
          editable : BOOLEAN, limited : BOOLEAN, overdue : BOOLEAN,
          dark : BOOLEAN, ticket : Requests \cup {None},
          action : Actions, edited : BOOLEAN]
Reqs == [st : {"unused", "running", "done"}, pause : Pauses \cup {None}, action : Actions,
         edit : BOOLEAN, late : BOOLEAN, epoch : 0..MaxEpoch]
Events == [type : {"paused", "resumed", "refused"}, action : Actions,
           req : Requests \cup {None}, edited : BOOLEAN]

Paused == [type |-> "paused", action |-> "continue", req |-> None, edited |-> FALSE]
Resumed(a, r, e) == [type |-> "resumed", action |-> a, req |-> r, edited |-> e]
Refused(r) == [type |-> "refused", action |-> "continue", req |-> r, edited |-> FALSE]

NoGate == [st |-> "none", point |-> CHOOSE pt \in Points : TRUE,
           editable |-> FALSE, limited |-> FALSE, overdue |-> FALSE,
           dark |-> FALSE, ticket |-> None, action |-> "continue", edited |-> FALSE]
NoReq == [st |-> "unused", pause |-> None, action |-> "continue",
          edit |-> FALSE, late |-> FALSE, epoch |-> 0]

Init ==
    /\ link = "idle" /\ epoch = 0
    /\ hubEdit = FALSE
    /\ implicitRun = FALSE
    /\ gate = [p \in Pauses |-> NoGate]
    /\ req = [r \in Requests |-> NoReq]
    /\ log = [p \in Pauses |-> << >>]

-----------------------------------------------------------------------------
(* The engine's bookkeeping.                                               *)

IsOpen(g) == g.st \in {"held", "validating"}

\* settle() deletes the gate; what stays is the decision its caller gets.
Released(a, e) ==
    [NoGate EXCEPT !.st = "released", !.action = a, !.edited = e]

Reopened(g) == [g EXCEPT !.st = "held", !.ticket = None]

\* releaseAll() takes every gate of the map, whatever its state.
Sweepable_HeldOnly(g) == {p \in Pauses : g[p].st = "held"}
Sweepable(g) == {p \in Pauses : IsOpen(g[p])}

\* The requestId a fail-open release carries: settle() is given no info.
SweepEcho_Ticket(g) == g.ticket
SweepEcho(g) == None

\* The handler made the gates g and the logs l; the gates of S are then
\* released with 'continue'.
Commit(g, l, S) ==
    /\ gate' = [p \in Pauses |-> IF p \in S THEN Released("continue", FALSE) ELSE g[p]]
    /\ log' = [p \in Pauses |->
                  IF p \in S THEN Append(l[p], Resumed("continue", SweepEcho(g[p]), FALSE)) ELSE l[p]]

\* A handler whose last send may kill the socket (handleClose: idle, then
\* handleDetached forgets the debugger's state and releases what is held).
Finish(g, l, dies) ==
    /\ dies => link = "attached"
    /\ Commit(g, l, IF dies THEN Sweepable(g) ELSE {})
    /\ IF dies THEN link' = "idle" /\ hubEdit' = FALSE
               ELSE UNCHANGED <<link, hubEdit>>

\* settle(p): p leaves the map before exec.resumed is sent, so a socket that
\* dies on that send releases the others only.
Settle(p, a, r, e, dies) ==
    Finish([gate EXCEPT ![p] = Released(a, e)],
           [log EXCEPT ![p] = Append(@, Resumed(a, r, e))], dies)

\* emitRefused: p becomes g and stays held.
Refuse(p, g, r, dies) ==
    Finish([gate EXCEPT ![p] = g], [log EXCEPT ![p] = Append(@, Refused(r))], dies)

-----------------------------------------------------------------------------
(* The connection.                                                         *)

\* handleAttached: hello.ack arms the engine with the debugger's state.
Attach(edit) ==
    /\ link = "idle" /\ epoch < MaxEpoch
    /\ link' = "attached" /\ epoch' = epoch + 1
    /\ hubEdit' = edit
    /\ UNCHANGED <<implicitRun, gate, req, log>>

\* The socket closed, errored or was abandoned.
Detach ==
    /\ Finish(gate, log, TRUE)
    /\ UNCHANGED <<epoch, implicitRun, req>>

\* dispose(): whatever its sends do, the transport ends disposed.
Dispose ==
    /\ link # "disposed"
    /\ link' = "disposed"
    /\ hubEdit' \in {hubEdit, FALSE}
    /\ Commit(gate, log, Sweepable(gate))
    /\ UNCHANGED <<epoch, implicitRun, req>>

-----------------------------------------------------------------------------
(* gate(): one synchronous call from the check to engine.hold().           *)

HeldAt(g, pt, editable, limited, dark) ==
    [g EXCEPT !.st = "held", !.point = pt, !.editable = editable, !.limited = limited,
              !.dark = dark]

\* The call holds and exec.paused is sent; if that send kills the socket the
\* gate is already in the map and is released with the others.
GateHolds(p, pt, editable, limited, outside, dies) ==
    /\ link = "attached" /\ gate[p].st = "none"
    /\ editable => hubEdit /\ EditInputEnabled
    /\ Finish([gate EXCEPT ![p] = HeldAt(@, pt, editable, limited, FALSE)],
              [log EXCEPT ![p] = <<Paused>>], dies)
    /\ implicitRun' = (implicitRun \/ outside)
    /\ UNCHANGED <<epoch, req>>

\* resolveRunId() outside any run: the first event or gate starts the implicit
\* run, and that send may kill the socket.
ImplicitRunStarts(dies) ==
    /\ link # "disposed" /\ ~implicitRun
    /\ implicitRun' = TRUE
    /\ Finish(gate, log, dies)
    /\ UNCHANGED <<epoch, req>>

\* The same inside gate().  The loop guard's consult at 'before' resolves the
\* run first and looks at the connection again afterwards; so do detectors
\* that find nothing.  On the other paths the check is already behind, and the
\* gate is held with no debugger attached (not editable: the capabilities are
\* gone).
RunIdFirst(pt) == LoopPause /\ pt = "before"

GateLosesSocket(p, pt, limited) ==
    /\ link = "attached" /\ gate[p].st = "none"
    /\ ~implicitRun /\ implicitRun' = TRUE
    /\ ~RunIdFirst(pt)
    /\ Commit([gate EXCEPT ![p] = HeldAt(@, pt, FALSE, limited, TRUE)],
              [log EXCEPT ![p] = <<Paused>>], Sweepable(gate))
    /\ link' = "idle" /\ hubEdit' = FALSE
    /\ UNCHANGED <<epoch, req>>

-----------------------------------------------------------------------------
(* handleResume and the validation of an edited input.                     *)

\* editRefusal, condition 4.
EditFits(a, pt) == (a = "continue" /\ pt = "before") \/ (a = "retry" /\ pt # "before")

\* What handleResume refuses without asking a validator; "bad" is a proposed
\* value that holds a placeholder, a truncation marker or a prototype key.
Refusable(g, a, edit, bad) ==
    \/ g.limited /\ a \in {"retry", "inject"}
    \/ ~edit /\ a = "inject" /\ bad
    \/ edit /\ (~EditInputEnabled \/ ~hubEdit \/ ~g.editable \/ ~EditFits(a, g.point) \/ bad)

\* peek(): only a gate that is held; one that is validating ignores resumes.
Resumable(g) == g.st = "held"

Asked(r, p, a, edit, st) ==
    req' = [req EXCEPT ![r] = [st |-> st, pause |-> p, action |-> a, edit |-> edit,
                               late |-> FALSE, epoch |-> epoch]]

ResumeIgnored(r, p) ==
    /\ link = "attached" /\ req[r].st = "unused"
    /\ ~Resumable(gate[p])
    /\ req' = [req EXCEPT ![r].st = "done"]
    /\ UNCHANGED <<link, epoch, hubEdit, implicitRun, gate, log>>

ResumeRefused(r, p, a, edit, bad, dies) ==
    /\ link = "attached" /\ req[r].st = "unused"
    /\ Resumable(gate[p]) /\ Refusable(gate[p], a, edit, bad)
    /\ Asked(r, p, a, edit, "done")
    /\ Refuse(p, gate[p], r, dies)
    /\ UNCHANGED <<epoch, implicitRun>>

ResumeReleases(r, p, a, bad, dies) ==
    /\ link = "attached" /\ req[r].st = "unused"
    /\ Resumable(gate[p]) /\ ~Refusable(gate[p], a, FALSE, bad)
    /\ Asked(r, p, a, FALSE, "done")
    /\ Settle(p, a, r, FALSE, dies)
    /\ UNCHANGED <<epoch, implicitRun>>

\* beginValidation: the request's own validation is the ticket.
ResumeValidates(r, p, a) ==
    /\ link = "attached" /\ req[r].st = "unused"
    /\ Resumable(gate[p]) /\ ~Refusable(gate[p], a, TRUE, FALSE)
    /\ Asked(r, p, a, TRUE, "running")
    /\ gate' = [gate EXCEPT ![p].st = "validating", ![p].ticket = r]
    /\ UNCHANGED <<link, epoch, hubEdit, implicitRun, log>>

\* A ticket names one validation of one gate; a released gate has none.
TicketCurrent(r) == gate[req[r].pause].ticket = r

\* outlived(): a verdict past VALIDATION_TIMEOUT_MS counts as a refusal.
Accepted_HoweverLate(r, ok) == ok
Accepted(r, ok) == ok /\ ~req[r].late

\* finish() -> applyVerdict, for the validator's answer and for its timer;
\* 'settled' lets one of them through.  reopen and completeValidation look at
\* the ticket, then at the pause deadline.
Verdict(r, ok, dies) ==
    LET p == req[r].pause IN
    /\ req[r].st = "running"
    /\ req' = [req EXCEPT ![r].st = "done", ![r].late = FALSE]
    /\ IF ~TicketCurrent(r)
       THEN ~dies /\ UNCHANGED <<link, hubEdit, gate, log>>
       ELSE IF gate[p].overdue THEN Settle(p, "continue", None, FALSE, dies)
       ELSE IF Accepted(r, ok) THEN Settle(p, req[r].action, r, TRUE, dies)
       ELSE Refuse(p, Reopened(gate[p]), r, dies)
    /\ UNCHANGED <<epoch, implicitRun>>

ValidatorSettles(r, ok, dies) == Verdict(r, ok, dies)

\* The timer is set for every validator that returns a promise.
TimerDue(r) == req[r].late
ValidationTimer(r, dies) == TimerDue(r) /\ Verdict(r, FALSE, dies)

-----------------------------------------------------------------------------
(* Clocks, timers and the host's signal.                                   *)

ValidationRunsLate(r) ==
    /\ req[r].st = "running" /\ ~req[r].late
    /\ req' = [req EXCEPT ![r].late = TRUE]
    /\ UNCHANGED <<link, epoch, hubEdit, implicitRun, gate, log>>

\* The timer is set once, at hold(), and survives refused edits.
TimerArmed_UntilRefused(p) ==
    PauseTimeout /\ \A i \in DOMAIN log[p] : log[p][i].type # "refused"
TimerArmed(p) == PauseTimeout

\* The deadline passes; a busy event loop may let the timer fire much later.
PauseDeadline(p) ==
    /\ TimerArmed(p) /\ IsOpen(gate[p]) /\ ~gate[p].overdue
    /\ gate' = [gate EXCEPT ![p].overdue = TRUE]
    /\ UNCHANGED <<link, epoch, hubEdit, implicitRun, req, log>>

PauseTimer(p, dies) ==
    /\ IsOpen(gate[p]) /\ gate[p].overdue
    /\ Settle(p, "continue", None, FALSE, dies)
    /\ UNCHANGED <<epoch, implicitRun, req>>

\* listenForRelease: the signal the adapter passed aborts, its caller no
\* longer waits.
SignalAborts(p, dies) ==
    /\ IsOpen(gate[p])
    /\ Settle(p, "continue", None, FALSE, dies)
    /\ UNCHANGED <<epoch, implicitRun, req>>

-----------------------------------------------------------------------------
Connection ==
    \/ \E edit \in BOOLEAN : Attach(edit)
    \/ Detach
    \/ Dispose

Calls ==
    \/ \E dies \in BOOLEAN : ImplicitRunStarts(dies)
    \/ \E p \in Pauses, pt \in Points, limited \in BOOLEAN :
          \/ \E editable, outside, dies \in BOOLEAN :
                GateHolds(p, pt, editable, limited, outside, dies)
          \/ GateLosesSocket(p, pt, limited)

Resumes ==
    \E r \in Requests, p \in Pauses, a \in Actions :
        \/ ResumeIgnored(r, p)
        \/ \E edit, bad, dies \in BOOLEAN : ResumeRefused(r, p, a, edit, bad, dies)
        \/ \E bad, dies \in BOOLEAN : ResumeReleases(r, p, a, bad, dies)
        \/ ResumeValidates(r, p, a)

Timers ==
    \/ \E r \in Requests, dies \in BOOLEAN : ValidationTimer(r, dies)
    \/ \E r \in Requests : ValidationRunsLate(r)
    \/ \E p \in Pauses : PauseDeadline(p)
    \/ \E p \in Pauses, dies \in BOOLEAN : PauseTimer(p, dies)

Next ==
    \/ Connection
    \/ Calls
    \/ Resumes
    \/ Timers
    \/ \E r \in Requests, ok, dies \in BOOLEAN : ValidatorSettles(r, ok, dies)
    \/ \E p \in Pauses, dies \in BOOLEAN : SignalAborts(p, dies)

Spec == Init /\ [][Next]_vars

\* Node's timers fire: nothing else is promised to happen.
FairSpec ==
    /\ Spec
    /\ \A r \in Requests :
          /\ WF_vars(ValidationRunsLate(r))
          /\ WF_vars(\E dies \in BOOLEAN : ValidationTimer(r, dies))
    /\ \A p \in Pauses :
          /\ WF_vars(PauseDeadline(p))
          /\ WF_vars(\E dies \in BOOLEAN : PauseTimer(p, dies))

-----------------------------------------------------------------------------
(* Properties.                                                             *)

\* Types; and a gate carries a ticket exactly while it validates an edit
\* (HeldGate.ticket: "undefined while held").
TypeOK ==
    /\ link \in {"idle", "attached", "disposed"}
    /\ epoch \in 0..MaxEpoch
    /\ hubEdit \in BOOLEAN /\ implicitRun \in BOOLEAN
    /\ gate \in [Pauses -> Gates]
    /\ req \in [Requests -> Reqs]
    /\ log \in [Pauses -> Seq(Events)]
    /\ \A r \in Requests : req[r].st = "running" => req[r].pause \in Pauses
    /\ \A p \in Pauses : (gate[p].st = "validating") <=> (gate[p].ticket # None)

\* The validation a gate waits for is still running, was asked for this very
\* gate, and began under the present attachment: a detach takes every ticket
\* away, so no verdict can reach a gate across a reconnect.
TicketsAreLive ==
    \A p \in Pauses :
        LET r == gate[p].ticket IN
        r # None => /\ link = "attached"
                    /\ req[r].st = "running" /\ req[r].pause = p
                    /\ req[r].epoch = epoch

\* "FAIL-OPEN: no debugger, no holds" (handleDetached, releaseAll, dispose):
\* a gate is held, or validates an edit, only while the debugger is attached.
\* The one exception the code has is a gate whose own first event lost the
\* socket on its way to hold() (see GateLosesSocket), and not once disposed.
FailOpenHolds ==
    \A p \in Pauses : IsOpen(gate[p]) => \/ link = "attached"
                                         \/ link = "idle" /\ gate[p].dark

\* An event that echoes a requestId is the answer to that request: at most
\* one event echoes it, on the gate it asked for, and a release that echoes it
\* did what was asked, edit included (ResumeInfo; the debugger credits the
\* asker by this echo).
EchoTruthful ==
    \A p \in Pauses : \A i \in 1..Len(log[p]) :
        LET r == log[p][i].req IN
        r # None =>
            /\ req[r].st = "done" /\ req[r].pause = p
            /\ \A j \in 1..Len(log[p]) : log[p][j].req = r => j = i
            /\ log[p][i].type = "resumed" => /\ log[p][i].action = req[r].action
                                            /\ log[p][i].edited = req[r].edit

\* A call runs with an edited input only when the verdict on that very edit
\* arrived in time: the gate has been validating it ever since, under one
\* attachment, and neither the pause deadline nor the validation limit had
\* passed (completeValidation's ticket and overdue checks, outlived()).
EditIsCurrent ==
    [][\A p \in Pauses :
          (gate[p].st # "released" /\ gate'[p].edited) =>
              /\ gate[p].st = "validating" /\ ~gate[p].overdue
              /\ link = "attached"
              /\ LET r == gate[p].ticket IN
                    /\ req[r].st = "running" /\ ~req[r].late
                    /\ req[r].epoch = epoch]_vars

\* Every call is kept the contract of session.gate(): one decision, the one
\* that is on record, none kept waiting without a debugger, none for ever (with
\* a pause timeout set).
Call(g) ==
    CASE g.st = "none" -> [st |-> "idle", action |-> "continue", edited |-> FALSE]
      [] g.st = "released" -> [st |-> "released", action |-> g.action, edited |-> g.edited]
      [] OTHER -> [st |-> "held", action |-> "continue", edited |-> FALSE]
Contract ==
    INSTANCE GateContract WITH
        Calls <- Pauses, attached <- link = "attached",
        call <- [p \in Pauses |-> Call(gate[p])], record <- log
KeepsContract == Contract!Spec
=============================================================================
