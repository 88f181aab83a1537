------------------------------ MODULE EventBuffer ------------------------------
(***************************************************************************)
(* Which events of a client session reach the debugger: emitInternal, the  *)
(* replay ring buffer (ring-buffer.ts), the gap records and their markers, *)
(* replay on attach, and the sends that kill the socket half way           *)
(* (session.ts, transport.ts send / handleClose).                          *)
(*                                                                         *)
(* The session is one record because its handlers nest: a send that throws *)
(* closes the connection, which releases the held gates, which emits       *)
(* exec.resumed into the buffer, all before the first send returns.  Each  *)
(* step of a handler is an operator from a session to a session, and an    *)
(* action applies the steps in the handler's order.                        *)
(*                                                                         *)
(* A frame handed to the socket is in flight until the hub reads it; a     *)
(* connection that goes away may lose any suffix of what is in flight.     *)
(***************************************************************************)
EXTENDS Naturals, Sequences, SequencesExt, FiniteSets

CONSTANTS
    Runs,              \* run ids
    ImplicitRun,       \* the run of the events emitted outside any run
    NoEmit,            \* no re-entrant emit
    Capacity,          \* bufferSize
    MaxBytes,          \* maxBufferBytes
    Small,             \* the size of an exec.* event
    Sizes,             \* the sizes of the other events
    MaxTrackedGapRuns, \* MAX_TRACKED_GAP_RUNS
    MaxSeq,            \* bound: seqs an emit or a handshake may take
    MaxHeld            \* bound: gates held at once

ASSUME BufferAssumption ==
    /\ ImplicitRun \in Runs /\ NoEmit \notin Runs
    /\ Capacity \in Nat \ {0} /\ MaxBytes \in Nat \ {0}
    /\ Sizes \subseteq Nat \ {0} /\ Small \in 1..MaxBytes
    /\ {MaxTrackedGapRuns, MaxSeq, MaxHeld} \subseteq Nat

VARIABLES
    session, \* the Session: connection, buffer, gap records, held gates
    received \* the frames the hub has read

bufferVars == <<session, received>>

Item(run, seq, size) == [run |-> run, seq |-> seq, size |-> size, sent |-> FALSE]
Key(e) == [run |-> e.run, seq |-> e.seq]
Keys(es) == {Key(es[i]) : i \in DOMAIN es}

BufferInit ==
    /\ session = [link |-> "idle", seq |-> 0,
                  buffer |-> << >>,       \* RingBuffer, oldest first
                  gaps |-> << >>,         \* pendingGaps, in insertion order
                  unattributed |-> 0,     \* unattributedLost
                  lost |-> {},            \* lostTotal, as the events it counts
                  held |-> << >>,         \* the runs of the held gates
                  wire |-> << >>,         \* in flight on this connection
                  stale |-> << >>,        \* in flight on the one before
                  emitted |-> {},         \* history: the events given a frame
                  told |-> 0,             \* history: losses in markers handed over
                  dark |-> FALSE]         \* history: a gate was held while detached
    /\ received = {}

-----------------------------------------------------------------------------
(* The ring buffer and the gap records.                                    *)

Bytes(buffer) == FoldLeft(LAMBDA n, e : n + e.size, 0, buffer)

Overfull(buffer) ==
    \/ Len(buffer) > Capacity
    \/ Bytes(buffer) > MaxBytes /\ Len(buffer) > 1

\* How many of the oldest items the bounds push out.
Shed(buffer) ==
    CHOOSE k \in 0..Len(buffer) :
        /\ ~Overfull(SubSeq(buffer, k + 1, Len(buffer)))
        /\ \A j \in 0..(k - 1) : Overfull(SubSeq(buffer, j + 1, Len(buffer)))

GapOf(gaps, run) == {i \in DOMAIN gaps : gaps[i].run = run}

Lower(a, b) == IF a < b THEN a ELSE b
Upper(a, b) == IF a < b THEN b ELSE a

\* An eviction older than the gap's first seq comes after an oversized event.
Widened_LastSeqOnly(g, e) == [g EXCEPT !.count = @ + 1, !.to = Upper(@, e.seq)]
Widened(g, e) ==
    [g EXCEPT !.count = @ + 1, !.from = Lower(@, e.seq), !.to = Upper(@, e.seq)]

\* recordEviction: what was sent is forgotten, the rest is lost.
Lost(e) == ~e.sent

RecordEviction(s, e) ==
    LET counted == [s EXCEPT !.lost = @ \cup {Key(e)}] IN
    IF ~Lost(e) THEN s
    ELSE IF GapOf(s.gaps, e.run) # {}
    THEN [counted EXCEPT !.gaps =
             [i \in DOMAIN @ |-> IF @[i].run = e.run THEN Widened(@[i], e) ELSE @[i]]]
    ELSE IF Len(s.gaps) < MaxTrackedGapRuns
    THEN [counted EXCEPT !.gaps =
             Append(@, [run |-> e.run, count |-> 1, from |-> e.seq, to |-> e.seq])]
    ELSE [counted EXCEPT !.unattributed = @ + 1]

\* RingBuffer.push of an item that fits.
Pushed(s, e) ==
    LET all == Append(s.buffer, e)
        k   == Shed(all)
    IN FoldLeft(RecordEviction, [s EXCEPT !.buffer = SubSeq(all, k + 1, Len(all))],
                SubSeq(all, 1, k))

Fits(e) == e.size <= MaxBytes

-----------------------------------------------------------------------------
(* Sends, and the emission of one event.                                   *)

\* The transport took the frame: in flight, and sent if it is in the buffer.
Sent(s, e) ==
    [s EXCEPT !.wire = Append(@, [kind |-> "event", run |-> e.run, seq |-> e.seq]),
              !.buffer = [i \in DOMAIN @ |-> IF @[i].seq = e.seq THEN [@[i] EXCEPT !.sent = TRUE]
                                                               ELSE @[i]]]

\* nextSeq(): the item takes the session's seq; it gets a frame unless its
\* payload cannot be serialised.
Taken(s) == [s EXCEPT !.seq = @ + 1]
Framed(s, e) == [s EXCEPT !.emitted = @ \cup {Key(e)}]

\* emitInternal while no debugger is attached.
Shelved(s, e) == IF Fits(e) THEN Pushed(Framed(s, e), e) ELSE RecordEviction(Framed(s, e), e)

EmittedDark(s, run) == Shelved(Taken(s), Item(run, s.seq, Small))

\* handleClose on an attached socket: detached, every gate released, each
\* release an exec.resumed.
Killed(s) ==
    FoldLeft(EmittedDark,
             [s EXCEPT !.link = "idle", !.stale = s.wire, !.wire = << >>, !.held = << >>],
             s.held)

\* emitInternal from the push on; handleUnbuffered for what does not fit.
Delivered(s, e, dies) ==
    IF s.link # "attached" THEN Shelved(s, e)
    ELSE IF Fits(e)
    THEN LET p == Pushed(Framed(s, e), e) IN IF dies THEN Killed(p) ELSE Sent(p, e)
    ELSE IF dies THEN RecordEviction(Killed(Framed(s, e)), e) ELSE Sent(Framed(s, e), e)

Emitted(s, run, size, dies) == Delivered(Taken(s), Item(run, s.seq, size), dies)

\* An event that could not be serialised gives its seq back.
GivenBack_Always(s, seq) == [s EXCEPT !.seq = seq]
GivenBack(s, seq) == IF s.seq = seq + 1 THEN [s EXCEPT !.seq = seq] ELSE s

-----------------------------------------------------------------------------
(* The host.                                                               *)

Attached == session.link = "attached"
MayEmit(n) == session.seq + n <= MaxSeq
MayDie(dies) == dies => Attached

\* emit(): serialising the payload may run host code (toJSON, the logger)
\* that emits an event of its own, here of run 'inner', and may fail.
Emit(run, size, inner, innerDies, fails, dies) ==
    LET first == IF inner = NoEmit THEN Taken(session)
                 ELSE Emitted(Taken(session), inner, Small, innerDies)
    IN
    /\ MayEmit(2)
    /\ MayDie(innerDies) /\ (innerDies => inner # NoEmit)
    /\ dies => first.link = "attached" /\ ~fails
    /\ session' = IF fails THEN GivenBack(first, session.seq)
                  ELSE Delivered(first, Item(run, session.seq, size), dies)
    /\ UNCHANGED received

\* engine.hold: the gate is in the map before exec.paused is sent.
Hold(run, dies) ==
    /\ Attached /\ MayEmit(1) /\ Len(session.held) < MaxHeld
    /\ session' = Emitted([session EXCEPT !.held = Append(@, run)], run, Small, dies)
    /\ UNCHANGED received

\* gate() outside a run after the connection check: the implicit run's first
\* event kills the socket and the gate is held all the same.
HoldLosesSocket ==
    /\ \A k \in session.emitted : k.run # ImplicitRun
    /\ Attached /\ MayEmit(2) /\ Len(session.held) < MaxHeld
    /\ LET dark == Emitted([session EXCEPT !.dark = TRUE], ImplicitRun, Small, TRUE)
       IN session' = EmittedDark([dark EXCEPT !.held = Append(@, ImplicitRun)], ImplicitRun)
    /\ UNCHANGED received

\* A resume, a timeout or a signal: settle() deletes the gate, then emits.
Release(i, dies) ==
    /\ MayDie(dies) /\ MayEmit(1)
    /\ session' = Emitted([session EXCEPT !.held = RemoveAt(@, i)], session.held[i], Small, dies)
    /\ UNCHANGED received

-----------------------------------------------------------------------------
(* The connection.                                                         *)

\* The socket opened: buildHello takes a seq.
Hello ==
    /\ session.link = "idle" /\ MayEmit(1)
    /\ session' = [Taken(session) EXCEPT !.link = "connecting"]
    /\ UNCHANGED received

\* Refused, timed out, or closed before hello.ack: nothing was attached.
HandshakeFails ==
    /\ session.link = "connecting"
    /\ session' = [session EXCEPT !.link = "idle"]
    /\ UNCHANGED received

\* Map.set: a record of the same run is replaced where it stands.
PutGap(gaps, g) ==
    IF GapOf(gaps, g.run) = {} THEN Append(gaps, g)
    ELSE [i \in DOMAIN gaps |-> IF gaps[i].run = g.run THEN g ELSE gaps[i]]

\* The records of the markers from the k-th on go back on the pile.
Restored_AllButFailed(s, gaps, k) ==
    [s EXCEPT !.gaps = FoldLeft(PutGap, @, SubSeq(gaps, k + 1, Len(gaps)))]
Restored(s, gaps, k) ==
    [s EXCEPT !.gaps = FoldLeft(PutGap, @, SubSeq(gaps, k, Len(gaps)))]

MarkerSent(s, g) ==
    [Taken(s) EXCEPT !.told = @ + g.count,
                     !.wire = Append(@, [kind |-> "gap", run |-> g.run, seq |-> s.seq])]

\* flushGapMarkers, with 'n' sends before the socket dies.
Flushed(s, n) ==
    LET gaps    == s.gaps
        cleared == [s EXCEPT !.gaps = << >>]
    IN IF n >= Len(gaps) THEN FoldLeft(MarkerSent, cleared, gaps)
       ELSE Restored(Killed(Taken(FoldLeft(MarkerSent, cleared, SubSeq(gaps, 1, n)))), gaps, n + 1)

\* Replay on attach: the whole buffer, oldest first, whatever was sent before.
Replayable_Unsent(buffer) == SelectSeq(buffer, LAMBDA e : ~e.sent)
Replayable(buffer) == buffer

Replayed(s, n) ==
    LET items == Replayable(s.buffer)
    IN IF n >= Len(items) THEN FoldLeft(Sent, s, items)
       ELSE Killed(FoldLeft(Sent, s, SubSeq(items, 1, n)))

\* handleAttached: hello.ack came; the socket takes n frames, then throws (or
\* takes them all).
Attach(n) ==
    LET markers == Len(session.gaps)
        flushed == Flushed([session EXCEPT !.link = "attached"], n)
    IN
    /\ session.link = "connecting"
    /\ n <= markers + Len(session.buffer)
    /\ session' = IF flushed.link = "attached" THEN Replayed(flushed, n - markers) ELSE flushed
    /\ UNCHANGED received

\* The socket closed or errored.
Detach ==
    /\ Attached
    /\ session' = Killed(session)
    /\ UNCHANGED received

HubReads ==
    /\ session.wire # << >>
    /\ received' = received \cup {Head(session.wire)}
    /\ session' = [session EXCEPT !.wire = Tail(@)]

HubReadsStale ==
    /\ session.stale # << >>
    /\ received' = received \cup {Head(session.stale)}
    /\ session' = [session EXCEPT !.stale = Tail(@)]

StaleGone ==
    /\ session.stale # << >>
    /\ session' = [session EXCEPT !.stale = << >>]
    /\ UNCHANGED received

-----------------------------------------------------------------------------
Host ==
    \/ \E run \in Runs, size \in Sizes, inner \in Runs \cup {NoEmit} :
          \E innerDies, fails, dies \in BOOLEAN : Emit(run, size, inner, innerDies, fails, dies)
    \/ \E run \in Runs, dies \in BOOLEAN : Hold(run, dies)
    \/ HoldLosesSocket
    \/ \E i \in DOMAIN session.held, dies \in BOOLEAN : Release(i, dies)

Connection ==
    \/ Hello
    \/ HandshakeFails
    \/ \E n \in 0..(Len(session.gaps) + Len(session.buffer)) : Attach(n)
    \/ Detach
    \/ HubReads
    \/ HubReadsStale
    \/ StaleGone

BufferNext == Host \/ Connection

BufferSpec == BufferInit /\ [][BufferNext]_bufferVars

-----------------------------------------------------------------------------
(* Type invariant: the session's records, and the bounds the ring buffer    *)
(* keeps after every push (RingBuffer.push, recordEviction).               *)
BufferTypeOK ==
    /\ session.link \in {"idle", "connecting", "attached"}
    /\ session.seq \in Nat
    /\ \A i \in DOMAIN session.buffer :
          /\ session.buffer[i].run \in Runs /\ session.buffer[i].seq < session.seq
          /\ session.buffer[i].size \in Sizes \cup {Small} /\ Fits(session.buffer[i])
          /\ session.buffer[i].sent \in BOOLEAN
    /\ Len(session.buffer) <= Capacity
    /\ Bytes(session.buffer) <= MaxBytes
    /\ ~session.dark => Len(session.gaps) <= MaxTrackedGapRuns
    /\ session.lost \subseteq session.emitted
    /\ session.wire # << >> => Attached

InFlight == {session.wire[i] : i \in DOMAIN session.wire}
                \cup {session.stale[i] : i \in DOMAIN session.stale}
Reached == {Key(f) : f \in {f \in received \cup InFlight : f.kind = "event"}}

\* Seqs are the replay's identity: the hub ignores a (runId, seq) it has
\* stored, so no two events of the buffer share one, whatever a payload that
\* fails to serialise emitted meanwhile (emitInternal's give-back).
SeqsUnique ==
    \A i, j \in DOMAIN session.buffer : session.buffer[i].seq = session.buffer[j].seq => i = j

\* After an attach that the socket survived, every event still buffered is
\* with the hub or on its way there on the living connection: replay resends
\* what an earlier connection took and may have lost (handleAttached).
ReplayComplete ==
    Attached =>
        Keys(session.buffer) \subseteq
            {Key(f) : f \in received \cup {session.wire[i] : i \in DOMAIN session.wire}}

PendingCount == FoldLeft(LAMBDA n, g : n + g.count, 0, session.gaps)

\* Nothing is reported lost that the hub has or may still get (recordEviction
\* counts only what no socket ever took), and every loss is counted in a marker
\* a socket took, in a record that waits for the next attach, or as
\* unattributed, through replays and flushes that die half way and releases
\* that evict meanwhile (flushGapMarkers).  A gate held while detached is an
\* exception the code has: its release inside a dying flush may open a record
\* that the restore loop then overwrites, one loss short.  A pending record's
\* range holds the events it counts and begins and ends at lost ones, although
\* an oversized event is lost before the older ones still in the buffer.
LossAccounted ==
    /\ session.lost \cap Reached = {}
    /\ ~session.dark =>
          Cardinality(session.lost) = session.told + PendingCount + session.unattributed
    /\ \A i \in DOMAIN session.gaps :
          LET g    == session.gaps[i]
              hole == {k \in session.lost : k.run = g.run /\ g.from <= k.seq /\ k.seq <= g.to}
          IN /\ {g.from, g.to} \subseteq {k.seq : k \in hole}
             /\ g.count <= Cardinality(hole)
===============================================================================
