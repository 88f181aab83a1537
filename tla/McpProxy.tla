------------------------------ MODULE McpProxy ------------------------------
(***************************************************************************)
(* The MCP proxy between a client and the server it spawned: two           *)
(* FrameRelays that share one ProxyReporter.  Each relay hands its frames  *)
(* one at a time to the reporter, which opens and closes the nodes of the  *)
(* graph, may hold a frame at a gate, and lets it pass, drops it, answers  *)
(* in its place or sends it again.                                         *)
(*                                                                         *)
(* A request is its id, which its peer uses once; an answer is the id it   *)
(* answers.  A sink writes in the order of the calls (FrameWriter), one    *)
(* frame after the other has been flushed, and whoever writes waits for    *)
(* that; out is all that was written.  The peers read and act when they    *)
(* like, if at all, and answer what they were asked.                       *)
(***************************************************************************)
EXTENDS Naturals, Sequences, FiniteSets, SequencesExt

CONSTANTS
    ClientRequests, ServerRequests,  \* by the side that makes them
    Notes,       \* the client's notifications
    None,
    MaxPending,  \* MAX_PENDING
    MaxRetries   \* bound: times a request is sent again

Requests == ClientRequests \cup ServerRequests
Messages == Requests \cup Notes
Dirs == {"toServer", "toClient"}
Other(d) == IF d = "toServer" THEN "toClient" ELSE "toServer"
Origin(m) == IF m \in ServerRequests THEN "toClient" ELSE "toServer"

ASSUME ProxyAssumption ==
    /\ ClientRequests \cap ServerRequests = {} /\ Notes \cap Requests = {}
    /\ MaxPending \in Nat \ {0} /\ MaxRetries \in Nat

VARIABLES
    sent,      \* what each peer sent, in order
    owed,      \* the requests a peer has and may answer
    queue,     \* what each relay has not looked at yet
    degraded,  \* the relays that no longer frame what they carry
    held,      \* what each pump waits on, and where
    out,       \* what was written to each sink, in order
    tail,      \* the writes of each sink that are not flushed, and by which pump
    pending,   \* the requests waiting for an answer
    evicted,   \* history: those that made room for others
    node,      \* the node of each message
    retries,   \* how often each request was sent again
    child, session  \* the server process and the run

peers == <<sent, owed, child>>
relays == <<queue, degraded, held, out, tail>>
reporter == <<pending, evicted, node, retries, session>>
vars == <<peers, relays, reporter>>

Frame ==
    [type : {"message"}, id : Messages, by : {"peer"}]
        \cup [type : {"answer"}, id : Requests, by : {"peer", "proxy"}]
Message(m) == [type |-> "message", id |-> m, by |-> "peer"]
Answer(r, by) == [type |-> "answer", id |-> r, by |-> by]

Nothing == [point |-> "none", frame |-> None]

Init ==
    /\ sent = [d \in Dirs |-> << >>] /\ owed = {}
    /\ queue = [d \in Dirs |-> << >>] /\ degraded = {}
    /\ held = [d \in Dirs |-> Nothing]
    /\ out = [d \in Dirs |-> << >>] /\ tail = [d \in Dirs |-> << >>]
    /\ pending = {} /\ evicted = {}
    /\ node = [m \in Messages |-> "none"] /\ retries = [r \in Requests |-> 0]
    /\ child = "up" /\ session = "open"

-----------------------------------------------------------------------------
(* The peers.  A server that exited sends nothing and reads nothing.       *)

Speaks(d) == d = "toClient" => child = "up"
Hears(d) == d = "toServer" => child = "up"

\* onChunk: a frame joins the queue, or bytes that nobody will look into.
Queued(d, f) ==
    queue' = [queue EXCEPT ![d] = Append(@, [frame |-> f, raw |-> d \in degraded])]

PeerSends(m) ==
    LET d == Origin(m) IN
    /\ Speaks(d) /\ m \notin Range(sent[d])
    /\ sent' = [sent EXCEPT ![d] = Append(@, m)]
    /\ Queued(d, Message(m))
    /\ UNCHANGED <<owed, child, degraded, held, out, tail, reporter>>

\* A write that waits for another is still with the proxy.
Unsent(r) == \E i \in 2..Len(tail[Origin(r)]) : tail[Origin(r)][i].frame = Message(r)

PeerAnswers(r) ==
    LET d == Other(Origin(r)) IN
    /\ Speaks(d) /\ r \in owed /\ ~Unsent(r)
    /\ owed' = owed \ {r}
    /\ Queued(d, Answer(r, "peer"))
    /\ UNCHANGED <<sent, child, degraded, held, out, tail, reporter>>

\* A frame past maxFrameBytes: the relay becomes a pipe.
Degrades(d) ==
    /\ d \notin degraded
    /\ degraded' = degraded \cup {d}
    /\ UNCHANGED <<peers, queue, held, out, tail, reporter>>

Exits ==
    /\ child = "up"
    /\ child' = "exited"
    /\ UNCHANGED <<sent, owed, relays, reporter>>

-----------------------------------------------------------------------------
(* What the handlers do.                                                   *)

\* writeFrame, by one of the pumps; a request that is heard may be answered.
Writes(by, d, f) ==
    /\ out' = [out EXCEPT ![d] = Append(@, f)]
    /\ tail' = [tail EXCEPT ![d] = Append(@, [by |-> by, frame |-> f])]
    /\ owed' = IF f.type = "message" /\ f.id \in Requests /\ Hears(d) THEN owed \cup {f.id} ELSE owed

Writing(d) == \E s \in Dirs : \E i \in DOMAIN tail[s] : tail[s][i].by = d

\* The reader at the end of a sink took a frame, or has gone: then a write is
\* over at once.
Flushes_ToTheLiving(d) ==
    /\ tail[d] # << >> /\ Hears(d)
    /\ tail' = [tail EXCEPT ![d] = Tail(@)]
    /\ UNCHANGED <<peers, queue, degraded, held, out, reporter>>
Flushes(d) ==
    /\ tail[d] # << >>
    /\ tail' = [tail EXCEPT ![d] = Tail(@)]
    /\ UNCHANGED <<peers, queue, degraded, held, out, reporter>>

\* remember: past the cap the oldest makes room (here any).
Remember(r) ==
    IF Cardinality(pending) < MaxPending THEN pending' = pending \cup {r} /\ UNCHANGED evicted
    ELSE \E victim \in pending :
            /\ pending' = (pending \ {victim}) \cup {r}
            /\ evicted' = evicted \cup {victim}

Closes(m, status) == node' = [node EXCEPT ![m] = status]
Waits(d, f, point) == held' = [held EXCEPT ![d] = [point |-> point, frame |-> f]]
GoesOn(d) == held' = [held EXCEPT ![d] = Nothing]

-----------------------------------------------------------------------------
(* The pumps: relayOne up to the gate.                                     *)

\* One frame at a time: what is held, or not flushed, stops its direction.
Idle_ButForNotes(d) ==
    held[d] = Nothing \/ (queue[d] # << >> /\ Head(queue[d]).frame.id \in Notes)
Idle_Together(d) == \A e \in Dirs : held[e] = Nothing /\ ~Writing(e)
Idle(d) == held[d] = Nothing /\ ~Writing(d)

\* Raw bytes, answers nobody waits for, and whatever comes after the session.
Passes_EvenOver(item) ==
    item.raw \/ (item.frame.type = "answer" /\ item.frame.id \notin pending)
Passes(item) ==
    \/ session = "over" \/ item.raw
    \/ item.frame.type = "answer" /\ item.frame.id \notin pending

\* onResponse takes the request off the pending ones before its gate.
Taken(r) == pending \ {r}

Pump(d) ==
    LET item == Head(queue[d])
        f == item.frame
    IN  /\ queue[d] # << >> /\ Idle(d)
        /\ queue' = [queue EXCEPT ![d] = Tail(@)]
        /\ \/ /\ Passes(item)
              /\ Writes(d, d, f)
              /\ UNCHANGED <<held, pending, node>>
           \/ /\ ~Passes(item) /\ f.type = "message"
              /\ node' = [node EXCEPT ![f.id] = "open"]
              /\ Waits(d, f, "before")
              /\ UNCHANGED <<owed, out, tail, pending>>
           \/ /\ ~Passes(item) /\ f.type = "answer"
              /\ pending' = Taken(f.id)
              /\ Waits(d, f, "after")
              /\ UNCHANGED <<owed, out, tail, node>>
        /\ UNCHANGED <<sent, child, degraded, evicted, retries, session>>

-----------------------------------------------------------------------------
(* The decisions of the gates.  A gate that does not hold, or is released, *)
(* continues; after the session nothing else is left.                      *)

HeldAt(d, point) == held[d].point = point
InSession == session = "open"

\* A request, or a notification, that may go.
Continues(d) ==
    LET f == held[d].frame IN
    /\ HeldAt(d, "before")
    /\ IF f.id \in Requests THEN Remember(f.id) /\ UNCHANGED node
       ELSE Closes(f.id, "ok") /\ UNCHANGED <<pending, evicted>>
    /\ Writes(d, d, f) /\ GoesOn(d)
    /\ UNCHANGED <<sent, child, queue, degraded, retries, session>>

\* inject or abort: the sender has its answer, and once that is flushed the node
\* closes.
Replies(d) ==
    LET r == held[d].frame.id IN
    /\ InSession /\ HeldAt(d, "before") /\ r \in Requests
    /\ Writes(d, Other(d), Answer(r, "proxy"))
    /\ Waits(d, held[d].frame, "replied")
    /\ UNCHANGED <<sent, child, queue, degraded, reporter>>
Replied(d) ==
    /\ HeldAt(d, "replied") /\ ~Writing(d)
    /\ Closes(held[d].frame.id, "answered") /\ GoesOn(d)
    /\ UNCHANGED <<peers, queue, degraded, out, tail, pending, evicted, retries, session>>

\* abort of a notification.
Drops(d) ==
    LET m == held[d].frame.id IN
    /\ InSession /\ HeldAt(d, "before") /\ m \in Notes
    /\ Closes(m, "aborted") /\ GoesOn(d)
    /\ UNCHANGED <<peers, queue, degraded, out, tail, pending, evicted, retries, session>>

\* An answer that may go, or (inject, abort) is replaced.
Answers(d, by) ==
    LET r == held[d].frame.id IN
    /\ HeldAt(d, "after") /\ (by = "proxy" => InSession)
    /\ Closes(r, "answered") /\ Writes(d, d, Answer(r, by)) /\ GoesOn(d)
    /\ UNCHANGED <<sent, child, queue, degraded, pending, evicted, retries, session>>

\* retry: the answer is dropped, the request goes down its path again.
Retries_Unremembered(d) ==
    LET r == held[d].frame.id IN
    /\ InSession /\ HeldAt(d, "after") /\ retries[r] < MaxRetries
    /\ retries' = [retries EXCEPT ![r] = @ + 1]
    /\ GoesOn(d)
    /\ Writes(d, Other(d), Message(r))
    /\ UNCHANGED <<sent, child, queue, degraded, pending, evicted, node, session>>
Retries_AndAnswers(d) ==
    LET r == held[d].frame.id IN
    /\ InSession /\ HeldAt(d, "after") /\ retries[r] < MaxRetries
    /\ retries' = [retries EXCEPT ![r] = @ + 1]
    /\ Remember(r) /\ GoesOn(d)
    /\ out' = [out EXCEPT ![d] = Append(@, held[d].frame),
                          ![Other(d)] = Append(@, Message(r))]
    /\ tail' = [tail EXCEPT ![d] = Append(@, [by |-> d, frame |-> held[d].frame])]
    /\ owed' = IF Hears(Other(d)) THEN owed \cup {r} ELSE owed
    /\ UNCHANGED <<sent, child, queue, degraded, node, session>>
Retries(d) ==
    LET r == held[d].frame.id IN
    /\ InSession /\ HeldAt(d, "after") /\ retries[r] < MaxRetries
    /\ retries' = [retries EXCEPT ![r] = @ + 1]
    /\ Remember(r) /\ GoesOn(d)
    /\ Writes(d, Other(d), Message(r))
    /\ UNCHANGED <<sent, child, queue, degraded, node, session>>

-----------------------------------------------------------------------------
(* The end.  The child is gone, its last frames were relayed and the       *)
(* client's sink has drained: what is still pending cannot be answered.    *)

SessionFinished ==
    /\ InSession /\ child = "exited"
    /\ queue["toClient"] = << >> /\ Idle("toClient") /\ tail["toClient"] = << >>
    /\ session' = "over" /\ pending' = {}
    /\ node' = [m \in Messages |-> IF m \in pending THEN "unanswered" ELSE node[m]]
    /\ UNCHANGED <<peers, relays, evicted, retries>>

Decides(d) == Continues(d) \/ Replies(d) \/ Replied(d) \/ Drops(d) \/ Retries(d)
              \/ \E by \in {"peer", "proxy"} : Answers(d, by)

Next ==
    \/ \E m \in Messages : PeerSends(m)
    \/ \E r \in Requests : PeerAnswers(r)
    \/ \E d \in Dirs : Degrades(d) \/ Pump(d) \/ Decides(d) \/ Flushes(d)
    \/ Exits \/ SessionFinished

Spec == Init /\ [][Next]_vars

\* The event loop runs the pumps, and a sink whose server is gone fails every
\* write.  A gate may hold for ever, and a peer need not read.
FairSpec ==
    /\ Spec
    /\ WF_vars(SessionFinished) /\ WF_vars(~Hears("toServer") /\ Flushes("toServer"))
    /\ \A d \in Dirs : WF_vars(Pump(d)) /\ WF_vars(Replied(d))

-----------------------------------------------------------------------------
(* Properties.                                                             *)

\* Type invariant: what is held is what its point says.
TypeOK ==
    /\ \A d \in Dirs : sent[d] \in Seq(Messages) /\ out[d] \in Seq(Frame)
    /\ \A d \in Dirs : queue[d] \in Seq([frame : Frame, raw : BOOLEAN])
    /\ \A d \in Dirs : tail[d] \in Seq([by : Dirs, frame : Frame])
    /\ owed \subseteq Requests /\ degraded \subseteq Dirs
    /\ \A d \in Dirs :
          \/ held[d] = Nothing
          \/ held[d].frame \in Frame /\ held[d].point \in {"before", "replied", "after"}
    /\ pending \subseteq Requests /\ evicted \subseteq Requests
    /\ Cardinality(pending) <= MaxPending
    /\ node \in [Messages -> {"none", "open", "ok", "answered", "aborted", "unanswered"}]
    /\ retries \in [Requests -> 0..MaxRetries]
    /\ child \in {"up", "exited"} /\ session \in {"open", "over"}

\* "the server must not see frame N+1 before frame N": what is relayed arrives
\* in the order it was sent, held or not, whatever is sent again in between.
First(s, m) == CHOOSE i \in DOMAIN s : s[i] = m /\ \A j \in 1..(i - 1) : s[j] # m
InOrder ==
    \A d \in Dirs : \A m, n \in Range(sent[d]) :
        /\ First(sent[d], m) < First(sent[d], n)
        /\ Message(n) \in Range(out[d])
        => Message(m) \notin Range(out[d]) \/ First(out[d], Message(m)) < First(out[d], Message(n))

\* Nobody gets two answers to one request, from the peer, the operator or
\* both, however often it was sent again.
OneAnswer ==
    \A r \in Requests :
        LET d == Other(Origin(r)) IN
        Cardinality({i \in DOMAIN out[d] : out[d][i].type = "answer" /\ out[d][i].id = r}) <= 1

\* An open node has somebody who will close it: the answer it waits for, or
\* the gate it is held at; and an answer is awaited for open nodes only.
Holding(m) == \E d \in Dirs : held[d] # Nothing /\ held[d].frame.id = m
OpenIsAccountedFor ==
    /\ \A m \in Messages : node[m] = "open" => m \in pending \cup evicted \/ Holding(m)
    /\ \A r \in pending : node[r] = "open" /\ ~Holding(r)

\* A node ends once, and none begins in a run that is over ("a ghost in a
\* finished run").
NodesEndOnce ==
    [][\A m \in Messages :
          /\ node[m] \notin {"none", "open"} => node'[m] = node[m]
          /\ session = "over" /\ node[m] = "none" => node'[m] = "none"]_vars

\* A direction that no gate holds for ever comes to flow again, even when the
\* other one is held for ever, provided that the peers read on: a pump also
\* waits for the sink of the other direction (replyTo, retry).  A server that
\* is gone need not read.
AtGate(d) == HeldAt(d, "before") \/ HeldAt(d, "after")
FlowResumes ==
    (\A s \in Dirs : []<>(tail[s] = << >> \/ ~Hears(s)))
        => \A d \in Dirs : []<>~AtGate(d) => []<>(queue[d] = << >> /\ held[d] = Nothing)
=============================================================================
