----------------------------- MODULE Transport -----------------------------
(***************************************************************************)
(* How an application attaches to the debugger and stays attached, and     *)
(* what it has armed meanwhile: the client's Transport with its sockets    *)
(* and timers, session.ready() on top of it, and the server's DebugState,  *)
(* which reaches the client in hello.ack and in relayed frames.            *)
(*                                                                         *)
(* The debug state is the set of things armed: breakpoint matchers, and    *)
(* step mode as one item more.  Delays are left out: the fast reconnect    *)
(* burst only chooses how long the one retry timer waits.                  *)
(***************************************************************************)
EXTENDS Naturals, Sequences

CONSTANTS
    Socks,     \* WebSocket objects; one is used again when its events are over
    Items,     \* what can be armed
    Defaults,  \* what a fresh server arms (pause-on-error)
    None,
    MaxQueue   \* bound: frames on their way to the client, per socket

ASSUME TransportAssumption ==
    Defaults \subseteq Items /\ None \notin Socks /\ MaxQueue \in Nat \ {0}

VARIABLES
    impl, compatible,  \* is there a WebSocket, does the server speak our version
    started, state, ws, retry, timer,  \* the Transport's fields
    armed,    \* the engine's breakpoints and mode
    ready,    \* one ready() call
    end,      \* each socket as the client has it
    peer,     \* and as the server has it
    down,     \* the frames on their way to the client
    serving,  \* is the server up
    server    \* its DebugState

config == <<impl, compatible>>
client == <<started, state, ws, retry, timer, armed, ready>>
hub == <<serving, server>>
vars == <<config, client, end, peer, down, hub>>

Frame == [type : {"ack"}, items : SUBSET Items] \cup [type : {"set", "clear"}, item : Items]
Ack_Defaults == [type |-> "ack", items |-> Defaults]
Ack == [type |-> "ack", items |-> server]

Init ==
    /\ impl \in BOOLEAN /\ compatible \in BOOLEAN
    /\ started = FALSE /\ state = "idle" /\ ws = None
    /\ retry = FALSE /\ timer = "none"
    /\ armed = {} /\ ready = "none"
    /\ end = [s \in Socks |-> "free"] /\ peer = [s \in Socks |-> "none"]
    /\ down = [s \in Socks |-> << >>]
    /\ serving = FALSE /\ server = Defaults

-----------------------------------------------------------------------------
(* The pieces of the Transport that several of its handlers run.           *)

\* connect(): a socket is made, its constructor throws, or there is none.
Connect ==
    \/ /\ impl
       /\ \E s \in Socks :
             /\ end[s] = "free"
             /\ end' = [end EXCEPT ![s] = "opening"] /\ ws' = s
       /\ state' = "connecting" /\ timer' = "open" /\ retry' = FALSE
    \/ /\ impl /\ retry' = TRUE
       /\ UNCHANGED <<state, ws, timer, end>>
    \/ /\ ~impl /\ retry' = FALSE
       /\ UNCHANGED <<state, ws, timer, end>>

\* handleClose() of the socket in use, left in the given condition: the one
\* retry timer is armed, and an attachment that is lost is disarmed.
Retried_WhenAttached == state = "attached"
Retried == TRUE
Disarmed == {}
HandleClose(left) ==
    /\ state' = "idle" /\ ws' = None /\ timer' = "none"
    /\ retry' = Retried
    /\ armed' = Disarmed
    /\ end' = [end EXCEPT ![ws] = left]

-----------------------------------------------------------------------------
(* The session and its program.                                            *)

\* ensureStarted(), from the first event, run or gate.
FirstUse ==
    /\ ~started /\ state # "disposed"
    /\ started' = TRUE
    /\ Connect
    /\ UNCHANGED <<config, armed, ready, peer, down, hub>>

\* ready(): start or kick, then wait unless attached already.
Ready ==
    /\ ready = "none"
    /\ ready' = IF state = "disposed" THEN "false"
                ELSE IF state = "attached" THEN "true" ELSE "waiting"
    /\ IF state = "idle" THEN started' = TRUE /\ Connect
       ELSE UNCHANGED <<started, state, ws, retry, timer, end>>
    /\ UNCHANGED <<config, armed, peer, down, hub>>

ReadyTimeout ==
    /\ ready = "waiting"
    /\ ready' = "false"
    /\ UNCHANGED <<config, started, state, ws, retry, timer, armed, end, peer, down, hub>>

\* The answer was taken; the program may ask again.
ReadyTaken ==
    /\ ready \in {"true", "false"}
    /\ ready' = "none"
    /\ UNCHANGED <<config, started, state, ws, retry, timer, armed, end, peer, down, hub>>

\* send() throws: the transport lets go of a socket it does not close.
SendThrows ==
    /\ state = "attached"
    /\ HandleClose("stale")
    /\ UNCHANGED <<config, started, ready, peer, down, hub>>

Dispose ==
    /\ state # "disposed"
    /\ state' = "disposed" /\ armed' = {} /\ timer' = "none" /\ retry' = FALSE
    /\ ws' = None
    /\ end' = IF ws = None THEN end ELSE [end EXCEPT ![ws] = "stale"]
    /\ ready' = IF ready = "waiting" THEN "false" ELSE ready
    /\ UNCHANGED <<config, started, peer, down, hub>>

-----------------------------------------------------------------------------
(* Timers.                                                                 *)

RetryTimer ==
    /\ retry
    /\ Connect
    /\ UNCHANGED <<config, started, armed, ready, peer, down, hub>>

\* The connect timeout and the handshake timeout: abandon().
AttemptTimeout ==
    /\ timer # "none"
    /\ HandleClose("stale")
    /\ UNCHANGED <<config, started, ready, peer, down, hub>>

-----------------------------------------------------------------------------
(* Sockets.                                                                *)

\* 'open': hello goes out, or fails to.
Opens(s) ==
    /\ end[s] = "opening" /\ serving
    /\ peer' = [peer EXCEPT ![s] = "linked"]
    /\ \/ /\ end' = [end EXCEPT ![s] = "open"] /\ timer' = "ack"
          /\ UNCHANGED <<state, ws, retry, armed>>
       \/ HandleClose("stale")
    /\ UNCHANGED <<config, started, ready, down, hub>>

\* The frame of an incompatible server, or the one the state machine waits
\* for.  handleAttached arms before it flushes; a send that dies in the flush
\* detaches again, and ready() resolves true all the same.
Attaches(f) ==
    /\ timer' = "none" /\ state' = "attached" /\ armed' = f.items
    /\ ready' = IF ready = "waiting" THEN "true" ELSE ready
    /\ UNCHANGED <<ws, retry, end>>
DiesInTheFlush ==
    /\ HandleClose("stale")
    /\ ready' = IF ready = "waiting" THEN "true" ELSE ready

\* What the engine has armed once it has applied a frame.
Applied(a, f) ==
    CASE f.type = "ack" -> f.items
      [] f.type = "set" -> a \cup {f.item}
      [] f.type = "clear" -> a \ {f.item}

\* 'message', of the socket in use.
Reads(s) ==
    LET f == Head(down[s]) IN
    /\ s = ws /\ down[s] # << >>
    /\ down' = [down EXCEPT ![s] = Tail(@)]
    /\ \/ ~compatible /\ HandleClose("stale") /\ UNCHANGED ready
       \/ compatible /\ state = "connecting" /\ f.type = "ack" /\ (Attaches(f) \/ DiesInTheFlush)
       \/ /\ compatible /\ state = "attached" /\ armed' = Applied(armed, f)
          /\ UNCHANGED <<state, ws, retry, timer, ready, end>>
    /\ UNCHANGED <<config, started, peer, hub>>

\* 'close' or 'error': refused, cut, or closed by the server.  What was on its
\* way is lost, and on a socket no longer in use it goes unnoticed.
Closes(s) ==
    /\ end[s] # "free"
    /\ IF s = ws THEN HandleClose("free")
       ELSE end' = [end EXCEPT ![s] = "free"] /\ UNCHANGED <<state, ws, retry, timer, armed>>
    /\ peer' = [peer EXCEPT ![s] = "none"]
    /\ down' = [down EXCEPT ![s] = << >>]
    /\ UNCHANGED <<config, started, ready, hub>>

-----------------------------------------------------------------------------
(* The server.                                                             *)

\* A server that starts again starts with the defaults.
Serves ==
    /\ ~serving
    /\ serving' = TRUE /\ server' = Defaults
    /\ UNCHANGED <<config, client, end, peer, down>>

Stops ==
    /\ serving
    /\ serving' = FALSE
    /\ peer' = [s \in Socks |-> "none"]
    /\ UNCHANGED <<config, client, end, down, server>>

\* hello: the connection is attached from here on.
ReadsHello(s) ==
    /\ peer[s] = "linked"
    /\ peer' = [peer EXCEPT ![s] = "attached"]
    /\ down' = [down EXCEPT ![s] = Append(@, Ack)]
    /\ UNCHANGED <<config, client, end, hub>>

\* breakpoint.set, breakpoint.clear and mode.set from a viewer, relayed to
\* every attached application.
Relayed == {s \in Socks : peer[s] = "attached"}
Controls(item, type) ==
    /\ serving
    /\ \A s \in Relayed : Len(down[s]) < MaxQueue
    /\ server' = IF type = "set" THEN server \cup {item} ELSE server \ {item}
    /\ down' = [s \in Socks |->
                   IF s \in Relayed THEN Append(down[s], [type |-> type, item |-> item])
                   ELSE down[s]]
    /\ UNCHANGED <<config, client, end, peer, serving>>

Next ==
    \/ FirstUse \/ Ready \/ ReadyTimeout \/ ReadyTaken \/ SendThrows \/ Dispose
    \/ RetryTimer \/ AttemptTimeout
    \/ \E s \in Socks : Opens(s) \/ Reads(s) \/ Closes(s) \/ ReadsHello(s)
    \/ Serves \/ Stops
    \/ \E item \in Items : Controls(item, "set") \/ Controls(item, "clear")

Spec == Init /\ [][Next]_vars

\* Timers run, frames and handshakes that are under way arrive, and a socket
\* that is closed or left by its server says so.
FairSpec ==
    /\ Spec
    /\ WF_vars(RetryTimer) /\ WF_vars(AttemptTimeout) /\ WF_vars(ReadyTimeout)
    /\ \A s \in Socks :
          /\ WF_vars(Opens(s)) /\ WF_vars(ReadsHello(s)) /\ WF_vars(Reads(s))
          /\ WF_vars((s # ws \/ ~serving) /\ Closes(s))

-----------------------------------------------------------------------------
(* Properties.                                                             *)

\* Type invariant: one attempt, one timer of its own, one socket in use.
TypeOK ==
    /\ state \in {"idle", "connecting", "attached", "disposed"}
    /\ started \in BOOLEAN /\ retry \in BOOLEAN /\ timer \in {"none", "open", "ack"}
    /\ ws \in Socks \cup {None} /\ (ws # None <=> state \in {"connecting", "attached"})
    /\ ready \in {"none", "waiting", "true", "false"}
    /\ armed \subseteq Items /\ server \subseteq Items /\ serving \in BOOLEAN
    /\ end \in [Socks -> {"free", "opening", "open", "stale"}]
    /\ peer \in [Socks -> {"none", "linked", "attached"}]
    /\ down \in [Socks -> Seq(Frame)]

\* A client with nothing under way has a retry coming, and an attempt has the
\* timeout that ends it: no order of timeouts, closes, kicks and dying sends
\* leaves it detached for ever.
NeverStranded ==
    started /\ impl =>
        /\ state = "idle" => retry
        /\ state = "connecting" => timer # "none"

\* Is the item armed once the client has read what is on its way to it?  The
\* last frame about the item decides, or else what the engine has armed.
About(f, item) == f.type = "ack" \/ f.item = item
Arms(f, item) == IF f.type = "ack" THEN item \in f.items ELSE f.type = "set"
WillArm(q, item) ==
    LET about == {k \in DOMAIN q : About(q[k], item)} IN
    \/ about = {} /\ item \in armed
    \/ \E k \in about : Arms(q[k], item) /\ \A l \in about : l <= k

\* What the engine has armed, once it has read what is on its way, is what the
\* server has armed: through handshakes that changes overtake, and restarts.
ArmedFollowsServer ==
    compatible /\ ws # None /\ peer[ws] = "attached" =>
        \A item \in Items : WillArm(down[ws], item) <=> item \in server

\* No debugger, nothing armed: a gate cannot hold for a debugger that is gone.
DetachedIsDisarmed == state # "attached" => armed = {}

\* Nobody waits for an attachment that is there, or that cannot come.
NobodyWaitsInVain == ready = "waiting" => state \notin {"attached", "disposed"}

\* Once a server stays up and attempts no longer fail, the client comes back
\* to it, whatever happened before.
Reconnects ==
    /\ impl /\ compatible /\ <>[]serving
    /\ <>[][state = "connecting" => state' # "idle"]_vars
    => [](started => <>(state \in {"attached", "disposed"}))
=============================================================================
