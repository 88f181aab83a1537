----------------------------- MODULE ViewerSync -----------------------------
(***************************************************************************)
(* What a viewer shows of the server: the events of every run and what is  *)
(* armed.  The viewer is a page with one WebSocket hook, a React effect    *)
(* that puts the message listener on the socket the hook opened, and two   *)
(* stores; the server is the UI side of Hub.                               *)
(*                                                                         *)
(* What is armed is a set, as in Transport: the breakpoint matchers, and   *)
(* step mode as one item more.  Of an event the sequence number matters:   *)
(* the run store drops the ones it has.                                    *)
(***************************************************************************)
EXTENDS Naturals, Sequences, SequencesExt

CONSTANTS
    Socks,      \* WebSocket objects; one is used again when its events are over
    Runs,
    Items,      \* what can be armed
    Defaults,   \* what a fresh server arms
    All, None,  \* WILDCARD_RUN_ID, nothing
    MaxRetries, \* maxRetries of the hook
    MaxSeq,     \* bound: events of a run
    MaxUp,      \* bound: frames under way to the server when a toggle adds one
    MaxDown,    \* bound: and to the viewer when an event or a control does
    MaxTokens   \* bound: changes of the control token

ASSUME ViewerAssumption ==
    /\ Socks # {} /\ None \notin Socks
    /\ IsFiniteSet(Runs) /\ All \notin Runs
    /\ Defaults \subseteq Items
    /\ MaxRetries \in Nat /\ MaxSeq \in Nat /\ MaxUp \in Nat /\ MaxDown \in Nat /\ MaxTokens \in Nat

VARIABLES
    ws, phase, retry, retries,  \* the hook's socket, how far it came, its timer
    tokens,  \* changes of the token so far
    shown,   \* the UI store: what the page says is armed
    heard,   \* has the listener of this socket had what is armed?
    asked,   \* the runs the effect of this socket subscribed to
    have,    \* the run store: the events of each run
    up, down,  \* the frames under way on each socket
    serving, server, stored,  \* the server, its DebugState, its event log
    peer, subs  \* each socket as the server has it, and its subscriptions

hook == <<ws, phase, retry, retries, tokens>>
page == <<shown, heard, asked, have>>
hub == <<serving, server, stored, peer, subs>>
vars == <<hook, page, up, down, hub>>

Subscribe(r) == [type |-> "subscribe", run |-> r]
State(items) == [type |-> "state", items |-> items]
Listing(runs) == [type |-> "runs", runs |-> runs]
Event(r, n) == [type |-> "event", run |-> r, seq |-> n]

Init ==
    /\ ws = (CHOOSE s \in Socks : TRUE) /\ phase = "connecting" /\ retry = FALSE /\ retries = 0 /\ tokens = 0
    /\ shown = {} /\ heard = FALSE /\ asked = {}
    /\ have = [r \in Runs |-> {}]
    /\ up = [s \in Socks |-> << >>] /\ down = [s \in Socks |-> << >>]
    /\ serving = TRUE /\ server = Defaults /\ stored = [r \in Runs |-> 0]
    /\ peer = [s \in Socks |-> "none"] /\ subs = [s \in Socks |-> {}]

-----------------------------------------------------------------------------
(* The hook: useWebSocketWithRetry.                                        *)

\* connect(), with a socket the server is done with (which one is no matter).
Fresh == {s \in Socks : peer[s] = "none"}
Connect ==
    /\ Fresh # {} /\ ws' = CHOOSE s \in Fresh : TRUE
    /\ phase' = "connecting" /\ retry' = FALSE

RetryTimer ==
    /\ retry
    /\ Connect
    /\ retries' = retries + 1
    /\ UNCHANGED <<tokens, page, up, down, hub>>

\* A new or dropped control token runs the effect again: its cleanup closes
\* the socket and its timer, and the retries are counted from the start.  The
\* message listener stays on the closed socket, where nothing arrives.
TokenChanges ==
    /\ tokens < MaxTokens
    /\ tokens' = tokens + 1
    /\ Connect
    /\ retries' = 0 /\ heard' = FALSE
    /\ down' = [s \in Socks |-> << >>]
    /\ UNCHANGED <<shown, asked, have, up, hub>>

Opens ==
    /\ phase = "connecting" /\ peer[ws] # "none"
    /\ phase' = "open" /\ retries' = 0
    /\ UNCHANGED <<ws, retry, tokens, page, up, down, hub>>

\* 'close', refused or cut: the store is told, the retries are not unlimited.
Closes ==
    /\ ws # None
    /\ ws' = None /\ phase' = "closed"
    /\ retry' = (retries < MaxRetries)
    /\ heard' = FALSE /\ asked' = {}
    /\ down' = [down EXCEPT ![ws] = << >>]
    /\ UNCHANGED <<retries, tokens, shown, have, up, hub>>

-----------------------------------------------------------------------------
(* The page: useLiveConnection and the toggles.                            *)

Viewers == {s \in Socks : peer[s] # "none"}

\* ws.send; a socket the server has lost swallows what it is given.
Sends(frames) ==
    up' = IF ws \in Viewers THEN [up EXCEPT ![ws] = @ \o frames] ELSE up

\* The effect of a socket that opened: subscribe to the run list and listen.
Listens_Again ==
    /\ phase = "open"
    /\ phase' = "listening"
    /\ Sends(<<Subscribe(All)>>)
    /\ UNCHANGED <<ws, retry, retries, tokens, page, down, hub>>
Listens ==
    /\ phase = "open"
    /\ phase' = "listening" /\ asked' = {}
    /\ Sends(<<Subscribe(All)>>)
    /\ UNCHANGED <<ws, retry, retries, tokens, shown, heard, have, down, hub>>

\* A frame dispatched before React ran the effect: nobody listens.
Unheard ==
    /\ phase = "open" /\ down[ws] # << >>
    /\ down' = [down EXCEPT ![ws] = Tail(@)]
    /\ UNCHANGED <<hook, page, up, hub>>

\* onMessage: adopt what is armed, subscribe to the runs that are announced,
\* give the event to the store.
Reads ==
    LET f == Head(down[ws]) IN
    /\ phase = "listening" /\ down[ws] # << >>
    /\ down' = [down EXCEPT ![ws] = Tail(@)]
    /\ \/ /\ f.type = "state"
          /\ shown' = f.items /\ heard' = TRUE
          /\ UNCHANGED <<asked, have, up>>
       \/ /\ f.type = "runs"
          /\ asked' = asked \cup f.runs
          /\ \E runs \in SetToSeqs(f.runs \ asked) :
                Sends([i \in DOMAIN runs |-> Subscribe(runs[i])])
          /\ UNCHANGED <<shown, heard, have>>
       \/ /\ f.type = "event"
          /\ have' = [have EXCEPT ![f.run] = @ \cup {f.seq}]
          /\ UNCHANGED <<shown, heard, asked, up>>
    /\ UNCHANGED <<hook, hub>>

Room == ws \in Viewers => Len(down[ws]) < MaxDown

\* A toggle shows at once what it asks for; without an open socket the
\* request is dropped.
Toggles(item) ==
    LET type == IF item \in shown THEN "clear" ELSE "set" IN
    /\ shown' = IF type = "set" THEN shown \cup {item} ELSE shown \ {item}
    /\ IF phase = "listening"
       THEN Room /\ Len(up[ws]) < MaxUp /\ Sends(<<[type |-> type, item |-> item]>>)
       ELSE UNCHANGED up
    /\ UNCHANGED <<hook, heard, asked, have, down, hub>>

-----------------------------------------------------------------------------
(* The server.                                                             *)

\* The frames of f on their way to each viewer; nothing reaches one that left.
Sent(f) == [s \in Socks |-> IF s \in Viewers /\ s = ws THEN down[s] \o f[s] ELSE down[s]]

\* addUiSocket, with or without a credential: the welcome.
Accepts(s) ==
    /\ serving /\ peer[s] = "none" /\ s = ws /\ phase = "connecting"
    /\ \E principal \in {"viewer", "anonymous"} : peer' = [peer EXCEPT ![s] = principal]
    /\ down' = [down EXCEPT ![s] = <<State(server)>>]
    /\ UNCHANGED <<hook, page, up, serving, server, stored, subs>>

Changed(items, f) == IF f.type = "set" THEN items \cup {f.item} ELSE items \ {f.item}
StateSent(items) == [s \in Socks |-> <<State(items)>>]
Replay(r) == [n \in 1..stored[r] |-> Event(r, n)]

\* handleSubscribe: the list of the runs, a replay and from here on the tail,
\* or nothing for a run that has its tail already.
Answer(s, r) ==
    IF r = All THEN <<Listing({q \in Runs : stored[q] > 0})>>
    ELSE IF r \in subs[s] THEN << >> ELSE Replay(r)
Subscribed_NoTail(s, r) ==
    /\ down' = Sent([x \in Socks |-> IF x = s THEN Answer(s, r) ELSE << >>])
    /\ subs' = [subs EXCEPT ![s] = @ \cup ({r} \cap {All})]
    /\ UNCHANGED server
Subscribed(s, r) ==
    /\ down' = Sent([x \in Socks |-> IF x = s THEN Answer(s, r) ELSE << >>])
    /\ subs' = [subs EXCEPT ![s] = @ \cup {r}]
    /\ UNCHANGED server

\* handleControl: without a credential refused, and the page told what is
\* really armed; else applied and told to every page.
Controlled_Silently(s, f) ==
    /\ IF peer[s] = "anonymous" THEN UNCHANGED <<server, down>>
       ELSE server' = Changed(server, f) /\ down' = Sent(StateSent(server'))
    /\ UNCHANGED subs
Controlled(s, f) ==
    /\ IF peer[s] = "anonymous"
       THEN /\ down' = Sent([x \in Socks |-> IF x = s THEN <<State(server)>> ELSE << >>])
            /\ UNCHANGED server
       ELSE server' = Changed(server, f) /\ down' = Sent(StateSent(server'))
    /\ UNCHANGED subs

HubReads(s) ==
    LET f == Head(up[s]) IN
    /\ s \in Viewers /\ up[s] # << >>
    /\ up' = [up EXCEPT ![s] = Tail(@)]
    /\ IF f.type = "subscribe" THEN Subscribed(s, f.run) ELSE Controlled(s, f)
    /\ UNCHANGED <<hook, page, serving, stored, peer>>

\* removeUi: closed by either side, or reaped.
HubLoses(s) ==
    /\ s \in Viewers
    /\ peer' = [peer EXCEPT ![s] = "none"]
    /\ subs' = [subs EXCEPT ![s] = {}]
    /\ up' = [up EXCEPT ![s] = << >>]
    /\ UNCHANGED <<hook, page, down, serving, server, stored>>

\* Another viewer or an agent changes what is armed.
OthersControl(item, type) ==
    /\ serving /\ Room
    /\ server' = Changed(server, [type |-> type, item |-> item])
    /\ down' = Sent(StateSent(server'))
    /\ UNCHANGED <<hook, page, up, serving, stored, peer, subs>>

\* handleIngestFrame stores an event: the run list hears of a new run, and of
\* a new owner, a start or an end; those who tail the run hear of the event.
Stores(r, update) ==
    /\ serving /\ Room /\ stored[r] < MaxSeq
    /\ stored[r] = 0 => update
    /\ stored' = [stored EXCEPT ![r] = @ + 1]
    /\ down' = Sent([s \in Socks |->
                        (IF update /\ All \in subs[s] THEN <<Listing({r})>> ELSE << >>)
                            \o (IF r \in subs[s] THEN <<Event(r, stored[r] + 1)>> ELSE << >>)])
    /\ UNCHANGED <<hook, page, up, serving, server, peer, subs>>

\* The process ends; the next one has the same runs and arms the defaults.
Stops ==
    /\ serving
    /\ serving' = FALSE
    /\ peer' = [s \in Socks |-> "none"] /\ subs' = [s \in Socks |-> {}]
    /\ up' = [s \in Socks |-> << >>]
    /\ UNCHANGED <<hook, page, down, server, stored>>
Serves ==
    /\ ~serving
    /\ serving' = TRUE /\ server' = Defaults
    /\ UNCHANGED <<hook, page, up, down, stored, peer, subs>>

Next ==
    \/ RetryTimer \/ TokenChanges \/ Opens \/ Closes
    \/ Listens \/ Unheard \/ Reads
    \/ \E item \in Items : Toggles(item) \/ OthersControl(item, "set") \/ OthersControl(item, "clear")
    \/ \E s \in Socks : Accepts(s) \/ HubReads(s) \/ HubLoses(s)
    \/ \E r \in Runs, update \in BOOLEAN : Stores(r, update)
    \/ Stops \/ Serves

Spec == Init /\ [][Next]_vars

\* Both event loops run, and the network delivers.
FairSpec ==
    /\ Spec
    /\ WF_vars(RetryTimer) /\ WF_vars(Opens) /\ WF_vars(Listens) /\ WF_vars(Reads)
    /\ \A s \in Socks : WF_vars(Accepts(s)) /\ WF_vars(HubReads(s)) /\ WF_vars(s # ws /\ HubLoses(s))

-----------------------------------------------------------------------------
(* Properties.                                                             *)

Linked == phase = "listening" /\ peer[ws] # "none"

\* Will the page show these items once it has read the frames on their way?
\* The last word on what is armed decides, or else what it shows already.
WillShow(q, items) ==
    LET words == {k \in DOMAIN q : q[k].type = "state"} IN
    \/ words = {} /\ shown = items
    \/ \E k \in words : q[k].items = items /\ \A l \in words : l <= k
Requested == \E i \in DOMAIN up[ws] : up[ws][i].type # "subscribe"
Told == heard \/ \E i \in DOMAIN down[ws] : down[ws][i].type = "state"

\* A page that was told what is armed shows it, once what is under way has
\* arrived: however its optimistic toggles, their refusals and the changes of
\* others cross on the way.
ShowsWhatIsArmed == Linked /\ ~Requested /\ Told => WillShow(down[ws], server)

\* No event falls between replay and tail, and no run between the list and its
\* updates: what a linked page lacks is on its way or asked for.
Coming(r) == {f.seq : f \in {f \in {down[ws][i] : i \in DOMAIN down[ws]} : f.type = "event" /\ f.run = r}}
NothingMissed ==
    Linked =>
        \/ \E i \in DOMAIN up[ws] : up[ws][i] = Subscribe(All)
        \/ \A r \in Runs :
              \/ have[r] \cup Coming(r) = 1..stored[r]
              \/ \E i \in DOMAIN up[ws] : up[ws][i] = Subscribe(r)
              \/ \E i \in DOMAIN down[ws] : down[ws][i].type = "runs" /\ r \in down[ws][i].runs \ asked

\* A page that stays linked comes to show every event that is stored.
CatchesUp == \A r \in Runs : <>[]Linked => <>[](have[r] = 1..stored[r])
=============================================================================
