-------------------------- MODULE Transport_proofs --------------------------
(***************************************************************************)
(* Proofs about the two halves of the client's connection.                 *)
(*                                                                         *)
(* Transport: however timeouts, closes, kicks and sends that die           *)
(* interleave, the client is attached, under way, or has a retry coming;   *)
(* nobody waits in vain; nothing is armed without a debugger, and what is  *)
(* armed with one is what its server has armed.                            *)
(*                                                                         *)
(* EventBuffer: seqs are unique among what is buffered, a replay that the  *)
(* socket survives leaves nothing out, and every loss is accounted for.    *)
(* The handlers of EventBuffer fold steps over sequences; each fold is     *)
(* first shown to be a run of single steps (the lemmas ...Run), and what a *)
(* run keeps is shown by induction over its length (Climb).                *)
(***************************************************************************)
EXTENDS Transport, EventBuffer, WellFoundedInduction, FiniteSetTheorems, SequenceTheorems, TLAPS

\* The timers belong to the condition they are for: the open and handshake
\* timeouts to an attempt, the retry to its absence (clearTimers, connect).
TimersInv ==
    /\ timer # "none" => state = "connecting"
    /\ retry => state = "idle"
    /\ ~started => state \in {"idle", "disposed"} /\ ~retry

\* A socket that has not opened is the one of the attempt, and its server has
\* sent nothing on it.
SocketsInv ==
    \A s \in Socks :
        /\ end[s] = "opening" => s = ws /\ state = "connecting"
        /\ end[s] \in {"free", "opening"} => peer[s] = "none" /\ down[s] = << >>

TransportInv ==
    TypeOK /\ TimersInv /\ SocketsInv /\ NeverStranded /\ NobodyWaitsInVain /\ DetachedIsDisarmed

\* The part about the client's own fields.
ClientInv ==
    /\ state \in {"idle", "connecting", "attached", "disposed"}
    /\ started \in BOOLEAN /\ retry \in BOOLEAN /\ timer \in {"none", "open", "ack"}
    /\ ws \in Socks \cup {None} /\ (ws # None <=> state \in {"connecting", "attached"})
    /\ ready \in {"none", "waiting", "true", "false"}
    /\ TimersInv /\ NeverStranded /\ NobodyWaitsInVain

\* And about what is armed.
ArmedInv ==
    armed \subseteq Items /\ server \subseteq Items /\ serving \in BOOLEAN /\ DetachedIsDisarmed

\* And about the sockets.
SocksInv ==
    /\ end \in [Socks -> {"free", "opening", "open", "stale"}]
    /\ peer \in [Socks -> {"none", "linked", "attached"}]
    /\ down \in [Socks -> Seq(Frame)]
    /\ SocketsInv

LEMMA InvParts == TransportInv <=> ClientInv /\ ArmedInv /\ SocksInv
BY DEF TransportInv, ClientInv, ArmedInv, SocksInv, TypeOK

-----------------------------------------------------------------------------
(* The pieces of the handlers.                                             *)

\* handleClose leaves the client idle, with a retry and nothing else.
LEMMA CloseKeeps ==
    ASSUME ClientInv, ArmedInv, NEW left, HandleClose(left), started, UNCHANGED <<started, config>>,
           ready' = ready \/ ready' = "true"
    PROVE  ClientInv' /\ (armed' \subseteq Items) /\ DetachedIsDisarmed'
BY DEF ClientInv, ArmedInv, HandleClose, Retried, Disarmed, TimersInv, NeverStranded,
       NobodyWaitsInVain, DetachedIsDisarmed, config

\* connect, from an idle transport.
LEMMA ConnectKeeps ==
    ASSUME ClientInv, state = "idle", Connect, started', UNCHANGED config,
           ready' \in {ready, "waiting"}
    PROVE  ClientInv'
<1>1. /\ retry' \in BOOLEAN /\ state' \in {"idle", "connecting"}
      /\ ready' \in {"none", "waiting", "true", "false"}
  BY DEF ClientInv, Connect
<1>2. CASE impl /\ ~UNCHANGED state
  <2>1. PICK s \in Socks : ws' = s
    BY <1>2 DEF Connect
  <2>2. state' = "connecting" /\ timer' = "open" /\ ~retry'
    BY <1>2 DEF Connect
  <2>3. QED
    BY <1>1, <2>1, <2>2, TransportAssumption DEF ClientInv, TimersInv, NeverStranded, NobodyWaitsInVain
<1>3. CASE ~(impl /\ ~UNCHANGED state)
  <2>1. state' = "idle" /\ (impl => retry')
    BY <1>3 DEF Connect
  <2>2. ws' = ws /\ timer' = timer
    BY <1>3, <2>1 DEF Connect
  <2>3. QED
    BY <1>1, <2>1, <2>2 DEF ClientInv, TimersInv, NeverStranded, NobodyWaitsInVain, config
<1>4. QED
  BY <1>2, <1>3

\* connect touches a free socket, if any.
LEMMA ConnectSocks ==
    ASSUME SocksInv, state = "idle", Connect, UNCHANGED <<peer, down>>
    PROVE  SocksInv'
<1>1. CASE UNCHANGED end
  <2>1. \A s \in Socks : end[s] # "opening"
    BY DEF SocksInv, SocketsInv
  <2>2. QED
    BY <1>1, <2>1 DEF SocksInv, SocketsInv
<1>2. CASE ~UNCHANGED end
  <2>1. PICK s \in Socks : end[s] = "free" /\ end' = [end EXCEPT ![s] = "opening"] /\ ws' = s
    BY <1>2 DEF Connect
  <2>2. state' = "connecting"
    BY <1>2 DEF Connect
  <2>3. QED
    BY <2>1, <2>2 DEF SocksInv, SocketsInv
<1>3. QED
  BY <1>1, <1>2

-----------------------------------------------------------------------------
(* Every step.                                                             *)

\* The handlers leave a live transport's own fields in order.
LEMMA ClientStep == TransportInv /\ [Next]_vars => ClientInv'
<1> SUFFICES ASSUME TransportInv, [Next]_vars PROVE ClientInv'
  OBVIOUS
<1>1. ClientInv /\ ArmedInv /\ SocksInv
  BY InvParts
<1>2. CASE FirstUse
  <2>1. state = "idle" /\ Connect /\ started' /\ UNCHANGED <<config, ready>>
    BY <1>1, <1>2 DEF FirstUse, ClientInv, TimersInv
  <2>2. QED
    BY <1>1, <2>1, ConnectKeeps
<1>3. CASE Ready
  <2>1. CASE state = "idle"
    <3>1. Connect /\ started' /\ UNCHANGED config /\ ready' = "waiting"
      BY <1>3, <2>1 DEF Ready
    <3>2. QED
      BY <1>1, <2>1, <3>1, ConnectKeeps
  <2>2. CASE state # "idle"
    BY <1>1, <1>3, <2>2 DEF Ready, ClientInv, TimersInv, NeverStranded, NobodyWaitsInVain, config
  <2>3. QED
    BY <2>1, <2>2
<1>4. CASE ReadyTimeout \/ ReadyTaken
  BY <1>1, <1>4 DEF ReadyTimeout, ReadyTaken, ClientInv, TimersInv, NeverStranded,
     NobodyWaitsInVain, config
<1>5. CASE SendThrows \/ AttemptTimeout
  <2>1. started /\ HandleClose("stale") /\ UNCHANGED <<started, config, ready>>
    BY <1>1, <1>5 DEF SendThrows, AttemptTimeout, ClientInv, TimersInv
  <2>2. QED
    BY <1>1, <2>1, CloseKeeps
<1>6. CASE Dispose
  BY <1>1, <1>6, TransportAssumption DEF Dispose, ClientInv, TimersInv, NeverStranded,
     NobodyWaitsInVain, config
<1>7. CASE RetryTimer
  <2>1. state = "idle" /\ Connect /\ started' /\ UNCHANGED <<config, ready>>
    BY <1>1, <1>7 DEF RetryTimer, ClientInv, TimersInv
  <2>2. QED
    BY <1>1, <2>1, ConnectKeeps
<1>8. ASSUME NEW s \in Socks, Opens(s) PROVE ClientInv'
  <2>1. s = ws /\ state = "connecting" /\ started
    BY <1>1, <1>8 DEF Opens, SocksInv, SocketsInv, ClientInv, TimersInv
  <2>2. UNCHANGED <<started, config, ready>>
    BY <1>8 DEF Opens
  <2>3. CASE HandleClose("stale")
    BY <1>1, <2>1, <2>2, <2>3, CloseKeeps
  <2>4. CASE timer' = "ack" /\ UNCHANGED <<state, ws, retry>>
    BY <1>1, <2>1, <2>2, <2>4 DEF ClientInv, TimersInv, NeverStranded, NobodyWaitsInVain, config
  <2>5. QED
    BY <1>8, <2>3, <2>4 DEF Opens
<1>9. ASSUME NEW s \in Socks, Reads(s) PROVE ClientInv'
  <2>1. s = ws /\ started /\ UNCHANGED <<config, started>>
    BY <1>1, <1>9, TransportAssumption DEF Reads, ClientInv, TimersInv
  <2>2. CASE HandleClose("stale") /\ (ready' = ready \/ ready' = "true")
    BY <1>1, <2>1, <2>2, CloseKeeps
  <2>3. CASE state = "connecting" /\ Attaches(Head(down[s]))
    BY <1>1, <2>1, <2>3 DEF Attaches, ClientInv, TimersInv, NeverStranded, NobodyWaitsInVain, config
  <2>4. CASE UNCHANGED <<state, ws, retry, timer, ready>>
    BY <1>1, <2>1, <2>4 DEF ClientInv, TimersInv, NeverStranded, NobodyWaitsInVain, config
  <2>5. QED
    BY <1>9, <2>2, <2>3, <2>4 DEF Reads, DiesInTheFlush
<1>10. ASSUME NEW s \in Socks, Closes(s) PROVE ClientInv'
  <2>1. UNCHANGED <<started, config, ready>>
    BY <1>10 DEF Closes
  <2>2. CASE s = ws
    <3>1. HandleClose("free") /\ started
      BY <1>1, <1>10, <2>2, TransportAssumption DEF Closes, ClientInv, TimersInv
    <3>2. QED
      BY <1>1, <2>1, <3>1, CloseKeeps
  <2>3. CASE s # ws
    BY <1>1, <1>10, <2>1, <2>3 DEF Closes, ClientInv, TimersInv, NeverStranded,
       NobodyWaitsInVain, config
  <2>4. QED
    BY <2>2, <2>3
<1>11. CASE UNCHANGED <<config, client>>
  BY <1>1, <1>11 DEF ClientInv, TimersInv, NeverStranded, NobodyWaitsInVain, config, client
<1>12. QED
  BY <1>2, <1>3, <1>4, <1>5, <1>6, <1>7, <1>8, <1>9, <1>10, <1>11
     DEF Next, vars, ReadsHello, Serves, Stops, Controls

\* The engine is armed by frames of an attached server and disarmed with it.
LEMMA ArmedStep == TransportInv /\ [Next]_vars => ArmedInv'
<1> SUFFICES ASSUME TransportInv, [Next]_vars PROVE ArmedInv'
  OBVIOUS
<1>1. ClientInv /\ ArmedInv /\ SocksInv
  BY InvParts
<1>2. server' \subseteq Items /\ serving' \in BOOLEAN
  <2>1. \/ UNCHANGED <<serving, server>>
        \/ server' = Defaults /\ serving' = TRUE
        \/ UNCHANGED server /\ serving' = FALSE
        \/ \E item \in Items : server' \in {server \cup {item}, server \ {item}} /\ UNCHANGED serving
    BY DEF Next, vars, hub, FirstUse, Ready, ReadyTimeout, ReadyTaken, SendThrows, Dispose, RetryTimer,
       AttemptTimeout, Opens, Reads, Closes, Serves, Stops, ReadsHello, Controls
  <2>2. QED
    BY <1>1, <2>1, TransportAssumption DEF ArmedInv
<1>3. armed' \subseteq Items /\ DetachedIsDisarmed'
  <2>1. CASE UNCHANGED armed /\ (state # "attached" \/ UNCHANGED state)
    BY <1>1, <2>1 DEF ArmedInv, DetachedIsDisarmed
  <2>2. CASE armed' = {}
    BY <2>2 DEF DetachedIsDisarmed
  <2>3. ASSUME NEW s \in Socks, Reads(s) PROVE armed' \subseteq Items /\ DetachedIsDisarmed'
    <3>1. down[s] \in Seq(Frame) /\ down[s] # << >>
      BY <1>1, <2>3 DEF Reads, SocksInv
    <3>2. PICK f \in Frame : f = Head(down[s])
      BY <3>1
    <3>3. /\ f.type = "ack" => f.items \subseteq Items
          /\ f.type # "ack" => f.item \in Items /\ f.type \in {"set", "clear"}
      BY <3>2 DEF Frame
    <3>4. \/ armed' = {}
          \/ f.type = "ack" /\ armed' = f.items /\ state' = "attached"
          \/ armed' = Applied(armed, f) /\ state' = "attached"
      BY <2>3, <3>2 DEF Reads, Attaches, DiesInTheFlush, HandleClose, Disarmed
    <3>5. Applied(armed, f) \subseteq Items
      BY <1>1, <3>2, <3>3 DEF Applied, ArmedInv
    <3>6. QED
      BY <3>3, <3>4, <3>5 DEF DetachedIsDisarmed
  <2>4. CASE FirstUse \/ Ready \/ RetryTimer
    <3>1. UNCHANGED armed /\ (state # "attached" \/ UNCHANGED state)
      BY <1>1, <2>4 DEF FirstUse, Ready, RetryTimer, ClientInv, TimersInv
    <3>2. QED
      BY <2>1, <3>1
  <2>5. ASSUME NEW s \in Socks, Opens(s) \/ Closes(s) PROVE armed' \subseteq Items /\ DetachedIsDisarmed'
    <3>1. armed' = {} \/ UNCHANGED <<armed, state>>
      BY <2>5 DEF Opens, Closes, HandleClose, Disarmed
    <3>2. QED
      BY <2>1, <2>2, <3>1
  <2>6. CASE SendThrows \/ AttemptTimeout \/ Dispose
    BY <2>2, <2>6 DEF SendThrows, AttemptTimeout, Dispose, HandleClose, Disarmed
  <2>7. CASE UNCHANGED <<armed, state>>
    BY <2>1, <2>7
  <2>8. QED
    BY <2>3, <2>4, <2>5, <2>6, <2>7
       DEF Next, vars, client, ReadyTimeout, ReadyTaken, ReadsHello, Serves, Stops, Controls
<1>4. QED
  BY <1>2, <1>3 DEF ArmedInv

\* handleClose lets go of the socket in use; one it does not free may still
\* have frames on its way.
LEMMA CloseSocks ==
    ASSUME SocksInv, ws \in Socks, NEW left \in {"stale", "free"}, HandleClose(left),
           peer' \in [Socks -> {"none", "linked", "attached"}],
           down' \in [Socks -> Seq(Frame)],
           \A t \in Socks : t # ws => peer'[t] = peer[t] /\ down'[t] = down[t],
           left = "free" => peer'[ws] = "none" /\ down'[ws] = << >>
    PROVE  SocksInv'
<1>1. /\ end' = [end EXCEPT ![ws] = left]
      /\ \A t \in Socks : end[t] = "opening" => t = ws
  BY DEF HandleClose, SocksInv, SocketsInv
<1>2. /\ end' \in [Socks -> {"free", "opening", "open", "stale"}]
      /\ \A t \in Socks : end'[t] # "opening"
  BY <1>1 DEF SocksInv
<1>3. ASSUME NEW t \in Socks, end'[t] = "free" PROVE peer'[t] = "none" /\ down'[t] = << >>
  BY <1>1, <1>3 DEF SocksInv, SocketsInv
<1>4. QED
  BY <1>2, <1>3 DEF SocksInv, SocketsInv

\* A socket is used again only when both its ends are done with it.
LEMMA SocksStep == TransportInv /\ [Next]_vars => SocksInv'
<1> SUFFICES ASSUME TransportInv, [Next]_vars PROVE SocksInv'
  OBVIOUS
<1>1. ClientInv /\ ArmedInv /\ SocksInv
  BY InvParts
<1>2. CASE FirstUse \/ RetryTimer
  <2>1. state = "idle" /\ Connect /\ UNCHANGED <<peer, down>>
    BY <1>1, <1>2 DEF FirstUse, RetryTimer, ClientInv, TimersInv
  <2>2. QED
    BY <1>1, <2>1, ConnectSocks
<1>3. CASE Ready
  <2>1. CASE state = "idle"
    <3>1. Connect /\ UNCHANGED <<peer, down>>
      BY <1>3, <2>1 DEF Ready
    <3>2. QED
      BY <1>1, <2>1, <3>1, ConnectSocks
  <2>2. CASE state # "idle"
    BY <1>1, <1>3, <2>2 DEF Ready, SocksInv, SocketsInv
  <2>3. QED
    BY <2>1, <2>2
<1>4. CASE SendThrows \/ AttemptTimeout
  <2>1. HandleClose("stale") /\ UNCHANGED <<peer, down>> /\ ws \in Socks
    BY <1>1, <1>4 DEF SendThrows, AttemptTimeout, ClientInv, TimersInv
  <2>2. QED
    BY <1>1, <2>1, CloseSocks DEF SocksInv
<1>5. CASE Dispose
  BY <1>1, <1>5, TransportAssumption DEF Dispose, SocksInv, SocketsInv, ClientInv
<1>6. ASSUME NEW s \in Socks, Opens(s) PROVE SocksInv'
  <2>1. /\ s = ws /\ peer' = [peer EXCEPT ![s] = "linked"] /\ UNCHANGED down
        /\ end[s] = "opening"
    BY <1>1, <1>6 DEF Opens, SocksInv, SocketsInv
  <2>2. CASE HandleClose("stale")
    BY <1>1, <2>1, <2>2, CloseSocks DEF SocksInv
  <2>3. CASE end' = [end EXCEPT ![s] = "open"] /\ UNCHANGED <<state, ws>>
    BY <1>1, <2>1, <2>3 DEF SocksInv, SocketsInv
  <2>4. QED
    BY <1>6, <2>2, <2>3 DEF Opens
<1>7. ASSUME NEW s \in Socks, Reads(s) PROVE SocksInv'
  <2>1. s = ws /\ down[s] # << >> /\ down' = [down EXCEPT ![s] = Tail(@)] /\ UNCHANGED peer
    BY <1>7 DEF Reads
  <2>2. CASE HandleClose("stale")
    <3>1. down' \in [Socks -> Seq(Frame)]
      BY <1>1, <2>1 DEF SocksInv
    <3>2. QED
      BY <1>1, <2>1, <2>2, <3>1, CloseSocks DEF SocksInv
  <2>3. CASE UNCHANGED <<end, ws>>
    <3>1. end[s] \notin {"free", "opening"}
      BY <1>1, <2>1 DEF SocksInv, SocketsInv
    <3>2. \A t \in Socks : end[t] # "opening"
      BY <1>1, <2>1, <3>1 DEF SocksInv, SocketsInv
    <3>3. Tail(down[s]) \in Seq(Frame)
      BY <1>1, <2>1 DEF SocksInv
    <3>4. QED
      BY <1>1, <2>1, <2>3, <3>1, <3>2, <3>3 DEF SocksInv, SocketsInv
  <2>4. QED
    BY <1>7, <2>2, <2>3 DEF Reads, Attaches, DiesInTheFlush
<1>8. ASSUME NEW s \in Socks, Closes(s) PROVE SocksInv'
  <2>1. /\ peer' = [peer EXCEPT ![s] = "none"] /\ down' = [down EXCEPT ![s] = << >>]
        /\ s = ws => HandleClose("free")
        /\ s # ws => end' = [end EXCEPT ![s] = "free"] /\ UNCHANGED <<state, ws>>
    BY <1>8 DEF Closes
  <2>2. CASE s = ws
    BY <1>1, <2>1, <2>2, CloseSocks DEF SocksInv
  <2>3. CASE s # ws
    BY <1>1, <2>1, <2>3 DEF SocksInv, SocketsInv
  <2>4. QED
    BY <2>2, <2>3
<1>9. CASE UNCHANGED <<state, ws, end>> /\ (\E s \in Socks : ReadsHello(s)) 
  <2>1. Ack \in Frame
    BY <1>1 DEF Ack, Frame, ArmedInv
  <2>2. PICK s \in Socks : ReadsHello(s)
    BY <1>9
  <2>3. Append(down[s], Ack) \in Seq(Frame)
    BY <1>1, <2>1 DEF SocksInv
  <2>4. QED
    BY <1>1, <1>9, <2>2, <2>3 DEF ReadsHello, SocksInv, SocketsInv
<1>10. ASSUME NEW item \in Items, NEW type \in {"set", "clear"}, Controls(item, type)
       PROVE  SocksInv'
  <2>1. [type |-> type, item |-> item] \in Frame
    BY DEF Frame
  <2>2. /\ UNCHANGED <<state, ws, end, peer>>
        /\ down' = [s \in Socks |-> IF peer[s] = "attached"
                                    THEN Append(down[s], [type |-> type, item |-> item]) ELSE down[s]]
    BY <1>10 DEF Controls, Relayed, client
  <2>3. down' \in [Socks -> Seq(Frame)]
    BY <1>1, <2>1, <2>2 DEF SocksInv
  <2>4. QED
    BY <1>1, <2>2, <2>3 DEF SocksInv, SocketsInv
<1>11. CASE Stops
  BY <1>1, <1>11 DEF Stops, SocksInv, SocketsInv, client
<1>12. CASE UNCHANGED <<state, ws, end, peer, down>>
  BY <1>1, <1>12 DEF SocksInv, SocketsInv
<1>13. QED
  BY <1>2, <1>3, <1>4, <1>5, <1>6, <1>7, <1>8, <1>9, <1>10, <1>11, <1>12
     DEF Next, vars, client, ReadyTimeout, ReadyTaken, Serves, ReadsHello

-----------------------------------------------------------------------------
(* What is on its way to the client, and what it will have armed then.     *)

Silent(q, item) == \A k \in DOMAIN q : ~About(q[k], item)
SaysYes(q, item) ==
    \E k \in DOMAIN q : /\ About(q[k], item) /\ Arms(q[k], item)
                        /\ \A l \in DOMAIN q : About(q[l], item) => l <= k

LEMMA WillArmIs ==
    ASSUME NEW q, NEW item
    PROVE  WillArm(q, item) <=> (Silent(q, item) /\ item \in armed) \/ SaysYes(q, item)
<1> DEFINE about == {k \in DOMAIN q : About(q[k], item)}
<1>1. about = {} <=> Silent(q, item)
  BY DEF Silent
<1>2. (\E k \in about : Arms(q[k], item) /\ \A l \in about : l <= k) <=> SaysYes(q, item)
  BY DEF SaysYes
<1>3. QED
  BY <1>1, <1>2 DEF WillArm

LEMMA LastWordAppend ==
    ASSUME NEW q \in Seq(Frame), NEW f \in Frame, NEW item
    PROVE  /\ Silent(Append(q, f), item) <=> Silent(q, item) /\ ~About(f, item)
           /\ About(f, item) => (SaysYes(Append(q, f), item) <=> Arms(f, item))
           /\ ~About(f, item) => (SaysYes(Append(q, f), item) <=> SaysYes(q, item))
<1> DEFINE p == Append(q, f)
           n == Len(q) + 1
<1>1. /\ DOMAIN p = 1..n /\ DOMAIN q = 1..Len(q) /\ Len(q) \in Nat
      /\ p[n] = f /\ \A i \in DOMAIN q : p[i] = q[i]
  OBVIOUS
<1>2. /\ n \in DOMAIN p /\ DOMAIN q \subseteq DOMAIN p
      /\ \A i \in DOMAIN p : i \in DOMAIN q \/ i = n
      /\ \A i \in DOMAIN p : i <= n
      /\ \A i \in DOMAIN q : ~(n <= i)
  BY <1>1
<1> HIDE DEF p, n
<1>3. Silent(p, item) <=> Silent(q, item) /\ ~About(f, item)
  BY <1>1, <1>2 DEF Silent
<1>4. ASSUME About(f, item) PROVE SaysYes(p, item) <=> Arms(f, item)
  <2>1. ASSUME SaysYes(p, item) PROVE Arms(f, item)
    <3>1. PICK k \in DOMAIN p : /\ About(p[k], item) /\ Arms(p[k], item)
                               /\ \A l \in DOMAIN p : About(p[l], item) => l <= k
      BY <2>1 DEF SaysYes
    <3>2. n <= k
      BY <1>1, <1>2, <1>4, <3>1
    <3>3. k = n
      BY <1>2, <3>1, <3>2
    <3>4. QED
      BY <1>1, <3>1, <3>3
  <2>2. ASSUME Arms(f, item) PROVE SaysYes(p, item)
    BY <1>1, <1>2, <1>4, <2>2 DEF SaysYes
  <2>3. QED
    BY <2>1, <2>2
<1>5. ASSUME ~About(f, item) PROVE SaysYes(p, item) <=> SaysYes(q, item)
  <2>1. \A k \in DOMAIN p : About(p[k], item) <=> k \in DOMAIN q /\ About(q[k], item)
    BY <1>1, <1>2, <1>5
  <2>2. QED
    BY <1>1, <1>2, <2>1 DEF SaysYes
<1>6. QED
  BY <1>3, <1>4, <1>5 DEF p

LEMMA LastWordTail ==
    ASSUME NEW q \in Seq(Frame), q # << >>, NEW item
    PROVE  /\ Silent(q, item) <=> Silent(Tail(q), item) /\ ~About(Head(q), item)
           /\ SaysYes(q, item) <=>
                 \/ SaysYes(Tail(q), item)
                 \/ Silent(Tail(q), item) /\ About(Head(q), item) /\ Arms(Head(q), item)
<1> DEFINE p == Tail(q)
           h == Head(q)
<1>1. /\ DOMAIN q = 1..Len(q) /\ DOMAIN p = 1..(Len(q) - 1) /\ Len(q) \in Nat \ {0}
      /\ \A i \in DOMAIN p : p[i] = q[i + 1]
      /\ h = q[1]
  OBVIOUS
<1> HIDE DEF p, h
<1>2. /\ 1 \in DOMAIN q
      /\ \A i \in DOMAIN p : i + 1 \in DOMAIN q /\ ~(i + 1 <= 1)
      /\ \A j \in DOMAIN q : j = 1 \/ (j - 1 \in DOMAIN p /\ (j - 1) + 1 = j)
      /\ \A i, j \in DOMAIN p : i <= j <=> i + 1 <= j + 1
      /\ \A j \in DOMAIN q : 1 <= j
  BY <1>1
<1>3. \A j \in DOMAIN q : j = 1 \/ \E i \in DOMAIN p : j = i + 1 /\ p[i] = q[j]
  BY <1>1, <1>2
<1>4. Silent(q, item) <=> Silent(p, item) /\ ~About(h, item)
  BY <1>1, <1>2, <1>3 DEF Silent
<1>5. ASSUME SaysYes(q, item)
      PROVE  SaysYes(p, item) \/ (Silent(p, item) /\ About(h, item) /\ Arms(h, item))
  <2>1. PICK k \in DOMAIN q : /\ About(q[k], item) /\ Arms(q[k], item)
                             /\ \A l \in DOMAIN q : About(q[l], item) => l <= k
    BY <1>5 DEF SaysYes
  <2>2. CASE k = 1
    <3>1. \A i \in DOMAIN p : ~About(p[i], item)
      BY <1>1, <1>2, <2>1, <2>2
    <3>2. QED
      BY <1>1, <2>1, <2>2, <3>1 DEF Silent
  <2>3. ASSUME NEW i \in DOMAIN p, k = i + 1, p[i] = q[k] PROVE SaysYes(p, item)
    <3>1. ASSUME NEW l \in DOMAIN p, About(p[l], item) PROVE l <= i
      <4>1. l + 1 \in DOMAIN q /\ About(q[l + 1], item)
        BY <1>1, <1>2, <3>1
      <4>2. l + 1 <= i + 1
        BY <2>1, <2>3, <4>1
      <4>3. QED
        BY <1>2, <4>2
    <3>2. QED
      BY <2>1, <2>3, <3>1 DEF SaysYes
  <2>4. QED
    BY <1>3, <2>2, <2>3
<1>6. ASSUME SaysYes(p, item) PROVE SaysYes(q, item)
  <2>1. PICK k \in DOMAIN p : /\ About(p[k], item) /\ Arms(p[k], item)
                             /\ \A l \in DOMAIN p : About(p[l], item) => l <= k
    BY <1>6 DEF SaysYes
  <2>2. k + 1 \in DOMAIN q /\ q[k + 1] = p[k]
    BY <1>1, <1>2
  <2>3. ASSUME NEW l \in DOMAIN q, About(q[l], item) PROVE l <= k + 1
    <3>1. CASE l = 1
      BY <1>1, <3>1
    <3>2. ASSUME NEW i \in DOMAIN p, l = i + 1, p[i] = q[l] PROVE l <= k + 1
      <4>1. i <= k
        BY <2>1, <2>3, <3>2
      <4>2. QED
        BY <1>2, <3>2, <4>1
    <3>3. QED
      BY <1>3, <3>1, <3>2
  <2>4. QED
    BY <2>1, <2>2, <2>3 DEF SaysYes
<1>7. ASSUME Silent(p, item), About(h, item), Arms(h, item) PROVE SaysYes(q, item)
  <2>1. \A l \in DOMAIN q : About(q[l], item) => l = 1
    BY <1>3, <1>7 DEF Silent
  <2>2. \A l \in DOMAIN q : About(q[l], item) => l <= 1
    BY <2>1
  <2>3. QED
    BY <1>1, <1>2, <1>7, <2>2 DEF SaysYes
<1>8. QED
  BY <1>4, <1>5, <1>6, <1>7 DEF p, h

-----------------------------------------------------------------------------
(* Engine and server.                                                      *)

\* A server that is down has no connections.
PeersInv == ~serving => \A s \in Socks : peer[s] = "none"
\* What the client will have armed, of the socket in use.
Follows == \A item \in Items : WillArm(down[ws], item) <=> item \in server
FollowInv == TransportInv /\ PeersInv /\ ArmedFollowsServer

\* Reading one frame changes what is armed, not what will be.
LEMMA ReadingKeeps ==
    ASSUME FollowInv, NEW q \in Seq(Frame), q # << >>, NEW item \in Items,
           \/ Head(q).type = "ack" /\ armed' = Head(q).items
           \/ armed' = Applied(armed, Head(q))
    PROVE  WillArm(Tail(q), item)' <=> WillArm(q, item)
<1> DEFINE h == Head(q)
           p == Tail(q)
<1>1. h \in Frame
  OBVIOUS
<1>2. item \in armed' <=> (About(h, item) /\ Arms(h, item)) \/ (~About(h, item) /\ item \in armed)
  BY <1>1 DEF About, Arms, Applied, Frame
<1>3. /\ Silent(q, item) <=> Silent(p, item) /\ ~About(h, item)
      /\ SaysYes(q, item) <=> SaysYes(p, item) \/ (Silent(p, item) /\ About(h, item) /\ Arms(h, item))
  BY LastWordTail
<1>4. WillArm(p, item)' <=> (Silent(p, item) /\ item \in armed') \/ SaysYes(p, item)
  <2>1. \A r : WillArm(r, item) <=> (Silent(r, item) /\ item \in armed) \/ SaysYes(r, item)
    BY WillArmIs
  <2>2. QED
    BY DEF WillArm, Silent, SaysYes
<1>5. WillArm(q, item) <=> (Silent(q, item) /\ item \in armed) \/ SaysYes(q, item)
  BY WillArmIs
<1> HIDE DEF h, p
<1>6. QED
  BY <1>2, <1>3, <1>4, <1>5 DEF p

LEMMA PeersStep == FollowInv /\ [Next]_vars => PeersInv'
<1> SUFFICES ASSUME FollowInv, [Next]_vars, ~serving' PROVE \A s \in Socks : peer'[s] = "none"
  BY DEF PeersInv
<1>1. peer \in [Socks -> {"none", "linked", "attached"}] /\ PeersInv
  BY DEF FollowInv, TransportInv, TypeOK
<1>2. CASE Stops
  BY <1>2 DEF Stops
<1>3. ASSUME NEW s \in Socks, Opens(s) \/ ReadsHello(s) PROVE FALSE
  <2>1. serving
    BY <1>1, <1>3 DEF Opens, ReadsHello, PeersInv
  <2>2. serving' = serving
    BY <1>3 DEF Opens, ReadsHello, hub
  <2>3. QED
    BY <2>1, <2>2
<1>4. ASSUME NEW s \in Socks, Closes(s) PROVE \A t \in Socks : peer'[t] = "none"
  BY <1>1, <1>4 DEF Closes, PeersInv, hub
<1>5. CASE UNCHANGED <<peer, serving>>
  BY <1>1, <1>5 DEF PeersInv
<1>6. QED
  BY <1>2, <1>3, <1>4, <1>5
     DEF Next, vars, hub, FirstUse, Ready, ReadyTimeout, ReadyTaken, SendThrows, Dispose, RetryTimer,
         AttemptTimeout, Reads, Serves, Controls

\* The socket in use is replaced by nothing, or by one its server has yet to
\* see.
LEMMA NewSocket ==
    ASSUME FollowInv, [Next]_vars, ws' # ws, ws' # None PROVE ws' \in Socks /\ peer'[ws'] # "attached"
<1>1. TransportInv /\ SocketsInv
  BY DEF FollowInv, TransportInv
<1>2. CASE Connect /\ UNCHANGED peer
  <2>1. ws' \in Socks /\ end[ws'] = "free"
    BY <1>2 DEF Connect
  <2>2. QED
    BY <1>1, <1>2, <2>1 DEF SocketsInv
<1>3. CASE FirstUse \/ RetryTimer \/ Ready
  BY <1>2, <1>3 DEF FirstUse, RetryTimer, Ready
<1>4. ASSUME NEW s \in Socks, Opens(s) \/ Closes(s) \/ Reads(s) PROVE FALSE
  BY <1>4 DEF Opens, Closes, Reads, HandleClose, Attaches, DiesInTheFlush
<1>5. CASE SendThrows \/ AttemptTimeout \/ Dispose
  BY <1>5 DEF SendThrows, AttemptTimeout, Dispose, HandleClose
<1>6. QED
  BY <1>3, <1>4, <1>5
     DEF Next, vars, client, ReadyTimeout, ReadyTaken, ReadsHello, Serves, Stops, Controls

\* A step that adds no frame, reads none and arms nothing.
LEMMA Undisturbed ==
    ASSUME FollowInv, ws' = ws, UNCHANGED <<compatible, armed, down, server>>,
           peer'[ws] = "attached" => peer[ws] = "attached"
    PROVE  ArmedFollowsServer'
<1>1. ArmedFollowsServer
  BY DEF FollowInv
<1>2. QED
  BY <1>1 DEF ArmedFollowsServer, WillArm

LEMMA FollowStep == FollowInv /\ [Next]_vars => ArmedFollowsServer'
<1> SUFFICES ASSUME FollowInv, [Next]_vars, compatible', ws' # None, peer'[ws'] = "attached",
                    NEW item \in Items
             PROVE  WillArm(down[ws], item)' <=> item \in server'
  BY DEF ArmedFollowsServer
<1>1. /\ TransportInv /\ SocksInv /\ PeersInv /\ ArmedFollowsServer
      /\ server \subseteq Items
      /\ down \in [Socks -> Seq(Frame)] /\ peer \in [Socks -> {"none", "linked", "attached"}]
  BY InvParts DEF FollowInv, SocksInv, ArmedInv
<1>2. ws' = ws /\ ws \in Socks /\ compatible
  <2>1. ws' = ws
    BY NewSocket
  <2>2. ws \in Socks \cup {None}
    BY <1>1 DEF TransportInv, TypeOK
  <2>3. UNCHANGED compatible
    BY DEF Next, vars, config, FirstUse, Ready, ReadyTimeout, ReadyTaken, SendThrows, Dispose, RetryTimer,
       AttemptTimeout, Opens, Reads, Closes, Serves, Stops, ReadsHello, Controls
  <2>4. QED
    BY <2>1, <2>2, <2>3
<1>3. ws # None
  BY <1>2
<1>4. CASE /\ UNCHANGED <<compatible, armed, down, server>>
           /\ peer'[ws] = "attached" => peer[ws] = "attached"
  <2>1. ArmedFollowsServer'
    BY <1>2, <1>4, Undisturbed
  <2>2. QED
    BY <2>1 DEF ArmedFollowsServer
<1>5. CASE SendThrows \/ AttemptTimeout \/ Dispose
  <2>1. ws' = None
    BY <1>5 DEF SendThrows, AttemptTimeout, Dispose, HandleClose
  <2>2. QED
    BY <2>1
<1>6. ASSUME NEW s \in Socks, Opens(s) PROVE WillArm(down[ws], item)' <=> item \in server'
  <2>1. s = ws
    BY <1>1, <1>6 DEF Opens, SocksInv, SocketsInv
  <2>2. peer'[ws] = "linked"
    BY <1>1, <1>6, <2>1 DEF Opens
  <2>3. QED
    BY <1>2, <2>2
<1>7. ASSUME NEW s \in Socks, Closes(s) PROVE WillArm(down[ws], item)' <=> item \in server'
  <2>1. s # ws
    BY <1>2, <1>3, <1>7 DEF Closes, HandleClose
  <2>2. /\ UNCHANGED <<armed, server>> /\ down'[ws] = down[ws] /\ peer'[ws] = peer[ws]
    BY <1>1, <1>2, <1>7, <2>1 DEF Closes, hub
  <2>3. \A i \in Items : WillArm(down[ws], i) <=> i \in server
    BY <1>1, <1>2, <1>3, <2>2 DEF ArmedFollowsServer
  <2>4. WillArm(down[ws], item)' <=> WillArm(down[ws], item)
    BY <1>2, <2>2 DEF WillArm
  <2>5. QED
    BY <2>2, <2>3, <2>4
<1>8. ASSUME NEW s \in Socks, Reads(s) PROVE WillArm(down[ws], item)' <=> item \in server'
  <2>1. /\ s = ws /\ down[s] # << >> /\ down' = [down EXCEPT ![s] = Tail(@)] /\ UNCHANGED <<peer, server>>
        /\ \/ Head(down[s]).type = "ack" /\ armed' = Head(down[s]).items
           \/ armed' = Applied(armed, Head(down[s]))
           \/ HandleClose("stale")
    BY <1>2, <1>8 DEF Reads, Attaches, DiesInTheFlush, hub
  <2>2. ~HandleClose("stale")
    BY <1>2, <1>3 DEF HandleClose
  <2>3. down'[ws] = Tail(down[ws]) /\ down[ws] \in Seq(Frame) /\ down[ws] # << >>
    BY <1>1, <1>2, <2>1
  <2>4. WillArm(down[ws], item) <=> item \in server
    BY <1>1, <1>2, <1>3, <2>1 DEF ArmedFollowsServer
  <2>5. PICK q \in Seq(Frame) : q = down[ws]
    BY <2>3
  <2>6. WillArm(Tail(q), item)' <=> WillArm(q, item)
    BY <2>1, <2>2, <2>3, <2>5, ReadingKeeps
  <2>7. WillArm(down[ws], item)' <=> WillArm(Tail(q), item)'
    BY <1>2, <2>3, <2>5 DEF WillArm
  <2>8. QED
    BY <2>1, <2>4, <2>5, <2>6, <2>7
\* A frame more: what it says of an item is what the server has.
<1>9. ASSUME NEW f \in Frame, down'[ws] = Append(down[ws], f), UNCHANGED armed,
             About(f, item) => (Arms(f, item) <=> item \in server'),
             ~About(f, item) => (WillArm(down[ws], item) <=> item \in server')
      PROVE  WillArm(down[ws], item)' <=> item \in server'
  <2>1. down[ws] \in Seq(Frame)
    BY <1>1, <1>2
  <2>2. WillArm(down[ws], item)' <=> WillArm(Append(down[ws], f), item)
    BY <1>2, <1>9 DEF WillArm
  <2>3. /\ WillArm(Append(down[ws], f), item) <=>
              (Silent(Append(down[ws], f), item) /\ item \in armed) \/ SaysYes(Append(down[ws], f), item)
        /\ WillArm(down[ws], item) <=> (Silent(down[ws], item) /\ item \in armed) \/ SaysYes(down[ws], item)
    BY WillArmIs
  <2>4. /\ Silent(Append(down[ws], f), item) <=> Silent(down[ws], item) /\ ~About(f, item)
        /\ About(f, item) => (SaysYes(Append(down[ws], f), item) <=> Arms(f, item))
        /\ ~About(f, item) => (SaysYes(Append(down[ws], f), item) <=> SaysYes(down[ws], item))
    BY <2>1, LastWordAppend
  <2>5. QED
    BY <1>9, <2>2, <2>3, <2>4
<1>10. ASSUME NEW s \in Socks, ReadsHello(s) PROVE WillArm(down[ws], item)' <=> item \in server'
  <2>1. /\ UNCHANGED <<armed, compatible, server>>
        /\ down' = [down EXCEPT ![s] = Append(@, Ack)] /\ peer' = [peer EXCEPT ![s] = "attached"]
    BY <1>10 DEF ReadsHello, client, hub, config
  <2>2. CASE s = ws
    <3>1. Ack \in Frame /\ Ack.type = "ack" /\ Ack.items = server
      BY <1>1 DEF Ack, Frame
    <3>2. About(Ack, item) /\ (Arms(Ack, item) <=> item \in server')
      BY <2>1, <3>1 DEF About, Arms
    <3>3. down'[ws] = Append(down[ws], Ack)
      BY <1>1, <1>2, <2>1, <2>2
    <3>4. QED
      BY <1>9, <2>1, <3>1, <3>2, <3>3
  <2>3. CASE s # ws
    <3>1. down'[ws] = down[ws] /\ peer'[ws] = peer[ws]
      BY <1>1, <1>2, <2>1, <2>3
    <3>2. WillArm(down[ws], item) <=> item \in server
      BY <1>1, <1>2, <1>3, <3>1 DEF ArmedFollowsServer
    <3>3. WillArm(down[ws], item)' <=> WillArm(down[ws], item)
      BY <1>2, <2>1, <3>1 DEF WillArm
    <3>4. QED
      BY <2>1, <3>2, <3>3
  <2>4. QED
    BY <2>2, <2>3
<1>11. ASSUME NEW i \in Items, NEW type \in {"set", "clear"}, Controls(i, type)
       PROVE  WillArm(down[ws], item)' <=> item \in server'
  <2> DEFINE f == [type |-> type, item |-> i]
  <2>1. /\ UNCHANGED <<armed, compatible, peer>>
        /\ server' = IF type = "set" THEN server \cup {i} ELSE server \ {i}
        /\ down' = [s \in Socks |-> IF peer[s] = "attached" THEN Append(down[s], f) ELSE down[s]]
    BY <1>11 DEF Controls, Relayed, client, config
  <2>2. peer[ws] = "attached"
    BY <1>2, <2>1
  <2>3. f \in Frame /\ f.type = type /\ f.item = i
    BY DEF Frame
  <2>4. down'[ws] = Append(down[ws], f)
    BY <1>2, <2>1, <2>2
  <2>5. WillArm(down[ws], item) <=> item \in server
    BY <1>1, <1>2, <1>3, <2>2 DEF ArmedFollowsServer
  <2>6. /\ About(f, item) <=> item = i
        /\ Arms(f, item) <=> type = "set"
    BY <2>3 DEF About, Arms
  <2>7. /\ item = i => (item \in server' <=> type = "set")
        /\ item # i => (item \in server' <=> item \in server)
    BY <2>1
  <2> HIDE DEF f
  <2>8. QED
    BY <1>9, <2>1, <2>3, <2>4, <2>5, <2>6, <2>7
<1>12. CASE Serves
  <2>1. \A s \in Socks : peer'[s] = "none"
    BY <1>1, <1>12 DEF Serves, PeersInv
  <2>2. QED
    BY <1>2, <2>1
<1>13. CASE Stops
  BY <1>2, <1>13 DEF Stops
<1>14. CASE FirstUse \/ Ready \/ RetryTimer
  <2>1. UNCHANGED <<armed, peer, down, server>>
    BY <1>14 DEF FirstUse, Ready, RetryTimer, hub
  <2>2. UNCHANGED compatible
    BY <1>14 DEF FirstUse, Ready, RetryTimer, config
  <2>3. QED
    BY <1>4, <2>1, <2>2
<1>15. CASE ReadyTimeout \/ ReadyTaken \/ UNCHANGED vars
  BY <1>4, <1>15 DEF ReadyTimeout, ReadyTaken, vars, config, client, hub
<1>16. QED
  BY <1>5, <1>6, <1>7, <1>8, <1>10, <1>11, <1>12, <1>13, <1>14, <1>15 DEF Next

-----------------------------------------------------------------------------
(* Theorems.                                                               *)

LEMMA TransportStarts == Init => TransportInv
<1> SUFFICES ASSUME Init PROVE TransportInv
  OBVIOUS
<1>1. << >> \in Seq(Frame)
  OBVIOUS
<1>2. end = [s \in Socks |-> "free"] /\ peer = [s \in Socks |-> "none"] /\ down = [s \in Socks |-> << >>]
  BY DEF Init
<1>3. SocksInv
  BY <1>1, <1>2 DEF SocksInv, SocketsInv
<1>4. ClientInv
  BY DEF Init, ClientInv, TimersInv, NeverStranded, NobodyWaitsInVain
<1>5. ArmedInv
  BY TransportAssumption DEF Init, ArmedInv, DetachedIsDisarmed
<1>6. QED
  BY <1>3, <1>4, <1>5, InvParts

LEMMA TransportStep == TransportInv /\ [Next]_vars => TransportInv'
<1> SUFFICES ASSUME TransportInv, [Next]_vars PROVE TransportInv'
  OBVIOUS
<1>1. ClientInv' /\ ArmedInv' /\ SocksInv'
  BY ClientStep, ArmedStep, SocksStep
<1>2. QED
  BY <1>1 DEF TransportInv, ClientInv, ArmedInv, SocksInv, TypeOK

LEMMA TransportInvHolds == Spec => []TransportInv
BY TransportStep, TransportStarts, PTL DEF Spec

\* Every reachable state is well typed: one attempt at a time, one socket in
\* use exactly while there is one.
THEOREM TypeCorrect == Spec => []TypeOK
<1>1. TransportInv => TypeOK
  BY DEF TransportInv
<1>2. QED
  BY <1>1, TransportInvHolds, PTL

\* However timeouts, closes, kicks and dying sends share the one retry timer,
\* a started client that is idle has a retry coming, and an attempt has the
\* timeout that ends it (handleClose, scheduleRetry, kick, abandon).
THEOREM ClientIsNeverStranded == Spec => []NeverStranded
<1>1. TransportInv => NeverStranded
  BY DEF TransportInv
<1>2. QED
  BY <1>1, TransportInvHolds, PTL

\* handleDetached disarms on every way out of an attachment: nothing is armed
\* while no debugger is attached.
THEOREM NothingArmedDetached == Spec => []DetachedIsDisarmed
<1>1. TransportInv => DetachedIsDisarmed
  BY DEF TransportInv
<1>2. QED
  BY <1>1, TransportInvHolds, PTL

\* settleReadyWaiters is reached from every attach and every dispose: no
\* ready() waits for what is there or cannot come.
THEOREM NoVainWait == Spec => []NobodyWaitsInVain
<1>1. TransportInv => NobodyWaitsInVain
  BY DEF TransportInv
<1>2. QED
  BY <1>1, TransportInvHolds, PTL

\* Once the client has read what is on its way, its engine has armed what the
\* server has: changes that overtake the handshake are in the ack or behind it,
\* and a server that starts again begins with a new handshake (hello.ack,
\* relayControl, handleAttached).
THEOREM ArmedAsServed == Spec => []ArmedFollowsServer
<1>1. Init => FollowInv
  <2>1. Init => TransportInv
    BY TransportStarts
  <2>2. Init => PeersInv /\ ArmedFollowsServer
    BY DEF Init, PeersInv, ArmedFollowsServer
  <2>3. QED
    BY <2>1, <2>2 DEF FollowInv
<1>2. TransportInv /\ [Next]_vars => TransportInv'
  BY TransportStep
<1>3. FollowInv /\ [Next]_vars => FollowInv'
  BY <1>2, PeersStep, FollowStep DEF FollowInv
<1>4. FollowInv => ArmedFollowsServer
  BY DEF FollowInv
<1>5. QED
  BY <1>1, <1>3, <1>4, PTL DEF Spec

-----------------------------------------------------------------------------
(* EventBuffer: induction, and folds as runs.                               *)

LEMMA Least == ASSUME NEW T \in SUBSET Nat, T # {} PROVE \E x \in T : \A y \in T : x <= y
<1>1. PICK x \in T : \A y \in T : <<y, x>> \notin OpToRel(<, Nat)
  BY NatLessThanWellFounded, WFMin
<1>2. \A y \in T : <<y, x>> \in OpToRel(<, Nat) <=> y < x
  BY Zenon DEF OpToRel
<1>3. \A y \in T : ~(y < x)
  BY <1>1, <1>2, Zenon
<1>4. QED
  BY <1>3

\* Induction, for the numbers of a set.
LEMMA Climb ==
    ASSUME NEW N \in Nat, NEW T, 0 \in T, \A n \in 0..(N - 1) : n \in T => n + 1 \in T
    PROVE  \A n \in 0..N : n \in T
<1> SUFFICES ASSUME {n \in 0..N : n \notin T} # {} PROVE FALSE
  OBVIOUS
<1>1. PICK x \in {n \in 0..N : n \notin T} : \A y \in {n \in 0..N : n \notin T} : x <= y
  <2>1. {n \in 0..N : n \notin T} \in SUBSET Nat
    OBVIOUS
  <2>2. QED
    BY <2>1, Least
<1>2. x # 0 /\ x - 1 \in 0..(N - 1) /\ x - 1 \in T
  BY <1>1
<1>3. QED
  BY <1>1, <1>2

LEMMA MaxOfPrefix ==
    ASSUME NEW n \in Nat, NEW t, t \subseteq 1..n, t # {}
    PROVE  Max(t) \in t /\ \A x \in t : x <= Max(t)
<1>1. {n - x : x \in t} \in SUBSET Nat /\ {n - x : x \in t} # {}
  <2>1. \A x \in t : n - x \in Nat
    OBVIOUS
  <2>2. QED
    BY <2>1
<1>2. PICK d \in {n - x : x \in t} : \A y \in {n - x : x \in t} : d <= y
  BY <1>1, Least
<1>3. PICK m \in t : d = n - m
  BY <1>2
<1>4. \A x \in t : x <= m
  BY <1>2, <1>3
<1>5. QED
  BY <1>4 DEF Max

LEMMA TopOfPrefix ==
    ASSUME NEW n \in Nat
    PROVE  Max(1..(n + 1)) = n + 1 /\ (1..(n + 1)) \ {n + 1} = 1..n
<1>1. n + 1 \in Nat /\ 1..(n + 1) # {}
  BY n + 1 \in 1..(n + 1)
<1>2. Max(1..(n + 1)) \in 1..(n + 1) /\ \A x \in 1..(n + 1) : x <= Max(1..(n + 1))
  BY <1>1, MaxOfPrefix
<1>3. QED
  BY <1>2

LEMMA PrefixStep ==
    ASSUME NEW N \in Nat, NEW n \in 0..(N - 1)
    PROVE  /\ n \in 0..N /\ n + 1 \in 0..N /\ 1..(n + 1) \in SUBSET (1..N) /\ 1..(n + 1) # {}
           /\ Max(1..(n + 1)) = n + 1 /\ (1..(n + 1)) \ {n + 1} = 1..n
<1>1. n \in Nat /\ n \in 0..N /\ n + 1 \in 0..N
  OBVIOUS
<1>2. \A k \in 1..(n + 1) : k \in 1..N
  BY <1>1
<1>3. n + 1 \in 1..(n + 1)
  BY <1>1
<1>4. QED
  BY <1>1, <1>2, <1>3, TopOfPrefix

\* The function of a fold of G over the first N of es, and that there is one.
IsFold(f, S, G, b, N, es) ==
    /\ f \in [SUBSET (1..N) -> S]
    /\ \A t \in SUBSET (1..N) :
          f[t] = IF t = {} THEN b ELSE G[<<f[t \ {Max(t)}], es[Max(t)]>>]

LEMMA FoldExists ==
    ASSUME NEW S, NEW E, NEW G \in [S \X E -> S], NEW b \in S, NEW N \in Nat, NEW es \in [1..N -> E]
    PROVE  \E f : IsFold(f, S, G, b, N, es)
<1> USE DEF IsFold
<1> DEFINE Fold(f, n) == IsFold(f, S, G, b, n, es)
           T == {n \in 0..N : \E f : Fold(f, n)}
<1>1. 0 \in T
  <2>1. Fold([t \in SUBSET (1..0) |-> b], 0)
    <3>1. \A t \in SUBSET (1..0) : t = {}
      OBVIOUS
    <3>2. QED
      BY <3>1
  <2>2. \E f : Fold(f, 0)
    BY <2>1
  <2>3. QED
    <3> HIDE DEF Fold, IsFold
    <3>1. QED
      BY <2>2
<1>2. ASSUME NEW n \in 0..(N - 1), n \in T PROVE n + 1 \in T
  <2> n \in Nat /\ n + 1 \in Nat /\ n + 1 \in 0..N
    OBVIOUS
  <2>1. PICK f : Fold(f, n)
    BY <1>2
  <2> DEFINE g == [t \in SUBSET (1..(n + 1)) |->
                     IF n + 1 \in t THEN G[<<f[t \ {n + 1}], es[n + 1]>>] ELSE f[t]]
  <2>2. \A t \in SUBSET (1..(n + 1)) : n + 1 \notin t => t \in SUBSET (1..n)
    OBVIOUS
  <2>3. \A t \in SUBSET (1..(n + 1)) : t \ {n + 1} \in SUBSET (1..n)
    OBVIOUS
  <2>4. es[n + 1] \in E
    OBVIOUS
  <2>5. g \in [SUBSET (1..(n + 1)) -> S]
    <3>1. ASSUME NEW t \in SUBSET (1..(n + 1)) PROVE g[t] \in S
      BY <2>1, <2>2, <2>3, <2>4
    <3>2. QED
      BY <3>1
  <2>6. ASSUME NEW t \in SUBSET (1..(n + 1))
        PROVE  g[t] = IF t = {} THEN b ELSE G[<<g[t \ {Max(t)}], es[Max(t)]>>]
    <3>1. CASE n + 1 \in t
      <4>1. Max(t) = n + 1
        <5>1. Max(t) \in t /\ \A x \in t : x <= Max(t)
          BY <3>1, MaxOfPrefix
        <5>2. Max(t) \in 1..(n + 1) /\ n + 1 <= Max(t)
          BY <3>1, <5>1
        <5>3. QED
          BY <5>2
      <4>2. g[t \ {n + 1}] = f[t \ {n + 1}]
        OBVIOUS
      <4>3. QED
        BY <3>1, <4>1, <4>2
    <3>2. CASE n + 1 \notin t /\ t # {}
      <4>1. t \in SUBSET (1..n) /\ g[t] = f[t]
        BY <2>2, <3>2
      <4>2. Max(t) \in t
        BY <3>2, <4>1, MaxOfPrefix
      <4>3. t \ {Max(t)} \in SUBSET (1..(n + 1)) /\ n + 1 \notin t \ {Max(t)}
        BY <3>2
      <4>4. g[t \ {Max(t)}] = f[t \ {Max(t)}]
        BY <4>3
      <4>5. QED
        BY <2>1, <3>2, <4>1, <4>4
    <3>3. CASE t = {}
      <4>1. g[t] = f[t] /\ t \in SUBSET (1..n)
        BY <3>3
      <4>2. QED
        BY <2>1, <3>3, <4>1
    <3>4. QED
      BY <3>1, <3>2, <3>3
  <2>7. Fold(g, n + 1)
    BY <2>5, <2>6
  <2>8. \E h : Fold(h, n + 1)
    <3> HIDE DEF Fold, IsFold, g
    <3>1. QED
      BY <2>7
  <2>9. QED
    BY <2>8
<1>3. N \in T
  <2> HIDE DEF T, Fold, IsFold
  <2>1. \A n \in 0..(N - 1) : n \in T => n + 1 \in T
    BY <1>2
  <2>2. \A n \in 0..N : n \in T
    BY <1>1, <2>1, Climb
  <2>3. QED
    BY <2>2
<1>4. QED
  <2> HIDE DEF IsFold
  <2>1. QED
    BY <1>3

Events == [run : Runs, seq : Nat, size : Sizes \cup {Small}, sent : BOOLEAN]
Keyed == [run : Runs, seq : Nat]
Records == [run : Runs, count : Nat, from : Nat, to : Nat]
OnWire == [kind : {"event", "gap"}, run : Runs, seq : Nat]
Sessions ==
    [link : {"idle", "connecting", "attached"}, seq : Nat, buffer : Seq(Events), gaps : Seq(Records),
     unattributed : Nat, lost : SUBSET Keyed, held : Seq(Runs), wire : Seq(OnWire), stale : Seq(OnWire),
     emitted : SUBSET Keyed, told : Nat, dark : BOOLEAN]

\* A session is its fields.
LEMMA SessionIs ==
    ASSUME NEW s \in Sessions
    PROVE  /\ s.link \in {"idle", "connecting", "attached"} /\ s.seq \in Nat
           /\ s.buffer \in Seq(Events) /\ s.gaps \in Seq(Records) /\ s.unattributed \in Nat
           /\ s.lost \subseteq Keyed /\ s.held \in Seq(Runs) /\ s.wire \in Seq(OnWire)
           /\ s.stale \in Seq(OnWire) /\ s.emitted \subseteq Keyed /\ s.told \in Nat
           /\ s.dark \in BOOLEAN
BY DEF Sessions

\* The loss of e leaves everything of s but the records of losses.
LossOf(r, s, e) ==
    /\ r \in Sessions
    /\ r.link = s.link /\ r.seq = s.seq /\ r.buffer = s.buffer /\ r.held = s.held
    /\ r.wire = s.wire /\ r.stale = s.stale /\ r.emitted = s.emitted /\ r.told = s.told
    /\ r.dark = s.dark
    /\ r.lost = s.lost \cup {Key(e)}

LEMMA EvictionFacts ==
    ASSUME NEW s \in Sessions, NEW e \in Events
    PROVE  LET r == RecordEviction(s, e) IN
           /\ e.sent => r = s
           /\ ~e.sent =>
                /\ LossOf(r, s, e)
                /\ \/ /\ GapOf(s.gaps, e.run) # {} /\ r.unattributed = s.unattributed
                      /\ r.gaps = [i \in DOMAIN s.gaps |-> IF s.gaps[i].run = e.run THEN Widened(s.gaps[i], e)
                                                                                  ELSE s.gaps[i]]
                   \/ /\ GapOf(s.gaps, e.run) = {} /\ r.unattributed = s.unattributed
                      /\ Len(s.gaps) < MaxTrackedGapRuns
                      /\ r.gaps = Append(s.gaps, [run |-> e.run, count |-> 1, from |-> e.seq, to |-> e.seq])
                   \/ /\ r.gaps = s.gaps /\ r.unattributed = s.unattributed + 1
<1> DEFINE r == RecordEviction(s, e)
           more == s.lost \cup {Key(e)}
           counted == [s EXCEPT !.lost = more]
           wide == [i \in DOMAIN s.gaps |-> IF s.gaps[i].run = e.run THEN Widened(s.gaps[i], e) ELSE s.gaps[i]]
           one == [run |-> e.run, count |-> 1, from |-> e.seq, to |-> e.seq]
<1>1. CASE e.sent
  BY <1>1 DEF RecordEviction, Lost
<1>2. CASE ~e.sent
  <2>1. Key(e) \in Keyed /\ one \in Records /\ e.run \in Runs /\ e.seq \in Nat
    BY DEF Events, Keyed, Records, Key
  <2>2. more \subseteq Keyed /\ counted = [s EXCEPT !.lost = @ \cup {Key(e)}]
        /\ counted.gaps = s.gaps /\ counted.unattributed = s.unattributed
    BY <2>1 DEF Sessions
  <2>3. wide \in Seq(Records)
    <3>1. ASSUME NEW g \in Records PROVE Widened(g, e) \in Records
      <4>1. g.count + 1 \in Nat /\ Lower(g.from, e.seq) \in Nat /\ Upper(g.to, e.seq) \in Nat
        BY <2>1 DEF Records, Lower, Upper
      <4>2. QED
        BY <4>1 DEF Widened, Records
    <3>2. s.gaps \in Seq(Records)
      BY SessionIs
    <3>3. \A i \in 1..Len(s.gaps) : wide[i] \in Records
      BY <3>1, <3>2
    <3>4. Len(s.gaps) \in Nat /\ DOMAIN s.gaps = 1..Len(s.gaps)
      BY <3>2
    <3>5. wide \in [1..Len(s.gaps) -> Records]
      BY <3>3, <3>4
    <3>6. QED
      BY <3>4, <3>5
  <2>4. CASE GapOf(s.gaps, e.run) # {}
    <3>1. r = [counted EXCEPT !.gaps = wide]
      BY <1>2, <2>2, <2>4 DEF RecordEviction, Lost
    <3>2. r = [s EXCEPT !.lost = more, !.gaps = wide]
      BY <3>1
    <3> HIDE DEF r, wide
    <3>3. LossOf(r, s, e) /\ r.gaps = wide /\ r.unattributed = s.unattributed
      BY <2>2, <2>3, <3>2 DEF Sessions, LossOf
    <3>4. QED
      BY <1>2, <2>4, <3>3 DEF r, wide
  <2>5. CASE GapOf(s.gaps, e.run) = {} /\ Len(s.gaps) < MaxTrackedGapRuns
    <3> DEFINE longer == Append(s.gaps, one)
    <3>1. r = [counted EXCEPT !.gaps = longer]
      BY <1>2, <2>2, <2>5 DEF RecordEviction, Lost
    <3>2. longer \in Seq(Records) /\ r = [s EXCEPT !.lost = more, !.gaps = longer]
      BY <2>1, <3>1, SessionIs
    <3> HIDE DEF r, longer
    <3>3. LossOf(r, s, e) /\ r.gaps = longer /\ r.unattributed = s.unattributed
      BY <2>2, <3>2 DEF Sessions, LossOf
    <3>4. QED
      BY <1>2, <2>5, <3>3 DEF r, longer
  <2>6. CASE GapOf(s.gaps, e.run) = {} /\ ~(Len(s.gaps) < MaxTrackedGapRuns)
    <3>1. r = [counted EXCEPT !.unattributed = s.unattributed + 1]
      BY <1>2, <2>2, <2>6 DEF RecordEviction, Lost
    <3> DEFINE u == s.unattributed + 1
    <3>2. u \in Nat /\ r = [s EXCEPT !.lost = more, !.unattributed = u]
      BY <3>1, SessionIs
    <3> HIDE DEF r, u
    <3>3. LossOf(r, s, e) /\ r.gaps = s.gaps /\ r.unattributed = u
      BY <2>2, <3>2 DEF Sessions, LossOf
    <3>4. QED
      BY <1>2, <2>6, <3>3 DEF r, u
  <2>7. QED
    BY <2>4, <2>5, <2>6
<1>3. QED
  BY <1>1, <1>2 DEF Events

LEMMA EvictionTyped == ASSUME NEW s \in Sessions, NEW e \in Events PROVE RecordEviction(s, e) \in Sessions
BY EvictionFacts DEF LossOf, Events

-----------------------------------------------------------------------------
(* The folds of the module, each as a run from one session to the next.    *)

LEMMA EvictionsRun ==
    ASSUME NEW b \in Sessions, NEW es \in Seq(Events)
    PROVE  \E h : /\ h[0] = b /\ \A n \in 0..Len(es) : h[n] \in Sessions
                  /\ \A n \in 0..(Len(es) - 1) : h[n + 1] = RecordEviction(h[n], es[n + 1])
                  /\ FoldLeft(RecordEviction, b, es) = h[Len(es)]
<1> DEFINE N == Len(es)
           Is(f) == f = [t \in SUBSET (DOMAIN es) |->
                           IF t = {} THEN b ELSE RecordEviction(f[t \ {Max(t)}], es[Max(t)])]
           f == CHOOSE f : Is(f)
           h == [n \in 0..N |-> f[1..n]]
<1>1. N \in Nat /\ DOMAIN es = 1..N /\ es \in [1..N -> Events]
  OBVIOUS
<1>2. \E g : Is(g)
  <2> DEFINE G == [p \in Sessions \X Events |-> RecordEviction(p[1], p[2])]
  <2>1. G \in [Sessions \X Events -> Sessions] /\ \A x \in Sessions, e \in Events : G[<<x, e>>] = RecordEviction(x, e)
    BY EvictionTyped
  <2> HIDE DEF G, N
  <2>2. PICK g : IsFold(g, Sessions, G, b, N, es)
    BY <1>1, <2>1, FoldExists
  <2>3. ASSUME NEW t \in SUBSET (1..N), t # {}
        PROVE  G[<<g[t \ {Max(t)}], es[Max(t)]>>] = RecordEviction(g[t \ {Max(t)}], es[Max(t)])
    <3>1. Max(t) \in 1..N
      BY <1>1, <2>3, MaxOfPrefix
    <3>2. g[t \ {Max(t)}] \in Sessions /\ es[Max(t)] \in Events
      BY <1>1, <2>2, <3>1 DEF IsFold
    <3>3. QED
      BY <2>1, <3>2
  <2>4. Is(g)
    BY <1>1, <2>2, <2>3 DEF IsFold
  <2>5. QED
    BY <2>4
<1>3. Is(f)
  <2> HIDE DEF Is
  <2>1. QED
    BY <1>2
<1>4. FoldLeft(RecordEviction, b, es) = f[1..N]
  BY <1>1 DEF FoldLeft, MapThenFoldSet
<1> HIDE DEF f
<1>5. h[0] = b
  BY <1>1, <1>3
<1>6. ASSUME NEW n \in 0..(N - 1) PROVE h[n + 1] = RecordEviction(h[n], es[n + 1])
  <2> HIDE DEF N, h
  <2>1. /\ n \in 0..N /\ n + 1 \in 0..N /\ 1..(n + 1) \in SUBSET (1..N) /\ 1..(n + 1) # {}
        /\ Max(1..(n + 1)) = n + 1 /\ (1..(n + 1)) \ {n + 1} = 1..n
    BY <1>1, PrefixStep
  <2>2. f[1..(n + 1)] = RecordEviction(f[(1..(n + 1)) \ {Max(1..(n + 1))}], es[Max(1..(n + 1))])
    BY <1>1, <1>3, <2>1
  <2>3. QED
    BY <2>1, <2>2 DEF h
<1>7. \A n \in 0..N : h[n] \in Sessions
  <2> DEFINE T == {n \in 0..N : h[n] \in Sessions}
  <2> HIDE DEF h
  <2>1. 0 \in T
    BY <1>1, <1>5
  <2>2. ASSUME NEW n \in 0..(N - 1), n \in T PROVE n + 1 \in T
    <3>1. n + 1 \in 0..N /\ es[n + 1] \in Events /\ h[n] \in Sessions
      BY <1>1, <2>2
    <3>2. h[n + 1] \in Sessions
      BY <1>6, <3>1, EvictionTyped
    <3>3. QED
      BY <3>1, <3>2
  <2>3. QED
    <3> HIDE DEF T
    <3>1. \A n \in 0..N : n \in T
      BY <1>1, <2>1, <2>2, Climb
    <3>2. QED
      BY <3>1 DEF T
<1>8. h[N] = f[1..N]
  BY <1>1
<1>9. QED
  <2> HIDE DEF h
  <2>1. QED
    BY <1>4, <1>5, <1>6, <1>7, <1>8

-----------------------------------------------------------------------------
(* Counts in gap records.                                                  *)

Plus(n, g) == n + g.count
Pending(gaps) == FoldLeft(LAMBDA n, g : n + g.count, 0, gaps)

LEMMA PlusTyped == ASSUME NEW n \in Nat, NEW g \in Records PROVE Plus(n, g) \in Nat
BY DEF Plus, Records

LEMMA SumRun ==
    ASSUME NEW b \in Nat, NEW es \in Seq(Records)
    PROVE  \E h : /\ h[0] = b /\ \A n \in 0..Len(es) : h[n] \in Nat
                  /\ \A n \in 0..(Len(es) - 1) : h[n + 1] = Plus(h[n], es[n + 1])
                  /\ FoldLeft(LAMBDA n, g : n + g.count, b, es) = h[Len(es)]
<1> DEFINE N == Len(es)
           Is(f) == f = [t \in SUBSET (DOMAIN es) |->
                           IF t = {} THEN b ELSE Plus(f[t \ {Max(t)}], es[Max(t)])]
           f == CHOOSE f : Is(f)
           h == [n \in 0..N |-> f[1..n]]
<1>1. N \in Nat /\ DOMAIN es = 1..N /\ es \in [1..N -> Records]
  OBVIOUS
<1>2. \E g : Is(g)
  <2> DEFINE G == [p \in Nat \X Records |-> Plus(p[1], p[2])]
  <2>1. G \in [Nat \X Records -> Nat] /\ \A x \in Nat, e \in Records : G[<<x, e>>] = Plus(x, e)
    BY PlusTyped
  <2> HIDE DEF G, N
  <2>2. PICK g : IsFold(g, Nat, G, b, N, es)
    BY <1>1, <2>1, FoldExists
  <2>3. ASSUME NEW t \in SUBSET (1..N), t # {}
        PROVE  G[<<g[t \ {Max(t)}], es[Max(t)]>>] = Plus(g[t \ {Max(t)}], es[Max(t)])
    <3>1. Max(t) \in 1..N
      BY <1>1, <2>3, MaxOfPrefix
    <3>2. g[t \ {Max(t)}] \in Nat /\ es[Max(t)] \in Records
      BY <1>1, <2>2, <3>1 DEF IsFold
    <3>3. QED
      BY <2>1, <3>2
  <2>4. Is(g)
    BY <1>1, <2>2, <2>3 DEF IsFold
  <2>5. QED
    BY <2>4
<1>3. Is(f)
  <2> HIDE DEF Is
  <2>1. QED
    BY <1>2
<1>4. FoldLeft(LAMBDA n, g : n + g.count, b, es) = f[1..N]
  BY <1>1 DEF FoldLeft, MapThenFoldSet, Plus
<1> HIDE DEF f
<1>5. h[0] = b
  BY <1>1, <1>3
<1>6. ASSUME NEW n \in 0..(N - 1) PROVE h[n + 1] = Plus(h[n], es[n + 1])
  <2> HIDE DEF N, h
  <2>1. /\ n \in 0..N /\ n + 1 \in 0..N /\ 1..(n + 1) \in SUBSET (1..N) /\ 1..(n + 1) # {}
        /\ Max(1..(n + 1)) = n + 1 /\ (1..(n + 1)) \ {n + 1} = 1..n
    BY <1>1, PrefixStep
  <2>2. f[1..(n + 1)] = Plus(f[(1..(n + 1)) \ {Max(1..(n + 1))}], es[Max(1..(n + 1))])
    BY <1>1, <1>3, <2>1
  <2>3. QED
    BY <2>1, <2>2 DEF h
<1>7. \A n \in 0..N : h[n] \in Nat
  <2> DEFINE T == {n \in 0..N : h[n] \in Nat}
  <2> HIDE DEF h
  <2>1. 0 \in T
    BY <1>1, <1>5
  <2>2. ASSUME NEW n \in 0..(N - 1), n \in T PROVE n + 1 \in T
    <3>1. n + 1 \in 0..N /\ es[n + 1] \in Records /\ h[n] \in Nat
      BY <1>1, <2>2
    <3>2. h[n + 1] \in Nat
      BY <1>6, <3>1, PlusTyped
    <3>3. QED
      BY <3>1, <3>2
  <2>3. QED
    <3> HIDE DEF T
    <3>1. \A n \in 0..N : n \in T
      BY <1>1, <2>1, <2>2, Climb
    <3>2. QED
      BY <3>1 DEF T
<1>8. h[N] = f[1..N]
  BY <1>1
<1>9. QED
  <2> HIDE DEF h
  <2>1. QED
    BY <1>4, <1>5, <1>6, <1>7, <1>8

\* The sums of the first records, one by one.
IsSum(h, gs) ==
    /\ h[0] = 0 /\ \A n \in 0..Len(gs) : h[n] \in Nat
    /\ \A n \in 0..(Len(gs) - 1) : h[n + 1] = h[n] + gs[n + 1].count
    /\ Pending(gs) = h[Len(gs)]

LEMMA SumIs == ASSUME NEW gs \in Seq(Records) PROVE \E h : IsSum(h, gs)
<1>1. PICK h : /\ h[0] = 0 /\ \A n \in 0..Len(gs) : h[n] \in Nat
               /\ \A n \in 0..(Len(gs) - 1) : h[n + 1] = Plus(h[n], gs[n + 1])
               /\ FoldLeft(LAMBDA n, g : n + g.count, 0, gs) = h[Len(gs)]
  BY SumRun
<1>2. Pending(gs) = h[Len(gs)]
  BY <1>1 DEF Pending
<1>3. \A n \in 0..(Len(gs) - 1) : h[n + 1] = h[n] + gs[n + 1].count
  BY <1>1 DEF Plus
<1>4. IsSum(h, gs)
  BY <1>1, <1>2, <1>3 DEF IsSum
<1>5. QED
  BY <1>4

LEMMA SumTyped == ASSUME NEW gs \in Seq(Records) PROVE Pending(gs) \in Nat /\ Pending(<< >>) = 0
<1>1. PICK h : IsSum(h, gs)
  BY SumIs
<1>2. << >> \in Seq(Records)
  OBVIOUS
<1>3. PICK g : IsSum(g, << >>)
  BY <1>2, SumIs
<1>4. Len(gs) \in 0..Len(gs)
  OBVIOUS
<1>5. QED
  BY <1>1, <1>3, <1>4 DEF IsSum

\* Two sequences of records, one with the counts of the other behind the
\* first n, of which the sum is d; and where one count differs.
LEMMA SumShift ==
    ASSUME NEW gs \in Seq(Records), NEW hs \in Seq(Records), NEW n \in 0..Len(gs),
           Len(gs) = n + Len(hs), \A i \in 1..Len(hs) : hs[i].count = gs[n + i].count,
           NEW h, IsSum(h, gs)
    PROVE  Pending(gs) = h[n] + Pending(hs)
<1>1. PICK g : IsSum(g, hs)
  BY SumIs
<1> DEFINE T == {k \in 0..Len(hs) : h[n + k] = h[n] + g[k]}
<1>2. Len(hs) \in Nat /\ n \in Nat /\ h[n] \in Nat
  BY DEF IsSum
<1>3. 0 \in T
  BY <1>1, <1>2 DEF IsSum
<1>4. ASSUME NEW k \in 0..(Len(hs) - 1), k \in T PROVE k + 1 \in T
  <2>1. n + k \in 0..(Len(gs) - 1) /\ k + 1 \in 1..Len(hs) /\ k \in 0..Len(hs)
    BY <1>2
  <2>2. h[n + k + 1] = h[n + k] + gs[n + k + 1].count /\ g[k + 1] = g[k] + hs[k + 1].count
    BY <1>1, <2>1 DEF IsSum
  <2>3. hs[k + 1].count = gs[n + k + 1].count /\ hs[k + 1].count \in Nat /\ g[k] \in Nat
    <3>1. hs[k + 1].count = gs[n + (k + 1)].count
      BY <2>1
    <3>2. n + (k + 1) = n + k + 1
      BY <1>2
    <3>3. hs[k + 1].count \in Nat
      <4>1. hs[k + 1] \in Records
        BY <2>1
      <4>2. QED
        BY <4>1 DEF Records
    <3>4. QED
      BY <1>1, <2>1, <3>1, <3>2, <3>3 DEF IsSum
  <2>4. n + (k + 1) = n + k + 1 /\ k + 1 \in 0..Len(hs)
    BY <1>2, <2>1
  <2>5. h[n + k] = h[n] + g[k]
    BY <1>4
  <2>6. h[n + (k + 1)] = h[n] + g[k + 1]
    BY <1>2, <2>2, <2>3, <2>4, <2>5
  <2>7. QED
    BY <2>4, <2>6
<1>5. Len(hs) \in T
  <2> HIDE DEF T
  <2>1. \A k \in 0..Len(hs) : k \in T
    BY <1>2, <1>3, <1>4, Climb
  <2>2. QED
    BY <1>2, <2>1
<1>6. QED
  BY <1>1, <1>5 DEF IsSum

LEMMA SumOfSame ==
    ASSUME NEW gs \in Seq(Records), NEW hs \in Seq(Records), Len(gs) = Len(hs),
           \A i \in 1..Len(hs) : hs[i].count = gs[i].count
    PROVE  Pending(gs) = Pending(hs)
<1>1. PICK h : IsSum(h, gs)
  BY SumIs
<1>2. Len(gs) \in Nat /\ 0 \in 0..Len(gs) /\ Len(gs) = 0 + Len(hs)
  OBVIOUS
<1>3. \A i \in 1..Len(hs) : hs[i].count = gs[0 + i].count
  BY <1>2
<1>4. Pending(gs) = h[0] + Pending(hs)
  BY <1>1, <1>2, <1>3, SumShift
<1>5. QED
  BY <1>1, <1>4, SumTyped DEF IsSum

LEMMA SumAppend ==
    ASSUME NEW gs \in Seq(Records), NEW g \in Records
    PROVE  Pending(Append(gs, g)) = Pending(gs) + g.count
<1> DEFINE all == Append(gs, g)
<1>1. all \in Seq(Records) /\ Len(all) = Len(gs) + 1 /\ Len(gs) \in Nat /\ all[Len(gs) + 1] = g
      /\ \A i \in 1..Len(gs) : all[i] = gs[i]
  OBVIOUS
<1> HIDE DEF all
<1>2. PICK h : IsSum(h, all)
  BY <1>1, SumIs
<1>3. PICK k : IsSum(k, gs)
  BY SumIs
<1> DEFINE T == {n \in 0..Len(gs) : h[n] = k[n]}
<1>4. 0 \in T
  BY <1>1, <1>2, <1>3 DEF IsSum
<1>5. ASSUME NEW n \in 0..(Len(gs) - 1), n \in T PROVE n + 1 \in T
  <2>1. n \in 0..(Len(all) - 1) /\ n + 1 \in 1..Len(gs) /\ n + 1 \in 0..Len(gs)
    BY <1>1
  <2>2. h[n + 1] = h[n] + all[n + 1].count /\ k[n + 1] = k[n] + gs[n + 1].count
    BY <1>2, <1>3, <2>1 DEF IsSum
  <2>3. QED
    BY <1>1, <1>5, <2>1, <2>2
<1>6. Len(gs) \in T
  <2> HIDE DEF T
  <2>1. \A n \in 0..Len(gs) : n \in T
    BY <1>1, <1>4, <1>5, Climb
  <2>2. QED
    BY <1>1, <2>1
<1>7. h[Len(gs) + 1] = h[Len(gs)] + g.count
  BY <1>1, <1>2 DEF IsSum
<1>8. QED
  BY <1>1, <1>2, <1>3, <1>6, <1>7 DEF IsSum, all

LEMMA SumSplit ==
    ASSUME NEW gs \in Seq(Records), NEW h, IsSum(h, gs), NEW n \in 0..Len(gs)
    PROVE  Pending(gs) = h[n] + Pending(SubSeq(gs, n + 1, Len(gs)))
<1> DEFINE hs == SubSeq(gs, n + 1, Len(gs))
<1>1. hs \in Seq(Records) /\ Len(gs) = n + Len(hs) /\ \A i \in 1..Len(hs) : hs[i] = gs[n + i]
  OBVIOUS
<1> HIDE DEF hs
<1>2. QED
  BY <1>1, SumShift DEF hs

LEMMA SumOfOneMore ==
    ASSUME NEW gs \in Seq(Records), NEW hs \in Seq(Records), Len(hs) = Len(gs), NEW i \in 1..Len(gs),
           hs[i].count = gs[i].count + 1, \A j \in 1..Len(gs) : j # i => hs[j].count = gs[j].count
    PROVE  Pending(hs) = Pending(gs) + 1
<1>1. PICK h : IsSum(h, gs)
  BY SumIs
<1>2. PICK k : IsSum(k, hs)
  BY SumIs
<1> DEFINE T == {n \in 0..Len(gs) : k[n] = h[n] + (IF n >= i THEN 1 ELSE 0)}
<1>3. Len(gs) \in Nat /\ i \in Nat /\ i # 0
  OBVIOUS
<1>4. 0 \in T
  BY <1>1, <1>2, <1>3 DEF IsSum
<1>5. ASSUME NEW n \in 0..(Len(gs) - 1), n \in T PROVE n + 1 \in T
  <2>1. n + 1 \in 1..Len(gs) /\ n + 1 \in 0..Len(gs) /\ n \in 0..Len(gs) /\ n \in Nat
    BY <1>3
  <2>2. h[n + 1] = h[n] + gs[n + 1].count /\ k[n + 1] = k[n] + hs[n + 1].count
    BY <1>1, <1>2 DEF IsSum
  <2>3. h[n] \in Nat /\ gs[n + 1].count \in Nat
    <3>1. gs[n + 1] \in Records
      BY <2>1
    <3>2. QED
      BY <1>1, <2>1, <3>1 DEF IsSum, Records
  <2>4. CASE n + 1 = i
    BY <1>3, <1>5, <2>1, <2>2, <2>3, <2>4
  <2>5. CASE n + 1 # i
    <3>1. hs[n + 1].count = gs[n + 1].count /\ (n + 1 >= i <=> n >= i)
      BY <1>3, <2>1, <2>5
    <3>2. QED
      BY <1>5, <2>1, <2>2, <2>3, <3>1
  <2>6. QED
    BY <2>4, <2>5
<1>6. Len(gs) \in T
  <2> HIDE DEF T
  <2>1. \A n \in 0..Len(gs) : n \in T
    BY <1>3, <1>4, <1>5, Climb
  <2>2. QED
    BY <1>3, <2>1
<1>7. QED
  BY <1>1, <1>2, <1>3, <1>6 DEF IsSum

-----------------------------------------------------------------------------
(* The bounds of the ring buffer.                                          *)

Heavier(n, e) == n + e.size

LEMMA SizeTyped == ASSUME NEW e \in Events PROVE e.size \in Nat /\ e.size \in Sizes \cup {Small}
<1>1. e.size \in Sizes \cup {Small}
  BY DEF Events
<1>2. Sizes \cup {Small} \subseteq Nat
  BY BufferAssumption
<1>3. QED
  BY <1>1, <1>2

LEMMA HeavierTyped == ASSUME NEW n \in Nat, NEW e \in Events PROVE Heavier(n, e) \in Nat
BY SizeTyped DEF Heavier

LEMMA SizeRun ==
    ASSUME NEW b \in Nat, NEW es \in Seq(Events)
    PROVE  \E h : /\ h[0] = b /\ \A n \in 0..Len(es) : h[n] \in Nat
                  /\ \A n \in 0..(Len(es) - 1) : h[n + 1] = Heavier(h[n], es[n + 1])
                  /\ FoldLeft(LAMBDA n, e : n + e.size, b, es) = h[Len(es)]
<1> DEFINE N == Len(es)
           Is(f) == f = [t \in SUBSET (DOMAIN es) |->
                           IF t = {} THEN b ELSE Heavier(f[t \ {Max(t)}], es[Max(t)])]
           f == CHOOSE f : Is(f)
           h == [n \in 0..N |-> f[1..n]]
<1>1. N \in Nat /\ DOMAIN es = 1..N /\ es \in [1..N -> Events]
  OBVIOUS
<1>2. \E g : Is(g)
  <2> DEFINE G == [p \in Nat \X Events |-> Heavier(p[1], p[2])]
  <2>1. G \in [Nat \X Events -> Nat] /\ \A x \in Nat, e \in Events : G[<<x, e>>] = Heavier(x, e)
    BY HeavierTyped
  <2> HIDE DEF G, N
  <2>2. PICK g : IsFold(g, Nat, G, b, N, es)
    BY <1>1, <2>1, FoldExists
  <2>3. ASSUME NEW t \in SUBSET (1..N), t # {}
        PROVE  G[<<g[t \ {Max(t)}], es[Max(t)]>>] = Heavier(g[t \ {Max(t)}], es[Max(t)])
    <3>1. Max(t) \in 1..N
      BY <1>1, <2>3, MaxOfPrefix
    <3>2. g[t \ {Max(t)}] \in Nat /\ es[Max(t)] \in Events
      BY <1>1, <2>2, <3>1 DEF IsFold
    <3>3. QED
      BY <2>1, <3>2
  <2>4. Is(g)
    BY <1>1, <2>2, <2>3 DEF IsFold
  <2>5. QED
    BY <2>4
<1>3. Is(f)
  <2> HIDE DEF Is
  <2>1. QED
    BY <1>2
<1>4. FoldLeft(LAMBDA n, e : n + e.size, b, es) = f[1..N]
  BY <1>1 DEF FoldLeft, MapThenFoldSet, Heavier
<1> HIDE DEF f
<1>5. h[0] = b
  BY <1>1, <1>3
<1>6. ASSUME NEW n \in 0..(N - 1) PROVE h[n + 1] = Heavier(h[n], es[n + 1])
  <2> HIDE DEF N, h
  <2>1. /\ n \in 0..N /\ n + 1 \in 0..N /\ 1..(n + 1) \in SUBSET (1..N) /\ 1..(n + 1) # {}
        /\ Max(1..(n + 1)) = n + 1 /\ (1..(n + 1)) \ {n + 1} = 1..n
    BY <1>1, PrefixStep
  <2>2. f[1..(n + 1)] = Heavier(f[(1..(n + 1)) \ {Max(1..(n + 1))}], es[Max(1..(n + 1))])
    BY <1>1, <1>3, <2>1
  <2>3. QED
    BY <2>1, <2>2 DEF h
<1>7. \A n \in 0..N : h[n] \in Nat
  <2> DEFINE T == {n \in 0..N : h[n] \in Nat}
  <2> HIDE DEF h
  <2>1. 0 \in T
    BY <1>1, <1>5
  <2>2. ASSUME NEW n \in 0..(N - 1), n \in T PROVE n + 1 \in T
    <3>1. n + 1 \in 0..N /\ es[n + 1] \in Events /\ h[n] \in Nat
      BY <1>1, <2>2
    <3>2. h[n + 1] \in Nat
      BY <1>6, <3>1, HeavierTyped
    <3>3. QED
      BY <3>1, <3>2
  <2>3. QED
    <3> HIDE DEF T
    <3>1. \A n \in 0..N : n \in T
      BY <1>1, <2>1, <2>2, Climb
    <3>2. QED
      BY <3>1 DEF T
<1>8. h[N] = f[1..N]
  BY <1>1
<1>9. QED
  <2> HIDE DEF h
  <2>1. QED
    BY <1>4, <1>5, <1>6, <1>7, <1>8

\* The sizes of the first items, one by one.
IsSize(h, q) ==
    /\ h[0] = 0 /\ \A n \in 0..Len(q) : h[n] \in Nat
    /\ \A n \in 0..(Len(q) - 1) : h[n + 1] = h[n] + q[n + 1].size
    /\ Bytes(q) = h[Len(q)]

LEMMA SizeIs == ASSUME NEW q \in Seq(Events) PROVE \E h : IsSize(h, q)
<1>1. PICK h : /\ h[0] = 0 /\ \A n \in 0..Len(q) : h[n] \in Nat
               /\ \A n \in 0..(Len(q) - 1) : h[n + 1] = Heavier(h[n], q[n + 1])
               /\ FoldLeft(LAMBDA n, e : n + e.size, 0, q) = h[Len(q)]
  BY SizeRun
<1>2. Bytes(q) = h[Len(q)]
  BY <1>1 DEF Bytes
<1>3. \A n \in 0..(Len(q) - 1) : h[n + 1] = h[n] + q[n + 1].size
  BY <1>1 DEF Heavier
<1>4. IsSize(h, q)
  BY <1>1, <1>2, <1>3 DEF IsSize
<1>5. QED
  BY <1>4

LEMMA SizeOfSame ==
    ASSUME NEW q \in Seq(Events), NEW r \in Seq(Events), Len(r) = Len(q), \A i \in 1..Len(q) : r[i].size = q[i].size
    PROVE  Bytes(r) = Bytes(q)
<1> DEFINE N == Len(q)
<1>1. PICK h : IsSize(h, q)
  BY SizeIs
<1>2. PICK g : IsSize(g, r)
  BY SizeIs
<1> DEFINE T == {n \in 0..N : g[n] = h[n]}
<1>3. N \in Nat /\ 0 \in T
  BY <1>1, <1>2 DEF IsSize
<1>4. ASSUME NEW n \in 0..(N - 1), n \in T PROVE n + 1 \in T
  <2>1. n + 1 \in 0..N /\ n + 1 \in 1..N
    BY <1>3
  <2>2. h[n + 1] = h[n] + q[n + 1].size /\ g[n + 1] = g[n] + r[n + 1].size
    BY <1>1, <1>2 DEF IsSize
  <2>3. QED
    BY <1>4, <2>1, <2>2
<1>5. N \in T
  <2> HIDE DEF T, N
  <2>1. \A n \in 0..N : n \in T
    BY <1>3, <1>4, Climb
  <2>2. QED
    BY <1>3, <2>1
<1>6. QED
  BY <1>1, <1>2, <1>5 DEF IsSize

\* What RingBuffer.push leaves, with items that each fit.
Bounded(q) == ~Overfull(q) /\ \A i \in DOMAIN q : Fits(q[i])

LEMMA BoundedIs ==
    ASSUME NEW q \in Seq(Events), Bounded(q) PROVE Len(q) <= Capacity /\ Bytes(q) <= MaxBytes
<1>1. PICK h : IsSize(h, q)
  BY SizeIs
<1>2. Len(q) \in Nat /\ Bytes(q) \in Nat /\ Capacity \in Nat /\ MaxBytes \in Nat \ {0}
  BY <1>1, BufferAssumption DEF IsSize
<1>3. Len(q) <= Capacity /\ (Bytes(q) <= MaxBytes \/ Len(q) <= 1)
  BY <1>2 DEF Bounded, Overfull
<1>4. CASE Len(q) = 0
  BY <1>1, <1>2, <1>3, <1>4 DEF IsSize
<1>5. CASE Len(q) = 1
  <2>1. h[0 + 1] = h[0] + q[0 + 1].size /\ h[0] = 0 /\ Bytes(q) = h[1]
    BY <1>1, <1>5 DEF IsSize
  <2>2. 1 \in DOMAIN q /\ q[1] \in Events
    BY <1>5
  <2>3. q[1].size <= MaxBytes /\ q[1].size \in Nat
    BY <2>2, SizeTyped DEF Bounded, Fits
  <2>4. QED
    BY <1>3, <2>1, <2>3
<1>6. CASE Len(q) # 0 /\ Len(q) # 1
  <2>1. \A n \in Nat : n <= 1 => n = 0 \/ n = 1
    OBVIOUS
  <2>2. ~(Len(q) <= 1)
    BY <1>2, <1>6, <2>1
  <2>3. QED
    BY <1>3, <2>2
<1>7. QED
  BY <1>4, <1>5, <1>6

LEMMA EmptyBounded == Bounded(<< >>)
<1>1. << >> \in Seq(Events) /\ Len(<< >>) = 0 /\ DOMAIN << >> = {}
  OBVIOUS
<1>2. PICK h : IsSize(h, << >>)
  BY <1>1, SizeIs
<1>3. Bytes(<< >>) = 0
  BY <1>1, <1>2 DEF IsSize
<1>4. QED
  BY <1>1, <1>3, BufferAssumption DEF Bounded, Overfull

\* Marking items sent weighs nothing.
LEMMA BoundedSame ==
    ASSUME NEW q \in Seq(Events), NEW r \in Seq(Events), Bounded(q), Len(r) = Len(q),
           \A i \in 1..Len(q) : r[i].size = q[i].size
    PROVE  Bounded(r)
<1>1. Bytes(r) = Bytes(q)
  BY SizeOfSame
<1>2. DOMAIN r = 1..Len(q) /\ DOMAIN q = 1..Len(q)
  OBVIOUS
<1>3. QED
  BY <1>1, <1>2 DEF Bounded, Overfull, Fits

-----------------------------------------------------------------------------
(* What is true of a session s, with h read by the hub and the seqs Q       *)
(* given to no event yet.                                                   *)

SeqsOf(q) == {q[i].seq : i \in DOMAIN q}
UnsentOf(q) == {q[i].seq : i \in {i \in DOMAIN q : ~q[i].sent}}
FramesOf(s, h) == h \cup {s.wire[i] : i \in DOMAIN s.wire} \cup {s.stale[i] : i \in DOMAIN s.stale}
Given(lost) == {k.seq : k \in lost}
Seen(s, h) == {f.seq : f \in {f \in FramesOf(s, h) : f.kind = "event"}}

\* The buffer q keeps its bounds.  Of the seqs below top, an event in it has one
\* of its own, and those of L are lost, those of S were sent.
Apart(q, L, S, top, Q) ==
    /\ Bounded(q)
    /\ \A i, j \in DOMAIN q : q[i].seq = q[j].seq => i = j
    /\ SeqsOf(q) \cup L \cup S \cup Q \subseteq 0..(top - 1)
    /\ Q \cap (SeqsOf(q) \cup L \cup S) = {}
    /\ L \cap (SeqsOf(q) \cup S) = {}
    /\ UnsentOf(q) \cap S = {}

Hole(g, lost) == {k \in lost : k.run = g.run /\ g.from <= k.seq /\ k.seq <= g.to}
GapTrue(g, lost) ==
    /\ \E k \in Hole(g, lost) : k.seq = g.from
    /\ \E k \in Hole(g, lost) : k.seq = g.to
    /\ g.count <= Cardinality(Hole(g, lost))
GapsTrue(gaps, lost) ==
    /\ \A i, j \in DOMAIN gaps : gaps[i].run = gaps[j].run => i = j
    /\ \A i \in DOMAIN gaps : GapTrue(gaps[i], lost)

CountTrue(s) ==
    ~s.dark =>
        /\ Cardinality(s.lost) = s.told + Pending(s.gaps) + s.unattributed
        /\ Len(s.gaps) <= MaxTrackedGapRuns
LitHolds(s) == s.link # "attached" => s.wire = << >> /\ (~s.dark => s.held = << >>)

\* What is buffered or lost was given a frame.
Ledger(s) == s.lost \subseteq s.emitted /\ \A i \in DOMAIN s.buffer : Key(s.buffer[i]) \in s.emitted

Sound(s, h, Q) ==
    /\ s \in Sessions /\ IsFiniteSet(s.lost)
    /\ Apart(s.buffer, Given(s.lost), Seen(s, h), s.seq, Q)
    /\ GapsTrue(s.gaps, s.lost)
    /\ CountTrue(s)
    /\ LitHolds(s)
    /\ Ledger(s)

\* Fewer seqs may be kept back.
LEMMA FewerKept == ASSUME NEW s, NEW h, NEW Q, NEW P \in SUBSET Q, Sound(s, h, Q) PROVE Sound(s, h, P)
BY DEF Sound, Apart

LEMMA GivenMore == ASSUME NEW lost, NEW k PROVE Given(lost \cup {k}) = Given(lost) \cup {k.seq}
BY DEF Given

\* More is lost: what a record says stays true.
LEMMA GapStays ==
    ASSUME NEW g, NEW lost, NEW more, lost \subseteq more, IsFiniteSet(more), GapTrue(g, lost),
           g.count \in Nat
    PROVE  GapTrue(g, more)
<1>1. Hole(g, lost) \subseteq Hole(g, more) /\ Hole(g, more) \subseteq more
  BY DEF Hole
<1>2. IsFiniteSet(Hole(g, more)) /\ IsFiniteSet(Hole(g, lost))
  BY <1>1, FS_Subset
<1>3. Cardinality(Hole(g, lost)) <= Cardinality(Hole(g, more))
  BY <1>1, <1>2, FS_Subset
<1>4. Cardinality(Hole(g, lost)) \in Nat /\ Cardinality(Hole(g, more)) \in Nat
  BY <1>2, FS_CardinalityType
<1>5. QED
  BY <1>1, <1>3, <1>4 DEF GapTrue

LEMMA GapWidens ==
    ASSUME NEW g \in Records, NEW e \in Events, g.run = e.run, NEW lost, IsFiniteSet(lost),
           lost \subseteq Keyed, Key(e) \notin lost, GapTrue(g, lost)
    PROVE  GapTrue(Widened(g, e), lost \cup {Key(e)})
<1> DEFINE w == Widened(g, e)
           more == lost \cup {Key(e)}
<1>1. /\ w.run = g.run /\ w.count = g.count + 1 /\ w.from = Lower(g.from, e.seq) /\ w.to = Upper(g.to, e.seq)
      /\ g.from \in Nat /\ g.to \in Nat /\ e.seq \in Nat /\ g.count \in Nat
  BY DEF Widened, Records, Events
<1>2. Key(e).run = e.run /\ Key(e).seq = e.seq
  BY DEF Key
<1>3. w.from <= g.from /\ g.to <= w.to /\ w.from <= e.seq /\ e.seq <= w.to
      /\ (w.from = g.from \/ w.from = e.seq) /\ (w.to = g.to \/ w.to = e.seq)
      /\ w.from \in Nat /\ w.to \in Nat
  BY <1>1 DEF Lower, Upper
<1> HIDE DEF w
<1>4. Key(e) \in Hole(w, more)
  BY <1>1, <1>2, <1>3 DEF Hole
<1>5. Hole(g, lost) \cup {Key(e)} \subseteq Hole(w, more)
  <2>1. \A k \in lost : k.seq \in Nat
    BY DEF Keyed
  <2>2. ASSUME NEW k \in Hole(g, lost) PROVE k \in Hole(w, more)
    BY <1>1, <1>3, <2>1, <2>2 DEF Hole
  <2>3. QED
    BY <1>4, <2>2
<1>6. IsFiniteSet(more) /\ IsFiniteSet(Hole(w, more)) /\ IsFiniteSet(Hole(g, lost))
  <2>1. IsFiniteSet(more)
    BY FS_AddElement
  <2>2. Hole(w, more) \subseteq more /\ Hole(g, lost) \subseteq lost
    BY DEF Hole
  <2>3. QED
    BY <2>1, <2>2, FS_Subset
<1>7. Cardinality(Hole(g, lost) \cup {Key(e)}) = Cardinality(Hole(g, lost)) + 1
  <2>1. Key(e) \notin Hole(g, lost)
    BY DEF Hole
  <2>2. QED
    BY <1>6, <2>1, FS_AddElement
<1>8. Cardinality(Hole(g, lost) \cup {Key(e)}) <= Cardinality(Hole(w, more))
  BY <1>5, <1>6, FS_Subset
<1>9. w.count <= Cardinality(Hole(w, more))
  <2>1. g.count <= Cardinality(Hole(g, lost))
    BY DEF GapTrue
  <2>2. Cardinality(Hole(g, lost)) \in Nat /\ Cardinality(Hole(w, more)) \in Nat
    BY <1>6, FS_CardinalityType
  <2>3. QED
    BY <1>1, <1>7, <1>8, <2>1, <2>2
<1>10. (\E k \in Hole(w, more) : k.seq = w.from) /\ (\E k \in Hole(w, more) : k.seq = w.to)
  <2>1. PICK a \in Hole(g, lost) : a.seq = g.from
    BY DEF GapTrue
  <2>2. PICK b \in Hole(g, lost) : b.seq = g.to
    BY DEF GapTrue
  <2>3. QED
    BY <1>2, <1>3, <1>5, <2>1, <2>2
<1>11. QED
  BY <1>9, <1>10 DEF GapTrue, w

LEMMA GapBegins ==
    ASSUME NEW e \in Events, NEW lost, IsFiniteSet(lost)
    PROVE  GapTrue([run |-> e.run, count |-> 1, from |-> e.seq, to |-> e.seq], lost \cup {Key(e)})
<1> DEFINE g == [run |-> e.run, count |-> 1, from |-> e.seq, to |-> e.seq]
           more == lost \cup {Key(e)}
<1>1. Key(e).run = e.run /\ Key(e).seq = e.seq /\ e.seq \in Nat
  BY DEF Key, Events
<1>2. Key(e) \in Hole(g, more) /\ Hole(g, more) \subseteq more
  BY <1>1 DEF Hole
<1>3. IsFiniteSet(Hole(g, more))
  BY <1>2, FS_AddElement, FS_Subset
<1>4. {Key(e)} \subseteq Hole(g, more) /\ Cardinality({Key(e)}) = 1
  BY <1>2, FS_Singleton
<1>5. 1 <= Cardinality(Hole(g, more))
  BY <1>3, <1>4, FS_Subset
<1>6. QED
  BY <1>1, <1>2, <1>5 DEF GapTrue

\* The loss of an event leaves a session sound, and one seq less kept back.
LEMMA EvictionSound ==
    ASSUME NEW s, NEW h, NEW Q, Sound(s, h, Q), NEW e \in Events, ~e.sent => e.seq \in Q,
           ~e.sent => Key(e) \in s.emitted
    PROVE  Sound(RecordEviction(s, e), h, Q \ {e.seq})
<1> DEFINE r == RecordEviction(s, e)
           one == [run |-> e.run, count |-> 1, from |-> e.seq, to |-> e.seq]
           more == s.lost \cup {Key(e)}
<1>1. CASE e.sent
  <2>1. r = s
    BY <1>1, EvictionFacts DEF Sound
  <2>2. QED
    BY <2>1, FewerKept
<1>2. CASE ~e.sent
  <2>1. s \in Sessions /\ IsFiniteSet(s.lost) /\ GapsTrue(s.gaps, s.lost) /\ CountTrue(s) /\ LitHolds(s) /\ Ledger(s)
        /\ Apart(s.buffer, Given(s.lost), Seen(s, h), s.seq, Q)
    BY DEF Sound
  <2>2. LossOf(r, s, e)
    BY <1>2, <2>1, EvictionFacts
  <2>3. Key(e).seq = e.seq /\ Key(e).run = e.run /\ e.seq \in Nat /\ e.run \in Runs /\ e.seq \in Q
    BY <1>2 DEF Key, Events
  <2>4. Key(e) \notin s.lost
    BY <2>1, <2>3 DEF Apart, Given
  <2>5. s.lost \subseteq Keyed /\ s.gaps \in Seq(Records) /\ s.unattributed \in Nat /\ s.told \in Nat
    BY <2>1, SessionIs
  <2>6. /\ r.lost = more /\ IsFiniteSet(more) /\ Cardinality(more) = Cardinality(s.lost) + 1
        /\ Cardinality(s.lost) \in Nat
    BY <2>1, <2>2, <2>4, FS_AddElement, FS_CardinalityType DEF LossOf
  <2>7. Apart(r.buffer, Given(r.lost), Seen(r, h), r.seq, Q \ {e.seq})
    <3>1. Given(r.lost) = Given(s.lost) \cup {e.seq}
      BY <2>3, <2>6, GivenMore
    <3>2. Seen(r, h) = Seen(s, h)
      BY <2>2 DEF LossOf, Seen, FramesOf
    <3>3. r.buffer = s.buffer /\ r.seq = s.seq
      BY <2>2 DEF LossOf
    <3>4. QED
      BY <2>1, <2>3, <3>1, <3>2, <3>3 DEF Apart
  <2>8. LitHolds(r)
    BY <2>1, <2>2 DEF LossOf, LitHolds
  <2>9. ASSUME NEW i \in DOMAIN s.gaps PROVE s.gaps[i] \in Records /\ GapTrue(s.gaps[i], more)
    <3>1. s.gaps[i] \in Records
      BY <2>5
    <3>2. s.gaps[i].count \in Nat
      BY <3>1 DEF Records
    <3>3. QED
      BY <2>1, <2>6, <3>1, <3>2, GapStays DEF GapsTrue
  <2> HIDE DEF r, more
  <2>10. (/\ GapsTrue(r.gaps, more) /\ r.unattributed \in Nat /\ Pending(r.gaps) \in Nat
          /\ Pending(r.gaps) + r.unattributed = Pending(s.gaps) + s.unattributed + 1
          /\ Len(s.gaps) <= MaxTrackedGapRuns => Len(r.gaps) <= MaxTrackedGapRuns)
    <3>0. Pending(s.gaps) \in Nat
      BY <2>5, SumTyped
    <3>1. CASE /\ GapOf(s.gaps, e.run) # {} /\ r.unattributed = s.unattributed
               /\ r.gaps = [i \in DOMAIN s.gaps |-> IF s.gaps[i].run = e.run THEN Widened(s.gaps[i], e)
                                                                          ELSE s.gaps[i]]
      <4>1. PICK i \in DOMAIN s.gaps : s.gaps[i].run = e.run
        BY <3>1 DEF GapOf
      <4>2. DOMAIN r.gaps = DOMAIN s.gaps /\ r.gaps[i] = Widened(s.gaps[i], e)
            /\ \A j \in DOMAIN s.gaps : j # i => r.gaps[j] = s.gaps[j]
        BY <2>1, <3>1, <4>1 DEF GapsTrue
      <4>3. GapTrue(r.gaps[i], more)
        BY <2>1, <2>4, <2>5, <2>9, <4>1, <4>2, GapWidens DEF GapsTrue, more
      <4>4. r.gaps[i].run = s.gaps[i].run /\ r.gaps[i].count = s.gaps[i].count + 1
        BY <2>9, <4>2 DEF Widened, Records
      <4>5. GapsTrue(r.gaps, more)
        <5>1. \A j \in DOMAIN s.gaps : r.gaps[j].run = s.gaps[j].run
          BY <4>2, <4>4
        <5>2. \A j \in DOMAIN r.gaps : GapTrue(r.gaps[j], more)
          BY <2>9, <4>2, <4>3
        <5>3. QED
          BY <2>1, <4>2, <5>1, <5>2 DEF GapsTrue
      <4>6. r.gaps \in Seq(Records) /\ Len(r.gaps) = Len(s.gaps) /\ i \in 1..Len(s.gaps)
            /\ DOMAIN s.gaps = 1..Len(s.gaps)
        <5>1. r \in Sessions
          BY <2>2 DEF LossOf
        <5>2. r.gaps \in Seq(Records)
          BY <5>1, SessionIs
        <5>3. QED
          BY <2>5, <4>2, <5>2
      <4>7. Pending(r.gaps) = Pending(s.gaps) + 1
        <5>1. \A j \in 1..Len(s.gaps) : j # i => r.gaps[j].count = s.gaps[j].count
          BY <4>2, <4>6
        <5>2. QED
          BY <2>5, <4>4, <4>6, <5>1, SumOfOneMore
      <4>8. r.unattributed = s.unattributed /\ r.unattributed \in Nat
        BY <2>5, <3>1
      <4>9. Len(s.gaps) <= MaxTrackedGapRuns => Len(r.gaps) <= MaxTrackedGapRuns
        BY <4>6
      <4>10. QED
        BY <3>0, <4>5, <4>7, <4>8, <4>9, <2>5
    <3>2. CASE /\ GapOf(s.gaps, e.run) = {} /\ r.unattributed = s.unattributed
               /\ Len(s.gaps) < MaxTrackedGapRuns
               /\ r.gaps = Append(s.gaps, [run |-> e.run, count |-> 1, from |-> e.seq, to |-> e.seq])
      <4>1. one \in Records /\ one.run = e.run /\ one.count = 1
        BY <2>3 DEF Records
      <4>2. GapTrue(one, more)
        BY <2>1, GapBegins DEF more
      <4> DEFINE n == Len(s.gaps)
      <4>3. /\ n \in Nat /\ DOMAIN s.gaps = 1..n /\ DOMAIN r.gaps = 1..(n + 1)
            /\ r.gaps[n + 1] = one /\ \A i \in 1..n : r.gaps[i] = s.gaps[i]
        BY <2>5, <3>2, <4>1
      <4> HIDE DEF n, one
      <4>4. \A i \in 1..n : s.gaps[i].run # e.run
        BY <3>2, <4>3 DEF GapOf
      <4>5. GapsTrue(r.gaps, more)
        <5>1. ASSUME NEW i \in DOMAIN r.gaps PROVE GapTrue(r.gaps[i], more)
          <6>1. CASE i \in 1..n
            BY <2>9, <4>3, <6>1
          <6>2. CASE i = n + 1
            BY <4>2, <4>3, <6>2
          <6>3. QED
            BY <4>3, <6>1, <6>2
        <5>2. ASSUME NEW i \in DOMAIN r.gaps, NEW j \in DOMAIN r.gaps, r.gaps[i].run = r.gaps[j].run
              PROVE  i = j
          <6>1. CASE i \in 1..n /\ j \in 1..n
            BY <2>1, <4>3, <5>2, <6>1 DEF GapsTrue
          <6>2. CASE i = n + 1 /\ j \in 1..n
            BY <4>1, <4>3, <4>4, <5>2, <6>2
          <6>3. CASE i \in 1..n /\ j = n + 1
            BY <4>1, <4>3, <4>4, <5>2, <6>3
          <6>4. QED
            BY <4>3, <6>1, <6>2, <6>3
        <5>3. QED
          BY <5>1, <5>2 DEF GapsTrue
      <4>6. Pending(r.gaps) = Pending(s.gaps) + 1
        BY <2>5, <3>2, <4>1, SumAppend DEF one
      <4>7. r.unattributed = s.unattributed /\ r.unattributed \in Nat
        BY <2>5, <3>2
      <4>8. Len(r.gaps) <= MaxTrackedGapRuns
        <5>1. Len(r.gaps) = Len(s.gaps) + 1 /\ Len(s.gaps) \in Nat /\ MaxTrackedGapRuns \in Nat
          BY <2>5, <3>2, BufferAssumption
        <5>2. QED
          BY <3>2, <5>1
      <4>9. QED
        BY <3>0, <4>5, <4>6, <4>7, <4>8, <2>5
    <3>3. CASE r.gaps = s.gaps /\ r.unattributed = s.unattributed + 1
      <4>1. GapsTrue(r.gaps, more)
        BY <2>1, <2>9, <3>3 DEF GapsTrue
      <4>2. QED
        BY <2>5, <3>0, <3>3, <4>1
    <3>4. QED
      BY <1>2, <2>1, <3>1, <3>2, <3>3, EvictionFacts DEF r
  <2>11. CountTrue(r)
    <3>1. r.dark = s.dark /\ r.told = s.told
      BY <2>2 DEF LossOf
    <3>2. Pending(s.gaps) \in Nat
      BY <2>5, SumTyped
    <3>3. Cardinality(r.lost) = Cardinality(s.lost) + 1
      BY <2>6
    <3>4. ASSUME ~s.dark PROVE /\ Cardinality(r.lost) = r.told + Pending(r.gaps) + r.unattributed
                               /\ Len(r.gaps) <= MaxTrackedGapRuns
      <4>1. Cardinality(s.lost) = s.told + Pending(s.gaps) + s.unattributed /\ Len(s.gaps) <= MaxTrackedGapRuns
        BY <2>1, <3>4 DEF CountTrue
      <4>2. Cardinality(s.lost) = s.told + Pending(s.gaps) + s.unattributed
        BY <4>1
      <4>3. s.told \in Nat /\ s.unattributed \in Nat
        BY <2>5
      <4>4. r.unattributed \in Nat /\ Pending(r.gaps) \in Nat
            /\ Pending(r.gaps) + r.unattributed = Pending(s.gaps) + s.unattributed + 1
        BY <2>10
      <4>5. Cardinality(r.lost) = r.told + Pending(r.gaps) + r.unattributed
        BY <3>1, <3>2, <3>3, <4>2, <4>3, <4>4
      <4>6. Len(s.gaps) <= MaxTrackedGapRuns => Len(r.gaps) <= MaxTrackedGapRuns
        BY <2>10
      <4>7. QED
        BY <4>1, <4>5, <4>6
    <3>5. QED
      BY <3>1, <3>4 DEF CountTrue
  <2>12. r \in Sessions
    BY <2>2 DEF LossOf
  <2>13. Ledger(r)
    <3>1. r.emitted = s.emitted /\ r.buffer = s.buffer /\ r.lost = more
      BY <2>2, <2>6 DEF LossOf
    <3>2. QED
      BY <1>2, <2>1, <3>1 DEF Ledger, more
  <2>14. Sound(r, h, Q \ {e.seq})
    BY <2>6, <2>7, <2>8, <2>10, <2>11, <2>12, <2>13 DEF Sound
  <2>15. QED
    BY <2>14 DEF r
<1>3. QED
  BY <1>1, <1>2 DEF Events

\* What losses leave of a session, and the losses of several events.
Losses(r, s) ==
    /\ r \in Sessions
    /\ r.link = s.link /\ r.seq = s.seq /\ r.buffer = s.buffer /\ r.held = s.held
    /\ r.wire = s.wire /\ r.stale = s.stale /\ r.emitted = s.emitted /\ r.told = s.told
    /\ r.dark = s.dark /\ s.lost \subseteq r.lost

LEMMA EvictionLosses ==
    ASSUME NEW s \in Sessions, NEW e \in Events PROVE Losses(RecordEviction(s, e), s)
BY EvictionFacts DEF Losses, LossOf, Events

LEMMA EvictionsSound ==
    ASSUME NEW s, NEW h, NEW Q, NEW es \in Seq(Events), Sound(s, h, Q \cup UnsentOf(es)),
           Q \cap SeqsOf(es) = {}, \A i, j \in DOMAIN es : es[i].seq = es[j].seq => i = j,
           \A i \in DOMAIN es : Key(es[i]) \in s.emitted
    PROVE  /\ Sound(FoldLeft(RecordEviction, s, es), h, Q)
           /\ Losses(FoldLeft(RecordEviction, s, es), s)
<1>1. s \in Sessions
  BY DEF Sound
<1>2. PICK f : /\ f[0] = s /\ \A n \in 0..Len(es) : f[n] \in Sessions
               /\ \A n \in 0..(Len(es) - 1) : f[n + 1] = RecordEviction(f[n], es[n + 1])
               /\ FoldLeft(RecordEviction, s, es) = f[Len(es)]
  BY <1>1, EvictionsRun
<1> DEFINE N == Len(es)
           Rest(n) == {es[i].seq : i \in {i \in (n + 1)..N : ~es[i].sent}}
           T == {n \in 0..N : Sound(f[n], h, Q \cup Rest(n)) /\ Losses(f[n], s)}
<1>3. N \in Nat /\ DOMAIN es = 1..N /\ \A i \in 1..N : es[i] \in Events
  OBVIOUS
<1>4. Rest(0) = UnsentOf(es) /\ Rest(N) = {}
  BY <1>3 DEF UnsentOf
<1>5. Losses(s, s)
  BY <1>1 DEF Losses
<1>6. 0 \in T
  <2>1. Sound(f[0], h, Q \cup Rest(0)) /\ Losses(f[0], s)
    <3> HIDE DEF Rest
    <3>1. QED
      BY <1>2, <1>4, <1>5
  <2>2. 0 \in 0..N
    BY <1>3
  <2>3. QED
    <3> HIDE DEF Rest, N
    <3>1. QED
      BY <2>1, <2>2
<1>7. ASSUME NEW n \in 0..(N - 1), n \in T PROVE n + 1 \in T
  <2> HIDE DEF N
  <2>1. n \in Nat /\ n + 1 \in 1..N /\ n + 1 \in 0..N /\ n \in 0..N /\ es[n + 1] \in Events
    BY <1>3
  <2>2. f[n + 1] = RecordEviction(f[n], es[n + 1]) /\ f[n] \in Sessions
    BY <1>2, <2>1 DEF N
  <2>3. Sound(f[n], h, Q \cup Rest(n)) /\ Losses(f[n], s)
    BY <1>7
  <2>4. ~es[n + 1].sent => es[n + 1].seq \in Q \cup Rest(n)
    BY <2>1
  <2>5. Key(es[n + 1]) \in f[n].emitted
    <3>1. n + 1 \in DOMAIN es /\ f[n].emitted = s.emitted
      BY <1>3, <2>1, <2>3 DEF Losses, N
    <3>2. QED
      BY <3>1
  <2>6. Sound(f[n + 1], h, (Q \cup Rest(n)) \ {es[n + 1].seq})
    <3> HIDE DEF Rest
    <3>1. QED
      BY <2>1, <2>2, <2>3, <2>4, <2>5, EvictionSound
  <2>7. Q \cup Rest(n + 1) \subseteq (Q \cup Rest(n)) \ {es[n + 1].seq}
    <3>1. es[n + 1].seq \notin Q
      BY <1>3, <2>1 DEF SeqsOf
    <3>2. ASSUME NEW i \in (n + 2)..N PROVE es[i].seq # es[n + 1].seq /\ i \in (n + 1)..N
      <4>1. i \in 1..N /\ i # n + 1 /\ i \in (n + 1)..N
        BY <1>3, <2>1
      <4>2. QED
        BY <1>3, <2>1, <4>1
    <3>3. n + 1 + 1 = n + 2
      BY <2>1
    <3>4. QED
      BY <3>1, <3>2, <3>3
  <2>8. Sound(f[n + 1], h, Q \cup Rest(n + 1))
    <3> HIDE DEF Rest
    <3>1. Q \cup Rest(n + 1) \in SUBSET ((Q \cup Rest(n)) \ {es[n + 1].seq})
      BY <2>7
    <3>2. QED
      BY <2>6, <3>1, FewerKept
  <2>9. Losses(f[n + 1], s)
    <3> HIDE DEF Rest, T
    <3>1. Losses(f[n + 1], f[n])
      BY <2>1, <2>2, EvictionLosses
    <3>2. QED
      BY <2>3, <3>1 DEF Losses
  <2>10. QED
    BY <2>1, <2>8, <2>9
<1>8. N \in T
  <2> HIDE DEF T
  <2>1. \A n \in 0..N : n \in T
    BY <1>3, <1>6, <1>7, Climb
  <2>2. QED
    BY <1>3, <2>1
<1>9. Sound(f[N], h, Q \cup {}) /\ Losses(f[N], s)
  BY <1>4, <1>8
<1>10. QED
  BY <1>2, <1>9, FewerKept

-----------------------------------------------------------------------------
(* The push of an item.                                                    *)

\* The item pushed last stays, so no more is shed than was there before it.
LEMMA ShedIs ==
    ASSUME NEW all \in Seq(Events), Len(all) >= 1
    PROVE  Shed(all) \in 0..(Len(all) - 1) /\ ~Overfull(SubSeq(all, Shed(all) + 1, Len(all)))
<1> DEFINE L == Len(all)
           Over(k) == Overfull(SubSeq(all, k + 1, L))
           T == {k \in 0..L : ~Over(k)}
<1>1. L \in Nat /\ L - 1 \in 0..L
  OBVIOUS
<1>2. ~Over(L - 1)
  <2>1. Len(SubSeq(all, (L - 1) + 1, L)) = 1
    OBVIOUS
  <2>2. Capacity \in Nat \ {0}
    BY BufferAssumption
  <2>3. QED
    BY <2>1, <2>2 DEF Overfull
<1> HIDE DEF Over, L
<1>3. PICK x \in T : \A y \in T : x <= y
  <2>1. T \in SUBSET Nat /\ T # {}
    BY <1>1, <1>2
  <2>2. QED
    BY <2>1, Least
<1>4. \A j \in 0..(x - 1) : Over(j)
  <2>1. \A j \in 0..(x - 1) : j \in 0..L /\ ~(x <= j)
    BY <1>1, <1>3
  <2>2. QED
    BY <1>3, <2>1
<1> DEFINE Fit(k) == ~Over(k) /\ \A j \in 0..(k - 1) : Over(j)
<1>5. Shed(all) = CHOOSE k \in 0..L : Fit(k)
  BY DEF Shed, Over, L
<1>6. \E k \in 0..L : Fit(k)
  BY <1>3, <1>4
<1>7. Shed(all) \in 0..L /\ Fit(Shed(all))
  <2> HIDE DEF Fit
  <2>1. QED
    BY <1>5, <1>6
<1>8. Shed(all) # L
  <2>1. SUFFICES ASSUME Shed(all) = L PROVE FALSE
    OBVIOUS
  <2>2. L - 1 \in 0..(L - 1)
    <3>1. L >= 1
      BY DEF L
    <3>2. QED
      BY <1>1, <3>1
  <2>3. QED
    BY <1>2, <1>7, <2>1, <2>2
<1>9. Shed(all) \in 0..(L - 1)
  BY <1>1, <1>7, <1>8
<1>10. QED
  BY <1>7, <1>9 DEF Over, L

\* A push as the eviction of what it sheds.
LEMMA PushIs ==
    ASSUME NEW s \in Sessions, NEW e \in Events
    PROVE  \E k \in 0..Len(s.buffer) : \E q \in Seq(Events), es \in Seq(Events) :
             /\ q = SubSeq(Append(s.buffer, e), k + 1, Len(s.buffer) + 1) /\ ~Overfull(q)
             /\ Len(q) = Len(s.buffer) + 1 - k /\ q[Len(q)] = e
             /\ \A i \in 1..Len(q) : i # Len(q) => i + k \in 1..Len(s.buffer) /\ q[i] = s.buffer[i + k]
             /\ Len(es) = k /\ \A i \in 1..k : es[i] = s.buffer[i]
             /\ Pushed(s, e) = FoldLeft(RecordEviction, [s EXCEPT !.buffer = q], es)
<1> DEFINE all == Append(s.buffer, e)
           k == Shed(all)
           q == SubSeq(all, k + 1, Len(all))
           es == SubSeq(all, 1, k)
<1>1. s.buffer \in Seq(Events)
  BY SessionIs
<1>2. all \in Seq(Events) /\ Len(all) = Len(s.buffer) + 1 /\ Len(s.buffer) \in Nat
      /\ all[Len(all)] = e /\ \A i \in 1..Len(s.buffer) : all[i] = s.buffer[i]
  BY <1>1
<1>3. Pushed(s, e) = FoldLeft(RecordEviction, [s EXCEPT !.buffer = q], es)
  BY DEF Pushed
<1>4. k \in 0..(Len(all) - 1) /\ ~Overfull(q)
  <2> HIDE DEF all
  <2>1. Len(all) >= 1
    BY <1>2
  <2>2. QED
    BY <1>2, <2>1, ShedIs
<1> HIDE DEF all, k
<1>5. k \in 0..Len(s.buffer) /\ k \in Nat /\ Len(all) \in Nat
  BY <1>2, <1>4
<1>6. q \in Seq(Events) /\ Len(q) = Len(all) - k /\ \A i \in 1..Len(q) : q[i] = all[i + k]
  BY <1>2, <1>5
<1>7. es \in Seq(Events) /\ Len(es) = k /\ \A i \in 1..k : es[i] = all[i]
  BY <1>2, <1>5
<1>8. q = SubSeq(Append(s.buffer, e), k + 1, Len(s.buffer) + 1)
  BY <1>2 DEF all
<1> HIDE DEF q, es
<1>9. /\ Len(q) = Len(s.buffer) + 1 - k /\ q[Len(q)] = e
      /\ \A i \in 1..Len(q) : i # Len(q) => i + k \in 1..Len(s.buffer) /\ q[i] = s.buffer[i + k]
  <2>1. Len(q) \in 1..Len(q) /\ Len(q) + k = Len(all)
    BY <1>2, <1>5, <1>6
  <2>2. ASSUME NEW i \in 1..Len(q), i # Len(q) PROVE i + k \in 1..Len(s.buffer)
    BY <1>2, <1>5, <1>6, <2>2
  <2>3. q[Len(q)] = all[Len(all)]
    BY <1>6, <2>1
  <2>4. \A i \in 1..Len(q) : i # Len(q) => i + k \in 1..Len(s.buffer) /\ q[i] = s.buffer[i + k]
    BY <1>2, <1>6, <2>2
  <2>5. Len(q) = Len(s.buffer) + 1 - k
    BY <1>2, <1>5, <1>6
  <2>6. QED
    BY <1>2, <2>3, <2>4, <2>5
<1>10. \A i \in 1..k : es[i] = s.buffer[i]
  BY <1>2, <1>5, <1>7
<1>11. QED
  BY <1>3, <1>4, <1>5, <1>6, <1>7, <1>8, <1>9, <1>10

\* What a push leaves of a session.
Pushes(r, s, e) ==
    /\ r \in Sessions
    /\ r.link = s.link /\ r.seq = s.seq /\ r.held = s.held /\ r.wire = s.wire
    /\ r.stale = s.stale /\ r.emitted = s.emitted /\ r.told = s.told /\ r.dark = s.dark
    /\ s.lost \subseteq r.lost
    /\ \E i \in DOMAIN r.buffer : r.buffer[i] = e
    /\ \A i \in DOMAIN r.buffer : r.buffer[i] = e \/ \E j \in DOMAIN s.buffer : r.buffer[i] = s.buffer[j]

\* A session with another buffer.
LEMMA BufferSet ==
    ASSUME NEW s \in Sessions, NEW q \in Seq(Events), NEW r, r = [s EXCEPT !.buffer = q]
    PROVE  /\ r \in Sessions /\ r.buffer = q
           /\ r.link = s.link /\ r.seq = s.seq /\ r.held = s.held /\ r.wire = s.wire /\ r.gaps = s.gaps
           /\ r.stale = s.stale /\ r.emitted = s.emitted /\ r.told = s.told /\ r.dark = s.dark
           /\ r.lost = s.lost /\ r.unattributed = s.unattributed
BY DEF Sessions

LEMMA PushedSound ==
    ASSUME NEW s, NEW h, NEW Q, Sound(s, h, Q), NEW e \in Events, e.seq \in Q, Fits(e), Key(e) \in s.emitted
    PROVE  Sound(Pushed(s, e), h, Q \ {e.seq}) /\ Pushes(Pushed(s, e), s, e)
<1>1. s \in Sessions /\ IsFiniteSet(s.lost) /\ GapsTrue(s.gaps, s.lost) /\ CountTrue(s) /\ LitHolds(s) /\ Ledger(s)
      /\ Apart(s.buffer, Given(s.lost), Seen(s, h), s.seq, Q)
  BY DEF Sound
<1>2. PICK k \in 0..Len(s.buffer) : \E q \in Seq(Events), es \in Seq(Events) :
             /\ q = SubSeq(Append(s.buffer, e), k + 1, Len(s.buffer) + 1) /\ ~Overfull(q)
             /\ Len(q) = Len(s.buffer) + 1 - k /\ q[Len(q)] = e
             /\ \A i \in 1..Len(q) : i # Len(q) => i + k \in 1..Len(s.buffer) /\ q[i] = s.buffer[i + k]
             /\ Len(es) = k /\ \A i \in 1..k : es[i] = s.buffer[i]
             /\ Pushed(s, e) = FoldLeft(RecordEviction, [s EXCEPT !.buffer = q], es)
  BY <1>1, PushIs
<1>3. PICK q \in Seq(Events), es \in Seq(Events) :
             /\ ~Overfull(q)
             /\ Len(q) = Len(s.buffer) + 1 - k /\ q[Len(q)] = e
             /\ \A i \in 1..Len(q) : i # Len(q) => i + k \in 1..Len(s.buffer) /\ q[i] = s.buffer[i + k]
             /\ Len(es) = k /\ \A i \in 1..k : es[i] = s.buffer[i]
             /\ Pushed(s, e) = FoldLeft(RecordEviction, [s EXCEPT !.buffer = q], es)
  BY <1>2
<1> DEFINE b == [s EXCEPT !.buffer = q]
           S == Seen(s, h)
           G == Given(s.lost)
           P == Q \ {e.seq}
<1>4. s.buffer \in Seq(Events) /\ DOMAIN s.buffer = 1..Len(s.buffer) /\ Len(s.buffer) \in Nat
      /\ DOMAIN q = 1..Len(q) /\ Len(q) \in 1..Len(q) /\ DOMAIN es = 1..k /\ k \in Nat
  BY <1>1, <1>3, SessionIs
<1>5. b \in Sessions /\ b.buffer = q /\ b.link = s.link /\ b.seq = s.seq /\ b.held = s.held /\ b.wire = s.wire
      /\ b.gaps = s.gaps /\ b.stale = s.stale /\ b.emitted = s.emitted /\ b.told = s.told /\ b.dark = s.dark
      /\ b.lost = s.lost /\ b.unattributed = s.unattributed
  BY <1>1, BufferSet
<1> HIDE DEF b
<1>6. \A i, j \in DOMAIN s.buffer : s.buffer[i].seq = s.buffer[j].seq => i = j
  BY <1>1 DEF Apart
<1>7. \A i \in DOMAIN s.buffer : s.buffer[i].seq # e.seq
  BY <1>1 DEF Apart, SeqsOf
<1>8. \A i, j \in DOMAIN q : q[i].seq = q[j].seq => i = j
  <2>1. ASSUME NEW i \in 1..Len(q), NEW j \in 1..Len(q), i # Len(q), j # Len(q), q[i].seq = q[j].seq PROVE i = j
    <3>1. i + k \in 1..Len(s.buffer) /\ j + k \in 1..Len(s.buffer) /\ q[i] = s.buffer[i + k] /\ q[j] = s.buffer[j + k]
      BY <1>3, <2>1
    <3>2. i + k = j + k
      BY <1>4, <1>6, <2>1, <3>1
    <3>3. QED
      BY <1>4, <3>2
  <2>2. ASSUME NEW i \in 1..Len(q), i # Len(q) PROVE q[i].seq # q[Len(q)].seq
    BY <1>3, <1>4, <1>7, <2>2
  <2>3. QED
    BY <1>4, <2>1, <2>2
<1>9. SeqsOf(q) \subseteq SeqsOf(s.buffer) \cup {e.seq} /\ UnsentOf(q) \subseteq UnsentOf(s.buffer) \cup {e.seq}
  <2>1. ASSUME NEW i \in DOMAIN q PROVE q[i] = e \/ \E j \in DOMAIN s.buffer : q[i] = s.buffer[j]
    BY <1>3, <1>4
  <2>2. QED
    BY <2>1 DEF SeqsOf, UnsentOf
<1>10. SeqsOf(es) \subseteq SeqsOf(s.buffer) /\ UnsentOf(es) \subseteq UnsentOf(s.buffer) /\ UnsentOf(es) \subseteq SeqsOf(es)
  <2>1. ASSUME NEW i \in DOMAIN es PROVE i \in DOMAIN s.buffer /\ es[i] = s.buffer[i]
    BY <1>3, <1>4
  <2>2. QED
    BY <2>1 DEF SeqsOf, UnsentOf
<1>11. SeqsOf(es) \cap SeqsOf(q) = {}
  <2>1. ASSUME NEW i \in DOMAIN es, NEW j \in DOMAIN q PROVE es[i].seq # q[j].seq
    <3>1. i \in DOMAIN s.buffer /\ es[i] = s.buffer[i]
      BY <1>3, <1>4
    <3>2. CASE j = Len(q)
      BY <1>3, <1>7, <3>1, <3>2
    <3>3. CASE j # Len(q)
      <4>1. j \in Nat /\ j >= 1 /\ i <= k /\ i \in Nat
        BY <1>4
      <4>2. j + k \in 1..Len(s.buffer) /\ q[j] = s.buffer[j + k]
        BY <1>3, <1>4, <3>3
      <4>3. j + k \in DOMAIN s.buffer /\ q[j] = s.buffer[j + k] /\ j + k # i
        BY <1>4, <4>1, <4>2
      <4>4. QED
        BY <1>6, <3>1, <4>3
    <3>4. QED
      BY <3>2, <3>3
  <2>2. QED
    BY <2>1 DEF SeqsOf
<1>12. Apart(q, G, S, s.seq, P \cup UnsentOf(es))
  <2>1. SeqsOf(s.buffer) \cup G \cup S \cup Q \subseteq 0..(s.seq - 1) /\ Q \cap (SeqsOf(s.buffer) \cup G \cup S) = {}
        /\ G \cap (SeqsOf(s.buffer) \cup S) = {} /\ UnsentOf(s.buffer) \cap S = {}
    BY <1>1 DEF Apart
  <2>2. SeqsOf(q) \cup G \cup S \cup P \cup UnsentOf(es) \subseteq 0..(s.seq - 1)
    BY <1>9, <1>10, <2>1
  <2>3. (P \cup UnsentOf(es)) \cap (SeqsOf(q) \cup G \cup S) = {}
    <3>1. P \cap (SeqsOf(q) \cup G \cup S) = {}
      BY <1>9, <2>1
    <3>2. UnsentOf(es) \cap (SeqsOf(q) \cup G \cup S) = {}
      BY <1>10, <1>11, <2>1
    <3>3. QED
      BY <3>1, <3>2
  <2>4. G \cap (SeqsOf(q) \cup S) = {} /\ UnsentOf(q) \cap S = {}
    BY <1>9, <2>1
  <2>5. Bounded(q)
    <3>1. \A i \in DOMAIN s.buffer : Fits(s.buffer[i])
      BY <1>1 DEF Apart, Bounded
    <3>2. \A i \in DOMAIN q : q[i] = e \/ \E j \in DOMAIN s.buffer : q[i] = s.buffer[j]
      BY <1>3, <1>4
    <3>3. QED
      BY <1>3, <3>1, <3>2 DEF Bounded
  <2>6. QED
    BY <1>8, <2>2, <2>3, <2>4, <2>5 DEF Apart
<1>13. Sound(b, h, P \cup UnsentOf(es))
  <2>1. Seen(b, h) = S
    BY <1>5 DEF Seen, FramesOf
  <2>2. CountTrue(b) /\ LitHolds(b)
    BY <1>1, <1>5 DEF CountTrue, LitHolds
  <2>3. Ledger(b)
    <3>1. \A i \in DOMAIN q : q[i] = e \/ \E j \in DOMAIN s.buffer : q[i] = s.buffer[j]
      BY <1>3, <1>4
    <3>2. QED
      BY <1>1, <1>5, <3>1 DEF Ledger
  <2> HIDE DEF P
  <2>4. Apart(b.buffer, Given(b.lost), Seen(b, h), b.seq, P \cup UnsentOf(es))
    BY <1>5, <1>12, <2>1
  <2>5. QED
    BY <1>1, <1>5, <2>2, <2>4, <2>3 DEF Sound
<1>14. P \cap SeqsOf(es) = {}
  BY <1>1, <1>10 DEF Apart
<1>15. \A i, j \in DOMAIN es : es[i].seq = es[j].seq => i = j
  <2>1. \A i \in DOMAIN es : i \in DOMAIN s.buffer /\ es[i] = s.buffer[i]
    BY <1>3, <1>4
  <2>2. QED
    BY <1>6, <2>1
<1>16. \A i \in DOMAIN es : Key(es[i]) \in b.emitted
  <2>1. \A i \in DOMAIN es : i \in DOMAIN s.buffer /\ es[i] = s.buffer[i]
    BY <1>3, <1>4
  <2>2. QED
    BY <1>1, <1>5, <2>1 DEF Ledger
<1>17. Sound(Pushed(s, e), h, P) /\ Losses(Pushed(s, e), b)
  <2> HIDE DEF P
  <2>1. Sound(FoldLeft(RecordEviction, b, es), h, P) /\ Losses(FoldLeft(RecordEviction, b, es), b)
    BY <1>13, <1>14, <1>15, <1>16, EvictionsSound
  <2>2. Pushed(s, e) = FoldLeft(RecordEviction, b, es)
    BY <1>3 DEF b
  <2>3. QED
    BY <2>1, <2>2
<1>18. \A i \in DOMAIN q : q[i] = e \/ \E j \in DOMAIN s.buffer : q[i] = s.buffer[j]
  BY <1>3, <1>4
<1>19. Pushes(Pushed(s, e), s, e)
  <2> DEFINE r == Pushed(s, e)
  <2> HIDE DEF r, P, S, G
  <2>1. Losses(r, b) /\ r.buffer = q
    BY <1>5, <1>17 DEF r, Losses
  <2>2. q[Len(q)] = e
    BY <1>3
  <2>3. Pushes(r, s, e)
    BY <1>4, <1>5, <1>18, <2>1, <2>2 DEF Pushes, Losses
  <2>4. QED
    BY <2>3 DEF r
<1>20. QED
  BY <1>17, <1>19

-----------------------------------------------------------------------------
(* Seqs, frames and sends.                                                 *)

\* What a sound session is sound about, with frames fewer.
Alike(r, s) ==
    /\ r.buffer = s.buffer /\ r.lost = s.lost /\ r.gaps = s.gaps /\ r.seq = s.seq
    /\ r.told = s.told /\ r.unattributed = s.unattributed /\ (r.dark = s.dark \/ r.dark)
    /\ s.emitted \subseteq r.emitted

LEMMA SoundAlike ==
    ASSUME NEW s, NEW h, NEW Q, Sound(s, h, Q), NEW r \in Sessions, NEW g, Alike(r, s), LitHolds(r),
           Seen(r, g) \subseteq Seen(s, h)
    PROVE  Sound(r, g, Q)
<1>1. Apart(r.buffer, Given(r.lost), Seen(r, g), r.seq, Q)
  BY DEF Sound, Apart, Alike
<1>2. QED
  BY <1>1 DEF Sound, Alike, CountTrue, Ledger

LEMMA FewerFrames ==
    ASSUME NEW s, NEW h, NEW r, NEW g, FramesOf(r, g) \subseteq FramesOf(s, h)
    PROVE  Seen(r, g) \subseteq Seen(s, h)
BY DEF Seen

\* The session's seq goes to an event.
Takes(r, s) ==
    /\ r \in Sessions
    /\ r.link = s.link /\ r.seq = s.seq + 1 /\ r.buffer = s.buffer /\ r.gaps = s.gaps
    /\ r.unattributed = s.unattributed /\ r.lost = s.lost /\ r.held = s.held /\ r.wire = s.wire
    /\ r.stale = s.stale /\ r.emitted = s.emitted /\ r.told = s.told /\ r.dark = s.dark

LEMMA TakenIs == ASSUME NEW s \in Sessions PROVE Takes(Taken(s), s)
<1> DEFINE n == s.seq + 1
<1>1. n \in Nat
  BY SessionIs
<1>2. Taken(s) = [s EXCEPT !.seq = n]
  BY DEF Taken
<1> HIDE DEF n
<1>3. Taken(s) \in Sessions
  BY <1>1, <1>2 DEF Sessions
<1>4. QED
  BY <1>2, <1>3 DEF Takes, Sessions, n

LEMMA TakenSound ==
    ASSUME NEW s, NEW h, NEW Q, Sound(s, h, Q)
    PROVE  Sound(Taken(s), h, Q \cup {s.seq}) /\ s.seq \notin Q /\ s.seq \in Nat
<1>1. s \in Sessions /\ s.seq \in Nat
  BY SessionIs DEF Sound
<1> DEFINE r == Taken(s)
<1>2. Takes(r, s)
  BY <1>1, TakenIs
<1> HIDE DEF r
<1>3. Seen(r, h) = Seen(s, h)
  BY <1>2 DEF Takes, Seen, FramesOf
<1>4. Apart(s.buffer, Given(s.lost), Seen(s, h), s.seq, Q)
  BY DEF Sound
<1>5. s.seq \notin SeqsOf(s.buffer) \cup Given(s.lost) \cup Seen(s, h) \cup Q
  <2>1. s.seq \notin 0..(s.seq - 1)
    BY <1>1
  <2>2. QED
    BY <1>4, <2>1 DEF Apart
<1>6. 0..(s.seq - 1) \subseteq 0..s.seq /\ s.seq \in 0..s.seq /\ (s.seq + 1) - 1 = s.seq
  BY <1>1
<1>7. Apart(s.buffer, Given(s.lost), Seen(s, h), s.seq + 1, Q \cup {s.seq})
  BY <1>4, <1>5, <1>6 DEF Apart
<1>8. Sound(r, h, Q \cup {s.seq})
  BY <1>2, <1>3, <1>7 DEF Sound, Takes, CountTrue, LitHolds, Ledger
<1>9. QED
  BY <1>1, <1>5, <1>8 DEF r

LEMMA GivenBackSound ==
    ASSUME NEW s, NEW h, NEW Q, Sound(s, h, Q), NEW seq \in Q
    PROVE  Sound(GivenBack(s, seq), h, Q \ {seq}) /\ GivenBack(s, seq).link = s.link
           /\ GivenBack(s, seq).buffer = s.buffer /\ GivenBack(s, seq).wire = s.wire
<1>1. s \in Sessions /\ Apart(s.buffer, Given(s.lost), Seen(s, h), s.seq, Q)
  BY DEF Sound
<1>2. CASE s.seq # seq + 1
  <2>1. GivenBack(s, seq) = s
    BY <1>2 DEF GivenBack
  <2>2. QED
    BY <2>1, FewerKept
<1>3. CASE s.seq = seq + 1
  <2> DEFINE r == [s EXCEPT !.seq = seq]
  <2>1. seq \in Nat
    BY <1>1, SessionIs DEF Apart
  <2>2. /\ r \in Sessions /\ r.seq = seq
        /\ r.link = s.link /\ r.buffer = s.buffer /\ r.gaps = s.gaps
        /\ r.unattributed = s.unattributed /\ r.lost = s.lost /\ r.held = s.held /\ r.wire = s.wire
        /\ r.stale = s.stale /\ r.emitted = s.emitted /\ r.told = s.told /\ r.dark = s.dark
    BY <1>1, <2>1 DEF Sessions
  <2>3. GivenBack(s, seq) = r
    BY <1>3 DEF GivenBack
  <2> HIDE DEF r
  <2>4. Seen(r, h) = Seen(s, h)
    BY <2>2 DEF Seen, FramesOf
  <2>5. \A n \in 0..(s.seq - 1) : n # seq => n \in 0..(seq - 1)
    BY <1>3, <2>1
  <2>6. Apart(s.buffer, Given(s.lost), Seen(s, h), seq, Q \ {seq})
    <3>1. seq \notin SeqsOf(s.buffer) \cup Given(s.lost) \cup Seen(s, h)
      BY <1>1 DEF Apart
    <3>2. SeqsOf(s.buffer) \cup Given(s.lost) \cup Seen(s, h) \cup (Q \ {seq}) \subseteq 0..(seq - 1)
      BY <1>1, <2>5, <3>1 DEF Apart
    <3>3. QED
      BY <1>1, <3>2 DEF Apart
  <2>7. Sound(r, h, Q \ {seq})
    BY <2>2, <2>4, <2>6 DEF Sound, CountTrue, LitHolds, Ledger
  <2>8. QED
    BY <2>2, <2>3, <2>7
<1>4. QED
  BY <1>2, <1>3

LEMMA FramedIs ==
    ASSUME NEW s \in Sessions, NEW e \in Events
    PROVE  LET r == Framed(s, e) IN
           /\ r \in Sessions /\ r.emitted = s.emitted \cup {Key(e)}
           /\ r.link = s.link /\ r.seq = s.seq /\ r.buffer = s.buffer /\ r.gaps = s.gaps
           /\ r.unattributed = s.unattributed /\ r.lost = s.lost /\ r.held = s.held /\ r.wire = s.wire
           /\ r.stale = s.stale /\ r.told = s.told /\ r.dark = s.dark
<1> DEFINE more == s.emitted \cup {Key(e)}
<1>1. more \subseteq Keyed
  <2>1. Key(e) \in Keyed
    BY DEF Key, Keyed, Events
  <2>2. QED
    BY <2>1, SessionIs
<1>2. Framed(s, e) = [s EXCEPT !.emitted = more]
  BY DEF Framed
<1> HIDE DEF more
<1>3. QED
  BY <1>1, <1>2 DEF Sessions, more

LEMMA FramedSound ==
    ASSUME NEW s, NEW h, NEW Q, Sound(s, h, Q), NEW e \in Events PROVE Sound(Framed(s, e), h, Q)
<1>1. s \in Sessions
  BY DEF Sound
<1> DEFINE r == Framed(s, e)
<1>2. r \in Sessions /\ Alike(r, s) /\ FramesOf(r, h) = FramesOf(s, h) /\ (LitHolds(s) => LitHolds(r))
  BY <1>1, FramedIs DEF Alike, FramesOf, LitHolds
<1> HIDE DEF r
<1>3. LitHolds(r) /\ Seen(r, h) \subseteq Seen(s, h)
  BY <1>2, FewerFrames DEF Sound
<1>4. QED
  BY <1>2, <1>3, SoundAlike DEF r

\* What a send leaves of a session.
EventFrame(e) == [kind |-> "event", run |-> e.run, seq |-> e.seq]
Sends(r, s, e) ==
    /\ r \in Sessions
    /\ r.link = s.link /\ r.seq = s.seq /\ r.gaps = s.gaps
    /\ r.unattributed = s.unattributed /\ r.lost = s.lost /\ r.held = s.held
    /\ r.stale = s.stale /\ r.emitted = s.emitted /\ r.told = s.told /\ r.dark = s.dark
    /\ r.wire = Append(s.wire, EventFrame(e))
    /\ Len(r.buffer) = Len(s.buffer)
    /\ \A i \in DOMAIN s.buffer :
          /\ r.buffer[i].run = s.buffer[i].run /\ r.buffer[i].seq = s.buffer[i].seq
          /\ r.buffer[i].size = s.buffer[i].size
          /\ ~r.buffer[i].sent => ~s.buffer[i].sent /\ s.buffer[i].seq # e.seq

LEMMA SentIs == ASSUME NEW s \in Sessions, NEW e \in Events PROVE Sends(Sent(s, e), s, e)
<1> DEFINE w == Append(s.wire, EventFrame(e))
           q == [i \in DOMAIN s.buffer |-> IF s.buffer[i].seq = e.seq THEN [s.buffer[i] EXCEPT !.sent = TRUE]
                                                                   ELSE s.buffer[i]]
           r == Sent(s, e)
<1>1. s.buffer \in Seq(Events) /\ s.wire \in Seq(OnWire)
  BY SessionIs
<1>2. w \in Seq(OnWire)
  <2>1. EventFrame(e) \in OnWire
    BY DEF EventFrame, OnWire, Events
  <2>2. QED
    BY <1>1, <2>1
<1>3. ASSUME NEW i \in DOMAIN s.buffer
      PROVE  /\ q[i] \in Events
             /\ q[i].run = s.buffer[i].run /\ q[i].seq = s.buffer[i].seq /\ q[i].size = s.buffer[i].size
             /\ ~q[i].sent => ~s.buffer[i].sent /\ s.buffer[i].seq # e.seq
  <2>1. s.buffer[i] \in Events
    BY <1>1
  <2>2. CASE s.buffer[i].seq = e.seq
    BY <2>1, <2>2 DEF Events
  <2>3. CASE s.buffer[i].seq # e.seq
    BY <2>1, <2>3 DEF Events
  <2>4. QED
    BY <2>2, <2>3
<1>4. q \in Seq(Events) /\ Len(q) = Len(s.buffer)
  <2>1. Len(s.buffer) \in Nat /\ DOMAIN s.buffer = 1..Len(s.buffer)
    BY <1>1
  <2>2. q \in [1..Len(s.buffer) -> Events]
    BY <1>3, <2>1
  <2> HIDE DEF q
  <2>3. QED
    BY <2>1, <2>2
<1>5. r = [s EXCEPT !.wire = w, !.buffer = q]
  BY DEF Sent, EventFrame
<1> HIDE DEF w, q, r
<1>6. /\ r \in Sessions /\ r.wire = w /\ r.buffer = q
      /\ r.link = s.link /\ r.seq = s.seq /\ r.gaps = s.gaps
      /\ r.unattributed = s.unattributed /\ r.lost = s.lost /\ r.held = s.held
      /\ r.stale = s.stale /\ r.emitted = s.emitted /\ r.told = s.told /\ r.dark = s.dark
  BY <1>2, <1>4, <1>5 DEF Sessions
<1>7. Sends(r, s, e)
  BY <1>3, <1>4, <1>6 DEF Sends, w
<1>8. QED
  BY <1>7 DEF r

LEMMA SentSound ==
    ASSUME NEW s, NEW h, NEW Q, Sound(s, h, Q), s.link = "attached", NEW e \in Events,
           e.seq < s.seq, e.seq \notin Given(s.lost), e.seq \notin Q
    PROVE  Sound(Sent(s, e), h, Q)
<1>1. s \in Sessions /\ Apart(s.buffer, Given(s.lost), Seen(s, h), s.seq, Q) /\ e.seq \in Nat /\ s.seq \in Nat
  BY SessionIs DEF Sound, Events
<1> DEFINE r == Sent(s, e)
<1>2. Sends(r, s, e)
  BY <1>1, SentIs
<1> HIDE DEF r
<1>3. s.buffer \in Seq(Events) /\ s.wire \in Seq(OnWire) /\ r.buffer \in Seq(Events)
  BY <1>1, <1>2, SessionIs DEF Sends
<1>4. DOMAIN r.buffer = DOMAIN s.buffer
  <2>1. Len(r.buffer) = Len(s.buffer)
    BY <1>2 DEF Sends
  <2>2. QED
    BY <1>3, <2>1
<1>5. Seen(r, h) \subseteq Seen(s, h) \cup {e.seq}
  <2>1. {r.wire[i] : i \in DOMAIN r.wire} \subseteq {s.wire[i] : i \in DOMAIN s.wire} \cup {EventFrame(e)}
    <3>1. r.wire = Append(s.wire, EventFrame(e))
      BY <1>2 DEF Sends
    <3>2. QED
      BY <1>3, <3>1
  <2>2. FramesOf(r, h) \subseteq FramesOf(s, h) \cup {EventFrame(e)}
    BY <1>2, <2>1 DEF FramesOf, Sends
  <2>3. EventFrame(e).seq = e.seq
    BY DEF EventFrame
  <2>4. QED
    BY <2>2, <2>3 DEF Seen
<1>6. SeqsOf(r.buffer) = SeqsOf(s.buffer)
  BY <1>2, <1>4 DEF SeqsOf, Sends
<1>7. UnsentOf(r.buffer) \subseteq UnsentOf(s.buffer) \ {e.seq}
  <2>1. \A i \in DOMAIN r.buffer :
          /\ i \in DOMAIN s.buffer /\ r.buffer[i].seq = s.buffer[i].seq
          /\ ~r.buffer[i].sent => ~s.buffer[i].sent /\ s.buffer[i].seq # e.seq
    BY <1>2, <1>4 DEF Sends
  <2>2. ASSUME NEW n \in UnsentOf(r.buffer) PROVE n \in UnsentOf(s.buffer) /\ n # e.seq
    <3>1. PICK i \in DOMAIN r.buffer : ~r.buffer[i].sent /\ n = r.buffer[i].seq
      BY DEF UnsentOf
    <3>2. i \in DOMAIN s.buffer /\ n = s.buffer[i].seq /\ ~s.buffer[i].sent /\ s.buffer[i].seq # e.seq
      BY <2>1, <3>1
    <3>3. QED
      BY <3>2 DEF UnsentOf
  <2>3. QED
    BY <2>2
<1>8. Apart(r.buffer, Given(s.lost), Seen(r, h), s.seq, Q)
  <2>1. \A i, j \in DOMAIN r.buffer : r.buffer[i].seq = r.buffer[j].seq => i = j
    BY <1>1, <1>2, <1>4 DEF Apart, Sends
  <2>2. e.seq \in 0..(s.seq - 1)
    BY <1>1
  <2>3. Bounded(r.buffer)
    <3>1. Len(r.buffer) = Len(s.buffer) /\ \A i \in 1..Len(s.buffer) : r.buffer[i].size = s.buffer[i].size
      BY <1>2, <1>3 DEF Sends
    <3>2. Bounded(s.buffer)
      BY <1>1 DEF Apart
    <3>3. QED
      BY <1>3, <3>1, <3>2, BoundedSame
  <2>4. QED
    BY <1>1, <1>5, <1>6, <1>7, <2>1, <2>2, <2>3 DEF Apart
<1>9. Ledger(r)
  <2>1. \A i \in DOMAIN r.buffer : i \in DOMAIN s.buffer /\ Key(r.buffer[i]) = Key(s.buffer[i])
    BY <1>2, <1>4 DEF Sends, Key
  <2>2. r.emitted = s.emitted /\ r.lost = s.lost
    BY <1>2 DEF Sends
  <2>3. QED
    BY <2>1, <2>2 DEF Sound, Ledger
<1>10. Sound(r, h, Q)
  BY <1>2, <1>8, <1>9 DEF Sound, Sends, CountTrue, LitHolds
<1>11. QED
  BY <1>10 DEF r

-----------------------------------------------------------------------------
(* Emission, and the death of the socket.                                  *)

\* What the emission of an event leaves of a session that is not attached.
Keeps(r, s) ==
    /\ r \in Sessions
    /\ r.link = s.link /\ r.held = s.held /\ r.wire = s.wire /\ r.stale = s.stale
    /\ r.told = s.told /\ r.dark = s.dark /\ s.lost \subseteq r.lost /\ s.emitted \subseteq r.emitted

LEMMA ShelvedSound ==
    ASSUME NEW s, NEW h, NEW Q, Sound(s, h, Q), NEW e \in Events, e.seq \in Q
    PROVE  Sound(Shelved(s, e), h, Q \ {e.seq}) /\ Keeps(Shelved(s, e), s)
<1> DEFINE f == Framed(s, e)
<1>1. s \in Sessions
  BY DEF Sound
<1>2. Sound(f, h, Q) /\ Keeps(f, s) /\ Key(e) \in f.emitted
  BY <1>1, FramedSound, FramedIs DEF Keeps
<1>3. Shelved(s, e) = IF Fits(e) THEN Pushed(f, e) ELSE RecordEviction(f, e)
  BY DEF Shelved
<1> HIDE DEF f
<1>4. CASE Fits(e)
  <2>1. Sound(Pushed(f, e), h, Q \ {e.seq}) /\ Pushes(Pushed(f, e), f, e)
    BY <1>2, <1>4, PushedSound
  <2>2. Keeps(Pushed(f, e), s)
    BY <1>2, <2>1 DEF Keeps, Pushes
  <2>3. QED
    BY <1>3, <1>4, <2>1, <2>2
<1>5. CASE ~Fits(e)
  <2>1. Sound(RecordEviction(f, e), h, Q \ {e.seq})
    BY <1>2, EvictionSound
  <2>2. f \in Sessions
    BY <1>2 DEF Keeps
  <2>3. Losses(RecordEviction(f, e), f)
    BY <2>2, EvictionLosses
  <2>4. Keeps(RecordEviction(f, e), s)
    BY <1>2, <2>3 DEF Keeps, Losses
  <2>5. QED
    BY <1>3, <1>5, <2>1, <2>4
<1>6. QED
  BY <1>4, <1>5

LEMMA ItemIs ==
    ASSUME NEW run \in Runs, NEW seq \in Nat, NEW size \in Sizes \cup {Small}
    PROVE  /\ Item(run, seq, size) \in Events /\ ~Item(run, seq, size).sent
           /\ Item(run, seq, size).seq = seq /\ Item(run, seq, size).run = run
<1>1. size \in Nat
  BY BufferAssumption
<1>2. QED
  BY <1>1 DEF Item, Events

LEMMA EmittedDarkSound ==
    ASSUME NEW s, NEW h, NEW Q, Sound(s, h, Q), NEW run \in Runs
    PROVE  Sound(EmittedDark(s, run), h, Q) /\ Keeps(EmittedDark(s, run), s)
<1> DEFINE e == Item(run, s.seq, Small)
           t == Taken(s)
<1>1. s \in Sessions
  BY DEF Sound
<1>2. Sound(t, h, Q \cup {s.seq}) /\ s.seq \notin Q /\ s.seq \in Nat /\ Takes(t, s)
  BY <1>1, TakenSound, TakenIs
<1>3. e \in Events /\ e.seq = s.seq
  BY <1>2, ItemIs
<1> HIDE DEF e, t
<1>4. Sound(Shelved(t, e), h, (Q \cup {s.seq}) \ {e.seq}) /\ Keeps(Shelved(t, e), t)
  BY <1>2, <1>3, ShelvedSound
<1>5. (Q \cup {s.seq}) \ {e.seq} = Q
  BY <1>2, <1>3
<1>6. Keeps(Shelved(t, e), s)
  BY <1>2, <1>4 DEF Keeps, Takes
<1>7. EmittedDark(s, run) = Shelved(t, e)
  BY DEF EmittedDark, e, t
<1>8. QED
  BY <1>4, <1>5, <1>6, <1>7

\* The sessions that emissions make of z while no debugger is attached.
Darks(u, Q, z) == {s \in Sessions : Sound(s, u, Q) /\ Keeps(s, z)}

\* The releases of the held gates.
Releases(s, runs) == FoldLeft(EmittedDark, s, runs)

LEMMA DarksTyped ==
    ASSUME NEW u, NEW Q, NEW z, NEW s \in Darks(u, Q, z), NEW run \in Runs
    PROVE  EmittedDark(s, run) \in Darks(u, Q, z)
<1>1. Sound(s, u, Q) /\ Keeps(s, z)
  BY DEF Darks
<1>2. Sound(EmittedDark(s, run), u, Q) /\ Keeps(EmittedDark(s, run), s)
  BY <1>1, EmittedDarkSound
<1>3. Keeps(EmittedDark(s, run), z) /\ EmittedDark(s, run) \in Sessions
  BY <1>1, <1>2 DEF Keeps
<1>4. QED
  BY <1>2, <1>3 DEF Darks

LEMMA ReleasesRun ==
    ASSUME NEW u, NEW Q, NEW z, NEW b \in Darks(u, Q, z), NEW es \in Seq(Runs)
    PROVE  \E h : /\ h[0] = b /\ \A n \in 0..Len(es) : h[n] \in Darks(u, Q, z)
                  /\ \A n \in 0..(Len(es) - 1) : h[n + 1] = EmittedDark(h[n], es[n + 1])
                  /\ Releases(b, es) = h[Len(es)]
<1> DEFINE N == Len(es)
           Is(f) == f = [t \in SUBSET (DOMAIN es) |->
                           IF t = {} THEN b ELSE EmittedDark(f[t \ {Max(t)}], es[Max(t)])]
           f == CHOOSE f : Is(f)
           h == [n \in 0..N |-> f[1..n]]
<1>1. N \in Nat /\ DOMAIN es = 1..N /\ es \in [1..N -> Runs]
  OBVIOUS
<1>2. \E g : Is(g)
  <2> DEFINE G == [p \in Darks(u, Q, z) \X Runs |-> EmittedDark(p[1], p[2])]
  <2>1. G \in [Darks(u, Q, z) \X Runs -> Darks(u, Q, z)] /\ \A x \in Darks(u, Q, z), e \in Runs : G[<<x, e>>] = EmittedDark(x, e)
    BY DarksTyped
  <2> HIDE DEF G, N
  <2>2. PICK g : IsFold(g, Darks(u, Q, z), G, b, N, es)
    BY <1>1, <2>1, FoldExists
  <2>3. ASSUME NEW t \in SUBSET (1..N), t # {}
        PROVE  G[<<g[t \ {Max(t)}], es[Max(t)]>>] = EmittedDark(g[t \ {Max(t)}], es[Max(t)])
    <3>1. Max(t) \in 1..N
      BY <1>1, <2>3, MaxOfPrefix
    <3>2. g[t \ {Max(t)}] \in Darks(u, Q, z) /\ es[Max(t)] \in Runs
      BY <1>1, <2>2, <3>1 DEF IsFold
    <3>3. QED
      BY <2>1, <3>2
  <2>4. Is(g)
    BY <1>1, <2>2, <2>3 DEF IsFold
  <2>5. QED
    BY <2>4
<1>3. Is(f)
  <2> HIDE DEF Is
  <2>1. QED
    BY <1>2
<1>4. Releases(b, es) = f[1..N]
  BY <1>1 DEF FoldLeft, MapThenFoldSet, Releases
<1> HIDE DEF f
<1>5. h[0] = b
  BY <1>1, <1>3
<1>6. ASSUME NEW n \in 0..(N - 1) PROVE h[n + 1] = EmittedDark(h[n], es[n + 1])
  <2> HIDE DEF N, h
  <2>1. /\ n \in 0..N /\ n + 1 \in 0..N /\ 1..(n + 1) \in SUBSET (1..N) /\ 1..(n + 1) # {}
        /\ Max(1..(n + 1)) = n + 1 /\ (1..(n + 1)) \ {n + 1} = 1..n
    BY <1>1, PrefixStep
  <2>2. f[1..(n + 1)] = EmittedDark(f[(1..(n + 1)) \ {Max(1..(n + 1))}], es[Max(1..(n + 1))])
    BY <1>1, <1>3, <2>1
  <2>3. QED
    BY <2>1, <2>2 DEF h
<1>7. \A n \in 0..N : h[n] \in Darks(u, Q, z)
  <2> DEFINE T == {n \in 0..N : h[n] \in Darks(u, Q, z)}
  <2> HIDE DEF h
  <2>1. 0 \in T
    BY <1>1, <1>5
  <2>2. ASSUME NEW n \in 0..(N - 1), n \in T PROVE n + 1 \in T
    <3>1. n + 1 \in 0..N /\ es[n + 1] \in Runs /\ h[n] \in Darks(u, Q, z)
      BY <1>1, <2>2
    <3>2. h[n + 1] \in Darks(u, Q, z)
      BY <1>6, <3>1, DarksTyped
    <3>3. QED
      BY <3>1, <3>2
  <2>3. QED
    <3> HIDE DEF T
    <3>1. \A n \in 0..N : n \in T
      BY <1>1, <2>1, <2>2, Climb
    <3>2. QED
      BY <3>1 DEF T
<1>8. h[N] = f[1..N]
  BY <1>1
<1>9. QED
  <2> HIDE DEF h
  <2>1. QED
    BY <1>4, <1>5, <1>6, <1>7, <1>8

\* The socket is gone, and nothing is held.
Cut(s) == [s EXCEPT !.link = "idle", !.stale = s.wire, !.wire = << >>, !.held = << >>]
Gone(r, s) ==
    /\ r \in Sessions
    /\ r.link = "idle" /\ r.held = << >> /\ r.wire = << >> /\ r.stale = s.wire
    /\ r.told = s.told /\ r.dark = s.dark /\ s.lost \subseteq r.lost /\ s.emitted \subseteq r.emitted

LEMMA CutIs ==
    ASSUME NEW s \in Sessions
    PROVE  LET r == Cut(s) IN
           /\ r \in Sessions
           /\ r.link = "idle" /\ r.held = << >> /\ r.wire = << >> /\ r.stale = s.wire
           /\ r.seq = s.seq /\ r.buffer = s.buffer /\ r.gaps = s.gaps
           /\ r.unattributed = s.unattributed /\ r.lost = s.lost
           /\ r.emitted = s.emitted /\ r.told = s.told /\ r.dark = s.dark
<1>1. s.wire \in Seq(OnWire) /\ << >> \in Seq(OnWire) /\ << >> \in Seq(Runs)
  BY SessionIs
<1> DEFINE w == s.wire
           r == Cut(s)
<1>2. r = [s EXCEPT !.link = "idle", !.stale = w, !.wire = << >>, !.held = << >>]
  BY DEF Cut
<1>3. w \in Seq(OnWire)
  BY <1>1
<1> HIDE DEF r, w
<1>4. /\ r \in Sessions /\ r.stale = w
      /\ r.link = "idle" /\ r.held = << >> /\ r.wire = << >>
      /\ r.seq = s.seq /\ r.buffer = s.buffer /\ r.gaps = s.gaps
      /\ r.unattributed = s.unattributed /\ r.lost = s.lost
      /\ r.emitted = s.emitted /\ r.told = s.told /\ r.dark = s.dark
  BY <1>1, <1>2, <1>3 DEF Sessions
<1>5. QED
  BY <1>4 DEF r, w

LEMMA CutSound ==
    ASSUME NEW s, NEW h, NEW Q, Sound(s, h, Q) PROVE Sound(Cut(s), h, Q)
<1>1. s \in Sessions
  BY DEF Sound
<1> DEFINE r == Cut(s)
<1>2. r \in Sessions /\ Alike(r, s) /\ LitHolds(r) /\ r.wire = << >> /\ r.stale = s.wire
  BY <1>1, CutIs DEF Alike, LitHolds
<1> HIDE DEF r
<1>3. FramesOf(r, h) \subseteq FramesOf(s, h)
  BY <1>2 DEF FramesOf
<1>4. Seen(r, h) \subseteq Seen(s, h)
  BY <1>3, FewerFrames
<1>5. QED
  BY <1>2, <1>4, SoundAlike DEF r

LEMMA KilledIs == ASSUME NEW s PROVE Killed(s) = Releases(Cut(s), s.held)
BY DEF Killed, Cut, Releases

LEMMA KilledSound ==
    ASSUME NEW s, NEW h, NEW Q, Sound(s, h, Q)
    PROVE  Sound(Killed(s), h, Q) /\ Gone(Killed(s), s)
<1> DEFINE b == Cut(s)
<1>1. s \in Sessions /\ s.held \in Seq(Runs)
  BY SessionIs DEF Sound
<1>2. b \in Sessions /\ Sound(b, h, Q) /\ Gone(b, s) /\ Keeps(b, b)
  BY <1>1, CutIs, CutSound DEF Gone, Keeps
<1>3. Killed(s) = Releases(b, s.held)
  BY KilledIs
<1> HIDE DEF b
<1>4. b \in Darks(h, Q, b)
  BY <1>2 DEF Darks
<1>5. PICK f : /\ f[0] = b /\ \A n \in 0..Len(s.held) : f[n] \in Darks(h, Q, b)
               /\ \A n \in 0..(Len(s.held) - 1) : f[n + 1] = EmittedDark(f[n], s.held[n + 1])
               /\ Releases(b, s.held) = f[Len(s.held)]
  BY <1>1, <1>4, ReleasesRun
<1>6. Len(s.held) \in 0..Len(s.held)
  BY <1>1
<1>7. Killed(s) \in Darks(h, Q, b)
  BY <1>3, <1>5, <1>6
<1>8. Gone(Killed(s), s)
  BY <1>2, <1>7 DEF Darks, Keeps, Gone
<1>9. QED
  BY <1>7, <1>8 DEF Darks

\* With a debugger attached, what is buffered is with the hub or on its way.
WireOf(s) == {s.wire[i] : i \in DOMAIN s.wire}
Full(s, h) == s.link = "attached" => \A i \in DOMAIN s.buffer : EventFrame(s.buffer[i]) \in h \cup WireOf(s)

LEMMA SendsWire == ASSUME NEW s \in Sessions, NEW e, NEW r, Sends(r, s, e) PROVE WireOf(r) = WireOf(s) \cup {EventFrame(e)}
<1>1. s.wire \in Seq(OnWire) /\ r.wire = Append(s.wire, EventFrame(e))
  BY SessionIs DEF Sends
<1> DEFINE w == s.wire
           f == EventFrame(e)
<1>2. WireOf(r) = {Append(w, f)[i] : i \in DOMAIN Append(w, f)} /\ WireOf(s) = {w[i] : i \in DOMAIN w}
  BY <1>1 DEF WireOf
<1>3. w \in Seq(OnWire)
  BY <1>1
<1> HIDE DEF w, f
<1>4. \A i \in 1..Len(w) : Append(w, f)[i] = w[i]
  BY <1>3
<1>5. DOMAIN w = 1..Len(w) /\ DOMAIN Append(w, f) = 1..(Len(w) + 1) /\ Len(w) \in Nat
  BY <1>3
<1>6. Append(w, f)[Len(w) + 1] = f
  BY <1>3
<1>7. WireOf(s) \subseteq WireOf(r) /\ f \in WireOf(r)
  <2>1. Len(w) + 1 \in DOMAIN Append(w, f) /\ \A i \in DOMAIN w : i \in DOMAIN Append(w, f)
    BY <1>5
  <2>2. QED
    BY <1>2, <1>4, <1>5, <1>6, <2>1
<1>8. WireOf(r) \subseteq WireOf(s) \cup {f}
  <2>1. ASSUME NEW i \in DOMAIN Append(w, f) PROVE Append(w, f)[i] = f \/ (i \in DOMAIN w /\ Append(w, f)[i] = w[i])
    <3>1. i \in 1..Len(w) \/ i = Len(w) + 1
      BY <1>5
    <3>2. CASE i \in 1..Len(w)
      BY <1>4, <1>5, <3>2
    <3>3. CASE i = Len(w) + 1
      BY <1>6, <3>3
    <3>4. QED
      BY <3>1, <3>2, <3>3
  <2>2. QED
    BY <1>2, <2>1
<1>9. QED
  BY <1>7, <1>8 DEF f

\* An item of the buffer is kept back by no one and not lost.
LEMMA BufferedSeq ==
    ASSUME NEW s, NEW h, NEW Q, Sound(s, h, Q), NEW n \in SeqsOf(s.buffer)
    PROVE  n \in Nat /\ n < s.seq /\ n \notin Given(s.lost) /\ n \notin Q
<1>1. s.seq \in Nat
  BY SessionIs DEF Sound
<1>2. Apart(s.buffer, Given(s.lost), Seen(s, h), s.seq, Q)
  BY DEF Sound
<1>3. n \in 0..(s.seq - 1) /\ n \notin Given(s.lost) /\ n \notin Q
  BY <1>2 DEF Apart
<1>4. QED
  BY <1>1, <1>3

LEMMA DeliveredSound ==
    ASSUME NEW s, NEW h, NEW Q, Sound(s, h, Q), Full(s, h), NEW e \in Events, e.seq \in Q, NEW dies \in BOOLEAN
    PROVE  Sound(Delivered(s, e, dies), h, Q \ {e.seq}) /\ Full(Delivered(s, e, dies), h)
<1> DEFINE f == Framed(s, e)
           p == Pushed(f, e)
           d == Delivered(s, e, dies)
<1>1. d = IF s.link # "attached" THEN Shelved(s, e)
          ELSE IF Fits(e) THEN IF dies THEN Killed(p) ELSE Sent(p, e)
          ELSE IF dies THEN RecordEviction(Killed(f), e) ELSE Sent(f, e)
  BY DEF Delivered
<1>2. s \in Sessions
  BY DEF Sound
<1>3. /\ f \in Sessions /\ Sound(f, h, Q)
      /\ f.link = s.link /\ f.seq = s.seq /\ f.buffer = s.buffer /\ f.wire = s.wire /\ f.lost = s.lost
      /\ Key(e) \in f.emitted
  BY <1>2, FramedIs, FramedSound
<1> HIDE DEF f
<1>4. Fits(e) => Sound(p, h, Q \ {e.seq}) /\ Pushes(p, f, e) /\ p \in Sessions
  <2>1. SUFFICES ASSUME Fits(e) PROVE Sound(p, h, Q \ {e.seq}) /\ Pushes(p, f, e) /\ p \in Sessions
    OBVIOUS
  <2>2. Sound(p, h, Q \ {e.seq}) /\ Pushes(p, f, e)
    BY <1>3, <2>1, PushedSound
  <2>3. QED
    BY <2>2 DEF Pushes
<1> HIDE DEF p, d
<1>5. CASE s.link # "attached"
  <2>1. d = Shelved(s, e)
    BY <1>1, <1>5
  <2>2. Sound(d, h, Q \ {e.seq}) /\ Keeps(d, s)
    BY <2>1, ShelvedSound
  <2>3. QED
    BY <1>5, <2>2 DEF d, Keeps, Full
<1>6. CASE s.link = "attached" /\ Fits(e) /\ dies
  <2>1. d = Killed(p)
    BY <1>1, <1>6
  <2>2. Sound(d, h, Q \ {e.seq}) /\ Gone(d, p)
    BY <1>4, <1>6, <2>1, KilledSound
  <2>3. QED
    BY <2>2 DEF d, Gone, Full
<1>7. CASE s.link = "attached" /\ Fits(e) /\ ~dies
  <2>1. d = Sent(p, e)
    BY <1>1, <1>7
  <2>2. e.seq \in SeqsOf(p.buffer)
    BY <1>4, <1>7 DEF Pushes, SeqsOf
  <2>3. Sound(d, h, Q \ {e.seq})
    <3>1. e.seq < p.seq /\ e.seq \notin Given(p.lost) /\ e.seq \notin Q \ {e.seq}
      <4> DEFINE R == Q \ {e.seq}
      <4> HIDE DEF R
      <4>1. Sound(p, h, R)
        BY <1>4, <1>7 DEF R
      <4>2. e.seq < p.seq /\ e.seq \notin Given(p.lost)
        BY <2>2, <4>1, BufferedSeq
      <4>3. QED
        BY <4>2
    <3>2. p.link = "attached"
      BY <1>3, <1>4, <1>7 DEF Pushes
    <3>3. QED
      BY <1>4, <1>7, <2>1, <3>1, <3>2, SentSound
  <2>4. Sends(d, p, e) /\ WireOf(d) = WireOf(p) \cup {EventFrame(e)}
    BY <1>4, <1>7, <2>1, SentIs, SendsWire
  <2>5. ASSUME NEW i \in DOMAIN d.buffer PROVE EventFrame(d.buffer[i]) \in h \cup WireOf(d)
    <3>1. i \in DOMAIN p.buffer
      <4>1. d.buffer \in Seq(Events) /\ p.buffer \in Seq(Events) /\ Len(d.buffer) = Len(p.buffer)
        BY <1>4, <1>7, <2>4, SessionIs DEF Sends
      <4>2. QED
        BY <4>1
    <3>2. EventFrame(d.buffer[i]) = EventFrame(p.buffer[i])
      BY <2>4, <3>1 DEF Sends, EventFrame
    <3>3. CASE p.buffer[i] = e
      BY <2>4, <3>2, <3>3
    <3>4. CASE p.buffer[i] # e
      <4>1. PICK j \in DOMAIN s.buffer : p.buffer[i] = s.buffer[j]
        BY <1>3, <1>4, <1>7, <3>1, <3>4 DEF Pushes
      <4>2. EventFrame(s.buffer[j]) \in h \cup WireOf(s)
        BY <1>7 DEF Full
      <4>3. WireOf(p) = WireOf(s)
        BY <1>3, <1>4, <1>7 DEF WireOf, Pushes
      <4>4. QED
        BY <2>4, <3>2, <4>1, <4>2, <4>3
    <3>5. QED
      BY <3>3, <3>4
  <2>6. QED
    BY <2>3, <2>5 DEF d, Full
<1>8. CASE s.link = "attached" /\ ~Fits(e) /\ dies
  <2>1. d = RecordEviction(Killed(f), e)
    BY <1>1, <1>8
  <2>2. Sound(Killed(f), h, Q) /\ Gone(Killed(f), f)
    BY <1>3, KilledSound
  <2>3. Killed(f) \in Sessions /\ Killed(f).link = "idle" /\ Key(e) \in Killed(f).emitted
    BY <1>3, <2>2 DEF Gone
  <2>4. Sound(d, h, Q \ {e.seq})
    BY <2>1, <2>2, <2>3, EvictionSound
  <2>5. Losses(d, Killed(f))
    BY <2>1, <2>3, EvictionLosses
  <2>6. QED
    BY <2>3, <2>4, <2>5 DEF d, Losses, Full
<1>9. CASE s.link = "attached" /\ ~Fits(e) /\ ~dies
  <2>1. d = Sent(f, e)
    BY <1>1, <1>9
  <2>2. Sound(f, h, Q \ {e.seq}) /\ e.seq < f.seq /\ e.seq \notin Given(f.lost) /\ e.seq \notin Q \ {e.seq}
    <3>1. Apart(f.buffer, Given(f.lost), Seen(f, h), f.seq, Q) /\ f.seq \in Nat
      BY <1>3, SessionIs DEF Sound
    <3>2. e.seq \in 0..(f.seq - 1) /\ e.seq \notin Given(f.lost)
      BY <3>1 DEF Apart
    <3>3. Sound(f, h, Q \ {e.seq})
      BY <1>3, FewerKept
    <3>4. QED
      BY <3>1, <3>2, <3>3
  <2>3. Sound(d, h, Q \ {e.seq})
    BY <1>3, <1>9, <2>1, <2>2, SentSound
  <2>4. Sends(d, f, e) /\ WireOf(d) = WireOf(f) \cup {EventFrame(e)} /\ WireOf(f) = WireOf(s)
    BY <1>3, <2>1, SentIs, SendsWire DEF WireOf
  <2>5. ASSUME NEW i \in DOMAIN d.buffer PROVE EventFrame(d.buffer[i]) \in h \cup WireOf(d)
    <3>1. i \in DOMAIN s.buffer
      <4>1. d.buffer \in Seq(Events) /\ f.buffer \in Seq(Events) /\ Len(d.buffer) = Len(f.buffer)
        BY <1>3, <2>4, SessionIs DEF Sends
      <4>2. QED
        BY <1>3, <4>1
    <3>2. EventFrame(d.buffer[i]) = EventFrame(s.buffer[i])
      BY <1>3, <2>4, <3>1 DEF Sends, EventFrame
    <3>3. EventFrame(s.buffer[i]) \in h \cup WireOf(s)
      BY <1>9, <3>1 DEF Full
    <3>4. QED
      BY <2>4, <3>2, <3>3
  <2>6. QED
    BY <2>3, <2>5 DEF d, Full
<1>10. QED
  BY <1>5, <1>6, <1>7, <1>8, <1>9

LEMMA TakenFull == ASSUME NEW s \in Sessions, NEW h, Full(s, h) PROVE Full(Taken(s), h)
BY TakenIs DEF Full, Takes, WireOf

LEMMA EmittedSound ==
    ASSUME NEW s, NEW h, NEW Q, Sound(s, h, Q), Full(s, h),
           NEW run \in Runs, NEW size \in Sizes \cup {Small}, NEW dies \in BOOLEAN
    PROVE  Sound(Emitted(s, run, size, dies), h, Q) /\ Full(Emitted(s, run, size, dies), h)
<1> DEFINE e == Item(run, s.seq, size)
           t == Taken(s)
<1>1. s \in Sessions
  BY DEF Sound
<1>2. Sound(t, h, Q \cup {s.seq}) /\ s.seq \notin Q /\ s.seq \in Nat /\ Full(t, h)
  BY <1>1, TakenSound, TakenFull
<1>3. e \in Events /\ e.seq = s.seq
  BY <1>2, ItemIs
<1>4. Emitted(s, run, size, dies) = Delivered(t, e, dies)
  BY DEF Emitted
<1> HIDE DEF e, t
<1>5. Sound(Delivered(t, e, dies), h, (Q \cup {s.seq}) \ {e.seq}) /\ Full(Delivered(t, e, dies), h)
  BY <1>2, <1>3, DeliveredSound
<1>6. (Q \cup {s.seq}) \ {e.seq} = Q
  BY <1>2, <1>3
<1>7. QED
  BY <1>4, <1>5, <1>6

-----------------------------------------------------------------------------
(* The flush of the gap markers.                                           *)

\* With nothing held, the death of the socket emits nothing.
LEMMA NoReleases == ASSUME NEW b PROVE Releases(b, << >>) = b
<1> DEFINE Is(f) == f = [t \in SUBSET (DOMAIN << >>) |->
                           IF t = {} THEN b ELSE EmittedDark(f[t \ {Max(t)}], << >>[Max(t)])]
           f == CHOOSE f : Is(f)
           g == [t \in SUBSET (DOMAIN << >>) |-> b]
<1>1. \A t \in SUBSET (DOMAIN << >>) : t = {}
  OBVIOUS
<1>2. Is(g)
  BY <1>1
<1>3. \E x : Is(x)
  BY <1>2
<1>4. Is(f)
  <2> HIDE DEF Is
  <2>1. QED
    BY <1>3
<1>5. Releases(b, << >>) = f[DOMAIN << >>]
  BY DEF Releases, FoldLeft, MapThenFoldSet
<1> HIDE DEF f
<1>6. QED
  BY <1>1, <1>4, <1>5

LEMMA KilledQuiet == ASSUME NEW s \in Sessions, s.held = << >> PROVE Killed(s) = Cut(s)
<1>1. Killed(s) = Releases(Cut(s), << >>)
  BY KilledIs
<1>2. \A b : Releases(b, << >>) = b
  BY NoReleases
<1>3. QED
  BY <1>1, <1>2

\* A marker takes a seq and the count of its record.
Marker(g, seq) == [kind |-> "gap", run |-> g.run, seq |-> seq]
Marks(r, s, g) ==
    /\ r \in Sessions
    /\ r.link = s.link /\ r.buffer = s.buffer /\ r.gaps = s.gaps
    /\ r.unattributed = s.unattributed /\ r.lost = s.lost /\ r.held = s.held
    /\ r.stale = s.stale /\ r.emitted = s.emitted /\ r.dark = s.dark
    /\ r.seq = s.seq + 1 /\ r.told = s.told + g.count /\ r.wire = Append(s.wire, Marker(g, s.seq))

LEMMA MarkerIs == ASSUME NEW s \in Sessions, NEW g \in Records PROVE Marks(MarkerSent(s, g), s, g)
<1> DEFINE n == s.told + g.count
           w == Append(s.wire, Marker(g, s.seq))
           t == Taken(s)
           r == MarkerSent(s, g)
<1>1. Takes(t, s) /\ s.told \in Nat /\ s.wire \in Seq(OnWire) /\ s.seq \in Nat
  BY TakenIs, SessionIs
<1>2. n \in Nat /\ w \in Seq(OnWire)
  <2>1. Marker(g, s.seq) \in OnWire /\ g.count \in Nat
    BY <1>1 DEF Marker, OnWire, Records
  <2>2. QED
    BY <1>1, <2>1
<1>3. r = [t EXCEPT !.told = n, !.wire = w]
  BY <1>1 DEF MarkerSent, Marker, Takes
<1> HIDE DEF t, n, w, r
<1>4. t \in Sessions
  BY <1>1 DEF Takes
<1>5. /\ r \in Sessions
      /\ r.link = t.link /\ r.buffer = t.buffer /\ r.gaps = t.gaps
      /\ r.unattributed = t.unattributed /\ r.lost = t.lost /\ r.held = t.held
      /\ r.stale = t.stale /\ r.emitted = t.emitted /\ r.dark = t.dark
      /\ r.seq = t.seq /\ r.told = n /\ r.wire = w
  BY <1>2, <1>3, <1>4 DEF Sessions
<1>6. Marks(r, s, g)
  BY <1>1, <1>5 DEF Marks, Takes, n, w
<1>7. QED
  BY <1>6 DEF r

\* The sessions that markers make of z.
Apartness(s, u, Q) == Apart(s.buffer, Given(s.lost), Seen(s, u), s.seq, Q)
Marked(u, Q, z) ==
    {s \in Sessions :
        /\ s.link = z.link /\ s.buffer = z.buffer /\ s.gaps = z.gaps
        /\ s.unattributed = z.unattributed /\ s.lost = z.lost /\ s.held = z.held
        /\ s.stale = z.stale /\ s.emitted = z.emitted /\ s.dark = z.dark
        /\ Apartness(s, u, Q)}
Markers(s, gs) == FoldLeft(MarkerSent, s, gs)

LEMMA MarkedTyped ==
    ASSUME NEW u, NEW Q, NEW z, NEW s \in Marked(u, Q, z), NEW g \in Records
    PROVE  MarkerSent(s, g) \in Marked(u, Q, z)
<1> DEFINE r == MarkerSent(s, g)
<1>1. s \in Sessions /\ s.seq \in Nat /\ s.wire \in Seq(OnWire) /\ Apartness(s, u, Q)
  BY SessionIs DEF Marked
<1>2. Marks(r, s, g)
  BY <1>1, MarkerIs
<1> HIDE DEF r
<1>3. Seen(r, u) \subseteq Seen(s, u)
  <2>1. {r.wire[i] : i \in DOMAIN r.wire} \subseteq {s.wire[i] : i \in DOMAIN s.wire} \cup {Marker(g, s.seq)}
    <3>1. r.wire = Append(s.wire, Marker(g, s.seq))
      BY <1>2 DEF Marks
    <3>2. QED
      BY <1>1, <3>1
  <2>2. FramesOf(r, u) \subseteq FramesOf(s, u) \cup {Marker(g, s.seq)}
    BY <1>2, <2>1 DEF FramesOf, Marks
  <2>3. Marker(g, s.seq).kind # "event"
    BY DEF Marker
  <2>4. QED
    BY <2>2, <2>3 DEF Seen
<1>4. 0..(s.seq - 1) \subseteq 0..((s.seq + 1) - 1)
  BY <1>1
<1>5. Apartness(r, u, Q)
  BY <1>1, <1>2, <1>3, <1>4 DEF Apartness, Apart, Marks
<1>6. r \in Marked(u, Q, z)
  BY <1>2, <1>5 DEF Marked, Marks
<1>7. QED
  BY <1>6 DEF r

LEMMA MarkersRun ==
    ASSUME NEW u, NEW Q, NEW z, NEW b \in Marked(u, Q, z), NEW es \in Seq(Records)
    PROVE  \E h : /\ h[0] = b /\ \A n \in 0..Len(es) : h[n] \in Marked(u, Q, z)
                  /\ \A n \in 0..(Len(es) - 1) : h[n + 1] = MarkerSent(h[n], es[n + 1])
                  /\ Markers(b, es) = h[Len(es)]
<1> DEFINE N == Len(es)
           Is(f) == f = [t \in SUBSET (DOMAIN es) |->
                           IF t = {} THEN b ELSE MarkerSent(f[t \ {Max(t)}], es[Max(t)])]
           f == CHOOSE f : Is(f)
           h == [n \in 0..N |-> f[1..n]]
<1>1. N \in Nat /\ DOMAIN es = 1..N /\ es \in [1..N -> Records]
  OBVIOUS
<1>2. \E g : Is(g)
  <2> DEFINE G == [p \in Marked(u, Q, z) \X Records |-> MarkerSent(p[1], p[2])]
  <2>1. G \in [Marked(u, Q, z) \X Records -> Marked(u, Q, z)] /\ \A x \in Marked(u, Q, z), e \in Records : G[<<x, e>>] = MarkerSent(x, e)
    BY MarkedTyped
  <2> HIDE DEF G, N
  <2>2. PICK g : IsFold(g, Marked(u, Q, z), G, b, N, es)
    BY <1>1, <2>1, FoldExists
  <2>3. ASSUME NEW t \in SUBSET (1..N), t # {}
        PROVE  G[<<g[t \ {Max(t)}], es[Max(t)]>>] = MarkerSent(g[t \ {Max(t)}], es[Max(t)])
    <3>1. Max(t) \in 1..N
      BY <1>1, <2>3, MaxOfPrefix
    <3>2. g[t \ {Max(t)}] \in Marked(u, Q, z) /\ es[Max(t)] \in Records
      BY <1>1, <2>2, <3>1 DEF IsFold
    <3>3. QED
      BY <2>1, <3>2
  <2>4. Is(g)
    BY <1>1, <2>2, <2>3 DEF IsFold
  <2>5. QED
    BY <2>4
<1>3. Is(f)
  <2> HIDE DEF Is
  <2>1. QED
    BY <1>2
<1>4. Markers(b, es) = f[1..N]
  BY <1>1 DEF FoldLeft, MapThenFoldSet, Markers
<1> HIDE DEF f
<1>5. h[0] = b
  BY <1>1, <1>3
<1>6. ASSUME NEW n \in 0..(N - 1) PROVE h[n + 1] = MarkerSent(h[n], es[n + 1])
  <2> HIDE DEF N, h
  <2>1. /\ n \in 0..N /\ n + 1 \in 0..N /\ 1..(n + 1) \in SUBSET (1..N) /\ 1..(n + 1) # {}
        /\ Max(1..(n + 1)) = n + 1 /\ (1..(n + 1)) \ {n + 1} = 1..n
    BY <1>1, PrefixStep
  <2>2. f[1..(n + 1)] = MarkerSent(f[(1..(n + 1)) \ {Max(1..(n + 1))}], es[Max(1..(n + 1))])
    BY <1>1, <1>3, <2>1
  <2>3. QED
    BY <2>1, <2>2 DEF h
<1>7. \A n \in 0..N : h[n] \in Marked(u, Q, z)
  <2> DEFINE T == {n \in 0..N : h[n] \in Marked(u, Q, z)}
  <2> HIDE DEF h
  <2>1. 0 \in T
    BY <1>1, <1>5
  <2>2. ASSUME NEW n \in 0..(N - 1), n \in T PROVE n + 1 \in T
    <3>1. n + 1 \in 0..N /\ es[n + 1] \in Records /\ h[n] \in Marked(u, Q, z)
      BY <1>1, <2>2
    <3>2. h[n + 1] \in Marked(u, Q, z)
      BY <1>6, <3>1, MarkedTyped
    <3>3. QED
      BY <3>1, <3>2
  <2>3. QED
    <3> HIDE DEF T
    <3>1. \A n \in 0..N : n \in T
      BY <1>1, <2>1, <2>2, Climb
    <3>2. QED
      BY <3>1 DEF T
<1>8. h[N] = f[1..N]
  BY <1>1
<1>9. QED
  <2> HIDE DEF h
  <2>1. QED
    BY <1>4, <1>5, <1>6, <1>7, <1>8

\* Markers count what their records did.
LEMMA MarkersTold ==
    ASSUME NEW u, NEW Q, NEW z \in Sessions, Apartness(z, u, Q), NEW gs \in Seq(Records)
    PROVE  Markers(z, gs) \in Marked(u, Q, z) /\ Markers(z, gs).told = z.told + Pending(gs)
<1>1. z \in Marked(u, Q, z)
  BY DEF Marked
<1>2. PICK h : /\ h[0] = z /\ \A n \in 0..Len(gs) : h[n] \in Marked(u, Q, z)
               /\ \A n \in 0..(Len(gs) - 1) : h[n + 1] = MarkerSent(h[n], gs[n + 1])
               /\ Markers(z, gs) = h[Len(gs)]
  BY <1>1, MarkersRun
<1>3. PICK k : IsSum(k, gs)
  BY SumIs
<1> DEFINE T == {n \in 0..Len(gs) : h[n].told = z.told + k[n]}
<1>4. Len(gs) \in Nat /\ z.told \in Nat
  BY SessionIs
<1>5. 0 \in T
  BY <1>2, <1>3, <1>4 DEF IsSum
<1>6. ASSUME NEW n \in 0..(Len(gs) - 1), n \in T PROVE n + 1 \in T
  <2>1. n \in 0..Len(gs) /\ n + 1 \in 0..Len(gs) /\ n + 1 \in 1..Len(gs) /\ gs[n + 1] \in Records
    BY <1>4
  <2>2. h[n] \in Sessions /\ h[n + 1] = MarkerSent(h[n], gs[n + 1])
    BY <1>2, <2>1 DEF Marked
  <2>3. h[n + 1].told = h[n].told + gs[n + 1].count
    BY <2>1, <2>2, MarkerIs DEF Marks
  <2>4. k[n + 1] = k[n] + gs[n + 1].count /\ k[n] \in Nat /\ gs[n + 1].count \in Nat
    BY <1>3, <2>1 DEF IsSum, Records
  <2>5. QED
    BY <1>4, <1>6, <2>1, <2>3, <2>4
<1>7. Len(gs) \in T
  <2> HIDE DEF T
  <2>1. \A n \in 0..Len(gs) : n \in T
    BY <1>4, <1>5, <1>6, Climb
  <2>2. QED
    BY <1>4, <2>1
<1>8. Len(gs) \in 0..Len(gs)
  BY <1>4
<1>9. QED
  BY <1>2, <1>3, <1>7, <1>8 DEF IsSum

-----------------------------------------------------------------------------
(* The records that go back on the pile.                                   *)

TrueRecords(lost) == {g \in Records : GapTrue(g, lost)}
TruePiles(lost) == {gs \in Seq(Records) : GapsTrue(gs, lost)}
Puts(gaps, gs) == FoldLeft(PutGap, gaps, gs)

LEMMA PutTyped ==
    ASSUME NEW lost, NEW gs \in TruePiles(lost), NEW g \in TrueRecords(lost)
    PROVE  PutGap(gs, g) \in TruePiles(lost)
<1> DEFINE r == PutGap(gs, g)
<1>1. gs \in Seq(Records) /\ GapsTrue(gs, lost) /\ g \in Records /\ GapTrue(g, lost)
      /\ DOMAIN gs = 1..Len(gs) /\ Len(gs) \in Nat
  BY DEF TruePiles, TrueRecords
<1>2. CASE GapOf(gs, g.run) = {}
  <2>1. r = Append(gs, g)
    BY <1>2 DEF PutGap
  <2> HIDE DEF r
  <2>2. r \in Seq(Records) /\ DOMAIN r = 1..(Len(gs) + 1) /\ r[Len(gs) + 1] = g
        /\ \A i \in 1..Len(gs) : r[i] = gs[i]
    BY <1>1, <2>1
  <2>3. \A i \in 1..Len(gs) : gs[i].run # g.run
    BY <1>1, <1>2 DEF GapOf
  <2>4. ASSUME NEW i \in DOMAIN r PROVE GapTrue(r[i], lost)
    <3>1. CASE i \in 1..Len(gs)
      BY <1>1, <2>2, <3>1 DEF GapsTrue
    <3>2. CASE i = Len(gs) + 1
      BY <1>1, <2>2, <3>2
    <3>3. QED
      BY <1>1, <2>2, <3>1, <3>2
  <2>5. ASSUME NEW i \in DOMAIN r, NEW j \in DOMAIN r, r[i].run = r[j].run PROVE i = j
    <3>1. CASE i \in 1..Len(gs) /\ j \in 1..Len(gs)
      BY <1>1, <2>2, <2>5, <3>1 DEF GapsTrue
    <3>2. CASE i = Len(gs) + 1 /\ j \in 1..Len(gs)
      BY <2>2, <2>3, <2>5, <3>2
    <3>3. CASE i \in 1..Len(gs) /\ j = Len(gs) + 1
      BY <2>2, <2>3, <2>5, <3>3
    <3>4. QED
      BY <1>1, <2>2, <3>1, <3>2, <3>3
  <2>6. GapsTrue(r, lost)
    BY <2>4, <2>5 DEF GapsTrue
  <2>7. QED
    BY <2>2, <2>6 DEF TruePiles, r
<1>3. CASE GapOf(gs, g.run) # {}
  <2>1. r = [i \in DOMAIN gs |-> IF gs[i].run = g.run THEN g ELSE gs[i]]
    BY <1>3 DEF PutGap
  <2> HIDE DEF r
  <2>2. DOMAIN r = DOMAIN gs /\ \A i \in DOMAIN gs : r[i].run = gs[i].run /\ (r[i] = g \/ r[i] = gs[i])
    BY <2>1
  <2>3. r \in [1..Len(gs) -> Records]
    <3>1. \A i \in DOMAIN gs : gs[i] \in Records
      BY <1>1
    <3>2. QED
      BY <1>1, <2>1, <3>1
  <2>4. r \in Seq(Records)
    BY <1>1, <2>3
  <2>5. GapsTrue(r, lost)
    BY <1>1, <2>2 DEF GapsTrue
  <2>6. QED
    BY <2>4, <2>5 DEF TruePiles, r
<1>4. QED
  BY <1>2, <1>3

LEMMA PutsRun ==
    ASSUME NEW lost, NEW b \in TruePiles(lost), NEW es \in Seq(TrueRecords(lost))
    PROVE  \E h : /\ h[0] = b /\ \A n \in 0..Len(es) : h[n] \in TruePiles(lost)
                  /\ \A n \in 0..(Len(es) - 1) : h[n + 1] = PutGap(h[n], es[n + 1])
                  /\ Puts(b, es) = h[Len(es)]
<1> DEFINE N == Len(es)
           Is(f) == f = [t \in SUBSET (DOMAIN es) |->
                           IF t = {} THEN b ELSE PutGap(f[t \ {Max(t)}], es[Max(t)])]
           f == CHOOSE f : Is(f)
           h == [n \in 0..N |-> f[1..n]]
<1>1. N \in Nat /\ DOMAIN es = 1..N /\ es \in [1..N -> TrueRecords(lost)]
  OBVIOUS
<1>2. \E g : Is(g)
  <2> DEFINE G == [p \in TruePiles(lost) \X TrueRecords(lost) |-> PutGap(p[1], p[2])]
  <2>1. G \in [TruePiles(lost) \X TrueRecords(lost) -> TruePiles(lost)] /\ \A x \in TruePiles(lost), e \in TrueRecords(lost) : G[<<x, e>>] = PutGap(x, e)
    BY PutTyped
  <2> HIDE DEF G, N
  <2>2. PICK g : IsFold(g, TruePiles(lost), G, b, N, es)
    BY <1>1, <2>1, FoldExists
  <2>3. ASSUME NEW t \in SUBSET (1..N), t # {}
        PROVE  G[<<g[t \ {Max(t)}], es[Max(t)]>>] = PutGap(g[t \ {Max(t)}], es[Max(t)])
    <3>1. Max(t) \in 1..N
      BY <1>1, <2>3, MaxOfPrefix
    <3>2. g[t \ {Max(t)}] \in TruePiles(lost) /\ es[Max(t)] \in TrueRecords(lost)
      BY <1>1, <2>2, <3>1 DEF IsFold
    <3>3. QED
      BY <2>1, <3>2
  <2>4. Is(g)
    BY <1>1, <2>2, <2>3 DEF IsFold
  <2>5. QED
    BY <2>4
<1>3. Is(f)
  <2> HIDE DEF Is
  <2>1. QED
    BY <1>2
<1>4. Puts(b, es) = f[1..N]
  BY <1>1 DEF FoldLeft, MapThenFoldSet, Puts
<1> HIDE DEF f
<1>5. h[0] = b
  BY <1>1, <1>3
<1>6. ASSUME NEW n \in 0..(N - 1) PROVE h[n + 1] = PutGap(h[n], es[n + 1])
  <2> HIDE DEF N, h
  <2>1. /\ n \in 0..N /\ n + 1 \in 0..N /\ 1..(n + 1) \in SUBSET (1..N) /\ 1..(n + 1) # {}
        /\ Max(1..(n + 1)) = n + 1 /\ (1..(n + 1)) \ {n + 1} = 1..n
    BY <1>1, PrefixStep
  <2>2. f[1..(n + 1)] = PutGap(f[(1..(n + 1)) \ {Max(1..(n + 1))}], es[Max(1..(n + 1))])
    BY <1>1, <1>3, <2>1
  <2>3. QED
    BY <2>1, <2>2 DEF h
<1>7. \A n \in 0..N : h[n] \in TruePiles(lost)
  <2> DEFINE T == {n \in 0..N : h[n] \in TruePiles(lost)}
  <2> HIDE DEF h
  <2>1. 0 \in T
    BY <1>1, <1>5
  <2>2. ASSUME NEW n \in 0..(N - 1), n \in T PROVE n + 1 \in T
    <3>1. n + 1 \in 0..N /\ es[n + 1] \in TrueRecords(lost) /\ h[n] \in TruePiles(lost)
      BY <1>1, <2>2
    <3>2. h[n + 1] \in TruePiles(lost)
      BY <1>6, <3>1, PutTyped
    <3>3. QED
      BY <3>1, <3>2
  <2>3. QED
    <3> HIDE DEF T
    <3>1. \A n \in 0..N : n \in T
      BY <1>1, <2>1, <2>2, Climb
    <3>2. QED
      BY <3>1 DEF T
<1>8. h[N] = f[1..N]
  BY <1>1
<1>9. QED
  <2> HIDE DEF h
  <2>1. QED
    BY <1>4, <1>5, <1>6, <1>7, <1>8

LEMMA PutsTrue ==
    ASSUME NEW lost, NEW gs \in TruePiles(lost), NEW es \in Seq(TrueRecords(lost))
    PROVE  Puts(gs, es) \in TruePiles(lost)
<1>1. PICK h : /\ h[0] = gs /\ \A n \in 0..Len(es) : h[n] \in TruePiles(lost)
               /\ \A n \in 0..(Len(es) - 1) : h[n + 1] = PutGap(h[n], es[n + 1])
               /\ Puts(gs, es) = h[Len(es)]
  BY PutsRun
<1>2. Len(es) \in 0..Len(es)
  OBVIOUS
<1>3. QED
  BY <1>1, <1>2

\* Records of different runs come back as they were.
LEMMA PutsFresh ==
    ASSUME NEW lost, NEW es \in Seq(TrueRecords(lost)),
           \A i, j \in DOMAIN es : es[i].run = es[j].run => i = j
    PROVE  Puts(<< >>, es) = es
<1> DEFINE none == << >>
<1>1. none \in TruePiles(lost)
  BY DEF TruePiles, GapsTrue
<1>2. none = << >>
  OBVIOUS
<1> HIDE DEF none
<1>3. PICK h : /\ h[0] = none /\ \A n \in 0..Len(es) : h[n] \in TruePiles(lost)
               /\ \A n \in 0..(Len(es) - 1) : h[n + 1] = PutGap(h[n], es[n + 1])
               /\ Puts(none, es) = h[Len(es)]
  BY <1>1, PutsRun
<1> DEFINE T == {n \in 0..Len(es) : h[n] = SubSeq(es, 1, n)}
<1>4. Len(es) \in Nat /\ DOMAIN es = 1..Len(es) /\ SubSeq(es, 1, 0) = << >> /\ SubSeq(es, 1, Len(es)) = es
  OBVIOUS
<1>5. 0 \in T
  <2>1. h[0] = SubSeq(es, 1, 0) /\ 0 \in 0..Len(es)
    BY <1>2, <1>3, <1>4
  <2>2. QED
    BY <2>1
<1>6. ASSUME NEW n \in 0..(Len(es) - 1), n \in T PROVE n + 1 \in T
  <2>1. n \in Nat /\ n + 1 \in 1..Len(es) /\ n + 1 \in 0..Len(es)
    BY <1>4
  <2> DEFINE p == SubSeq(es, 1, n)
  <2>2. p \in Seq(TrueRecords(lost)) /\ Len(p) = n /\ DOMAIN p = 1..n /\ \A i \in 1..n : p[i] = es[i]
    BY <1>4, <2>1
  <2>3. GapOf(p, es[n + 1].run) = {}
    <3>1. \A i \in 1..n : i \in DOMAIN es /\ i # n + 1 /\ n + 1 \in DOMAIN es
      BY <1>4, <2>1
    <3>2. \A i \in 1..n : p[i].run # es[n + 1].run
      BY <2>2, <3>1
    <3>3. QED
      BY <2>2, <3>2 DEF GapOf
  <2>4. h[n + 1] = Append(p, es[n + 1])
    <3>1. h[n + 1] = PutGap(p, es[n + 1])
      BY <1>3, <1>6
    <3>2. QED
      BY <2>3, <3>1 DEF PutGap
  <2>5. Append(p, es[n + 1]) = SubSeq(es, 1, n + 1)
    BY <1>4, <2>1
  <2>6. QED
    BY <2>1, <2>4, <2>5
<1>7. Len(es) \in T
  <2> HIDE DEF T
  <2>1. \A n \in 0..Len(es) : n \in T
    BY <1>4, <1>5, <1>6, Climb
  <2>2. QED
    BY <1>4, <2>1
<1>8. QED
  BY <1>2, <1>3, <1>4, <1>7

LEMMA SumParts ==
    ASSUME NEW gs \in Seq(Records), NEW n \in 0..Len(gs)
    PROVE  Pending(gs) = Pending(SubSeq(gs, 1, n)) + Pending(SubSeq(gs, n + 1, Len(gs)))
<1> DEFINE p == SubSeq(gs, 1, n)
<1>1. p \in Seq(Records) /\ Len(p) = n /\ n \in Nat /\ Len(gs) \in Nat /\ \A i \in 1..n : p[i] = gs[i]
  OBVIOUS
<1> HIDE DEF p
<1>2. PICK h : IsSum(h, gs)
  BY SumIs
<1>3. PICK k : IsSum(k, p)
  BY <1>1, SumIs
<1> DEFINE T == {m \in 0..n : h[m] = k[m]}
<1>4. 0 \in T
  BY <1>1, <1>2, <1>3 DEF IsSum
<1>5. ASSUME NEW m \in 0..(n - 1), m \in T PROVE m + 1 \in T
  <2>1. m \in 0..(Len(gs) - 1) /\ m \in 0..(Len(p) - 1) /\ m + 1 \in 1..n /\ m + 1 \in 0..n
    BY <1>1
  <2>2. h[m + 1] = h[m] + gs[m + 1].count /\ k[m + 1] = k[m] + p[m + 1].count
    BY <1>2, <1>3, <2>1 DEF IsSum
  <2>3. QED
    BY <1>1, <1>5, <2>1, <2>2
<1>6. n \in T
  <2> HIDE DEF T
  <2>1. \A m \in 0..n : m \in T
    BY <1>1, <1>4, <1>5, Climb
  <2>2. QED
    BY <1>1, <2>1
<1>7. h[n] = Pending(p)
  BY <1>1, <1>3, <1>6 DEF IsSum
<1>8. QED
  BY <1>2, <1>7, SumSplit DEF p

\* A session with other gap records.
Regapped(r, s, gs) ==
    /\ r \in Sessions /\ r.gaps = gs
    /\ r.link = s.link /\ r.seq = s.seq /\ r.held = s.held /\ r.wire = s.wire /\ r.buffer = s.buffer
    /\ r.stale = s.stale /\ r.emitted = s.emitted /\ r.told = s.told /\ r.dark = s.dark
    /\ r.lost = s.lost /\ r.unattributed = s.unattributed

LEMMA GapsSet ==
    ASSUME NEW s \in Sessions, NEW gs \in Seq(Records), NEW r, r = [s EXCEPT !.gaps = gs]
    PROVE  Regapped(r, s, gs)
BY DEF Sessions, Regapped

LEMMA RestoredIs ==
    ASSUME NEW s, NEW gaps, NEW k
    PROVE  Restored(s, gaps, k) = [s EXCEPT !.gaps = Puts(s.gaps, SubSeq(gaps, k, Len(gaps)))]
BY DEF Restored, Puts

\* The session whose markers are being sent, and the one whose flush died
\* after n of them.
Flushing(s) == [s EXCEPT !.gaps = << >>]
Dying(s, n) == Restored(Killed(Taken(Markers(Flushing(s), SubSeq(s.gaps, 1, n)))), s.gaps, n + 1)

LEMMA FlushedIs ==
    ASSUME NEW s, NEW n
    PROVE  Flushed(s, n) = IF n >= Len(s.gaps) THEN Markers(Flushing(s), s.gaps) ELSE Dying(s, n)
BY DEF Flushed, Flushing, Dying, Markers

LEMMA FlushingIs ==
    ASSUME NEW s, NEW h, Sound(s, h, {}), NEW gs \in Seq(Records)
    PROVE  LET c == Markers(Flushing(s), gs) IN
           /\ c \in Sessions /\ c.link = s.link /\ c.buffer = s.buffer /\ c.gaps = << >>
           /\ c.unattributed = s.unattributed /\ c.lost = s.lost /\ c.emitted = s.emitted /\ c.held = s.held /\ c.dark = s.dark
           /\ Apartness(c, h, {}) /\ c.told = s.told + Pending(gs)
<1> DEFINE b == Flushing(s)
           c == Markers(b, gs)
<1>1. s \in Sessions /\ Apart(s.buffer, Given(s.lost), Seen(s, h), s.seq, {})
  BY DEF Sound
<1>2. /\ b \in Sessions /\ b.gaps = << >>
      /\ b.link = s.link /\ b.seq = s.seq /\ b.held = s.held /\ b.wire = s.wire /\ b.buffer = s.buffer
      /\ b.stale = s.stale /\ b.emitted = s.emitted /\ b.told = s.told /\ b.dark = s.dark
      /\ b.lost = s.lost /\ b.unattributed = s.unattributed
  <2>1. << >> \in Seq(Records)
    OBVIOUS
  <2>2. b = [s EXCEPT !.gaps = << >>]
    BY DEF Flushing
  <2> HIDE DEF b
  <2>3. Regapped(b, s, << >>)
    BY <1>1, <2>1, <2>2, GapsSet
  <2>4. QED
    BY <2>3 DEF Regapped
<1> HIDE DEF b
<1>3. Apartness(b, h, {})
  <2>1. Seen(b, h) = Seen(s, h)
    BY <1>2 DEF Seen, FramesOf
  <2>2. QED
    BY <1>1, <1>2, <2>1 DEF Apartness
<1>4. c \in Marked(h, {}, b) /\ c.told = s.told + Pending(gs)
  BY <1>2, <1>3, MarkersTold
<1> HIDE DEF c
<1>5. /\ c \in Sessions /\ c.link = s.link /\ c.buffer = s.buffer /\ c.gaps = << >>
      /\ c.unattributed = s.unattributed /\ c.lost = s.lost /\ c.emitted = s.emitted /\ c.held = s.held /\ c.dark = s.dark
      /\ Apartness(c, h, {})
  BY <1>2, <1>4 DEF Marked
<1>6. QED
  BY <1>4, <1>5 DEF c, b

LEMMA FlushCompletes ==
    ASSUME NEW s, NEW h, Sound(s, h, {}), s.link = "attached"
    PROVE  LET c == Markers(Flushing(s), s.gaps) IN Sound(c, h, {}) /\ c.link = "attached"
<1> DEFINE c == Markers(Flushing(s), s.gaps)
<1>1. s \in Sessions /\ IsFiniteSet(s.lost) /\ CountTrue(s) /\ Ledger(s) /\ s.gaps \in Seq(Records)
  BY SessionIs DEF Sound
<1>2. /\ c \in Sessions /\ c.link = s.link /\ c.buffer = s.buffer /\ c.gaps = << >>
      /\ c.unattributed = s.unattributed /\ c.lost = s.lost /\ c.emitted = s.emitted /\ c.held = s.held /\ c.dark = s.dark
      /\ Apartness(c, h, {}) /\ c.told = s.told + Pending(s.gaps)
  BY <1>1, FlushingIs
<1> HIDE DEF c
<1>3. Pending(s.gaps) \in Nat /\ Pending(<< >>) = 0 /\ s.told \in Nat /\ s.unattributed \in Nat
  BY <1>1, SumTyped, SessionIs
<1>4. CountTrue(c)
  <2>1. Pending(c.gaps) = 0 /\ Len(c.gaps) <= MaxTrackedGapRuns
    <3>1. Len(<< >>) = 0 /\ MaxTrackedGapRuns \in Nat
      BY BufferAssumption
    <3>2. QED
      BY <1>2, <1>3, <3>1
  <2>2. QED
    BY <1>1, <1>2, <1>3, <2>1 DEF CountTrue
<1>5. GapsTrue(c.gaps, c.lost)
  BY <1>2 DEF GapsTrue
<1>6. Sound(c, h, {})
  BY <1>1, <1>2, <1>4, <1>5 DEF Sound, Apartness, LitHolds, Ledger
<1>7. QED
  BY <1>2, <1>6 DEF c

LEMMA FlushDies ==
    ASSUME NEW s, NEW h, Sound(s, h, {}), s.link = "attached", ~s.dark => s.held = << >>, NEW n \in Nat, n < Len(s.gaps)
    PROVE  Sound(Dying(s, n), h, {}) /\ Dying(s, n).link = "idle"
<1> DEFINE first == SubSeq(s.gaps, 1, n)
           rest == SubSeq(s.gaps, n + 1, Len(s.gaps))
           c == Markers(Flushing(s), first)
           t == Taken(c)
           d == Killed(t)
           r == Dying(s, n)
<1>1. s \in Sessions /\ IsFiniteSet(s.lost) /\ GapsTrue(s.gaps, s.lost) /\ CountTrue(s) /\ Ledger(s)
  BY DEF Sound
<1>2. s.gaps \in Seq(Records) /\ Len(s.gaps) \in Nat /\ DOMAIN s.gaps = 1..Len(s.gaps) /\ s.told \in Nat
      /\ s.unattributed \in Nat /\ n \in 0..Len(s.gaps)
  BY <1>1, SessionIs
<1>3. first \in Seq(Records) /\ rest \in Seq(Records) /\ Len(rest) = Len(s.gaps) - n /\ DOMAIN rest = 1..Len(rest)
      /\ \A i \in 1..Len(rest) : n + i \in DOMAIN s.gaps /\ rest[i] = s.gaps[n + i]
  <2>1. first \in Seq(Records) /\ rest \in Seq(Records) /\ Len(rest) = Len(s.gaps) - n
    BY <1>2
  <2>2. \A i \in 1..Len(rest) : rest[i] = s.gaps[n + i]
    BY <1>2
  <2> HIDE DEF rest, first
  <2>3. \A i \in 1..Len(rest) : n + i \in DOMAIN s.gaps
    BY <1>2, <2>1
  <2>4. QED
    BY <2>1, <2>2, <2>3
<1>4. Pending(s.gaps) = Pending(first) + Pending(rest)
  BY <1>2, SumParts
<1>5. r = [d EXCEPT !.gaps = Puts(d.gaps, rest)]
  BY RestoredIs DEF Dying
<1> HIDE DEF first, rest
<1>6. \A i \in DOMAIN rest : rest[i] \in Records /\ GapTrue(rest[i], s.lost)
  BY <1>1, <1>3 DEF GapsTrue
<1>7. \A i, j \in DOMAIN rest : rest[i].run = rest[j].run => i = j
  <2>1. ASSUME NEW i \in DOMAIN rest, NEW j \in DOMAIN rest, rest[i].run = rest[j].run PROVE i = j
    <3>1. n + i \in DOMAIN s.gaps /\ n + j \in DOMAIN s.gaps /\ rest[i] = s.gaps[n + i] /\ rest[j] = s.gaps[n + j]
      BY <1>3
    <3>2. n + i = n + j
      BY <1>1, <2>1, <3>1 DEF GapsTrue
    <3>3. QED
      BY <1>3, <3>2
  <2>2. QED
    BY <2>1
<1>8. Pending(first) \in Nat /\ Pending(rest) \in Nat /\ Cardinality(s.lost) \in Nat
  BY <1>1, <1>3, SumTyped, FS_CardinalityType
<1>9. /\ c \in Sessions /\ c.link = s.link /\ c.buffer = s.buffer /\ c.gaps = << >>
      /\ c.unattributed = s.unattributed /\ c.lost = s.lost /\ c.emitted = s.emitted /\ c.held = s.held /\ c.dark = s.dark
      /\ Apartness(c, h, {}) /\ c.told = s.told + Pending(first)
  BY <1>3, FlushingIs
<1> HIDE DEF c, r
<1>10. CASE s.dark
  <2>1. Sound(c, h, {})
    <3>1. GapsTrue(c.gaps, c.lost)
      BY <1>9 DEF GapsTrue
    <3>2. QED
      BY <1>1, <1>9, <1>10, <3>1 DEF Sound, Apartness, CountTrue, LitHolds, Ledger
  <2>2. Sound(t, h, {}) /\ Takes(t, c)
    <3>1. Sound(t, h, {} \cup {c.seq})
      BY <2>1, TakenSound
    <3>2. QED
      BY <1>9, <3>1, FewerKept, TakenIs
  <2> HIDE DEF t
  <2>3. Sound(d, h, {}) /\ Gone(d, t)
    BY <2>2, KilledSound
  <2> HIDE DEF d
  <2>4. d \in Sessions /\ d.gaps \in TruePiles(d.lost) /\ s.lost \subseteq d.lost /\ IsFiniteSet(d.lost) /\ d.dark
    <3>1. d \in Sessions /\ GapsTrue(d.gaps, d.lost) /\ IsFiniteSet(d.lost)
      BY <2>3 DEF Sound
    <3>2. d.gaps \in Seq(Records)
      BY <3>1, SessionIs
    <3>3. d.dark = c.dark /\ c.lost \subseteq d.lost
      BY <2>2, <2>3 DEF Gone, Takes
    <3>4. QED
      BY <1>9, <1>10, <3>1, <3>2, <3>3 DEF TruePiles
  <2>5. rest \in Seq(TrueRecords(d.lost))
    <3>1. ASSUME NEW i \in 1..Len(rest) PROVE rest[i] \in TrueRecords(d.lost)
      <4>1. rest[i] \in Records /\ GapTrue(rest[i], s.lost) /\ rest[i].count \in Nat
        BY <1>3, <1>6 DEF Records
      <4>2. QED
        BY <2>4, <4>1, GapStays DEF TrueRecords
    <3>2. QED
      BY <1>3, <3>1
  <2> DEFINE gs == Puts(d.gaps, rest)
  <2>6. gs \in TruePiles(d.lost)
    BY <2>4, <2>5, PutsTrue
  <2> HIDE DEF gs
  <2>7. gs \in Seq(Records) /\ GapsTrue(gs, d.lost)
    BY <2>6 DEF TruePiles
  <2>8. /\ r \in Sessions /\ r.gaps = gs
        /\ r.link = d.link /\ r.seq = d.seq /\ r.held = d.held /\ r.wire = d.wire /\ r.buffer = d.buffer
        /\ r.stale = d.stale /\ r.emitted = d.emitted /\ r.told = d.told /\ r.dark = d.dark
        /\ r.lost = d.lost /\ r.unattributed = d.unattributed
    <3>1. r = [d EXCEPT !.gaps = gs]
      BY <1>5 DEF gs
    <3>2. Regapped(r, d, gs)
      BY <2>4, <2>7, <3>1, GapsSet
    <3>3. QED
      BY <3>2 DEF Regapped
  <2>9. Seen(r, h) = Seen(d, h)
    BY <2>8 DEF Seen, FramesOf
  <2>10. Sound(r, h, {})
    BY <2>3, <2>4, <2>7, <2>8, <2>9 DEF Sound, CountTrue, LitHolds, Ledger
  <2>11. r.link = "idle"
    BY <2>3, <2>8 DEF Gone
  <2>12. QED
    BY <2>10, <2>11 DEF r
<1>11. CASE ~s.dark
  <2>1. Takes(t, c)
    BY <1>9, TakenIs
  <2> HIDE DEF t
  <2>2. t \in Sessions /\ t.held = << >> /\ t.gaps = << >> /\ t.lost = s.lost /\ t.told = c.told
        /\ t.unattributed = s.unattributed /\ t.buffer = c.buffer /\ t.seq = c.seq + 1
        /\ t.wire = c.wire /\ t.stale = c.stale /\ t.emitted = c.emitted
    BY <1>9, <1>11, <2>1 DEF Takes
  <2>3. d = Cut(t)
    BY <2>2, KilledQuiet
  <2> HIDE DEF d
  <2>4. /\ d \in Sessions
        /\ d.link = "idle" /\ d.held = << >> /\ d.wire = << >> /\ d.stale = t.wire
        /\ d.seq = t.seq /\ d.buffer = t.buffer /\ d.gaps = t.gaps
        /\ d.unattributed = t.unattributed /\ d.lost = t.lost /\ d.told = t.told /\ d.emitted = t.emitted
    BY <2>2, <2>3, CutIs
  <2>5. rest \in Seq(TrueRecords(s.lost))
    <3>1. \A i \in 1..Len(rest) : rest[i] \in TrueRecords(s.lost)
      BY <1>3, <1>6 DEF TrueRecords
    <3>2. QED
      BY <1>3, <3>1
  <2>6. Puts(d.gaps, rest) = rest
    <3>1. d.gaps = << >>
      BY <2>2, <2>4
    <3>2. Puts(<< >>, rest) = rest
      BY <1>7, <2>5, PutsFresh
    <3>3. QED
      BY <3>1, <3>2
  <2>7. /\ r \in Sessions /\ r.gaps = rest
        /\ r.link = d.link /\ r.seq = d.seq /\ r.held = d.held /\ r.wire = d.wire /\ r.buffer = d.buffer
        /\ r.stale = d.stale /\ r.emitted = d.emitted /\ r.told = d.told /\ r.lost = d.lost /\ r.unattributed = d.unattributed
    <3>1. r = [d EXCEPT !.gaps = rest]
      BY <1>5, <2>6
    <3>2. Regapped(r, d, rest)
      BY <1>3, <2>4, <3>1, GapsSet
    <3>3. QED
      BY <3>2 DEF Regapped
  <2>8. Apart(r.buffer, Given(r.lost), Seen(r, h), r.seq, {})
    <3>1. FramesOf(r, h) \subseteq FramesOf(c, h)
      BY <2>2, <2>4, <2>7 DEF FramesOf
    <3>2. Seen(r, h) \subseteq Seen(c, h)
      BY <3>1, FewerFrames
    <3>3. c.seq \in Nat /\ r.seq = c.seq + 1 /\ r.buffer = c.buffer /\ r.lost = c.lost
      BY <1>9, <2>2, <2>4, <2>7, SessionIs
    <3>4. 0..(c.seq - 1) \subseteq 0..(r.seq - 1)
      BY <3>3
    <3>5. QED
      BY <1>9, <3>2, <3>3, <3>4 DEF Apartness, Apart
  <2>9. GapsTrue(r.gaps, r.lost)
    BY <1>6, <1>7, <2>2, <2>4, <2>7 DEF GapsTrue
  <2>10. CountTrue(r)
    <3>1. Cardinality(s.lost) = s.told + Pending(s.gaps) + s.unattributed /\ Len(s.gaps) <= MaxTrackedGapRuns
      BY <1>1, <1>11 DEF CountTrue
    <3>2. r.lost = s.lost /\ r.told = s.told + Pending(first) /\ r.unattributed = s.unattributed /\ r.gaps = rest
      BY <1>9, <2>2, <2>4, <2>7
    <3>3. Cardinality(r.lost) = r.told + Pending(r.gaps) + r.unattributed
      BY <1>2, <1>4, <1>8, <3>1, <3>2
    <3>4. Len(r.gaps) <= MaxTrackedGapRuns
      <4>1. Len(r.gaps) = Len(s.gaps) - n /\ MaxTrackedGapRuns \in Nat
        BY <1>3, <3>2, BufferAssumption
      <4>2. QED
        BY <1>2, <3>1, <4>1
    <3>5. QED
      BY <3>3, <3>4 DEF CountTrue
  <2>11. Sound(r, h, {})
    <3>1. IsFiniteSet(r.lost) /\ LitHolds(r)
      BY <1>1, <2>2, <2>4, <2>7 DEF LitHolds
    <3>2. Ledger(r)
      <4>1. r.buffer = s.buffer /\ r.lost = s.lost /\ r.emitted = s.emitted
        BY <1>9, <2>2, <2>4, <2>7
      <4>2. QED
        BY <1>1, <4>1 DEF Ledger
    <3>3. QED
      BY <2>7, <2>8, <2>9, <2>10, <3>1, <3>2 DEF Sound
  <2>12. QED
    BY <2>4, <2>7, <2>11 DEF r
<1>12. QED
  BY <1>10, <1>11

-----------------------------------------------------------------------------
(* The replay.                                                             *)

\* Events of z's buffer, and the sessions that sending them makes of z.
ItemsOf(z) == {e \in Events : e.seq \in SeqsOf(z.buffer)}
Resent(u, z) ==
    {s \in Sessions :
        /\ Sound(s, u, {}) /\ s.link = "attached" /\ Len(s.buffer) = Len(z.buffer)
        /\ \A i \in DOMAIN z.buffer : s.buffer[i].run = z.buffer[i].run /\ s.buffer[i].seq = z.buffer[i].seq}
Resends(s, es) == FoldLeft(Sent, s, es)

LEMMA SameDomain ==
    ASSUME NEW s \in Sessions, NEW z \in Sessions, Len(s.buffer) = Len(z.buffer)
    PROVE  DOMAIN s.buffer = DOMAIN z.buffer
<1>1. s.buffer \in Seq(Events) /\ z.buffer \in Seq(Events)
  BY SessionIs
<1>2. QED
  BY <1>1

LEMMA ResentTyped ==
    ASSUME NEW u, NEW z \in Sessions, NEW s \in Resent(u, z), NEW e \in ItemsOf(z)
    PROVE  Sent(s, e) \in Resent(u, z)
<1> DEFINE r == Sent(s, e)
<1>1. s \in Sessions /\ s.link = "attached" /\ Sound(s, u, {}) /\ e \in Events /\ e.seq \in SeqsOf(z.buffer)
      /\ DOMAIN s.buffer = DOMAIN z.buffer
  BY SameDomain DEF Resent, ItemsOf
<1>2. e.seq \in SeqsOf(s.buffer)
  BY <1>1 DEF Resent, SeqsOf
<1>3. e.seq < s.seq /\ e.seq \notin Given(s.lost) /\ e.seq \notin {}
  BY <1>1, <1>2, BufferedSeq
<1>4. Sound(r, u, {}) /\ Sends(r, s, e)
  BY <1>1, <1>3, SentSound, SentIs
<1> HIDE DEF r
<1>5. r \in Resent(u, z)
  BY <1>1, <1>4 DEF Resent, Sends
<1>6. QED
  BY <1>5 DEF r

LEMMA ResendsRun ==
    ASSUME NEW u, NEW z \in Sessions, NEW b \in Resent(u, z), NEW es \in Seq(ItemsOf(z))
    PROVE  \E h : /\ h[0] = b /\ \A n \in 0..Len(es) : h[n] \in Resent(u, z)
                  /\ \A n \in 0..(Len(es) - 1) : h[n + 1] = Sent(h[n], es[n + 1])
                  /\ Resends(b, es) = h[Len(es)]
<1> DEFINE N == Len(es)
           Is(f) == f = [t \in SUBSET (DOMAIN es) |->
                           IF t = {} THEN b ELSE Sent(f[t \ {Max(t)}], es[Max(t)])]
           f == CHOOSE f : Is(f)
           h == [n \in 0..N |-> f[1..n]]
<1>1. N \in Nat /\ DOMAIN es = 1..N /\ es \in [1..N -> ItemsOf(z)]
  OBVIOUS
<1>2. \E g : Is(g)
  <2> DEFINE G == [p \in Resent(u, z) \X ItemsOf(z) |-> Sent(p[1], p[2])]
  <2>1. G \in [Resent(u, z) \X ItemsOf(z) -> Resent(u, z)] /\ \A x \in Resent(u, z), e \in ItemsOf(z) : G[<<x, e>>] = Sent(x, e)
    BY ResentTyped
  <2> HIDE DEF G, N
  <2>2. PICK g : IsFold(g, Resent(u, z), G, b, N, es)
    BY <1>1, <2>1, FoldExists
  <2>3. ASSUME NEW t \in SUBSET (1..N), t # {}
        PROVE  G[<<g[t \ {Max(t)}], es[Max(t)]>>] = Sent(g[t \ {Max(t)}], es[Max(t)])
    <3>1. Max(t) \in 1..N
      BY <1>1, <2>3, MaxOfPrefix
    <3>2. g[t \ {Max(t)}] \in Resent(u, z) /\ es[Max(t)] \in ItemsOf(z)
      BY <1>1, <2>2, <3>1 DEF IsFold
    <3>3. QED
      BY <2>1, <3>2
  <2>4. Is(g)
    BY <1>1, <2>2, <2>3 DEF IsFold
  <2>5. QED
    BY <2>4
<1>3. Is(f)
  <2> HIDE DEF Is
  <2>1. QED
    BY <1>2
<1>4. Resends(b, es) = f[1..N]
  BY <1>1 DEF FoldLeft, MapThenFoldSet, Resends
<1> HIDE DEF f
<1>5. h[0] = b
  BY <1>1, <1>3
<1>6. ASSUME NEW n \in 0..(N - 1) PROVE h[n + 1] = Sent(h[n], es[n + 1])
  <2> HIDE DEF N, h
  <2>1. /\ n \in 0..N /\ n + 1 \in 0..N /\ 1..(n + 1) \in SUBSET (1..N) /\ 1..(n + 1) # {}
        /\ Max(1..(n + 1)) = n + 1 /\ (1..(n + 1)) \ {n + 1} = 1..n
    BY <1>1, PrefixStep
  <2>2. f[1..(n + 1)] = Sent(f[(1..(n + 1)) \ {Max(1..(n + 1))}], es[Max(1..(n + 1))])
    BY <1>1, <1>3, <2>1
  <2>3. QED
    BY <2>1, <2>2 DEF h
<1>7. \A n \in 0..N : h[n] \in Resent(u, z)
  <2> DEFINE T == {n \in 0..N : h[n] \in Resent(u, z)}
  <2> HIDE DEF h
  <2>1. 0 \in T
    BY <1>1, <1>5
  <2>2. ASSUME NEW n \in 0..(N - 1), n \in T PROVE n + 1 \in T
    <3>1. n + 1 \in 0..N /\ es[n + 1] \in ItemsOf(z) /\ h[n] \in Resent(u, z)
      BY <1>1, <2>2
    <3>2. h[n + 1] \in Resent(u, z)
      BY <1>6, <3>1, ResentTyped
    <3>3. QED
      BY <3>1, <3>2
  <2>3. QED
    <3> HIDE DEF T
    <3>1. \A n \in 0..N : n \in T
      BY <1>1, <2>1, <2>2, Climb
    <3>2. QED
      BY <3>1 DEF T
<1>8. h[N] = f[1..N]
  BY <1>1
<1>9. QED
  <2> HIDE DEF h
  <2>1. QED
    BY <1>4, <1>5, <1>6, <1>7, <1>8

LEMMA ResendsSound ==
    ASSUME NEW u, NEW z, Sound(z, u, {}), z.link = "attached", NEW es \in Seq(ItemsOf(z))
    PROVE  /\ Resends(z, es) \in Resent(u, z)
           /\ \A i \in DOMAIN es : EventFrame(es[i]) \in WireOf(Resends(z, es))
<1>1. z \in Sessions /\ z \in Resent(u, z)
  BY DEF Sound, Resent
<1>2. PICK h : /\ h[0] = z /\ \A n \in 0..Len(es) : h[n] \in Resent(u, z)
               /\ \A n \in 0..(Len(es) - 1) : h[n + 1] = Sent(h[n], es[n + 1])
               /\ Resends(z, es) = h[Len(es)]
  BY <1>1, ResendsRun
<1> DEFINE T == {n \in 0..Len(es) : \A i \in 1..n : EventFrame(es[i]) \in WireOf(h[n])}
<1>3. Len(es) \in Nat /\ DOMAIN es = 1..Len(es) /\ 0 \in 0..Len(es) /\ Len(es) \in 0..Len(es)
  OBVIOUS
<1>4. 0 \in T
  BY <1>3
<1>5. ASSUME NEW n \in 0..(Len(es) - 1), n \in T PROVE n + 1 \in T
  <2>1. n \in Nat /\ n \in 0..Len(es) /\ n + 1 \in 0..Len(es) /\ es[n + 1] \in Events
    BY <1>3 DEF ItemsOf
  <2>2. h[n] \in Sessions /\ h[n + 1] = Sent(h[n], es[n + 1])
    BY <1>2, <2>1 DEF Resent
  <2>3. WireOf(h[n + 1]) = WireOf(h[n]) \cup {EventFrame(es[n + 1])}
    BY <2>1, <2>2, SentIs, SendsWire
  <2>4. ASSUME NEW i \in 1..(n + 1) PROVE EventFrame(es[i]) \in WireOf(h[n + 1])
    <3>1. CASE i \in 1..n
      BY <1>5, <2>3, <3>1
    <3>2. CASE i = n + 1
      BY <2>3, <3>2
    <3>3. QED
      BY <2>1, <3>1, <3>2
  <2>5. QED
    BY <2>1, <2>4
<1>6. Len(es) \in T
  <2> HIDE DEF T
  <2>1. \A n \in 0..Len(es) : n \in T
    BY <1>3, <1>4, <1>5, Climb
  <2>2. QED
    BY <1>3, <2>1
<1>7. QED
  BY <1>2, <1>3, <1>6

LEMMA ReplayedIs ==
    ASSUME NEW s, NEW n
    PROVE  Replayed(s, n) = IF n >= Len(s.buffer) THEN Resends(s, s.buffer)
                            ELSE Killed(Resends(s, SubSeq(s.buffer, 1, n)))
BY DEF Replayed, Replayable, Resends

LEMMA ReplayedSound ==
    ASSUME NEW s, NEW h, Sound(s, h, {}), s.link = "attached", NEW n \in Nat
    PROVE  Sound(Replayed(s, n), h, {}) /\ Full(Replayed(s, n), h)
<1>1. s \in Sessions /\ s.buffer \in Seq(Events) /\ Len(s.buffer) \in Nat /\ DOMAIN s.buffer = 1..Len(s.buffer)
  <2>1. s \in Sessions
    BY DEF Sound
  <2>2. s.buffer \in Seq(Events)
    BY <2>1, SessionIs
  <2>3. QED
    BY <2>1, <2>2
<1>2. s.buffer \in Seq(ItemsOf(s))
  <2>1. \A i \in 1..Len(s.buffer) : s.buffer[i] \in ItemsOf(s)
    BY <1>1 DEF ItemsOf, SeqsOf
  <2>2. QED
    BY <1>1, <2>1
<1>3. CASE n >= Len(s.buffer)
  <2> DEFINE r == Resends(s, s.buffer)
  <2>1. r \in Resent(h, s) /\ \A i \in DOMAIN s.buffer : EventFrame(s.buffer[i]) \in WireOf(r)
    BY <1>2, ResendsSound
  <2>2. Replayed(s, n) = r
    BY <1>3, ReplayedIs
  <2> HIDE DEF r
  <2>3. r \in Sessions /\ Sound(r, h, {}) /\ Len(r.buffer) = Len(s.buffer)
        /\ \A i \in DOMAIN s.buffer : r.buffer[i].run = s.buffer[i].run /\ r.buffer[i].seq = s.buffer[i].seq
    BY <2>1 DEF Resent
  <2>4. DOMAIN r.buffer = DOMAIN s.buffer
    BY <1>1, <2>3, SameDomain
  <2>5. \A i \in DOMAIN r.buffer : EventFrame(r.buffer[i]) = EventFrame(s.buffer[i])
    BY <2>3, <2>4 DEF EventFrame
  <2>6. Full(r, h)
    BY <2>1, <2>4, <2>5 DEF Full
  <2>7. QED
    BY <2>2, <2>3, <2>6
<1>4. CASE ~(n >= Len(s.buffer))
  <2> DEFINE es == SubSeq(s.buffer, 1, n)
             r == Resends(s, es)
  <2>1. es \in Seq(ItemsOf(s))
    BY <1>1, <1>2, <1>4
  <2>2. Replayed(s, n) = Killed(r)
    BY <1>4, ReplayedIs
  <2> HIDE DEF es
  <2>3. r \in Resent(h, s)
    BY <2>1, ResendsSound
  <2> HIDE DEF r
  <2>4. Sound(r, h, {})
    BY <2>3 DEF Resent
  <2>5. Sound(Killed(r), h, {}) /\ Killed(r).link = "idle"
    BY <2>4, KilledSound DEF Gone
  <2>6. QED
    BY <2>2, <2>5 DEF Full
<1>5. QED
  BY <1>3, <1>4

-----------------------------------------------------------------------------
(* The inductive invariant, action by action.                              *)

BufferInv == Sound(session, received, {}) /\ Full(session, received)

\* An action that leaves the hub alone need only make a sound session.
Made(s) == Sound(s, received, {}) /\ Full(s, received)

\* The session as it is.
LEMMA Now == ASSUME BufferInv PROVE session \in Sessions /\ Sound(session, received, {}) /\ Full(session, received)
BY DEF BufferInv, Sound

\* A session with other gates held, or in the dark, is as sound, if it may
\* hold them.
LEMMA HeldSound ==
    ASSUME NEW s, NEW h, NEW Q, Sound(s, h, Q), Full(s, h), NEW r \in Sessions, Alike(r, s), r.link = s.link,
           r.wire = s.wire, r.stale = s.stale, LitHolds(r)
    PROVE  Sound(r, h, Q) /\ Full(r, h)
<1>1. FramesOf(r, h) = FramesOf(s, h)
  BY DEF FramesOf
<1>2. Sound(r, h, Q)
  BY <1>1, FewerFrames, SoundAlike
<1>3. Full(r, h)
  BY DEF Full, Alike, WireOf
<1>4. QED
  BY <1>2, <1>3

LEMMA BufferInit_Inv == ASSUME BufferInit PROVE BufferInv
<1> DEFINE none == << >>
<1>1. none \in Seq(Events) /\ none \in Seq(Records) /\ none \in Seq(Runs) /\ none \in Seq(OnWire)
      /\ DOMAIN none = {} /\ none = << >> /\ Len(none) = 0
  OBVIOUS
<1> HIDE DEF none
<1>2. session = [link |-> "idle", seq |-> 0, buffer |-> none, gaps |-> none, unattributed |-> 0, lost |-> {},
                 held |-> none, wire |-> none, stale |-> none, emitted |-> {}, told |-> 0, dark |-> FALSE]
      /\ received = {}
  BY <1>1 DEF BufferInit
<1>3. session \in Sessions
  BY <1>1, <1>2 DEF Sessions
<1>4. SeqsOf(none) = {} /\ UnsentOf(none) = {} /\ Given({}) = {}
  BY <1>1 DEF SeqsOf, UnsentOf, Given
<1>5. Seen(session, received) = {}
  BY <1>1, <1>2 DEF Seen, FramesOf
<1>6. Apart(none, {}, {}, 0, {})
  BY <1>1, <1>4, EmptyBounded DEF Apart
<1>7. GapsTrue(none, {})
  BY <1>1 DEF GapsTrue
<1>8. Pending(none) = 0 /\ Cardinality({}) = 0 /\ IsFiniteSet({})
  BY <1>1, SumTyped, FS_EmptySet
<1>9. CountTrue(session) /\ LitHolds(session)
  BY <1>1, <1>2, <1>8, BufferAssumption DEF CountTrue, LitHolds
<1>10. Ledger(session)
  BY <1>1, <1>2 DEF Ledger
<1>11. Full(session, received)
  BY <1>2 DEF Full
<1>12. QED
  BY <1>2, <1>3, <1>4, <1>5, <1>6, <1>7, <1>8, <1>9, <1>11, <1>10 DEF BufferInv, Sound

LEMMA Emit_Inv ==
    ASSUME BufferInv, NEW run \in Runs, NEW size \in Sizes, NEW inner \in Runs \cup {NoEmit},
           NEW innerDies \in BOOLEAN, NEW fails \in BOOLEAN, NEW dies \in BOOLEAN,
           Emit(run, size, inner, innerDies, fails, dies)
    PROVE  BufferInv'
<1> DEFINE s == session
           h == received
           first == IF inner = NoEmit THEN Taken(s) ELSE Emitted(Taken(s), inner, Small, innerDies)
           e == Item(run, s.seq, size)
           r == IF fails THEN GivenBack(first, s.seq) ELSE Delivered(first, e, dies)
<1>1. session' = r /\ received' = received
  BY DEF Emit
<1>2. s \in Sessions /\ Sound(s, h, {}) /\ Full(s, h)
  BY Now
<1> HIDE DEF s, h
<1>3. Sound(Taken(s), h, {s.seq}) /\ Full(Taken(s), h) /\ s.seq \in Nat
  <2>1. Sound(Taken(s), h, {} \cup {s.seq}) /\ s.seq \in Nat
    BY <1>2, TakenSound
  <2>2. {} \cup {s.seq} = {s.seq}
    OBVIOUS
  <2>3. QED
    BY <1>2, <2>1, <2>2, TakenFull
<1>4. Sound(first, h, {s.seq}) /\ Full(first, h)
  <2>1. CASE inner = NoEmit
    BY <1>3, <2>1
  <2>2. CASE inner # NoEmit
    <3>1. inner \in Runs
      BY <2>2
    <3> DEFINE t == Taken(s)
    <3> HIDE DEF t
    <3>2. Sound(Emitted(t, inner, Small, innerDies), h, {s.seq}) /\ Full(Emitted(t, inner, Small, innerDies), h)
      BY <1>3, <3>1, EmittedSound DEF t
    <3>3. QED
      BY <2>2, <3>2 DEF t
  <2>3. QED
    BY <2>1, <2>2
<1> HIDE DEF first
<1>5. e \in Events /\ e.seq = s.seq
  BY <1>3, ItemIs
<1> HIDE DEF e
<1>6. {s.seq} \ {s.seq} = {}
  OBVIOUS
<1>7. Sound(r, h, {}) /\ Full(r, h)
  <2>1. CASE fails
    <3>1. Sound(GivenBack(first, s.seq), h, {s.seq} \ {s.seq}) /\ GivenBack(first, s.seq).link = first.link
          /\ GivenBack(first, s.seq).buffer = first.buffer /\ GivenBack(first, s.seq).wire = first.wire
      BY <1>4, GivenBackSound
    <3>2. Full(GivenBack(first, s.seq), h)
      BY <1>4, <3>1 DEF Full, WireOf
    <3>3. QED
      BY <1>6, <2>1, <3>1, <3>2
  <2>2. CASE ~fails
    <3>1. Sound(Delivered(first, e, dies), h, {s.seq} \ {s.seq}) /\ Full(Delivered(first, e, dies), h)
      <4>1. e.seq \in {s.seq}
        BY <1>5
      <4>2. QED
        BY <1>4, <1>5, <4>1, DeliveredSound
    <3>2. QED
      BY <1>6, <2>2, <3>1
  <2>3. QED
    BY <2>1, <2>2
<1> HIDE DEF r
<1>8. QED
  BY <1>1, <1>7 DEF BufferInv, h

\* A session with other gates held.
LEMMA HeldSet ==
    ASSUME NEW s, NEW h, NEW Q, Sound(s, h, Q), Full(s, h), NEW runs \in Seq(Runs),
           s.link = "attached" \/ s.dark \/ runs = << >>
    PROVE  Sound([s EXCEPT !.held = runs], h, Q) /\ Full([s EXCEPT !.held = runs], h)
<1> DEFINE r == [s EXCEPT !.held = runs]
<1>1. s \in Sessions /\ LitHolds(s)
  BY DEF Sound
<1>2. /\ r \in Sessions /\ r.held = runs
      /\ r.link = s.link /\ r.seq = s.seq /\ r.buffer = s.buffer /\ r.gaps = s.gaps
      /\ r.unattributed = s.unattributed /\ r.lost = s.lost /\ r.wire = s.wire
      /\ r.stale = s.stale /\ r.emitted = s.emitted /\ r.told = s.told /\ r.dark = s.dark
  BY <1>1 DEF Sessions
<1> HIDE DEF r
<1>3. Alike(r, s) /\ LitHolds(r)
  BY <1>1, <1>2 DEF Alike, LitHolds
<1>4. Sound(r, h, Q) /\ Full(r, h)
  BY <1>2, <1>3, HeldSound
<1>5. QED
  BY <1>4 DEF r

LEMMA Hold_Inv ==
    ASSUME BufferInv, NEW run \in Runs, NEW dies \in BOOLEAN, Hold(run, dies) PROVE BufferInv'
<1> DEFINE runs == Append(session.held, run)
           b == [session EXCEPT !.held = runs]
<1>1. Sound(session, received, {}) /\ Full(session, received) /\ session.link = "attached"
      /\ session \in Sessions /\ received' = received
  BY Now DEF Hold, Attached
<1>2. runs \in Seq(Runs)
  BY <1>1, SessionIs
<1>3. session' = Emitted(b, run, Small, dies)
  BY DEF Hold
<1> HIDE DEF runs
<1>4. Sound(b, received, {}) /\ Full(b, received)
  BY <1>1, <1>2, HeldSet
<1> HIDE DEF b
<1>5. Sound(session', received, {}) /\ Full(session', received)
  BY <1>3, <1>4, EmittedSound
<1>6. QED
  BY <1>1, <1>5 DEF BufferInv

\* An emission that kills the socket.
LEMMA DiesDark ==
    ASSUME NEW s, NEW h, Sound(s, h, {}), Full(s, h), s.link = "attached", s.dark, NEW run \in Runs
    PROVE  Emitted(s, run, Small, TRUE).dark /\ Emitted(s, run, Small, TRUE).link = "idle"
<1> DEFINE e == Item(run, s.seq, Small)
           t == Taken(s)
           f == Framed(t, e)
           p == Pushed(f, e)
<1>1. s \in Sessions
  BY DEF Sound
<1>2. Sound(t, h, {} \cup {s.seq}) /\ s.seq \in Nat /\ Takes(t, s)
  BY <1>1, TakenSound, TakenIs
<1>3. e \in Events /\ e.seq = s.seq
  BY <1>2, ItemIs
<1>4. Fits(e)
  BY BufferAssumption DEF Fits, Item
<1> HIDE DEF e, t
<1>5. t \in Sessions /\ t.link = "attached" /\ t.dark
  BY <1>2 DEF Takes
<1>6. Sound(f, h, {} \cup {s.seq}) /\ f.dark /\ Key(e) \in f.emitted
  BY <1>2, <1>3, <1>5, FramedSound, FramedIs
<1> HIDE DEF f
<1>7. Sound(p, h, ({} \cup {s.seq}) \ {e.seq}) /\ Pushes(p, f, e)
  BY <1>3, <1>4, <1>6, PushedSound
<1> HIDE DEF p
<1>8. Gone(Killed(p), p)
  BY <1>7, KilledSound
<1>9. Emitted(s, run, Small, TRUE) = Killed(p)
  BY <1>4, <1>5 DEF Emitted, Delivered, e, t, f, p
<1>10. QED
  BY <1>6, <1>7, <1>8, <1>9 DEF Gone, Pushes

LEMMA HoldLosesSocket_Inv == ASSUME BufferInv, HoldLosesSocket PROVE BufferInv'
<1> DEFINE b == [session EXCEPT !.dark = TRUE]
           dark == Emitted(b, ImplicitRun, Small, TRUE)
           runs == Append(dark.held, ImplicitRun)
           d == [dark EXCEPT !.held = runs]
<1>1. /\ Sound(session, received, {}) /\ Full(session, received)
      /\ session \in Sessions /\ received' = received /\ ImplicitRun \in Runs
      /\ session.link = "attached"
  BY Now, BufferAssumption DEF HoldLosesSocket, Attached
<1>2. session' = EmittedDark(d, ImplicitRun)
  BY DEF HoldLosesSocket
<1>3. /\ b \in Sessions /\ b.dark
      /\ b.link = session.link /\ b.seq = session.seq /\ b.buffer = session.buffer /\ b.gaps = session.gaps
      /\ b.unattributed = session.unattributed /\ b.lost = session.lost /\ b.wire = session.wire
      /\ b.stale = session.stale /\ b.held = session.held /\ b.emitted = session.emitted /\ b.told = session.told
  BY <1>1 DEF Sessions
<1> HIDE DEF b
<1>4. Sound(b, received, {}) /\ Full(b, received)
  <2>1. Alike(b, session) /\ LitHolds(b)
    BY <1>1, <1>3 DEF Alike, LitHolds
  <2>2. QED
    BY <1>1, <1>3, <2>1, HeldSound
<1>5. Sound(dark, received, {}) /\ Full(dark, received) /\ dark.dark /\ dark.link = "idle"
  <2>1. Sound(dark, received, {}) /\ Full(dark, received)
    BY <1>1, <1>4, EmittedSound
  <2>2. dark.dark /\ dark.link = "idle"
    BY <1>1, <1>3, <1>4, DiesDark
  <2>3. QED
    BY <2>1, <2>2
<1> HIDE DEF dark
<1>6. dark \in Sessions /\ runs \in Seq(Runs)
  <2>1. dark \in Sessions
    BY <1>5 DEF Sound
  <2>2. dark.held \in Seq(Runs)
    BY <2>1, SessionIs
  <2>3. QED
    BY <1>1, <2>1, <2>2
<1> HIDE DEF runs
<1>7. Sound(d, received, {}) /\ d.link = "idle"
  <2>1. Sound(d, received, {})
    BY <1>5, <1>6, HeldSet
  <2>2. d.link = dark.link
    BY <1>6 DEF Sessions
  <2>3. QED
    BY <1>5, <2>1, <2>2
<1> HIDE DEF d
<1>8. Sound(session', received, {}) /\ session'.link = "idle"
  BY <1>1, <1>2, <1>7, EmittedDarkSound DEF Keeps
<1>9. QED
  BY <1>1, <1>8 DEF BufferInv, Full

LEMMA Release_Inv ==
    ASSUME BufferInv, NEW i \in DOMAIN session.held, NEW dies \in BOOLEAN, Release(i, dies) PROVE BufferInv'
<1> DEFINE runs == RemoveAt(session.held, i)
           b == [session EXCEPT !.held = runs]
           run == session.held[i]
<1>1. Sound(session, received, {}) /\ Full(session, received) /\ session \in Sessions /\ received' = received
  BY Now DEF Release
<1>2. session.held \in Seq(Runs) /\ Len(session.held) \in Nat /\ DOMAIN session.held = 1..Len(session.held)
      /\ run \in Runs /\ session.held # << >>
  <2>1. session.held \in Seq(Runs)
    BY <1>1, SessionIs
  <2>2. QED
    BY <2>1
<1>3. runs \in Seq(Runs)
  BY <1>2 DEF RemoveAt
<1>4. session.link = "attached" \/ session.dark
  BY <1>1, <1>2 DEF Sound, LitHolds
<1>5. session' = Emitted(b, run, Small, dies)
  BY DEF Release
<1> HIDE DEF runs, run
<1>6. Sound(b, received, {}) /\ Full(b, received)
  BY <1>1, <1>3, <1>4, HeldSet
<1> HIDE DEF b
<1>7. Sound(session', received, {}) /\ Full(session', received)
  BY <1>2, <1>5, <1>6, EmittedSound
<1>8. QED
  BY <1>1, <1>7 DEF BufferInv

\* A session with another link.
LEMMA LinkSet ==
    ASSUME NEW s \in Sessions, NEW link \in {"idle", "connecting", "attached"}, NEW r, r = [s EXCEPT !.link = link]
    PROVE  /\ r \in Sessions /\ r.link = link
           /\ r.held = s.held /\ r.seq = s.seq /\ r.buffer = s.buffer /\ r.gaps = s.gaps
           /\ r.unattributed = s.unattributed /\ r.lost = s.lost /\ r.wire = s.wire
           /\ r.stale = s.stale /\ r.emitted = s.emitted /\ r.told = s.told /\ r.dark = s.dark
BY DEF Sessions

LEMMA LinkSound ==
    ASSUME NEW s, NEW h, Sound(s, h, {}), s.link # "attached", NEW link \in {"idle", "connecting", "attached"}
    PROVE  Sound([s EXCEPT !.link = link], h, {})
<1> DEFINE r == [s EXCEPT !.link = link]
<1>1. s \in Sessions /\ LitHolds(s)
  BY DEF Sound
<1>2. r \in Sessions /\ Alike(r, s) /\ LitHolds(r) /\ r.wire = s.wire /\ r.stale = s.stale
  <2>1. /\ r \in Sessions
        /\ r.held = s.held /\ r.seq = s.seq /\ r.buffer = s.buffer /\ r.gaps = s.gaps
        /\ r.unattributed = s.unattributed /\ r.lost = s.lost /\ r.wire = s.wire
        /\ r.stale = s.stale /\ r.emitted = s.emitted /\ r.told = s.told /\ r.dark = s.dark
    BY <1>1, LinkSet
  <2> HIDE DEF r
  <2>2. QED
    BY <1>1, <2>1 DEF Alike, LitHolds
<1> HIDE DEF r
<1>3. FramesOf(r, h) = FramesOf(s, h)
  BY <1>2 DEF FramesOf
<1>4. Sound(r, h, {})
  BY <1>2, <1>3, FewerFrames, SoundAlike
<1>5. QED
  BY <1>4 DEF r

LEMMA Hello_Inv == ASSUME BufferInv, Hello PROVE BufferInv'
<1> DEFINE t == Taken(session)
           r == [t EXCEPT !.link = "connecting"]
<1>1. Sound(session, received, {}) /\ session \in Sessions /\ session.link = "idle" /\ session' = r
      /\ received' = received
  BY Now DEF Hello
<1>2. Sound(t, received, {} \cup {session.seq}) /\ Takes(t, session)
  BY <1>1, TakenSound, TakenIs
<1> HIDE DEF t
<1>3. Sound(t, received, {}) /\ t \in Sessions /\ t.link # "attached"
  BY <1>1, <1>2, FewerKept DEF Takes
<1>4. Sound(r, received, {}) /\ r.link = "connecting"
  BY <1>3, LinkSound, LinkSet
<1>5. QED
  BY <1>1, <1>4 DEF BufferInv, Full

LEMMA HandshakeFails_Inv == ASSUME BufferInv, HandshakeFails PROVE BufferInv'
<1> DEFINE r == [session EXCEPT !.link = "idle"]
<1>1. Sound(session, received, {}) /\ session \in Sessions /\ session.link # "attached" /\ session' = r
      /\ received' = received
  BY Now DEF HandshakeFails
<1>2. Sound(r, received, {}) /\ r.link = "idle"
  BY <1>1, LinkSound, LinkSet
<1>3. QED
  BY <1>1, <1>2 DEF BufferInv, Full

LEMMA Attach_Inv ==
    ASSUME BufferInv, NEW n \in 0..(Len(session.gaps) + Len(session.buffer)), Attach(n) PROVE BufferInv'
<1> DEFINE markers == Len(session.gaps)
           b == [session EXCEPT !.link = "attached"]
           flushed == Flushed(b, n)
<1>1. Sound(session, received, {}) /\ session \in Sessions /\ session.link = "connecting" /\ received' = received
      /\ session' = IF flushed.link = "attached" THEN Replayed(flushed, n - markers) ELSE flushed
  BY Now DEF Attach
<1>2. n \in Nat /\ markers \in Nat
  <2>1. session.gaps \in Seq(Records) /\ session.buffer \in Seq(Events)
    BY <1>1, SessionIs
  <2>2. QED
    BY <2>1
<1>3. /\ Sound(b, received, {}) /\ b.link = "attached" /\ b.gaps = session.gaps
      /\ ~b.dark => b.held = << >>
  <2>1. Sound(b, received, {})
    BY <1>1, LinkSound
  <2>2. b.link = "attached" /\ b.gaps = session.gaps /\ b.dark = session.dark /\ b.held = session.held
    BY <1>1, LinkSet
  <2>3. ~session.dark => session.held = << >>
    BY <1>1 DEF Sound, LitHolds
  <2>4. QED
    BY <2>1, <2>2, <2>3
<1> HIDE DEF b
<1>4. CASE n >= markers
  <2>1. flushed = Markers(Flushing(b), b.gaps)
    BY <1>3, <1>4, FlushedIs
  <2>2. Sound(flushed, received, {}) /\ flushed.link = "attached"
    BY <1>3, <2>1, FlushCompletes
  <2> HIDE DEF flushed
  <2>3. n - markers \in Nat
    BY <1>2, <1>4
  <2> DEFINE k == n - markers
  <2> HIDE DEF k
  <2>4. Sound(Replayed(flushed, k), received, {}) /\ Full(Replayed(flushed, k), received)
    BY <2>2, <2>3, ReplayedSound DEF k
  <2>5. session' = Replayed(flushed, k)
    BY <1>1, <2>2 DEF k
  <2>6. QED
    BY <1>1, <2>4, <2>5 DEF BufferInv
<1>5. CASE ~(n >= markers)
  <2>1. n < Len(b.gaps)
    BY <1>2, <1>3, <1>5
  <2>2. flushed = Dying(b, n)
    BY <1>3, <1>5, FlushedIs
  <2>3. Sound(flushed, received, {}) /\ flushed.link = "idle"
    BY <1>2, <1>3, <2>1, <2>2, FlushDies
  <2> HIDE DEF flushed
  <2>4. session' = flushed
    BY <1>1, <2>3
  <2>5. QED
    BY <1>1, <2>3, <2>4 DEF BufferInv, Full
<1>6. QED
  BY <1>4, <1>5

LEMMA Detach_Inv == ASSUME BufferInv, Detach PROVE BufferInv'
<1>1. Sound(session, received, {}) /\ session' = Killed(session) /\ received' = received
  BY Now DEF Detach
<1>2. Sound(session', received, {}) /\ session'.link = "idle"
  BY <1>1, KilledSound DEF Gone
<1>3. QED
  BY <1>1, <1>2 DEF BufferInv, Full

\* The frames of a sequence are its head and those of its tail.
LEMMA HeadAndTail ==
    ASSUME NEW w \in Seq(OnWire), w # << >>
    PROVE  {w[i] : i \in DOMAIN w} = {Head(w)} \cup {Tail(w)[i] : i \in DOMAIN Tail(w)} /\ Tail(w) \in Seq(OnWire)
<1>1. Len(w) \in Nat /\ Len(w) # 0 /\ DOMAIN w = 1..Len(w) /\ Head(w) = w[1]
  BY EmptySeq
<1>2. Tail(w) \in Seq(OnWire) /\ Len(Tail(w)) = Len(w) - 1 /\ DOMAIN Tail(w) = 1..(Len(w) - 1)
      /\ \A i \in 1..(Len(w) - 1) : Tail(w)[i] = w[i + 1]
  BY HeadTailProperties
<1>3. {w[i] : i \in DOMAIN w} \subseteq {Head(w)} \cup {Tail(w)[i] : i \in DOMAIN Tail(w)}
  <2>1. ASSUME NEW i \in 1..Len(w), i # 1 PROVE i - 1 \in 1..(Len(w) - 1) /\ w[i] = Tail(w)[i - 1]
    <3>1. i - 1 \in 1..(Len(w) - 1) /\ (i - 1) + 1 = i
      BY <1>1, <2>1
    <3>2. QED
      BY <1>2, <3>1
  <2>2. ASSUME NEW i \in 1..Len(w) PROVE w[i] \in {Head(w)} \cup {Tail(w)[j] : j \in DOMAIN Tail(w)}
    <3>1. CASE i = 1
      BY <1>1, <3>1
    <3>2. CASE i # 1
      BY <1>2, <2>1, <3>2
    <3>3. QED
      BY <3>1, <3>2
  <2>3. QED
    BY <1>1, <2>2
<1>4. {Head(w)} \cup {Tail(w)[i] : i \in DOMAIN Tail(w)} \subseteq {w[i] : i \in DOMAIN w}
  <2>1. 1 \in 1..Len(w) /\ \A i \in 1..(Len(w) - 1) : i + 1 \in 1..Len(w)
    BY <1>1
  <2>2. QED
    BY <1>1, <1>2, <2>1
<1>5. QED
  BY <1>2, <1>3, <1>4

LEMMA HubReads_Inv == ASSUME BufferInv, HubReads PROVE BufferInv'
<1> DEFINE w == session.wire
           tail == Tail(w)
           r == [session EXCEPT !.wire = tail]
           h == received \cup {Head(w)}
<1>1. Sound(session, received, {}) /\ Full(session, received) /\ session \in Sessions
      /\ session' = r /\ received' = h /\ w # << >>
  BY Now DEF HubReads
<1>2. w \in Seq(OnWire)
  BY <1>1, SessionIs
<1>3. WireOf(session) = {Head(w)} \cup {tail[i] : i \in DOMAIN tail} /\ tail \in Seq(OnWire)
  BY <1>1, <1>2, HeadAndTail DEF WireOf
<1> HIDE DEF tail
<1>4. /\ r \in Sessions /\ r.wire = tail
      /\ r.link = session.link /\ r.held = session.held /\ r.seq = session.seq /\ r.buffer = session.buffer
      /\ r.gaps = session.gaps /\ r.unattributed = session.unattributed /\ r.lost = session.lost
      /\ r.stale = session.stale /\ r.emitted = session.emitted /\ r.told = session.told /\ r.dark = session.dark
  BY <1>1, <1>3 DEF Sessions
<1> HIDE DEF r
<1>5. h \cup WireOf(r) = received \cup WireOf(session)
  BY <1>3, <1>4 DEF WireOf
<1>6. FramesOf(r, h) \subseteq FramesOf(session, received)
  BY <1>4, <1>5 DEF FramesOf, WireOf
<1> HIDE DEF h
<1>7. Full(r, h)
  BY <1>1, <1>4, <1>5 DEF Full
<1>8. Sound(r, h, {})
  <2>1. Alike(r, session) /\ LitHolds(r)
    BY <1>1, <1>4 DEF Alike, LitHolds, Sound
  <2>2. QED
    BY <1>1, <1>4, <1>6, <2>1, FewerFrames, SoundAlike
<1>9. QED
  BY <1>1, <1>7, <1>8 DEF BufferInv

LEMMA HubReadsStale_Inv == ASSUME BufferInv, HubReadsStale PROVE BufferInv'
<1> DEFINE w == session.stale
           tail == Tail(w)
           r == [session EXCEPT !.stale = tail]
           h == received \cup {Head(w)}
<1>1. Sound(session, received, {}) /\ Full(session, received) /\ session \in Sessions
      /\ session' = r /\ received' = h /\ w # << >>
  BY Now DEF HubReadsStale
<1>2. w \in Seq(OnWire)
  BY <1>1, SessionIs
<1>3. {w[i] : i \in DOMAIN w} = {Head(w)} \cup {tail[i] : i \in DOMAIN tail} /\ tail \in Seq(OnWire)
  BY <1>1, <1>2, HeadAndTail
<1> HIDE DEF tail
<1>4. /\ r \in Sessions /\ r.stale = tail
      /\ r.link = session.link /\ r.held = session.held /\ r.seq = session.seq /\ r.buffer = session.buffer
      /\ r.gaps = session.gaps /\ r.unattributed = session.unattributed /\ r.lost = session.lost
      /\ r.wire = session.wire /\ r.emitted = session.emitted /\ r.told = session.told /\ r.dark = session.dark
  BY <1>1, <1>3 DEF Sessions
<1> HIDE DEF r
<1>5. FramesOf(r, h) \subseteq FramesOf(session, received)
  BY <1>3, <1>4 DEF FramesOf
<1>6. received \subseteq h /\ WireOf(r) = WireOf(session)
  BY <1>4 DEF WireOf
<1> HIDE DEF h
<1>7. Full(r, h)
  BY <1>1, <1>4, <1>6 DEF Full
<1>8. Sound(r, h, {})
  <2>1. Alike(r, session) /\ LitHolds(r)
    BY <1>1, <1>4 DEF Alike, LitHolds, Sound
  <2>2. QED
    BY <1>1, <1>4, <1>5, <2>1, FewerFrames, SoundAlike
<1>9. QED
  BY <1>1, <1>7, <1>8 DEF BufferInv

LEMMA StaleGone_Inv == ASSUME BufferInv, StaleGone PROVE BufferInv'
<1> DEFINE none == << >>
           r == [session EXCEPT !.stale = none]
<1>1. Sound(session, received, {}) /\ Full(session, received) /\ session \in Sessions
      /\ session' = r /\ received' = received
  BY Now DEF StaleGone
<1>2. none \in Seq(OnWire) /\ DOMAIN none = {}
  OBVIOUS
<1> HIDE DEF none
<1>3. /\ r \in Sessions /\ r.stale = none
      /\ r.link = session.link /\ r.held = session.held /\ r.seq = session.seq /\ r.buffer = session.buffer
      /\ r.gaps = session.gaps /\ r.unattributed = session.unattributed /\ r.lost = session.lost
      /\ r.wire = session.wire /\ r.emitted = session.emitted /\ r.told = session.told /\ r.dark = session.dark
  BY <1>1, <1>2 DEF Sessions
<1> HIDE DEF r
<1>4. FramesOf(r, received) \subseteq FramesOf(session, received)
  BY <1>2, <1>3 DEF FramesOf
<1>5. Full(r, received)
  BY <1>1, <1>3 DEF Full, WireOf
<1>6. Sound(r, received, {})
  <2>1. Alike(r, session) /\ LitHolds(r)
    BY <1>1, <1>3 DEF Alike, LitHolds, Sound
  <2>2. QED
    BY <1>1, <1>3, <1>4, <2>1, FewerFrames, SoundAlike
<1>7. QED
  BY <1>1, <1>5, <1>6 DEF BufferInv

LEMMA BufferNext_Inv == ASSUME BufferInv, [BufferNext]_bufferVars PROVE BufferInv'
<1>1. CASE Host
  BY <1>1, Emit_Inv, Hold_Inv, HoldLosesSocket_Inv, Release_Inv DEF Host
<1>2. CASE Connection
  BY <1>2, Hello_Inv, HandshakeFails_Inv, Attach_Inv, Detach_Inv, HubReads_Inv, HubReadsStale_Inv,
     StaleGone_Inv DEF Connection
<1>3. CASE UNCHANGED bufferVars
  BY <1>3 DEF bufferVars, BufferInv
<1>4. QED
  BY <1>1, <1>2, <1>3 DEF BufferNext

\* What the session keeps through every emit, release, handshake, flush and
\* replay, however they nest and wherever the socket dies (emitInternal,
\* recordEviction, flushGapMarkers, handleAttached): the seqs buffered, lost,
\* delivered and still to be taken are apart, the gap records are true, the
\* losses add up, and an attached client has handed over all it has buffered.
THEOREM BufferIsSound == BufferSpec => []BufferInv
<1>1. BufferInit => BufferInv
  BY BufferInit_Inv
<1>2. BufferInv /\ [BufferNext]_bufferVars => BufferInv'
  BY BufferNext_Inv
<1>3. QED
  BY <1>1, <1>2, PTL DEF BufferSpec

\* No two buffered events share a seq, although emits nest and emitInternal
\* gives back the seq of an event that does not serialise.
THEOREM SeqsAreUnique == BufferSpec => []SeqsUnique
<1>1. BufferInv => SeqsUnique
  BY DEF BufferInv, Sound, Apart, SeqsUnique
<1>2. QED
  BY <1>1, BufferIsSound, PTL

\* While the client is attached, every event still in the ring buffer is at the
\* hub or on the wire of this connection: handleAttached's replay leaves nothing
\* out, in spite of the releases and evictions that a dying send nests in it.
THEOREM ReplaysAreComplete == BufferSpec => []ReplayComplete
<1>1. BufferInv => ReplayComplete
  <2>1. SUFFICES ASSUME BufferInv, Attached, NEW i \in DOMAIN session.buffer
                 PROVE  \E f \in received \cup WireOf(session) : Key(session.buffer[i]) = Key(f)
    BY DEF ReplayComplete, Keys, WireOf
  <2>2. EventFrame(session.buffer[i]) \in received \cup WireOf(session)
    BY <2>1 DEF BufferInv, Full, Attached
  <2>3. Key(EventFrame(session.buffer[i])) = Key(session.buffer[i])
    BY DEF Key, EventFrame
  <2>4. QED
    BY <2>2, <2>3
<1>2. QED
  BY <1>1, BufferIsSound, PTL

\* An event counted as lost was never delivered nor will be, every loss is in a
\* marker a socket took, in a gap record or unattributed, and a record begins and
\* ends at lost events and counts no more than its range lost (recordEviction,
\* flushGapMarkers).
THEOREM LossesAreAccounted == BufferSpec => []LossAccounted
<1>1. BufferInv => LossAccounted
  <2>1. SUFFICES ASSUME BufferInv PROVE LossAccounted
    OBVIOUS
  <2>2. /\ Apart(session.buffer, Given(session.lost), Seen(session, received), session.seq, {})
        /\ GapsTrue(session.gaps, session.lost) /\ CountTrue(session)
    BY <2>1 DEF BufferInv, Sound
  <2>3. session.lost \cap Reached = {}
    <3>1. ASSUME NEW k \in session.lost, NEW f \in received \cup InFlight, f.kind = "event" PROVE k # Key(f)
      <4>1. k.seq \in Given(session.lost)
        BY DEF Given
      <4>2. f \in FramesOf(session, received)
        BY DEF FramesOf, InFlight
      <4>3. f.seq \in Seen(session, received)
        BY <3>1, <4>2 DEF Seen
      <4>4. k.seq # f.seq
        BY <2>2, <4>1, <4>3 DEF Apart
      <4>5. QED
        BY <4>4 DEF Key
    <3>2. QED
      BY <3>1 DEF Reached
  <2>4. ~session.dark => Cardinality(session.lost) = session.told + PendingCount + session.unattributed
    BY <2>2 DEF CountTrue, PendingCount, Pending
  <2>5. ASSUME NEW i \in DOMAIN session.gaps
        PROVE  LET g    == session.gaps[i]
                   hole == {k \in session.lost : k.run = g.run /\ g.from <= k.seq /\ k.seq <= g.to}
               IN {g.from, g.to} \subseteq {k.seq : k \in hole} /\ g.count <= Cardinality(hole)
    <3>1. GapTrue(session.gaps[i], session.lost)
      BY <2>2 DEF GapsTrue
    <3>2. QED
      BY <3>1 DEF GapTrue, Hole
  <2>6. QED
    BY <2>3, <2>4, <2>5 DEF LossAccounted
<1>2. QED
  BY <1>1, BufferIsSound, PTL

\* The session's records have their types and bounds: the ring buffer keeps both
\* of its bounds, no more records wait than MAX_TRACKED_GAP_RUNS while no gate was
\* held in the dark, a seq in the buffer is below the session's even after
\* emitInternal gave one back, and only an attached socket has frames in flight.
THEOREM BufferTypeCorrect == BufferSpec => []BufferTypeOK
<1>1. BufferInv => BufferTypeOK
  <2>1. SUFFICES ASSUME BufferInv PROVE BufferTypeOK
    OBVIOUS
  <2>2. /\ session \in Sessions /\ Sound(session, received, {})
        /\ Apart(session.buffer, Given(session.lost), Seen(session, received), session.seq, {})
        /\ CountTrue(session) /\ LitHolds(session) /\ Ledger(session)
    BY <2>1 DEF BufferInv, Sound
  <2>3. session.link \in {"idle", "connecting", "attached"} /\ session.seq \in Nat /\ session.buffer \in Seq(Events)
    BY <2>2, SessionIs
  <2>4. ASSUME NEW i \in DOMAIN session.buffer
        PROVE  /\ session.buffer[i].run \in Runs /\ session.buffer[i].seq < session.seq
               /\ session.buffer[i].size \in Sizes \cup {Small} /\ Fits(session.buffer[i])
               /\ session.buffer[i].sent \in BOOLEAN
    <3>1. session.buffer[i] \in Events
      BY <2>3
    <3>2. session.buffer[i].seq < session.seq
      BY <2>2, BufferedSeq DEF SeqsOf
    <3>3. Fits(session.buffer[i])
      BY <2>2 DEF Apart, Bounded
    <3>4. session.buffer[i].run \in Runs /\ session.buffer[i].size \in Sizes \cup {Small}
          /\ session.buffer[i].sent \in BOOLEAN
      BY <3>1 DEF Events
    <3>5. QED
      BY <3>2, <3>3, <3>4
  <2>5. Len(session.buffer) <= Capacity /\ Bytes(session.buffer) <= MaxBytes
    BY <2>2, <2>3, BoundedIs DEF Apart
  <2>6. ~session.dark => Len(session.gaps) <= MaxTrackedGapRuns
    BY <2>2 DEF CountTrue
  <2>7. session.lost \subseteq session.emitted /\ (session.wire # << >> => Attached)
    BY <2>2 DEF Ledger, LitHolds, Attached
  <2>8. QED
    BY <2>3, <2>4, <2>5, <2>6, <2>7 DEF BufferTypeOK
<1>2. QED
  BY <1>1, BufferIsSound, PTL

=============================================================================
