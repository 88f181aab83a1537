--------------------------- MODULE McpProxy_proofs ---------------------------
(***************************************************************************)
(* Proofs about McpProxy: a node ends once and none begins in a finished   *)
(* run; an open one has somebody who will close it; the pending requests   *)
(* stay within their bound; what is relayed arrives in the order it was    *)
(* sent; nobody gets two answers to one request.                           *)
(***************************************************************************)
EXTENDS McpProxy, FiniteSetTheorems, WellFoundedInduction, TLAPS

Items == [frame : Frame, raw : BOOLEAN]
Unflushed == [by : Dirs, frame : Frame]
Status == {"none", "open", "ok", "answered", "aborted", "unanswered"}
Holds == [point : {"before", "replied", "after"}, frame : Frame]

TypeInv ==
    /\ sent \in [Dirs -> Seq(Messages)] /\ out \in [Dirs -> Seq(Frame)]
    /\ queue \in [Dirs -> Seq(Items)] /\ held \in [Dirs -> Holds \cup {Nothing}]
    /\ tail \in [Dirs -> Seq(Unflushed)]
    /\ owed \subseteq Requests /\ degraded \subseteq Dirs
    /\ pending \subseteq Requests /\ evicted \subseteq Requests
    /\ IsFiniteSet(pending) /\ Cardinality(pending) <= MaxPending
    /\ node \in [Messages -> Status]
    /\ retries \in [Requests -> 0..MaxRetries]
    /\ child \in {"up", "exited"} /\ session \in {"open", "over"}

\* Is frame f the i-th thing a relay has still to look at?
At(d, i, f) == i \in DOMAIN queue[d] /\ queue[d][i].frame = f

\* A message waits in one relay, once, and its node has not begun.
QueueInv ==
    \A m \in Messages : \A d \in Dirs : \A i \in DOMAIN queue[d] :
        At(d, i, Message(m)) =>
            /\ d = Origin(m) /\ m \in Range(sent[d]) /\ node[m] = "none"
            /\ \A j \in DOMAIN queue[d] : At(d, j, Message(m)) => j = i

\* No node without a message that was sent.
SentInv == \A m \in Messages : node[m] # "none" => m \in Range(sent[Origin(m)])

\* What a gate holds is open, awaits no answer, and is held by one gate only.
HeldInv ==
    \A d \in Dirs : held[d] # Nothing =>
        LET m == held[d].frame.id IN
        /\ node[m] = "open" /\ m \notin pending
        /\ held[d].point = "before" => held[d].frame.type = "message"
        /\ held[d].point = "after" => held[d].frame.type = "answer"
        /\ held[Other(d)] # Nothing => held[Other(d)].frame.id # m

PendingInv == \A r \in pending : node[r] = "open"
OpenInv == \A m \in Messages : node[m] = "open" => m \in pending \cup evicted \/ Holding(m)

NodeInv == QueueInv /\ SentInv /\ HeldInv /\ PendingInv /\ OpenInv
ProxyInv == TypeInv /\ NodeInv

-----------------------------------------------------------------------------
(* The data.                                                               *)

LEMMA MessageFacts ==
    /\ \A m \in Messages : Message(m) \in Frame /\ Message(m).id = m /\ Message(m).type = "message"
    /\ \A r \in Requests, by \in {"peer", "proxy"} : Answer(r, by) \in Frame /\ Answer(r, by).type = "answer"
    /\ \A f \in Frame : /\ f.id \in Messages
                        /\ f.type = "message" => f = Message(f.id)
                        /\ f.type = "answer" => f.id \in Requests
                        /\ f.type \in {"message", "answer"}
BY DEF Message, Answer, Frame, Messages

LEMMA HeldFacts ==
    /\ Nothing \notin Holds
    /\ \A h \in Holds : h.point \in {"before", "replied", "after"} /\ h.frame \in Frame
    /\ Nothing.point = "none"
    /\ \A d \in Dirs : Other(d) \in Dirs /\ Other(d) # d /\ \A e \in Dirs : e # d => e = Other(d)
BY DEF Holds, Nothing, Dirs, Other

LEMMA OriginFacts == \A m : Origin(m) \in Dirs
BY DEF Origin, Dirs

LEMMA RangeAppend ==
    ASSUME NEW S, NEW s \in Seq(S), NEW x \in S
    PROVE  Range(Append(s, x)) = Range(s) \cup {x}
<1>1. DOMAIN Append(s, x) = 1..(Len(s) + 1) /\ DOMAIN s = 1..Len(s) /\ Len(s) \in Nat
  OBVIOUS
<1>2. Append(s, x)[Len(s) + 1] = x /\ \A i \in 1..Len(s) : Append(s, x)[i] = s[i]
  OBVIOUS
<1>3. \A y \in Range(Append(s, x)) : y \in Range(s) \cup {x}
  BY <1>1, <1>2 DEF Range
<1>4. \A y \in Range(s) \cup {x} : y \in Range(Append(s, x))
  BY <1>1, <1>2 DEF Range
<1>5. QED
  BY <1>3, <1>4

-----------------------------------------------------------------------------
(* remember(): within the bound, and what is forgotten is on record.       *)

LEMMA RememberKeeps ==
    ASSUME TypeInv, NEW r \in Requests, Remember(r)
    PROVE  /\ pending' \subseteq Requests /\ evicted' \subseteq Requests
           /\ IsFiniteSet(pending') /\ Cardinality(pending') <= MaxPending
           /\ pending \subseteq pending' \cup evicted' /\ evicted \subseteq evicted'
           /\ pending' \subseteq pending \cup {r} /\ r \in pending'
<1>0. /\ pending \subseteq Requests /\ evicted \subseteq Requests
      /\ IsFiniteSet(pending) /\ Cardinality(pending) <= MaxPending
      /\ MaxPending \in Nat \ {0} /\ Cardinality(pending) \in Nat
  BY ProxyAssumption, FS_CardinalityType DEF TypeInv
<1>1. CASE Cardinality(pending) < MaxPending
  <2>1. pending' = pending \cup {r} /\ evicted' = evicted
    BY <1>1 DEF Remember
  <2>2. IsFiniteSet(pending \cup {r}) /\ Cardinality(pending \cup {r}) \in {Cardinality(pending), Cardinality(pending) + 1}
    BY <1>0, FS_AddElement
  <2>3. Cardinality(pending') <= MaxPending
    BY <1>0, <1>1, <2>1, <2>2
  <2>4. QED
    BY <1>0, <2>1, <2>2, <2>3
<1>2. CASE ~(Cardinality(pending) < MaxPending)
  <2>1. PICK victim \in pending : /\ pending' = (pending \ {victim}) \cup {r}
                                 /\ evicted' = evicted \cup {victim}
    BY <1>2 DEF Remember
  <2> DEFINE rest == pending \ {victim}
  <2>2. IsFiniteSet(rest) /\ Cardinality(rest) = Cardinality(pending) - 1
    BY <1>0, FS_RemoveElement
  <2>3. IsFiniteSet(rest \cup {r}) /\ Cardinality(rest \cup {r}) \in {Cardinality(rest), Cardinality(rest) + 1}
    BY <2>2, FS_AddElement
  <2>4. Cardinality(pending') <= MaxPending
    BY <1>0, <2>1, <2>2, <2>3
  <2>5. QED
    BY <1>0, <2>1, <2>3, <2>4
<1>3. QED
  BY <1>1, <1>2

-----------------------------------------------------------------------------
(* Types.                                                                  *)

\* By one of the pumps.
Written(d, f) == \E by \in Dirs : Writes(by, d, f)

LEMMA WritesKeeps ==
    ASSUME TypeInv, NEW d \in Dirs, NEW f \in Frame, Written(d, f)
    PROVE  /\ out' \in [Dirs -> Seq(Frame)] /\ owed' \subseteq Requests
           /\ tail' \in [Dirs -> Seq(Unflushed)]
<1>1. PICK by \in Dirs : Writes(by, d, f)
  BY DEF Written
<1>2. out' \in [Dirs -> Seq(Frame)] /\ owed' \subseteq Requests
  BY <1>1 DEF TypeInv, Writes
<1>3. tail' = [tail EXCEPT ![d] = Append(tail[d], [by |-> by, frame |-> f])]
  BY <1>1 DEF TypeInv, Writes
<1>4. Append(tail[d], [by |-> by, frame |-> f]) \in Seq(Unflushed)
  <2>1. [by |-> by, frame |-> f] \in Unflushed
    BY DEF Unflushed
  <2>2. tail[d] \in Seq(Unflushed)
    BY DEF TypeInv
  <2>3. QED
    BY <2>1, <2>2
<1>5. QED
  BY <1>2, <1>3, <1>4 DEF TypeInv

LEMMA TypeStep == TypeInv /\ HeldInv /\ [Next]_vars => TypeInv'
<1> SUFFICES ASSUME TypeInv, HeldInv, [Next]_vars PROVE TypeInv'
  OBVIOUS
<1>0. \A d \in Dirs : Other(d) \in Dirs
  BY HeldFacts
<1>1. ASSUME NEW m \in Messages, PeerSends(m) PROVE TypeInv'
  <2>1. [frame |-> Message(m), raw |-> Origin(m) \in degraded] \in Items
    BY MessageFacts DEF Items
  <2>2. Append(queue[Origin(m)], [frame |-> Message(m), raw |-> Origin(m) \in degraded]) \in Seq(Items)
    BY <2>1, OriginFacts DEF TypeInv
  <2>3. queue' \in [Dirs -> Seq(Items)]
    BY <1>1, <2>2 DEF PeerSends, Queued, TypeInv
  <2>4. sent' \in [Dirs -> Seq(Messages)]
    BY <1>1, OriginFacts DEF PeerSends, TypeInv
  <2>5. QED
    BY <1>1, <2>3, <2>4 DEF PeerSends, TypeInv, reporter
<1>2. ASSUME NEW r \in Requests, PeerAnswers(r) PROVE TypeInv'
  <2> DEFINE d == Other(Origin(r))
             item == [frame |-> Answer(r, "peer"), raw |-> d \in degraded]
  <2>1. d \in Dirs /\ item \in Items
    BY MessageFacts, OriginFacts, <1>0 DEF Items
  <2>2. queue' = [queue EXCEPT ![d] = Append(@, item)] /\ owed' = owed \ {r}
    BY <1>2 DEF PeerAnswers, Queued
  <2> HIDE DEF d, item
  <2>3. queue' \in [Dirs -> Seq(Items)] /\ owed' \subseteq Requests
    BY <2>1, <2>2 DEF TypeInv
  <2>4. QED
    BY <1>2, <2>3 DEF PeerAnswers, TypeInv, reporter
<1>3. ASSUME NEW d \in Dirs, Degrades(d) PROVE TypeInv'
  BY <1>3 DEF Degrades, TypeInv, peers, reporter
<1>4. ASSUME NEW d \in Dirs, Pump(d) PROVE TypeInv'
  <2> DEFINE item == Head(queue[d])
             f == item.frame
  <2>1. queue[d] \in Seq(Items) /\ queue[d] # << >>
    BY <1>4 DEF TypeInv, Pump
  <2>2. item \in Items /\ Tail(queue[d]) \in Seq(Items)
    BY <2>1
  <2>3. f \in Frame
    BY <2>2 DEF Items
  <2>4. queue' = [queue EXCEPT ![d] = Tail(@)]
        /\ UNCHANGED <<sent, child, degraded, evicted, retries, session>>
    BY <1>4 DEF Pump
  <2>5. queue' \in [Dirs -> Seq(Items)]
    BY <2>2, <2>4 DEF TypeInv
  <2>6. [point |-> "before", frame |-> f] \in Holds /\ [point |-> "after", frame |-> f] \in Holds
    BY <2>3 DEF Holds
  <2>7. \/ Written(d, f) /\ UNCHANGED <<held, pending, node>>
        \/ /\ f.type = "message" /\ node' = [node EXCEPT ![f.id] = "open"]
           /\ Waits(d, f, "before") /\ UNCHANGED <<owed, out, tail, pending>>
        \/ f.type = "answer" /\ pending' = Taken(f.id) /\ Waits(d, f, "after") /\ UNCHANGED <<owed, out, tail, node>>
    BY <1>4 DEF Pump, Written
  <2> HIDE DEF f, item
  <2>8. CASE Written(d, f) /\ UNCHANGED <<held, pending, node>>
    <3>1. out' \in [Dirs -> Seq(Frame)] /\ owed' \subseteq Requests /\ tail' \in [Dirs -> Seq(Unflushed)]
      BY <2>3, <2>8, WritesKeeps
    <3>2. QED
      BY <2>4, <2>5, <2>8, <3>1 DEF TypeInv
  <2>9. CASE /\ f.type = "message" /\ node' = [node EXCEPT ![f.id] = "open"]
             /\ Waits(d, f, "before") /\ UNCHANGED <<owed, out, tail, pending>>
    <3>1. node' \in [Messages -> Status] /\ held' \in [Dirs -> Holds \cup {Nothing}]
      BY <2>6, <2>9 DEF TypeInv, Waits, Status
    <3>2. QED
      BY <2>4, <2>5, <2>9, <3>1 DEF TypeInv
  <2>10. CASE f.type = "answer" /\ pending' = Taken(f.id) /\ Waits(d, f, "after") /\ UNCHANGED <<owed, out, tail, node>>
    <3>1. held' \in [Dirs -> Holds \cup {Nothing}]
      BY <2>6, <2>10 DEF TypeInv, Waits
    <3>2. IsFiniteSet(pending') /\ Cardinality(pending') <= Cardinality(pending) /\ pending' \subseteq pending
      BY <2>10, FS_Subset DEF Taken, TypeInv
    <3>3. Cardinality(pending') \in Nat /\ Cardinality(pending) \in Nat
      BY <3>2, FS_CardinalityType DEF TypeInv
    <3>4. Cardinality(pending') <= MaxPending
      BY <3>2, <3>3, ProxyAssumption DEF TypeInv
    <3>5. QED
      BY <2>4, <2>5, <2>10, <3>1, <3>2, <3>4 DEF TypeInv
  <2>11. QED
    BY <2>7, <2>8, <2>9, <2>10
<1>5. ASSUME NEW d \in Dirs, held[d] # Nothing
      PROVE  /\ held[d].frame \in Frame /\ held[d] \in Holds /\ held[d].frame.id \in Messages
             /\ held[d].frame.type = "answer" => held[d].frame.id \in Requests
  BY <1>5, MessageFacts, HeldFacts DEF TypeInv
<1>6. \A d \in Dirs : held[d].point # "none" => held[d] # Nothing
  BY HeldFacts
<1>7. ASSUME NEW d \in Dirs, GoesOn(d) PROVE held' \in [Dirs -> Holds \cup {Nothing}]
  BY <1>7 DEF GoesOn, TypeInv
<1>8. ASSUME NEW m, NEW st \in Status, Closes(m, st) PROVE node' \in [Messages -> Status]
  BY <1>8 DEF Closes, TypeInv
<1>9. ASSUME NEW d \in Dirs, Continues(d) PROVE TypeInv'
  <2>1. held[d] # Nothing
    BY <1>6, <1>9 DEF Continues, HeldAt
  <2>2. held[d].frame \in Frame
    BY <1>5, <2>1
  <2>3. out' \in [Dirs -> Seq(Frame)] /\ owed' \subseteq Requests /\ tail' \in [Dirs -> Seq(Unflushed)]
    BY <1>9, <2>2, WritesKeeps DEF Continues, Written
  <2>4. held' \in [Dirs -> Holds \cup {Nothing}]
    BY <1>7, <1>9 DEF Continues
  <2>5. UNCHANGED <<sent, child, queue, degraded, retries, session>>
    BY <1>9 DEF Continues
  <2>6. CASE held[d].frame.id \in Requests
    <3>1. Remember(held[d].frame.id) /\ UNCHANGED node
      BY <1>9, <2>6 DEF Continues
    <3>2. /\ pending' \subseteq Requests /\ evicted' \subseteq Requests
          /\ IsFiniteSet(pending') /\ Cardinality(pending') <= MaxPending
      BY <2>6, <3>1, RememberKeeps
    <3>3. QED
      BY <2>3, <2>4, <2>5, <3>1, <3>2 DEF TypeInv
  <2>7. CASE held[d].frame.id \notin Requests
    <3>1. Closes(held[d].frame.id, "ok") /\ UNCHANGED <<pending, evicted>>
      BY <1>9, <2>7 DEF Continues
    <3>2. node' \in [Messages -> Status]
      BY <1>8, <3>1 DEF Status
    <3>3. QED
      BY <2>3, <2>4, <2>5, <3>1, <3>2 DEF TypeInv
  <2>8. QED
    BY <2>6, <2>7
<1>10. ASSUME NEW d \in Dirs, Replies(d) PROVE TypeInv'
  <2>1. held[d].frame \in Frame /\ held[d].frame.id \in Requests
    BY <1>5, <1>6, <1>10 DEF Replies, HeldAt
  <2>2. Answer(held[d].frame.id, "proxy") \in Frame /\ [point |-> "replied", frame |-> held[d].frame] \in Holds
    BY <2>1, MessageFacts DEF Holds
  <2>3. out' \in [Dirs -> Seq(Frame)] /\ owed' \subseteq Requests /\ tail' \in [Dirs -> Seq(Unflushed)]
    BY <1>0, <1>10, <2>2, WritesKeeps DEF Replies, Written
  <2>4. held' \in [Dirs -> Holds \cup {Nothing}]
    BY <1>10, <2>2 DEF Replies, Waits, TypeInv
  <2>5. QED
    BY <1>10, <2>3, <2>4 DEF Replies, TypeInv, reporter
<1>11. ASSUME NEW d \in Dirs, Replied(d) \/ Drops(d) PROVE TypeInv'
  <2>1. held' \in [Dirs -> Holds \cup {Nothing}] /\ node' \in [Messages -> Status]
    BY <1>7, <1>8, <1>11 DEF Replied, Drops, Status
  <2>2. QED
    BY <1>11, <2>1 DEF Replied, Drops, TypeInv, peers
<1>12. ASSUME NEW d \in Dirs, NEW by \in {"peer", "proxy"}, Answers(d, by) PROVE TypeInv'
  <2>1. held[d].frame.id \in Requests
    BY <1>5, <1>6, <1>12 DEF Answers, HeldAt, HeldInv
  <2>2. Answer(held[d].frame.id, by) \in Frame
    BY <2>1, MessageFacts
  <2>3. out' \in [Dirs -> Seq(Frame)] /\ owed' \subseteq Requests /\ tail' \in [Dirs -> Seq(Unflushed)]
    BY <1>12, <2>2, WritesKeeps DEF Answers, Written
  <2>4. held' \in [Dirs -> Holds \cup {Nothing}] /\ node' \in [Messages -> Status]
    BY <1>7, <1>8, <1>12 DEF Answers, Status
  <2>5. QED
    BY <1>12, <2>3, <2>4 DEF Answers, TypeInv
<1>13. ASSUME NEW d \in Dirs, Retries(d) PROVE TypeInv'
  <2>1. held[d].frame.id \in Requests
    BY <1>5, <1>6, <1>13 DEF Retries, HeldAt, HeldInv
  <2>2. Message(held[d].frame.id) \in Frame
    BY <2>1, MessageFacts DEF Messages
  <2>3. out' \in [Dirs -> Seq(Frame)] /\ owed' \subseteq Requests /\ tail' \in [Dirs -> Seq(Unflushed)]
    BY <1>0, <1>13, <2>2, WritesKeeps DEF Retries, Written
  <2>4. held' \in [Dirs -> Holds \cup {Nothing}]
    BY <1>7, <1>13 DEF Retries
  <2>5. /\ pending' \subseteq Requests /\ evicted' \subseteq Requests
        /\ IsFiniteSet(pending') /\ Cardinality(pending') <= MaxPending
    BY <1>13, <2>1, RememberKeeps DEF Retries
  <2>6. retries' \in [Requests -> 0..MaxRetries]
    <3>1. /\ retries' = [retries EXCEPT ![held[d].frame.id] = @ + 1]
          /\ retries[held[d].frame.id] < MaxRetries
      BY <1>13 DEF Retries
    <3>2. retries \in [Requests -> 0..MaxRetries] /\ MaxRetries \in Nat
      BY ProxyAssumption DEF TypeInv
    <3>3. retries[held[d].frame.id] + 1 \in 0..MaxRetries
      BY <2>1, <3>1, <3>2
    <3>4. QED
      BY <3>1, <3>2, <3>3
  <2>7. UNCHANGED <<sent, child, queue, degraded, node, session>>
    BY <1>13 DEF Retries
  <2>8. QED
    BY <2>3, <2>4, <2>5, <2>6, <2>7 DEF TypeInv
<1>14. CASE SessionFinished
  <2>1. pending' = {} /\ IsFiniteSet({}) /\ Cardinality({}) <= MaxPending
    BY <1>14, FS_EmptySet, ProxyAssumption DEF SessionFinished
  <2>2. node' \in [Messages -> Status]
    BY <1>14 DEF SessionFinished, TypeInv, Status
  <2>3. QED
    BY <1>14, <2>1, <2>2 DEF SessionFinished, TypeInv, peers, relays
<1>15. CASE Exits \/ UNCHANGED vars
  BY <1>15 DEF Exits, TypeInv, vars, peers, relays, reporter
<1>16. ASSUME NEW d \in Dirs, Flushes(d) PROVE TypeInv'
  <2>1. tail[d] \in Seq(Unflushed) /\ tail[d] # << >> /\ tail' = [tail EXCEPT ![d] = Tail(@)]
    BY <1>16 DEF Flushes, TypeInv
  <2>2. tail' \in [Dirs -> Seq(Unflushed)]
    BY <2>1 DEF TypeInv
  <2>3. QED
    BY <1>16, <2>2 DEF Flushes, TypeInv, peers, reporter
<1>17. QED
  BY <1>1, <1>2, <1>3, <1>4, <1>9, <1>10, <1>11, <1>12, <1>13, <1>14, <1>15, <1>16 DEF Next, Decides

-----------------------------------------------------------------------------
(* Nodes.                                                                  *)

LEMMA HeldFrame ==
    ASSUME TypeInv, NEW d \in Dirs, held[d] # Nothing
    PROVE  /\ held[d].frame \in Frame /\ held[d].frame.id \in Messages
           /\ held[d].point \in {"before", "replied", "after"}
BY MessageFacts, HeldFacts DEF TypeInv

\* A gate lets go of its message, which is over or awaits its answer now.
LEMMA LettingGo ==
    ASSUME ProxyInv, NEW d \in Dirs, held[d] # Nothing, GoesOn(d),
           NEW m, m = held[d].frame.id,
           UNCHANGED <<queue, sent>>,
           pending \subseteq pending' \cup evicted', evicted \subseteq evicted',
           \/ /\ pending' \subseteq pending
              /\ \E st \in Status \ {"none", "open"} : Closes(m, st)
           \/ /\ pending' \subseteq pending \cup {m} /\ m \in pending'
              /\ UNCHANGED node
    PROVE  NodeInv'
<1>1. m \in Messages /\ node[m] = "open" /\ m \notin pending
  BY HeldFrame DEF ProxyInv, NodeInv, HeldInv
<1>2. /\ node' \in [Messages -> Status]
      /\ \A n \in Messages : n # m => node'[n] = node[n]
      /\ node'[m] # "none" /\ (node'[m] = "open" => m \in pending')
  <2>1. node \in [Messages -> Status]
    BY DEF ProxyInv, TypeInv
  <2>2. CASE UNCHANGED node /\ m \in pending'
    BY <1>1, <2>1, <2>2
  <2>3. ASSUME NEW st \in Status \ {"none", "open"}, node' = [node EXCEPT ![m] = st]
        PROVE  /\ node' \in [Messages -> Status] /\ \A n \in Messages : n # m => node'[n] = node[n]
               /\ node'[m] \notin {"none", "open"}
    BY <1>1, <2>1, <2>3
  <2>4. QED
    BY <2>2, <2>3 DEF Closes
<1>3. held' = [held EXCEPT ![d] = Nothing] /\ held \in [Dirs -> Holds \cup {Nothing}]
  BY DEF GoesOn, ProxyInv, TypeInv
<1>4. QueueInv'
  BY <1>1, <1>2 DEF ProxyInv, NodeInv, QueueInv, At
<1>5. SentInv'
  BY <1>1, <1>2 DEF ProxyInv, NodeInv, SentInv
<1>6. HeldInv'
  <2>1. SUFFICES ASSUME NEW e \in Dirs, held'[e] # Nothing
        PROVE  LET n == held'[e].frame.id IN
               /\ node'[n] = "open" /\ n \notin pending'
               /\ held'[e].point = "before" => held'[e].frame.type = "message"
               /\ held'[e].point = "after" => held'[e].frame.type = "answer"
               /\ held'[Other(e)] # Nothing => held'[Other(e)].frame.id # n
    BY DEF HeldInv
  <2>2. e # d /\ held'[e] = held[e] /\ e = Other(d) /\ held'[d] = Nothing /\ Other(e) = d
    BY <1>3, <2>1, HeldFacts
  <2>3. held[e].frame.id # m /\ held[e].frame.id \in Messages
    BY <2>1, <2>2, HeldFrame DEF ProxyInv, NodeInv, HeldInv
  <2>4. QED
    BY <1>2, <2>1, <2>2, <2>3 DEF ProxyInv, NodeInv, HeldInv
<1>7. PendingInv'
  BY <1>1, <1>2 DEF ProxyInv, NodeInv, PendingInv, TypeInv, Messages
<1>8. OpenInv'
  <2>1. SUFFICES ASSUME NEW n \in Messages, node'[n] = "open"
        PROVE  n \in pending' \cup evicted' \/ \E e \in Dirs : held'[e] # Nothing /\ held'[e].frame.id = n
    BY DEF OpenInv, Holding
  <2>2. CASE n = m
    BY <1>2, <2>1, <2>2
  <2>3. CASE n # m
    <3>1. n \in pending \cup evicted \/ \E e \in Dirs : held[e] # Nothing /\ held[e].frame.id = n
      BY <1>2, <2>1, <2>3 DEF ProxyInv, NodeInv, OpenInv, Holding
    <3>2. \A e \in Dirs : held[e].frame.id = n => held'[e] = held[e]
      BY <1>3, <2>3
    <3>3. QED
      BY <3>1, <3>2
  <2>4. QED
    BY <2>2, <2>3
<1>9. QED
  BY <1>4, <1>5, <1>6, <1>7, <1>8 DEF NodeInv

\* Whatever leaves nodes, gates and the pending requests alone.
LEMMA Elsewhere ==
    ASSUME ProxyInv, UNCHANGED <<queue, sent, node, held, pending, evicted>>
    PROVE  NodeInv'
BY DEF ProxyInv, NodeInv, QueueInv, At, SentInv, HeldInv, PendingInv, OpenInv, Holding

\* A peer's new message, or its answer, at the end of a queue.
LEMMA Arrives ==
    ASSUME ProxyInv, NEW d \in Dirs, NEW item \in Items,
           queue' = [queue EXCEPT ![d] = Append(@, item)],
           UNCHANGED <<node, held, pending, evicted>>,
           \/ item.frame.type = "answer" /\ UNCHANGED sent
           \/ \E m \in Messages :
                 /\ item.frame = Message(m) /\ d = Origin(m) /\ m \notin Range(sent[d])
                 /\ sent' = [sent EXCEPT ![d] = Append(@, m)]
    PROVE  NodeInv'
<1>1. /\ queue \in [Dirs -> Seq(Items)] /\ queue[d] \in Seq(Items) /\ sent[d] \in Seq(Messages)
      /\ sent \in [Dirs -> Seq(Messages)]
  BY DEF ProxyInv, TypeInv
<1>2. \A e \in Dirs : Range(sent[e]) \subseteq Range(sent'[e])
  <2>1. CASE UNCHANGED sent
    BY <2>1
  <2>2. ASSUME NEW m \in Messages, sent' = [sent EXCEPT ![d] = Append(@, m)]
        PROVE  \A e \in Dirs : Range(sent[e]) \subseteq Range(sent'[e])
    <3>1. Range(Append(sent[d], m)) = Range(sent[d]) \cup {m}
      BY <1>1, RangeAppend
    <3>2. QED
      BY <1>1, <2>2, <3>1
  <2>3. QED
    BY <2>1, <2>2
<1>3. /\ DOMAIN queue'[d] = 1..(Len(queue[d]) + 1) /\ DOMAIN queue[d] = 1..Len(queue[d])
      /\ Len(queue[d]) \in Nat
      /\ queue'[d][Len(queue[d]) + 1] = item
      /\ \A i \in DOMAIN queue[d] : queue'[d][i] = queue[d][i]
      /\ \A e \in Dirs : e # d => queue'[e] = queue[e]
  BY <1>1
<1>4. QueueInv'
  <2>1. SUFFICES ASSUME NEW m \in Messages, NEW e \in Dirs, NEW i \in DOMAIN queue'[e],
                        queue'[e][i].frame = Message(m)
        PROVE  /\ e = Origin(m) /\ m \in Range(sent'[e]) /\ node'[m] = "none"
               /\ \A j \in DOMAIN queue'[e] : queue'[e][j].frame = Message(m) => j = i
    BY DEF QueueInv, At
  <2>2. \A j \in DOMAIN queue'[e] : j \in DOMAIN queue[e] \/ (e = d /\ j = Len(queue[d]) + 1)
    BY <1>3
  <2>3. \A j \in DOMAIN queue[e] : queue'[e][j] = queue[e][j]
    BY <1>3
  <2>4. CASE \E k \in DOMAIN queue[e] : queue[e][k].frame = Message(m)
    <3>1. /\ e = Origin(m) /\ m \in Range(sent[e]) /\ node[m] = "none"
          /\ \A j, k \in DOMAIN queue[e] :
                queue[e][j].frame = Message(m) /\ queue[e][k].frame = Message(m) => j = k
      BY <2>4 DEF ProxyInv, NodeInv, QueueInv, At
    <3>2. e = d => item.frame # Message(m)
      <4>1. item.frame.type = "answer" => item.frame # Message(m)
        BY MessageFacts
      <4>2. \A n \in Messages : item.frame = Message(n) /\ n \notin Range(sent[d]) /\ e = d
               => item.frame # Message(m)
        BY <3>1, MessageFacts
      <4>3. QED
        BY <4>1, <4>2
    <3>3. \A j \in DOMAIN queue'[e] : queue'[e][j].frame = Message(m) => j \in DOMAIN queue[e]
      BY <1>3, <2>2, <3>2
    <3>4. \A j \in DOMAIN queue'[e] : queue'[e][j].frame = Message(m) => j = i
      BY <2>1, <2>3, <3>1, <3>3
    <3>5. e = Origin(m) /\ m \in Range(sent'[e]) /\ node'[m] = "none"
      BY <1>2, <3>1
    <3>6. QED
      BY <3>4, <3>5
  <2>5. CASE ~\E k \in DOMAIN queue[e] : queue[e][k].frame = Message(m)
    <3>1. e = d /\ i = Len(queue[d]) + 1 /\ item.frame = Message(m)
      BY <1>3, <2>1, <2>2, <2>3, <2>5
    <3>2. /\ d = Origin(m) /\ m \notin Range(sent[d])
          /\ sent' = [sent EXCEPT ![d] = Append(@, m)]
      BY <3>1, MessageFacts
    <3>3. m \in Range(sent'[d])
      <4>1. Range(Append(sent[d], m)) = Range(sent[d]) \cup {m}
        BY <1>1, RangeAppend
      <4>2. QED
        BY <1>1, <3>2, <4>1
    <3>4. node[m] = "none"
      BY <3>2 DEF ProxyInv, NodeInv, SentInv
    <3>5. QED
      BY <2>2, <2>3, <2>5, <3>1, <3>2, <3>3, <3>4
  <2>6. QED
    BY <2>4, <2>5
<1>5. SentInv'
  BY <1>2, OriginFacts DEF ProxyInv, NodeInv, SentInv
<1>6. HeldInv' /\ PendingInv' /\ OpenInv'
  BY DEF ProxyInv, NodeInv, HeldInv, PendingInv, OpenInv, Holding
<1>7. QED
  BY <1>4, <1>5, <1>6 DEF NodeInv

\* A relay takes up its next frame.
LEMMA PumpKeeps == ASSUME ProxyInv, NEW d \in Dirs, Pump(d) PROVE NodeInv'
<1> DEFINE f == Head(queue[d]).frame
<1>1. /\ queue \in [Dirs -> Seq(Items)] /\ queue[d] \in Seq(Items) /\ queue[d] # << >>
      /\ queue' = [queue EXCEPT ![d] = Tail(@)] /\ UNCHANGED <<sent, evicted>>
      /\ held[d] = Nothing /\ held \in [Dirs -> Holds \cup {Nothing}]
      /\ node \in [Messages -> Status]
  BY DEF ProxyInv, TypeInv, Pump, Idle
<1>2. f \in Frame /\ f.id \in Messages
  <2>1. Head(queue[d]) \in Items
    BY <1>1
  <2>2. QED
    BY <2>1, MessageFacts DEF Items
<1>3. /\ f = queue[d][1].frame /\ 1 \in DOMAIN queue[d] /\ Len(queue[d]) \in Nat
      /\ DOMAIN queue[d] = 1..Len(queue[d]) /\ DOMAIN queue'[d] = 1..(Len(queue[d]) - 1)
      /\ \A i \in DOMAIN queue'[d] : i + 1 \in DOMAIN queue[d] /\ queue'[d][i] = queue[d][i + 1]
      /\ \A e \in Dirs : e # d => queue'[e] = queue[e]
  BY <1>1
<1>4. \/ UNCHANGED <<held, pending, node>>
      \/ /\ f.type = "message" /\ node' = [node EXCEPT ![f.id] = "open"]
         /\ Waits(d, f, "before") /\ UNCHANGED pending
      \/ f.type = "answer" /\ f.id \in pending
         /\ pending' = pending \ {f.id} /\ Waits(d, f, "after") /\ UNCHANGED node
  <2>1. ~Passes(Head(queue[d])) /\ f.type = "answer" => f.id \in pending
    BY DEF Passes
  <2>2. QED
    BY <2>1 DEF Pump, Taken
<1> HIDE DEF f
\* What is left in the queues was there before, and is not this frame.
<1>5. ASSUME NEW m \in Messages, NEW e \in Dirs, NEW i \in DOMAIN queue'[e],
             queue'[e][i].frame = Message(m)
      PROVE  /\ e = Origin(m) /\ m \in Range(sent[e]) /\ node[m] = "none"
             /\ \A j \in DOMAIN queue'[e] : queue'[e][j].frame = Message(m) => j = i
             /\ f # Message(m)
  <2>1. CASE e # d
    <3>0. queue'[e] = queue[e]
      BY <1>3, <2>1
    <3>1. queue'[e] = queue[e] /\ At(e, i, Message(m))
      BY <1>5, <3>0 DEF At
    <3>2. /\ e = Origin(m) /\ m \in Range(sent[e]) /\ node[m] = "none"
          /\ \A j \in DOMAIN queue[e] : At(e, j, Message(m)) => j = i
      BY <1>5, <3>1 DEF ProxyInv, NodeInv, QueueInv, At
    <3>3. f # Message(m)
      BY <1>3, <2>1, <3>2 DEF ProxyInv, NodeInv, QueueInv, At
    <3>4. QED
      BY <3>1, <3>2, <3>3 DEF At
  <2>2. CASE e = d
    <3>1. i + 1 \in DOMAIN queue[d] /\ queue[d][i + 1].frame = Message(m) /\ i \in Nat
      BY <1>3, <1>5, <2>2
    <3>2. /\ e = Origin(m) /\ m \in Range(sent[e]) /\ node[m] = "none"
          /\ \A j \in DOMAIN queue[d] : queue[d][j].frame = Message(m) => j = i + 1
      BY <2>2, <3>1 DEF ProxyInv, NodeInv, QueueInv, At
    <3>3. f # Message(m)
      <4>1. i \in 1..(Len(queue[d]) - 1)
        BY <1>3, <1>5, <2>2
      <4>2. 1 # i + 1
        BY <4>1
      <4>3. QED
        BY <1>3, <3>2, <4>2
    <3>4. ASSUME NEW j \in DOMAIN queue'[e], queue'[e][j].frame = Message(m) PROVE j = i
      <4>1. j + 1 = i + 1
        BY <1>3, <2>2, <3>2, <3>4
      <4>2. j \in Nat /\ i \in Nat
        BY <1>3, <2>2, <3>1, <3>4
      <4>3. QED
        BY <4>1, <4>2
    <3>5. QED
      BY <3>2, <3>3, <3>4
  <2>3. QED
    BY <2>1, <2>2
<1>6. CASE UNCHANGED <<held, pending, node>>
  <2>1. QueueInv'
    BY <1>1, <1>5, <1>6 DEF QueueInv, At
  <2>2. QED
    BY <1>1, <1>6, <2>1 DEF ProxyInv, NodeInv, SentInv, HeldInv, PendingInv, OpenInv, Holding
<1>7. CASE /\ f.type = "message" /\ node' = [node EXCEPT ![f.id] = "open"]
           /\ Waits(d, f, "before") /\ UNCHANGED pending
  <2>1. f = Message(f.id)
    BY <1>2, <1>7, MessageFacts
  <2>2. node[f.id] = "none" /\ d = Origin(f.id) /\ f.id \in Range(sent[d])
    BY <1>2, <1>3, <2>1 DEF ProxyInv, NodeInv, QueueInv, At
  <2>3. /\ node'[f.id] = "open" /\ \A n \in Messages : n # f.id => node'[n] = node[n]
        /\ f.id \notin pending
    BY <1>1, <1>2, <1>7, <2>2 DEF ProxyInv, NodeInv, PendingInv
  <2>4. QueueInv'
    BY <1>1, <1>5, <2>1, <2>3, MessageFacts DEF QueueInv, At
  <2>5. SentInv'
    BY <1>1, <2>2, <2>3 DEF ProxyInv, NodeInv, SentInv
  <2>6. /\ held'[d] = [point |-> "before", frame |-> f]
        /\ \A e \in Dirs : e # d => held'[e] = held[e]
    BY <1>1, <1>7 DEF Waits
  <2>7. HeldInv'
    <3>1. ASSUME NEW e \in Dirs, e # d, held[e] # Nothing
          PROVE  held[e].frame.id # f.id /\ held[e].frame.id \in Messages
      BY <2>2, <3>1, HeldFrame DEF ProxyInv, NodeInv, HeldInv
    <3>2. QED
      BY <1>7, <2>3, <2>6, <3>1, HeldFacts DEF ProxyInv, NodeInv, HeldInv
  <2>8. PendingInv'
    BY <1>7, <2>3 DEF ProxyInv, NodeInv, PendingInv, TypeInv, Messages
  <2>9. OpenInv'
    <3>1. SUFFICES ASSUME NEW n \in Messages, node'[n] = "open"
          PROVE  n \in pending' \cup evicted' \/ \E e \in Dirs : held'[e] # Nothing /\ held'[e].frame.id = n
      BY DEF OpenInv, Holding
    <3>2. held'[d] # Nothing /\ held'[d].frame.id = f.id
      BY <2>6 DEF Nothing
    <3>3. n # f.id => n \in pending \cup evicted \/ \E e \in Dirs : held[e] # Nothing /\ held[e].frame.id = n
      BY <2>3, <3>1 DEF ProxyInv, NodeInv, OpenInv, Holding
    <3>4. QED
      BY <1>1, <1>7, <2>6, <3>2, <3>3
  <2>10. QED
    BY <2>4, <2>5, <2>7, <2>8, <2>9 DEF NodeInv
<1>8. CASE /\ f.type = "answer" /\ f.id \in pending
           /\ pending' = pending \ {f.id} /\ Waits(d, f, "after") /\ UNCHANGED node
  <2>1. QueueInv' /\ SentInv' /\ PendingInv'
    BY <1>1, <1>5, <1>8 DEF QueueInv, At, ProxyInv, NodeInv, SentInv, PendingInv
  <2>2. /\ held'[d] = [point |-> "after", frame |-> f]
        /\ \A e \in Dirs : e # d => held'[e] = held[e]
    BY <1>1, <1>8 DEF Waits
  <2>3. node[f.id] = "open"
    BY <1>8 DEF ProxyInv, NodeInv, PendingInv
  <2>4. HeldInv'
    <3>1. \A e \in Dirs : held[e] # Nothing => held[e].frame.id # f.id
      BY <1>8 DEF ProxyInv, NodeInv, HeldInv
    <3>2. QED
      BY <1>8, <2>2, <2>3, <3>1, HeldFacts DEF ProxyInv, NodeInv, HeldInv
  <2>5. OpenInv'
    <3>1. SUFFICES ASSUME NEW n \in Messages, node'[n] = "open"
          PROVE  n \in pending' \cup evicted' \/ \E e \in Dirs : held'[e] # Nothing /\ held'[e].frame.id = n
      BY DEF OpenInv, Holding
    <3>2. held'[d] # Nothing /\ held'[d].frame.id = f.id
      BY <2>2 DEF Nothing
    <3>3. n \in pending \cup evicted \/ \E e \in Dirs : held[e] # Nothing /\ held[e].frame.id = n
      BY <1>8, <3>1 DEF ProxyInv, NodeInv, OpenInv, Holding
    <3>4. QED
      BY <1>1, <1>8, <2>2, <3>2, <3>3
  <2>6. QED
    BY <2>1, <2>4, <2>5 DEF NodeInv
<1>9. QED
  BY <1>4, <1>6, <1>7, <1>8

LEMMA NodeStep == ProxyInv /\ [Next]_vars => NodeInv'
<1> SUFFICES ASSUME ProxyInv, [Next]_vars PROVE NodeInv'
  OBVIOUS
<1>0. /\ TypeInv /\ HeldInv
      /\ \A d \in Dirs : held[d].point # "none" => held[d] # Nothing
  BY HeldFacts DEF ProxyInv, NodeInv
<1>1. ASSUME NEW m \in Messages, PeerSends(m) PROVE NodeInv'
  <2> DEFINE d == Origin(m)
             item == [frame |-> Message(m), raw |-> d \in degraded]
  <2>1. item \in Items /\ item.frame = Message(m) /\ d \in Dirs
    BY MessageFacts, OriginFacts DEF Items
  <2>2. /\ queue' = [queue EXCEPT ![d] = Append(@, item)]
        /\ UNCHANGED <<node, held, pending, evicted>>
        /\ m \notin Range(sent[d]) /\ sent' = [sent EXCEPT ![d] = Append(@, m)]
    BY <1>1 DEF PeerSends, Queued, reporter
  <2>3. d = Origin(m)
    OBVIOUS
  <2> HIDE DEF item, d
  <2>4. QED
    BY <2>1, <2>2, <2>3, Arrives
<1>2. ASSUME NEW r \in Requests, PeerAnswers(r) PROVE NodeInv'
  <2> DEFINE d == Other(Origin(r))
             item == [frame |-> Answer(r, "peer"), raw |-> d \in degraded]
  <2>1. item \in Items /\ item.frame.type = "answer" /\ d \in Dirs
    BY MessageFacts, OriginFacts, HeldFacts DEF Items
  <2>2. /\ queue' = [queue EXCEPT ![d] = Append(@, item)]
        /\ UNCHANGED <<node, held, pending, evicted, sent>>
    BY <1>2 DEF PeerAnswers, Queued, reporter
  <2> HIDE DEF item, d
  <2>3. QED
    BY <2>1, <2>2, Arrives
<1>3. ASSUME NEW d \in Dirs, Pump(d) PROVE NodeInv'
  BY <1>3, PumpKeeps
<1>4. ASSUME NEW d \in Dirs, Continues(d) PROVE NodeInv'
  <2>1. /\ held[d] # Nothing /\ GoesOn(d) /\ UNCHANGED <<queue, sent>>
    BY <1>0, <1>4 DEF Continues, HeldAt
  <2>2. CASE held[d].frame.id \in Requests
    <3>1. Remember(held[d].frame.id) /\ UNCHANGED node
      BY <1>4, <2>2 DEF Continues
    <3>2. /\ pending \subseteq pending' \cup evicted' /\ evicted \subseteq evicted'
          /\ pending' \subseteq pending \cup {held[d].frame.id} /\ held[d].frame.id \in pending'
      BY <1>0, <2>2, <3>1, RememberKeeps
    <3>3. QED
      BY <2>1, <3>1, <3>2, LettingGo
  <2>3. CASE held[d].frame.id \notin Requests
    <3>1. Closes(held[d].frame.id, "ok") /\ UNCHANGED <<pending, evicted>>
      BY <1>4, <2>3 DEF Continues
    <3>2. "ok" \in Status \ {"none", "open"}
      BY DEF Status
    <3>3. QED
      BY <2>1, <3>1, <3>2, LettingGo
  <2>4. QED
    BY <2>2, <2>3
<1>5. ASSUME NEW d \in Dirs, Replies(d) PROVE NodeInv'
  <2>1. /\ held[d] # Nothing /\ UNCHANGED <<queue, sent, node, pending, evicted>>
        /\ held' = [held EXCEPT ![d] = [point |-> "replied", frame |-> held[d].frame]]
    BY <1>0, <1>5 DEF Replies, HeldAt, Waits, reporter
  <2>2. /\ held'[d].frame = held[d].frame /\ held'[d].point = "replied" /\ held'[d] # Nothing
        /\ \A e \in Dirs : e # d => held'[e] = held[e]
    BY <1>0, <2>1 DEF TypeInv, Nothing
  <2>3. QueueInv' /\ SentInv' /\ PendingInv'
    BY <2>1 DEF ProxyInv, NodeInv, QueueInv, At, SentInv, PendingInv
  <2>4. HeldInv'
    <3>1. \A e \in Dirs : /\ held'[e] # Nothing => held[e] # Nothing
                          /\ held'[e].frame = held[e].frame
                          /\ held'[e].point = held[e].point \/ held'[e].point = "replied"
      BY <2>1, <2>2
    <3>2. QED
      BY <1>0, <2>1, <3>1, HeldFacts DEF HeldInv
  <2>5. OpenInv'
    BY <2>1, <2>2 DEF ProxyInv, NodeInv, OpenInv, Holding
  <2>6. QED
    BY <2>3, <2>4, <2>5 DEF NodeInv
<1>6. ASSUME NEW d \in Dirs, NEW by, Replied(d) \/ Drops(d) \/ Answers(d, by) PROVE NodeInv'
  <2>1. /\ held[d] # Nothing /\ GoesOn(d) /\ UNCHANGED <<queue, sent, pending, evicted>>
        /\ Closes(held[d].frame.id, "answered") \/ Closes(held[d].frame.id, "aborted")
    BY <1>0, <1>6 DEF Replied, Drops, Answers, HeldAt, peers
  <2>2. {"answered", "aborted"} \subseteq Status \ {"none", "open"}
    BY DEF Status
  <2>3. QED
    BY <2>1, <2>2, LettingGo
<1>7. ASSUME NEW d \in Dirs, Retries(d) PROVE NodeInv'
  <2>1. /\ held[d] # Nothing /\ GoesOn(d) /\ UNCHANGED <<queue, sent, node>>
        /\ Remember(held[d].frame.id) /\ held[d].frame.type = "answer"
    BY <1>0, <1>7 DEF Retries, HeldAt, HeldInv
  <2>2. held[d].frame.id \in Requests
    BY <1>0, <2>1, HeldFrame, MessageFacts
  <2>3. /\ pending \subseteq pending' \cup evicted' /\ evicted \subseteq evicted'
        /\ pending' \subseteq pending \cup {held[d].frame.id} /\ held[d].frame.id \in pending'
    BY <1>0, <2>1, <2>2, RememberKeeps
  <2>4. QED
    BY <2>1, <2>3, LettingGo
<1>8. CASE SessionFinished
  <2>1. /\ pending' = {} /\ UNCHANGED <<queue, sent, held, evicted>>
        /\ \A m \in Messages : node'[m] = IF m \in pending THEN "unanswered" ELSE node[m]
    BY <1>8 DEF SessionFinished, peers, relays
  <2>2. \A m \in Messages : node[m] # "open" => node'[m] = node[m]
    BY <2>1 DEF ProxyInv, NodeInv, PendingInv
  <2>3. QueueInv'
    BY <2>1, <2>2 DEF ProxyInv, NodeInv, QueueInv, At
  <2>4. SentInv' /\ PendingInv'
    BY <2>1, <2>2 DEF ProxyInv, NodeInv, SentInv, PendingInv
  <2>5. HeldInv'
    BY <1>0, <2>1, HeldFrame DEF HeldInv
  <2>6. OpenInv'
    BY <2>1 DEF ProxyInv, NodeInv, OpenInv, Holding
  <2>7. QED
    BY <2>3, <2>4, <2>5, <2>6 DEF NodeInv
<1>9. CASE Exits \/ UNCHANGED vars \/ \E d \in Dirs : Degrades(d) \/ Flushes(d)
  <2>1. UNCHANGED <<queue, sent, node, held, pending, evicted>>
    BY <1>9 DEF Exits, Degrades, Flushes, vars, peers, relays, reporter
  <2>2. QED
    BY <2>1, Elsewhere
<1>10. QED
  BY <1>1, <1>2, <1>3, <1>4, <1>5, <1>6, <1>7, <1>8, <1>9 DEF Next, Decides

-----------------------------------------------------------------------------
(* Order: what a sequence holds first.                                     *)

\* Did x come before any y?
Ahead(s, x, y) == \E i \in DOMAIN s : s[i] = x /\ \A j \in 1..i : s[j] # y

LEMMA LeastOf ==
    ASSUME NEW T, T \subseteq Nat, T # {}
    PROVE  \E x \in T : \A y \in T : x <= y
<1> DEFINE R == OpToRel(<, Nat)
<1>1. IsWellFoundedOn(R, Nat)
  BY NatLessThanWellFounded
<1>2. \A x, y \in Nat : x < y => <<x, y>> \in R
  BY DEF OpToRel
<1> HIDE DEF R
<1>3. PICK x \in T : \A y \in T : ~(<<y, x>> \in R)
  BY <1>1, WFMin
<1>4. ASSUME NEW y \in T PROVE x <= y
  <2>1. ~(<<y, x>> \in R) /\ x \in Nat /\ y \in Nat
    BY <1>3
  <2>2. ~(y < x)
    BY <1>2, <2>1
  <2>3. QED
    BY <2>1, <2>2
<1>5. QED
  BY <1>4

LEMMA FirstIs ==
    ASSUME NEW S, NEW s \in Seq(S), NEW x \in Range(s)
    PROVE  /\ First(s, x) \in DOMAIN s /\ s[First(s, x)] = x
           /\ \A j \in 1..(First(s, x) - 1) : s[j] # x
<1> DEFINE T == {i \in DOMAIN s : s[i] = x}
<1>1. T \subseteq Nat /\ T # {} /\ DOMAIN s = 1..Len(s) /\ Len(s) \in Nat
  BY DEF Range
<1>2. PICK i \in T : \A j \in T : i <= j
  BY <1>1, LeastOf
<1>3. i \in DOMAIN s /\ s[i] = x /\ i \in 1..Len(s)
  BY <1>1, <1>2
<1>4. \A j \in 1..(i - 1) : s[j] # x
  <2>1. SUFFICES ASSUME NEW j \in 1..(i - 1), s[j] = x PROVE FALSE
    OBVIOUS
  <2>2. j \in 1..Len(s) /\ ~(i <= j)
    BY <1>3, <1>1
  <2>3. j \in T
    BY <1>1, <2>1, <2>2
  <2>4. QED
    BY <1>2, <2>2, <2>3
<1>5. \E k \in DOMAIN s : s[k] = x /\ \A j \in 1..(k - 1) : s[j] # x
  BY <1>3, <1>4
<1>6. QED
  BY <1>5 DEF First

\* On what a sequence holds, Ahead is the order of the first places.
LEMMA AheadIsFirst ==
    ASSUME NEW S, NEW s \in Seq(S), NEW x \in Range(s), NEW y \in Range(s)
    PROVE  Ahead(s, x, y) <=> First(s, x) < First(s, y)
<1> DEFINE a == First(s, x)
           b == First(s, y)
<1>1. /\ a \in DOMAIN s /\ s[a] = x /\ \A j \in 1..(a - 1) : s[j] # x
      /\ b \in DOMAIN s /\ s[b] = y /\ \A j \in 1..(b - 1) : s[j] # y
  BY FirstIs
<1> HIDE DEF a, b
<1>2. /\ \A i \in DOMAIN s : i \in Nat /\ 1 <= i
      /\ a \in Nat /\ b \in Nat /\ 1 <= a /\ 1 <= b
  BY <1>1
<1>3. ASSUME Ahead(s, x, y) PROVE a < b
  <2>1. PICK i \in DOMAIN s : s[i] = x /\ \A j \in 1..i : s[j] # y
    BY <1>3 DEF Ahead
  <2>2. ~(i < a) /\ i \in Nat /\ 1 <= i
    <3>1. i \in Nat /\ 1 <= i
      BY <1>2
    <3>2. i < a => i \in 1..(a - 1)
      BY <1>2, <3>1
    <3>3. QED
      BY <1>1, <2>1, <3>1, <3>2
  <2>3. ~(b <= i)
    <3>1. b <= i => b \in 1..i
      BY <1>2, <2>2
    <3>2. QED
      BY <1>1, <2>1, <3>1
  <2>4. QED
    BY <1>2, <2>2, <2>3
<1>4. ASSUME a < b PROVE Ahead(s, x, y)
  <2>1. \A j \in 1..a : j \in 1..(b - 1)
    BY <1>2, <1>4
  <2>2. QED
    BY <1>1, <2>1 DEF Ahead
<1>5. QED
  BY <1>3, <1>4 DEF a, b

\* An order, on what is there.
LEMMA AheadOrders ==
    ASSUME NEW S, NEW s \in Seq(S), NEW x, NEW y, Ahead(s, x, y)
    PROVE  x # y /\ x \in Range(s) /\ ~Ahead(s, y, x)
<1>1. PICK i \in DOMAIN s : s[i] = x /\ \A k \in 1..i : s[k] # y
  BY DEF Ahead
<1>2. i \in 1..i /\ i \in Nat /\ 1 <= i
  OBVIOUS
<1>3. x # y /\ x \in Range(s)
  BY <1>1, <1>2 DEF Range
<1>4. ASSUME NEW j \in DOMAIN s, s[j] = y, \A k \in 1..j : s[k] # x PROVE FALSE
  <2>1. j \in Nat /\ 1 <= j
    OBVIOUS
  <2>2. j \in 1..i \/ i \in 1..j
    BY <1>2, <2>1
  <2>3. QED
    BY <1>1, <1>4, <2>2
<1>5. QED
  BY <1>3, <1>4 DEF Ahead

LEMMA AheadAppend ==
    ASSUME NEW S, NEW s \in Seq(S), NEW z \in S, NEW x, NEW y
    PROVE  /\ Ahead(s, x, y) => Ahead(Append(s, z), x, y)
           /\ x \in Range(s) /\ y \notin Range(s) => Ahead(Append(s, z), x, y)
           /\ y \in Range(s) /\ Ahead(Append(s, z), x, y) => Ahead(s, x, y)
<1> DEFINE t == Append(s, z)
<1>1. /\ DOMAIN s = 1..Len(s) /\ DOMAIN t = 1..(Len(s) + 1) /\ Len(s) \in Nat
      /\ \A i \in 1..Len(s) : t[i] = s[i]
      /\ t[Len(s) + 1] = z
  OBVIOUS
<1> HIDE DEF t
<1>2. ASSUME Ahead(s, x, y) PROVE Ahead(t, x, y)
  <2>1. PICK i \in DOMAIN s : s[i] = x /\ \A j \in 1..i : s[j] # y
    BY <1>2 DEF Ahead
  <2>2. i \in DOMAIN t /\ t[i] = x /\ \A j \in 1..i : t[j] = s[j]
    BY <1>1, <2>1
  <2>3. QED
    BY <2>1, <2>2 DEF Ahead
<1>3. ASSUME x \in Range(s), y \notin Range(s) PROVE Ahead(s, x, y)
  <2>1. PICK i \in DOMAIN s : s[i] = x
    BY <1>3 DEF Range
  <2>2. \A j \in 1..i : j \in DOMAIN s
    BY <1>1
  <2>3. QED
    BY <1>3, <2>1, <2>2 DEF Ahead, Range
<1>4. ASSUME y \in Range(s), Ahead(t, x, y) PROVE Ahead(s, x, y)
  <2>1. PICK i \in DOMAIN t : t[i] = x /\ \A j \in 1..i : t[j] # y
    BY <1>4 DEF Ahead
  <2>2. PICK k \in DOMAIN s : s[k] = y
    BY <1>4 DEF Range
  <2>3. i \in 1..(Len(s) + 1) /\ k \in 1..Len(s) /\ t[k] = y
    BY <1>1, <2>2
  <2>4. ~(k <= i)
    <3>1. k <= i => k \in 1..i
      BY <2>3
    <3>2. QED
      BY <2>1, <2>3, <3>1
  <2>5. i \in 1..Len(s)
    BY <1>1, <2>3, <2>4
  <2>6. s[i] = x /\ \A j \in 1..i : t[j] = s[j]
    BY <1>1, <2>1, <2>5
  <2>7. QED
    BY <1>1, <2>1, <2>5, <2>6 DEF Ahead
<1>5. QED
  BY <1>2, <1>3, <1>4 DEF t

-----------------------------------------------------------------------------
(* One direction: what is written, waits at its gate or is queued was      *)
(* sent, and in this order.                                                *)

Waiting(h, m) == h.point = "before" /\ h.frame = Message(m)
Queues(q, m) == \E i \in DOMAIN q : q[i].frame = Message(m)

FlowSent(s, q, h, o) ==
    \A m \in Messages : Message(m) \in Range(o) \/ Waiting(h, m) \/ Queues(q, m) => m \in Range(s)
FlowGate(s, h, o) ==
    \A m, n \in Messages : Message(m) \in Range(o) /\ Waiting(h, n) => Ahead(s, m, n)
FlowBehind(s, q, h, o) ==
    \A m, n \in Messages :
        (Message(m) \in Range(o) \/ Waiting(h, m)) /\ Queues(q, n) => Ahead(s, m, n)
FlowQueue(s, q) ==
    \A m, n \in Messages : \A i, j \in DOMAIN q :
        i < j /\ q[i].frame = Message(m) /\ q[j].frame = Message(n) => Ahead(s, m, n)
FlowOut(s, o) ==
    \A m, n \in Messages :
        Message(m) \in Range(o) /\ Message(n) \in Range(o) /\ Ahead(s, m, n)
            => Ahead(o, Message(m), Message(n))
Flow(s, q, h, o) ==
    /\ FlowSent(s, q, h, o) /\ FlowGate(s, h, o)
    /\ FlowBehind(s, q, h, o) /\ FlowQueue(s, q) /\ FlowOut(s, o)

LEMMA QueuesAppend ==
    ASSUME NEW q \in Seq(Items), NEW item \in Items, NEW m
    PROVE  Queues(Append(q, item), m) <=> Queues(q, m) \/ item.frame = Message(m)
<1>1. /\ DOMAIN Append(q, item) = 1..(Len(q) + 1) /\ DOMAIN q = 1..Len(q) /\ Len(q) \in Nat
      /\ Append(q, item)[Len(q) + 1] = item
      /\ \A i \in 1..Len(q) : Append(q, item)[i] = q[i]
  OBVIOUS
<1>2. QED
  BY <1>1 DEF Queues

LEMMA FlowSends ==
    ASSUME NEW s \in Seq(Messages), NEW q \in Seq(Items), NEW h, NEW o,
           Flow(s, q, h, o), NEW x \in Messages, x \notin Range(s),
           NEW item \in Items, item.frame = Message(x)
    PROVE  Flow(Append(s, x), Append(q, item), h, o)
<1> DEFINE t == Append(s, x)
           p == Append(q, item)
<1>1. /\ Range(t) = Range(s) \cup {x}
      /\ \A m \in Messages : Queues(p, m) <=> Queues(q, m) \/ m = x
      /\ \A m, n : Ahead(s, m, n) => Ahead(t, m, n)
      /\ \A m \in Range(s) : Ahead(t, m, x)
      /\ \A m, n : n \in Range(s) /\ Ahead(t, m, n) => Ahead(s, m, n)
  BY RangeAppend, QueuesAppend, AheadAppend, MessageFacts
<1>2. /\ DOMAIN p = 1..(Len(q) + 1) /\ DOMAIN q = 1..Len(q) /\ Len(q) \in Nat
      /\ p[Len(q) + 1] = item /\ \A i \in 1..Len(q) : p[i] = q[i]
  OBVIOUS
<1> HIDE DEF t, p
<1>3. \A m \in Messages : Message(m) \in Range(o) \/ Waiting(h, m) \/ Queues(q, m) => m \in Range(s)
  BY DEF Flow, FlowSent
<1>4. FlowSent(t, p, h, o)
  BY <1>1, <1>3 DEF FlowSent
<1>5. FlowGate(t, h, o)
  BY <1>1 DEF Flow, FlowGate
<1>6. FlowBehind(t, p, h, o)
  BY <1>1, <1>3 DEF Flow, FlowBehind
<1>7. FlowQueue(t, p)
  <2>1. SUFFICES ASSUME NEW m \in Messages, NEW n \in Messages,
                        NEW i \in DOMAIN p, NEW j \in DOMAIN p,
                        i < j, p[i].frame = Message(m), p[j].frame = Message(n)
        PROVE  Ahead(t, m, n)
    BY DEF FlowQueue
  <2>2. i \in DOMAIN q /\ q[i].frame = Message(m)
    BY <1>2, <2>1
  <2>3. CASE j \in DOMAIN q
    <3>1. q[j].frame = Message(n)
      BY <1>2, <2>1, <2>3
    <3>2. Ahead(s, m, n)
      BY <2>1, <2>2, <2>3, <3>1 DEF Flow, FlowQueue
    <3>3. QED
      BY <1>1, <3>2
  <2>4. CASE j \notin DOMAIN q
    <3>1. p[j] = item
      BY <1>2, <2>4
    <3>2. n = x
      BY <2>1, <3>1, MessageFacts
    <3>3. m \in Range(s)
      BY <1>3, <2>2 DEF Queues
    <3>4. QED
      BY <1>1, <3>2, <3>3
  <2>5. QED
    BY <2>3, <2>4
<1>8. FlowOut(t, o)
  BY <1>1, <1>3 DEF Flow, FlowOut
<1>9. QED
  BY <1>4, <1>5, <1>6, <1>7, <1>8 DEF Flow, t, p

LEMMA FlowQueues ==
    ASSUME NEW s, NEW q \in Seq(Items), NEW h, NEW o, Flow(s, q, h, o),
           NEW item \in Items, item.frame.type = "answer"
    PROVE  Flow(s, Append(q, item), h, o)
<1> DEFINE p == Append(q, item)
<1>1. \A m \in Messages : item.frame # Message(m)
  BY MessageFacts
<1>2. \A m \in Messages : Queues(p, m) <=> Queues(q, m)
  BY <1>1, QueuesAppend
<1>3. /\ DOMAIN p = 1..(Len(q) + 1) /\ DOMAIN q = 1..Len(q) /\ Len(q) \in Nat
      /\ p[Len(q) + 1] = item /\ \A i \in 1..Len(q) : p[i] = q[i]
  OBVIOUS
<1> HIDE DEF p
<1>4. FlowSent(s, p, h, o) /\ FlowBehind(s, p, h, o)
  BY <1>2 DEF Flow, FlowSent, FlowBehind
<1>5. FlowQueue(s, p)
  <2>1. \A i \in DOMAIN p : \A m \in Messages :
           p[i].frame = Message(m) => i \in DOMAIN q /\ q[i].frame = Message(m)
    BY <1>1, <1>3
  <2>2. QED
    BY <2>1 DEF Flow, FlowQueue
<1>6. QED
  BY <1>4, <1>5 DEF Flow, p

LEMMA FlowTakes ==
    ASSUME NEW s, NEW q \in Seq(Items), NEW h, NEW g, NEW o, Flow(s, q, h, o),
           q # << >>, \A m \in Messages : ~Waiting(h, m),
           \A m \in Messages : Waiting(g, m) => Head(q).frame = Message(m)
    PROVE  Flow(s, Tail(q), g, o)
<1> DEFINE p == Tail(q)
<1>1. /\ DOMAIN q = 1..Len(q) /\ DOMAIN p = 1..(Len(q) - 1) /\ Len(q) \in Nat \ {0}
      /\ \A i \in DOMAIN p : p[i] = q[i + 1]
      /\ Head(q) = q[1]
  OBVIOUS
<1> HIDE DEF p
<1>2. /\ \A i \in DOMAIN p : i + 1 \in DOMAIN q /\ 1 < i + 1
      /\ \A i, j \in DOMAIN p : i < j => i + 1 < j + 1
      /\ 1 \in DOMAIN q
  BY <1>1
<1>3. \A m \in Messages : Queues(p, m) => Queues(q, m)
  BY <1>1, <1>2 DEF Queues
<1>4. \A m \in Messages : Waiting(g, m) => Queues(q, m)
  BY <1>1, <1>2 DEF Queues
<1>5. FlowSent(s, p, g, o) /\ FlowGate(s, g, o)
  BY <1>3, <1>4 DEF Flow, FlowSent, FlowGate, FlowBehind
<1>6. FlowQueue(s, p)
  <2>1. SUFFICES ASSUME NEW m \in Messages, NEW n \in Messages,
                        NEW i \in DOMAIN p, NEW j \in DOMAIN p,
                        i < j, p[i].frame = Message(m), p[j].frame = Message(n)
        PROVE  Ahead(s, m, n)
    BY DEF FlowQueue
  <2>2. /\ i + 1 \in DOMAIN q /\ j + 1 \in DOMAIN q /\ i + 1 < j + 1
        /\ q[i + 1].frame = Message(m) /\ q[j + 1].frame = Message(n)
    BY <1>1, <1>2, <2>1
  <2>3. FlowQueue(s, q)
    BY DEF Flow
  <2>4. QED
    BY <2>2, <2>3 DEF FlowQueue
<1>7. FlowBehind(s, p, g, o)
  <2>1. SUFFICES ASSUME NEW m \in Messages, NEW n \in Messages, Queues(p, n),
                        Message(m) \in Range(o) \/ Waiting(g, m)
        PROVE  Ahead(s, m, n)
    BY DEF FlowBehind
  <2>2. CASE Message(m) \in Range(o)
    BY <1>3, <2>1, <2>2 DEF Flow, FlowBehind
  <2>3. CASE Waiting(g, m)
    <3>1. PICK i \in DOMAIN p : p[i].frame = Message(n)
      BY <2>1 DEF Queues
    <3>2. /\ i + 1 \in DOMAIN q /\ 1 \in DOMAIN q /\ 1 < i + 1
          /\ q[i + 1].frame = Message(n) /\ q[1].frame = Message(m)
      BY <1>1, <1>2, <2>3, <3>1
    <3>3. FlowQueue(s, q)
      BY DEF Flow
    <3>4. QED
      BY <3>2, <3>3 DEF FlowQueue
  <2>4. QED
    BY <2>1, <2>2, <2>3
<1>8. QED
  BY <1>5, <1>6, <1>7 DEF Flow, p

\* What waited is written, or what says nothing new.
LEMMA FlowWrites ==
    ASSUME NEW s \in Seq(Messages), NEW q, NEW h, NEW g, NEW o \in Seq(Frame), Flow(s, q, h, o),
           NEW f \in Frame,
           \A m \in Messages : Waiting(g, m) => Waiting(h, m) /\ f # Message(m),
           \A m \in Messages : f = Message(m) => Waiting(h, m) \/ Message(m) \in Range(o)
    PROVE  Flow(s, q, g, Append(o, f))
<1> DEFINE w == Append(o, f)
<1>1. /\ Range(w) = Range(o) \cup {f}
      /\ \A x, y : Ahead(o, x, y) => Ahead(w, x, y)
      /\ \A x \in Range(o) : f \notin Range(o) => Ahead(w, x, f)
      /\ \A m, n \in Messages : Message(m) = Message(n) => m = n
  BY RangeAppend, AheadAppend, MessageFacts
<1> HIDE DEF w
<1>2. \A m \in Messages : Message(m) \in Range(w) => Message(m) \in Range(o) \/ Waiting(h, m)
  BY <1>1
<1>3. \A m, n \in Messages : Waiting(h, m) /\ Waiting(h, n) => m = n
  BY <1>1 DEF Waiting
<1>4. FlowSent(s, q, g, w) /\ FlowBehind(s, q, g, w)
  BY <1>2 DEF Flow, FlowSent, FlowBehind
<1>5. FlowGate(s, g, w)
  <2>1. SUFFICES ASSUME NEW m \in Messages, NEW n \in Messages,
                        Message(m) \in Range(w), Waiting(g, n)
        PROVE  Ahead(s, m, n)
    BY DEF FlowGate
  <2>2. Waiting(h, n) /\ f # Message(n)
    BY <2>1
  <2>3. Message(m) \in Range(o)
    BY <1>1, <1>3, <2>1, <2>2
  <2>4. QED
    BY <2>2, <2>3 DEF Flow, FlowGate
<1>6. FlowOut(s, w)
  <2>1. SUFFICES ASSUME NEW m \in Messages, NEW n \in Messages,
                        Message(m) \in Range(w), Message(n) \in Range(w), Ahead(s, m, n)
        PROVE  Ahead(w, Message(m), Message(n))
    BY DEF FlowOut
  <2>2. CASE Message(m) \in Range(o) /\ Message(n) \in Range(o)
    BY <1>1, <2>1, <2>2 DEF Flow, FlowOut
  <2>3. CASE Message(n) \notin Range(o)
    <3>1. f = Message(n) /\ m # n
      BY <1>1, <2>1, <2>3, AheadOrders
    <3>2. Message(m) \in Range(o)
      BY <1>1, <2>1, <3>1
    <3>3. QED
      BY <1>1, <2>3, <3>1, <3>2
  <2>4. CASE Message(m) \notin Range(o) /\ Message(n) \in Range(o)
    <3>1. Waiting(h, m)
      BY <1>2, <2>1, <2>4
    <3>2. Ahead(s, n, m)
      BY <2>4, <3>1 DEF Flow, FlowGate
    <3>3. QED
      BY <2>1, <3>2, AheadOrders
  <2>5. QED
    BY <2>2, <2>3, <2>4
<1>7. FlowQueue(s, q)
  BY DEF Flow
<1>8. QED
  BY <1>4, <1>5, <1>6, <1>7 DEF Flow, w

LEMMA FlowLets ==
    ASSUME NEW s, NEW q, NEW h, NEW g, NEW o, Flow(s, q, h, o),
           \A m \in Messages : Waiting(g, m) => Waiting(h, m)
    PROVE  Flow(s, q, g, o)
BY DEF Flow, FlowSent, FlowGate, FlowBehind

-----------------------------------------------------------------------------
(* The directions of the proxy, and the ways its requests go.              *)

FlowInv == \A d \in Dirs : Flow(sent[d], queue[d], held[d], out[d])

\* An answer goes the way back of a request that was written.
WasAsked(d, r) == d = Other(Origin(r)) /\ Message(r) \in Range(out[Origin(r)])
OwedInv == \A r \in owed : Message(r) \in Range(out[Origin(r)])
QueuedInv ==
    \A d \in Dirs : \A i \in DOMAIN queue[d] :
        queue[d][i].frame.type = "answer" => WasAsked(d, queue[d][i].frame.id)
GateInv ==
    \A d \in Dirs :
        /\ held[d].point = "before" => d = Origin(held[d].frame.id)
        /\ held[d].point = "after" => WasAsked(d, held[d].frame.id)
RouteInv == OwedInv /\ QueuedInv /\ GateInv
WayInv == ProxyInv /\ FlowInv /\ RouteInv

LEMMA WrittenOut ==
    ASSUME TypeInv, NEW d \in Dirs, NEW f \in Frame, Written(d, f)
    PROVE  /\ out'[d] = Append(out[d], f) /\ \A e \in Dirs : e # d => out'[e] = out[e]
           /\ Range(out'[d]) = Range(out[d]) \cup {f}
           /\ \A e \in Dirs : Range(out[e]) \subseteq Range(out'[e])
           /\ owed \subseteq owed'
           /\ \A r \in owed' \ owed : f = Message(r) /\ r \in Requests
<1>1. out[d] \in Seq(Frame) /\ out \in [Dirs -> Seq(Frame)]
  BY DEF TypeInv
<1>2. out'[d] = Append(out[d], f) /\ \A e \in Dirs : e # d => out'[e] = out[e]
  BY <1>1 DEF Written, Writes
<1>3. Range(Append(out[d], f)) = Range(out[d]) \cup {f}
  BY <1>1, RangeAppend
<1>4. \A e \in Dirs : Range(out[e]) \subseteq Range(out'[e])
  <2>1. SUFFICES ASSUME NEW e \in Dirs PROVE Range(out[e]) \subseteq Range(out'[e])
    OBVIOUS
  <2>2. CASE e = d
    BY <1>2, <1>3, <2>2
  <2>3. CASE e # d
    BY <1>2, <2>3
  <2>4. QED
    BY <2>2, <2>3
<1>5. \/ owed' = owed
      \/ f.type = "message" /\ f.id \in Requests /\ owed' = owed \cup {f.id}
  BY DEF Written, Writes
<1>6. \A r \in owed' \ owed : f = Message(r) /\ r \in Requests
  BY <1>5, MessageFacts
<1>7. QED
  BY <1>2, <1>3, <1>4, <1>5, <1>6

LEMMA WasAskedStays ==
    ASSUME \A e \in Dirs : Range(out[e]) \subseteq Range(out'[e]), NEW d, NEW r, WasAsked(d, r)
    PROVE  WasAsked(d, r)'
BY OriginFacts DEF WasAsked

\* The frame at the head of a queue, and what may be written of it.
LEMMA HeadFacts ==
    ASSUME WayInv, NEW d \in Dirs, queue[d] # << >>, NEW f, f = Head(queue[d]).frame
    PROVE  /\ f \in Frame /\ f.id \in Messages /\ 1 \in DOMAIN queue[d] /\ f = queue[d][1].frame
           /\ f.type = "message" => f = Message(f.id) /\ d = Origin(f.id)
           /\ f.type = "answer" => f.id \in Requests /\ WasAsked(d, f.id)
<1>1. queue[d] \in Seq(Items)
  BY DEF WayInv, ProxyInv, TypeInv
<1>2. Head(queue[d]) \in Items /\ 1 \in DOMAIN queue[d] /\ Head(queue[d]) = queue[d][1]
  BY <1>1
<1>3. f \in Frame
  BY <1>2 DEF Items
<1>4. f.id \in Messages /\ (f.type = "answer" => f.id \in Requests) /\ (f.type = "message" => f = Message(f.id))
  BY <1>3, MessageFacts
<1>5. f.type = "message" => d = Origin(f.id)
  BY <1>2, <1>4 DEF WayInv, ProxyInv, NodeInv, QueueInv, At
<1>6. f.type = "answer" => WasAsked(d, f.id)
  BY <1>2 DEF WayInv, RouteInv, QueuedInv
<1>7. QED
  BY <1>2, <1>3, <1>4, <1>5, <1>6

LEMMA GateFacts ==
    ASSUME WayInv, NEW d \in Dirs
    PROVE  /\ held[d].point = "before" =>
                 /\ held[d].frame = Message(held[d].frame.id) /\ held[d].frame.id \in Messages
                 /\ held[d].frame \in Frame /\ d = Origin(held[d].frame.id)
                 /\ Waiting(held[d], held[d].frame.id)
           /\ held[d].point = "after" =>
                 /\ held[d].frame.id \in Requests /\ held[d].frame \in Frame
                 /\ held[d].frame.type = "answer"
                 /\ WasAsked(d, held[d].frame.id)
<1>1. held[d].point # "none" => held[d] # Nothing
  BY HeldFacts
<1>2. /\ held[d].point = "before" => held[d].frame \in Frame /\ held[d].frame.type = "message"
      /\ held[d].point = "after" => held[d].frame \in Frame /\ held[d].frame.type = "answer"
  BY <1>1, HeldFrame DEF WayInv, ProxyInv, NodeInv, HeldInv
<1>3. QED
  BY <1>2, MessageFacts DEF WayInv, RouteInv, GateInv, Waiting

\* Lets go, or turns to the reply.
Releases(d) == GoesOn(d) \/ Waits(d, held[d].frame, "replied")

LEMMA Released ==
    ASSUME TypeInv, NEW d \in Dirs, Releases(d)
    PROVE  /\ \A e \in Dirs : e # d => held'[e] = held[e]
           /\ held'[d].point \notin {"before", "after"}
           /\ \A m : ~Waiting(held'[d], m)
<1>1. held \in [Dirs -> Holds \cup {Nothing}]
  BY DEF TypeInv
<1>2. \/ held' = [held EXCEPT ![d] = Nothing]
      \/ held' = [held EXCEPT ![d] = [point |-> "replied", frame |-> held[d].frame]]
  BY DEF Releases, GoesOn, Waits
<1>3. /\ \A e \in Dirs : e # d => held'[e] = held[e]
      /\ held'[d] = Nothing \/ held'[d].point = "replied"
  BY <1>1, <1>2
<1>4. QED
  BY <1>3 DEF Nothing, Waiting

\* What a gate lets go of: its own message, an answer on the way back, or
\* once more a request that was written.
MayWrite(d, e, f) ==
    /\ f \in Frame
    /\ \/ /\ f.type = "answer" /\ f.id \in Requests /\ e = Other(Origin(f.id))
          /\ f.id = held[d].frame.id /\ held[d].point \in {"before", "after"}
       \/ f.type = "message" /\ e = d /\ held[d].point = "before" /\ f = held[d].frame
       \/ f.type = "message" /\ e = Other(d) /\ held[d].point = "after" /\ f = Message(held[d].frame.id)

LEMMA GateWrites ==
    ASSUME WayInv, NEW d \in Dirs, NEW e \in Dirs, NEW f, MayWrite(d, e, f),
           Releases(d), Written(e, f), UNCHANGED <<sent, queue>>
    PROVE  FlowInv' /\ RouteInv'
<1>0. /\ TypeInv /\ f \in Frame /\ f.id \in Messages
      /\ \A c \in Dirs : sent[c] \in Seq(Messages) /\ out[c] \in Seq(Frame)
  BY MessageFacts DEF WayInv, ProxyInv, TypeInv, MayWrite
<1>1. /\ \A c \in Dirs : c # d => held'[c] = held[c]
      /\ held'[d].point \notin {"before", "after"} /\ \A m : ~Waiting(held'[d], m)
  BY <1>0, Released
<1>2. /\ out'[e] = Append(out[e], f) /\ \A c \in Dirs : c # e => out'[c] = out[c]
      /\ \A c \in Dirs : Range(out[c]) \subseteq Range(out'[c])
      /\ Range(out'[e]) = Range(out[e]) \cup {f}
      /\ \A r \in owed' \ owed : f = Message(r) /\ r \in Requests
  BY <1>0, WrittenOut
<1>3. \A c \in Dirs, m \in Messages : Waiting(held'[c], m) => Waiting(held[c], m) /\ c # d
  BY <1>1
\* A message that is written waited here, or was written before.
<1>4. ASSUME NEW m \in Messages, f = Message(m)
      PROVE  /\ e = Origin(m)
             /\ (e = d /\ Waiting(held[e], m)) \/ Message(m) \in Range(out[e])
  <2>1. f.type = "message" /\ f.id = m
    BY <1>4, MessageFacts
  <2>2. CASE e = d /\ held[d].point = "before" /\ f = held[d].frame
    BY <1>4, <2>1, <2>2, GateFacts DEF Waiting
  <2>3. CASE e = Other(d) /\ held[d].point = "after" /\ f = Message(held[d].frame.id)
    <3>1. held[d].frame.id = m /\ WasAsked(d, m)
      BY <1>4, <2>1, <2>3, GateFacts, MessageFacts DEF Messages
    <3>2. d = Other(Origin(m)) /\ Message(m) \in Range(out[Origin(m)])
      BY <3>1 DEF WasAsked
    <3>3. e = Origin(m)
      BY <2>3, <3>2, HeldFacts, OriginFacts
    <3>4. QED
      BY <3>2, <3>3
  <2>4. QED
    BY <2>1, <2>2, <2>3 DEF MayWrite
<1>5. FlowInv'
  <2>1. SUFFICES ASSUME NEW c \in Dirs PROVE Flow(sent[c], queue[c], held'[c], out'[c])
    BY DEF FlowInv
  <2>2. Flow(sent[c], queue[c], held[c], out[c])
    BY DEF WayInv, FlowInv
  <2>3. CASE c # e
    <3>1. out'[c] = out[c] /\ \A m \in Messages : Waiting(held'[c], m) => Waiting(held[c], m)
      BY <1>2, <1>3, <2>3
    <3>2. QED
      BY <2>2, <3>1, FlowLets
  <2>4. CASE c = e
    <3>1. \A m \in Messages : f = Message(m) => Waiting(held[c], m) \/ Message(m) \in Range(out[c])
      BY <1>4, <2>4
    <3>2. ASSUME NEW m \in Messages, Waiting(held'[c], m)
          PROVE  Waiting(held[c], m) /\ f # Message(m)
      <4>1. Waiting(held[c], m) /\ c # d
        BY <1>3, <3>2
      <4>2. f = Message(m) => Message(m) \in Range(out[c])
        BY <1>4, <2>4, <4>1
      <4>3. Message(m) \notin Range(out[c])
        BY <1>0, <2>2, <4>1, AheadOrders DEF Flow, FlowGate
      <4>4. QED
        BY <4>1, <4>2, <4>3
    <3>3. Flow(sent[c], queue[c], held'[c], Append(out[c], f))
      BY <1>0, <2>2, <3>1, <3>2, FlowWrites
    <3>4. QED
      BY <1>2, <2>4, <3>3
  <2>5. QED
    BY <2>3, <2>4
<1>6. OwedInv'
  <2>1. SUFFICES ASSUME NEW r \in owed' PROVE Message(r) \in Range(out'[Origin(r)])
    BY DEF OwedInv
  <2>2. CASE r \in owed
    BY <1>2, <2>2, OriginFacts DEF WayInv, RouteInv, OwedInv
  <2>3. CASE r \notin owed
    <3>1. f = Message(r) /\ r \in Messages
      BY <1>2, <2>1, <2>3 DEF Messages
    <3>2. e = Origin(r)
      BY <1>4, <3>1
    <3>3. QED
      BY <1>2, <3>1, <3>2
  <2>4. QED
    BY <2>2, <2>3
<1>7. QueuedInv'
  BY <1>2, WasAskedStays DEF WayInv, RouteInv, QueuedInv
<1>8. GateInv'
  <2>1. SUFFICES ASSUME NEW c \in Dirs
        PROVE  /\ held'[c].point = "before" => c = Origin(held'[c].frame.id)
               /\ held'[c].point = "after" =>
                     c = Other(Origin(held'[c].frame.id)) /\ Message(held'[c].frame.id) \in Range(out'[Origin(held'[c].frame.id)])
    BY DEF GateInv, WasAsked
  <2>2. held'[c].point \in {"before", "after"} => held'[c] = held[c]
    BY <1>1
  <2>3. /\ held[c].point = "before" => c = Origin(held[c].frame.id)
        /\ held[c].point = "after" =>
              c = Other(Origin(held[c].frame.id)) /\ Message(held[c].frame.id) \in Range(out[Origin(held[c].frame.id)])
    BY DEF WayInv, RouteInv, GateInv, WasAsked
  <2>4. \A r : Range(out[Origin(r)]) \subseteq Range(out'[Origin(r)])
    BY <1>2, OriginFacts
  <2>5. QED
    BY <2>2, <2>3, <2>4
<1>9. QED
  BY <1>5, <1>6, <1>7, <1>8 DEF RouteInv

\* A frame joins a queue: a new message, or the answer to a written request.
LEMMA WayArrives ==
    ASSUME WayInv, NEW d \in Dirs, NEW item \in Items,
           queue' = [queue EXCEPT ![d] = Append(@, item)],
           UNCHANGED <<held, out>>, owed' \subseteq owed,
           \/ item.frame.type = "answer" /\ WasAsked(d, item.frame.id) /\ UNCHANGED sent
           \/ \E m \in Messages :
                 /\ item.frame = Message(m) /\ m \notin Range(sent[d])
                 /\ sent' = [sent EXCEPT ![d] = Append(@, m)]
    PROVE  FlowInv' /\ RouteInv'
<1>1. /\ queue \in [Dirs -> Seq(Items)] /\ sent \in [Dirs -> Seq(Messages)]
  BY DEF WayInv, ProxyInv, TypeInv
<1>2. /\ queue'[d] = Append(queue[d], item) /\ \A e \in Dirs : e # d => queue'[e] = queue[e]
      /\ queue[d] \in Seq(Items) /\ sent[d] \in Seq(Messages)
      /\ \A e \in Dirs : e # d => sent'[e] = sent[e]
  BY <1>1
<1>3. FlowInv'
  <2>1. SUFFICES ASSUME NEW e \in Dirs PROVE Flow(sent'[e], queue'[e], held[e], out[e])
    BY DEF FlowInv
  <2>2. Flow(sent[e], queue[e], held[e], out[e])
    BY DEF WayInv, FlowInv
  <2>3. CASE e # d
    BY <1>2, <2>2, <2>3
  <2>4. CASE e = d /\ item.frame.type = "answer" /\ UNCHANGED sent
    BY <1>2, <2>2, <2>4, FlowQueues
  <2>5. ASSUME NEW m \in Messages, e = d, item.frame = Message(m), m \notin Range(sent[d]),
               sent' = [sent EXCEPT ![d] = Append(@, m)]
        PROVE  Flow(sent'[e], queue'[e], held[e], out[e])
    <3>1. sent'[d] = Append(sent[d], m)
      BY <1>1, <2>5
    <3>2. Flow(Append(sent[d], m), Append(queue[d], item), held[d], out[d])
      BY <1>2, <2>2, <2>5, FlowSends
    <3>3. QED
      BY <1>2, <2>5, <3>1, <3>2
  <2>6. QED
    BY <2>3, <2>4, <2>5
<1>4. OwedInv' /\ GateInv'
  BY DEF WayInv, RouteInv, OwedInv, GateInv, WasAsked
<1>5. QueuedInv'
  <2>1. SUFFICES ASSUME NEW e \in Dirs, NEW i \in DOMAIN queue'[e], queue'[e][i].frame.type = "answer"
        PROVE  WasAsked(e, queue'[e][i].frame.id)
    BY DEF QueuedInv, WasAsked
  <2>2. CASE i \in DOMAIN queue[e] /\ queue'[e][i] = queue[e][i]
    BY <2>1, <2>2 DEF WayInv, RouteInv, QueuedInv
  <2>3. CASE e = d /\ queue'[e][i] = item
    <3>1. \A m \in Messages : item.frame # Message(m)
      BY <2>1, <2>3, MessageFacts
    <3>2. QED
      BY <2>3, <3>1
  <2>4. QED
    BY <1>2, <2>2, <2>3
<1>6. QED
  BY <1>3, <1>4, <1>5 DEF RouteInv

\* A relay takes up its next frame: the flow of its direction until then.
LEMMA WayPumps == ASSUME WayInv, NEW d \in Dirs, Pump(d) PROVE FlowInv' /\ RouteInv'
<1> DEFINE f == Head(queue[d]).frame
<1>1. /\ TypeInv /\ queue \in [Dirs -> Seq(Items)] /\ held \in [Dirs -> Holds \cup {Nothing}]
      /\ \A e \in Dirs : sent[e] \in Seq(Messages) /\ out[e] \in Seq(Frame) /\ queue[e] \in Seq(Items)
      /\ queue[d] # << >> /\ held[d] = Nothing /\ UNCHANGED sent
      /\ queue'[d] = Tail(queue[d]) /\ \A e \in Dirs : e # d => queue'[e] = queue[e]
  BY DEF WayInv, ProxyInv, TypeInv, Pump, Idle
<1>2. /\ f \in Frame /\ f.id \in Messages
      /\ f.type = "message" => f = Message(f.id) /\ d = Origin(f.id)
      /\ f.type = "answer" => f.id \in Requests /\ WasAsked(d, f.id)
  BY <1>1, HeadFacts
<1>3. \/ Written(d, f) /\ UNCHANGED held
      \/ f.type = "message" /\ Waits(d, f, "before") /\ UNCHANGED <<owed, out>>
      \/ f.type = "answer" /\ Waits(d, f, "after") /\ UNCHANGED <<owed, out>>
  BY DEF Pump, Written
<1> HIDE DEF f
<1>4. /\ Flow(sent[d], queue[d], held[d], out[d]) /\ \A m : ~Waiting(held[d], m)
      /\ \A m \in Messages : f = Message(m) => Head(queue[d]).frame = Message(m)
  BY <1>1 DEF WayInv, FlowInv, Waiting, Nothing, f
\* What is left in the queues was there before.
<1>5. \A e \in Dirs : \A i \in DOMAIN queue'[e] : \E j \in DOMAIN queue[e] : queue'[e][i] = queue[e][j]
  <2>1. \A i \in DOMAIN queue'[d] : i + 1 \in DOMAIN queue[d] /\ queue'[d][i] = queue[d][i + 1]
    BY <1>1
  <2>2. QED
    BY <1>1, <2>1
<1>6. (\A e \in Dirs : Range(out[e]) \subseteq Range(out'[e])) => QueuedInv'
  BY <1>5, WasAskedStays DEF WayInv, RouteInv, QueuedInv
<1>7. CASE Written(d, f) /\ UNCHANGED held
  <2>1. /\ out'[d] = Append(out[d], f) /\ \A e \in Dirs : e # d => out'[e] = out[e]
        /\ \A e \in Dirs : Range(out[e]) \subseteq Range(out'[e])
        /\ Range(out'[d]) = Range(out[d]) \cup {f}
        /\ \A r \in owed' \ owed : f = Message(r) /\ r \in Requests
    BY <1>1, <1>2, <1>7, WrittenOut
  <2>2. FlowInv'
    <3>1. SUFFICES ASSUME NEW e \in Dirs PROVE Flow(sent[e], queue'[e], held[e], out'[e])
      BY <1>1, <1>7 DEF FlowInv
    <3>2. CASE e # d
      BY <1>1, <2>1, <3>2 DEF WayInv, FlowInv
    <3>3. CASE e = d
      <4> DEFINE g == [point |-> "before", frame |-> f]
      <4>1. \A m \in Messages : Waiting(g, m) <=> f = Message(m)
        BY DEF Waiting
      <4> HIDE DEF g
      <4>2. Flow(sent[d], Tail(queue[d]), g, out[d])
        BY <1>1, <1>4, <4>1, FlowTakes
      <4>3. Flow(sent[d], Tail(queue[d]), held[d], Append(out[d], f))
        BY <1>1, <1>2, <1>4, <4>1, <4>2, FlowWrites
      <4>4. QED
        BY <1>1, <2>1, <3>3, <4>3
    <3>4. QED
      BY <3>2, <3>3
  <2>3. OwedInv'
    <3>1. SUFFICES ASSUME NEW r \in owed' PROVE Message(r) \in Range(out'[Origin(r)])
      BY DEF OwedInv
    <3>2. CASE r \in owed
      BY <2>1, <3>2, OriginFacts DEF WayInv, RouteInv, OwedInv
    <3>3. CASE r \notin owed
      <4>1. f = Message(r) /\ r \in Messages
        BY <2>1, <3>1, <3>3 DEF Messages
      <4>2. d = Origin(r)
        BY <1>2, <4>1, MessageFacts
      <4>3. QED
        BY <2>1, <4>1, <4>2
    <3>4. QED
      BY <3>2, <3>3
  <2>4. GateInv'
    <3>1. SUFFICES ASSUME NEW e \in Dirs
          PROVE  /\ held[e].point = "before" => e = Origin(held[e].frame.id)
                 /\ held[e].point = "after" =>
                       e = Other(Origin(held[e].frame.id)) /\ Message(held[e].frame.id) \in Range(out'[Origin(held[e].frame.id)])
      BY <1>7 DEF GateInv, WasAsked
    <3>2. \A r : Range(out[Origin(r)]) \subseteq Range(out'[Origin(r)])
      BY <2>1, OriginFacts
    <3>3. QED
      BY <3>2 DEF WayInv, RouteInv, GateInv, WasAsked
  <2>5. QED
    BY <1>6, <2>1, <2>2, <2>3, <2>4 DEF RouteInv
<1>8. CASE /\ \/ f.type = "message" /\ Waits(d, f, "before")
              \/ f.type = "answer" /\ Waits(d, f, "after")
           /\ UNCHANGED <<owed, out>>
  <2>1. /\ \A e \in Dirs : e # d => held'[e] = held[e]
        /\ held'[d].frame = f
        /\ \/ held'[d].point = "before" /\ f.type = "message"
           \/ held'[d].point = "after" /\ f.type = "answer"
    BY <1>1, <1>8 DEF Waits
  <2>2. FlowInv'
    <3>1. SUFFICES ASSUME NEW e \in Dirs PROVE Flow(sent[e], queue'[e], held'[e], out[e])
      BY <1>1, <1>8 DEF FlowInv
    <3>2. CASE e # d
      BY <1>1, <2>1, <3>2 DEF WayInv, FlowInv
    <3>3. CASE e = d
      <4>1. \A m \in Messages : Waiting(held'[d], m) => Head(queue[d]).frame = Message(m)
        BY <1>4, <2>1 DEF Waiting
      <4>2. QED
        BY <1>1, <1>4, <3>3, <4>1, FlowTakes
    <3>4. QED
      BY <3>2, <3>3
  <2>3. OwedInv'
    BY <1>8 DEF WayInv, RouteInv, OwedInv
  <2>4. GateInv'
    <3>1. SUFFICES ASSUME NEW e \in Dirs
          PROVE  /\ held'[e].point = "before" => e = Origin(held'[e].frame.id)
                 /\ held'[e].point = "after" =>
                       e = Other(Origin(held'[e].frame.id)) /\ Message(held'[e].frame.id) \in Range(out[Origin(held'[e].frame.id)])
      BY <1>8 DEF GateInv, WasAsked
    <3>2. CASE e = d
      BY <1>2, <2>1, <3>2 DEF WasAsked
    <3>3. CASE e # d
      BY <2>1, <3>3 DEF WayInv, RouteInv, GateInv, WasAsked
    <3>4. QED
      BY <3>2, <3>3
  <2>5. QED
    BY <1>6, <1>8, <2>2, <2>3, <2>4 DEF RouteInv
<1>9. QED
  BY <1>3, <1>7, <1>8

\* Every decision of a gate that writes writes what it may, and every other
\* step writes nothing.
LEMMA Decided ==
    ASSUME WayInv, NEW d \in Dirs, Decides(d)
    PROVE  \/ \E e \in Dirs : \E f :
                 /\ MayWrite(d, e, f) /\ Written(e, f) /\ Releases(d) /\ UNCHANGED <<sent, queue>>
           \/ GoesOn(d) /\ UNCHANGED <<sent, owed, queue, out>>
<1>1. Other(d) \in Dirs
  BY HeldFacts
<1>2. CASE Continues(d)
  <2>1. held[d].point = "before" /\ Written(d, held[d].frame) /\ Releases(d) /\ UNCHANGED <<sent, queue>>
    BY <1>2 DEF Continues, HeldAt, Releases, Written
  <2>2. held[d].frame \in Frame /\ held[d].frame.type = "message"
    BY <2>1, GateFacts, MessageFacts
  <2>3. QED
    BY <2>1, <2>2 DEF MayWrite
<1>3. CASE Replies(d)
  <2> DEFINE r == held[d].frame.id
  <2>1. held[d].point = "before" /\ r \in Requests /\ UNCHANGED <<sent, queue>>
        /\ Written(Other(d), Answer(r, "proxy")) /\ Releases(d)
    BY <1>3 DEF Replies, HeldAt, Releases, Written
  <2>2. d = Origin(r)
    BY <2>1, GateFacts
  <2>3. Answer(r, "proxy") \in Frame /\ Answer(r, "proxy").type = "answer" /\ Answer(r, "proxy").id = r
    BY <2>1, MessageFacts DEF Answer
  <2>4. MayWrite(d, Other(d), Answer(r, "proxy"))
    BY <2>1, <2>2, <2>3 DEF MayWrite
  <2>5. QED
    BY <1>1, <2>1, <2>4
<1>4. ASSUME NEW by \in {"peer", "proxy"}, Answers(d, by)
      PROVE  \E f : MayWrite(d, d, f) /\ Written(d, f) /\ Releases(d) /\ UNCHANGED <<sent, queue>>
  <2> DEFINE r == held[d].frame.id
  <2>1. held[d].point = "after" /\ UNCHANGED <<sent, queue>> /\ Written(d, Answer(r, by)) /\ Releases(d)
    BY <1>4 DEF Answers, HeldAt, Releases, Written
  <2>2. r \in Requests /\ d = Other(Origin(r))
    BY <2>1, GateFacts DEF WasAsked
  <2>3. Answer(r, by) \in Frame /\ Answer(r, by).type = "answer" /\ Answer(r, by).id = r
    BY <2>2, MessageFacts DEF Answer
  <2>4. MayWrite(d, d, Answer(r, by))
    BY <2>1, <2>2, <2>3 DEF MayWrite
  <2>5. QED
    BY <2>1, <2>4
<1>5. CASE Retries(d)
  <2> DEFINE r == held[d].frame.id
  <2>1. held[d].point = "after" /\ UNCHANGED <<sent, queue>> /\ Written(Other(d), Message(r)) /\ Releases(d)
    BY <1>5 DEF Retries, HeldAt, Releases, Written
  <2>2. r \in Requests
    BY <2>1, GateFacts
  <2>3. Message(r) \in Frame /\ Message(r).type = "message"
    BY <2>2, MessageFacts DEF Messages
  <2>4. MayWrite(d, Other(d), Message(r))
    BY <2>1, <2>3 DEF MayWrite
  <2>5. QED
    BY <1>1, <2>1, <2>4
<1>6. CASE Replied(d) \/ Drops(d)
  BY <1>6 DEF Replied, Drops, peers
<1>7. QED
  BY <1>2, <1>3, <1>4, <1>5, <1>6 DEF Decides

LEMMA WayStep == WayInv /\ [Next]_vars => FlowInv' /\ RouteInv'
<1> SUFFICES ASSUME WayInv, [Next]_vars PROVE FlowInv' /\ RouteInv'
  OBVIOUS
<1>0. TypeInv
  BY DEF WayInv, ProxyInv
<1>1. ASSUME NEW m \in Messages, PeerSends(m) PROVE FlowInv' /\ RouteInv'
  <2> DEFINE d == Origin(m)
             item == [frame |-> Message(m), raw |-> d \in degraded]
  <2>1. item \in Items /\ item.frame = Message(m) /\ d \in Dirs
    BY MessageFacts, OriginFacts DEF Items
  <2>2. /\ queue' = [queue EXCEPT ![d] = Append(@, item)]
        /\ UNCHANGED <<held, out>> /\ owed' = owed
        /\ m \notin Range(sent[d]) /\ sent' = [sent EXCEPT ![d] = Append(@, m)]
    BY <1>1 DEF PeerSends, Queued
  <2> HIDE DEF item, d
  <2>3. QED
    BY <2>1, <2>2, WayArrives
<1>2. ASSUME NEW r \in Requests, PeerAnswers(r) PROVE FlowInv' /\ RouteInv'
  <2> DEFINE d == Other(Origin(r))
             item == [frame |-> Answer(r, "peer"), raw |-> d \in degraded]
  <2>0. Answer(r, "peer") \in Frame /\ Answer(r, "peer").type = "answer" /\ Answer(r, "peer").id = r
    BY MessageFacts DEF Answer
  <2>1. /\ item \in Items /\ d \in Dirs
        /\ item.frame.type = "answer" /\ item.frame.id = r
    BY <2>0, OriginFacts, HeldFacts DEF Items
  <2>2. /\ queue' = [queue EXCEPT ![d] = Append(@, item)]
        /\ UNCHANGED <<held, out, sent>> /\ owed' \subseteq owed /\ r \in owed
    BY <1>2 DEF PeerAnswers, Queued
  <2>3. WasAsked(d, r)
    BY <2>2 DEF WayInv, RouteInv, OwedInv, WasAsked
  <2> HIDE DEF item, d
  <2>4. QED
    BY <2>1, <2>2, <2>3, WayArrives
<1>3. ASSUME NEW d \in Dirs, Pump(d) PROVE FlowInv' /\ RouteInv'
  BY <1>3, WayPumps
<1>4. ASSUME NEW d \in Dirs, Decides(d) PROVE FlowInv' /\ RouteInv'
  <2>1. CASE \E e \in Dirs : \E f :
                 /\ MayWrite(d, e, f) /\ Written(e, f) /\ Releases(d) /\ UNCHANGED <<sent, queue>>
    BY <2>1, GateWrites
  <2>2. CASE GoesOn(d) /\ UNCHANGED <<sent, owed, queue, out>>
    <3>1. /\ \A e \in Dirs : e # d => held'[e] = held[e]
          /\ held'[d].point \notin {"before", "after"} /\ \A m : ~Waiting(held'[d], m)
      BY <1>0, <2>2, Released DEF Releases
    <3>2. FlowInv'
      <4>1. SUFFICES ASSUME NEW e \in Dirs PROVE Flow(sent[e], queue[e], held'[e], out[e])
        BY <2>2 DEF FlowInv
      <4>2. \A m \in Messages : Waiting(held'[e], m) => Waiting(held[e], m)
        BY <3>1
      <4>3. QED
        BY <4>2, FlowLets DEF WayInv, FlowInv
    <3>3. OwedInv' /\ QueuedInv'
      BY <2>2 DEF WayInv, RouteInv, OwedInv, QueuedInv, WasAsked
    <3>4. GateInv'
      BY <2>2, <3>1 DEF WayInv, RouteInv, GateInv, WasAsked
    <3>5. QED
      BY <3>2, <3>3, <3>4 DEF RouteInv
  <2>3. QED
    BY <1>4, <2>1, <2>2, Decided
<1>5. CASE Exits \/ SessionFinished \/ UNCHANGED vars \/ \E d \in Dirs : Degrades(d) \/ Flushes(d)
  <2>1. UNCHANGED <<sent, owed, queue, held, out>>
    BY <1>5 DEF Exits, SessionFinished, Degrades, Flushes, vars, peers, relays
  <2>2. QED
    BY <2>1 DEF WayInv, FlowInv, RouteInv, OwedInv, QueuedInv, GateInv, WasAsked
<1>6. QED
  BY <1>1, <1>2, <1>3, <1>4, <1>5 DEF Next

-----------------------------------------------------------------------------
(* Answers: a request is at one place at a time, and has one answer on its *)
(* way, or written, at most.                                               *)

IsAnswer(f, r) == f.type = "answer" /\ f.id = r
Coming(q, r) == {i \in DOMAIN q : IsAnswer(q[i].frame, r)}
Given(o, r) == {i \in DOMAIN o : IsAnswer(o[i], r)}
Single(T) == \A i, j \in T : i = j

\* Before it is sent, queued, at the gate, with the peer that may answer, the
\* answer queued, at its gate, written.
Places == {"nowhere", "asking", "gate", "owed", "coming", "exit", "given"}
Seat(r, p) ==
    LET o == Origin(r)
        d == Other(o)
    IN  \/ p = "nowhere" /\ r \notin Range(sent[o])
        \/ p = "asking" /\ Queues(queue[o], r)
        \/ p = "gate" /\ Waiting(held[o], r)
        \/ p = "owed" /\ r \in owed
        \/ p = "coming" /\ Coming(queue[d], r) # {}
        \/ p = "exit" /\ held[d].point = "after" /\ held[d].frame.id = r
        \/ p = "given" /\ Given(out[d], r) # {}
OneSeat(r) == \A p, q \in Places : Seat(r, p) /\ Seat(r, q) => p = q
OneComing(r) == Single(Coming(queue[Other(Origin(r))], r))
OneGiven(r) == Single(Given(out[Other(Origin(r))], r))
OnceInv == \A r \in Requests : OneSeat(r) /\ OneComing(r) /\ OneGiven(r)

\* A step leaves a request where it is, or takes it from one place to another.
Stays(r) == \A p \in Places : Seat(r, p)' => Seat(r, p)
Moves(r, from, to) ==
    /\ Seat(r, from)
    /\ \A p \in Places : Seat(r, p)' => p = to \/ (p # from /\ Seat(r, p))

LEMMA SeatKept ==
    ASSUME NEW r, OneSeat(r), Stays(r) PROVE OneSeat(r)'
BY DEF OneSeat, Stays

LEMMA SeatMoved ==
    ASSUME NEW r, OneSeat(r), NEW from \in Places, NEW to \in Places, Moves(r, from, to)
    PROVE  OneSeat(r)'
<1>1. \A p \in Places : Seat(r, p)' => p = to
  BY DEF OneSeat, Moves
<1>2. QED
  BY <1>1 DEF OneSeat

LEMMA ComingAppend ==
    ASSUME NEW q \in Seq(Items), NEW item \in Items, NEW r
    PROVE  /\ ~IsAnswer(item.frame, r) => Coming(Append(q, item), r) = Coming(q, r)
           /\ Coming(q, r) = {} => Single(Coming(Append(q, item), r))
<1> DEFINE p == Append(q, item)
<1>1. /\ DOMAIN p = 1..(Len(q) + 1) /\ DOMAIN q = 1..Len(q) /\ Len(q) \in Nat
      /\ p[Len(q) + 1] = item /\ \A i \in 1..Len(q) : p[i] = q[i]
  OBVIOUS
<1> HIDE DEF p
<1>2. \A i \in DOMAIN p : i \in DOMAIN q \/ i = Len(q) + 1
  BY <1>1
<1>3. \A i \in Coming(p, r) : i \in Coming(q, r) \/ (i = Len(q) + 1 /\ IsAnswer(item.frame, r))
  BY <1>1, <1>2 DEF Coming
<1>4. Coming(q, r) \subseteq Coming(p, r)
  BY <1>1 DEF Coming
<1>5. Coming(q, r) = {} => Single(Coming(p, r))
  BY <1>3 DEF Single
<1>6. ~IsAnswer(item.frame, r) => Coming(p, r) = Coming(q, r)
  BY <1>3, <1>4
<1>7. QED
  BY <1>5, <1>6 DEF p

LEMMA GivenAppend ==
    ASSUME NEW o \in Seq(Frame), NEW f \in Frame, NEW r
    PROVE  /\ ~IsAnswer(f, r) => Given(Append(o, f), r) = Given(o, r)
           /\ Given(o, r) = {} => Single(Given(Append(o, f), r))
<1> DEFINE w == Append(o, f)
<1>1. /\ DOMAIN w = 1..(Len(o) + 1) /\ DOMAIN o = 1..Len(o) /\ Len(o) \in Nat
      /\ w[Len(o) + 1] = f /\ \A i \in 1..Len(o) : w[i] = o[i]
  OBVIOUS
<1> HIDE DEF w
<1>2. \A i \in DOMAIN w : i \in DOMAIN o \/ i = Len(o) + 1
  BY <1>1
<1>3. \A i \in Given(w, r) : i \in Given(o, r) \/ (i = Len(o) + 1 /\ IsAnswer(f, r))
  BY <1>1, <1>2 DEF Given
<1>4. Given(o, r) \subseteq Given(w, r)
  BY <1>1 DEF Given
<1>5. Given(o, r) = {} => Single(Given(w, r))
  BY <1>3 DEF Single
<1>6. ~IsAnswer(f, r) => Given(w, r) = Given(o, r)
  BY <1>3, <1>4
<1>7. QED
  BY <1>5, <1>6 DEF w

LEMMA ComingTail ==
    ASSUME NEW q \in Seq(Items), q # << >>, NEW r, Single(Coming(q, r))
    PROVE  /\ Single(Coming(Tail(q), r))
           /\ Coming(Tail(q), r) # {} => Coming(q, r) # {}
           /\ IsAnswer(Head(q).frame, r) => Coming(q, r) # {} /\ Coming(Tail(q), r) = {}
<1> DEFINE p == Tail(q)
<1>1. /\ DOMAIN q = 1..Len(q) /\ DOMAIN p = 1..(Len(q) - 1) /\ Len(q) \in Nat \ {0}
      /\ \A i \in DOMAIN p : p[i] = q[i + 1]
      /\ Head(q) = q[1]
  OBVIOUS
<1> HIDE DEF p
<1>2. /\ \A i \in DOMAIN p : i + 1 \in DOMAIN q /\ i + 1 # 1
      /\ \A i, j \in DOMAIN p : i + 1 = j + 1 => i = j
      /\ 1 \in DOMAIN q
  BY <1>1
<1>3. \A i \in Coming(p, r) : i \in DOMAIN p /\ i + 1 \in Coming(q, r)
  BY <1>1, <1>2 DEF Coming
<1>4. Single(Coming(p, r))
  BY <1>2, <1>3 DEF Single
<1>5. IsAnswer(Head(q).frame, r) => 1 \in Coming(q, r)
  BY <1>1, <1>2 DEF Coming
<1>6. IsAnswer(Head(q).frame, r) => Coming(p, r) = {}
  BY <1>2, <1>3, <1>5 DEF Single
<1>7. QED
  BY <1>3, <1>4, <1>5, <1>6 DEF p

\* No message queues twice.
LEMMA QueuesTail ==
    ASSUME NEW s \in Seq(Messages), NEW q \in Seq(Items), q # << >>, FlowQueue(s, q), NEW m \in Messages
    PROVE  /\ Queues(Tail(q), m) => Queues(q, m)
           /\ Head(q).frame = Message(m) => Queues(q, m) /\ ~Queues(Tail(q), m)
<1> DEFINE p == Tail(q)
<1>1. /\ DOMAIN q = 1..Len(q) /\ DOMAIN p = 1..(Len(q) - 1) /\ Len(q) \in Nat \ {0}
      /\ \A i \in DOMAIN p : p[i] = q[i + 1]
      /\ Head(q) = q[1]
  OBVIOUS
<1> HIDE DEF p
<1>2. /\ \A i \in DOMAIN p : i + 1 \in DOMAIN q /\ 1 < i + 1
      /\ 1 \in DOMAIN q
  BY <1>1
<1>3. Queues(p, m) => \E j \in DOMAIN q : 1 < j /\ q[j].frame = Message(m)
  BY <1>1, <1>2 DEF Queues
<1>4. ASSUME NEW j \in DOMAIN q, 1 < j, q[j].frame = Message(m), Head(q).frame = Message(m)
      PROVE  FALSE
  <2>1. Ahead(s, m, m)
    BY <1>1, <1>2, <1>4 DEF FlowQueue
  <2>2. QED
    BY <2>1, AheadOrders
<1>5. QED
  BY <1>1, <1>2, <1>3, <1>4 DEF Queues, p

LEMMA StaysHow ==
    ASSUME NEW r, NEW o, o = Origin(r), NEW d, d = Other(o),
           r \notin Range(sent'[o]) => r \notin Range(sent[o]),
           Queues(queue'[o], r) => Queues(queue[o], r),
           Waiting(held'[o], r) => Waiting(held[o], r),
           r \in owed' => r \in owed,
           Coming(queue'[d], r) # {} => Coming(queue[d], r) # {},
           held'[d].point = "after" /\ held'[d].frame.id = r => held[d].point = "after" /\ held[d].frame.id = r,
           Given(out'[d], r) # {} => Given(out[d], r) # {}
    PROVE  Stays(r)
BY DEF Stays, Seat

LEMMA MovesHow ==
    ASSUME NEW r, NEW o, o = Origin(r), NEW d, d = Other(o), NEW from, NEW to, Seat(r, from),
           r \notin Range(sent'[o]) => to = "nowhere" \/ (from # "nowhere" /\ r \notin Range(sent[o])),
           Queues(queue'[o], r) => to = "asking" \/ (from # "asking" /\ Queues(queue[o], r)),
           Waiting(held'[o], r) => to = "gate" \/ (from # "gate" /\ Waiting(held[o], r)),
           r \in owed' => to = "owed" \/ (from # "owed" /\ r \in owed),
           Coming(queue'[d], r) # {} => to = "coming" \/ (from # "coming" /\ Coming(queue[d], r) # {}),
           held'[d].point = "after" /\ held'[d].frame.id = r =>
               to = "exit" \/ (from # "exit" /\ held[d].point = "after" /\ held[d].frame.id = r),
           Given(out'[d], r) # {} => to = "given" \/ (from # "given" /\ Given(out[d], r) # {})
    PROVE  Moves(r, from, to)
BY DEF Moves, Seat

\* The seats are few, and a request that is at one of them is at no other.
LEMMA Elsewheres ==
    ASSUME NEW r, OneSeat(r), NEW p \in Places, Seat(r, p), NEW q \in Places, q # p
    PROVE  ~Seat(r, q)
BY DEF OneSeat

Kept(r) == OneSeat(r)' /\ OneComing(r)' /\ OneGiven(r)'

LEMMA OnceSends ==
    ASSUME WayInv, OnceInv, NEW m \in Messages, PeerSends(m), NEW r \in Requests
    PROVE  Kept(r)
<1> DEFINE o == Origin(r)
           d == Other(o)
           e == Origin(m)
           item == [frame |-> Message(m), raw |-> e \in degraded]
<1>0. o \in Dirs /\ d \in Dirs /\ e \in Dirs /\ d # o /\ r \in Messages
  BY OriginFacts, HeldFacts DEF Messages
<1>1. /\ item \in Items /\ item.frame = Message(m)
      /\ queue' = [queue EXCEPT ![e] = Append(@, item)]
      /\ sent' = [sent EXCEPT ![e] = Append(@, m)]
      /\ UNCHANGED <<owed, held, out>> /\ m \notin Range(sent[e])
  BY MessageFacts DEF Items, PeerSends, Queued
<1>2. /\ OneSeat(r) /\ OneComing(r) /\ OneGiven(r)
      /\ queue \in [Dirs -> Seq(Items)] /\ sent \in [Dirs -> Seq(Messages)]
  BY DEF OnceInv, WayInv, ProxyInv, TypeInv
<1>3. e = Origin(m) /\ o = Origin(r) /\ d = Other(o)
  OBVIOUS
<1> HIDE DEF item, e, o, d
<1>4. /\ queue'[e] = Append(queue[e], item) /\ \A c \in Dirs : c # e => queue'[c] = queue[c]
      /\ sent'[e] = Append(sent[e], m) /\ \A c \in Dirs : c # e => sent'[c] = sent[c]
      /\ queue[e] \in Seq(Items) /\ sent[e] \in Seq(Messages)
  BY <1>0, <1>1, <1>2
<1>5. ~IsAnswer(item.frame, r)
  BY <1>1, MessageFacts DEF IsAnswer
<1>6. Coming(queue'[d], r) = Coming(queue[d], r)
  BY <1>0, <1>1, <1>4, <1>5, ComingAppend
<1>7. \A c \in Dirs : Range(sent[c]) \subseteq Range(sent'[c])
  <2>1. Range(sent'[e]) = Range(sent[e]) \cup {m}
    BY <1>4, RangeAppend
  <2>2. QED
    BY <1>4, <2>1
<1>8. OneSeat(r)'
  <2>1. CASE m = r
    <3>1. Seat(r, "nowhere")
      BY <1>1, <1>3, <2>1 DEF Seat
    <3>2. r \in Range(sent'[o])
      <4>1. Range(sent'[e]) = Range(sent[e]) \cup {m} /\ e = o
        BY <1>3, <1>4, <2>1, RangeAppend
      <4>2. QED
        BY <2>1, <4>1
    <3>3. Moves(r, "nowhere", "asking")
      BY <1>1, <1>3, <1>6, <3>1, <3>2, MovesHow
    <3>4. QED
      BY <1>2, <3>3, SeatMoved DEF Places
  <2>2. CASE m # r
    <3>1. Queues(queue'[o], r) => Queues(queue[o], r)
      <4>1. Message(m) # Message(r)
        BY <1>0, <2>2, MessageFacts
      <4>2. QED
        BY <1>0, <1>1, <1>4, <4>1, QueuesAppend
    <3>2. r \notin Range(sent'[o]) => r \notin Range(sent[o])
      BY <1>0, <1>7
    <3>3. Stays(r)
      BY <1>1, <1>3, <1>6, <3>1, <3>2, StaysHow
    <3>4. QED
      BY <1>2, <3>3, SeatKept
  <2>3. QED
    BY <2>1, <2>2
<1>9. OneComing(r)' /\ OneGiven(r)'
  BY <1>1, <1>2, <1>3, <1>6 DEF OneComing, OneGiven
<1>10. QED
  BY <1>8, <1>9 DEF Kept

LEMMA OnceAnswers ==
    ASSUME WayInv, OnceInv, NEW x \in Requests, PeerAnswers(x), NEW r \in Requests
    PROVE  Kept(r)
<1> DEFINE o == Origin(r)
           d == Other(o)
           e == Other(Origin(x))
           item == [frame |-> Answer(x, "peer"), raw |-> e \in degraded]
<1>0. o \in Dirs /\ d \in Dirs /\ e \in Dirs /\ d # o /\ r \in Messages
  BY OriginFacts, HeldFacts DEF Messages
<1>1. Answer(x, "peer") \in Frame /\ Answer(x, "peer").type = "answer" /\ Answer(x, "peer").id = x
  BY MessageFacts DEF Answer
<1>2. /\ item \in Items /\ item.frame = Answer(x, "peer")
      /\ queue' = [queue EXCEPT ![e] = Append(@, item)]
      /\ owed' = owed \ {x} /\ x \in owed /\ UNCHANGED <<sent, held, out>>
  BY <1>1 DEF Items, PeerAnswers, Queued
<1>3. /\ OneSeat(r) /\ OneComing(r) /\ OneGiven(r)
      /\ queue \in [Dirs -> Seq(Items)]
  BY DEF OnceInv, WayInv, ProxyInv, TypeInv
<1>4. e = Other(Origin(x)) /\ o = Origin(r) /\ d = Other(o)
  OBVIOUS
<1> HIDE DEF item, e, o, d
<1>5. /\ queue'[e] = Append(queue[e], item) /\ \A c \in Dirs : c # e => queue'[c] = queue[c]
      /\ queue[e] \in Seq(Items)
  BY <1>0, <1>2, <1>3
<1>6. item.frame # Message(r) /\ (IsAnswer(item.frame, r) <=> x = r)
  BY <1>0, <1>1, <1>2, MessageFacts DEF IsAnswer
<1>7. Queues(queue'[o], r) => Queues(queue[o], r)
  <2>1. CASE o = e
    <3>1. Queues(Append(queue[e], item), r) <=> Queues(queue[e], r) \/ item.frame = Message(r)
      BY <1>2, <1>5, QueuesAppend
    <3>2. QED
      BY <1>5, <1>6, <2>1, <3>1
  <2>2. CASE o # e
    BY <1>0, <1>5, <2>2
  <2>3. QED
    BY <2>1, <2>2
<1>8. CASE x # r
  <2>1. Coming(queue'[d], r) = Coming(queue[d], r)
    BY <1>0, <1>2, <1>5, <1>6, <1>8, ComingAppend
  <2>2. Stays(r)
    BY <1>2, <1>4, <1>7, <2>1, StaysHow
  <2>3. OneComing(r)' /\ OneGiven(r)'
    BY <1>2, <1>3, <1>4, <2>1 DEF OneComing, OneGiven
  <2>4. QED
    BY <1>3, <2>2, <2>3, SeatKept DEF Kept
<1>9. CASE x = r
  <2>1. Seat(r, "owed")
    BY <1>2, <1>9 DEF Seat
  <2>2. ~Seat(r, "coming")
    BY <1>3, <2>1, Elsewheres DEF Places
  <2>3. Coming(queue[d], r) = {}
    BY <1>4, <2>2 DEF Seat
  <2>4. Single(Coming(queue'[d], r))
    BY <1>2, <1>4, <1>5, <1>9, <2>3, ComingAppend
  <2>5. Moves(r, "owed", "coming")
    BY <1>2, <1>4, <1>7, <1>9, <2>1, MovesHow
  <2>6. OneSeat(r)'
    BY <1>3, <2>5, SeatMoved DEF Places
  <2>7. OneComing(r)' /\ OneGiven(r)'
    BY <1>2, <1>3, <1>4, <2>4 DEF OneComing, OneGiven
  <2>8. QED
    BY <2>6, <2>7 DEF Kept
<1>10. QED
  BY <1>8, <1>9

LEMMA OncePumps ==
    ASSUME WayInv, OnceInv, NEW e \in Dirs, Pump(e), NEW r \in Requests
    PROVE  Kept(r)
<1> DEFINE o == Origin(r)
           d == Other(o)
           f == Head(queue[e]).frame
<1>0. o \in Dirs /\ d \in Dirs /\ d # o /\ r \in Messages
  BY OriginFacts, HeldFacts DEF Messages
<1>1. /\ TypeInv /\ queue \in [Dirs -> Seq(Items)] /\ held \in [Dirs -> Holds \cup {Nothing}]
      /\ \A c \in Dirs : sent[c] \in Seq(Messages) /\ out[c] \in Seq(Frame) /\ queue[c] \in Seq(Items)
      /\ queue[e] # << >> /\ held[e] = Nothing /\ UNCHANGED sent
      /\ queue'[e] = Tail(queue[e]) /\ \A c \in Dirs : c # e => queue'[c] = queue[c]
      /\ OneSeat(r) /\ OneComing(r) /\ OneGiven(r)
  BY DEF WayInv, ProxyInv, TypeInv, Pump, Idle, OnceInv
<1>2. /\ f \in Frame /\ f.id \in Messages
      /\ f.type = "message" => f = Message(f.id) /\ e = Origin(f.id)
      /\ f.type = "answer" => f.id \in Requests /\ WasAsked(e, f.id)
  BY <1>1, HeadFacts
<1>3. \/ Written(e, f) /\ UNCHANGED held
      \/ f.type = "message" /\ Waits(e, f, "before") /\ UNCHANGED <<owed, out>>
      \/ f.type = "answer" /\ Waits(e, f, "after") /\ UNCHANGED <<owed, out>>
  BY DEF Pump, Written
<1>4. o = Origin(r) /\ d = Other(o) /\ f = Head(queue[e]).frame
  OBVIOUS
<1> HIDE DEF f, o, d
<1>5. /\ Queues(queue'[o], r) => Queues(queue[o], r)
      /\ o = e /\ f = Message(r) => Queues(queue[o], r) /\ ~Queues(queue'[o], r)
  <2>1. FlowQueue(sent[o], queue[o])
    BY <1>0 DEF WayInv, FlowInv, Flow
  <2>2. CASE o = e
    <3>1. queue[o] \in Seq(Items) /\ queue[o] # << >> /\ sent[o] \in Seq(Messages)
      BY <1>0, <1>1, <2>2
    <3>2. /\ Queues(Tail(queue[o]), r) => Queues(queue[o], r)
          /\ Head(queue[o]).frame = Message(r) => Queues(queue[o], r) /\ ~Queues(Tail(queue[o]), r)
      BY <1>0, <2>1, <3>1, QueuesTail
    <3>3. queue'[o] = Tail(queue[o]) /\ f = Head(queue[o]).frame
      BY <1>1, <1>4, <2>2
    <3>4. QED
      BY <3>2, <3>3
  <2>3. CASE o # e
    BY <1>0, <1>1, <2>3
  <2>4. QED
    BY <2>2, <2>3
<1>6. /\ Single(Coming(queue'[d], r))
      /\ Coming(queue'[d], r) # {} => Coming(queue[d], r) # {}
      /\ d = e /\ IsAnswer(f, r) => Coming(queue[d], r) # {} /\ Coming(queue'[d], r) = {}
  <2>1. Single(Coming(queue[d], r))
    BY <1>1, <1>4 DEF OneComing
  <2>2. CASE d = e
    BY <1>0, <1>1, <1>4, <2>1, <2>2, ComingTail
  <2>3. CASE d # e
    BY <1>0, <1>1, <2>1, <2>3
  <2>4. QED
    BY <2>2, <2>3
\* What is written, and what waits.
<1>7. Written(e, f) =>
         /\ out'[e] = Append(out[e], f) /\ \A c \in Dirs : c # e => out'[c] = out[c]
         /\ \A x \in owed' \ owed : f = Message(x) /\ x \in Requests
  BY <1>1, <1>2, WrittenOut
<1>8. \A point : Waits(e, f, point) =>
         held'[e].point = point /\ held'[e].frame = f /\ \A c \in Dirs : c # e => held'[c] = held[c]
  BY <1>1 DEF Waits
<1>9. CASE f = Message(r)
  <2>1. f.type = "message" /\ e = o
    BY <1>0, <1>2, <1>4, <1>9, MessageFacts
  <2>2. Seat(r, "asking")
    BY <1>4, <1>5, <1>9, <2>1 DEF Seat
  <2>3. CASE Written(e, f) /\ UNCHANGED held
    <3>1. out'[d] = out[d] /\ \A x \in owed' \ owed : x = r
      BY <1>0, <1>7, <1>9, <2>1, <2>3, MessageFacts DEF Messages
    <3>2. ~Queues(queue'[o], r)
      BY <1>5, <1>9, <2>1
    <3>3. Moves(r, "asking", "owed")
      BY <1>1, <1>4, <1>6, <2>2, <2>3, <3>1, <3>2, MovesHow
    <3>4. OneSeat(r)'
      BY <1>1, <3>3, SeatMoved DEF Places
    <3>5. OneComing(r)' /\ OneGiven(r)'
      BY <1>1, <1>4, <1>6, <3>1 DEF OneComing, OneGiven
    <3>6. QED
      BY <3>4, <3>5 DEF Kept
  <2>4. CASE Waits(e, f, "before") /\ UNCHANGED <<owed, out>>
    <3>1. held'[d] = held[d]
      BY <1>0, <1>8, <2>1, <2>4
    <3>2. Moves(r, "asking", "gate")
      BY <1>1, <1>4, <1>5, <1>6, <1>9, <2>1, <2>2, <2>4, <3>1, MovesHow
    <3>3. OneSeat(r)'
      BY <1>1, <3>2, SeatMoved DEF Places
    <3>4. OneComing(r)' /\ OneGiven(r)'
      BY <1>1, <1>4, <1>6, <2>4 DEF OneComing, OneGiven
    <3>5. QED
      BY <3>3, <3>4 DEF Kept
  <2>5. QED
    BY <1>3, <2>1, <2>3, <2>4
<1>10. CASE IsAnswer(f, r)
  <2>1. f.type = "answer" /\ e = d /\ \A m \in Messages : f # Message(m)
    BY <1>2, <1>4, <1>10, MessageFacts DEF IsAnswer, WasAsked
  <2>2. Seat(r, "coming")
    BY <1>4, <1>6, <1>10, <2>1 DEF Seat
  <2>3. CASE Written(e, f) /\ UNCHANGED held
    <3>1. owed' \subseteq owed
      BY <1>7, <2>1, <2>3 DEF Messages
    <3>2. ~Seat(r, "given")
      BY <1>1, <2>2, Elsewheres DEF Places
    <3>3. Given(out[d], r) = {}
      BY <1>4, <3>2 DEF Seat
    <3>4. Single(Given(out'[d], r))
      BY <1>0, <1>1, <1>2, <1>7, <2>1, <2>3, <3>3, GivenAppend
    <3>5. Moves(r, "coming", "given")
      BY <1>1, <1>4, <1>5, <1>6, <1>10, <2>1, <2>2, <2>3, <3>1, MovesHow
    <3>6. OneSeat(r)'
      BY <1>1, <3>5, SeatMoved DEF Places
    <3>7. OneComing(r)' /\ OneGiven(r)'
      BY <1>4, <1>6, <3>4 DEF OneComing, OneGiven
    <3>8. QED
      BY <3>6, <3>7 DEF Kept
  <2>4. CASE Waits(e, f, "after") /\ UNCHANGED <<owed, out>>
    <3>1. held'[o] = held[o]
      BY <1>0, <1>8, <2>1, <2>4
    <3>2. Moves(r, "coming", "exit")
      BY <1>1, <1>4, <1>5, <1>6, <1>10, <2>1, <2>2, <2>4, <3>1, MovesHow
    <3>3. OneSeat(r)'
      BY <1>1, <3>2, SeatMoved DEF Places
    <3>4. OneComing(r)' /\ OneGiven(r)'
      BY <1>1, <1>4, <1>6, <2>4 DEF OneComing, OneGiven
    <3>5. QED
      BY <3>3, <3>4 DEF Kept
  <2>5. QED
    BY <1>3, <2>1, <2>3, <2>4
<1>11. CASE f # Message(r) /\ ~IsAnswer(f, r)
  <2>1. r \in owed' => r \in owed
    BY <1>3, <1>7, <1>11
  <2>2. Given(out'[d], r) = Given(out[d], r)
    <3>1. Given(Append(out[e], f), r) = Given(out[e], r)
      BY <1>1, <1>2, <1>11, GivenAppend
    <3>2. out'[d] = out[d] \/ (d = e /\ out'[e] = Append(out[e], f))
      BY <1>0, <1>3, <1>7
    <3>3. QED
      BY <3>1, <3>2
  <2>3. /\ Waiting(held'[o], r) => Waiting(held[o], r)
        /\ held'[d].point = "after" /\ held'[d].frame.id = r => held[d].point = "after" /\ held[d].frame.id = r
    <3>1. CASE UNCHANGED held
      BY <3>1
    <3>2. CASE f.type = "message" /\ Waits(e, f, "before")
      BY <1>0, <1>8, <1>11, <3>2 DEF Waiting
    <3>3. CASE f.type = "answer" /\ Waits(e, f, "after")
      BY <1>0, <1>8, <1>11, <3>3 DEF Waiting, IsAnswer
    <3>4. QED
      BY <1>3, <3>1, <3>2, <3>3
  <2>4. Stays(r)
    BY <1>1, <1>4, <1>5, <1>6, <2>1, <2>2, <2>3, StaysHow
  <2>5. OneSeat(r)'
    BY <1>1, <2>4, SeatKept
  <2>6. OneComing(r)' /\ OneGiven(r)'
    BY <1>1, <1>4, <1>6, <2>2 DEF OneComing, OneGiven
  <2>7. QED
    BY <2>5, <2>6 DEF Kept
<1>12. QED
  BY <1>9, <1>10, <1>11

LEMMA OnceDecides ==
    ASSUME WayInv, OnceInv, NEW c \in Dirs, NEW e \in Dirs, NEW f, MayWrite(c, e, f),
           Releases(c), Written(e, f), UNCHANGED <<sent, queue>>, NEW r \in Requests
    PROVE  Kept(r)
<1> DEFINE o == Origin(r)
           d == Other(o)
           from == IF held[c].point = "before" THEN "gate" ELSE "exit"
           to == IF f.type = "answer" THEN "given" ELSE "owed"
<1>0. o \in Dirs /\ d \in Dirs /\ d # o /\ r \in Messages /\ f \in Frame
  BY OriginFacts, HeldFacts DEF Messages, MayWrite
<1>1. /\ TypeInv /\ \A b \in Dirs : out[b] \in Seq(Frame)
      /\ OneSeat(r) /\ OneComing(r) /\ OneGiven(r)
  BY DEF WayInv, ProxyInv, TypeInv, OnceInv
<1>2. /\ \A b \in Dirs : b # c => held'[b] = held[b]
      /\ held'[c].point \notin {"before", "after"} /\ \A m : ~Waiting(held'[c], m)
  BY <1>1, Released
<1>3. /\ out'[e] = Append(out[e], f) /\ \A b \in Dirs : b # e => out'[b] = out[b]
      /\ \A x \in owed' \ owed : f = Message(x) /\ x \in Requests
  BY <1>0, <1>1, WrittenOut
<1>4. /\ o = Origin(r) /\ d = Other(o) /\ from \in Places /\ to \in Places
      /\ from \in {"gate", "exit"} /\ to \in {"given", "owed"}
      /\ from = "gate" <=> held[c].point = "before"
      /\ to = "given" <=> f.type = "answer"
  BY DEF Places
<1> HIDE DEF o, d, from, to
\* The message, or the answer, that the gate held.
<1>5. /\ held[c].point \in {"before", "after"} /\ f.id = held[c].frame.id
      /\ f.type \in {"message", "answer"}
      /\ f.type = "message" => f = Message(f.id)
      /\ f.type = "answer" => f.id \in Requests /\ e = Other(Origin(f.id))
  <2>1. held[c].point = "after" => Message(held[c].frame.id).id = held[c].frame.id
    BY GateFacts, MessageFacts DEF Messages
  <2>2. QED
    BY <1>0, <2>1, MessageFacts DEF MayWrite
<1>6. /\ Waiting(held'[o], r) => Waiting(held[o], r)
      /\ held'[d].point = "after" /\ held'[d].frame.id = r => held[d].point = "after" /\ held[d].frame.id = r
  BY <1>0, <1>2
<1>7. CASE f.id = r
  <2>1. /\ from = "gate" => c = o /\ Waiting(held[o], r)
        /\ from = "exit" => c = d /\ held[d].point = "after" /\ held[d].frame.id = r
    BY <1>4, <1>5, <1>7, GateFacts DEF WasAsked
  <2>2. Seat(r, from)
    BY <1>4, <2>1 DEF Seat
  <2>3. /\ from = "gate" => ~Waiting(held'[o], r)
        /\ from = "exit" => held'[d].point # "after"
    BY <1>2, <2>1
  <2>4. r \in owed' => r \in owed \/ to = "owed"
    BY <1>0, <1>3, <1>4, MessageFacts DEF Messages
  <2>5. /\ Single(Given(out'[d], r))
        /\ Given(out'[d], r) # {} => to = "given" \/ Given(out[d], r) # {}
    <3>1. CASE f.type = "answer"
      <4>1. e = d
        BY <1>4, <1>5, <1>7, <3>1
      <4>2. ~Seat(r, "given")
        BY <1>1, <1>4, <2>2, Elsewheres DEF Places
      <4>3. Given(out[d], r) = {}
        BY <1>4, <4>2 DEF Seat
      <4>4. Single(Given(out'[d], r))
        BY <1>0, <1>1, <1>3, <4>1, <4>3, GivenAppend
      <4>5. QED
        BY <1>4, <3>1, <4>4
    <3>2. CASE f.type = "message"
      <4>1. ~IsAnswer(f, r)
        BY <3>2 DEF IsAnswer
      <4>2. Given(out'[d], r) = Given(out[d], r)
        <5>1. Given(Append(out[e], f), r) = Given(out[e], r)
          BY <1>0, <1>1, <4>1, GivenAppend
        <5>2. QED
          BY <1>0, <1>3, <5>1
      <4>3. Single(Given(out[d], r))
        BY <1>1, <1>4 DEF OneGiven
      <4>4. QED
        BY <4>2, <4>3
    <3>3. QED
      BY <1>5, <3>1, <3>2
  <2>6. Moves(r, from, to)
    BY <1>4, <1>6, <2>2, <2>3, <2>4, <2>5, MovesHow
  <2>7. OneSeat(r)'
    BY <1>1, <1>4, <2>6, SeatMoved
  <2>8. OneComing(r)' /\ OneGiven(r)'
    BY <1>1, <1>4, <2>5 DEF OneComing, OneGiven
  <2>9. QED
    BY <2>7, <2>8 DEF Kept
<1>8. CASE f.id # r
  <2>1. r \in owed' => r \in owed
    BY <1>0, <1>3, <1>8, MessageFacts
  <2>2. ~IsAnswer(f, r)
    BY <1>8 DEF IsAnswer
  <2>3. Given(out'[d], r) = Given(out[d], r)
    <3>1. Given(Append(out[e], f), r) = Given(out[e], r)
      BY <1>0, <1>1, <2>2, GivenAppend
    <3>2. QED
      BY <1>0, <1>3, <3>1
  <2>4. Stays(r)
    BY <1>4, <1>6, <2>1, <2>3, StaysHow
  <2>5. OneSeat(r)'
    BY <1>1, <2>4, SeatKept
  <2>6. OneComing(r)' /\ OneGiven(r)'
    BY <1>1, <1>4, <2>3 DEF OneComing, OneGiven
  <2>7. QED
    BY <2>5, <2>6 DEF Kept
<1>9. QED
  BY <1>7, <1>8

LEMMA OnceStep == WayInv /\ OnceInv /\ [Next]_vars => OnceInv'
<1> SUFFICES ASSUME WayInv, OnceInv, [Next]_vars, NEW r \in Requests PROVE Kept(r)
  BY DEF OnceInv, Kept
<1>0. TypeInv /\ OneSeat(r) /\ OneComing(r) /\ OneGiven(r)
  BY DEF WayInv, ProxyInv, OnceInv
<1>1. ASSUME NEW d \in Dirs, Decides(d) PROVE Kept(r)
  <2>1. CASE \E e \in Dirs : \E f :
                 /\ MayWrite(d, e, f) /\ Written(e, f) /\ Releases(d) /\ UNCHANGED <<sent, queue>>
    BY <2>1, OnceDecides
  <2>2. CASE GoesOn(d) /\ UNCHANGED <<sent, owed, queue, out>>
    <3> DEFINE o == Origin(r)
    <3>1. o \in Dirs /\ Other(o) \in Dirs
      BY OriginFacts, HeldFacts
    <3>2. /\ \A e \in Dirs : e # d => held'[e] = held[e]
          /\ held'[d].point \notin {"before", "after"} /\ \A m : ~Waiting(held'[d], m)
      BY <1>0, <2>2, Released DEF Releases
    <3>3. /\ Waiting(held'[o], r) => Waiting(held[o], r)
          /\ held'[Other(o)].point = "after" => held'[Other(o)] = held[Other(o)]
      BY <3>1, <3>2
    <3>4. Stays(r)
      BY <2>2, <3>3, StaysHow
    <3>5. OneSeat(r)'
      BY <1>0, <3>4, SeatKept
    <3>6. OneComing(r)' /\ OneGiven(r)'
      BY <1>0, <2>2 DEF OneComing, OneGiven
    <3>7. QED
      BY <3>5, <3>6 DEF Kept
  <2>3. QED
    BY <1>1, <2>1, <2>2, Decided
<1>2. CASE Exits \/ SessionFinished \/ UNCHANGED vars \/ \E d \in Dirs : Degrades(d) \/ Flushes(d)
  <2>1. UNCHANGED <<sent, owed, queue, held, out>>
    BY <1>2 DEF Exits, SessionFinished, Degrades, Flushes, vars, peers, relays
  <2>2. QED
    BY <1>0, <2>1 DEF Kept, OneSeat, Seat, OneComing, OneGiven
<1>3. QED
  BY <1>1, <1>2, OnceSends, OnceAnswers, OncePumps DEF Next

-----------------------------------------------------------------------------
(* Theorems.                                                               *)

LEMMA ProxyStarts == Init => ProxyInv
<1> SUFFICES ASSUME Init PROVE ProxyInv
  OBVIOUS
<1>1. TypeInv
  <2>1. << >> \in Seq(Messages) /\ << >> \in Seq(Frame) /\ << >> \in Seq(Items) /\ << >> \in Seq(Unflushed)
    OBVIOUS
  <2>2. IsFiniteSet({}) /\ Cardinality({}) <= MaxPending
    BY FS_EmptySet, ProxyAssumption
  <2>3. QED
    BY <2>1, <2>2, ProxyAssumption DEF Init, TypeInv, Status
<1>2. /\ \A d \in Dirs : queue[d] = << >> /\ held[d] = Nothing
      /\ pending = {} /\ \A m \in Messages : node[m] = "none"
  BY DEF Init
<1>3. NodeInv
  BY <1>2 DEF NodeInv, QueueInv, At, SentInv, HeldInv, PendingInv, OpenInv
<1>4. QED
  BY <1>1, <1>3 DEF ProxyInv

LEMMA ProxyInvHolds == Spec => []ProxyInv
<1>1. ProxyInv /\ [Next]_vars => ProxyInv'
  BY TypeStep, NodeStep DEF ProxyInv, NodeInv
<1>2. QED
  BY <1>1, ProxyStarts, PTL DEF Spec

LEMMA OnceStarts == Init => WayInv /\ OnceInv
<1> SUFFICES ASSUME Init PROVE WayInv /\ OnceInv
  OBVIOUS
<1>1. /\ owed = {}
      /\ \A d \in Dirs : /\ sent[d] = << >> /\ out[d] = << >>
                         /\ queue[d] = << >> /\ held[d] = Nothing
  BY DEF Init
<1>2. /\ Range(<< >>) = {} /\ \A m : ~Queues(<< >>, m) /\ ~Waiting(Nothing, m)
      /\ \A r : Coming(<< >>, r) = {} /\ Given(<< >>, r) = {}
  BY DEF Range, Queues, Waiting, Nothing, Coming, Given
<1>3. ProxyInv
  BY ProxyStarts
<1>4. FlowInv
  <2>1. Flow(<< >>, << >>, Nothing, << >>)
    BY <1>2 DEF Flow, FlowSent, FlowGate, FlowBehind, FlowQueue, FlowOut
  <2>2. QED
    BY <1>1, <2>1 DEF FlowInv
<1>5. RouteInv
  BY <1>1 DEF RouteInv, OwedInv, QueuedInv, GateInv, Nothing
<1>6. ASSUME NEW r \in Requests PROVE OneSeat(r) /\ OneComing(r) /\ OneGiven(r)
  <2>1. Origin(r) \in Dirs /\ Other(Origin(r)) \in Dirs
    BY OriginFacts, HeldFacts
  <2>2. Single({})
    BY DEF Single
  <2>3. \A p : Seat(r, p) => p = "nowhere"
    BY <1>1, <1>2, <2>1 DEF Seat, Nothing
  <2>4. QED
    BY <1>1, <1>2, <2>1, <2>2, <2>3 DEF OneSeat, OneComing, OneGiven
<1>7. QED
  BY <1>3, <1>4, <1>5, <1>6 DEF WayInv, OnceInv

LEMMA WayInvHolds == Spec => [](WayInv /\ OnceInv)
<1>1. WayInv /\ OnceInv /\ [Next]_vars => (WayInv /\ OnceInv)'
  BY TypeStep, NodeStep, WayStep, OnceStep DEF WayInv, ProxyInv, NodeInv
<1>2. QED
  BY <1>1, OnceStarts, PTL DEF Spec

\* Every reachable state is well typed, and the requests waiting for an answer
\* stay within MAX_PENDING (remember), however many are made or sent again.
THEOREM TypeCorrect == Spec => []TypeOK
<1>1. ProxyInv => TypeOK
  <2> SUFFICES ASSUME TypeInv PROVE TypeOK
    BY DEF ProxyInv
  <2>1. \A d \in Dirs :
           \/ held[d] = Nothing
           \/ held[d].frame \in Frame /\ held[d].point \in {"before", "replied", "after"}
    BY HeldFacts DEF TypeInv
  <2>2. \A d \in Dirs : queue[d] \in Seq([frame : Frame, raw : BOOLEAN])
    BY DEF TypeInv, Items
  <2>3. \A d \in Dirs : tail[d] \in Seq([by : Dirs, frame : Frame])
    BY DEF TypeInv, Unflushed
  <2>4. QED
    BY <2>1, <2>2, <2>3 DEF TypeInv, TypeOK, Status
<1>2. QED
  BY <1>1, ProxyInvHolds, PTL

\* No node is left open with nobody to close it: it waits for its answer, is
\* held at a gate, or was the one that made room at the cap; and what waits
\* for an answer is open and held by no gate (onRequest, onResponse, remember).
THEOREM NobodyIsForgotten == Spec => []OpenIsAccountedFor
<1>1. ProxyInv => OpenIsAccountedFor
  BY DEF ProxyInv, NodeInv, OpenInv, PendingInv, HeldInv, OpenIsAccountedFor, Holding
<1>2. QED
  BY <1>1, ProxyInvHolds, PTL

\* A node that ended stays as it ended, and a run that is over gets no new one
\* (handleFrame passes everything once the session is over).
THEOREM EndsOnce == Spec => NodesEndOnce
<1>1. ASSUME ProxyInv, [Next]_vars, NEW m \in Messages
      PROVE  /\ node[m] \notin {"none", "open"} => node'[m] = node[m]
             /\ session = "over" /\ node[m] = "none" => node'[m] = "none"
  <2>0. node \in [Messages -> Status]
    BY <1>1 DEF ProxyInv, TypeInv
  <2>1. ASSUME NEW d \in Dirs, Pump(d) PROVE
             /\ node[m] \notin {"none", "open"} => node'[m] = node[m]
             /\ session = "over" /\ node[m] = "none" => node'[m] = "none"
    <3> DEFINE f == Head(queue[d]).frame
    <3>1. CASE UNCHANGED node
      BY <3>1
    <3>2. CASE session # "over" /\ f.type = "message" /\ node' = [node EXCEPT ![f.id] = "open"]
      <4>1. queue[d] \in Seq(Items) /\ queue[d] # << >>
        BY <1>1, <2>1 DEF ProxyInv, TypeInv, Pump
      <4>2. Head(queue[d]) \in Items /\ 1 \in DOMAIN queue[d] /\ Head(queue[d]) = queue[d][1]
        BY <4>1
      <4>3. f \in Frame
        BY <4>2 DEF Items
      <4>4. f = Message(f.id) /\ f.id \in Messages
        BY <3>2, <4>3, MessageFacts
      <4>5. node[f.id] = "none"
        BY <1>1, <4>2, <4>4 DEF ProxyInv, NodeInv, QueueInv, At
      <4>6. QED
        BY <2>0, <3>2, <4>4, <4>5
    <3>3. QED
      BY <2>1, <3>1, <3>2 DEF Pump, Passes
  <2>2. ASSUME NEW d \in Dirs, NEW st, held[d] # Nothing, Closes(held[d].frame.id, st) PROVE
             /\ node[m] \notin {"none", "open"} => node'[m] = node[m]
             /\ session = "over" /\ node[m] = "none" => node'[m] = "none"
    <3>1. node[held[d].frame.id] = "open"
      BY <1>1, <2>2 DEF ProxyInv, NodeInv, HeldInv
    <3>2. QED
      BY <2>0, <2>2, <3>1 DEF Closes
  <2>3. CASE SessionFinished
    <3>1. node'[m] = IF m \in pending THEN "unanswered" ELSE node[m]
      BY <2>3 DEF SessionFinished
    <3>2. session # "over" /\ (m \in pending => node[m] = "open")
      BY <1>1, <2>3 DEF SessionFinished, InSession, ProxyInv, NodeInv, PendingInv
    <3>3. QED
      BY <3>1, <3>2
  <2>4. \/ UNCHANGED node \/ SessionFinished \/ \E d \in Dirs : Pump(d)
        \/ \E d \in Dirs, st \in Status : held[d].point # "none" /\ Closes(held[d].frame.id, st)
    <3>1. ASSUME NEW d \in Dirs, Decides(d)
          PROVE  \/ UNCHANGED node
                 \/ \E st \in Status : held[d].point # "none" /\ Closes(held[d].frame.id, st)
      BY <3>1 DEF Decides, reporter, Continues, Replies, Replied, Drops, Answers, Retries, HeldAt, Status
    <3>2. CASE UNCHANGED vars \/ Exits \/ (\E x \in Messages : PeerSends(x))
               \/ (\E r \in Requests : PeerAnswers(r)) \/ (\E d \in Dirs : Degrades(d) \/ Flushes(d))
      BY <3>2 DEF vars, reporter, PeerSends, PeerAnswers, Degrades, Flushes, Exits
    <3>3. QED
      BY <1>1, <3>1, <3>2 DEF Next
  <2>5. \A d \in Dirs : held[d].point # "none" => held[d] # Nothing
    BY HeldFacts
  <2>6. QED
    BY <2>1, <2>2, <2>3, <2>4, <2>5
<1>2. ProxyInv /\ [Next]_vars => [\A m \in Messages :
          /\ node[m] \notin {"none", "open"} => node'[m] = node[m]
          /\ session = "over" /\ node[m] = "none" => node'[m] = "none"]_vars
  BY <1>1
<1>3. QED
  BY <1>2, ProxyInvHolds, PTL DEF Spec, NodesEndOnce

\* What a relay writes arrives in the order it was sent, for every number of
\* messages, and whatever is held, dropped, answered in its place or sent again
\* (relayOne, FrameWriter).
THEOREM RelayedInOrder == Spec => []InOrder
<1>1. ASSUME WayInv PROVE InOrder
  <2>1. SUFFICES ASSUME NEW d \in Dirs, NEW m \in Range(sent[d]), NEW n \in Range(sent[d]),
                        First(sent[d], m) < First(sent[d], n),
                        Message(n) \in Range(out[d]), Message(m) \in Range(out[d])
        PROVE  First(out[d], Message(m)) < First(out[d], Message(n))
    BY DEF InOrder
  <2>2. sent[d] \in Seq(Messages) /\ out[d] \in Seq(Frame)
    BY <1>1 DEF WayInv, ProxyInv, TypeInv
  <2>3. m \in Messages /\ n \in Messages
    BY <2>1, <2>2 DEF Range
  <2>4. Ahead(sent[d], m, n)
    BY <2>1, <2>2, AheadIsFirst
  <2>5. FlowOut(sent[d], out[d])
    BY <1>1, <2>1 DEF WayInv, FlowInv, Flow
  <2>6. Ahead(out[d], Message(m), Message(n))
    BY <2>1, <2>3, <2>4, <2>5 DEF FlowOut
  <2>7. QED
    BY <2>1, <2>2, <2>6, AheadIsFirst
<1>2. QED
  BY <1>1, WayInvHolds, PTL

\* One answer at most is written for a request, the peer's or the operator's,
\* however often it was sent again (applyRequestDecision, applyResponseDecision).
THEOREM AnsweredOnce == Spec => []OneAnswer
<1>1. ASSUME OnceInv PROVE OneAnswer
  <2>1. SUFFICES ASSUME NEW r \in Requests
        PROVE  Cardinality({i \in DOMAIN out[Other(Origin(r))] :
                               out[Other(Origin(r))][i].type = "answer" /\ out[Other(Origin(r))][i].id = r}) <= 1
    BY DEF OneAnswer
  <2> DEFINE T == {i \in DOMAIN out[Other(Origin(r))] :
                      out[Other(Origin(r))][i].type = "answer" /\ out[Other(Origin(r))][i].id = r}
  <2>2. \A i, j \in T : i = j
    BY <1>1 DEF OnceInv, OneGiven, Single, Given, IsAnswer
  <2> HIDE DEF T
  <2>3. CASE T = {}
    BY <2>3, FS_EmptySet DEF T
  <2>4. ASSUME NEW i \in T PROVE Cardinality(T) <= 1
    <3>1. T = {i}
      BY <2>2, <2>4
    <3>2. Cardinality({i}) = 1
      BY FS_Singleton
    <3>3. QED
      BY <3>1, <3>2
  <2>5. QED
    BY <2>3, <2>4 DEF T
<1>2. QED
  BY <1>1, WayInvHolds, PTL
=============================================================================
