------------------------- MODULE ViewerSync_proofs -------------------------
(***************************************************************************)
(* Theorems about ViewerSync, for any sockets, any finite set of runs, any *)
(* items, and any bounds.                                                  *)
(*                                                                         *)
(* The invariant has four parts: types, what the hook and the server know  *)
(* of sockets, what is said of what is armed, and what a linked page       *)
(* lacks.  The first two are proved together, action by action; then each  *)
(* of the others is, with them.  Most actions say nothing of what is armed *)
(* (WordStands) or say it last (WordGiven), and most neither store nor     *)
(* deliver an event (TailStands).                                          *)
(***************************************************************************)
EXTENDS ViewerSync, FiniteSetTheorems, TLAPS

DownFrame ==
    [type : {"state"}, items : SUBSET Items] \cup [type : {"runs"}, runs : SUBSET Runs]
        \cup [type : {"event"}, run : Runs, seq : Nat]
UpFrame ==
    [type : {"subscribe"}, run : Runs \cup {All}] \cup [type : {"set", "clear"}, item : Items]

Typed ==
    /\ ws \in Socks \cup {None} /\ phase \in {"connecting", "open", "listening", "closed"}
    /\ retry \in BOOLEAN /\ retries \in Nat /\ tokens \in Nat
    /\ shown \subseteq Items /\ heard \in BOOLEAN /\ asked \subseteq Runs
    /\ have \in [Runs -> SUBSET Nat]
    /\ up \in [Socks -> Seq(UpFrame)] /\ down \in [Socks -> Seq(DownFrame)]
    /\ serving \in BOOLEAN /\ server \subseteq Items /\ stored \in [Runs -> Nat]
    /\ peer \in [Socks -> {"none", "viewer", "anonymous"}]
    /\ subs \in [Socks -> SUBSET (Runs \cup {All})]

\* The hook has a socket unless it is closed; before the page listens nothing
\* was asked or heard on it; a socket the server lost has nothing there, and
\* a server that is gone has no socket.
HookInv ==
    /\ phase = "closed" <=> ws = None
    /\ retry => phase = "closed"
    /\ heard => phase = "listening"
    /\ phase \in {"connecting", "open"} => up[ws] = << >> /\ subs[ws] = {}
    /\ \A s \in Socks : peer[s] = "none" => up[s] = << >> /\ subs[s] = {}
    /\ ~serving => \A s \in Socks : peer[s] = "none"

\* The frames on a queue, and the last word among them on what is armed.
Has(q, f) == \E k \in DOMAIN q : q[k] = f
Silent(q) == \A k \in DOMAIN q : q[k].type # "state"
Says(q, items) ==
    \E k \in DOMAIN q : /\ q[k].type = "state" /\ q[k].items = items
                        /\ \A l \in DOMAIN q : q[l].type = "state" => l <= k

\* On a connected socket the last word under way is the server's, and a page
\* that was told, with no word and no request of its own under way, shows it.
WordInv ==
    phase # "closed" /\ peer[ws] # "none" =>
        /\ Silent(down[ws]) \/ Says(down[ws], server)
        /\ phase = "listening" /\ heard /\ Silent(down[ws]) /\ ~Requested => shown = server

\* What the page has and what is on its way was stored, and what a linked page
\* lacks is on its way or asked for: the list of the runs, the runs of the
\* list, the events of a run.
Announced(r) == \E k \in DOMAIN down[ws] : down[ws][k].type = "runs" /\ r \in down[ws][k].runs
TailInv ==
    /\ \A r \in Runs : have[r] \subseteq 1..stored[r]
    /\ \A s \in Socks, r \in Runs, n \in Nat : Has(down[s], Event(r, n)) => n \in 1..stored[r]
    /\ Linked =>
        /\ All \in subs[ws] \/ Has(up[ws], Subscribe(All))
        /\ \A r \in asked : r \in subs[ws] \/ Has(up[ws], Subscribe(r))
        /\ \A r \in Runs : r \in subs[ws] =>
              \A n \in 1..stored[r] : n \in have[r] \/ Has(down[ws], Event(r, n))
        /\ All \in subs[ws] => \A r \in Runs : stored[r] > 0 => r \in asked \/ Announced(r)

-----------------------------------------------------------------------------
(* Queues.                                                                 *)

\* The frames of two queues in a row, and of one that is read.
LEMMA Joined ==
    ASSUME NEW S, NEW q \in Seq(S), NEW p \in Seq(S)
    PROVE  /\ q \o p \in Seq(S)
           /\ \A f : Has(q \o p, f) <=> Has(q, f) \/ Has(p, f)
<1>1. /\ q \o p \in Seq(S) /\ Len(q \o p) = Len(q) + Len(p)
      /\ DOMAIN q = 1..Len(q) /\ DOMAIN p = 1..Len(p) /\ DOMAIN (q \o p) = 1..(Len(q) + Len(p))
      /\ Len(q) \in Nat /\ Len(p) \in Nat
      /\ \A k \in 1..(Len(q) + Len(p)) : (q \o p)[k] = IF k <= Len(q) THEN q[k] ELSE p[k - Len(q)]
  OBVIOUS
<1>2. ASSUME NEW f, Has(q \o p, f) PROVE Has(q, f) \/ Has(p, f)
  <2>1. PICK k \in 1..(Len(q) + Len(p)) : (q \o p)[k] = f
    BY <1>1, <1>2 DEF Has
  <2>2. CASE k <= Len(q)
    BY <1>1, <2>1, <2>2 DEF Has
  <2>3. CASE ~(k <= Len(q))
    <3>1. k - Len(q) \in DOMAIN p /\ p[k - Len(q)] = f
      BY <1>1, <2>1, <2>3
    <3>2. QED
      BY <3>1 DEF Has
  <2>4. QED
    BY <2>2, <2>3
<1>3. ASSUME NEW f, Has(q, f) PROVE Has(q \o p, f)
  <2>1. PICK k \in DOMAIN q : q[k] = f
    BY <1>3 DEF Has
  <2>2. k \in DOMAIN (q \o p) /\ (q \o p)[k] = f
    BY <1>1, <2>1
  <2>3. QED
    BY <2>2 DEF Has
<1>4. ASSUME NEW f, Has(p, f) PROVE Has(q \o p, f)
  <2>1. PICK k \in DOMAIN p : p[k] = f
    BY <1>4 DEF Has
  <2>2. Len(q) + k \in DOMAIN (q \o p) /\ (q \o p)[Len(q) + k] = f
    BY <1>1, <2>1
  <2>3. QED
    BY <2>2 DEF Has
<1>5. QED
  BY <1>1, <1>2, <1>3, <1>4

LEMMA Behead ==
    ASSUME NEW S, NEW q \in Seq(S), q # << >>
    PROVE  /\ Tail(q) \in Seq(S) /\ Head(q) \in S
           /\ \A f : Has(q, f) <=> f = Head(q) \/ Has(Tail(q), f)
<1> DEFINE p == Tail(q)
           h == Head(q)
<1>1. /\ DOMAIN q = 1..Len(q) /\ DOMAIN p = 1..(Len(q) - 1) /\ Len(q) \in Nat \ {0}
      /\ \A i \in DOMAIN p : p[i] = q[i + 1]
      /\ h = q[1] /\ p \in Seq(S) /\ h \in S
  OBVIOUS
<1> HIDE DEF p, h
<1>2. \A j \in DOMAIN q : j = 1 \/ (j - 1 \in DOMAIN p /\ (j - 1) + 1 = j)
  BY <1>1
<1>3. /\ 1 \in DOMAIN q
      /\ \A i \in DOMAIN p : i + 1 \in DOMAIN q
  BY <1>1
<1>4. ASSUME NEW f, Has(q, f) PROVE f = h \/ Has(p, f)
  <2>1. PICK j \in DOMAIN q : q[j] = f
    BY <1>4 DEF Has
  <2>2. CASE j # 1
    <3>1. j - 1 \in DOMAIN p /\ p[j - 1] = f
      BY <1>1, <1>2, <2>1, <2>2
    <3>2. QED
      BY <3>1 DEF Has
  <2>3. QED
    BY <1>1, <2>1, <2>2
<1>5. ASSUME NEW f, f = h \/ Has(p, f) PROVE Has(q, f)
  BY <1>1, <1>3, <1>5 DEF Has
<1>6. QED
  BY <1>1, <1>4, <1>5 DEF p, h

\* The last word of a queue that grows, and of one that is read.
LEMMA WordOfJoined ==
    ASSUME NEW S, NEW q \in Seq(S), NEW p \in Seq(S)
    PROVE  /\ Silent(q \o p) <=> Silent(q) /\ Silent(p)
           /\ Silent(p) => \A items : Says(q \o p, items) <=> Says(q, items)
           /\ \A items : Says(p, items) => Says(q \o p, items)
<1>1. /\ Len(q \o p) = Len(q) + Len(p)
      /\ DOMAIN q = 1..Len(q) /\ DOMAIN p = 1..Len(p) /\ DOMAIN (q \o p) = 1..(Len(q) + Len(p))
      /\ Len(q) \in Nat /\ Len(p) \in Nat
      /\ \A k \in 1..(Len(q) + Len(p)) : (q \o p)[k] = IF k <= Len(q) THEN q[k] ELSE p[k - Len(q)]
  OBVIOUS
<1> DEFINE w == q \o p
           m == Len(q)
<1>2. /\ \A k \in DOMAIN q : k \in DOMAIN w /\ w[k] = q[k] /\ k <= m
      /\ \A k \in DOMAIN p : m + k \in DOMAIN w /\ w[m + k] = p[k] /\ ~(m + k <= m)
      /\ \A k \in DOMAIN w : \/ k \in DOMAIN q /\ w[k] = q[k]
                             \/ /\ k - m \in DOMAIN p /\ m + (k - m) = k
                                /\ w[k] = p[k - m] /\ ~(k <= m)
      /\ \A k, l \in DOMAIN p : k <= l <=> m + k <= m + l
      /\ \A k \in DOMAIN q, l \in DOMAIN p : k <= m + l
  BY <1>1
<1> HIDE DEF w, m
<1>3. Silent(w) <=> Silent(q) /\ Silent(p)
  <2>1. ASSUME Silent(w) PROVE Silent(q) /\ Silent(p)
    BY <1>2, <2>1 DEF Silent
  <2>2. ASSUME Silent(q), Silent(p) PROVE Silent(w)
    BY <1>2, <2>2 DEF Silent
  <2>3. QED
    BY <2>1, <2>2
<1>4. ASSUME Silent(p), NEW items PROVE Says(w, items) <=> Says(q, items)
  <2>1. \A k \in DOMAIN w : w[k].type = "state" => k \in DOMAIN q /\ w[k] = q[k]
    BY <1>2, <1>4 DEF Silent
  <2>2. QED
    BY <1>2, <2>1 DEF Says
<1>5. ASSUME NEW items, Says(p, items) PROVE Says(w, items)
  <2>1. PICK k \in DOMAIN p : /\ p[k].type = "state" /\ p[k].items = items
                              /\ \A l \in DOMAIN p : p[l].type = "state" => l <= k
    BY <1>5 DEF Says
  <2>2. m + k \in DOMAIN w /\ w[m + k] = p[k]
    BY <1>2
  <2>3. ASSUME NEW l \in DOMAIN w, w[l].type = "state" PROVE l <= m + k
    <3>1. CASE l \in DOMAIN q
      BY <1>2, <3>1
    <3>2. CASE l - m \in DOMAIN p /\ m + (l - m) = l /\ w[l] = p[l - m]
      <4>1. l - m <= k
        BY <2>1, <2>3, <3>2
      <4>2. QED
        BY <1>2, <3>2, <4>1
    <3>3. QED
      BY <1>2, <3>1, <3>2
  <2>4. QED
    BY <2>1, <2>2, <2>3 DEF Says
<1>6. QED
  BY <1>3, <1>4, <1>5 DEF w

LEMMA WordOfTail ==
    ASSUME NEW S, NEW q \in Seq(S), q # << >>
    PROVE  /\ Silent(q) <=> Silent(Tail(q)) /\ Head(q).type # "state"
           /\ \A items : Says(q, items) <=>
                 \/ Says(Tail(q), items)
                 \/ Silent(Tail(q)) /\ Head(q).type = "state" /\ Head(q).items = items
<1> DEFINE p == Tail(q)
           h == Head(q)
<1>1. /\ DOMAIN q = 1..Len(q) /\ DOMAIN p = 1..(Len(q) - 1) /\ Len(q) \in Nat \ {0}
      /\ \A i \in DOMAIN p : p[i] = q[i + 1]
      /\ h = q[1]
  OBVIOUS
<1> HIDE DEF p, h
<1>2. /\ 1 \in DOMAIN q
      /\ \A i \in DOMAIN p : i + 1 \in DOMAIN q /\ ~(i + 1 <= 1)
      /\ \A j \in DOMAIN q : j = 1 \/ (j - 1 \in DOMAIN p /\ (j - 1) + 1 = j)
      /\ \A i, j \in DOMAIN p : i <= j <=> i + 1 <= j + 1
      /\ \A j \in DOMAIN q : 1 <= j
  BY <1>1
<1>3. \A j \in DOMAIN q : j = 1 \/ \E i \in DOMAIN p : j = i + 1 /\ p[i] = q[j]
  BY <1>1, <1>2
<1>4. Silent(q) <=> Silent(p) /\ h.type # "state"
  BY <1>1, <1>2, <1>3 DEF Silent
<1>5. ASSUME NEW items, Says(p, items) PROVE Says(q, items)
  <2>1. PICK k \in DOMAIN p : /\ p[k].type = "state" /\ p[k].items = items
                              /\ \A l \in DOMAIN p : p[l].type = "state" => l <= k
    BY <1>5 DEF Says
  <2>2. k + 1 \in DOMAIN q /\ q[k + 1] = p[k]
    BY <1>1, <1>2
  <2>3. ASSUME NEW j \in DOMAIN q, q[j].type = "state" PROVE j <= k + 1
    <3>1. CASE j = 1
      BY <1>1, <2>2, <3>1
    <3>2. CASE j # 1
      <4>1. PICK i \in DOMAIN p : j = i + 1 /\ p[i] = q[j]
        BY <1>3, <3>2
      <4>2. i <= k
        BY <2>1, <2>3, <4>1
      <4>3. QED
        BY <1>2, <4>1, <4>2
    <3>3. QED
      BY <3>1, <3>2
  <2>4. QED
    BY <2>1, <2>2, <2>3 DEF Says
<1>6. ASSUME NEW items, Silent(p), h.type = "state", h.items = items PROVE Says(q, items)
  <2>1. \A j \in DOMAIN q : q[j].type = "state" => j = 1
    BY <1>3, <1>6 DEF Silent
  <2>2. QED
    BY <1>1, <1>2, <1>6, <2>1 DEF Says
<1>7. ASSUME NEW items, Says(q, items)
      PROVE  Says(p, items) \/ (Silent(p) /\ h.type = "state" /\ h.items = items)
  <2>1. PICK k \in DOMAIN q : /\ q[k].type = "state" /\ q[k].items = items
                              /\ \A l \in DOMAIN q : q[l].type = "state" => l <= k
    BY <1>7 DEF Says
  <2>2. CASE k = 1
    <3>1. ASSUME NEW i \in DOMAIN p PROVE p[i].type # "state"
      BY <1>1, <1>2, <2>1, <2>2
    <3>2. QED
      BY <1>1, <2>1, <2>2, <3>1 DEF Silent
  <2>3. CASE k # 1
    <3>1. PICK i \in DOMAIN p : k = i + 1 /\ p[i] = q[k]
      BY <1>3, <2>3
    <3>2. \A l \in DOMAIN p : p[l].type = "state" => l <= i
      BY <1>1, <1>2, <2>1, <3>1
    <3>3. QED
      BY <2>1, <3>1, <3>2 DEF Says
  <2>4. QED
    BY <2>2, <2>3
<1>8. QED
  BY <1>4, <1>5, <1>6, <1>7 DEF p, h

\* What the page will show, said with these.
LEMMA WordIs ==
    ASSUME NEW q, NEW items
    PROVE  WillShow(q, items) <=> (Silent(q) /\ shown = items) \/ Says(q, items)
<1> DEFINE words == {k \in DOMAIN q : q[k].type = "state"}
<1>1. words = {} <=> Silent(q)
  BY DEF Silent
<1>2. (\E k \in words : q[k].items = items /\ \A l \in words : l <= k) <=> Says(q, items)
  BY DEF Says
<1>3. QED
  BY <1>1, <1>2 DEF WillShow

\* Some order of a finite set is a sequence that has all of it.
LEMMA OrderHasAll ==
    ASSUME NEW R \in SUBSET Runs, NEW runs \in SetToSeqs(R)
    PROVE  runs \in Seq(R) /\ \A r \in R : \E i \in DOMAIN runs : runs[i] = r
<1>1. IsFiniteSet(R)
  BY FS_Subset, ViewerAssumption
<1>2. PICK n \in Nat : n = Cardinality(R)
  BY <1>1, FS_CardinalityType
<1>3. runs \in [1..n -> R] /\ \A i, j \in 1..n : runs[i] = runs[j] => i = j
  BY <1>2 DEF SetToSeqs
<1>4. runs \in Seq(R)
  BY <1>3
<1> DEFINE T == {runs[i] : i \in 1..n}
<1>5. T \in SUBSET R
  BY <1>3
<1>6. ExistsBijection(1..n, T)
  <2>1. runs \in Bijection(1..n, T)
    BY <1>3 DEF Bijection, Injection, Surjection, IsInjective
  <2>2. QED
    BY <2>1 DEF ExistsBijection
<1>7. Cardinality(T) = n
  BY <1>6, FS_CountingElements
<1>8. T = R
  BY <1>1, <1>2, <1>5, <1>7, FS_Subset
<1>9. QED
  BY <1>3, <1>4, <1>8

-----------------------------------------------------------------------------
(* Types, and what the hook knows.                                         *)

LEMMA FramesTyped ==
    /\ \A r \in Runs \cup {All} : Subscribe(r) \in UpFrame
    /\ \A items \in SUBSET Items : State(items) \in DownFrame
    /\ \A runs \in SUBSET Runs : Listing(runs) \in DownFrame
    /\ \A r \in Runs, n \in Nat : Event(r, n) \in DownFrame
BY DEF Subscribe, State, Listing, Event, UpFrame, DownFrame

\* The frame at the head of a queue.
LEMMA HeadDown ==
    ASSUME Typed, ws \in Socks, down[ws] # << >>
    PROVE  /\ Head(down[ws]) \in DownFrame /\ Tail(down[ws]) \in Seq(DownFrame)
           /\ [down EXCEPT ![ws] = Tail(@)] \in [Socks -> Seq(DownFrame)]
<1>1. down[ws] \in Seq(DownFrame)
  BY DEF Typed
<1>2. QED
  BY <1>1, Behead DEF Typed

LEMMA HeadUp ==
    ASSUME Typed, NEW s \in Socks, up[s] # << >>
    PROVE  /\ Head(up[s]) \in UpFrame /\ Tail(up[s]) \in Seq(UpFrame)
           /\ [up EXCEPT ![s] = Tail(@)] \in [Socks -> Seq(UpFrame)]
<1>1. up[s] \in Seq(UpFrame)
  BY DEF Typed
<1>2. QED
  BY <1>1, Behead DEF Typed

\* ws.send puts frames at the end of the hook's own queue.
LEMMA SendsTyped ==
    ASSUME Typed, NEW frames \in Seq(UpFrame), Sends(frames)
    PROVE  /\ up' \in [Socks -> Seq(UpFrame)]
           /\ \A s \in Socks : up'[s] = IF s = ws /\ ws \in Viewers THEN up[s] \o frames ELSE up[s]
<1>1. CASE ws \in Viewers
  <2>1. ws \in Socks /\ up[ws] \in Seq(UpFrame)
    BY <1>1 DEF Viewers, Typed
  <2>2. up[ws] \o frames \in Seq(UpFrame)
    BY <2>1
  <2>3. QED
    BY <1>1, <2>1, <2>2 DEF Sends, Typed
<1>2. CASE ws \notin Viewers
  BY <1>2 DEF Sends, Typed
<1>3. QED
  BY <1>1, <1>2

LEMMA SentTyped ==
    ASSUME Typed, NEW f, \A s \in Socks : f[s] \in Seq(DownFrame), down' = Sent(f)
    PROVE  /\ down' \in [Socks -> Seq(DownFrame)]
           /\ \A s \in Socks :
                 down'[s] = IF s \in Viewers /\ s = ws THEN down[s] \o f[s] ELSE down[s]
<1>1. \A s \in Socks : down'[s] = IF s \in Viewers /\ s = ws THEN down[s] \o f[s] ELSE down[s]
  BY DEF Sent
<1>2. \A s \in Socks : (IF s \in Viewers /\ s = ws THEN down[s] \o f[s] ELSE down[s]) \in Seq(DownFrame)
  BY DEF Typed
<1>3. QED
  BY <1>1, <1>2 DEF Sent

\* What the server answers a subscription with.
LEMMA ReplayIs ==
    ASSUME Typed, NEW r \in Runs
    PROVE  /\ Replay(r) \in Seq(DownFrame) /\ Silent(Replay(r))
           /\ \A n \in 1..stored[r] : Has(Replay(r), Event(r, n))
           /\ \A f : Has(Replay(r), f) => \E n \in 1..stored[r] : f = Event(r, n)
<1>1. stored[r] \in Nat
  BY DEF Typed
<1>2. \A n \in 1..stored[r] : Event(r, n) \in DownFrame /\ Event(r, n).type = "event"
  BY <1>1, FramesTyped DEF Event
<1>3. Replay(r) \in [1..stored[r] -> DownFrame]
  BY <1>2 DEF Replay
<1>4. Replay(r) \in Seq(DownFrame)
  BY <1>1, <1>3
<1>5. DOMAIN Replay(r) = 1..stored[r] /\ \A n \in 1..stored[r] : Replay(r)[n] = Event(r, n)
  BY DEF Replay
<1>6. QED
  BY <1>2, <1>4, <1>5 DEF Has, Silent

LEMMA AnswerTyped ==
    ASSUME Typed, NEW s \in Socks, NEW r \in Runs \cup {All}
    PROVE  Answer(s, r) \in Seq(DownFrame) /\ Silent(Answer(s, r))
<1>1. CASE r = All
  <2>1. Listing({q \in Runs : stored[q] > 0}) \in DownFrame
        /\ Listing({q \in Runs : stored[q] > 0}).type = "runs"
    BY FramesTyped DEF Listing
  <2>2. QED
    BY <1>1, <2>1 DEF Answer, Silent
<1>2. CASE r # All /\ r \in subs[s]
  BY <1>2 DEF Answer, Silent
<1>3. CASE r # All /\ r \notin subs[s]
  BY <1>3, ReplayIs DEF Answer
<1>4. QED
  BY <1>1, <1>2, <1>3

\* connect() takes a socket the server is done with.
LEMMA ConnectFacts ==
    ASSUME Connect
    PROVE  ws' \in Socks /\ peer[ws'] = "none" /\ phase' = "connecting" /\ retry' = FALSE
<1>1. ws' \in Fresh
  BY DEF Connect
<1>2. QED
  BY <1>1 DEF Connect, Fresh

\* What the two kinds of reading do at the server.
LEMMA SubscribedFacts ==
    ASSUME Typed, NEW s \in Socks, NEW r \in Runs \cup {All}, Subscribed(s, r)
    PROVE  /\ server' = server
           /\ down' \in [Socks -> Seq(DownFrame)]
           /\ \A x \in Socks : down'[x] = IF x = s /\ x \in Viewers /\ x = ws
                                          THEN down[x] \o Answer(s, r) ELSE down[x]
           /\ subs' \in [Socks -> SUBSET (Runs \cup {All})]
           /\ \A x \in Socks : subs'[x] = IF x = s THEN subs[x] \cup {r} ELSE subs[x]
<1> DEFINE f == [x \in Socks |-> IF x = s THEN Answer(s, r) ELSE << >>]
<1>1. \A x \in Socks : f[x] \in Seq(DownFrame)
  BY AnswerTyped
<1>2. down' = Sent(f)
  BY DEF Subscribed
<1>3. \A x \in Socks : f[x] = IF x = s THEN Answer(s, r) ELSE << >>
  OBVIOUS
<1> HIDE DEF f
<1>4. /\ down' \in [Socks -> Seq(DownFrame)]
      /\ \A x \in Socks : down'[x] = IF x \in Viewers /\ x = ws THEN down[x] \o f[x] ELSE down[x]
  BY <1>1, <1>2, SentTyped
<1>5. \A x \in Socks : down[x] \in Seq(DownFrame) /\ down[x] \o << >> = down[x]
  BY DEF Typed
<1>6. \A x \in Socks : down'[x] = IF x = s /\ x \in Viewers /\ x = ws
                                  THEN down[x] \o Answer(s, r) ELSE down[x]
  BY <1>3, <1>4, <1>5
<1>7. /\ subs' \in [Socks -> SUBSET (Runs \cup {All})]
      /\ \A x \in Socks : subs'[x] = IF x = s THEN subs[x] \cup {r} ELSE subs[x]
      /\ server' = server
  BY DEF Subscribed, Typed
<1>8. QED
  BY <1>4, <1>6, <1>7

\* Telling every page what is armed.
LEMMA StateSentFacts ==
    ASSUME Typed, NEW items \in SUBSET Items, down' = Sent(StateSent(items))
    PROVE  /\ down' \in [Socks -> Seq(DownFrame)]
           /\ \A x \in Socks : down'[x] = IF x \in Viewers /\ x = ws
                                          THEN down[x] \o <<State(items)>> ELSE down[x]
<1>1. \A x \in Socks : StateSent(items)[x] = <<State(items)>>
  BY DEF StateSent
<1>2. PICK q : q = <<State(items)>>
  OBVIOUS
<1>3. \A x \in Socks : StateSent(items)[x] \in Seq(DownFrame)
  <2>1. State(items) \in DownFrame
    BY FramesTyped
  <2>2. q \in Seq(DownFrame)
    BY <1>2, <2>1
  <2>3. QED
    BY <1>1, <1>2, <2>2
<1>4. QED
  BY <1>1, <1>3, SentTyped

LEMMA ControlledFacts ==
    ASSUME Typed, NEW s \in Socks, NEW f \in UpFrame, f.type # "subscribe", Controlled(s, f)
    PROVE  /\ server' \in SUBSET Items /\ subs' = subs
           /\ down' \in [Socks -> Seq(DownFrame)]
           /\ \A x \in Socks :
                 \/ down'[x] = down[x] /\ (server' = server \/ ~(x \in Viewers /\ x = ws))
                 \/ x \in Viewers /\ x = ws /\ down'[x] = down[x] \o <<State(server')>>
           /\ s = ws /\ s \in Viewers => down'[s] = down[s] \o <<State(server')>>
<1>1. CASE peer[s] = "anonymous"
  <2> DEFINE g == [x \in Socks |-> IF x = s THEN <<State(server)>> ELSE << >>]
  <2>1. \A x \in Socks : g[x] \in Seq(DownFrame)
    BY FramesTyped DEF Typed
  <2>2. down' = Sent(g) /\ server' = server /\ subs' = subs
    BY <1>1 DEF Controlled
  <2>3. \A x \in Socks : g[x] = IF x = s THEN <<State(server)>> ELSE << >>
    OBVIOUS
  <2> HIDE DEF g
  <2>4. /\ down' \in [Socks -> Seq(DownFrame)]
        /\ \A x \in Socks : down'[x] = IF x \in Viewers /\ x = ws THEN down[x] \o g[x] ELSE down[x]
    BY <2>1, <2>2, SentTyped
  <2>5. \A x \in Socks : down[x] \in Seq(DownFrame) /\ down[x] \o << >> = down[x]
    BY DEF Typed
  <2>6. QED
    BY <2>2, <2>3, <2>4, <2>5 DEF Typed
<1>2. CASE peer[s] # "anonymous"
  <2>1. server' = Changed(server, f) /\ down' = Sent(StateSent(server')) /\ subs' = subs
    BY <1>2 DEF Controlled
  <2>2. f.item \in Items
    BY DEF UpFrame
  <2>3. server' \in SUBSET Items
    BY <2>1, <2>2 DEF Changed, Typed
  <2>4. QED
    BY <2>1, <2>3, StateSentFacts
<1>3. QED
  BY <1>1, <1>2

\* What Stores puts on the queue of a page.
News(s, r, update) ==
    (IF update /\ All \in subs[s] THEN <<Listing({r})>> ELSE << >>)
        \o (IF r \in subs[s] THEN <<Event(r, stored[r] + 1)>> ELSE << >>)

LEMMA NewsIs ==
    ASSUME Typed, NEW s \in Socks, NEW r \in Runs, NEW update \in BOOLEAN
    PROVE  /\ News(s, r, update) \in Seq(DownFrame) /\ Silent(News(s, r, update))
           /\ update /\ All \in subs[s] => Has(News(s, r, update), Listing({r}))
           /\ r \in subs[s] => Has(News(s, r, update), Event(r, stored[r] + 1))
           /\ \A f : Has(News(s, r, update), f) => f = Listing({r}) \/ f = Event(r, stored[r] + 1)
<1> DEFINE one == IF update /\ All \in subs[s] THEN <<Listing({r})>> ELSE << >>
           two == IF r \in subs[s] THEN <<Event(r, stored[r] + 1)>> ELSE << >>
<1>1. stored[r] + 1 \in Nat
  BY DEF Typed
<1>2. Listing({r}) \in DownFrame /\ Event(r, stored[r] + 1) \in DownFrame
  BY <1>1, FramesTyped
<1>3. Listing({r}).type = "runs" /\ Event(r, stored[r] + 1).type = "event"
  BY DEF Listing, Event
<1>4. one \in Seq(DownFrame) /\ two \in Seq(DownFrame)
  BY <1>2
<1>5. Silent(one) /\ Silent(two)
  BY <1>3 DEF Silent
<1>6. ASSUME NEW g PROVE Has(<<g>>, g) /\ ~Has(<< >>, g) /\ \A f : Has(<<g>>, f) => f = g
  BY DEF Has
<1>7. /\ update /\ All \in subs[s] => Has(one, Listing({r}))
      /\ \A f : Has(one, f) => f = Listing({r})
  BY <1>6
<1>8. /\ r \in subs[s] => Has(two, Event(r, stored[r] + 1))
      /\ \A f : Has(two, f) => f = Event(r, stored[r] + 1)
  BY <1>6
<1>9. News(s, r, update) = one \o two
  BY DEF News
<1> HIDE DEF one, two
<1>10. /\ one \o two \in Seq(DownFrame)
       /\ \A f : Has(one \o two, f) <=> Has(one, f) \/ Has(two, f)
  BY <1>4, Joined
<1>11. Silent(one \o two)
  BY <1>4, <1>5, WordOfJoined
<1>12. QED
  BY <1>7, <1>8, <1>9, <1>10, <1>11

LEMMA StoresFacts ==
    ASSUME Typed, NEW r \in Runs, NEW update \in BOOLEAN, Stores(r, update)
    PROVE  /\ stored' \in [Runs -> Nat] /\ stored'[r] = stored[r] + 1
           /\ \A q \in Runs : q # r => stored'[q] = stored[q]
           /\ down' \in [Socks -> Seq(DownFrame)]
           /\ \A x \in Socks : down'[x] = IF x \in Viewers /\ x = ws
                                          THEN down[x] \o News(x, r, update) ELSE down[x]
<1> DEFINE f == [s \in Socks |-> News(s, r, update)]
<1>1. \A s \in Socks : f[s] \in Seq(DownFrame)
  BY NewsIs
<1>2. down' = Sent(f)
  BY DEF Stores, News
<1>3. \A x \in Socks : f[x] = News(x, r, update)
  OBVIOUS
<1> HIDE DEF f
<1>4. /\ down' \in [Socks -> Seq(DownFrame)]
      /\ \A x \in Socks : down'[x] = IF x \in Viewers /\ x = ws THEN down[x] \o f[x] ELSE down[x]
  BY <1>1, <1>2, SentTyped
<1>5. /\ stored' \in [Runs -> Nat] /\ stored'[r] = stored[r] + 1
      /\ \A q \in Runs : q # r => stored'[q] = stored[q]
  BY DEF Stores, Typed
<1>6. QED
  BY <1>3, <1>4, <1>5

-----------------------------------------------------------------------------
(* Types and the hook, action by action.                                   *)

SyncInv == Typed /\ HookInv

\* The socket of a hook that is not closed.
LEMMA HasSocket == ASSUME SyncInv, phase # "closed" PROVE ws \in Socks /\ ws # None
BY DEF SyncInv, Typed, HookInv

LEMMA RetryTimerSync == ASSUME SyncInv, RetryTimer PROVE SyncInv'
<1>1. ws' \in Socks /\ peer[ws'] = "none" /\ phase' = "connecting" /\ retry' = FALSE
  BY ConnectFacts DEF RetryTimer
<1>2. /\ retries' = retries + 1
      /\ UNCHANGED <<tokens, shown, heard, asked, have, up, down, serving, server, stored, peer, subs>>
  BY DEF RetryTimer, page, hub
<1>3. heard = FALSE
  BY DEF SyncInv, Typed, HookInv, RetryTimer
<1>4. Typed'
  <2>1. retries' \in Nat
    BY <1>2 DEF SyncInv, Typed
  <2>2. QED
    BY <1>1, <1>2, <2>1 DEF SyncInv, Typed
<1>5. HookInv'
  <2>1. ws' # None
    BY <1>1, ViewerAssumption
  <2>2. up[ws'] = << >> /\ subs[ws'] = {}
    BY <1>1 DEF SyncInv, HookInv
  <2>3. QED
    BY <1>1, <1>2, <1>3, <2>1, <2>2 DEF SyncInv, HookInv
<1>6. QED
  BY <1>4, <1>5 DEF SyncInv

LEMMA TokenChangesSync == ASSUME SyncInv, TokenChanges PROVE SyncInv'
<1>1. ws' \in Socks /\ peer[ws'] = "none" /\ phase' = "connecting" /\ retry' = FALSE
  BY ConnectFacts DEF TokenChanges
<1>2. /\ tokens' = tokens + 1 /\ retries' = 0 /\ heard' = FALSE
      /\ down' = [s \in Socks |-> << >>]
      /\ UNCHANGED <<shown, asked, have, up, serving, server, stored, peer, subs>>
  BY DEF TokenChanges, hub
<1>3. Typed'
  <2>1. down' \in [Socks -> Seq(DownFrame)]
    BY <1>2
  <2>2. tokens' \in Nat /\ retries' \in Nat
    BY <1>2 DEF SyncInv, Typed
  <2>3. QED
    BY <1>1, <1>2, <2>1, <2>2 DEF SyncInv, Typed
<1>4. HookInv'
  <2>1. ws' # None
    BY <1>1, ViewerAssumption
  <2>2. up[ws'] = << >> /\ subs[ws'] = {}
    BY <1>1 DEF SyncInv, HookInv
  <2>3. QED
    BY <1>1, <1>2, <2>1, <2>2 DEF SyncInv, HookInv
<1>5. QED
  BY <1>3, <1>4 DEF SyncInv

LEMMA OpensSync == ASSUME SyncInv, Opens PROVE SyncInv'
BY DEF SyncInv, Typed, HookInv, Opens, page, hub

LEMMA ClosesSync == ASSUME SyncInv, Closes PROVE SyncInv'
<1>0. /\ ws' = None /\ phase' = "closed" /\ retry' = (retries < MaxRetries)
      /\ heard' = FALSE /\ asked' = {} /\ down' = [down EXCEPT ![ws] = << >>]
      /\ UNCHANGED <<retries, tokens, shown, have, up, serving, server, stored, peer, subs>>
  BY DEF Closes, hub
<1>1. Typed'
  <2>1. << >> \in Seq(DownFrame)
    OBVIOUS
  <2>2. [down EXCEPT ![ws] = << >>] \in [Socks -> Seq(DownFrame)]
    BY <2>1 DEF SyncInv, Typed
  <2>3. retry' \in BOOLEAN
    BY <1>0
  <2>4. QED
    BY <1>0, <2>2, <2>3 DEF SyncInv, Typed
<1>2. HookInv'
  BY <1>0 DEF SyncInv, HookInv
<1>3. QED
  BY <1>1, <1>2 DEF SyncInv

\* Nothing is sent on a socket the server lost.
LEMMA SendsHook ==
    ASSUME SyncInv, NEW frames \in Seq(UpFrame), Sends(frames),
           UNCHANGED <<peer, subs>>
    PROVE  \A s \in Socks : peer'[s] = "none" => up'[s] = << >> /\ subs'[s] = {}
<1>1. \A s \in Socks : up'[s] = IF s = ws /\ ws \in Viewers THEN up[s] \o frames ELSE up[s]
  BY SendsTyped DEF SyncInv
<1>2. QED
  BY <1>1 DEF SyncInv, HookInv, Viewers

LEMMA ListensSync == ASSUME SyncInv, Listens PROVE SyncInv'
<1>1. <<Subscribe(All)>> \in Seq(UpFrame)
  BY FramesTyped
<1>2. up' \in [Socks -> Seq(UpFrame)]
  BY <1>1, SendsTyped DEF Listens, SyncInv
<1>3. Typed'
  BY <1>2 DEF SyncInv, Typed, Listens, hub
<1>4. HookInv'
  BY <1>1, SendsHook DEF SyncInv, HookInv, Listens, hub
<1>5. QED
  BY <1>3, <1>4 DEF SyncInv

LEMMA UnheardSync == ASSUME SyncInv, Unheard PROVE SyncInv'
<1>1. down' \in [Socks -> Seq(DownFrame)]
  BY HasSocket, HeadDown DEF Unheard, SyncInv
<1>2. QED
  BY <1>1 DEF SyncInv, Typed, HookInv, Unheard, hook, page, hub

\* What reading a frame comes to.
ReadState(f) ==
    /\ f.type = "state" /\ shown' = f.items /\ heard' = TRUE
    /\ UNCHANGED <<asked, have, up>>
ReadRuns(f) ==
    /\ f.type = "runs" /\ asked' = asked \cup f.runs
    /\ \E runs \in SetToSeqs(f.runs \ asked) : Sends([i \in DOMAIN runs |-> Subscribe(runs[i])])
    /\ UNCHANGED <<shown, heard, have>>
ReadEvent(f) ==
    /\ f.type = "event" /\ have' = [have EXCEPT ![f.run] = @ \cup {f.seq}]
    /\ UNCHANGED <<shown, heard, asked, up>>

LEMMA ReadsFacts ==
    ASSUME SyncInv, Reads
    PROVE  /\ ws \in Socks /\ phase = "listening" /\ down[ws] # << >>
           /\ Head(down[ws]) \in DownFrame
           /\ down' \in [Socks -> Seq(DownFrame)] /\ down' = [down EXCEPT ![ws] = Tail(@)]
           /\ UNCHANGED <<hook, hub>>
           /\ ReadState(Head(down[ws])) \/ ReadRuns(Head(down[ws])) \/ ReadEvent(Head(down[ws]))
<1>1. ws \in Socks /\ phase = "listening" /\ down[ws] # << >>
      /\ down' = [down EXCEPT ![ws] = Tail(@)] /\ UNCHANGED <<hook, hub>>
  BY HasSocket DEF Reads
<1>2. Head(down[ws]) \in DownFrame /\ down' \in [Socks -> Seq(DownFrame)]
  BY <1>1, HeadDown DEF SyncInv
<1>3. ReadState(Head(down[ws])) \/ ReadRuns(Head(down[ws])) \/ ReadEvent(Head(down[ws]))
  BY DEF Reads, ReadState, ReadRuns, ReadEvent
<1>4. QED
  BY <1>1, <1>2, <1>3

\* The subscriptions to the runs of a list have each of them.
LEMMA RequestsOf ==
    ASSUME NEW R \in SUBSET Runs, NEW runs \in SetToSeqs(R), NEW frames,
           frames = [i \in DOMAIN runs |-> Subscribe(runs[i])]
    PROVE  frames \in Seq(UpFrame) /\ \A r \in R : Has(frames, Subscribe(r))
<1>1. runs \in Seq(R) /\ \A r \in R : \E i \in DOMAIN runs : runs[i] = r
  BY OrderHasAll
<1>2. PICK n \in Nat : DOMAIN runs = 1..n
  BY <1>1
<1>3. \A i \in 1..n : runs[i] \in Runs /\ Subscribe(runs[i]) \in UpFrame
  BY <1>1, <1>2, FramesTyped
<1>4. frames \in [1..n -> UpFrame]
  BY <1>2, <1>3
<1>5. frames \in Seq(UpFrame)
  BY <1>4
<1>6. QED
  BY <1>1, <1>2, <1>5 DEF Has

LEMMA ReadsSync == ASSUME SyncInv, Reads PROVE SyncInv'
<1> DEFINE f == Head(down[ws])
<1>1. /\ ws \in Socks /\ phase = "listening" /\ f \in DownFrame
      /\ down' \in [Socks -> Seq(DownFrame)] /\ UNCHANGED <<hook, hub>>
      /\ ReadState(f) \/ ReadRuns(f) \/ ReadEvent(f)
  BY ReadsFacts
<1> HIDE DEF f
<1>2. UNCHANGED <<ws, phase, retry, retries, tokens, serving, server, stored, peer, subs>>
  BY <1>1 DEF hook, hub
<1>3. CASE ReadState(f)
  <2>1. f.items \in SUBSET Items
    BY <1>1, <1>3 DEF DownFrame, ReadState
  <2>2. QED
    BY <1>1, <1>2, <1>3, <2>1 DEF SyncInv, Typed, HookInv, ReadState
<1>4. CASE ReadRuns(f)
  <2>1. f.runs \in SUBSET Runs
    BY <1>1, <1>4 DEF DownFrame, ReadRuns
  <2>2. PICK frames \in Seq(UpFrame) : Sends(frames)
    BY <1>4, <2>1, RequestsOf DEF ReadRuns
  <2>3. up' \in [Socks -> Seq(UpFrame)]
    BY <2>2, SendsTyped DEF SyncInv
  <2>4. \A s \in Socks : peer'[s] = "none" => up'[s] = << >> /\ subs'[s] = {}
    BY <1>2, <2>2, SendsHook
  <2>5. Typed'
    BY <1>1, <1>2, <1>4, <2>1, <2>3 DEF SyncInv, Typed, ReadRuns
  <2>6. HookInv'
    BY <1>1, <1>2, <1>4, <2>4 DEF SyncInv, HookInv, ReadRuns
  <2>7. QED
    BY <2>5, <2>6 DEF SyncInv
<1>5. CASE ReadEvent(f)
  <2>1. f.run \in Runs /\ f.seq \in Nat
    BY <1>1, <1>5 DEF DownFrame, ReadEvent
  <2>2. have' \in [Runs -> SUBSET Nat]
    BY <1>5, <2>1 DEF ReadEvent, SyncInv, Typed
  <2>3. QED
    BY <1>1, <1>2, <1>5, <2>2 DEF SyncInv, Typed, HookInv, ReadEvent
<1>6. QED
  BY <1>1, <1>3, <1>4, <1>5

\* A toggle that is sent, and one that is not.
LEMMA TogglesFacts ==
    ASSUME SyncInv, NEW item \in Items, Toggles(item)
    PROVE  /\ shown' \in SUBSET Items /\ up' \in [Socks -> Seq(UpFrame)]
           /\ UNCHANGED <<hook, heard, asked, have, down, hub>>
           /\ \/ /\ phase = "listening"
                 /\ \E f \in UpFrame : f.type # "subscribe" /\ Sends(<<f>>)
              \/ phase # "listening" /\ up' = up
<1>1. shown' \in SUBSET Items
  BY DEF Toggles, SyncInv, Typed
<1>2. CASE phase = "listening"
  <2>1. PICK f : f = [type |-> IF item \in shown THEN "clear" ELSE "set", item |-> item]
    OBVIOUS
  <2>2. f \in UpFrame /\ f.type # "subscribe"
    BY <2>1 DEF UpFrame
  <2>3. Sends(<<f>>)
    BY <1>2, <2>1 DEF Toggles
  <2>4. up' \in [Socks -> Seq(UpFrame)]
    <3>1. PICK frames : frames = <<f>>
      OBVIOUS
    <3>2. frames \in Seq(UpFrame)
      BY <2>2, <3>1
    <3>3. QED
      BY <2>3, <3>1, <3>2, SendsTyped DEF SyncInv
  <2>5. QED
    BY <1>1, <1>2, <2>2, <2>3, <2>4 DEF Toggles
<1>3. CASE phase # "listening"
  BY <1>1, <1>3 DEF Toggles, SyncInv, Typed
<1>4. QED
  BY <1>2, <1>3

LEMMA TogglesSync == ASSUME SyncInv, NEW item \in Items, Toggles(item) PROVE SyncInv'
<1>1. /\ shown' \in SUBSET Items /\ up' \in [Socks -> Seq(UpFrame)]
      /\ UNCHANGED <<hook, heard, asked, have, down, hub>>
      /\ \/ phase = "listening" /\ \E f \in UpFrame : Sends(<<f>>)
         \/ phase # "listening" /\ up' = up
  BY TogglesFacts
<1>2. UNCHANGED <<ws, phase, retry, retries, tokens, serving, server, stored, peer, subs>>
  BY <1>1 DEF hook, hub
<1>3. Typed'
  BY <1>1, <1>2 DEF SyncInv, Typed
<1>4. \A s \in Socks : peer'[s] = "none" => up'[s] = << >> /\ subs'[s] = {}
  <2>1. CASE up' = up
    BY <1>2, <2>1 DEF SyncInv, HookInv
  <2>2. ASSUME NEW f \in UpFrame, Sends(<<f>>)
        PROVE  \A s \in Socks : peer'[s] = "none" => up'[s] = << >> /\ subs'[s] = {}
    <3>1. PICK frames : frames = <<f>>
      OBVIOUS
    <3>2. frames \in Seq(UpFrame)
      BY <3>1
    <3>3. QED
      BY <1>2, <2>2, <3>1, <3>2, SendsHook
  <2>3. QED
    BY <1>1, <2>1, <2>2
<1>5. HookInv'
  BY <1>1, <1>2, <1>4 DEF SyncInv, HookInv
<1>6. QED
  BY <1>3, <1>5 DEF SyncInv

\* Another's control: what the server arms changes, and every page is told.
LEMMA OthersControlFacts ==
    ASSUME SyncInv, NEW item \in Items, NEW type \in {"set", "clear"}, OthersControl(item, type)
    PROVE  /\ server' \in SUBSET Items /\ down' \in [Socks -> Seq(DownFrame)]
           /\ \A x \in Socks : down'[x] = IF x \in Viewers /\ x = ws
                                          THEN down[x] \o <<State(server')>> ELSE down[x]
           /\ UNCHANGED <<hook, page, up, serving, stored, peer, subs>>
<1>1. server' \in SUBSET Items /\ down' = Sent(StateSent(server'))
      /\ UNCHANGED <<hook, page, up, serving, stored, peer, subs>>
  BY DEF OthersControl, Changed, SyncInv, Typed
<1>2. QED
  BY <1>1, StateSentFacts DEF SyncInv

LEMMA OthersControlSync ==
    ASSUME SyncInv, NEW item \in Items, NEW type \in {"set", "clear"}, OthersControl(item, type)
    PROVE  SyncInv'
<1>1. /\ server' \in SUBSET Items /\ down' \in [Socks -> Seq(DownFrame)]
      /\ UNCHANGED <<hook, page, up, serving, stored, peer, subs>>
  BY OthersControlFacts
<1>2. UNCHANGED <<ws, phase, retry, retries, tokens, shown, heard, asked, have>>
  BY <1>1 DEF hook, page
<1>3. Typed'
  BY <1>1, <1>2 DEF SyncInv, Typed
<1>4. HookInv'
  BY <1>1, <1>2 DEF SyncInv, HookInv
<1>5. QED
  BY <1>3, <1>4 DEF SyncInv

LEMMA AcceptsSync == ASSUME SyncInv, NEW s \in Socks, Accepts(s) PROVE SyncInv'
<1>1. <<State(server)>> \in Seq(DownFrame)
  BY FramesTyped DEF SyncInv, Typed
<1>0. /\ serving /\ peer[s] = "none" /\ peer' \in [Socks -> {"none", "viewer", "anonymous"}]
      /\ \A x \in Socks : peer'[x] = "none" => peer[x] = "none"
      /\ down' = [down EXCEPT ![s] = <<State(server)>>]
      /\ UNCHANGED <<ws, phase, retry, retries, tokens, shown, heard, asked, have, up, serving, server, stored, subs>>
  BY DEF Accepts, SyncInv, Typed, hook, page
<1>2. down' \in [Socks -> Seq(DownFrame)]
  BY <1>0, <1>1 DEF SyncInv, Typed
<1>3. Typed'
  BY <1>0, <1>2 DEF SyncInv, Typed
<1>4. HookInv'
  BY <1>0 DEF SyncInv, HookInv
<1>5. QED
  BY <1>3, <1>4 DEF SyncInv

\* The server reads a frame: what is left, and what it does.
LEMMA HubReadsFacts ==
    ASSUME SyncInv, NEW s \in Socks, HubReads(s)
    PROVE  /\ s \in Viewers /\ up[s] # << >> /\ Head(up[s]) \in UpFrame
           /\ up' \in [Socks -> Seq(UpFrame)] /\ up' = [up EXCEPT ![s] = Tail(@)]
           /\ UNCHANGED <<hook, page, serving, stored, peer>>
           /\ \/ \E r \in Runs \cup {All} : Head(up[s]) = Subscribe(r) /\ Subscribed(s, r)
              \/ Head(up[s]).type # "subscribe" /\ Controlled(s, Head(up[s]))
<1>1. /\ s \in Viewers /\ up[s] # << >> /\ up' = [up EXCEPT ![s] = Tail(@)]
      /\ IF Head(up[s]).type = "subscribe" THEN Subscribed(s, Head(up[s]).run)
                                           ELSE Controlled(s, Head(up[s]))
      /\ UNCHANGED <<hook, page, serving, stored, peer>>
  BY DEF HubReads
<1>2. Head(up[s]) \in UpFrame /\ up' \in [Socks -> Seq(UpFrame)]
  BY <1>1, HeadUp DEF SyncInv
<1>3. CASE Head(up[s]).type = "subscribe"
  <2>1. Head(up[s]).run \in Runs \cup {All} /\ Head(up[s]) = Subscribe(Head(up[s]).run)
    BY <1>2, <1>3 DEF UpFrame, Subscribe
  <2>2. QED
    BY <1>1, <1>2, <1>3, <2>1
<1>4. QED
  BY <1>1, <1>2, <1>3

LEMMA HubReadsSync == ASSUME SyncInv, NEW s \in Socks, HubReads(s) PROVE SyncInv'
<1>1. /\ s \in Viewers /\ up[s] # << >> /\ Head(up[s]) \in UpFrame
      /\ up' \in [Socks -> Seq(UpFrame)] /\ up' = [up EXCEPT ![s] = Tail(@)]
      /\ UNCHANGED <<hook, page, serving, stored, peer>>
      /\ \/ \E r \in Runs \cup {All} : Subscribed(s, r)
         \/ Head(up[s]).type # "subscribe" /\ Controlled(s, Head(up[s]))
  BY HubReadsFacts
<1>2. /\ server' \in SUBSET Items /\ down' \in [Socks -> Seq(DownFrame)]
      /\ subs' \in [Socks -> SUBSET (Runs \cup {All})]
      /\ \A x \in Socks : x # s => subs'[x] = subs[x]
  BY <1>1, SubscribedFacts, ControlledFacts DEF SyncInv, Typed
<1>3. Typed'
  BY <1>1, <1>2 DEF SyncInv, Typed, hook, page
<1>4. HookInv'
  <2>1. UNCHANGED <<ws, phase, retry, heard, peer, serving>>
    BY <1>1 DEF hook, page
  <2>2. phase \in {"connecting", "open"} => s # ws
    BY <1>1 DEF SyncInv, HookInv
  <2>3. peer[s] # "none"
    BY <1>1 DEF Viewers
  <2>4. \A x \in Socks : x # s => up'[x] = up[x]
    BY <1>1
  <2>5. QED
    BY <1>2, <2>1, <2>2, <2>3, <2>4, HasSocket DEF SyncInv, HookInv
<1>5. QED
  BY <1>3, <1>4 DEF SyncInv

LEMMA HubLosesSync == ASSUME SyncInv, NEW s \in Socks, HubLoses(s) PROVE SyncInv'
<1>0. /\ s \in Viewers /\ peer' = [peer EXCEPT ![s] = "none"]
      /\ subs' = [subs EXCEPT ![s] = {}] /\ up' = [up EXCEPT ![s] = << >>]
      /\ UNCHANGED <<ws, phase, retry, retries, tokens, shown, heard, asked, have, down, serving, server, stored>>
  BY DEF HubLoses, hook, page
<1>1. Typed'
  BY <1>0 DEF SyncInv, Typed
<1>2. HookInv'
  BY <1>0, HasSocket DEF SyncInv, Typed, HookInv
<1>3. QED
  BY <1>1, <1>2 DEF SyncInv

LEMMA StoresSync ==
    ASSUME SyncInv, NEW r \in Runs, NEW update \in BOOLEAN, Stores(r, update) PROVE SyncInv'
<1>1. stored' \in [Runs -> Nat] /\ down' \in [Socks -> Seq(DownFrame)]
  BY StoresFacts DEF SyncInv
<1>2. QED
  BY <1>1 DEF Stores, SyncInv, Typed, HookInv, hook, page

LEMMA StopsSync == ASSUME SyncInv, Stops PROVE SyncInv'
<1>0. /\ serving' = FALSE /\ peer' = [s \in Socks |-> "none"] /\ subs' = [s \in Socks |-> {}]
      /\ up' = [s \in Socks |-> << >>]
      /\ UNCHANGED <<ws, phase, retry, retries, tokens, shown, heard, asked, have, down, server, stored>>
  BY DEF Stops, hook, page
<1>1. Typed'
  <2>1. << >> \in Seq(UpFrame)
    OBVIOUS
  <2>2. up' \in [Socks -> Seq(UpFrame)]
    BY <1>0, <2>1
  <2>3. QED
    BY <1>0, <2>2 DEF SyncInv, Typed
<1>2. HookInv'
  BY <1>0, HasSocket DEF SyncInv, HookInv
<1>3. QED
  BY <1>1, <1>2 DEF SyncInv

LEMMA ServesSync == ASSUME SyncInv, Serves PROVE SyncInv'
BY ViewerAssumption DEF Serves, SyncInv, Typed, HookInv, hook, page

LEMMA SyncStarts == Init => SyncInv
<1> SUFFICES ASSUME Init PROVE SyncInv
  OBVIOUS
<1>1. ws \in Socks /\ ws # None
  BY ViewerAssumption DEF Init
<1>2. << >> \in Seq(UpFrame) /\ << >> \in Seq(DownFrame)
  OBVIOUS
<1>3. up \in [Socks -> Seq(UpFrame)] /\ down \in [Socks -> Seq(DownFrame)]
  BY <1>2 DEF Init
<1>4. server \in SUBSET Items /\ serving \in BOOLEAN
  BY ViewerAssumption DEF Init
<1>5. Typed
  BY <1>1, <1>3, <1>4 DEF Init, Typed
<1>6. HookInv
  BY <1>1 DEF Init, HookInv
<1>7. QED
  BY <1>5, <1>6 DEF SyncInv

LEMMA SyncStep == SyncInv /\ [Next]_vars => SyncInv'
<1> SUFFICES ASSUME SyncInv, [Next]_vars PROVE SyncInv'
  OBVIOUS
<1>1. CASE UNCHANGED vars
  BY <1>1 DEF vars, hook, page, hub, SyncInv, Typed, HookInv
<1>2. CASE Next
  BY <1>2, RetryTimerSync, TokenChangesSync, OpensSync, ClosesSync, ListensSync, UnheardSync,
     ReadsSync, TogglesSync, OthersControlSync, AcceptsSync, HubReadsSync, HubLosesSync,
     StoresSync, StopsSync, ServesSync DEF Next
<1>3. QED
  BY <1>1, <1>2

-----------------------------------------------------------------------------
(* The last word on what is armed.                                         *)

Connected == phase # "closed" /\ peer[ws] # "none"

\* A step that is no word: what was said stands, and a toggle is requested.
LEMMA WordStands ==
    ASSUME WordInv,
           Connected' => /\ Connected /\ ws' = ws /\ server' = server
                         /\ Silent(down'[ws]) <=> Silent(down[ws])
                         /\ Says(down'[ws], server) <=> Says(down[ws], server),
           Connected' /\ phase' = "listening" /\ heard' =>
               \/ Requested'
               \/ phase = "listening" /\ heard /\ shown' = shown /\ ~Requested
    PROVE  WordInv'
BY DEF WordInv, Connected

\* A step that is one: the server's news are the last of the queue.
LEMMA WordGiven ==
    ASSUME Connected' => Says(down'[ws'], server')
    PROVE  WordInv'
<1>1. Connected' => ~Silent(down'[ws'])
  BY DEF Says, Silent
<1>2. QED
  BY <1>1 DEF WordInv, Connected

\* State(items) at the end of a queue.
LEMMA LastWord ==
    ASSUME NEW q \in Seq(DownFrame), NEW items \in SUBSET Items
    PROVE  Says(q \o <<State(items)>>, items) /\ Says(<<State(items)>>, items)
<1>1. PICK p : p = <<State(items)>>
  OBVIOUS
<1>2. p \in Seq(DownFrame) /\ Says(p, items)
  BY <1>1, FramesTyped DEF Says, State
<1>3. QED
  BY <1>1, <1>2, WordOfJoined

\* A frame more on the way to the server.
LEMMA RequestedGrows ==
    ASSUME SyncInv, NEW frames \in Seq(UpFrame), Sends(frames), ws' = ws, ws \in Viewers
    PROVE  /\ Requested => Requested'
           /\ (\E f : Has(frames, f) /\ f.type # "subscribe") => Requested'
           /\ \A f : Has(up'[ws], f) <=> Has(up[ws], f) \/ Has(frames, f)
<1>1. ws \in Socks /\ up[ws] \in Seq(UpFrame)
  BY DEF Viewers, SyncInv, Typed
<1>2. up'[ws] = up[ws] \o frames
  BY <1>1, SendsTyped DEF SyncInv
<1>3. \A f : Has(up'[ws], f) <=> Has(up[ws], f) \/ Has(frames, f)
  BY <1>1, <1>2, Joined
<1>4. Requested <=> \E f : Has(up[ws], f) /\ f.type # "subscribe"
  BY DEF Requested, Has
<1>5. Requested' <=> \E f : Has(up'[ws], f) /\ f.type # "subscribe"
  BY DEF Requested, Has
<1>6. QED
  BY <1>3, <1>4, <1>5

LEMMA HookWord ==
    ASSUME SyncInv, WordInv, RetryTimer \/ TokenChanges \/ Opens \/ Closes
    PROVE  WordInv'
<1>1. CASE RetryTimer \/ TokenChanges
  <2>1. peer'[ws'] = "none"
    BY <1>1, ConnectFacts DEF RetryTimer, TokenChanges, hub
  <2>2. QED
    BY <2>1 DEF WordInv
<1>2. CASE Opens
  BY <1>2, WordStands DEF Opens, Connected, page, hub
<1>3. CASE Closes
  BY <1>3 DEF Closes, WordInv
<1>4. QED
  BY <1>1, <1>2, <1>3

LEMMA ListensWord == ASSUME SyncInv, WordInv, Listens PROVE WordInv'
<1>1. /\ phase = "open" /\ UNCHANGED <<ws, heard, down, server, peer>>
  BY DEF Listens, hub
<1>2. ~heard
  BY <1>1 DEF SyncInv, HookInv
<1>3. QED
  BY <1>1, <1>2, WordStands DEF Connected

LEMMA UnheardWord == ASSUME SyncInv, WordInv, Unheard PROVE WordInv'
<1>1. /\ phase = "open" /\ ws \in Socks /\ down[ws] # << >> /\ down[ws] \in Seq(DownFrame)
      /\ down'[ws] = Tail(down[ws])
      /\ UNCHANGED <<ws, phase, heard, server, peer>>
  BY HasSocket DEF Unheard, SyncInv, Typed, hook, page, hub
<1>2. /\ Silent(down[ws]) => Silent(down'[ws])
      /\ Says(down[ws], server) => Says(down'[ws], server) \/ Silent(down'[ws])
  BY <1>1, WordOfTail
<1>3. QED
  BY <1>1, <1>2 DEF WordInv

LEMMA ReadsWord == ASSUME SyncInv, WordInv, Reads PROVE WordInv'
<1> DEFINE f == Head(down[ws])
           q == Tail(down[ws])
<1>1. /\ ws \in Socks /\ phase = "listening" /\ down[ws] # << >> /\ f \in DownFrame
      /\ down' = [down EXCEPT ![ws] = q] /\ down \in [Socks -> Seq(DownFrame)]
      /\ UNCHANGED <<hook, hub>>
      /\ ReadState(f) \/ ReadRuns(f) \/ ReadEvent(f)
  BY ReadsFacts DEF SyncInv, Typed
<1>2. down'[ws] = q /\ UNCHANGED <<ws, phase, server, peer>>
  BY <1>1 DEF hook, hub
<1>3. /\ Silent(down[ws]) <=> Silent(q) /\ f.type # "state"
      /\ \A items : Says(down[ws], items) <=>
            Says(q, items) \/ (Silent(q) /\ f.type = "state" /\ f.items = items)
  BY <1>1, WordOfTail
<1> HIDE DEF f, q
<1>4. CASE ReadState(f)
  <2>1. f.type = "state" /\ shown' = f.items
    BY <1>4 DEF ReadState
  <2>2. ASSUME Connected
        PROVE  Silent(q) \/ Says(q, server)
    BY <1>3, <2>1, <2>2 DEF Connected, WordInv
  <2>3. ASSUME Connected, Silent(q)
        PROVE  f.items = server
    <3>1. Says(down[ws], server)
      BY <1>3, <2>1, <2>3 DEF Connected, WordInv
    <3>2. ~Says(q, server)
      BY <2>3 DEF Silent, Says
    <3>3. QED
      BY <1>3, <3>1, <3>2
  <2>4. QED
    BY <1>2, <2>1, <2>2, <2>3 DEF Connected, WordInv
<1>5. CASE ReadRuns(f)
  <2>1. f.runs \in SUBSET Runs /\ f.type = "runs"
    BY <1>1, <1>5 DEF DownFrame, ReadRuns
  <2>2. PICK frames \in Seq(UpFrame) : Sends(frames)
    BY <1>5, <2>1, RequestsOf DEF ReadRuns
  <2>3. ws \in Viewers => (Requested => Requested')
    BY <1>2, <2>2, RequestedGrows
  <2>4. Connected => ws \in Viewers
    BY <1>1 DEF Connected, Viewers
  <2>5. QED
    BY <1>1, <1>2, <1>3, <1>5, <2>1, <2>3, <2>4, WordStands DEF Connected, ReadRuns
<1>6. CASE ReadEvent(f)
  BY <1>1, <1>2, <1>3, <1>6, WordStands DEF Connected, ReadEvent, Requested
<1>7. QED
  BY <1>1, <1>4, <1>5, <1>6

LEMMA TogglesWord == ASSUME SyncInv, WordInv, NEW item \in Items, Toggles(item) PROVE WordInv'
<1>1. /\ UNCHANGED <<ws, phase, heard, down, server, peer>>
      /\ \/ phase = "listening" /\ \E f \in UpFrame : f.type # "subscribe" /\ Sends(<<f>>)
         \/ phase # "listening"
  BY TogglesFacts DEF hook, hub
<1>2. ASSUME Connected, phase = "listening" PROVE Requested'
  <2>1. ws \in Viewers
    BY <1>2 DEF Connected, SyncInv, Typed, HookInv, Viewers
  <2>2. PICK f \in UpFrame : f.type # "subscribe" /\ Sends(<<f>>)
    BY <1>1, <1>2
  <2>3. PICK frames : frames = <<f>>
    OBVIOUS
  <2>4. frames \in Seq(UpFrame) /\ Has(frames, f)
    BY <2>3 DEF Has
  <2>5. QED
    BY <1>1, <2>1, <2>2, <2>3, <2>4, RequestedGrows
<1>3. QED
  BY <1>1, <1>2, WordStands DEF Connected

LEMMA OthersControlWord ==
    ASSUME SyncInv, WordInv, NEW item \in Items, NEW type \in {"set", "clear"}, OthersControl(item, type)
    PROVE  WordInv'
<1>1. /\ server' \in SUBSET Items
      /\ \A x \in Socks : down'[x] = IF x \in Viewers /\ x = ws
                                     THEN down[x] \o <<State(server')>> ELSE down[x]
      /\ UNCHANGED <<ws, phase, peer>>
  BY OthersControlFacts DEF hook
<1>2. Connected => ws \in Viewers /\ down[ws] \in Seq(DownFrame)
  BY DEF Connected, SyncInv, Typed, HookInv, Viewers
<1>3. Connected => Says(down'[ws], server')
  BY <1>1, <1>2, LastWord DEF Viewers
<1>4. QED
  BY <1>1, <1>3, WordGiven DEF Connected

LEMMA AcceptsWord == ASSUME SyncInv, WordInv, NEW s \in Socks, Accepts(s) PROVE WordInv'
<1>1. /\ s = ws /\ UNCHANGED <<ws, server>> /\ down'[ws] = <<State(server)>>
  BY DEF Accepts, SyncInv, Typed, hook
<1>2. Says(down'[ws], server)
  BY <1>1, LastWord DEF SyncInv, Typed
<1>3. QED
  BY <1>1, <1>2, WordGiven

LEMMA HubReadsWord == ASSUME SyncInv, WordInv, NEW s \in Socks, HubReads(s) PROVE WordInv'
<1>1. /\ s \in Viewers /\ up[s] # << >> /\ up' = [up EXCEPT ![s] = Tail(@)]
      /\ up[s] \in Seq(UpFrame) /\ up \in [Socks -> Seq(UpFrame)]
      /\ UNCHANGED <<ws, phase, shown, heard, peer>>
      /\ Head(up[s]) \in UpFrame
      /\ \/ \E r \in Runs \cup {All} : Head(up[s]) = Subscribe(r) /\ Subscribed(s, r)
         \/ Head(up[s]).type # "subscribe" /\ Controlled(s, Head(up[s]))
  BY HubReadsFacts DEF SyncInv, Typed, hook, page
<1>2. Connected => ws \in Viewers /\ ws \in Socks /\ down[ws] \in Seq(DownFrame)
  BY DEF Connected, SyncInv, Typed, HookInv, Viewers
<1>3. CASE \E r \in Runs \cup {All} : Head(up[s]) = Subscribe(r) /\ Subscribed(s, r)
  <2>1. PICK r \in Runs \cup {All} : Head(up[s]) = Subscribe(r) /\ Subscribed(s, r)
    BY <1>3
  <2>2. /\ server' = server
        /\ \A x \in Socks : down'[x] = IF x = s /\ x \in Viewers /\ x = ws
                                       THEN down[x] \o Answer(s, r) ELSE down[x]
        /\ Answer(s, r) \in Seq(DownFrame) /\ Silent(Answer(s, r))
    BY <2>1, SubscribedFacts, AnswerTyped DEF SyncInv
  <2>3. Connected => /\ Silent(down'[ws]) <=> Silent(down[ws])
                     /\ Says(down'[ws], server) <=> Says(down[ws], server)
    BY <1>2, <2>2, WordOfJoined
  <2>4. ~Requested' => ~Requested
    <3>1. CASE s = ws
      <4>1. \A f : Has(up[ws], f) <=> f = Subscribe(r) \/ Has(up'[ws], f)
        BY <1>1, <2>1, <3>1, Behead
      <4>2. Requested <=> \E f : Has(up[ws], f) /\ f.type # "subscribe"
        BY DEF Requested, Has
      <4>3. Requested' <=> \E f : Has(up'[ws], f) /\ f.type # "subscribe"
        BY <1>1 DEF Requested, Has
      <4>4. Subscribe(r).type = "subscribe"
        BY DEF Subscribe
      <4>5. QED
        BY <4>1, <4>2, <4>3, <4>4
    <3>2. CASE s # ws
      <4>1. up'[ws] = up[ws]
        BY <1>1, <3>2
      <4>2. QED
        BY <1>1, <4>1 DEF Requested
    <3>3. QED
      BY <3>1, <3>2
  <2>5. QED
    BY <1>1, <2>2, <2>3, <2>4, WordStands DEF Connected
<1>4. CASE Head(up[s]).type # "subscribe" /\ Controlled(s, Head(up[s]))
  <2>1. /\ server' \in SUBSET Items
        /\ \A x \in Socks :
              \/ down'[x] = down[x] /\ (server' = server \/ ~(x \in Viewers /\ x = ws))
              \/ x \in Viewers /\ x = ws /\ down'[x] = down[x] \o <<State(server')>>
        /\ s = ws /\ s \in Viewers => down'[s] = down[s] \o <<State(server')>>
    BY <1>1, <1>4, ControlledFacts DEF SyncInv
  <2>2. CASE Connected /\ down'[ws] = down[ws] \o <<State(server')>>
    <3>1. Says(down'[ws], server')
      BY <1>2, <2>1, <2>2, LastWord
    <3>2. QED
      BY <1>1, <3>1, WordGiven
  <2>3. CASE Connected /\ down'[ws] # down[ws] \o <<State(server')>>
    <3>1. server' = server /\ down'[ws] = down[ws] /\ s # ws
      BY <1>1, <1>2, <2>1, <2>3
    <3>2. up'[ws] = up[ws]
      BY <1>1, <3>1
    <3>3. Requested' <=> Requested
      BY <1>1, <3>2 DEF Requested
    <3>4. QED
      BY <1>1, <3>1, <3>3, WordStands DEF Connected
  <2>4. CASE ~Connected
    BY <1>1, <2>4, WordGiven DEF Connected
  <2>5. QED
    BY <2>2, <2>3, <2>4
<1>5. QED
  BY <1>1, <1>3, <1>4

LEMMA HubLosesWord == ASSUME SyncInv, WordInv, NEW s \in Socks, HubLoses(s) PROVE WordInv'
<1>1. /\ s \in Viewers /\ peer' = [peer EXCEPT ![s] = "none"] /\ up' = [up EXCEPT ![s] = << >>]
      /\ peer \in [Socks -> {"none", "viewer", "anonymous"}] /\ up \in [Socks -> Seq(UpFrame)]
      /\ UNCHANGED <<ws, phase, shown, heard, down, server>>
  BY DEF HubLoses, SyncInv, Typed, hook, page
<1>2. CASE s = ws
  BY <1>1, <1>2 DEF WordInv
<1>3. CASE s # ws
  <2>1. peer'[ws] = peer[ws] /\ up'[ws] = up[ws]
    BY <1>1, <1>3
  <2>2. Requested' <=> Requested
    BY <1>1, <2>1 DEF Requested
  <2>3. QED
    BY <1>1, <2>1, <2>2, WordStands DEF Connected
<1>4. QED
  BY <1>2, <1>3

LEMMA StoresWord ==
    ASSUME SyncInv, WordInv, NEW r \in Runs, NEW update \in BOOLEAN, Stores(r, update) PROVE WordInv'
<1>1. /\ \A x \in Socks : down'[x] = IF x \in Viewers /\ x = ws
                                     THEN down[x] \o News(x, r, update) ELSE down[x]
      /\ UNCHANGED <<ws, phase, shown, heard, up, server, peer>>
  BY StoresFacts DEF SyncInv, Stores, hook, page
<1>2. Connected => ws \in Viewers /\ ws \in Socks /\ down[ws] \in Seq(DownFrame)
  BY DEF Connected, SyncInv, Typed, HookInv, Viewers
<1>3. ASSUME Connected
      PROVE  /\ Silent(down'[ws]) <=> Silent(down[ws])
             /\ Says(down'[ws], server) <=> Says(down[ws], server)
  <2>1. News(ws, r, update) \in Seq(DownFrame) /\ Silent(News(ws, r, update))
    BY <1>2, <1>3, NewsIs DEF SyncInv
  <2>2. QED
    BY <1>1, <1>2, <1>3, <2>1, WordOfJoined
<1>4. Requested' <=> Requested
  BY <1>1 DEF Requested
<1>5. QED
  BY <1>1, <1>3, <1>4, WordStands DEF Connected

LEMMA WordStep == ASSUME SyncInv, WordInv, [Next]_vars PROVE WordInv'
<1>1. CASE UNCHANGED vars
  BY <1>1 DEF vars, hook, page, hub, WordInv, Requested
<1>2. CASE Stops
  <2>1. ~Connected'
    BY <1>2, HasSocket DEF Stops, Connected, hook
  <2>2. QED
    BY <2>1, WordGiven
<1>3. CASE Serves
  <2>1. ~Connected'
    BY <1>3, HasSocket DEF Serves, Connected, hook, SyncInv, HookInv
  <2>2. QED
    BY <2>1, WordGiven
<1>4. CASE Next /\ ~Stops /\ ~Serves
  BY <1>4, HookWord, ListensWord, UnheardWord, ReadsWord, TogglesWord, OthersControlWord,
     AcceptsWord, HubReadsWord, HubLosesWord, StoresWord DEF Next
<1>5. QED
  BY <1>1, <1>2, <1>3, <1>4

-----------------------------------------------------------------------------
(* What a linked page lacks.                                               *)

LEMMA AnnouncedIs ==
    ASSUME NEW r PROVE Announced(r) <=> \E f : Has(down[ws], f) /\ f.type = "runs" /\ r \in f.runs
BY DEF Announced, Has

\* A step that stores and reads no event, and takes nothing away from a page
\* that is linked but words on what is armed.
LEMMA TailStands ==
    ASSUME SyncInv, TailInv, UNCHANGED <<have, stored>>,
           \A s \in Socks, r \in Runs, n \in Nat :
              Has(down'[s], Event(r, n)) => Has(down[s], Event(r, n)),
           Linked' => /\ Linked /\ ws' = ws /\ asked' = asked /\ subs'[ws] = subs[ws]
                      /\ \A r \in Runs \cup {All} :
                            Has(up[ws], Subscribe(r)) => Has(up'[ws], Subscribe(r))
                      /\ \A f : f.type # "state" /\ Has(down[ws], f) => Has(down'[ws], f)
    PROVE  TailInv'
<1>1. /\ \A r \in Runs : have'[r] \subseteq 1..stored'[r]
      /\ \A s \in Socks, r \in Runs, n \in Nat : Has(down'[s], Event(r, n)) => n \in 1..stored'[r]
  BY DEF TailInv
<1>2. ASSUME Linked'
      PROVE  /\ All \in subs'[ws] \/ Has(up'[ws], Subscribe(All))
             /\ \A r \in asked : r \in subs'[ws] \/ Has(up'[ws], Subscribe(r))
             /\ \A r \in Runs : r \in subs'[ws] =>
                   \A n \in 1..stored[r] : n \in have[r] \/ Has(down'[ws], Event(r, n))
  <2>1. \A r, n : Event(r, n).type # "state"
    BY DEF Event
  <2>2. asked \subseteq Runs
    BY DEF SyncInv, Typed
  <2>3. All \in subs'[ws] \/ Has(up'[ws], Subscribe(All))
    BY <1>2 DEF TailInv
  <2>4. \A r \in asked : r \in subs'[ws] \/ Has(up'[ws], Subscribe(r))
    BY <1>2, <2>2 DEF TailInv
  <2>5. QED
    BY <1>2, <2>1, <2>3, <2>4 DEF TailInv
<1>3. ASSUME Linked', NEW r \in Runs, Announced(r) PROVE Announced(r)'
  <2>1. PICK f : Has(down[ws], f) /\ f.type = "runs" /\ r \in f.runs
    BY <1>3, AnnouncedIs
  <2>2. Has(down'[ws], f)
    BY <1>3, <2>1
  <2>3. PICK k \in DOMAIN down'[ws] : down'[ws][k] = f
    BY <2>2 DEF Has
  <2>4. QED
    BY <1>3, <2>1, <2>3 DEF Announced
<1>4. ASSUME Linked', All \in subs'[ws], NEW r \in Runs, stored[r] > 0 PROVE r \in asked \/ Announced(r)'
  BY <1>3, <1>4 DEF TailInv
<1>5. QED
  BY <1>1, <1>2, <1>4 DEF TailInv

\* The words put at the end of a queue and taken from its front are no events
\* and announce nothing.
LEMMA WordAdds ==
    ASSUME NEW q \in Seq(DownFrame), NEW items \in SUBSET Items
    PROVE  /\ \A f : Has(q, f) => Has(q \o <<State(items)>>, f)
           /\ \A f : Has(q \o <<State(items)>>, f) => Has(q, f) \/ f = State(items)
<1>1. PICK p : p = <<State(items)>>
  OBVIOUS
<1>2. p \in Seq(DownFrame) /\ \A f : Has(p, f) <=> f = State(items)
  BY <1>1, FramesTyped DEF Has
<1>3. QED
  BY <1>1, <1>2, Joined

\* An event is no word and no list.
LEMMA KindsApart ==
    ASSUME NEW items, NEW r, NEW n
    PROVE  /\ Event(r, n).type # "state" /\ Event(r, n) # State(items) /\ Event(r, n).type # "runs"
           /\ Event(r, n).run = r /\ Event(r, n).seq = n
<1>1. Event(r, n).type = "event" /\ State(items).type = "state"
  BY DEF Event, State
<1>2. QED
  BY <1>1 DEF Event

LEMMA LinkedIs ==
    SyncInv /\ Linked => ws \in Viewers /\ ws \in Socks /\ down[ws] \in Seq(DownFrame) /\ up[ws] \in Seq(UpFrame)
BY DEF Linked, SyncInv, Typed, HookInv, Viewers

LEMMA HookTail ==
    ASSUME SyncInv, TailInv, RetryTimer \/ TokenChanges \/ Opens \/ Closes PROVE TailInv'
<1>1. ~Linked' /\ UNCHANGED <<have, stored>>
  BY ConnectFacts DEF RetryTimer, TokenChanges, Opens, Closes, Linked, Connect, page, hub
<1>2. down \in [Socks -> Seq(DownFrame)]
  BY DEF SyncInv, Typed
<1>3. \A s \in Socks : down'[s] = down[s] \/ down'[s] = << >>
  BY <1>2 DEF RetryTimer, TokenChanges, Opens, Closes
<1>4. \A s \in Socks : \A f : Has(down'[s], f) => Has(down[s], f)
  BY <1>3 DEF Has
<1>5. QED
  BY <1>1, <1>4, TailStands

LEMMA ListensTail == ASSUME SyncInv, TailInv, Listens PROVE TailInv'
<1>1. /\ phase = "open" /\ asked' = {} /\ Sends(<<Subscribe(All)>>)
      /\ UNCHANGED <<ws, have, down, stored, peer, subs>>
  BY DEF Listens, hub
<1>2. subs[ws] = {}
  BY <1>1 DEF SyncInv, HookInv
<1>3. ASSUME peer[ws] # "none" PROVE Has(up'[ws], Subscribe(All))
  <2>1. PICK frames : frames = <<Subscribe(All)>>
    OBVIOUS
  <2>2. frames \in Seq(UpFrame) /\ Has(frames, Subscribe(All))
    BY <2>1, FramesTyped DEF Has
  <2>3. ws \in Viewers
    BY <1>1, <1>3, HasSocket DEF Viewers
  <2>4. QED
    BY <1>1, <2>1, <2>2, <2>3, RequestedGrows
<1>4. QED
  BY <1>1, <1>2, <1>3 DEF TailInv, Linked

LEMMA UnheardTail == ASSUME SyncInv, TailInv, Unheard PROVE TailInv'
<1>1. /\ phase = "open" /\ ws \in Socks /\ down[ws] # << >> /\ down \in [Socks -> Seq(DownFrame)]
      /\ down' = [down EXCEPT ![ws] = Tail(@)]
      /\ UNCHANGED <<phase, have, stored>>
  BY HasSocket DEF Unheard, SyncInv, Typed, hook, page, hub
<1>2. \A s \in Socks : \A f : Has(down'[s], f) => Has(down[s], f)
  BY <1>1, Behead
<1>3. QED
  BY <1>1, <1>2, TailStands DEF Linked

LEMMA TogglesTail == ASSUME SyncInv, TailInv, NEW item \in Items, Toggles(item) PROVE TailInv'
<1>1. /\ UNCHANGED <<ws, phase, asked, have, down, stored, peer, subs>>
      /\ \/ phase = "listening" /\ \E f \in UpFrame : f.type # "subscribe" /\ Sends(<<f>>)
         \/ phase # "listening"
  BY TogglesFacts DEF hook, hub
<1>2. ASSUME Linked, NEW f, Has(up[ws], f) PROVE Has(up'[ws], f)
  <2>1. PICK g \in UpFrame : Sends(<<g>>)
    BY <1>1, <1>2 DEF Linked
  <2>2. PICK frames : frames = <<g>>
    OBVIOUS
  <2>3. frames \in Seq(UpFrame)
    BY <2>2
  <2>4. QED
    BY <1>1, <1>2, <2>1, <2>2, <2>3, LinkedIs, RequestedGrows
<1>3. QED
  BY <1>1, <1>2, TailStands DEF Linked

LEMMA OthersControlTail ==
    ASSUME SyncInv, TailInv, NEW item \in Items, NEW type \in {"set", "clear"}, OthersControl(item, type)
    PROVE  TailInv'
<1>1. /\ server' \in SUBSET Items
      /\ \A x \in Socks : down'[x] = IF x \in Viewers /\ x = ws
                                     THEN down[x] \o <<State(server')>> ELSE down[x]
      /\ UNCHANGED <<ws, phase, asked, have, up, stored, peer, subs>>
  BY OthersControlFacts DEF hook, page
<1>2. \A x \in Socks : down[x] \in Seq(DownFrame)
  BY DEF SyncInv, Typed
<1>3. \A x \in Socks : \A f : Has(down[x], f) => Has(down'[x], f)
  BY <1>1, <1>2, WordAdds
<1>4. \A x \in Socks : \A f : Has(down'[x], f) => Has(down[x], f) \/ f = State(server')
  BY <1>1, <1>2, WordAdds
<1>5. \A x \in Socks, r \in Runs, n \in Nat :
         Has(down'[x], Event(r, n)) => Has(down[x], Event(r, n))
  BY <1>4, KindsApart
<1>6. Linked' => /\ Linked /\ ws \in Socks
                 /\ \A f : Has(down[ws], f) => Has(down'[ws], f)
  BY <1>1, <1>3, LinkedIs DEF Linked
<1>7. QED
  BY <1>1, <1>5, <1>6, TailStands

LEMMA AcceptsTail == ASSUME SyncInv, TailInv, NEW s \in Socks, Accepts(s) PROVE TailInv'
<1>1. /\ phase = "connecting" /\ UNCHANGED <<phase, have, stored>>
      /\ down \in [Socks -> Seq(DownFrame)] /\ down' = [down EXCEPT ![s] = <<State(server)>>]
  BY DEF Accepts, SyncInv, Typed, hook, page
<1>2. \A x \in Socks : \A f : Has(down'[x], f) => Has(down[x], f) \/ f = State(server)
  BY <1>1 DEF Has
<1>3. QED
  BY <1>1, <1>2, KindsApart, TailStands DEF Linked

LEMMA ReadsTail == ASSUME SyncInv, TailInv, Reads PROVE TailInv'
<1> DEFINE f == Head(down[ws])
<1>1. /\ ws \in Socks /\ phase = "listening" /\ down[ws] # << >> /\ f \in DownFrame
      /\ down' = [down EXCEPT ![ws] = Tail(@)] /\ down \in [Socks -> Seq(DownFrame)]
      /\ UNCHANGED <<hook, hub>>
      /\ ReadState(f) \/ ReadRuns(f) \/ ReadEvent(f)
  BY ReadsFacts DEF SyncInv, Typed
<1>2. UNCHANGED <<ws, phase, stored, peer, subs>>
  BY <1>1 DEF hook, hub
<1>3. \A g : Has(down[ws], g) <=> g = f \/ Has(down'[ws], g)
  BY <1>1, Behead
<1>4. \A s \in Socks : \A g : Has(down'[s], g) => Has(down[s], g)
  <2>1. \A s \in Socks : s # ws => down'[s] = down[s]
    BY <1>1
  <2>2. QED
    BY <1>3, <2>1
<1> HIDE DEF f
<1>5. CASE ReadState(f)
  BY <1>2, <1>3, <1>4, <1>5, TailStands DEF ReadState, Linked
<1>6. CASE ReadRuns(f)
  <2>1. f.runs \in SUBSET Runs /\ f.type = "runs"
    BY <1>1, <1>6 DEF DownFrame, ReadRuns
  <2>2. PICK runs \in SetToSeqs(f.runs \ asked) : Sends([i \in DOMAIN runs |-> Subscribe(runs[i])])
    BY <1>6 DEF ReadRuns
  <2>3. PICK frames : frames = [i \in DOMAIN runs |-> Subscribe(runs[i])]
    OBVIOUS
  <2>4. frames \in Seq(UpFrame) /\ \A r \in f.runs \ asked : Has(frames, Subscribe(r))
    BY <2>1, <2>3, RequestsOf
  <2>5. asked' = asked \cup f.runs /\ have' = have
    BY <1>6 DEF ReadRuns
  <2>6. \A r \in Runs : have'[r] \subseteq 1..stored'[r]
    BY <1>2, <2>5 DEF TailInv
  <2>7. \A s \in Socks, r \in Runs, n \in Nat : Has(down'[s], Event(r, n)) => n \in 1..stored'[r]
    BY <1>2, <1>4 DEF TailInv
  <2>8. ASSUME Linked'
        PROVE  /\ All \in subs'[ws] \/ Has(up'[ws], Subscribe(All))
               /\ \A r \in asked' : r \in subs'[ws] \/ Has(up'[ws], Subscribe(r))
               /\ \A r \in Runs : r \in subs'[ws] =>
                     \A n \in 1..stored'[r] : n \in have'[r] \/ Has(down'[ws], Event(r, n))
               /\ All \in subs'[ws] => \A r \in Runs : stored'[r] > 0 => r \in asked' \/ Announced(r)'
    <3>1. Linked /\ ws \in Viewers
      BY <1>2, <2>8, LinkedIs DEF Linked
    <3>2. \A g : Has(up'[ws], g) <=> Has(up[ws], g) \/ Has(frames, g)
      BY <1>2, <2>2, <2>3, <2>4, <3>1, RequestedGrows
    <3>3. All \in subs'[ws] \/ Has(up'[ws], Subscribe(All))
      BY <1>2, <3>1, <3>2 DEF TailInv
    <3>4. \A r \in asked' : r \in subs'[ws] \/ Has(up'[ws], Subscribe(r))
      BY <1>2, <2>4, <2>5, <3>1, <3>2 DEF TailInv
    <3>5. ASSUME NEW r \in Runs, r \in subs'[ws], NEW n \in 1..stored'[r]
          PROVE  n \in have'[r] \/ Has(down'[ws], Event(r, n))
      <4>1. n \in have[r] \/ Has(down[ws], Event(r, n))
        BY <1>2, <3>1, <3>5 DEF TailInv
      <4>2. Event(r, n) # f
        BY <2>1, KindsApart
      <4>3. QED
        BY <1>3, <2>5, <4>1, <4>2
    <3>6. ASSUME All \in subs'[ws], NEW r \in Runs, stored'[r] > 0 PROVE r \in asked' \/ Announced(r)'
      <4>1. r \in asked \/ Announced(r)
        BY <1>2, <3>1, <3>6 DEF TailInv
      <4>2. ASSUME Announced(r), r \notin f.runs PROVE Announced(r)'
        <5>1. PICK g : Has(down[ws], g) /\ g.type = "runs" /\ r \in g.runs
          BY <4>2, AnnouncedIs
        <5>2. Has(down'[ws], g)
          BY <1>3, <4>2, <5>1
        <5>3. PICK k \in DOMAIN down'[ws] : down'[ws][k] = g
          BY <5>2 DEF Has
        <5>4. QED
          BY <1>2, <5>1, <5>3 DEF Announced
      <4>3. QED
        BY <2>5, <4>1, <4>2
    <3>7. QED
      BY <3>3, <3>4, <3>5, <3>6
  <2>9. QED
    BY <1>2, <2>6, <2>7, <2>8 DEF TailInv
<1>7. CASE ReadEvent(f)
  <2>1. f.run \in Runs /\ f.seq \in Nat /\ f = Event(f.run, f.seq)
    BY <1>1, <1>7 DEF DownFrame, ReadEvent, Event
  <2>2. /\ have' = [have EXCEPT ![f.run] = @ \cup {f.seq}] /\ have \in [Runs -> SUBSET Nat]
        /\ asked' = asked /\ up' = up
    BY <1>7 DEF ReadEvent, SyncInv, Typed
  <2>3. f.seq \in 1..stored[f.run]
    BY <1>1, <1>3, <2>1 DEF TailInv
  <2>4. \A r \in Runs : have'[r] \subseteq 1..stored'[r] /\ have[r] \subseteq have'[r]
    BY <1>2, <2>1, <2>2, <2>3 DEF TailInv
  <2>5. \A s \in Socks, r \in Runs, n \in Nat : Has(down'[s], Event(r, n)) => n \in 1..stored'[r]
    BY <1>2, <1>4 DEF TailInv
  <2>6. ASSUME Linked', NEW r \in Runs, r \in subs'[ws], NEW n \in 1..stored'[r]
        PROVE  n \in have'[r] \/ Has(down'[ws], Event(r, n))
    <3>1. n \in have[r] \/ Has(down[ws], Event(r, n))
      BY <1>2, <2>6 DEF TailInv, Linked
    <3>2. CASE Event(r, n) = f
      <4>1. r = f.run /\ n = f.seq
        BY <3>2, KindsApart
      <4>2. QED
        BY <2>1, <2>2, <4>1
    <3>3. CASE Event(r, n) # f
      BY <1>3, <2>4, <3>1, <3>3
    <3>4. QED
      BY <3>2, <3>3
  <2>7. ASSUME NEW r \in Runs, Announced(r) PROVE Announced(r)'
    <3>1. PICK g : Has(down[ws], g) /\ g.type = "runs" /\ r \in g.runs
      BY <2>7, AnnouncedIs
    <3>2. f.type # "runs"
      BY <1>7 DEF ReadEvent
    <3>3. Has(down'[ws], g)
      BY <1>3, <3>1, <3>2
    <3>4. PICK k \in DOMAIN down'[ws] : down'[ws][k] = g
      BY <3>3 DEF Has
    <3>5. QED
      BY <1>2, <3>1, <3>4 DEF Announced
  <2>8. QED
    BY <1>2, <2>2, <2>4, <2>5, <2>6, <2>7 DEF TailInv, Linked
<1>8. QED
  BY <1>1, <1>5, <1>6, <1>7

LEMMA HubReadsTail == ASSUME SyncInv, TailInv, NEW s \in Socks, HubReads(s) PROVE TailInv'
<1>1. /\ s \in Viewers /\ up[s] # << >> /\ up' = [up EXCEPT ![s] = Tail(@)]
      /\ up[s] \in Seq(UpFrame) /\ up \in [Socks -> Seq(UpFrame)]
      /\ UNCHANGED <<ws, phase, asked, have, stored, peer>>
      /\ Head(up[s]) \in UpFrame
      /\ \/ \E r \in Runs \cup {All} : Head(up[s]) = Subscribe(r) /\ Subscribed(s, r)
         \/ Head(up[s]).type # "subscribe" /\ Controlled(s, Head(up[s]))
  BY HubReadsFacts DEF SyncInv, Typed, hook, page
<1>2. \A x \in Socks : down[x] \in Seq(DownFrame)
  BY DEF SyncInv, Typed
<1>3. \A f : Has(up[s], f) <=> f = Head(up[s]) \/ Has(up'[s], f)
  BY <1>1, Behead
<1>4. \A x \in Socks : x # s => up'[x] = up[x]
  BY <1>1
<1>5. CASE Head(up[s]).type # "subscribe" /\ Controlled(s, Head(up[s]))
  <2>1. /\ server' \in SUBSET Items /\ subs' = subs
        /\ \A x \in Socks : down'[x] = down[x] \/ down'[x] = down[x] \o <<State(server')>>
    BY <1>1, <1>5, ControlledFacts DEF SyncInv
  <2>2. \A x \in Socks : \A f : Has(down[x], f) => Has(down'[x], f)
    BY <1>2, <2>1, WordAdds
  <2>3. \A x \in Socks : \A f : Has(down'[x], f) => Has(down[x], f) \/ f = State(server')
    BY <1>2, <2>1, WordAdds
  <2>4. \A x \in Socks, r \in Runs, n \in Nat :
           Has(down'[x], Event(r, n)) => Has(down[x], Event(r, n))
    BY <2>3, KindsApart
  <2>5. \A r, x : x \in Socks /\ Has(up[x], Subscribe(r)) => Has(up'[x], Subscribe(r))
    <3>1. \A r : Subscribe(r).type = "subscribe"
      BY DEF Subscribe
    <3>2. QED
      BY <1>3, <1>4, <1>5, <3>1
  <2>6. Linked' => Linked /\ ws \in Socks
    BY <1>1, LinkedIs DEF Linked
  <2>7. QED
    BY <1>1, <2>1, <2>2, <2>4, <2>5, <2>6, TailStands
<1>6. CASE \E r \in Runs \cup {All} : Head(up[s]) = Subscribe(r) /\ Subscribed(s, r)
  <2>1. PICK r \in Runs \cup {All} : Head(up[s]) = Subscribe(r) /\ Subscribed(s, r)
    BY <1>6
  <2>2. /\ \A x \in Socks : down'[x] = IF x = s /\ x \in Viewers /\ x = ws
                                       THEN down[x] \o Answer(s, r) ELSE down[x]
        /\ \A x \in Socks : subs'[x] = IF x = s THEN subs[x] \cup {r} ELSE subs[x]
        /\ Answer(s, r) \in Seq(DownFrame)
    BY <2>1, SubscribedFacts, AnswerTyped DEF SyncInv
  <2>3. \A x \in Socks : \A f : Has(down[x], f) => Has(down'[x], f)
    BY <1>2, <2>2, Joined
  <2>4. \A x \in Socks : \A f : Has(down'[x], f) => Has(down[x], f) \/ Has(Answer(s, r), f)
    BY <1>2, <2>2, Joined
  <2>5. \A q \in Runs, n \in Nat : Has(Answer(s, r), Event(q, n)) => n \in 1..stored[q]
    <3>1. CASE r = All
      <4>1. \A f : Has(Answer(s, r), f) => f.type = "runs"
        BY <3>1 DEF Answer, Has, Listing
      <4>2. QED
        BY <4>1, KindsApart
    <3>2. CASE r # All /\ r \in subs[s]
      BY <3>2 DEF Answer, Has
    <3>3. CASE r # All /\ r \notin subs[s]
      <4>1. Answer(s, r) = Replay(r) /\ r \in Runs
        BY <3>3 DEF Answer
      <4>2. \A f : Has(Replay(r), f) => \E n \in 1..stored[r] : f = Event(r, n)
        BY <4>1, ReplayIs DEF SyncInv
      <4>3. QED
        BY <4>1, <4>2, KindsApart
    <3>4. QED
      BY <3>1, <3>2, <3>3
  <2>6. \A x \in Socks, q \in Runs, n \in Nat : Has(down'[x], Event(q, n)) => n \in 1..stored'[q]
    BY <1>1, <2>4, <2>5 DEF TailInv
  <2>7. ASSUME Linked'
        PROVE  /\ All \in subs'[ws] \/ Has(up'[ws], Subscribe(All))
               /\ \A q \in asked' : q \in subs'[ws] \/ Has(up'[ws], Subscribe(q))
               /\ \A q \in Runs : q \in subs'[ws] =>
                     \A n \in 1..stored'[q] : n \in have'[q] \/ Has(down'[ws], Event(q, n))
               /\ All \in subs'[ws] => \A q \in Runs : stored'[q] > 0 => q \in asked' \/ Announced(q)'
    <3>1. Linked /\ ws \in Viewers /\ ws \in Socks
      BY <1>1, <2>7, LinkedIs DEF Linked
    <3>2. \A q : Has(up[ws], Subscribe(q)) => Has(up'[ws], Subscribe(q)) \/ q \in subs'[ws]
      <4>1. \A q : Subscribe(q) = Subscribe(r) => q = r
        BY DEF Subscribe
      <4>2. QED
        BY <1>3, <1>4, <2>1, <2>2, <3>1, <4>1
    <3>3. subs[ws] \subseteq subs'[ws]
      BY <2>2, <3>1
    <3>4. All \in subs'[ws] \/ Has(up'[ws], Subscribe(All))
      BY <3>1, <3>2, <3>3 DEF TailInv
    <3>5. \A q \in asked' : q \in subs'[ws] \/ Has(up'[ws], Subscribe(q))
      BY <1>1, <3>1, <3>2, <3>3 DEF TailInv
    <3>6. ASSUME NEW q \in Runs, q \in subs'[ws], NEW n \in 1..stored'[q]
          PROVE  n \in have'[q] \/ Has(down'[ws], Event(q, n))
      <4>1. CASE q \in subs[ws]
        BY <1>1, <2>3, <3>1, <3>6, <4>1 DEF TailInv
      <4>2. CASE q \notin subs[ws]
        <5>1. q = r /\ ws = s /\ r # All
          BY <2>2, <3>1, <3>6, <4>2, ViewerAssumption
        <5>2. Answer(s, r) = Replay(r)
          BY <4>2, <5>1 DEF Answer
        <5>3. Has(Answer(s, r), Event(q, n))
          BY <1>1, <3>6, <5>1, <5>2, ReplayIs DEF SyncInv
        <5>4. Has(down'[ws], Event(q, n))
          BY <1>2, <2>2, <3>1, <5>1, <5>3, Joined
        <5>5. QED
          BY <5>4
      <4>3. QED
        BY <4>1, <4>2
    <3>7. ASSUME All \in subs'[ws], NEW q \in Runs, stored'[q] > 0 PROVE q \in asked' \/ Announced(q)'
      <4>1. CASE All \in subs[ws]
        <5>1. q \in asked \/ Announced(q)
          BY <1>1, <3>1, <3>7, <4>1 DEF TailInv
        <5>2. ASSUME Announced(q) PROVE Announced(q)'
          <6>1. PICK g : Has(down[ws], g) /\ g.type = "runs" /\ q \in g.runs
            BY <5>2, AnnouncedIs
          <6>2. PICK k \in DOMAIN down'[ws] : down'[ws][k] = g
            BY <2>3, <3>1, <6>1 DEF Has
          <6>3. QED
            BY <1>1, <6>1, <6>2 DEF Announced
        <5>3. QED
          BY <1>1, <5>1, <5>2
      <4>2. CASE All \notin subs[ws]
        <5>1. r = All /\ ws = s
          BY <2>2, <3>1, <3>7, <4>2
        <5>2. PICK g : g = Listing({x \in Runs : stored[x] > 0})
          OBVIOUS
        <5>3. Answer(s, r) = <<g>> /\ g.type = "runs" /\ q \in g.runs
          BY <1>1, <3>7, <5>1, <5>2 DEF Answer, Listing
        <5>4. Has(Answer(s, r), g)
          BY <5>3 DEF Has
        <5>5. Has(down'[ws], g)
          BY <1>2, <2>2, <3>1, <5>1, <5>4, Joined
        <5>6. PICK k \in DOMAIN down'[ws] : down'[ws][k] = g
          BY <5>5 DEF Has
        <5>7. QED
          BY <1>1, <5>3, <5>6 DEF Announced
      <4>3. QED
        BY <4>1, <4>2
    <3>8. QED
      BY <3>4, <3>5, <3>6, <3>7
  <2>8. QED
    BY <1>1, <2>6, <2>7 DEF TailInv
<1>7. QED
  BY <1>1, <1>5, <1>6

LEMMA HubLosesTail == ASSUME SyncInv, TailInv, NEW s \in Socks, HubLoses(s) PROVE TailInv'
<1>1. /\ s \in Viewers /\ peer' = [peer EXCEPT ![s] = "none"] /\ up' = [up EXCEPT ![s] = << >>]
      /\ subs' = [subs EXCEPT ![s] = {}]
      /\ peer \in [Socks -> {"none", "viewer", "anonymous"}] /\ up \in [Socks -> Seq(UpFrame)]
      /\ subs \in [Socks -> SUBSET (Runs \cup {All})]
      /\ UNCHANGED <<ws, phase, asked, have, down, stored>>
  BY DEF HubLoses, SyncInv, Typed, hook, page
<1>2. CASE s = ws
  BY <1>1, <1>2, TailStands DEF Linked
<1>3. CASE s # ws
  <2>1. peer'[ws] = peer[ws] /\ up'[ws] = up[ws] /\ subs'[ws] = subs[ws]
    BY <1>1, <1>3
  <2>2. QED
    BY <1>1, <2>1, TailStands DEF Linked
<1>4. QED
  BY <1>2, <1>3

LEMMA StoresTail ==
    ASSUME SyncInv, TailInv, NEW r \in Runs, NEW update \in BOOLEAN, Stores(r, update) PROVE TailInv'
<1>1. /\ stored'[r] = stored[r] + 1 /\ \A q \in Runs : q # r => stored'[q] = stored[q]
      /\ \A x \in Socks : down'[x] = IF x \in Viewers /\ x = ws
                                     THEN down[x] \o News(x, r, update) ELSE down[x]
      /\ UNCHANGED <<ws, phase, asked, have, up, peer, subs>>
      /\ stored[r] = 0 => update
  BY StoresFacts DEF SyncInv, Stores, hook, page
<1>2. \A x \in Socks : down[x] \in Seq(DownFrame)
  BY DEF SyncInv, Typed
<1>3. \A q \in Runs : stored[q] \in Nat
  BY DEF SyncInv, Typed
<1>4. \A q \in Runs : 1..stored[q] \subseteq 1..stored'[q]
  BY <1>1, <1>3
<1>5. \A x \in Socks :
         /\ News(x, r, update) \in Seq(DownFrame)
         /\ update /\ All \in subs[x] => Has(News(x, r, update), Listing({r}))
         /\ r \in subs[x] => Has(News(x, r, update), Event(r, stored[r] + 1))
         /\ \A f : Has(News(x, r, update), f) => f = Listing({r}) \/ f = Event(r, stored[r] + 1)
  BY NewsIs DEF SyncInv
<1>6. \A x \in Socks : \A f : Has(down[x], f) => Has(down'[x], f)
  BY <1>1, <1>2, <1>5, Joined
<1>7. \A x \in Socks : \A f :
         Has(down'[x], f) => Has(down[x], f) \/ f = Listing({r}) \/ f = Event(r, stored[r] + 1)
  <2>1. ASSUME NEW x \in Socks, NEW f, Has(down'[x], f)
        PROVE  Has(down[x], f) \/ Has(News(x, r, update), f)
    <3>1. down'[x] = down[x] \/ down'[x] = down[x] \o News(x, r, update)
      BY <1>1
    <3>2. down[x] \in Seq(DownFrame) /\ News(x, r, update) \in Seq(DownFrame)
      BY <1>2, <1>5
    <3>3. Has(down[x] \o News(x, r, update), f) => Has(down[x], f) \/ Has(News(x, r, update), f)
      BY <3>2, Joined
    <3>4. QED
      BY <2>1, <3>1, <3>3
  <2>2. QED
    BY <1>5, <2>1
<1>8. \A q \in Runs : have'[q] \subseteq 1..stored'[q]
  BY <1>1, <1>4 DEF TailInv
<1>9. ASSUME NEW x \in Socks, NEW q \in Runs, NEW n \in Nat, Has(down'[x], Event(q, n))
      PROVE  n \in 1..stored'[q]
  <2>1. Event(q, n) # Listing({r})
    BY DEF Event, Listing
  <2>2. CASE Has(down[x], Event(q, n))
    BY <1>4, <2>2 DEF TailInv
  <2>3. CASE Event(q, n) = Event(r, stored[r] + 1)
    <3>1. q = r /\ n = stored[r] + 1
      BY <2>3, KindsApart
    <3>2. QED
      BY <1>1, <1>3, <3>1
  <2>4. QED
    BY <1>7, <1>9, <2>1, <2>2, <2>3
<1>10. ASSUME Linked'
       PROVE  /\ All \in subs'[ws] \/ Has(up'[ws], Subscribe(All))
              /\ \A q \in asked' : q \in subs'[ws] \/ Has(up'[ws], Subscribe(q))
              /\ \A q \in Runs : q \in subs'[ws] =>
                    \A n \in 1..stored'[q] : n \in have'[q] \/ Has(down'[ws], Event(q, n))
              /\ All \in subs'[ws] => \A q \in Runs : stored'[q] > 0 => q \in asked' \/ Announced(q)'
  <2>1. Linked /\ ws \in Viewers /\ ws \in Socks
    BY <1>1, <1>10, LinkedIs DEF Linked
  <2>2. down'[ws] = down[ws] \o News(ws, r, update)
    BY <1>1, <2>1
  <2>3. \A f : Has(News(ws, r, update), f) => Has(down'[ws], f)
    BY <1>2, <1>5, <2>1, <2>2, Joined
  <2>4. ASSUME NEW q \in Runs, q \in subs'[ws], NEW n \in 1..stored'[q]
        PROVE  n \in have'[q] \/ Has(down'[ws], Event(q, n))
    <3>1. CASE n \in 1..stored[q]
      BY <1>1, <1>6, <2>1, <2>4, <3>1 DEF TailInv
    <3>2. CASE n \notin 1..stored[q]
      <4>1. q = r /\ n = stored[r] + 1
        BY <1>1, <1>3, <2>4, <3>2
      <4>2. Has(News(ws, r, update), Event(r, stored[r] + 1))
        BY <1>1, <1>5, <2>1, <2>4, <4>1
      <4>3. QED
        BY <2>3, <4>1, <4>2
    <3>3. QED
      BY <3>1, <3>2
  <2>5. ASSUME NEW q \in Runs, NEW g, Has(down'[ws], g), g.type = "runs", q \in g.runs
        PROVE  Announced(q)'
    <3>1. PICK k \in DOMAIN down'[ws] : down'[ws][k] = g
      BY <2>5 DEF Has
    <3>2. QED
      BY <1>1, <2>5, <3>1 DEF Announced
  <2>6. ASSUME All \in subs'[ws], NEW q \in Runs, stored'[q] > 0 PROVE q \in asked' \/ Announced(q)'
    <3>1. CASE stored[q] > 0
      <4>1. q \in asked \/ Announced(q)
        BY <1>1, <2>1, <2>6, <3>1 DEF TailInv
      <4>2. ASSUME Announced(q) PROVE Announced(q)'
        <5>1. PICK g : Has(down[ws], g) /\ g.type = "runs" /\ q \in g.runs
          BY <4>2, AnnouncedIs
        <5>2. QED
          BY <1>6, <2>1, <2>5, <5>1
      <4>3. QED
        BY <1>1, <4>1, <4>2
    <3>2. CASE ~(stored[q] > 0)
      <4>1. q = r /\ update
        BY <1>1, <1>3, <2>6, <3>2
      <4>2. Has(down'[ws], Listing({r}))
        BY <1>1, <1>5, <2>1, <2>3, <2>6, <4>1
      <4>3. Listing({r}).type = "runs" /\ r \in Listing({r}).runs
        BY DEF Listing
      <4>4. QED
        BY <2>5, <4>1, <4>2, <4>3
    <3>3. QED
      BY <3>1, <3>2
  <2>7. QED
    BY <1>1, <2>1, <2>4, <2>6 DEF TailInv
<1>11. QED
  BY <1>1, <1>8, <1>9, <1>10 DEF TailInv

LEMMA TailStep == ASSUME SyncInv, TailInv, [Next]_vars PROVE TailInv'
<1>1. CASE UNCHANGED vars
  BY <1>1 DEF vars, hook, page, hub, TailInv, Linked, Announced
<1>2. CASE Stops
  <2>1. ~Linked'
    BY <1>2, HasSocket DEF Stops, Linked, hook
  <2>2. UNCHANGED <<have, stored, down>>
    BY <1>2 DEF Stops, page
  <2>3. QED
    BY <2>1, <2>2, TailStands
<1>3. CASE Serves
  BY <1>3 DEF Serves, hook, page, TailInv, Linked, Announced
<1>4. CASE Next /\ ~Stops /\ ~Serves
  BY <1>4, HookTail, ListensTail, UnheardTail, ReadsTail, TogglesTail, OthersControlTail,
     AcceptsTail, HubReadsTail, HubLosesTail, StoresTail DEF Next
<1>5. QED
  BY <1>1, <1>2, <1>3, <1>4

-----------------------------------------------------------------------------
(* The theorems.                                                           *)

ViewerInv == SyncInv /\ WordInv /\ TailInv

\* The invariant, for every number of sockets, runs, frames and restarts.
THEOREM ViewerInvHolds == Spec => []ViewerInv
<1>1. Init => ViewerInv
  <2> SUFFICES ASSUME Init PROVE ViewerInv
    OBVIOUS
  <2>1. SyncInv
    BY SyncStarts
  <2>2. /\ ~Linked /\ peer[ws] = "none"
        /\ \A s \in Socks : down[s] = << >>
        /\ \A r \in Runs : have[r] = {}
    BY <2>1 DEF Init, Linked, SyncInv, Typed, HookInv
  <2>3. WordInv
    BY <2>2 DEF WordInv
  <2>4. \A s \in Socks : \A f : ~Has(down[s], f)
    BY <2>2 DEF Has
  <2>5. TailInv
    BY <2>2, <2>4 DEF TailInv
  <2>6. QED
    BY <2>1, <2>3, <2>5 DEF ViewerInv
<1>2. ViewerInv /\ [Next]_vars => ViewerInv'
  BY SyncStep, WordStep, TailStep DEF ViewerInv
<1>3. QED
  BY <1>1, <1>2, PTL DEF Spec

\* Every variable keeps its type.
THEOREM TypeCorrect == Spec => []Typed
<1>1. ViewerInv => Typed
  BY DEF ViewerInv, SyncInv
<1>2. QED
  BY <1>1, ViewerInvHolds, PTL

\* A page that was told what is armed shows it once what is under way has
\* arrived: optimistic toggles (BreakpointDot), their refusals and the
\* changes of others may cross in any order (handleControl, onMessage).
THEOREM PageShowsWhatIsArmed == Spec => []ShowsWhatIsArmed
<1>1. ASSUME ViewerInv PROVE ShowsWhatIsArmed
  <2> SUFFICES ASSUME Linked, ~Requested, Told PROVE WillShow(down[ws], server)
    BY DEF ShowsWhatIsArmed
  <2>1. /\ Silent(down[ws]) \/ Says(down[ws], server)
        /\ heard /\ Silent(down[ws]) => shown = server
    BY <1>1 DEF ViewerInv, WordInv, Linked
  <2>2. Silent(down[ws]) => heard
    BY DEF Told, Silent
  <2>3. QED
    BY <2>1, <2>2, WordIs
<1>2. QED
  BY <1>1, ViewerInvHolds, PTL

\* No event falls between a replay and the tail, and no run between the list
\* and its updates (handleSubscribe, handleIngestFrame, onMessage).
THEOREM NothingIsMissed == Spec => []NothingMissed
<1>1. ASSUME ViewerInv PROVE NothingMissed
  <2> SUFFICES ASSUME Linked, ~Has(up[ws], Subscribe(All)), NEW r \in Runs,
                      ~Has(up[ws], Subscribe(r)),
                      ~\E i \in DOMAIN down[ws] : down[ws][i].type = "runs" /\ r \in down[ws][i].runs \ asked
               PROVE  have[r] \cup Coming(r) = 1..stored[r]
    BY DEF NothingMissed, Has
  <2>1. TailInv /\ stored[r] \in Nat /\ have[r] \subseteq Nat /\ ws \in Socks /\ down[ws] \in Seq(DownFrame)
    BY <1>1, LinkedIs DEF ViewerInv, SyncInv, Typed
  <2>2. \A n : n \in Coming(r) => n \in Nat /\ Has(down[ws], Event(r, n))
    <3>1. ASSUME NEW n \in Coming(r) PROVE n \in Nat /\ Has(down[ws], Event(r, n))
      <4>1. PICK i \in DOMAIN down[ws] :
               down[ws][i].type = "event" /\ down[ws][i].run = r /\ n = down[ws][i].seq
        BY <3>1 DEF Coming
      <4>2. down[ws][i] \in DownFrame
        BY <2>1
      <4>3. n \in Nat /\ down[ws][i] = Event(r, n)
        BY <4>1, <4>2 DEF DownFrame, Event
      <4>4. QED
        BY <4>1, <4>3 DEF Has
    <3>2. QED
      BY <3>1
  <2>3. have[r] \subseteq 1..stored[r] /\ Coming(r) \subseteq 1..stored[r]
    BY <2>1, <2>2 DEF TailInv
  <2>4. ASSUME NEW n \in 1..stored[r] PROVE n \in have[r] \cup Coming(r)
    <3>1. stored[r] > 0
      BY <2>1, <2>4
    <3>2. All \in subs[ws]
      BY <2>1 DEF TailInv
    <3>3. r \in asked
      BY <2>1, <3>1, <3>2 DEF TailInv, Announced
    <3>4. r \in subs[ws]
      BY <2>1, <3>3 DEF TailInv
    <3>5. n \in have[r] \/ Has(down[ws], Event(r, n))
      BY <2>1, <2>4, <3>4 DEF TailInv
    <3>6. ASSUME Has(down[ws], Event(r, n)) PROVE n \in Coming(r)
      <4>1. PICK i \in DOMAIN down[ws] : down[ws][i] = Event(r, n)
        BY <3>6 DEF Has
      <4>2. QED
        BY <4>1 DEF Coming, Event
    <3>7. QED
      BY <3>5, <3>6
  <2>5. QED
    BY <2>3, <2>4
<1>2. QED
  BY <1>1, ViewerInvHolds, PTL
=============================================================================
