------------------------ MODULE RunOwnership_proofs ------------------------
(***************************************************************************)
(* Proofs about RunOwnership: a run that one claim-aware application began *)
(* is never written by another in the life of a process, and (with one     *)
(* process on a database at a time) a run that is streamed is not listed   *)
(* as abandoned, one that is not is watched, and one in flight keeps its   *)
(* claim.                                                                  *)
(***************************************************************************)
EXTENDS RunOwnership, TLAPS

Statuses == {"none", "running", "finished", "abandoned"}
Mem == [st : {"off", "up", "down"}, swept : BOOLEAN,
        owner : [Runs -> Conns \cup {None}], claim : [Runs -> Claim \cup {NoClaim}],
        sealed : SUBSET Runs, timers : SUBSET Runs, writers : [Runs -> SUBSET Clients]]
Links == [st : {"new", "live", "gone"}, hub : Hubs \cup {None}, client : Clients \cup {None},
          sent : 0..MaxEvents, read : 0..MaxEvents]

TypeInv ==
    /\ mem \in [Hubs -> Mem]
    /\ status \in [Runs -> Statuses]
    /\ stored \in [Runs -> SUBSET (1..MaxEvents)]
    /\ log \in [Clients -> Logs]
    /\ link \in [Clients -> Conns \cup {None}]
    /\ conn \in [Conns -> Links]
    /\ \A o \in Conns :
          /\ conn[o].st = "live" => conn[o].hub \in Up /\ conn[o].client \in Clients
          /\ conn[o].st # "live" => conn[o].read = 0

-----------------------------------------------------------------------------
(* Claims.                                                                 *)

LEMMA NoneFacts ==
    /\ None \notin Conns /\ None \notin Clients /\ None \notin Hubs
    /\ \A c \in Clients, o \in Conns : c # o
    /\ \A c \in Strict : c \in Clients
    /\ MaxEvents \in Nat
BY OwnershipAssumption DEF Conns, Hubs

LEMMA IdleFacts ==
    /\ Idle \in Mem /\ Idle.st = "off" /\ ~Idle.swept /\ Idle.sealed = {} /\ Idle.timers = {}
    /\ \A r \in Runs : Idle.owner[r] = None /\ Idle.claim[r] = NoClaim /\ Idle.writers[r] = {}
BY DEF Idle, Mem, Conns

LEMMA ClaimFacts ==
    /\ NoClaim.token = None /\ NoClaim.ended = "no"
    /\ \A c \in Claim : c # NoClaim /\ c.token \in Tokens /\ c.ended \in {"no", "finished", "abandoned"}
BY OwnershipAssumption DEF NoClaim, Claim, Tokens, Conns

LEMMA NewClaimFacts ==
    ASSUME NEW o \in Conns, conn[o].client \in Clients
    PROVE  /\ NewClaim(o) \in Claim /\ NewClaim(o).ended = "no"
           /\ NewClaim(o).strict <=> NewClaim(o).token \in Strict
           /\ conn[o].client \in Strict => NewClaim(o).token = conn[o].client
           /\ \A c \in Strict : NewClaim(o).token = c => conn[o].client = c
<1>1. CASE conn[o].client \in Strict
  <2>1. NewClaim(o) = [token |-> conn[o].client, strict |-> TRUE, ended |-> "no"]
    BY <1>1 DEF NewClaim
  <2>2. /\ NewClaim(o).token = conn[o].client /\ NewClaim(o).strict = TRUE
        /\ NewClaim(o).ended = "no" /\ NewClaim(o) \in Claim
    BY <2>1 DEF Claim, Tokens
  <2>3. QED
    BY <1>1, <2>2
<1>2. CASE conn[o].client \notin Strict
  <2>1. NewClaim(o) = [token |-> o, strict |-> FALSE, ended |-> "no"]
    <3>1. (conn[o].client \in Strict) = FALSE
      BY <1>2
    <3>2. QED
      BY <1>2, <3>1 DEF NewClaim
  <2>2. QED
    BY <1>2, <2>1, NoneFacts DEF Claim, Tokens
<1>3. QED
  BY <1>1, <1>2

\* What admitting a frame of run r does to another run q: nothing, or q was a
\* sealed one that is forgotten, or its claim was the one to make room.
Spared(m, n, q) ==
    n.claim[q] = m.claim[q] /\ n.writers[q] = m.writers[q] /\ (q \in n.sealed <=> q \in m.sealed)
Forgotten(m, n, q) ==
    n.claim[q] = m.claim[q] /\ n.writers[q] = {} /\ q \in m.sealed /\ q \notin n.sealed
Evicted(m, n, o, q) ==
    /\ n.claim[q] = NoClaim /\ m.claim[q] # NoClaim /\ n.writers[q] = m.writers[q]
    /\ \/ q \in Abandoned(m) /\ q \in n.sealed
       \/ q \in Finished(m) /\ (q \in n.sealed <=> q \in m.sealed)
       \/ q \in OwnLoose(m, o) /\ (q \in n.sealed <=> q \in m.sealed)

\* checkClaim: the claim k that run r has once a frame of it is admitted, and why.
Claiming(m, k, o, r) ==
    \/ Unclaimed(m, o, r) /\ k = NewClaim(o)
    \/ m.claim[r] # NoClaim /\ m.claim[r].token = NewClaim(o).token /\ k = m.claim[r]
    \/ m.claim[r] # NoClaim /\ ~m.claim[r].strict /\ m.owner[r] = None /\ k = NewClaim(o)

SealedUnclaimed(m) == \A q \in m.sealed : m.claim[q] = NoClaim

\* What is true of process n when m made room by giving up the claim of v.
EvictedFor(m, n, o, v) ==
    /\ v \in Claimed(m) /\ n \in Mem
    /\ n.st = m.st /\ n.swept = m.swept /\ n.owner = m.owner /\ n.timers = m.timers
    /\ n.claim = [m.claim EXCEPT ![v] = NoClaim]
    /\ Evicted(m, n, o, v)
    /\ \A q \in Runs : q # v => Spared(m, n, q) \/ Forgotten(m, n, q)
    /\ \A q \in Runs : q \notin m.sealed /\ q # v => q \notin n.sealed /\ n.writers[q] = m.writers[q]

\* evictClaimFor, of one victim.
LEMMA EvictShape ==
    ASSUME NEW m \in Mem, SealedUnclaimed(m), NEW o, NEW v \in Victims(m, o), NEW n \in Evict(m, v)
    PROVE  EvictedFor(m, n, o, v)
<1>1. /\ v \in Claimed(m) /\ v \in Runs /\ m.claim[v] # NoClaim
      /\ v \in Finished(m) \/ v \in Abandoned(m) \/ v \in OwnLoose(m, o)
  BY DEF Victims, Finished, Abandoned, OwnLoose, Claimed
<1>2. v \notin m.sealed
  BY <1>1 DEF SealedUnclaimed
<1> DEFINE gone == [m EXCEPT !.claim[v] = NoClaim]
           full == m.sealed \cup {v}
<1>3. /\ gone \in Mem /\ gone.st = m.st /\ gone.swept = m.swept /\ gone.owner = m.owner
      /\ gone.timers = m.timers /\ gone.claim = [m.claim EXCEPT ![v] = NoClaim]
      /\ gone.sealed = m.sealed /\ gone.writers = m.writers
  BY <1>1 DEF Mem
<1>4. CASE v \notin Abandoned(m)
  <2>1. n = gone
    BY <1>4 DEF Evict
  <2>2. QED
    BY <1>1, <1>2, <1>3, <1>4, <2>1 DEF EvictedFor, Evicted, Spared, Mem
<1>5. CASE v \in Abandoned(m) /\ Cardinality(full) <= MaxSealed
  <2>1. n = [gone EXCEPT !.sealed = full]
    BY <1>5 DEF Evict
  <2>2. /\ n \in Mem /\ n.st = m.st /\ n.swept = m.swept /\ n.owner = m.owner /\ n.timers = m.timers
        /\ n.claim = gone.claim /\ n.sealed = full /\ n.writers = m.writers
    BY <1>1, <1>3, <2>1 DEF Mem
  <2>3. QED
    BY <1>1, <1>2, <1>3, <1>5, <2>2 DEF EvictedFor, Evicted, Spared, Mem
<1>6. CASE v \in Abandoned(m) /\ ~(Cardinality(full) <= MaxSealed)
  <2>1. PICK x \in m.sealed : n = [gone EXCEPT !.sealed = full \ {x}, !.writers[x] = {}]
    BY <1>6 DEF Evict
  <2>2. x \in Runs /\ x # v
    BY <1>2 DEF Mem
  <2>3. /\ n \in Mem /\ n.st = m.st /\ n.swept = m.swept /\ n.owner = m.owner /\ n.timers = m.timers
        /\ n.claim = gone.claim /\ n.sealed = full \ {x} /\ n.writers = [m.writers EXCEPT ![x] = {}]
    BY <1>1, <1>3, <2>1, <2>2 DEF Mem
  <2>4. QED
    BY <1>1, <1>2, <1>3, <1>6, <2>2, <2>3 DEF EvictedFor, Evicted, Spared, Forgotten, Mem
<1>7. QED
  BY <1>4, <1>5, <1>6

\* What is true of process n when m admitted a frame of run r.
AdmittedBy(m, n, o, r) ==
    /\ n \in Mem
    /\ n.st = m.st /\ n.swept = m.swept /\ n.owner = m.owner /\ n.timers = m.timers
    /\ Claiming(m, n.claim[r], o, r)
    /\ r \notin m.sealed /\ r \notin n.sealed /\ n.writers[r] = m.writers[r]
    /\ \A q \in Runs : q # r => Spared(m, n, q) \/ Forgotten(m, n, q) \/ Evicted(m, n, o, q)

\* checkClaim, of an admitted frame of run r.
LEMMA AdmitShape ==
    ASSUME NEW m \in Mem, SealedUnclaimed(m), NEW o \in Conns, NewClaim(o) \in Claim,
           NEW r \in Runs, NEW n \in Admits(m, o, r)
    PROVE  AdmittedBy(m, n, o, r)
<1> DEFINE new == NewClaim(o)
<1>1. CASE Unclaimed(m, o, r)
  <2>1. PICK k : /\ n = [k EXCEPT !.claim[r] = new]
                 /\ k = m \/ \E v \in Victims(m, o) : k \in Evict(m, v)
    <3>1. n \in {[k EXCEPT !.claim[r] = new] :
                    k \in IF Cardinality(Claimed(m)) < MaxClaims THEN {m}
                          ELSE UNION {Evict(m, v) : v \in Victims(m, o)}}
      BY <1>1 DEF Admits
    <3>2. QED
      BY <3>1
  <2>2. r \notin m.sealed /\ m.claim[r] = NoClaim
    BY <1>1 DEF Unclaimed
  <2>3. /\ k \in Mem /\ k.st = m.st /\ k.swept = m.swept /\ k.owner = m.owner /\ k.timers = m.timers
        /\ r \notin k.sealed /\ k.writers[r] = m.writers[r]
        /\ \A q \in Runs : q # r => Spared(m, k, q) \/ Forgotten(m, k, q) \/ Evicted(m, k, o, q)
    <3>1. CASE k = m
      BY <2>2, <3>1 DEF Spared
    <3>2. ASSUME NEW v \in Victims(m, o), k \in Evict(m, v)
          PROVE  /\ k \in Mem /\ k.st = m.st /\ k.swept = m.swept /\ k.owner = m.owner /\ k.timers = m.timers
                 /\ r \notin k.sealed /\ k.writers[r] = m.writers[r]
                 /\ \A q \in Runs : q # r => Spared(m, k, q) \/ Forgotten(m, k, q) \/ Evicted(m, k, o, q)
      <4>1. EvictedFor(m, k, o, v)
        BY <3>2, EvictShape
      <4>2. v # r
        BY <2>2, <4>1 DEF EvictedFor, Claimed
      <4>3. \A q \in Runs : q # r => Spared(m, k, q) \/ Forgotten(m, k, q) \/ Evicted(m, k, o, q)
        BY <4>1 DEF EvictedFor
      <4>4. QED
        BY <2>2, <4>1, <4>2, <4>3 DEF EvictedFor
    <3>3. QED
      BY <2>1, <3>1, <3>2
  <2>4. /\ n \in Mem /\ n.st = k.st /\ n.swept = k.swept /\ n.owner = k.owner /\ n.timers = k.timers
        /\ n.sealed = k.sealed /\ n.writers = k.writers /\ n.claim[r] = new
        /\ \A q \in Runs : q # r => n.claim[q] = k.claim[q]
    BY <2>1, <2>3 DEF Mem
  <2>5. QED
    BY <1>1, <2>2, <2>3, <2>4 DEF AdmittedBy, Spared, Forgotten, Evicted, Claiming
<1>2. CASE ~Unclaimed(m, o, r)
  <2>1. /\ m.claim[r] # NoClaim
        /\ \/ m.claim[r].token = new.token /\ n = m
           \/ /\ ~m.claim[r].strict /\ m.owner[r] = None
              /\ n = [m EXCEPT !.claim[r] = new]
    BY <1>2 DEF Admits
  <2>2. r \notin m.sealed
    BY <2>1 DEF SealedUnclaimed
  <2>3. /\ n \in Mem /\ n.st = m.st /\ n.swept = m.swept /\ n.owner = m.owner /\ n.timers = m.timers
        /\ n.sealed = m.sealed /\ n.writers = m.writers
        /\ n.claim[r] \in {new, m.claim[r]}
        /\ \A q \in Runs : q # r => n.claim[q] = m.claim[q]
    BY <2>1 DEF Mem
  <2>4. Claiming(m, n.claim[r], o, r)
    BY <2>1, <2>3 DEF Claiming, Mem
  <2>5. QED
    BY <2>2, <2>3, <2>4 DEF AdmittedBy, Spared
<1>3. QED
  BY <1>1, <1>2

\* What is true of process t when n took the frame f.
TakenBy(n, t, o, f) ==
    /\ t \in Mem /\ t.st = n.st /\ t.swept = n.swept /\ t.sealed = n.sealed
    /\ t.owner = [n.owner EXCEPT ![f.run] = o]
    /\ t.writers = [n.writers EXCEPT ![f.run] = @ \cup {conn[o].client}]
    /\ t.claim[f.run].token = n.claim[f.run].token /\ t.claim[f.run].strict = n.claim[f.run].strict
    /\ t.claim[f.run] # NoClaim
    /\ t.claim[f.run].ended =
          IF f.seq \notin stored[f.run] /\ f.last THEN "finished"
          ELSE IF n.owner[f.run] # o /\ n.claim[f.run].ended = "abandoned" THEN "no"
          ELSE n.claim[f.run].ended
    /\ \A q \in Runs : q # f.run => t.claim[q] = n.claim[q]
    /\ t.timers \subseteq n.timers /\ n.timers \ {f.run} \subseteq t.timers

\* Taking the frame: the run is the connection's, and its client wrote it.
LEMMA TakeShape ==
    ASSUME NEW n \in Mem, NEW o \in Conns, conn[o].client \in Clients, NEW f, f.run \in Runs,
           n.claim[f.run] # NoClaim
    PROVE  TakenBy(n, Take(n, o, f), o, f)
<1> DEFINE t == Take(n, o, f)
           was == n.claim[f.run]
           ended == IF f.seq \notin stored[f.run] /\ f.last THEN "finished"
                    ELSE IF n.owner[f.run] # o /\ was.ended = "abandoned" THEN "no"
                    ELSE was.ended
<1>1. was \in Claim /\ ended \in {"no", "finished", "abandoned"}
  BY ClaimFacts DEF Mem
<1>2. [was EXCEPT !.ended = ended] \in Claim
  BY <1>1 DEF Claim
<1>3. t = [n EXCEPT !.owner[f.run] = o, !.claim[f.run].ended = ended,
                    !.timers = IF n.owner[f.run] # o THEN @ \ {f.run} ELSE @,
                    !.writers[f.run] = @ \cup {conn[o].client}]
  BY DEF Take
<1> HIDE DEF ended, t
<1>4. /\ t.st = n.st /\ t.swept = n.swept /\ t.sealed = n.sealed
      /\ t.owner = [n.owner EXCEPT ![f.run] = o]
      /\ t.writers = [n.writers EXCEPT ![f.run] = @ \cup {conn[o].client}]
      /\ t.claim = [n.claim EXCEPT ![f.run] = [@ EXCEPT !.ended = ended]]
      /\ t.timers \subseteq n.timers /\ n.timers \ {f.run} \subseteq t.timers
      /\ DOMAIN t = DOMAIN n
  BY <1>3 DEF Mem
<1>5. /\ t.claim[f.run] \in Claim /\ t.claim[f.run].token = was.token
      /\ t.claim[f.run].strict = was.strict /\ t.claim[f.run].ended = ended
      /\ \A q \in Runs : q # f.run => t.claim[q] = n.claim[q]
  BY <1>1, <1>2, <1>4 DEF Mem, Claim
<1>6. t \in Mem
  BY <1>2, <1>3 DEF Mem
<1>7. QED
  BY <1>4, <1>5, <1>6, ClaimFacts DEF TakenBy, t, ended

\* What happens to the process (m, then t) when it admits and takes frame f of
\* connection o; k is the claim the admission leaves.
Admission(m, t, o, f, k) ==
    /\ t \in Mem /\ t.st = m.st /\ t.swept = m.swept
    /\ t.owner = [m.owner EXCEPT ![f.run] = o]
    /\ f.run \notin m.sealed /\ f.run \notin t.sealed
    /\ t.writers[f.run] = m.writers[f.run] \cup {conn[o].client}
    /\ k \in Claim /\ Claiming(m, k, o, f.run)
    /\ t.claim[f.run].token = k.token /\ t.claim[f.run].strict = k.strict
    /\ t.claim[f.run] # NoClaim
    /\ t.claim[f.run].ended = IF f.seq \notin stored[f.run] /\ f.last THEN "finished"
                              ELSE IF m.owner[f.run] # o /\ k.ended = "abandoned" THEN "no"
                              ELSE k.ended
    /\ \A q \in Runs : q # f.run => Spared(m, t, q) \/ Forgotten(m, t, q) \/ Evicted(m, t, o, q)
    /\ t.timers \subseteq m.timers /\ m.timers \ {f.run} \subseteq t.timers

\* The same, with what happens to the database.
Reading(h, o, f, k) ==
    /\ f \in Frame
    /\ Admission(mem[h], mem'[h], o, f, k)
    /\ \A g \in Hubs \ {h} : mem'[g] = mem[g]
    /\ status' = [status EXCEPT ![f.run] = StatusAfter(mem[h], o, f)]
    /\ stored' = [stored EXCEPT ![f.run] = @ \cup {f.seq}]

LEMMA AdmissionShape ==
    ASSUME NEW m, NEW n, NEW o \in Conns, conn[o].client \in Clients, NEW f \in Frame,
           AdmittedBy(m, n, o, f.run), n.claim[f.run] # NoClaim
    PROVE  Admission(m, Take(n, o, f), o, f, n.claim[f.run])
<1> DEFINE t == Take(n, o, f)
<1>1. n \in Mem /\ f.run \in Runs
  BY DEF AdmittedBy, Frame
<1>2. TakenBy(n, t, o, f)
  BY <1>1, TakeShape
<1>3. n.claim[f.run] \in Claim
  BY <1>1 DEF Mem
<1> HIDE DEF t
<1>4. ASSUME NEW q \in Runs, q # f.run
      PROVE  Spared(m, t, q) \/ Forgotten(m, t, q) \/ Evicted(m, t, o, q)
  <2>1. Spared(m, n, q) \/ Forgotten(m, n, q) \/ Evicted(m, n, o, q)
    BY <1>4 DEF AdmittedBy
  <2>2. t.claim[q] = n.claim[q] /\ t.writers[q] = n.writers[q] /\ t.sealed = n.sealed
    BY <1>1, <1>2, <1>4 DEF TakenBy, Mem
  <2>3. QED
    BY <2>1, <2>2 DEF Spared, Forgotten, Evicted
<1>5. t.writers[f.run] = n.writers[f.run] \cup {conn[o].client}
  BY <1>1, <1>2 DEF TakenBy, Mem
<1>6. Admission(m, t, o, f, n.claim[f.run])
  BY <1>2, <1>3, <1>4, <1>5 DEF AdmittedBy, TakenBy, Admission
<1>7. QED
  BY <1>6 DEF t

LEMMA ReadShape ==
    ASSUME TypeInv, \A h \in Hubs : SealedUnclaimed(mem[h]), NEW o \in Conns, HubReads(o)
    PROVE  /\ conn[o].st = "live" /\ conn[o].hub \in Up /\ conn[o].client \in Clients
           /\ conn[o].read + 1 \in 1..MaxEvents
           /\ \/ mem' = mem /\ status' = status /\ stored' = stored
              \/ \E f, k : Reading(conn[o].hub, o, f, k)
<1> DEFINE h == conn[o].hub
           m == mem[h]
           f == log[conn[o].client][conn[o].read + 1]
<1>1. conn[o].st = "live" /\ h \in Up /\ conn[o].client \in Clients /\ h \in Hubs
  BY DEF HubReads, TypeInv, Up
<1>2. conn[o].read + 1 \in 1..MaxEvents
  <2>1. conn[o].read \in 0..MaxEvents /\ Reaches(o) \in 0..MaxEvents
    BY NoneFacts DEF TypeInv, Links, Reaches
  <2>2. conn[o].read < Reaches(o)
    BY DEF HubReads
  <2>3. QED
    BY <2>1, <2>2, NoneFacts
<1>3. f \in Frame
  BY <1>1, <1>2 DEF TypeInv, Logs
<1>4. m \in Mem /\ SealedUnclaimed(m)
  BY <1>1 DEF TypeInv
<1>5. CASE Admits(m, o, f.run) = {}
  BY <1>1, <1>2, <1>5 DEF HubReads, db
<1>6. CASE Admits(m, o, f.run) # {}
  <2>1. PICK n \in Admits(m, o, f.run) :
               /\ mem' = [mem EXCEPT ![h] = Take(n, o, f)]
               /\ status' = [status EXCEPT ![f.run] = StatusAfter(n, o, f)]
               /\ stored' = [stored EXCEPT ![f.run] = @ \cup {f.seq}]
    BY <1>6 DEF HubReads
  <2> HIDE DEF f, m
  <2>2. AdmittedBy(m, n, o, f.run)
    BY <1>1, <1>3, <1>4, <2>1, NewClaimFacts, AdmitShape DEF Frame
  <2>3. n.claim[f.run] # NoClaim
    <3>1. NewClaim(o) # NoClaim
      BY <1>1, NewClaimFacts, ClaimFacts
    <3>2. QED
      BY <2>2, <3>1 DEF AdmittedBy, Claiming
  <2>4. Admission(m, Take(n, o, f), o, f, n.claim[f.run])
    BY <1>1, <1>3, <2>2, <2>3, AdmissionShape
  <2>5. StatusAfter(n, o, f) = StatusAfter(m, o, f)
    BY <2>2 DEF StatusAfter, AdmittedBy
  <2>6. mem'[h] = Take(n, o, f) /\ \A g \in Hubs \ {h} : mem'[g] = mem[g]
    BY <1>1, <2>1 DEF TypeInv
  <2>7. Reading(h, o, f, n.claim[f.run])
    BY <1>3, <2>1, <2>4, <2>5, <2>6 DEF Reading, m
  <2>8. QED
    BY <1>1, <1>2, <2>7
<1>7. QED
  BY <1>5, <1>6

-----------------------------------------------------------------------------
(* Types.                                                                  *)

LEMMA TypeInit == Init => TypeInv
<1> SUFFICES ASSUME Init PROVE TypeInv
  OBVIOUS
<1>1. Unused \in Links /\ Unused.st = "new" /\ Unused.read = 0
  BY NoneFacts DEF Unused, Links
<1>2. QED
  BY <1>1, IdleFacts DEF Init, TypeInv, Statuses

LEMMA GoneFacts == Gone \in Links /\ Gone.st = "gone" /\ Gone.read = 0
BY NoneFacts DEF Gone, Unused, Links

\* What an abandon timer does to its process.
Timed(h, r) ==
    /\ mem'[h] \in Mem /\ mem'[h].st = mem[h].st /\ mem'[h].swept = mem[h].swept
    /\ mem'[h].owner = mem[h].owner /\ mem'[h].sealed = mem[h].sealed
    /\ mem'[h].writers = mem[h].writers /\ mem'[h].timers = mem[h].timers \ {r}
    /\ \A q \in Runs :
          \/ mem'[h].claim[q] = mem[h].claim[q]
          \/ /\ q = r /\ mem[h].owner[r] = None /\ status[r] = "running"
             /\ mem[h].claim[r] # NoClaim /\ mem[h].claim[r].ended = "no"
             /\ mem'[h].claim[r] = [mem[h].claim[r] EXCEPT !.ended = "abandoned"]
    /\ \A g \in Hubs \ {h} : mem'[g] = mem[g]

LEMMA TimerShape ==
    ASSUME TypeInv, NEW h \in Hubs, NEW r \in Runs, AbandonTimer(h, r)
    PROVE  Timed(h, r)
<1> DEFINE was == mem[h].claim[r]
           now == IF was # NoClaim /\ was.ended = "no" THEN [was EXCEPT !.ended = "abandoned"] ELSE was
<1>1. mem[h] \in Mem /\ was \in Claim \cup {NoClaim}
  BY DEF TypeInv, Mem
<1>2. CASE mem[h].owner[r] = None /\ status[r] = "running"
  <2>1. mem' = [mem EXCEPT ![h] = [mem[h] EXCEPT !.timers = @ \ {r}, !.claim[r] = now]]
    BY <1>2 DEF AbandonTimer
  <2>2. /\ now \in Claim \cup {NoClaim}
        /\ \/ now = was
           \/ was # NoClaim /\ was.ended = "no" /\ now = [was EXCEPT !.ended = "abandoned"]
    <3>1. was # NoClaim => [was EXCEPT !.ended = "abandoned"] \in Claim
      BY <1>1 DEF Claim
    <3>2. QED
      BY <1>1, <3>1
  <2> HIDE DEF now
  <2>3. mem'[h] = [mem[h] EXCEPT !.timers = @ \ {r}, !.claim[r] = now]
    BY <2>1 DEF TypeInv
  <2>4. /\ mem'[h] \in Mem /\ mem'[h].claim = [mem[h].claim EXCEPT ![r] = now]
        /\ mem'[h].st = mem[h].st /\ mem'[h].swept = mem[h].swept
        /\ mem'[h].owner = mem[h].owner /\ mem'[h].sealed = mem[h].sealed
        /\ mem'[h].writers = mem[h].writers /\ mem'[h].timers = mem[h].timers \ {r}
    <3>1. [mem[h].claim EXCEPT ![r] = now] \in [Runs -> Claim \cup {NoClaim}]
      BY <1>1, <2>2 DEF Mem
    <3>2. mem'[h] = [mem[h] EXCEPT !.timers = mem[h].timers \ {r}, !.claim = [mem[h].claim EXCEPT ![r] = now]]
      BY <2>3
    <3>3. QED
      BY <1>1, <3>1, <3>2 DEF Mem
  <2>5. \A q \in Runs : mem'[h].claim[q] = IF q = r THEN now ELSE mem[h].claim[q]
    BY <1>1, <2>4 DEF Mem
  <2>6. \A g \in Hubs \ {h} : mem'[g] = mem[g]
    BY <2>1 DEF TypeInv
  <2>7. QED
    BY <1>2, <2>2, <2>4, <2>5, <2>6 DEF Timed
<1>3. CASE ~(mem[h].owner[r] = None /\ status[r] = "running")
  <2>1. mem' = [mem EXCEPT ![h] = [mem[h] EXCEPT !.timers = @ \ {r}]]
    BY <1>3 DEF AbandonTimer
  <2>2. mem'[h] = [mem[h] EXCEPT !.timers = @ \ {r}] /\ \A g \in Hubs \ {h} : mem'[g] = mem[g]
    BY <2>1 DEF TypeInv
  <2>3. QED
    BY <1>1, <2>2 DEF Timed, Mem
<1>4. QED
  BY <1>2, <1>3

\* What the loss of a connection does to its process h.
Lost(h, o) ==
    /\ mem'[h] \in Mem /\ mem'[h].st = mem[h].st /\ mem'[h].swept = mem[h].swept
    /\ mem'[h].claim = mem[h].claim /\ mem'[h].sealed = mem[h].sealed
    /\ mem'[h].writers = mem[h].writers
    /\ \A r \in Runs : mem'[h].owner[r] = IF mem[h].owner[r] = o THEN None ELSE mem[h].owner[r]
    /\ \A r \in Runs : r \in mem'[h].timers <=> r \in mem[h].timers \/ mem[h].owner[r] = o
    /\ \A g \in Hubs \ {h} : mem'[g] = mem[g]

LEMMA LossShape ==
    ASSUME TypeInv, NEW o \in Conns, HubLoses(o), conn[o].hub \in Hubs
    PROVE  Lost(conn[o].hub, o)
<1> DEFINE h == conn[o].hub
           runs == {r \in Runs : mem[h].owner[r] = o}
           owner == [r \in Runs |-> IF r \in runs THEN None ELSE mem[h].owner[r]]
<1>1. mem' = [mem EXCEPT ![h] = [mem[h] EXCEPT !.owner = owner, !.timers = mem[h].timers \cup runs]]
  BY DEF HubLoses
<1>2. owner \in [Runs -> Conns \cup {None}] /\ mem[h] \in Mem
  BY DEF TypeInv, Mem
<1>3. mem'[h] = [mem[h] EXCEPT !.owner = owner, !.timers = mem[h].timers \cup runs]
      /\ \A g \in Hubs \ {h} : mem'[g] = mem[g]
  BY <1>1 DEF TypeInv
<1>4. \A r \in Runs : owner[r] = IF mem[h].owner[r] = o THEN None ELSE mem[h].owner[r]
  OBVIOUS
<1> HIDE DEF owner
<1>5. runs \subseteq Runs /\ mem[h].timers \subseteq Runs /\ \A r \in Runs : r \in runs <=> mem[h].owner[r] = o
  BY <1>2 DEF Mem
<1> HIDE DEF runs
<1>6. /\ mem'[h] \in Mem /\ mem'[h].st = mem[h].st /\ mem'[h].swept = mem[h].swept
      /\ mem'[h].claim = mem[h].claim /\ mem'[h].sealed = mem[h].sealed
      /\ mem'[h].writers = mem[h].writers /\ mem'[h].owner = owner
      /\ mem'[h].timers = mem[h].timers \cup runs
  BY <1>2, <1>3, <1>5 DEF Mem
<1>7. QED
  BY <1>3, <1>4, <1>5, <1>6 DEF Lost

LEMMA TypeStep ==
    ASSUME TypeInv, \A h \in Hubs : SealedUnclaimed(mem[h]), [Next]_vars
    PROVE  TypeInv'
<1>1. ASSUME NEW h \in Hubs, Start(h) PROVE TypeInv'
  <2>1. mem' = [mem EXCEPT ![h] = [mem[h] EXCEPT !.st = "up"]]
    BY <1>1 DEF Start
  <2>2. mem[h] \in Mem
    BY DEF TypeInv
  <2>3. mem'[h] \in Mem /\ mem'[h].st = "up"
    BY <2>1, <2>2 DEF TypeInv, Mem
  <2>4. mem' \in [Hubs -> Mem] /\ Up \subseteq Up'
    BY <2>1, <2>2, <2>3 DEF TypeInv, Up
  <2>5. QED
    BY <1>1, <2>4 DEF Start, TypeInv, db
<1>2. ASSUME NEW h \in Hubs, Stop(h) PROVE TypeInv'
  <2>1. [Idle EXCEPT !.st = "down"] \in Mem
    BY IdleFacts DEF Mem
  <2>2. mem' \in [Hubs -> Mem] /\ Up \ {h} \subseteq Up'
    <3>1. mem' = [mem EXCEPT ![h] = [Idle EXCEPT !.st = "down"]]
      BY <1>2 DEF Stop
    <3>2. \A g \in Hubs \ {h} : mem'[g] = mem[g]
      BY <3>1 DEF TypeInv
    <3>3. mem' \in [Hubs -> Mem]
      BY <2>1, <3>1 DEF TypeInv
    <3>4. \A g \in Up \ {h} : g \in Hubs /\ mem'[g].st = "up"
      BY <3>2 DEF Up
    <3>5. QED
      BY <3>3, <3>4 DEF Up
  <2>3. \A o \in Conns : conn'[o] = Gone \/ (conn'[o] = conn[o] /\ conn[o].hub # h)
    BY <1>2 DEF Stop
  <2>4. conn' \in [Conns -> Links]
    BY <1>2, GoneFacts DEF Stop, TypeInv
  <2>5. ASSUME NEW o \in Conns
        PROVE  /\ conn'[o].st = "live" => conn'[o].hub \in Up' /\ conn'[o].client \in Clients
               /\ conn'[o].st # "live" => conn'[o].read = 0
    <3>1. CASE conn'[o] = Gone
      BY <3>1, GoneFacts
    <3>2. CASE conn'[o] = conn[o] /\ conn[o].hub # h
      BY <2>2, <3>2 DEF TypeInv
    <3>3. QED
      BY <2>3, <3>1, <3>2
  <2>6. QED
    BY <1>2, <2>2, <2>4, <2>5 DEF Stop, TypeInv, db
<1>3. ASSUME NEW h \in Hubs, Sweep(h) PROVE TypeInv'
  <2>1. mem' = [mem EXCEPT ![h] = [mem[h] EXCEPT !.swept = TRUE]]
    BY <1>3 DEF Sweep
  <2>2. mem'[h] \in Mem /\ mem'[h].st = mem[h].st
    <3>1. mem'[h] = [mem[h] EXCEPT !.swept = TRUE] /\ mem[h] \in Mem
      BY <2>1 DEF TypeInv
    <3>2. QED
      BY <3>1 DEF Mem
  <2>3. mem' \in [Hubs -> Mem] /\ Up' = Up
    BY <2>1, <2>2 DEF TypeInv, Up
  <2>4. status' \in [Runs -> Statuses]
    BY <1>3 DEF Sweep, TypeInv, Statuses
  <2>5. QED
    BY <1>3, <2>3, <2>4 DEF Sweep, TypeInv
<1>4. ASSUME NEW h \in Hubs, NEW r \in Runs, AbandonTimer(h, r) PROVE TypeInv'
  <2>1. mem'[h] \in Mem /\ mem'[h].st = mem[h].st /\ \A g \in Hubs \ {h} : mem'[g] = mem[g]
    BY <1>4, TimerShape DEF Timed
  <2>2. mem' \in [Hubs -> Mem] /\ Up' = Up
    BY <1>4, <2>1 DEF AbandonTimer, TypeInv, Up
  <2>3. status' \in [Runs -> Statuses]
    BY <1>4 DEF AbandonTimer, TypeInv, Statuses
  <2>4. QED
    BY <1>4, <2>2, <2>3 DEF AbandonTimer, TypeInv
<1>5. ASSUME NEW c \in Clients, NEW o \in Conns, NEW h \in Hubs, Attach(c, o, h) PROVE TypeInv'
  <2> DEFINE new == [Unused EXCEPT !.st = "live", !.hub = h, !.client = c]
  <2>1. new \in Links /\ new.st = "live" /\ new.hub = h /\ new.client = c
    <3>1. Unused \in Links
      BY NoneFacts DEF Unused, Links
    <3>2. QED
      BY <3>1 DEF Links
  <2>2. conn' = [conn EXCEPT ![o] = new] /\ h \in Up
    BY <1>5 DEF Attach, Up
  <2> HIDE DEF new
  <2>3. QED
    BY <1>5, <2>1, <2>2 DEF Attach, TypeInv, db, Up
<1>6. ASSUME NEW c \in Clients, NEW n \in 0..MaxEvents, Leave(c, n) PROVE TypeInv'
  <2>1. link' = [link EXCEPT ![c] = None] /\ link[c] \in Conns
    BY <1>6 DEF Leave, TypeInv
  <2>2. conn' \in [Conns -> Links]
        /\ \A p \in Conns : conn'[p].st = conn[p].st /\ conn'[p].hub = conn[p].hub
                           /\ conn'[p].client = conn[p].client /\ conn'[p].read = conn[p].read
    BY <1>6, <2>1 DEF Leave, TypeInv, Links
  <2>3. QED
    BY <1>6, <2>1, <2>2 DEF Leave, TypeInv, db, Up
<1>7. ASSUME NEW o \in Conns, HubReads(o) PROVE TypeInv'
  <2>1. /\ conn[o].st = "live" /\ conn[o].hub \in Up /\ conn[o].client \in Clients
        /\ conn[o].read + 1 \in 1..MaxEvents
        /\ \/ mem' = mem /\ status' = status /\ stored' = stored
           \/ \E f, k : Reading(conn[o].hub, o, f, k)
    BY <1>7, ReadShape
  <2>2. conn' = [conn EXCEPT ![o] = [conn[o] EXCEPT !.read = conn[o].read + 1]]
    BY <1>7 DEF HubReads
  <2>3. conn' \in [Conns -> Links]
        /\ \A p \in Conns : /\ conn'[p].st = conn[p].st /\ conn'[p].hub = conn[p].hub
                            /\ conn'[p].client = conn[p].client
                            /\ p # o => conn'[p].read = conn[p].read
    BY <2>1, <2>2 DEF TypeInv, Links
  <2>4. /\ mem' \in [Hubs -> Mem] /\ status' \in [Runs -> Statuses]
        /\ stored' \in [Runs -> SUBSET (1..MaxEvents)] /\ Up' = Up
    <3>1. CASE mem' = mem /\ status' = status /\ stored' = stored
      BY <3>1 DEF TypeInv, Up
    <3>2. ASSUME NEW f, NEW k, Reading(conn[o].hub, o, f, k)
          PROVE  /\ mem' \in [Hubs -> Mem] /\ status' \in [Runs -> Statuses]
                 /\ stored' \in [Runs -> SUBSET (1..MaxEvents)] /\ Up' = Up
      <4>1. \A g \in Hubs : mem'[g] \in Mem /\ mem'[g].st = mem[g].st
        BY <3>2 DEF Reading, Admission, TypeInv
      <4>2. mem' \in [Hubs -> Mem] /\ Up' = Up
        <5>1. DOMAIN mem' = Hubs /\ mem' = [g \in Hubs |-> mem'[g]]
          BY <1>7 DEF HubReads, TypeInv
        <5>2. QED
          BY <4>1, <5>1 DEF Up
      <4>3. f.run \in Runs /\ f.seq \in 1..MaxEvents
        BY <3>2 DEF Reading, Frame
      <4>4. StatusAfter(mem[conn[o].hub], o, f) \in Statuses
        BY <4>3 DEF StatusAfter, TypeInv, Statuses
      <4>5. status' \in [Runs -> Statuses]
        BY <3>2, <4>3, <4>4 DEF Reading, TypeInv
      <4>6. stored' \in [Runs -> SUBSET (1..MaxEvents)]
        BY <3>2, <4>3 DEF Reading, TypeInv
      <4>7. QED
        BY <4>2, <4>5, <4>6
    <3>3. QED
      BY <2>1, <3>1, <3>2
  <2>5. QED
    <3>1. log' = log /\ link' = link
      BY <1>7 DEF HubReads
    <3>2. \A p \in Conns : /\ conn'[p].st = "live" => conn'[p].hub \in Up' /\ conn'[p].client \in Clients
                           /\ conn'[p].st # "live" => conn'[p].read = 0
      <4>1. TAKE p \in Conns
      <4>2. /\ conn[p].st = "live" => conn[p].hub \in Up /\ conn[p].client \in Clients
            /\ conn[p].st # "live" => conn[p].read = 0
        BY DEF TypeInv
      <4>3. QED
        BY <2>1, <2>3, <2>4, <4>2
    <3>3. QED
      BY <2>3, <2>4, <3>1, <3>2 DEF TypeInv
<1>8. ASSUME NEW o \in Conns, HubLoses(o) PROVE TypeInv'
  <2>1. conn[o].hub \in Hubs /\ conn[o].hub \in Up
    BY <1>8 DEF HubLoses, TypeInv, Up
  <2>2. mem'[conn[o].hub] \in Mem /\ mem'[conn[o].hub].st = mem[conn[o].hub].st
        /\ \A g \in Hubs \ {conn[o].hub} : mem'[g] = mem[g]
    BY <1>8, <2>1, LossShape DEF Lost
  <2>3. mem' \in [Hubs -> Mem] /\ Up' = Up
    BY <1>8, <2>1, <2>2 DEF HubLoses, TypeInv, Up
  <2>4. QED
    BY <1>8, <2>3, GoneFacts DEF HubLoses, TypeInv, db
<1>9. CASE UNCHANGED vars
  BY <1>9 DEF vars, db, TypeInv, Up
<1>10. QED
  BY <1>1, <1>2, <1>3, <1>4, <1>5, <1>6, <1>7, <1>8, <1>9 DEF Next

-----------------------------------------------------------------------------
(* The invariant of each process, whatever else serves the database.       *)

\* Only a process that is up remembers anything.
QuietWhenDown(h) ==
    /\ mem[h].st # "up" =>
          /\ mem[h].sealed = {} /\ mem[h].timers = {}
          /\ \A r \in Runs : /\ mem[h].owner[r] = None /\ mem[h].claim[r] = NoClaim
                            /\ mem[h].writers[r] = {}
    /\ mem[h].st = "off" => ~mem[h].swept

\* The owner of a run is a connection of this process, and it wrote the run.
OwnersAreLive(h) ==
    \A r \in Runs : mem[h].owner[r] # None =>
        /\ conn[mem[h].owner[r]].st = "live" /\ conn[mem[h].owner[r]].hub = h
        /\ conn[mem[h].owner[r]].client \in mem[h].writers[r]

\* A claim is strict exactly when its token is that of a claim-aware client.
KindsAreTrue(h) ==
    \A r \in Runs : mem[h].claim[r] # NoClaim =>
        (mem[h].claim[r].strict <=> mem[h].claim[r].token \in Strict)

\* What the process takes for finished is stored as finished.
FinishedIsStored(h) ==
    \A r \in Runs : mem[h].claim[r].ended = "finished" => status[r] = "finished"

\* A sealed run is nobody's.
SealedIsFree(h) ==
    \A r \in mem[h].sealed : mem[h].claim[r] = NoClaim /\ mem[h].owner[r] = None

\* What one claim-aware client alone has written is claimed by it, or closed.
BegunIsHeld(h) ==
    \A r \in Runs, c \in Strict : mem[h].writers[r] = {c} =>
        \/ mem[h].claim[r] # NoClaim /\ mem[h].claim[r].token = c
        \/ mem[h].claim[r] = NoClaim /\ (r \in mem[h].sealed \/ status[r] = "finished")

HubInv(h) ==
    /\ QuietWhenDown(h) /\ OwnersAreLive(h) /\ KindsAreTrue(h)
    /\ FinishedIsStored(h) /\ SealedIsFree(h) /\ BegunIsHeld(h)

IInv == TypeInv /\ \A h \in Hubs : HubInv(h)

LEMMA InvInit == Init => IInv
<1> SUFFICES ASSUME Init PROVE \A h \in Hubs : HubInv(h)
  BY TypeInit DEF IInv
<1>1. \A h \in Hubs : mem[h] = Idle
  BY DEF Init
<1>2. QED
  BY <1>1, IdleFacts, ClaimFacts DEF HubInv, QuietWhenDown, OwnersAreLive, KindsAreTrue,
     FinishedIsStored, SealedIsFree, BegunIsHeld

LEMMA SealedFacts == ASSUME IInv PROVE \A h \in Hubs : SealedUnclaimed(mem[h])
BY DEF IInv, HubInv, SealedIsFree, SealedUnclaimed

\* A finished run stays finished.
LEMMA FinishedStays ==
    ASSUME IInv, [Next]_vars, NEW r \in Runs, status[r] = "finished"
    PROVE  status'[r] = "finished"
<1>1. ASSUME NEW h \in Hubs, Sweep(h) PROVE status'[r] = "finished"
  BY <1>1 DEF Sweep
<1>2. ASSUME NEW h \in Hubs, NEW q \in Runs, AbandonTimer(h, q) PROVE status'[r] = "finished"
  BY <1>2 DEF AbandonTimer, IInv, TypeInv
<1>3. ASSUME NEW o \in Conns, HubReads(o) PROVE status'[r] = "finished"
  <2>1. status' = status \/ \E f, k : Reading(conn[o].hub, o, f, k)
    BY <1>3, ReadShape, SealedFacts DEF IInv
  <2>2. ASSUME NEW f, NEW k, Reading(conn[o].hub, o, f, k) PROVE status'[r] = "finished"
    <3>1. f.run \in Runs /\ status' = [status EXCEPT ![f.run] = StatusAfter(mem[conn[o].hub], o, f)]
      BY <2>2 DEF Reading, Frame
    <3>2. status[f.run] = "finished" => StatusAfter(mem[conn[o].hub], o, f) = "finished"
      BY DEF StatusAfter
    <3>3. QED
      BY <3>1, <3>2 DEF IInv, TypeInv
  <2>3. QED
    BY <2>1, <2>2
<1>4. CASE UNCHANGED vars
  BY <1>4 DEF vars, db
<1>5. QED
  BY <1>1, <1>2, <1>3, <1>4 DEF Next, Start, Stop, Attach, Leave, HubLoses, db

\* A process that keeps its memory keeps its invariant, when its connections
\* stay as they are.
LEMMA FrameHub ==
    ASSUME IInv, [Next]_vars, NEW h \in Hubs, mem'[h] = mem[h],
           \A o \in Conns : conn[o].st = "live" /\ conn[o].hub = h =>
               conn'[o].st = "live" /\ conn'[o].hub = h /\ conn'[o].client = conn[o].client
    PROVE  HubInv(h)'
<1>1. HubInv(h)
  BY DEF IInv
<1>2. \A r \in Runs : mem[h].owner[r] # None => mem[h].owner[r] \in Conns
  BY DEF IInv, TypeInv, Mem
<1>3. QuietWhenDown(h)' /\ KindsAreTrue(h)' /\ SealedIsFree(h)'
  BY <1>1 DEF HubInv, QuietWhenDown, KindsAreTrue, SealedIsFree
<1>4. OwnersAreLive(h)'
  BY <1>1, <1>2 DEF HubInv, OwnersAreLive
<1>5. FinishedIsStored(h)' /\ BegunIsHeld(h)'
  BY <1>1, FinishedStays DEF HubInv, FinishedIsStored, BegunIsHeld
<1>6. QED
  BY <1>3, <1>4, <1>5 DEF HubInv

\* Admitting a frame never takes a run from a claim-aware client that began it.
LEMMA OnlyItsWriter ==
    ASSUME IInv, NEW o \in Conns, conn[o].client \in Clients, NEW h \in Hubs,
           NEW f, NEW k, Reading(h, o, f, k), conn[o].hub = h,
           NEW c \in Strict, mem[h].writers[f.run] = {c}
    PROVE  conn[o].client = c
<1> DEFINE m == mem[h]
           r == f.run
<1>1. r \in Runs /\ r \notin m.sealed /\ Claiming(m, k, o, r)
  BY DEF Reading, Admission, Frame
<1>2. /\ m \in Mem /\ KindsAreTrue(h) /\ OwnersAreLive(h)
      /\ \/ m.claim[r] # NoClaim /\ m.claim[r].token = c
         \/ m.claim[r] = NoClaim /\ status[r] = "finished"
  BY <1>1 DEF IInv, TypeInv, HubInv, BegunIsHeld
<1>3. CASE m.claim[r] # NoClaim /\ m.claim[r].token = c
  <2>1. m.claim[r].strict
    BY <1>1, <1>2, <1>3 DEF KindsAreTrue
  <2>2. NewClaim(o).token = c
    BY <1>1, <1>3, <2>1 DEF Claiming, Unclaimed
  <2>3. QED
    BY <2>2, NewClaimFacts
<1>4. CASE m.claim[r] = NoClaim /\ status[r] = "finished"
  <2>1. m.owner[r] = o
    BY <1>1, <1>4 DEF Claiming, Unclaimed
  <2>2. conn[o].client \in m.writers[r]
    BY <1>1, <2>1, <1>2, NoneFacts DEF OwnersAreLive
  <2>3. QED
    BY <2>2
<1>5. QED
  BY <1>2, <1>3, <1>4

\* The process that reads a frame keeps its invariant.
LEMMA ReaderKeeps ==
    ASSUME IInv, [Next]_vars, NEW o \in Conns, HubReads(o),
           NEW h \in Hubs, conn[o].hub = h, NEW f, NEW k, Reading(h, o, f, k)
    PROVE  HubInv(h)'
<1> DEFINE m == mem[h]
           t == mem'[h]
           r == f.run
           c == conn[o].client
<1>1. /\ conn[o].st = "live" /\ h \in Up /\ c \in Clients
      /\ \A p \in Conns : /\ conn'[p].st = conn[p].st /\ conn'[p].hub = conn[p].hub
                          /\ conn'[p].client = conn[p].client
  <2>1. conn' = [conn EXCEPT ![o] = [conn[o] EXCEPT !.read = conn[o].read + 1]]
    BY DEF HubReads
  <2>2. QED
    BY <2>1, ReadShape, SealedFacts DEF IInv, TypeInv, Links, Up
<1>2. /\ r \in Runs /\ Admission(m, t, o, f, k) /\ m \in Mem /\ t \in Mem /\ HubInv(h)
      /\ status' = [status EXCEPT ![r] = StatusAfter(m, o, f)]
  BY <1>1 DEF Reading, Admission, Frame, IInv, TypeInv
<1>3. \A q \in Runs : status[q] = "finished" => status'[q] = "finished"
  BY FinishedStays
<1> HIDE DEF m, t, r, c
<1>4. m.st = "up" /\ t.st = "up"
  BY <1>1, <1>2 DEF Admission, Up, m
<1>5. QuietWhenDown(h)'
  BY <1>4 DEF QuietWhenDown, t
<1>6. \A q \in Runs : t.owner[q] = IF q = r THEN o ELSE m.owner[q]
  BY <1>2 DEF Admission, Mem, r
<1>7. ASSUME NEW q \in Runs, q # r
      PROVE  Spared(m, t, q) \/ Forgotten(m, t, q) \/ Evicted(m, t, o, q)
  BY <1>2, <1>7 DEF Admission, r
<1>8. r \notin m.sealed /\ r \notin t.sealed /\ t.writers[r] = m.writers[r] \cup {c}
  BY <1>2 DEF Admission, r, c
<1>9. OwnersAreLive(h)'
  <2>1. ASSUME NEW q \in Runs, t.owner[q] # None
        PROVE  /\ conn'[t.owner[q]].st = "live" /\ conn'[t.owner[q]].hub = h
               /\ conn'[t.owner[q]].client \in t.writers[q]
    <3>1. CASE q = r
      BY <1>1, <1>6, <1>8, <3>1 DEF c
    <3>2. CASE q # r
      <4>1. /\ m.owner[q] \in Conns /\ t.owner[q] = m.owner[q]
            /\ conn[m.owner[q]].st = "live" /\ conn[m.owner[q]].hub = h
            /\ conn[m.owner[q]].client \in m.writers[q]
        BY <1>2, <1>6, <2>1, <3>2 DEF Mem, HubInv, OwnersAreLive, m
      <4>2. ~Forgotten(m, t, q)
        BY <1>2, <4>1, NoneFacts DEF Forgotten, HubInv, SealedIsFree, m
      <4>3. t.writers[q] = m.writers[q]
        BY <1>7, <3>2, <4>2 DEF Spared, Evicted
      <4>4. QED
        BY <1>1, <4>1, <4>3
    <3>3. QED
      BY <3>1, <3>2
  <2>2. QED
    BY <2>1 DEF OwnersAreLive, t
<1>10. /\ k \in Claim /\ Claiming(m, k, o, r) /\ t.claim[r] # NoClaim
       /\ t.claim[r].token = k.token /\ t.claim[r].strict = k.strict
       /\ t.claim[r].ended = IF f.seq \notin stored[r] /\ f.last THEN "finished"
                             ELSE IF m.owner[r] # o /\ k.ended = "abandoned" THEN "no"
                             ELSE k.ended
  BY <1>2 DEF Admission, r
<1>11. k = NewClaim(o) \/ (k = m.claim[r] /\ m.claim[r] # NoClaim)
  BY <1>10 DEF Claiming
<1>12. KindsAreTrue(h)'
  <2>1. k.strict <=> k.token \in Strict
    BY <1>1, <1>2, <1>11, NewClaimFacts DEF HubInv, KindsAreTrue, m, c
  <2>2. ASSUME NEW q \in Runs, t.claim[q] # NoClaim
        PROVE  t.claim[q].strict <=> t.claim[q].token \in Strict
    <3>1. CASE q = r
      BY <1>10, <2>1, <3>1
    <3>2. CASE q # r
      <4>1. t.claim[q] = m.claim[q]
        BY <1>7, <2>2, <3>2 DEF Spared, Forgotten, Evicted
      <4>2. QED
        BY <1>2, <2>2, <4>1 DEF HubInv, KindsAreTrue, m
    <3>3. QED
      BY <3>1, <3>2
  <2>3. QED
    BY <2>2 DEF KindsAreTrue, t
<1>13. FinishedIsStored(h)'
  <2>1. ASSUME NEW q \in Runs, t.claim[q].ended = "finished" PROVE status'[q] = "finished"
    <3>1. CASE q = r /\ f.seq \notin stored[r] /\ f.last
      BY <1>2, <3>1 DEF IInv, TypeInv, StatusAfter, r
    <3>2. CASE q = r /\ ~(f.seq \notin stored[r] /\ f.last)
      <4>1. k.ended = "finished"
        BY <1>10, <2>1, <3>2
      <4>2. k = m.claim[r]
        BY <1>1, <1>11, <4>1, NewClaimFacts DEF c
      <4>3. QED
        BY <1>2, <1>3, <3>2, <4>1, <4>2 DEF HubInv, FinishedIsStored, m
    <3>3. CASE q # r
      <4>1. t.claim[q] = m.claim[q]
        BY <1>7, <2>1, <3>3, ClaimFacts DEF Spared, Forgotten, Evicted
      <4>2. QED
        BY <1>2, <1>3, <2>1, <4>1 DEF HubInv, FinishedIsStored, m
    <3>4. QED
      BY <3>1, <3>2, <3>3
  <2>2. QED
    BY <2>1 DEF FinishedIsStored, t
<1>14. SealedIsFree(h)'
  <2>1. ASSUME NEW q \in t.sealed PROVE t.claim[q] = NoClaim /\ t.owner[q] = None
    <3>1. q \in Runs /\ q # r
      BY <1>2, <1>8 DEF Mem
    <3>2. CASE q \in m.sealed
      BY <1>2, <1>6, <1>7, <3>1, <3>2 DEF HubInv, SealedIsFree, m, Spared, Forgotten, Evicted
    <3>3. CASE q \notin m.sealed
      <4>1. q \in Abandoned(m) /\ t.claim[q] = NoClaim
        BY <1>7, <3>1, <3>3 DEF Spared, Forgotten, Evicted
      <4>2. QED
        BY <1>6, <3>1, <4>1 DEF Abandoned
    <3>4. QED
      BY <3>2, <3>3
  <2>2. QED
    BY <2>1 DEF SealedIsFree, t
<1>15. BegunIsHeld(h)'
  <2>1. ASSUME NEW q \in Runs, NEW d \in Strict, t.writers[q] = {d}
        PROVE  \/ t.claim[q] # NoClaim /\ t.claim[q].token = d
               \/ t.claim[q] = NoClaim /\ (q \in t.sealed \/ status'[q] = "finished")
    <3>1. CASE q = r
      <4>1. c = d /\ m.writers[r] \in {{}, {d}} /\ NewClaim(o).token = d
        BY <1>1, <1>8, <2>1, <3>1, NewClaimFacts DEF c
      <4>2. ASSUME k = m.claim[r], m.claim[r] # NoClaim PROVE k.token = d
        <5>1. CASE m.claim[r].token = NewClaim(o).token
          BY <4>1, <4>2, <5>1
        <5>2. CASE m.claim[r].token # NewClaim(o).token
          <6>1. k = NewClaim(o)
            BY <1>10, <4>2, <5>2 DEF Claiming
          <6>2. QED
            BY <4>2, <5>2, <6>1
        <5>3. QED
          BY <5>1, <5>2
      <4>3. k.token = d
        BY <1>11, <4>1, <4>2
      <4>4. QED
        BY <1>10, <3>1, <4>3
    <3>2. CASE q # r
      <4>1. CASE Spared(m, t, q)
        <5>1. m.writers[q] = {d}
          BY <2>1, <4>1 DEF Spared
        <5>2. \/ m.claim[q] # NoClaim /\ m.claim[q].token = d
              \/ m.claim[q] = NoClaim /\ (q \in m.sealed \/ status[q] = "finished")
          BY <1>2, <5>1 DEF HubInv, BegunIsHeld, m
        <5>3. QED
          BY <1>3, <4>1, <5>2 DEF Spared
      <4>2. CASE Forgotten(m, t, q)
        BY <2>1, <4>2 DEF Forgotten
      <4>3. CASE Evicted(m, t, o, q)
        <5>1. m.writers[q] = {d} /\ t.claim[q] = NoClaim /\ m.claim[q] # NoClaim
          BY <2>1, <4>3 DEF Evicted
        <5>2. m.claim[q].token = d /\ m.claim[q].strict
          BY <1>2, <5>1 DEF HubInv, BegunIsHeld, KindsAreTrue, m
        <5>3. CASE q \in Finished(m)
          BY <1>2, <1>3, <5>1, <5>3 DEF Finished, HubInv, FinishedIsStored, m
        <5>4. CASE q \in Abandoned(m) /\ q \in t.sealed
          BY <5>1, <5>4
        <5>5. CASE q \in OwnLoose(m, o)
          BY <5>2, <5>5 DEF OwnLoose
        <5>6. QED
          BY <4>3, <5>3, <5>4, <5>5 DEF Evicted
      <4>4. QED
        BY <1>7, <3>2, <4>1, <4>2, <4>3
    <3>3. QED
      BY <3>1, <3>2
  <2>2. QED
    BY <2>1 DEF BegunIsHeld, t
<1>16. QED
  BY <1>5, <1>9, <1>12, <1>13, <1>14, <1>15 DEF HubInv

\* A process that is up and whose owners, claims, seals and writers stand keeps
\* its invariant, as long as no run stops being finished.
LEMMA SameBooks ==
    ASSUME NEW h \in Hubs, HubInv(h), mem'[h].st = "up",
           mem'[h].owner = mem[h].owner, mem'[h].claim = mem[h].claim,
           mem'[h].sealed = mem[h].sealed, mem'[h].writers = mem[h].writers,
           conn' = conn, \A r \in Runs : status[r] = "finished" => status'[r] = "finished"
    PROVE  HubInv(h)'
<1>1. QuietWhenDown(h)'
  BY DEF QuietWhenDown
<1>2. OwnersAreLive(h)' /\ KindsAreTrue(h)' /\ SealedIsFree(h)'
  BY DEF HubInv, OwnersAreLive, KindsAreTrue, SealedIsFree
<1>3. FinishedIsStored(h)'
  BY DEF HubInv, FinishedIsStored
<1>4. BegunIsHeld(h)'
  BY DEF HubInv, BegunIsHeld
<1>5. QED
  BY <1>1, <1>2, <1>3, <1>4 DEF HubInv

\* A process that loses a connection keeps its invariant: it only stops owning
\* the runs of that connection, and arms timers.
LEMMA LossKeeps ==
    ASSUME NEW h \in Hubs, NEW o \in Conns, HubInv(h), mem[h] \in Mem, mem[h].st = "up",
           Lost(h, o), status' = status, \A p \in Conns : p # o => conn'[p] = conn[p]
    PROVE  HubInv(h)'
<1>1. /\ mem'[h].st = "up" /\ mem'[h].claim = mem[h].claim /\ mem'[h].sealed = mem[h].sealed
      /\ mem'[h].writers = mem[h].writers
  BY DEF Lost
<1>2. \A r \in Runs : mem'[h].owner[r] = IF mem[h].owner[r] = o THEN None ELSE mem[h].owner[r]
  BY DEF Lost
<1>3. o # None
  BY NoneFacts
<1>4. QuietWhenDown(h)'
  BY <1>1 DEF QuietWhenDown
<1>5. OwnersAreLive(h)'
  <2> SUFFICES ASSUME NEW r \in Runs, mem'[h].owner[r] # None
               PROVE  /\ conn'[mem'[h].owner[r]].st = "live" /\ conn'[mem'[h].owner[r]].hub = h
                      /\ conn'[mem'[h].owner[r]].client \in mem'[h].writers[r]
    BY DEF OwnersAreLive
  <2> DEFINE p == mem[h].owner[r]
  <2>1. mem'[h].owner[r] = p /\ p # o /\ p # None
    BY <1>2, <1>3
  <2>2. p \in Conns
    BY <2>1 DEF Mem
  <2>3. conn'[p] = conn[p]
    BY <2>1, <2>2
  <2>4. conn[p].st = "live" /\ conn[p].hub = h /\ conn[p].client \in mem[h].writers[r]
    BY <2>1 DEF HubInv, OwnersAreLive
  <2>5. QED
    BY <1>1, <2>1, <2>3, <2>4
<1>6. KindsAreTrue(h)'
  BY <1>1 DEF HubInv, KindsAreTrue
<1>7. FinishedIsStored(h)'
  BY <1>1 DEF HubInv, FinishedIsStored
<1>8. BegunIsHeld(h)'
  BY <1>1 DEF HubInv, BegunIsHeld
<1>9. SealedIsFree(h)'
  <2>1. \A r \in mem[h].sealed : r \in Runs /\ mem[h].claim[r] = NoClaim /\ mem[h].owner[r] = None
    BY DEF HubInv, SealedIsFree, Mem
  <2>2. QED
    BY <1>1, <1>2, <2>1 DEF SealedIsFree
<1>10. QED
  BY <1>4, <1>5, <1>6, <1>7, <1>8, <1>9 DEF HubInv

\* One process at work, every other as it was.
LEMMA InvStep == ASSUME IInv, [Next]_vars PROVE IInv'
<1>1. TypeInv' /\ TypeInv
  BY TypeStep, SealedFacts DEF IInv
<1> SUFFICES ASSUME NEW g \in Hubs PROVE HubInv(g)'
  BY <1>1 DEF IInv
<1>2. HubInv(g) /\ mem[g] \in Mem /\ mem'[g] \in Mem
  BY <1>1 DEF IInv, TypeInv
<1>3. ASSUME NEW h \in Hubs, Start(h) PROVE HubInv(g)'
  <2>1. mem' = [mem EXCEPT ![h] = [mem[h] EXCEPT !.st = "up"]] /\ mem[h].st = "off" /\ UNCHANGED <<status, conn>>
    BY <1>3 DEF Start, db
  <2>2. CASE g = h
    <3>1. /\ mem'[g].st = "up" /\ mem'[g].owner = mem[g].owner /\ mem'[g].claim = mem[g].claim
          /\ mem'[g].sealed = mem[g].sealed /\ mem'[g].writers = mem[g].writers
      BY <1>2, <2>1, <2>2 DEF IInv, TypeInv, Mem
    <3>2. QED
      BY <1>2, <2>1, <3>1, SameBooks
  <2>3. CASE g # h
    BY <2>1, <2>3, FrameHub DEF IInv, TypeInv
  <2>4. QED
    BY <2>2, <2>3
<1>4. ASSUME NEW h \in Hubs, Stop(h) PROVE HubInv(g)'
  <2>1. mem' = [mem EXCEPT ![h] = [Idle EXCEPT !.st = "down"]]
    BY <1>4 DEF Stop
  <2>2. CASE g = h
    <3>1. /\ mem'[g].st = "down" /\ mem'[g].sealed = {} /\ mem'[g].timers = {}
          /\ \A r \in Runs : /\ mem'[g].owner[r] = None /\ mem'[g].claim[r] = NoClaim
                            /\ mem'[g].writers[r] = {}
      <4>1. mem'[g] = [Idle EXCEPT !.st = "down"]
        BY <2>1, <2>2, <1>1 DEF TypeInv
      <4>2. QED
        BY <4>1, IdleFacts DEF Mem
    <3>2. QED
      BY <3>1, ClaimFacts DEF HubInv, QuietWhenDown, OwnersAreLive, KindsAreTrue,
         FinishedIsStored, SealedIsFree, BegunIsHeld
  <2>3. CASE g # h
    <3>1. mem'[g] = mem[g]
      BY <2>1, <2>3, <1>1 DEF TypeInv
    <3>2. \A p \in Conns : conn[p].hub = g => conn'[p] = conn[p]
      BY <1>4, <2>3 DEF Stop
    <3>3. QED
      BY <3>1, <3>2, FrameHub
  <2>4. QED
    BY <2>2, <2>3
<1>5. ASSUME NEW h \in Hubs, Sweep(h) PROVE HubInv(g)'
  <2>1. mem' = [mem EXCEPT ![h] = [mem[h] EXCEPT !.swept = TRUE]] /\ mem[h].st = "up" /\ conn' = conn
    BY <1>5 DEF Sweep
  <2>2. CASE g = h
    <3>1. /\ mem'[g].st = "up" /\ mem'[g].owner = mem[g].owner /\ mem'[g].claim = mem[g].claim
          /\ mem'[g].sealed = mem[g].sealed /\ mem'[g].writers = mem[g].writers
      BY <1>2, <2>1, <2>2, <1>1 DEF TypeInv, Mem
    <3>2. \A r \in Runs : status[r] = "finished" => status'[r] = "finished"
      BY FinishedStays
    <3>3. QED
      BY <1>2, <2>1, <3>1, <3>2, SameBooks
  <2>3. CASE g # h
    BY <2>1, <2>3, <1>1, FrameHub DEF TypeInv
  <2>4. QED
    BY <2>2, <2>3
<1>6. ASSUME NEW h \in Hubs, NEW r \in Runs, AbandonTimer(h, r) PROVE HubInv(g)'
  <2>1. Timed(h, r) /\ conn' = conn /\ r \in mem[h].timers
    BY <1>1, <1>6, TimerShape DEF AbandonTimer
  <2>2. CASE g = h
    <3>1. mem[g].st = "up" /\ mem'[g].st = "up"
      BY <1>2, <2>1, <2>2 DEF HubInv, QuietWhenDown, Timed
    <3>2. \A q \in Runs : status[q] = "finished" => status'[q] = "finished"
      BY FinishedStays
    <3>3. /\ mem'[g].owner = mem[g].owner /\ mem'[g].sealed = mem[g].sealed
          /\ mem'[g].writers = mem[g].writers
      BY <2>1, <2>2 DEF Timed
    <3>4. ASSUME NEW q \in Runs
          PROVE  /\ mem'[g].claim[q] = NoClaim <=> mem[g].claim[q] = NoClaim
                 /\ mem'[g].claim[q].token = mem[g].claim[q].token
                 /\ mem'[g].claim[q].strict = mem[g].claim[q].strict
                 /\ mem'[g].claim[q].ended = "finished" => mem[g].claim[q].ended = "finished"
      <4>1. CASE mem'[g].claim[q] = mem[g].claim[q]
        BY <4>1
      <4>2. CASE /\ mem[g].claim[q] # NoClaim
                 /\ mem'[g].claim[q] = [mem[g].claim[q] EXCEPT !.ended = "abandoned"]
        <5>1. mem[g].claim[q] \in Claim
          BY <1>2, <4>2 DEF Mem
        <5>2. /\ mem'[g].claim[q] \in Claim /\ mem'[g].claim[q].token = mem[g].claim[q].token
              /\ mem'[g].claim[q].strict = mem[g].claim[q].strict
              /\ mem'[g].claim[q].ended = "abandoned"
          BY <4>2, <5>1 DEF Claim
        <5>3. QED
          BY <4>2, <5>2, ClaimFacts
      <4>3. QED
        BY <2>1, <2>2, <4>1, <4>2 DEF Timed
    <3>5. QuietWhenDown(g)' /\ OwnersAreLive(g)'
      BY <1>2, <2>1, <3>1, <3>3 DEF HubInv, QuietWhenDown, OwnersAreLive
    <3>6. KindsAreTrue(g)' /\ FinishedIsStored(g)'
      BY <1>2, <3>2, <3>4 DEF HubInv, KindsAreTrue, FinishedIsStored
    <3>7. SealedIsFree(g)' /\ BegunIsHeld(g)'
      BY <1>2, <3>2, <3>3, <3>4 DEF HubInv, SealedIsFree, BegunIsHeld, Mem
    <3>8. QED
      BY <3>5, <3>6, <3>7 DEF HubInv
  <2>3. CASE g # h
    BY <2>1, <2>3, FrameHub DEF Timed
  <2>4. QED
    BY <2>2, <2>3
<1>7. ASSUME NEW c \in Clients, NEW o \in Conns, NEW h \in Hubs, Attach(c, o, h) PROVE HubInv(g)'
  <2>1. mem' = mem /\ \A p \in Conns : conn[p].st = "live" => conn'[p] = conn[p]
    BY <1>7, <1>1 DEF Attach, TypeInv
  <2>2. QED
    BY <2>1, FrameHub
<1>8. ASSUME NEW c \in Clients, NEW n \in 0..MaxEvents, Leave(c, n) PROVE HubInv(g)'
  <2>1. mem' = mem /\ \A p \in Conns : /\ conn'[p].st = conn[p].st /\ conn'[p].hub = conn[p].hub
                                      /\ conn'[p].client = conn[p].client
    BY <1>8, <1>1 DEF Leave, TypeInv, Links
  <2>2. QED
    BY <2>1, FrameHub
<1>9. ASSUME NEW o \in Conns, HubReads(o) PROVE HubInv(g)'
  <2>1. \A p \in Conns : /\ conn'[p].st = conn[p].st /\ conn'[p].hub = conn[p].hub
                        /\ conn'[p].client = conn[p].client
    <3>1. conn' = [conn EXCEPT ![o] = [conn[o] EXCEPT !.read = conn[o].read + 1]]
      BY <1>9 DEF HubReads
    <3>2. QED
      BY <3>1, <1>1 DEF TypeInv, Links
  <2>2. /\ conn[o].hub \in Hubs
        /\ mem' = mem \/ \E f, k : Reading(conn[o].hub, o, f, k)
    BY <1>1, <1>9, ReadShape, SealedFacts DEF Up
  <2>3. CASE mem' = mem
    BY <2>1, <2>3, FrameHub
  <2>4. ASSUME NEW f, NEW k, Reading(conn[o].hub, o, f, k) PROVE HubInv(g)'
    <3>1. CASE g = conn[o].hub
      BY <1>9, <2>4, <3>1, ReaderKeeps
    <3>2. CASE g # conn[o].hub
      <4>1. mem'[g] = mem[g]
        BY <2>4, <3>2 DEF Reading
      <4>2. QED
        BY <2>1, <4>1, FrameHub
    <3>3. QED
      BY <3>1, <3>2
  <2>5. QED
    BY <2>2, <2>3, <2>4
<1>10. ASSUME NEW o \in Conns, HubLoses(o) PROVE HubInv(g)'
  <2>1. conn[o].hub \in Hubs /\ mem[conn[o].hub].st = "up"
    BY <1>1, <1>10 DEF HubLoses, TypeInv, Up
  <2>2. Lost(conn[o].hub, o) /\ status' = status
    BY <1>1, <1>10, <2>1, LossShape DEF HubLoses, db
  <2>3. \A p \in Conns : p # o => conn'[p] = conn[p]
    BY <1>1, <1>10 DEF HubLoses, TypeInv
  <2>4. CASE g = conn[o].hub
    BY <1>2, <2>1, <2>2, <2>3, <2>4, LossKeeps
  <2>5. CASE g # conn[o].hub
    <3>1. mem'[g] = mem[g]
      BY <2>2, <2>5 DEF Lost
    <3>2. \A p \in Conns : conn[p].hub = g => conn'[p] = conn[p]
      BY <2>3, <2>5
    <3>3. QED
      BY <3>1, <3>2, FrameHub
  <2>6. QED
    BY <2>4, <2>5
<1>11. CASE UNCHANGED vars
  BY <1>11, FrameHub DEF vars
<1>12. QED
  BY <1>3, <1>4, <1>5, <1>6, <1>7, <1>8, <1>9, <1>10, <1>11 DEF Next

LEMMA Invariance == Spec => []IInv
<1>1. IInv /\ [Next]_vars => IInv'
  BY InvStep
<1>2. QED
  BY InvInit, <1>1, PTL DEF Spec

\* Every process, connection and row has its type.
THEOREM TypeCorrect == Spec => []TypeOK
<1>1. IInv => TypeOK
  BY DEF IInv, TypeInv, TypeOK, Mem, Links, Statuses
<1>2. QED
  BY Invariance, <1>1, PTL

\* A run that one claim-aware application began is never written by another in
\* the life of the process (checkClaim, evictClaimFor and the seals), however
\* many processes share the database.
THEOREM OnlyOneWrites == Spec => OneWriter
<1> DEFINE Kept == \A h \in Hubs, r \in Runs, c \in Strict :
                      mem[h].writers[r] = {c} => mem'[h].writers[r] \in {{c}, {}}
<1>1. ASSUME IInv, [Next]_vars PROVE Kept
  <2> SUFFICES ASSUME NEW h \in Hubs, NEW r \in Runs, NEW c \in Strict, mem[h].writers[r] = {c}
               PROVE  mem'[h].writers[r] \in {{c}, {}}
    OBVIOUS
  <2>1. TypeInv /\ TypeInv'
    BY <1>1, TypeStep, SealedFacts DEF IInv
  <2>2. ASSUME NEW g \in Hubs, Start(g) PROVE mem'[h].writers = mem[h].writers
    <3>1. mem' = [mem EXCEPT ![g] = [mem[g] EXCEPT !.st = "up"]]
      BY <2>2 DEF Start
    <3>2. QED
      BY <2>1, <3>1 DEF TypeInv, Mem
  <2>3. ASSUME NEW g \in Hubs, Stop(g) PROVE mem'[h].writers[r] \in {{c}, {}}
    <3>1. mem' = [mem EXCEPT ![g] = [Idle EXCEPT !.st = "down"]]
      BY <2>3 DEF Stop
    <3>2. [Idle EXCEPT !.st = "down"].writers[r] = {}
      BY IdleFacts DEF Mem
    <3>3. QED
      BY <2>1, <3>1, <3>2 DEF TypeInv
  <2>4. ASSUME NEW g \in Hubs, Sweep(g) PROVE mem'[h].writers = mem[h].writers
    <3>1. mem' = [mem EXCEPT ![g] = [mem[g] EXCEPT !.swept = TRUE]]
      BY <2>4 DEF Sweep
    <3>2. QED
      BY <2>1, <3>1 DEF TypeInv, Mem
  <2>5. ASSUME NEW g \in Hubs, NEW q \in Runs, AbandonTimer(g, q) PROVE mem'[h].writers = mem[h].writers
    BY <2>1, <2>5, TimerShape DEF Timed
  <2>6. ASSUME NEW o \in Conns, HubReads(o) PROVE mem'[h].writers[r] \in {{c}, {}}
    <3>1. /\ conn[o].hub \in Hubs /\ conn[o].client \in Clients
          /\ mem' = mem \/ \E f, k : Reading(conn[o].hub, o, f, k)
      BY <1>1, <2>1, <2>6, ReadShape, SealedFacts DEF Up
    <3>2. ASSUME NEW f, NEW k, Reading(conn[o].hub, o, f, k) PROVE mem'[h].writers[r] \in {{c}, {}}
      <4>1. CASE h # conn[o].hub
        BY <3>2, <4>1 DEF Reading
      <4>2. CASE h = conn[o].hub /\ r = f.run
        <5>1. conn[o].client = c
          BY <1>1, <3>1, <3>2, <4>2, OnlyItsWriter
        <5>2. QED
          BY <3>2, <4>2, <5>1 DEF Reading, Admission
      <4>3. CASE h = conn[o].hub /\ r # f.run
        <5>1. Spared(mem[h], mem'[h], r) \/ Forgotten(mem[h], mem'[h], r) \/ Evicted(mem[h], mem'[h], o, r)
          BY <3>2, <4>3 DEF Reading, Admission
        <5>2. QED
          BY <5>1 DEF Spared, Forgotten, Evicted
      <4>4. QED
        BY <4>1, <4>2, <4>3
    <3>3. QED
      BY <3>1, <3>2
  <2>7. ASSUME NEW o \in Conns, HubLoses(o) PROVE mem'[h].writers = mem[h].writers
    <3>1. conn[o].hub \in Hubs
      BY <2>1, <2>7 DEF HubLoses, TypeInv, Up
    <3>2. QED
      BY <2>1, <2>7, <3>1, LossShape DEF Lost
  <2>8. CASE UNCHANGED vars
    BY <2>8 DEF vars
  <2>9. QED
    BY <1>1, <2>2, <2>3, <2>4, <2>5, <2>6, <2>7, <2>8 DEF Next, Attach, Leave
<1>2. IInv /\ [Next]_vars => [Kept]_vars
  BY <1>1
<1>3. QED
  BY Invariance, <1>2, PTL DEF Spec, OneWriter

-----------------------------------------------------------------------------
(* One process on the database at a time.                                  *)

\* What the only process that is up knows of the stored rows.
RowsAgree(h) ==
    \A r \in Runs :
        /\ mem[h].owner[r] # None => status[r] # "abandoned"
        /\ status[r] = "running" /\ mem[h].owner[r] = None => r \in mem[h].timers \/ ~mem[h].swept
        /\ mem[h].claim[r].ended = "abandoned" => status[r] \in {"abandoned", "finished"}
        /\ r \in mem[h].sealed => status[r] \in {"abandoned", "finished"}

Alone ==
    /\ \A g, h \in Up : g = h
    /\ \A h \in Up : RowsAgree(h)

\* Reading a frame keeps them in agreement.
LEMMA ReaderAgrees ==
    ASSUME IInv, [Next]_vars, NEW o \in Conns, HubReads(o),
           NEW h \in Hubs, conn[o].hub = h, NEW f, NEW k, Reading(h, o, f, k), RowsAgree(h)
    PROVE  RowsAgree(h)'
<1> DEFINE m == mem[h]
           t == mem'[h]
           r == f.run
<1>1. /\ r \in Runs /\ Admission(m, t, o, f, k) /\ m \in Mem /\ t \in Mem /\ HubInv(h)
      /\ status' = [status EXCEPT ![r] = StatusAfter(m, o, f)] /\ conn[o].client \in Clients
      /\ status \in [Runs -> Statuses]
  BY ReadShape, SealedFacts DEF Reading, Admission, Frame, IInv, TypeInv
<1> HIDE DEF m, t, r
<1>2. t.swept = m.swept /\ t.owner = [m.owner EXCEPT ![r] = o] /\ m.timers \ {r} \subseteq t.timers
      /\ r \notin t.sealed
  BY <1>1 DEF Admission, r
<1>3. ASSUME NEW q \in Runs, q # r
      PROVE  Spared(m, t, q) \/ Forgotten(m, t, q) \/ Evicted(m, t, o, q)
  BY <1>1, <1>3 DEF Admission, r
<1>4. ASSUME NEW q \in Runs
      PROVE  /\ t.owner[q] # None => status'[q] # "abandoned"
             /\ status'[q] = "running" /\ t.owner[q] = None => q \in t.timers \/ ~t.swept
             /\ t.claim[q].ended = "abandoned" => status'[q] \in {"abandoned", "finished"}
             /\ q \in t.sealed => status'[q] \in {"abandoned", "finished"}
  <2>1. CASE q # r
    <3>1. status'[q] = status[q] /\ t.owner[q] = m.owner[q] /\ (q \in t.timers <=> q \in t.timers \cup (m.timers \ {r}))
      BY <1>1, <1>2, <2>1 DEF Mem
    <3>2. /\ m.owner[q] # None => status[q] # "abandoned"
          /\ status[q] = "running" /\ m.owner[q] = None => q \in m.timers \/ ~m.swept
          /\ m.claim[q].ended = "abandoned" => status[q] \in {"abandoned", "finished"}
          /\ q \in m.sealed => status[q] \in {"abandoned", "finished"}
      BY DEF RowsAgree, m
    <3>3. t.claim[q].ended = "abandoned" => m.claim[q].ended = "abandoned"
      BY <1>3, <2>1, ClaimFacts DEF Spared, Forgotten, Evicted
    <3>4. q \in t.sealed => q \in m.sealed \/ m.claim[q].ended = "abandoned" \/ m.claim[q].ended = "finished"
      BY <1>3, <2>1 DEF Spared, Forgotten, Evicted, Abandoned, Finished
    <3>5. m.claim[q].ended = "finished" => status[q] = "finished"
      BY <1>1 DEF HubInv, FinishedIsStored, m
    <3>6. QED
      BY <1>2, <2>1, <3>1, <3>2, <3>3, <3>4, <3>5
  <2>2. CASE q = r
    <3>1. t.owner[r] = o /\ o # None /\ status'[r] = StatusAfter(m, o, f)
      BY <1>1, <1>2, NoneFacts DEF Mem
    <3>2. /\ m.owner[r] = o => status[r] # "abandoned"
          /\ m.claim[r].ended = "abandoned" => status[r] \in {"abandoned", "finished"}
      BY <1>1, <3>1 DEF RowsAgree, m
    <3>3. /\ Claiming(m, k, o, r)
          /\ t.claim[r].ended = IF f.seq \notin stored[r] /\ f.last THEN "finished"
                                ELSE IF m.owner[r] # o /\ k.ended = "abandoned" THEN "no"
                                ELSE k.ended
      BY <1>1 DEF Admission, r
    <3>4. k.ended = "abandoned" => m.claim[r].ended = "abandoned"
      BY <1>1, <3>3, NewClaimFacts DEF Claiming
    <3>5. StatusAfter(m, o, f) # "abandoned"
      BY <1>1, <3>2 DEF StatusAfter, r, Statuses
    <3>6. t.claim[r].ended = "abandoned" => StatusAfter(m, o, f) = "finished"
      <4>1. ASSUME t.claim[r].ended = "abandoned" PROVE StatusAfter(m, o, f) = "finished"
        <5>1. k.ended = "abandoned" /\ m.owner[r] = o /\ ~(f.seq \notin stored[r] /\ f.last)
          BY <3>3, <4>1
        <5>2. status[r] = "finished"
          BY <3>2, <3>4, <5>1
        <5>3. QED
          BY <5>2 DEF StatusAfter, r
      <4>2. QED
        BY <4>1
    <3>7. QED
      BY <1>2, <2>2, <3>1, <3>5, <3>6
  <2>3. QED
    BY <2>1, <2>2
<1>5. QED
  BY <1>4 DEF RowsAgree, t

LEMMA AloneInit == Init => Alone
BY IdleFacts DEF Init, Alone, Up

LEMMA AloneStep == ASSUME ~Overlap, IInv, Alone, [Next]_vars PROVE Alone'
<1>1. TypeInv /\ TypeInv'
  BY TypeStep, SealedFacts DEF IInv
<1>2. ASSUME NEW h \in Hubs, Start(h) PROVE Alone'
  <2>1. mem' = [mem EXCEPT ![h] = [mem[h] EXCEPT !.st = "up"]] /\ mem[h].st = "off" /\ Up = {} /\ status' = status
    BY <1>2 DEF Start, db
  <2>2. Up' = {h}
    BY <1>1, <2>1 DEF TypeInv, Mem, Up
  <2>3. /\ mem'[h].owner = mem[h].owner /\ mem'[h].claim = mem[h].claim /\ mem'[h].swept = mem[h].swept
        /\ mem'[h].sealed = mem[h].sealed
    BY <1>1, <2>1 DEF TypeInv, Mem
  <2>4. /\ ~mem[h].swept /\ mem[h].sealed = {}
        /\ \A r \in Runs : mem[h].owner[r] = None /\ mem[h].claim[r] = NoClaim
    BY <2>1 DEF IInv, HubInv, QuietWhenDown
  <2>5. RowsAgree(h)'
    BY <2>1, <2>3, <2>4, ClaimFacts DEF RowsAgree
  <2>6. QED
    BY <2>2, <2>5 DEF Alone
<1>3. ASSUME NEW h \in Hubs, Stop(h) PROVE Alone'
  <2>1. Up' = {}
    <3>1. mem' = [mem EXCEPT ![h] = [Idle EXCEPT !.st = "down"]] /\ h \in Up
      BY <1>3 DEF Stop, Up
    <3>2. mem'[h].st = "down" /\ \A g \in Hubs \ {h} : mem'[g] = mem[g]
      BY <1>1, <3>1, IdleFacts DEF TypeInv, Mem
    <3>3. \A g \in Hubs \ {h} : g \notin Up
      BY <3>1 DEF Alone
    <3>4. QED
      BY <3>2, <3>3 DEF Up
  <2>2. QED
    BY <2>1 DEF Alone
<1>4. ASSUME NEW h \in Hubs, Sweep(h) PROVE Alone'
  <2>1. mem' = [mem EXCEPT ![h] = [mem[h] EXCEPT !.swept = TRUE]] /\ h \in Up
    BY <1>4 DEF Sweep, Up
  <2>2. /\ mem'[h].st = mem[h].st /\ mem'[h].owner = mem[h].owner /\ mem'[h].claim = mem[h].claim
        /\ mem'[h].timers = mem[h].timers /\ mem'[h].sealed = mem[h].sealed
    BY <1>1, <2>1 DEF TypeInv, Mem
  <2>3. Up' = Up
    BY <1>1, <2>1, <2>2 DEF TypeInv, Up
  <2>4. \A r \in Runs : status'[r] = IF status[r] = "running" /\ mem[h].owner[r] = None
                                     THEN "abandoned" ELSE status[r]
    BY <1>4 DEF Sweep
  <2>5. RowsAgree(h)
    BY <2>1 DEF Alone
  <2>6. RowsAgree(h)'
    BY <2>2, <2>4, <2>5 DEF RowsAgree
  <2>7. QED
    BY <2>1, <2>3, <2>6 DEF Alone
<1>5. ASSUME NEW h \in Hubs, NEW q \in Runs, AbandonTimer(h, q) PROVE Alone'
  <2>1. Timed(h, q) /\ q \in mem[h].timers
    BY <1>1, <1>5, TimerShape DEF AbandonTimer
  <2>2. h \in Up
    BY <2>1, <1>1 DEF IInv, HubInv, QuietWhenDown, Up
  <2>3. Up' = Up
    BY <2>1 DEF Timed, Up
  <2>4. \A r \in Runs : status'[r] = IF r = q /\ mem[h].owner[q] = None /\ status[q] = "running"
                                     THEN "abandoned" ELSE status[r]
    BY <1>1, <1>5 DEF AbandonTimer, TypeInv
  <2>5. RowsAgree(h)
    BY <2>2 DEF Alone
  <2>6. ASSUME NEW r \in Runs
        PROVE  mem'[h].claim[r].ended = "abandoned" => status'[r] \in {"abandoned", "finished"}
    <3>1. CASE mem'[h].claim[r] = mem[h].claim[r]
      BY <2>4, <2>5, <3>1 DEF RowsAgree
    <3>2. CASE r = q /\ mem[h].owner[q] = None /\ status[q] = "running"
      BY <2>4, <3>2
    <3>3. QED
      BY <2>1, <3>1, <3>2 DEF Timed
  <2>7. RowsAgree(h)'
    BY <2>1, <2>4, <2>5, <2>6 DEF RowsAgree, Timed
  <2>8. QED
    BY <2>2, <2>3, <2>7 DEF Alone
<1>6. ASSUME NEW o \in Conns, HubReads(o) PROVE Alone'
  <2>1. /\ conn[o].hub \in Up /\ conn[o].hub \in Hubs
        /\ \/ mem' = mem /\ status' = status
           \/ \E f, k : Reading(conn[o].hub, o, f, k)
    BY <1>1, <1>6, ReadShape, SealedFacts DEF Up
  <2>2. CASE mem' = mem /\ status' = status
    BY <2>2 DEF Alone, RowsAgree, Up
  <2>3. ASSUME NEW f, NEW k, Reading(conn[o].hub, o, f, k) PROVE Alone'
    <3>1. PICK h \in Hubs : h = conn[o].hub /\ h \in Up
      BY <2>1
    <3>2. RowsAgree(h)'
      BY <1>6, <2>3, <3>1, ReaderAgrees DEF Alone
    <3>3. \A g \in Hubs : mem'[g].st = mem[g].st
      BY <2>3 DEF Reading, Admission
    <3>4. Up' = Up
      BY <3>3 DEF Up
    <3>5. QED
      BY <3>1, <3>2, <3>4 DEF Alone
  <2>4. QED
    BY <2>1, <2>2, <2>3
<1>7. ASSUME NEW o \in Conns, HubLoses(o) PROVE Alone'
  <2>1. PICK h \in Hubs : h = conn[o].hub /\ h \in Up
    BY <1>1, <1>7 DEF HubLoses, TypeInv, Up
  <2>2. Lost(h, o) /\ status' = status
    BY <1>1, <1>7, <2>1, LossShape DEF HubLoses, db
  <2>3. Up' = Up
    BY <2>2 DEF Lost, Up
  <2>4. RowsAgree(h)'
    BY <2>1, <2>2 DEF Alone, RowsAgree, Lost
  <2>5. QED
    BY <2>1, <2>3, <2>4 DEF Alone
<1>8. ASSUME mem' = mem, status' = status PROVE Alone'
  BY <1>8 DEF Alone, RowsAgree, Up
<1>9. QED
  BY <1>2, <1>3, <1>4, <1>5, <1>6, <1>7, <1>8 DEF Next, Attach, Leave, vars, db

LEMMA AloneInvariance == ASSUME ~Overlap PROVE Spec => [](IInv /\ Alone)
<1>1. IInv /\ Alone /\ [Next]_vars => Alone'
  BY AloneStep
<1>2. QED
  BY AloneInit, Invariance, <1>1, PTL DEF Spec

\* With one process on the database at a time, a run that some application is
\* streaming is never listed as abandoned (grace timers, startup sweep, claims).
THEOREM NoLiveRunAbandoned == ASSUME ~Overlap PROVE Spec => []LiveRunIsNotAbandoned
<1>1. IInv /\ Alone => LiveRunIsNotAbandoned
  BY DEF Alone, RowsAgree, LiveRunIsNotAbandoned
<1>2. QED
  BY AloneInvariance, <1>1, PTL

\* With one process on the database at a time, a row that says running while
\* nobody streams it has a timer or the startup sweep still to come.
THEOREM EveryOrphanWatched == ASSUME ~Overlap PROVE Spec => []OrphanIsWatched
<1>1. IInv /\ Alone => OrphanIsWatched
  BY DEF Alone, RowsAgree, OrphanIsWatched
<1>2. QED
  BY AloneInvariance, <1>1, PTL

\* With one process on the database at a time, no flood of runs takes the claim
\* of a run in flight from the claim-aware application that alone has written it.
THEOREM NoFloodTakesAClaim == ASSUME ~Overlap PROVE Spec => []InFlightIsProtected
<1>1. ASSUME IInv, Alone, NEW h \in Up, NEW r \in Runs, NEW c \in Strict,
             mem[h].writers[r] = {c}, status[r] = "running"
      PROVE  mem[h].claim[r].token = c
  <2>1. RowsAgree(h) /\ BegunIsHeld(h)
    BY <1>1 DEF Alone, IInv, HubInv, Up
  <2>2. r \notin mem[h].sealed
    BY <1>1, <2>1 DEF RowsAgree
  <2>3. QED
    BY <1>1, <2>1, <2>2 DEF BegunIsHeld
<1>2. IInv /\ Alone => InFlightIsProtected
  BY <1>1 DEF InFlightIsProtected
<1>3. QED
  BY AloneInvariance, <1>2, PTL
=============================================================================
