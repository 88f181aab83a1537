---------------------------- MODULE RunOwnership ----------------------------
(***************************************************************************)
(* Who may write a run, who receives its resumes, and what the stored row  *)
(* says of it: the claims, owners, seals and abandon timers of one server  *)
(* process (Hub), the status column of the database it opens, and the      *)
(* applications that stream to it over connections that come and go.       *)
(*                                                                         *)
(* A server process starts, serves and stops (close or crash) once; a      *)
(* restart is the next process opening the same database.  Everything in   *)
(* mem dies with its process; status and stored are the database.  An      *)
(* application replays its log from the start on every connection, and     *)
(* what it sent on one it has left can still be read.  When it emits what  *)
(* it emits shows only where the process reads it, so the logs are given   *)
(* whole, and how far the application had come is decided as it leaves.    *)
(***************************************************************************)
EXTENDS Naturals, FiniteSets

CONSTANTS
    MaxHubs,    \* bound: server processes, over time
    Overlap,    \* may one start while another still serves the database?
    Clients,    \* the applications
    Strict,     \* those that announce run-claim: they echo their token
    MaxConns,   \* bound: ingest connections, over time
    Runs,
    None,
    MaxEvents,  \* bound: events an application emits
    MaxClaims,  \* MAX_RUN_CLAIMS
    MaxSealed   \* MAX_SEALED_RUNS

ASSUME OwnershipAssumption ==
    /\ Overlap \in BOOLEAN
    /\ Strict \subseteq Clients
    /\ Clients \cap Nat = {}
    /\ None \notin Nat \cup Clients
    /\ MaxHubs \in Nat /\ MaxConns \in Nat
    /\ MaxEvents \in Nat /\ MaxClaims \in Nat /\ MaxSealed \in Nat \ {0}

VARIABLES
    mem,     \* each process: state, owners, claims, sealed runs, timers
    status,  \* the status column of the runs table
    stored,  \* the sequence numbers stored of each run
    log,     \* what each application emitted
    link,    \* the connection each application uses
    conn     \* each connection: its process and its application, how much of
             \* the log was sent on one the application left, how much was read

db == <<status, stored>>
vars == <<mem, status, stored, log, link, conn>>

Hubs == 1..MaxHubs
Conns == 1..MaxConns

\* An application without the capability gets a new token on every connection.
Tokens == Clients \cup Conns
Claim == [token : Tokens, strict : BOOLEAN, ended : {"no", "finished", "abandoned"}]
NoClaim == [token |-> None, strict |-> FALSE, ended |-> "no"]
Frame == [run : Runs, seq : 1..MaxEvents, last : BOOLEAN]

\* A log numbers the events of each run from 1, and ends a run once.
Logs ==
    {l \in [1..MaxEvents -> Frame] :
        \A i \in 1..MaxEvents :
            LET before == {j \in 1..(i - 1) : l[j].run = l[i].run} IN
            /\ l[i].seq = Cardinality(before) + 1
            /\ l[i].last => \A j \in before : ~l[j].last}

\* A process before and after its time.  writers is a history: whose frames
\* this process admitted to the run since it last forgot about it.
Idle == [st |-> "off", swept |-> FALSE,
         owner |-> [r \in Runs |-> None], claim |-> [r \in Runs |-> NoClaim],
         sealed |-> {}, timers |-> {}, writers |-> [r \in Runs |-> {}]]

Unused == [st |-> "new", hub |-> None, client |-> None, sent |-> 0, read |-> 0]
Gone == [Unused EXCEPT !.st = "gone"]

Init ==
    /\ mem = [h \in Hubs |-> Idle]
    /\ status = [r \in Runs |-> "none"]
    /\ stored = [r \in Runs |-> {}]
    /\ log \in [Clients -> Logs]
    /\ link = [c \in Clients |-> None]
    /\ conn = [o \in Conns |-> Unused]

Up == {h \in Hubs : mem[h].st = "up"}
Claimed(m) == {r \in Runs : m.claim[r] # NoClaim}

-----------------------------------------------------------------------------
(* Processes.                                                              *)

\* startServer: nothing but the port keeps two processes off one database.
Start_Swept(h) ==
    /\ mem[h].st = "off" /\ (Up # {} => Overlap)
    /\ \A g \in 1..(h - 1) : mem[g].st # "off"
    /\ mem' = [mem EXCEPT ![h].st = "up", ![h].swept = TRUE]
    /\ UNCHANGED <<db, log, link, conn>>
Start(h) ==
    /\ mem[h].st = "off" /\ (Up # {} => Overlap)
    /\ \A g \in 1..(h - 1) : mem[g].st # "off"
    /\ mem' = [mem EXCEPT ![h].st = "up"]
    /\ UNCHANGED <<db, log, link, conn>>

\* close() or a crash: the timers are dropped, no run is marked.
Stop(h) ==
    /\ mem[h].st = "up"
    /\ mem' = [mem EXCEPT ![h] = [Idle EXCEPT !.st = "down"]]
    /\ conn' = [o \in Conns |->
                   IF conn[o].hub = h THEN Gone ELSE conn[o]]
    /\ UNCHANGED <<db, log, link>>

\* reconcileOrphanedRuns, once, soon after the port is bound.
Sweep_All(h) ==
    /\ mem[h].st = "up" /\ ~mem[h].swept
    /\ mem' = [mem EXCEPT ![h].swept = TRUE]
    /\ status' = [r \in Runs |-> IF status[r] = "running" THEN "abandoned" ELSE status[r]]
    /\ UNCHANGED <<stored, log, link, conn>>
Sweep(h) ==
    /\ mem[h].st = "up" /\ ~mem[h].swept
    /\ mem' = [mem EXCEPT ![h].swept = TRUE]
    /\ status' = [r \in Runs |->
                     IF status[r] = "running" /\ mem[h].owner[r] = None
                     THEN "abandoned" ELSE status[r]]
    /\ UNCHANGED <<stored, log, link, conn>>

\* The grace period of a run that lost its connection is over.
AbandonTimer(h, r) ==
    /\ r \in mem[h].timers
    /\ IF mem[h].owner[r] = None /\ status[r] = "running"
       THEN /\ status' = [status EXCEPT ![r] = "abandoned"]
            /\ mem' = [mem EXCEPT ![h].timers = @ \ {r},
                                  ![h].claim[r] =
                          IF @ # NoClaim /\ @.ended = "no" THEN [@ EXCEPT !.ended = "abandoned"] ELSE @]
       ELSE /\ mem' = [mem EXCEPT ![h].timers = @ \ {r}]
            /\ UNCHANGED status
    /\ UNCHANGED <<stored, log, link, conn>>

-----------------------------------------------------------------------------
(* Applications.                                                           *)

\* hello: the connection gets its token.  The buffer is replayed from the start.
Attach(c, o, h) ==
    /\ mem[h].st = "up" /\ link[c] = None
    /\ conn[o].st = "new" /\ \A p \in 1..(o - 1) : conn[p].st # "new"
    /\ link' = [link EXCEPT ![c] = o]
    /\ conn' = [conn EXCEPT ![o] = [Unused EXCEPT !.st = "live", !.hub = h, !.client = c]]
    /\ UNCHANGED <<mem, db, log>>

\* The application gives up its socket, having sent n events on it; the
\* process may not know for a while.
Leave(c, n) ==
    LET o == link[c] IN
    /\ o # None
    /\ link' = [link EXCEPT ![c] = None]
    /\ IF conn[o].st = "live" THEN n >= conn[o].read /\ conn' = [conn EXCEPT ![o].sent = n]
       ELSE n = 0 /\ UNCHANGED conn
    /\ UNCHANGED <<mem, db, log>>

-----------------------------------------------------------------------------
(* Frames.                                                                 *)

NewClaim(o) ==
    LET c == conn[o].client IN
    [token |-> IF c \in Strict THEN c ELSE o, strict |-> c \in Strict, ended |-> "no"]

\* evictClaimFor: the oldest of the first class that is not empty (here any).
Finished(m) == {r \in Claimed(m) : m.claim[r].ended = "finished"}
Abandoned(m) == {r \in Claimed(m) : m.claim[r].ended = "abandoned" /\ m.owner[r] = None}
OwnLoose(m, o) == {r \in Claimed(m) : ~m.claim[r].strict /\ m.owner[r] = o}
Victims(m, o) ==
    IF Finished(m) # {} THEN Finished(m)
    ELSE IF Abandoned(m) # {} THEN Abandoned(m) ELSE OwnLoose(m, o)

\* The process once the claim of v is gone: an abandoned run is sealed, and
\* past the cap some sealed run is forgotten.
Evict_NoSeal(m, v) == {[m EXCEPT !.claim[v] = NoClaim]}
Evict(m, v) ==
    LET gone == [m EXCEPT !.claim[v] = NoClaim]
        full == m.sealed \cup {v}
    IN  IF v \notin Abandoned(m) THEN {gone}
        ELSE IF Cardinality(full) <= MaxSealed THEN {[gone EXCEPT !.sealed = full]}
        ELSE {[gone EXCEPT !.sealed = full \ {x}, !.writers[x] = {}] : x \in m.sealed}

\* No claim is not free for all: not a run that another connection holds, not
\* a sealed one, not one that finished.
Unclaimed(m, o, r) ==
    /\ m.claim[r] = NoClaim
    /\ m.owner[r] \in {None, o}
    /\ r \notin m.sealed
    /\ m.owner[r] = None => status[r] # "finished"

\* checkClaim: the process as it admits the frame, in every way it can (none
\* when it refuses).
Admits(m, o, r) ==
    LET claim == m.claim[r]
        new == NewClaim(o)
        room == IF Cardinality(Claimed(m)) < MaxClaims THEN {m}
                ELSE UNION {Evict(m, v) : v \in Victims(m, o)}
    IN  IF Unclaimed(m, o, r) THEN {[n EXCEPT !.claim[r] = new] : n \in room}
        ELSE IF claim = NoClaim THEN {}
        ELSE IF claim.token = new.token THEN {m}
        ELSE IF claim.strict \/ m.owner[r] # None THEN {}
        ELSE {[m EXCEPT !.claim[r] = new]}

\* The rest of handleIngestFrame.  Taking the run over cancels its timer and
\* un-marks it; a sequence number already stored changes nothing else.
Take(m, o, f) ==
    LET changed == m.owner[f.run] # o
        fresh == f.seq \notin stored[f.run]
        ended == IF fresh /\ f.last THEN "finished"
                 ELSE IF changed /\ m.claim[f.run].ended = "abandoned" THEN "no"
                 ELSE m.claim[f.run].ended
    IN  [m EXCEPT !.owner[f.run] = o, !.claim[f.run].ended = ended,
                  !.timers = IF changed THEN @ \ {f.run} ELSE @,
                  !.writers[f.run] = @ \cup {conn[o].client}]
StatusAfter(m, o, f) ==
    IF f.last /\ f.seq \notin stored[f.run] THEN "finished"
    ELSE IF status[f.run] = "none" THEN "running"
    ELSE IF status[f.run] = "abandoned" /\ m.owner[f.run] # o THEN "running"
    ELSE status[f.run]

Reaches(o) == IF \E c \in Clients : link[c] = o THEN MaxEvents ELSE conn[o].sent

HubReads(o) ==
    LET h == conn[o].hub
        f == log[conn[o].client][conn[o].read + 1]
        ways == Admits(mem[h], o, f.run)
    IN  /\ conn[o].st = "live" /\ conn[o].read < Reaches(o)
        /\ conn' = [conn EXCEPT ![o].read = @ + 1]
        /\ \/ ways = {} /\ UNCHANGED <<mem, db>>
           \/ \E m \in ways :
                 /\ mem' = [mem EXCEPT ![h] = Take(m, o, f)]
                 /\ status' = [status EXCEPT ![f.run] = StatusAfter(m, o, f)]
                 /\ stored' = [stored EXCEPT ![f.run] = @ \cup {f.seq}]
        /\ UNCHANGED <<log, link>>

\* removeIngest: closed by either side, or reaped when it answers no ping.
HubLoses_NoTimer(o) ==
    LET h == conn[o].hub IN
    /\ conn[o].st = "live"
    /\ conn' = [conn EXCEPT ![o] = Gone]
    /\ mem' = [mem EXCEPT ![h].owner = [r \in Runs |-> IF @[r] = o THEN None ELSE @[r]]]
    /\ UNCHANGED <<db, log, link>>
HubLoses(o) ==
    LET h == conn[o].hub
        runs == {r \in Runs : mem[h].owner[r] = o}
    IN  /\ conn[o].st = "live"
        /\ conn' = [conn EXCEPT ![o] = Gone]
        /\ mem' = [mem EXCEPT ![h].owner = [r \in Runs |-> IF r \in runs THEN None ELSE @[r]],
                              ![h].timers = @ \cup runs]
        /\ UNCHANGED <<db, log, link>>

Next ==
    \/ \E h \in Hubs : Start(h) \/ Stop(h) \/ Sweep(h)
    \/ \E h \in Hubs, r \in Runs : AbandonTimer(h, r)
    \/ \E c \in Clients, o \in Conns, h \in Hubs : Attach(c, o, h)
    \/ \E c \in Clients, n \in 0..MaxEvents : Leave(c, n)
    \/ \E o \in Conns : HubReads(o) \/ HubLoses(o)

Spec == Init /\ [][Next]_vars

\* The event loop runs what is due: timers, the startup sweep, and the closing
\* of a socket its application has left (at the latest the ping reaps it).
FairSpec ==
    /\ Spec
    /\ \A h \in Hubs : WF_vars(Sweep(h)) /\ \A r \in Runs : WF_vars(AbandonTimer(h, r))
    /\ \A o \in Conns : WF_vars((\A c \in Clients : link[c] # o) /\ HubLoses(o))

-----------------------------------------------------------------------------
(* Properties.                                                             *)

\* Type invariant: per process, per connection and in the database.
TypeOK ==
    /\ \A h \in Hubs :
          /\ mem[h].st \in {"off", "up", "down"} /\ mem[h].swept \in BOOLEAN
          /\ mem[h].owner \in [Runs -> Conns \cup {None}]
          /\ mem[h].claim \in [Runs -> Claim \cup {NoClaim}]
          /\ mem[h].sealed \subseteq Runs /\ mem[h].timers \subseteq Runs
          /\ mem[h].writers \in [Runs -> SUBSET Clients]
    /\ status \in [Runs -> {"none", "running", "finished", "abandoned"}]
    /\ stored \in [Runs -> SUBSET (1..MaxEvents)]
    /\ log \in [Clients -> Logs]
    /\ link \in [Clients -> Conns \cup {None}]
    /\ \A o \in Conns :
          /\ conn[o].st = "live" => conn[o].hub \in Up /\ conn[o].client \in Clients
          /\ conn[o].read \in 0..MaxEvents /\ conn[o].sent \in 0..MaxEvents
          /\ conn[o].st # "live" => conn[o].read = 0

\* A run some application is streaming is not listed as abandoned, whatever
\* timers and sweeps were under way when its frames arrived.
LiveRunIsNotAbandoned ==
    \A h \in Up, r \in Runs : mem[h].owner[r] # None => status[r] # "abandoned"

\* "Never a run still running": while a run is in flight no flood of other
\* runs takes the claim from the application that alone has written it.
InFlightIsProtected ==
    \A h \in Up, r \in Runs, c \in Strict :
        mem[h].writers[r] = {c} /\ status[r] = "running" => mem[h].claim[r].token = c

\* A run one claim-aware application began is never written by another in the
\* life of the process: not after a blip, not finished, abandoned or evicted.
OneWriter ==
    [][\A h \in Hubs, r \in Runs, c \in Strict :
          mem[h].writers[r] = {c} => mem'[h].writers[r] \in {{c}, {}}]_vars

\* A row that says running while nobody streams it is somebody's business: a
\* timer or the startup sweep is still to come.
OrphanIsWatched ==
    \A h \in Up, r \in Runs :
        status[r] = "running" /\ mem[h].owner[r] = None
            => r \in mem[h].timers \/ ~mem[h].swept

\* The runs list cannot fill up with rows that claim to be in flight forever.
Streamed(r) == \E h \in Up, c \in Clients : link[c] # None /\ mem[h].owner[r] = link[c]
NoPhantoms ==
    \A r \in Runs :
        status[r] = "running" /\ Up # {} ~> status[r] # "running" \/ Up = {} \/ Streamed(r)
=============================================================================
