------------------------- MODULE ResumeRace_proofs --------------------------
(***************************************************************************)
(* Theorems about the hub's pause registry (PauseRegistry) and about the   *)
(* resume race it is part of (ResumeRace), for any number of pauses,       *)
(* connections and requests and any caps.                                  *)
(*                                                                         *)
(* Part one is the registry under RegistrySpec.  It keeps four maps in     *)
(* step by hand, and the invariant has one part per relation between them: *)
(* the counts and the entries, the answers of the requests, the closed     *)
(* keys and the entries, and the requests the entries resolve on.  The     *)
(* first two parts are inductive by themselves, the others on top of them. *)
(*                                                                         *)
(* Part two shows that the hub uses its registry within RegistrySpec:      *)
(* every step of the race is a call of the registry, with arguments it     *)
(* allows, or leaves it alone.  So all of part one holds in the race.      *)
(*                                                                         *)
(* Part three is what the two ends tell each other.  The log of the        *)
(* application is a true story of its gates, in which a release is the     *)
(* last word on a pause; a request is in one place at a time, and used up  *)
(* once; and what the hub has stored is a prefix of that story, so its     *)
(* answers, its credits and its list follow.                               *)
(***************************************************************************)
EXTENDS ResumeRace, TLAPS, FiniteSetTheorems

EntriesType == entry \in [Pauses -> Entries]

\* ownerCounts and entries.
CountInv ==
    /\ EntriesType
    /\ ownerCount \in [Owners -> Nat]
    /\ OwnerCountExact

\* requests: a request is in the map from its begin() at the earliest.
RequestInv ==
    /\ req \in [Requests -> Reqs]
    /\ arrivals \in Nat /\ disposed \in BOOLEAN
    /\ closed \subseteq Pauses
    /\ \A r \in Requests : /\ req[r].outcome = "unused" => ~req[r].held
                          /\ req[r].at <= arrivals

IndInv == CountInv /\ RequestInv /\ ClosedApart /\ ResolvingIsUnsettled

-----------------------------------------------------------------------------
(* The counts.                                                             *)

\* MAX_PAUSES_PER_OWNER is a number.
LEMMA CapType == MaxPerOwner \in Nat
BY RegistryAssumption

\* The entries of a connection are finitely many.
LEMMA EntriesFinite ==
    ASSUME NEW o PROVE IsFiniteSet(EntriesOf(o)) /\ Cardinality(EntriesOf(o)) \in Nat
<1>1. EntriesOf(o) \in SUBSET Pauses
  BY DEF EntriesOf
<1>2. QED
  BY <1>1, RegistryAssumption, FS_Subset, FS_CardinalityType

\* A call that changes no owner changes no count (reopen, begin, abort, the
\* timers, exec.refused).
LEMMA SameOwners ==
    ASSUME CountInv, EntriesType', \A p \in Pauses : entry'[p].owner = entry[p].owner,
           ownerCount' = ownerCount
    PROVE  CountInv'
<1>1. \A o \in Owners : EntriesOf(o)' = EntriesOf(o)
  BY DEF EntriesOf
<1>2. QED
  BY <1>1 DEF CountInv, OwnerCountExact

\* The count of a connection without the entries of S.
LEMMA CountWithout ==
    ASSUME CountInv, NEW S, NEW o \in Owners
    PROVE  LET n == ownerCount[o] - Cardinality(S \cap EntriesOf(o)) IN
           /\ n \in Nat /\ n <= ownerCount[o]
           /\ n = Cardinality(EntriesOf(o) \ S)
<1>1. ownerCount[o] = Cardinality(EntriesOf(o)) /\ ownerCount[o] \in Nat
  BY DEF CountInv, OwnerCountExact
<1>2. S \cap EntriesOf(o) \in SUBSET EntriesOf(o)
  OBVIOUS
<1>3. Cardinality(S \cap EntriesOf(o)) \in Nat
  BY <1>2, EntriesFinite, FS_Subset, FS_CardinalityType
<1>4. /\ Cardinality(EntriesOf(o) \ S) = Cardinality(EntriesOf(o)) - Cardinality(EntriesOf(o) \cap S)
      /\ Cardinality(EntriesOf(o) \ S) \in Nat
  BY EntriesFinite, FS_Difference, FS_CardinalityType
<1>5. EntriesOf(o) \cap S = S \cap EntriesOf(o)
  OBVIOUS
<1>6. QED
  BY <1>1, <1>3, <1>4, <1>5

\* removeEntry(): the count follows the entries that go.
LEMMA RemovalCounts ==
    ASSUME CountInv, NEW S, RemoveEntries(S) PROVE CountInv'
<1>1. EntriesType'
  BY DEF CountInv, EntriesType, RemoveEntries, Entries, NoEntry
<1>2. ASSUME NEW o \in Owners PROVE EntriesOf(o)' = EntriesOf(o) \ S
  BY RegistryAssumption DEF EntriesOf, RemoveEntries, NoEntry
<1>3. ASSUME NEW o \in Owners
      PROVE  /\ ownerCount'[o] \in Nat /\ ownerCount'[o] <= MaxPerOwner
             /\ ownerCount'[o] = Cardinality(EntriesOf(o))'
  <2>1. ownerCount'[o] = ownerCount[o] - Cardinality(S \cap EntriesOf(o))
    BY DEF RemoveEntries
  <2>2. ownerCount[o] \in Nat /\ ownerCount[o] <= MaxPerOwner /\ MaxPerOwner \in Nat
    BY CapType DEF CountInv, OwnerCountExact
  <2>3. LET n == ownerCount[o] - Cardinality(S \cap EntriesOf(o)) IN
        n \in Nat /\ n <= ownerCount[o] /\ n = Cardinality(EntriesOf(o) \ S)
    BY CountWithout
  <2>4. QED
    BY <1>2, <2>1, <2>2, <2>3
<1>4. ownerCount' \in [Owners -> Nat]
  <2>1. ownerCount' = [o \in Owners |-> ownerCount[o] - Cardinality(S \cap EntriesOf(o))]
    BY DEF RemoveEntries
  <2>2. QED
    BY <1>3, <2>1
<1>5. QED
  BY <1>1, <1>3, <1>4 DEF CountInv, OwnerCountExact

\* exec.paused: the entry that goes first gives its slot back, whoever owned
\* it, and the new one takes a slot unless the cap is met.
LEMMA OpenCounts ==
    ASSUME CountInv, NEW o \in Owners, NEW p \in Pauses, Open(o, p) PROVE CountInv'
<1> DEFINE N(x) == OpenCount(p)[x]
<1>1. ASSUME NEW x \in Owners
      PROVE  /\ N(x) \in Nat /\ N(x) <= MaxPerOwner
             /\ N(x) = Cardinality(EntriesOf(x) \ {p})
  <2>1. N(x) = ownerCount[x] - Cardinality({p} \cap EntriesOf(x))
    BY DEF OpenCount
  <2>2. ownerCount[x] \in Nat /\ ownerCount[x] <= MaxPerOwner /\ MaxPerOwner \in Nat
    BY CapType DEF CountInv, OwnerCountExact
  <2>3. LET n == ownerCount[x] - Cardinality({p} \cap EntriesOf(x)) IN
        n \in Nat /\ n <= ownerCount[x] /\ n = Cardinality(EntriesOf(x) \ {p})
    BY CountWithout
  <2>4. QED
    BY <2>1, <2>2, <2>3
<1>2. OpenCount(p) \in [Owners -> Nat]
  <2>1. OpenCount(p) = [x \in Owners |-> ownerCount[x] - Cardinality({p} \cap EntriesOf(x))]
    BY DEF OpenCount
  <2>2. QED
    BY <1>1, <2>1
<1>3. EntriesType'
  BY DEF Open, CountInv, EntriesType, Entries, NoEntry
<1>4. CASE OpenCount(p)[o] >= MaxPerOwner
  <2>1. ASSUME NEW x \in Owners PROVE EntriesOf(x)' = EntriesOf(x) \ {p}
    BY <1>4, RegistryAssumption DEF Open, EntriesOf, NoEntry, CountInv, EntriesType
  <2>2. ownerCount' = OpenCount(p)
    BY <1>4 DEF Open
  <2>3. QED
    BY <1>1, <1>2, <1>3, <2>1, <2>2 DEF CountInv, OwnerCountExact
<1>5. CASE ~(OpenCount(p)[o] >= MaxPerOwner)
  <2>1. /\ entry' = [entry EXCEPT ![p] = [owner |-> o, resolving |-> None]]
        /\ ownerCount' = [OpenCount(p) EXCEPT ![o] = OpenCount(p)[o] + 1]
    BY <1>5 DEF Open
  <2>2. ASSUME NEW x \in Owners, x # o PROVE EntriesOf(x)' = EntriesOf(x) \ {p}
    BY <2>1, <2>2 DEF EntriesOf, CountInv, EntriesType
  <2>3. EntriesOf(o)' = (EntriesOf(o) \ {p}) \cup {p}
    BY <2>1 DEF EntriesOf, CountInv, EntriesType
  <2>4. Cardinality((EntriesOf(o) \ {p}) \cup {p}) = Cardinality(EntriesOf(o) \ {p}) + 1
    BY EntriesFinite, FS_AddElement, FS_Difference
  <2>5. N(o) + 1 <= MaxPerOwner
    <3>1. N(o) \in Nat /\ ~(N(o) >= MaxPerOwner)
      BY <1>1, <1>5
    <3>2. QED
      BY <3>1, CapType
  <2>6. ownerCount' \in [Owners -> Nat]
    BY <1>1, <1>2, <2>1
  <2>7. ASSUME NEW x \in Owners
        PROVE  ownerCount'[x] = Cardinality(EntriesOf(x))' /\ ownerCount'[x] <= MaxPerOwner
    <3>1. CASE x = o
      BY <3>1, <1>1, <1>2, <2>1, <2>3, <2>4, <2>5
    <3>2. CASE x # o
      BY <3>2, <1>1, <1>2, <2>1, <2>2
    <3>3. QED
      BY <3>1, <3>2
  <2>8. QED
    BY <1>3, <2>6, <2>7 DEF CountInv, OwnerCountExact
<1>6. QED
  BY <1>4, <1>5

\* The app's socket closed: its entries go together and its count starts over.
LEMMA CloseOwnerCounts ==
    ASSUME CountInv, NEW o \in Owners, CloseOwner(o) PROVE CountInv'
<1>1. EntriesType'
  BY DEF CloseOwner, CountInv, EntriesType, Entries, NoEntry
<1>2. EntriesOf(o)' = {}
  BY RegistryAssumption DEF CloseOwner, EntriesOf, NoEntry
<1>3. ASSUME NEW x \in Owners, x # o PROVE EntriesOf(x)' = EntriesOf(x)
  BY <1>3, RegistryAssumption DEF CloseOwner, EntriesOf, NoEntry
<1>4. ownerCount' \in [Owners -> Nat] /\ ownerCount'[o] = 0
      /\ \A x \in Owners : x # o => ownerCount'[x] = ownerCount[x]
  BY DEF CloseOwner, CountInv
<1>5. Cardinality({}) = 0 /\ 0 <= MaxPerOwner
  BY FS_EmptySet, RegistryAssumption
<1>6. QED
  BY <1>1, <1>2, <1>3, <1>4, <1>5 DEF CountInv, OwnerCountExact

\* Every call of the registry keeps the counts exact.
LEMMA CountStep == CountInv /\ [RegistryNext]_registryVars => CountInv'
<1> SUFFICES ASSUME CountInv, [RegistryNext]_registryVars PROVE CountInv'
  OBVIOUS
<1>1. ASSUME NEW o \in Owners, CloseOwner(o) PROVE CountInv'
  BY <1>1, CloseOwnerCounts
<1>2. ASSUME NEW o \in Owners, NEW p \in Pauses, Open(o, p) PROVE CountInv'
  BY <1>2, OpenCounts
<1>3. ASSUME NEW run \in Runs, CloseRun(run) PROVE CountInv'
  BY <1>3, RemovalCounts DEF CloseRun
<1>4. ASSUME NEW p \in Pauses, NEW echoed, Refused(p, echoed) PROVE CountInv'
  <2>1. EntriesType' /\ \A x \in Pauses : entry'[x].owner = entry[x].owner
    BY <1>4 DEF Refused, RefusedEntry, CountInv, EntriesType, Entries
  <2>2. QED
    BY <1>4, <2>1, SameOwners DEF Refused
<1>5. ASSUME NEW p \in Pauses, NEW echoed, NEW ec, NEW a, Resumed(p, echoed, ec, a)
      PROVE  CountInv'
  BY <1>5, RemovalCounts DEF Resumed
<1>6. ASSUME NEW r \in Requests, NEW p \in Pauses, NEW o, NEW a, NEW posted, Begin(r, p, o, a, posted)
      PROVE  CountInv'
  <2>1. ownerCount' = ownerCount
        /\ entry' \in {entry, [entry EXCEPT ![p].resolving = r]}
    BY <1>6 DEF Begin
  <2>2. EntriesType' /\ \A x \in Pauses : entry'[x].owner = entry[x].owner
    BY <2>1 DEF CountInv, EntriesType, Entries
  <2>3. QED
    BY <2>1, <2>2, SameOwners
<1>7. ASSUME NEW r \in Requests, Abort(r) PROVE CountInv'
  <2>1. EntriesType' /\ \A x \in Pauses : entry'[x].owner = entry[x].owner
    BY <1>7 DEF Abort, AbortEntry, CountInv, EntriesType, Entries
  <2>2. QED
    BY <1>7, <2>1, SameOwners DEF Abort
<1>8. ASSUME NEW p \in Pauses, ResolvingTimeout(p) PROVE CountInv'
  <2>1. EntriesType' /\ \A x \in Pauses : entry'[x].owner = entry[x].owner
    BY <1>8 DEF ResolvingTimeout, Reopen, CountInv, EntriesType, Entries
  <2>2. QED
    BY <1>8, <2>1, SameOwners DEF ResolvingTimeout
<1>9. ASSUME entry' = entry, ownerCount' = ownerCount PROVE CountInv'
  BY <1>9, SameOwners DEF CountInv, EntriesType
<1>10. QED
  BY <1>1, <1>2, <1>3, <1>4, <1>5, <1>6, <1>7, <1>8, <1>9
     DEF RegistryNext, Frames, Resumes, Deadline, Dispose, registryVars

-----------------------------------------------------------------------------
(* The requests.                                                           *)

\* What a call may do to a request that was begun before: nothing, answer it
\* if it waits, or forget it.
Kept(q, q2) ==
    /\ q2 \in Reqs
    /\ q2.pause = q.pause /\ q2.owner = q.owner /\ q2.action = q.action
    /\ q2.known = q.known /\ q2.at = q.at
    /\ q.outcome = "pending" => q2.outcome \in Answers \cup {"pending"}
    /\ q.outcome # "pending" => q2.outcome = q.outcome
    /\ q2.held => q.held

\* The first answer stands (settle()).
LEMMA SettledKeeps ==
    ASSUME NEW q \in Reqs, NEW a \in Answers
    PROVE  /\ Kept(q, Settled(q, a)) /\ Settled(q, a).held = q.held
           /\ Settled(q, a).outcome = IF q.outcome = "pending" THEN a ELSE q.outcome
           /\ Kept(q, [Settled(q, a) EXCEPT !.held = FALSE])
           /\ ~[Settled(q, a) EXCEPT !.held = FALSE].held
           /\ [Settled(q, a) EXCEPT !.held = FALSE].outcome = Settled(q, a).outcome
BY DEF Settled, Kept, Reqs, Answers

\* A request left alone is kept.
LEMMA SameKept == ASSUME NEW q \in Reqs PROVE Kept(q, q)
BY DEF Kept, Reqs

\* What begin() leaves of request s, step by step: recorded if s is the new
\* one, answered if it is best-effort and shed, then answered and forgotten if
\* it is evicted, or answered at once if it could not be sent.
New(p, o, action) ==
    [outcome |-> "pending", pause |-> p, owner |-> o, action |-> action,
     known |-> Tracked(p), held |-> TRUE, at |-> arrivals]
Begun(r, p, o, action) == [req EXCEPT ![r] = New(p, o, action)]
Asked(r, p, o, action) ==
    LET shed == IF Tracked(p) THEN {} ELSE Crowded(Begun(r, p, o, action)) IN
    [s \in Requests |-> IF s \in shed THEN Settled(Begun(r, p, o, action)[s], "no-answer")
                        ELSE Begun(r, p, o, action)[s]]

\* begin() in terms of those steps.
LEMMA BeginSteps ==
    ASSUME NEW r \in Requests, NEW p, NEW o, NEW action, NEW posted, Begin(r, p, o, action, posted)
    PROVE  LET asked == Asked(r, p, o, action) IN
           /\ ~disposed /\ req[r].outcome = "unused" /\ ~Taken(p) /\ ~KnownClosed(p)
           /\ req' = [s \in Requests |->
                         IF s \in Evicted(asked)
                         THEN [Settled(asked[s], "no-answer") EXCEPT !.held = FALSE]
                         ELSE IF s = r /\ ~posted THEN Settled(asked[s], "app-disconnected")
                         ELSE asked[s]]
           /\ arrivals' = arrivals + 1
           /\ entry' = IF Tracked(p) /\ (posted \/ r \in Evicted(asked))
                       THEN [entry EXCEPT ![p].resolving = r] ELSE entry
           /\ UNCHANGED <<ownerCount, closed, disposed>>
BY DEF Begin, Asked, Begun, New

\* A new request is of the right shape, and shedding only answers requests.
LEMMA AskedKeeps ==
    ASSUME RequestInv, NEW r \in Requests, NEW p \in Pauses, NEW o \in Owners,
           NEW action \in Actions
    PROVE  /\ Asked(r, p, o, action) \in [Requests -> Reqs]
           /\ Kept(New(p, o, action), Asked(r, p, o, action)[r])
           /\ \A s \in Requests : s # r => Kept(req[s], Asked(r, p, o, action)[s])
<1> DEFINE new == New(p, o, action)
           begun == Begun(r, p, o, action)
           asked == Asked(r, p, o, action)
<1>1. new \in Reqs
  BY DEF New, Reqs, RequestInv, Tracked
<1>2. /\ begun \in [Requests -> Reqs] /\ begun[r] = new
      /\ \A s \in Requests : s # r => begun[s] = req[s]
  <2> HIDE DEF new
  <2>1. begun = [req EXCEPT ![r] = new]
    BY DEF Begun, new
  <2>2. QED
    BY <1>1, <2>1 DEF RequestInv
<1>3. ASSUME NEW s \in Requests PROVE Kept(begun[s], asked[s])
  <2>1. asked[s] \in {begun[s], Settled(begun[s], "no-answer")}
    BY DEF Asked
  <2>2. begun[s] \in Reqs /\ "no-answer" \in Answers
    BY <1>2 DEF Answers
  <2> HIDE DEF begun, asked
  <2>3. QED
    BY <2>1, <2>2, SettledKeeps, SameKept
<1>4. asked \in [Requests -> Reqs]
  <2>1. asked = [s \in Requests |-> asked[s]]
    BY DEF Asked
  <2> HIDE DEF asked, begun
  <2>2. QED
    BY <1>3, <2>1 DEF Kept
<1>5. QED
  BY <1>2, <1>3, <1>4
\* A call of begin(), seen by each request: the new one is answered or waits,
\* the others are kept.
LEMMA BeginKeeps ==
    ASSUME RequestInv, NEW r \in Requests, NEW p \in Pauses, NEW o \in Owners,
           NEW action \in Actions, NEW posted \in BOOLEAN, Begin(r, p, o, action, posted)
    PROVE  /\ req' \in [Requests -> Reqs]
           /\ Kept(New(p, o, action), req'[r]) /\ req'[r].outcome # "unused"
           /\ \A s \in Requests : s # r => Kept(req[s], req'[s])
<1> DEFINE asked == Asked(r, p, o, action)
           out == Evicted(asked)
           new == New(p, o, action)
<1>1. req' = [s \in Requests |->
                 IF s \in out THEN [Settled(asked[s], "no-answer") EXCEPT !.held = FALSE]
                 ELSE IF s = r /\ ~posted THEN Settled(asked[s], "app-disconnected")
                 ELSE asked[s]]
  BY BeginSteps
<1>2. /\ asked \in [Requests -> Reqs] /\ Kept(new, asked[r])
      /\ \A s \in Requests : s # r => Kept(req[s], asked[s])
  BY AskedKeeps
<1>3. new.outcome = "pending"
  BY DEF New
<1> HIDE DEF asked, new, out
<1>4. ASSUME NEW s \in Requests PROVE Kept(asked[s], req'[s])
  <2>1. {"no-answer", "app-disconnected"} \subseteq Answers /\ asked[s] \in Reqs
    BY <1>2 DEF Answers
  <2>2. CASE s \in out
    BY <1>1, <2>1, <2>2, SettledKeeps
  <2>3. CASE s \notin out /\ s = r /\ ~posted
    BY <1>1, <2>1, <2>3, SettledKeeps
  <2>4. CASE s \notin out /\ ~(s = r /\ ~posted)
    BY <1>1, <2>1, <2>4, SameKept
  <2>5. QED
    BY <2>2, <2>3, <2>4
<1>5. ASSUME NEW q, NEW q2, NEW q3, Kept(q, q2), Kept(q2, q3) PROVE Kept(q, q3)
  BY <1>5 DEF Kept, Answers
<1>6. req' \in [Requests -> Reqs]
  BY <1>1, <1>4 DEF Kept
<1>7. Kept(new, req'[r]) /\ req'[r].outcome # "unused"
  <2>1. Kept(new, req'[r])
    BY <1>2, <1>4, <1>5
  <2>2. QED
    BY <1>3, <2>1 DEF Kept, Answers
<1>8. QED
  BY <1>2, <1>4, <1>5, <1>6, <1>7 DEF new

\* Which requests may be new in a step: the one begin() was called for.
BegunBy(r) == \E p \in Pauses, o \in Owners, a \in Actions, posted \in BOOLEAN :
                 Begin(r, p, o, a, posted)

Begins == \E r \in Requests : BegunBy(r)

\* Every call keeps every request that was begun before; only begin() records
\* one, and only begin() forgets one.
LEMMA RequestsKept ==
    ASSUME RequestInv, [RegistryNext]_registryVars
    PROVE  \A r \in Requests : \/ Kept(req[r], req'[r]) /\ (req'[r].held = req[r].held \/ Begins)
                               \/ BegunBy(r)
<1> DEFINE Same(s) == Kept(req[s], req'[s]) /\ req'[s].held = req[s].held
<1> SUFFICES ASSUME NEW s \in Requests
             PROVE  Same(s) \/ (Kept(req[s], req'[s]) /\ Begins) \/ BegunBy(s)
  OBVIOUS
<1>0. req \in [Requests -> Reqs] /\ req[s] \in Reqs
  BY DEF RequestInv
<1>1. ASSUME NEW a \in Answers, req'[s] \in {req[s], Settled(req[s], a)} PROVE Same(s)
  BY <1>0, <1>1, SettledKeeps, SameKept
<1>2. {"resumed", "refused", "superseded", "no-answer", "app-disconnected", "send-failed",
       "run-finished", "server-closing"} \subseteq Answers
  BY DEF Answers
<1>3. ASSUME NEW r \in Requests, NEW p \in Pauses, NEW o \in Owners, NEW a \in Actions,
             NEW posted \in BOOLEAN, Begin(r, p, o, a, posted)
      PROVE  (Kept(req[s], req'[s]) /\ Begins) \/ BegunBy(s)
  BY <1>3, BeginKeeps DEF BegunBy, Begins
<1>4. CASE \/ \E o \in Owners : CloseOwner(o)
           \/ \E run \in Runs : CloseRun(run)
           \/ \E p \in Pauses, e \in Requests \cup {None} : Refused(p, e)
           \/ \E r \in Requests : Abort(r) \/ Deadline(r)
           \/ Dispose
  <2>1. \E a \in Answers : req'[s] \in {req[s], Settled(req[s], a)}
    BY <1>0, <1>2, <1>4 DEF CloseOwner, CloseRun, Refused, Abort, Deadline, Dispose
  <2>2. QED
    BY <1>1, <2>1
<1>5. ASSUME NEW p \in Pauses, NEW e, NEW ec, NEW a, Resumed(p, e, ec, a)
      PROVE  Same(s)
  <2>1. req'[s] \in {req[s], Settled(req[s], "resumed"), Settled(req[s], "superseded")}
    BY <1>5 DEF Resumed
  <2>2. QED
    BY <1>1, <1>2, <2>1
<1>6. ASSUME req' = req PROVE Same(s)
  BY <1>0, <1>6, SameKept
<1> HIDE DEF Same
<1>7. QED
  BY <1>3, <1>4, <1>5, <1>6
     DEF RegistryNext, Frames, Resumes, Open, ResolvingTimeout, registryVars

\* markClosed() remembers only keys that were closed now or before.
LEMMA MarkedClosed == ASSUME NEW S, MarkClosed(S) PROVE closed' \subseteq closed \cup S
BY DEF MarkClosed

\* Every call keeps the requests well typed, and no request is remembered that
\* was never begun.
LEMMA RequestStep == RequestInv /\ EntriesType /\ [RegistryNext]_registryVars => RequestInv'
<1> SUFFICES ASSUME RequestInv, EntriesType, [RegistryNext]_registryVars PROVE RequestInv'
  OBVIOUS
<1>1. ASSUME NEW s \in Requests
      PROVE  /\ req'[s] \in Reqs /\ req'[s].at \in {req[s].at, arrivals}
             /\ req'[s].outcome = "unused" => ~req'[s].held
  <2>1. CASE Kept(req[s], req'[s])
    BY <2>1 DEF Kept, RequestInv, Reqs, Answers
  <2>2. CASE BegunBy(s)
    BY <2>2, BeginKeeps DEF BegunBy, Kept, New, RequestInv
  <2>3. QED
    BY <2>1, <2>2, RequestsKept
<1>2. req' = [s \in Requests |-> req'[s]]
  <2>1. ASSUME NEW r \in Requests, BegunBy(r) PROVE req' = [s \in Requests |-> req'[s]]
    BY <2>1, BeginKeeps DEF BegunBy
  <2>2. CASE UNCHANGED req
    BY <2>2 DEF RequestInv
  <2>3. QED
    BY <2>1, <2>2
       DEF RegistryNext, Frames, Resumes, BegunBy, CloseOwner, CloseRun, Refused, Resumed,
           Open, Abort, Deadline, Dispose, ResolvingTimeout, registryVars, RequestInv
<1>3. arrivals \in Nat /\ arrivals' \in {arrivals, arrivals + 1} /\ disposed' \in BOOLEAN
  <2>1. arrivals \in Nat /\ disposed \in BOOLEAN
    BY DEF RequestInv
  <2>2. CASE arrivals' = arrivals + 1 /\ disposed' = disposed
    BY <2>1, <2>2
  <2>3. CASE arrivals' = arrivals /\ disposed' \in {disposed, TRUE}
    BY <2>1, <2>3
  <2>4. ASSUME NEW r, NEW p, NEW o, NEW a, NEW posted, Begin(r, p, o, a, posted)
        PROVE  arrivals' = arrivals + 1 /\ disposed' = disposed
    BY <2>4 DEF Begin
  <2>5. QED
    BY <2>2, <2>3, <2>4
       DEF RegistryNext, Frames, Resumes, CloseOwner, CloseRun, Refused, Resumed,
           Open, Abort, Deadline, Dispose, ResolvingTimeout, registryVars
<1>4. closed' \subseteq Pauses
  <2>1. ASSUME NEW S \in SUBSET Pauses, MarkClosed(S) PROVE closed' \subseteq Pauses
    BY <2>1, MarkedClosed DEF RequestInv
  <2>2. ASSUME NEW o \in Owners, CloseOwner(o) PROVE closed' \subseteq Pauses
    BY <2>1, <2>2 DEF CloseOwner, EntriesOf
  <2>3. ASSUME NEW run, CloseRun(run) PROVE closed' \subseteq Pauses
    BY <2>1, <2>3 DEF CloseRun
  <2>4. ASSUME NEW p \in Pauses, NEW e, NEW ec, NEW a, Resumed(p, e, ec, a)
        PROVE  closed' \subseteq Pauses
    BY <2>1, <2>4 DEF Resumed
  <2>5. ASSUME NEW o, NEW p, Open(o, p) PROVE closed' \subseteq Pauses
    BY <2>5 DEF Open, Forget, RequestInv
  <2>6. ASSUME closed' = closed PROVE closed' \subseteq Pauses
    BY <2>6 DEF RequestInv
  <2>7. ASSUME NEW r, NEW p, NEW o, NEW a, NEW posted, Begin(r, p, o, a, posted)
        PROVE  closed' \subseteq Pauses
    BY <2>6, <2>7 DEF Begin
  <2>8. QED
    BY <2>2, <2>3, <2>4, <2>5, <2>6, <2>7
       DEF RegistryNext, Frames, Resumes, Refused, Abort, Deadline, Dispose,
           ResolvingTimeout, registryVars
<1>5. ASSUME NEW s \in Requests PROVE req'[s].at <= arrivals'
  <2>1. req[s].at \in Nat /\ req[s].at <= arrivals
    BY DEF RequestInv, Reqs
  <2>2. QED
    BY <1>1, <1>3, <2>1
<1>6. arrivals' \in Nat
  BY <1>3
<1>7. QED
  BY <1>1, <1>2, <1>3, <1>4, <1>5, <1>6 DEF RequestInv

-----------------------------------------------------------------------------
(* The closed keys.                                                        *)

\* A key leaves the entries when it is marked closed, and the closed memory
\* when it is opened.
LEMMA ClosedStep ==
    EntriesType /\ ClosedApart /\ [RegistryNext]_registryVars => ClosedApart'
<1> SUFFICES ASSUME EntriesType, ClosedApart, [RegistryNext]_registryVars PROVE ClosedApart'
  OBVIOUS
<1>1. ASSUME NEW S, MarkClosed(S), \A p \in Pauses : Tracked(p)' => Tracked(p) /\ p \notin S
      PROVE  ClosedApart'
  <2>1. closed' \subseteq closed \cup S
    BY <1>1, MarkedClosed
  <2>2. QED
    BY <1>1, <2>1 DEF ClosedApart
<1>2. ASSUME NEW S, RemoveEntries(S) PROVE \A p \in Pauses : Tracked(p)' => Tracked(p) /\ p \notin S
  BY <1>2 DEF RemoveEntries, Tracked, NoEntry
<1>3. ASSUME NEW o \in Owners, CloseOwner(o) PROVE ClosedApart'
  <2>1. \A p \in Pauses : Tracked(p)' => Tracked(p) /\ p \notin EntriesOf(o)
    BY <1>3 DEF CloseOwner, Tracked, NoEntry
  <2>2. QED
    BY <1>1, <1>3, <2>1 DEF CloseOwner
<1>4. ASSUME NEW run, CloseRun(run) PROVE ClosedApart'
  BY <1>1, <1>2, <1>4 DEF CloseRun
<1>5. ASSUME NEW p, NEW e, NEW ec, NEW a, Resumed(p, e, ec, a) PROVE ClosedApart'
  BY <1>1, <1>2, <1>5 DEF Resumed, ResumedEntries
<1>6. ASSUME NEW o, NEW p, Open(o, p) PROVE ClosedApart'
  BY <1>6 DEF Open, Forget, Tracked, NoEntry, ClosedApart, EntriesType
<1>7. ASSUME closed' = closed, \A p \in Pauses : entry'[p].owner = entry[p].owner PROVE ClosedApart'
  BY <1>7 DEF ClosedApart, Tracked
<1>8. ASSUME NEW r, NEW p, NEW o, NEW a, NEW posted, Begin(r, p, o, a, posted) PROVE ClosedApart'
  <2>1. closed' = closed /\ entry' \in {entry, [entry EXCEPT ![p].resolving = r]}
    BY <1>8 DEF Begin
  <2>2. \A x \in Pauses : entry'[x].owner = entry[x].owner
    BY <2>1 DEF EntriesType, Entries
  <2>3. QED
    BY <1>7, <2>1, <2>2
<1>9. ASSUME NEW p, NEW x, entry' = [entry EXCEPT ![p].resolving = x], closed' = closed
      PROVE  ClosedApart'
  <2>1. \A y \in Pauses : entry'[y].owner = entry[y].owner
    BY <1>9 DEF EntriesType, Entries
  <2>2. QED
    BY <1>7, <1>9, <2>1
<1>10. QED
  BY <1>3, <1>4, <1>5, <1>6, <1>7, <1>8, <1>9
     DEF RegistryNext, Frames, Resumes, Refused, Abort, Deadline, Dispose,
         ResolvingTimeout, Reopen, registryVars
-----------------------------------------------------------------------------
(* The requests that entries resolve on.                                   *)

\* A set of numbers has a least one.
LEMMA LeastNumber == ASSUME NEW T \in SUBSET Nat, T # {} PROVE \E x \in T : \A y \in T : x <= y
<1>1. PICK x \in T : \A y \in T : <<y, x>> \notin OpToRel(<, Nat)
  BY NatLessThanWellFounded, WFMin
<1>2. \A y \in T : <<y, x>> \in OpToRel(<, Nat) <=> y < x
  BY Zenon DEF OpToRel
<1>3. \A y \in T : ~(y < x)
  BY <1>1, <1>2, Zenon
<1>4. QED
  BY <1>3

\* The newest of some requests is one of them.
LEMMA NewestIsOne ==
    ASSUME RequestInv, NEW S \in SUBSET Requests, S # {} PROVE Newest(S) \in S
<1> DEFINE T == {arrivals - req[r].at : r \in S}
<1>1. \A r \in S : req[r].at \in Nat /\ req[r].at <= arrivals /\ arrivals \in Nat
  BY DEF RequestInv, Reqs
<1>2. T \in SUBSET Nat /\ T # {}
  BY <1>1
<1>3. PICK x \in T : \A y \in T : x <= y
  BY <1>2, LeastNumber
<1>4. PICK r \in S : x = arrivals - req[r].at
  BY <1>3
<1>5. ASSUME NEW s \in S PROVE req[s].at <= req[r].at
  <2>1. arrivals - req[r].at <= arrivals - req[s].at
    BY <1>3, <1>4
  <2>2. QED
    BY <1>1, <2>1
<1>6. QED
  BY <1>5 DEF Newest

\* correlate() credits a request for this pause, or none.
LEMMA CorrelateIsForThePause ==
    ASSUME RequestInv, NEW p, NEW echoed \in Requests \cup {None}, NEW ec, NEW action,
           NEW r, r = Correlate(p, echoed, ec, action), r # None
    PROVE  r \in Requests /\ req[r].pause = p
<1> DEFINE candidates == {s \in Requests : Matches(s, p, action)}
<1>1. CASE echoed # None
  BY <1>1 DEF Correlate, Remembered
<1>2. CASE echoed = None
  <2>1. r = Guess(p, action)
    BY <1>2 DEF Correlate
  <2>2. r \in candidates
    BY <2>1, NewestIsOne DEF Guess
  <2>3. QED
    BY <2>2 DEF Matches
<1>3. QED
  BY <1>1, <1>2

\* What ResolvingIsUnsettled says of one entry.
Resolves(e, p, q, off) ==
    LET r == e.resolving IN
    r # None => /\ e.owner # None
                /\ q[r].pause = p /\ q[r].owner = e.owner /\ q[r].known
                /\ ~off => q[r].outcome \in {"pending", "no-answer"}

\* The property, entry by entry.
LEMMA ResolvesParts ==
    /\ ResolvingIsUnsettled <=> \A p \in Pauses : Resolves(entry[p], p, req, disposed)
    /\ ResolvingIsUnsettled' <=> \A p \in Pauses : Resolves(entry'[p], p, req', disposed')
<1>1. ResolvingIsUnsettled <=> \A p \in Pauses : Resolves(entry[p], p, req, disposed)
  BY DEF ResolvingIsUnsettled, Resolves, Tracked
<1>2. ResolvingIsUnsettled' <=> \A p \in Pauses : Resolves(entry'[p], p, req', disposed')
  BY DEF ResolvingIsUnsettled, Resolves, Tracked
<1>3. QED
  BY <1>1, <1>2

\* An entry that resolves on nothing resolves well, and so does one whose
\* request is left alone or runs out of time.
LEMMA ResolvesStill ==
    ASSUME NEW e, NEW p, NEW q, NEW q2, NEW off, Resolves(e, p, q, off),
           e.resolving # None =>
               LET r == e.resolving IN
               /\ q2[r].pause = q[r].pause /\ q2[r].owner = q[r].owner /\ q2[r].known = q[r].known
               /\ \/ q2[r].outcome = q[r].outcome
                  \/ q2[r].outcome = "no-answer"
    PROVE  Resolves(e, p, q2, off)
BY DEF Resolves
\* exec.refused is the answer to a request for its own pause.
LEMMA RefusedIsForThePause ==
    ASSUME RequestInv, EntriesType, ResolvingIsUnsettled, NEW p \in Pauses,
           NEW echoed \in Requests \cup {None},
           NEW r \in Requests, r = RefusedRequest(p, echoed)
    PROVE  req[r].pause = p
<1>1. r # None
  BY RegistryAssumption
<1>2. CASE r = entry[p].resolving
  BY <1>1, <1>2, ResolvesParts DEF Resolves
<1>3. CASE \E e \in Requests \cup {None} : \E ec, action : r = Correlate(p, e, ec, action)
  BY <1>1, <1>3, CorrelateIsForThePause
<1>4. QED
  BY <1>1, <1>2, <1>3 DEF RefusedRequest

\* A step that leaves an entry, and its request unless it runs out of time.
Spared(p) ==
    /\ entry'[p] = entry[p]
    /\ LET r == entry[p].resolving IN
       r # None => /\ req'[r].pause = req[r].pause /\ req'[r].owner = req[r].owner
                   /\ req'[r].known = req[r].known
                   /\ \/ req'[r].outcome = req[r].outcome
                      \/ req'[r].outcome = "no-answer"

\* An entry that is given back or spared resolves as well as before.
LEMMA SparedStays ==
    ASSUME NEW p \in Pauses, Resolves(entry[p], p, req, disposed), disposed' = disposed,
           entry'[p].resolving = None \/ Spared(p)
    PROVE  Resolves(entry'[p], p, req', disposed')
BY DEF Spared, Resolves

\* An entry is given back, or left with a request that is still open, in
\* every frame of the app.
LEMMA FramesResolve ==
    ASSUME RequestInv, EntriesType, ResolvingIsUnsettled, Frames,
           NEW x \in Pauses
    PROVE  disposed' = disposed /\ (entry'[x].resolving = None \/ Spared(x))
<1>0. /\ Resolves(entry[x], x, req, disposed)
      /\ entry[x].resolving \in Requests \cup {None}
      /\ req \in [Requests -> Reqs] /\ entry \in [Pauses -> Entries]
  BY ResolvesParts DEF EntriesType, Entries, RequestInv
<1>1. ASSUME NEW o \in Owners, CloseOwner(o)
      PROVE  disposed' = disposed /\ (entry'[x].resolving = None \/ Spared(x))
  <2>1. CASE x \in EntriesOf(o)
    BY <1>1, <2>1 DEF CloseOwner, NoEntry
  <2>2. CASE x \notin EntriesOf(o)
    BY <1>0, <1>1, <2>2 DEF CloseOwner, EntriesOf, Spared, Resolves
  <2>3. QED
    BY <2>1, <2>2
<1>2. ASSUME NEW o \in Owners, NEW p \in Pauses, Open(o, p)
      PROVE  disposed' = disposed /\ (entry'[x].resolving = None \/ Spared(x))
  BY <1>0, <1>2 DEF Open, NoEntry, Spared
<1>3. ASSUME NEW run \in Runs, CloseRun(run)
      PROVE  disposed' = disposed /\ (entry'[x].resolving = None \/ Spared(x))
  <2>1. CASE RunOf[x] = run /\ Tracked(x)
    BY <1>3, <2>1 DEF CloseRun, RemoveEntries, NoEntry
  <2>2. CASE ~(RunOf[x] = run /\ Tracked(x))
    BY <1>0, <1>3, <2>2 DEF CloseRun, RemoveEntries, Spared, Resolves, Tracked
  <2>3. QED
    BY <2>1, <2>2
<1>4. ASSUME NEW p \in Pauses, NEW e \in Requests \cup {None}, Refused(p, e)
      PROVE  disposed' = disposed /\ (entry'[x].resolving = None \/ Spared(x))
  <2>1. CASE x = p
    BY <1>0, <1>4, <2>1 DEF Refused, RefusedEntry, Entries
  <2>2. CASE x # p
    <3>1. ASSUME NEW r \in Requests, r = entry[x].resolving PROVE r # RefusedRequest(p, e)
      BY <1>0, <2>2, <3>1, RefusedIsForThePause, RegistryAssumption DEF Resolves
    <3>2. entry'[x] = entry[x] /\ disposed' = disposed
      BY <1>0, <1>4, <2>2 DEF Refused
    <3>3. ASSUME NEW r \in Requests, r = entry[x].resolving PROVE req'[r] = req[r]
      BY <1>4, <3>1, <3>3 DEF Refused
    <3>4. QED
      BY <1>0, <3>2, <3>3 DEF Spared
  <2>3. QED
    BY <2>1, <2>2
<1>5. ASSUME NEW p \in Pauses, NEW e \in Requests \cup {None}, NEW ec \in BOOLEAN,
             NEW a \in Actions, Resumed(p, e, ec, a)
      PROVE  disposed' = disposed /\ (entry'[x].resolving = None \/ Spared(x))
  <2>1. CASE x = p
    BY <1>5, <2>1 DEF Resumed, ResumedEntries, RemoveEntries, NoEntry
  <2>2. CASE x # p
    <3>1. ASSUME NEW r \in Requests, r = entry[x].resolving
          PROVE  r # Correlate(p, e, ec, a) /\ req[r].pause # p
      BY <1>0, <2>2, <3>1, CorrelateIsForThePause, RegistryAssumption DEF Resolves
    <3>2. entry'[x] = entry[x] /\ disposed' = disposed
      BY <1>5, <2>2 DEF Resumed, ResumedEntries, RemoveEntries
    <3>3. ASSUME NEW r \in Requests, r = entry[x].resolving PROVE req'[r] = req[r]
      BY <1>5, <3>1, <3>3 DEF Resumed
    <3>4. QED
      BY <1>0, <3>2, <3>3 DEF Spared
  <2>3. QED
    BY <2>1, <2>2
<1>6. QED
  BY <1>1, <1>2, <1>3, <1>4, <1>5 DEF Frames
\* begin() claims a listed pause for the new request; whatever it sheds or
\* evicts runs out of time, so the other entries are spared.
LEMMA BeginResolves ==
    ASSUME RequestInv, EntriesType, ResolvingIsUnsettled,
           NEW r \in Requests, NEW p \in Pauses, NEW o \in Owners, NEW action \in Actions,
           NEW posted \in BOOLEAN, Tracked(p) => o = entry[p].owner,
           Begin(r, p, o, action, posted), NEW x \in Pauses
    PROVE  Resolves(entry'[x], x, req', disposed')
<1> DEFINE asked == Asked(r, p, o, action)
           out == Evicted(asked)
           new == New(p, o, action)
<1>1. /\ ~disposed /\ disposed' = disposed /\ req[r].outcome = "unused"
      /\ entry' = IF Tracked(p) /\ (posted \/ r \in out)
                  THEN [entry EXCEPT ![p].resolving = r] ELSE entry
      /\ req' = [s \in Requests |->
                    IF s \in out THEN [Settled(asked[s], "no-answer") EXCEPT !.held = FALSE]
                    ELSE IF s = r /\ ~posted THEN Settled(asked[s], "app-disconnected")
                    ELSE asked[s]]
  BY BeginSteps
<1>2. /\ Resolves(entry[x], x, req, disposed)
      /\ entry[x].resolving \in Requests \cup {None}
      /\ req \in [Requests -> Reqs] /\ entry \in [Pauses -> Entries]
  BY ResolvesParts DEF EntriesType, Entries, RequestInv
<1>3. entry[x].resolving # r
  BY <1>1, <1>2, RegistryAssumption DEF Resolves
<1>4. new \in Reqs /\ new.outcome = "pending" /\ new.pause = p /\ new.owner = o
      /\ new.known = Tracked(p)
  BY DEF New, Reqs, RequestInv, Tracked
<1>5. asked \in [Requests -> Reqs]
  BY AskedKeeps
<1>6. ASSUME NEW s \in Requests, s # r
      PROVE  /\ req'[s].outcome \in {req[s].outcome, "no-answer"}
             /\ req'[s].pause = req[s].pause /\ req'[s].owner = req[s].owner
             /\ req'[s].known = req[s].known
  <2>1. asked[s] \in {req[s], Settled(req[s], "no-answer")}
    BY <1>2, <1>6 DEF Asked, Begun
  <2>2. req'[s] \in {asked[s], [Settled(asked[s], "no-answer") EXCEPT !.held = FALSE]}
    BY <1>1, <1>6
  <2>3. req[s] \in Reqs /\ asked[s] \in Reqs
    BY <1>2, <1>5
  <2> HIDE DEF asked, out, new
  <2>4. QED
    BY <2>1, <2>2, <2>3 DEF Settled, Reqs
<1>7. CASE entry'[x] = entry[x]
  <2>1. Spared(x)
    BY <1>2, <1>3, <1>6, <1>7 DEF Spared
  <2>2. QED
    BY <1>1, <1>2, <2>1, SparedStays
<1>8. CASE entry'[x] # entry[x]
  <2>1. /\ x = p /\ Tracked(p) /\ (posted \/ r \in out)
        /\ entry'[x].resolving = r /\ entry'[x].owner = entry[x].owner
    BY <1>1, <1>2, <1>8 DEF Entries
  <2>2. asked[r] = new
    BY <1>2, <2>1 DEF Asked, Begun, RequestInv
  <2>3. req'[r] \in {new, [Settled(new, "no-answer") EXCEPT !.held = FALSE]}
    BY <1>1, <2>1, <2>2
  <2>4. /\ req'[r].outcome \in {"pending", "no-answer"}
        /\ req'[r].pause = p /\ req'[r].owner = o /\ req'[r].known
    <3> HIDE DEF asked, out, new
    <3>1. QED
      BY <1>4, <2>1, <2>3 DEF Settled, Reqs
  <2>5. QED
    BY <2>1, <2>4 DEF Resolves, Tracked
<1>9. QED
  BY <1>7, <1>8

\* Every call keeps an entry's request open: each answer to it gives the pause
\* back, or ends it, in the same call.
LEMMA ResolvingStep ==
    RequestInv /\ EntriesType /\ ResolvingIsUnsettled /\ [RegistryNext]_registryVars
        => ResolvingIsUnsettled'
<1> SUFFICES ASSUME RequestInv, EntriesType, ResolvingIsUnsettled, [RegistryNext]_registryVars,
                    NEW x \in Pauses
             PROVE  Resolves(entry'[x], x, req', disposed')
  BY ResolvesParts
<1>0. /\ Resolves(entry[x], x, req, disposed)
      /\ entry[x].resolving \in Requests \cup {None}
      /\ req \in [Requests -> Reqs] /\ entry \in [Pauses -> Entries]
  BY ResolvesParts DEF EntriesType, Entries, RequestInv
<1>1. CASE Frames
  BY <1>0, <1>1, FramesResolve, SparedStays
<1>2. ASSUME NEW r \in Requests, NEW p \in Pauses, NEW o \in Owners, NEW a \in Actions,
             Tracked(p) => o = entry[p].owner, NEW posted \in BOOLEAN, Begin(r, p, o, a, posted)
      PROVE  Resolves(entry'[x], x, req', disposed')
  BY <1>2, BeginResolves
<1>3. ASSUME NEW r \in Requests, Abort(r) PROVE Resolves(entry'[x], x, req', disposed')
  <2>1. CASE entry[x].resolving = r
    <3>1. req[r].pause = x
      BY <1>0, <2>1, RegistryAssumption DEF Resolves
    <3>2. entry'[x].resolving = None
      BY <1>0, <1>3, <2>1, <3>1 DEF Abort, AbortEntry, Entries
    <3>3. QED
      BY <3>2 DEF Resolves
  <2>2. CASE entry[x].resolving # r
    <3>1. entry'[x] = entry[x] /\ disposed' = disposed
      BY <1>0, <1>3, <2>2 DEF Abort, AbortEntry, Entries
    <3>2. \A s \in Requests : s # r => req'[s] = req[s]
      BY <1>0, <1>3 DEF Abort
    <3>3. QED
      BY <1>0, <2>2, <3>1, <3>2, SparedStays DEF Spared
  <2>3. QED
    BY <2>1, <2>2
<1>4. ASSUME NEW p \in Pauses, ResolvingTimeout(p) PROVE Resolves(entry'[x], x, req', disposed')
  BY <1>0, <1>4 DEF ResolvingTimeout, Reopen, Entries, Resolves
<1>5. ASSUME NEW r \in Requests, Deadline(r) PROVE Resolves(entry'[x], x, req', disposed')
  <2>1. entry' = entry /\ disposed' = disposed
    BY <1>5 DEF Deadline
  <2>2. \A s \in Requests : req'[s] \in {req[s], Settled(req[s], "no-answer")}
    BY <1>0, <1>5 DEF Deadline
  <2>3. Spared(x)
    BY <1>0, <2>1, <2>2 DEF Spared, Settled, Reqs
  <2>4. QED
    BY <1>0, <2>1, <2>3, SparedStays
<1>6. CASE Dispose
  <2>1. entry' = entry /\ disposed'
    BY <1>6 DEF Dispose
  <2>2. \A s \in Requests : req'[s] \in {req[s], Settled(req[s], "server-closing")}
    BY <1>0, <1>6 DEF Dispose
  <2>3. QED
    BY <1>0, <2>1, <2>2 DEF Resolves, Settled, Reqs
<1>7. CASE UNCHANGED registryVars
  BY <1>0, <1>7 DEF registryVars
<1>8. QED
  BY <1>1, <1>2, <1>3, <1>4, <1>5, <1>6, <1>7 DEF RegistryNext, Resumes
-----------------------------------------------------------------------------
(* The caps on the requests.                                               *)

\* Every waiting caller is remembered, and the map keeps its two caps.
Caps(q) ==
    /\ \A r \in Requests : q[r].outcome = "pending" => q[r].held
    /\ Cardinality({r \in Requests : q[r].held}) <= MaxRequests
    /\ Cardinality(UnknownPending(q)) <= MaxUnknownPending

\* The caps are numbers, and at least one request fits.
LEMMA CapTypes == MaxRequests \in Nat /\ MaxUnknownPending \in Nat /\ MaxUnknownPending > 0
BY RegistryAssumption

\* A set of requests is finite.
LEMMA RequestSets ==
    ASSUME NEW S \in SUBSET Requests
    PROVE  /\ IsFiniteSet(S) /\ Cardinality(S) \in Nat
           /\ \A T \in SUBSET S : Cardinality(T) <= Cardinality(S)
<1>1. IsFiniteSet(S)
  BY RegistryAssumption, FS_Subset
<1>2. QED
  BY <1>1, FS_Subset, FS_CardinalityType

\* Calls that begin nothing only answer: no more is held, no more waits.
LEMMA KeptCaps ==
    ASSUME NEW q, NEW q2, Caps(q), \A r \in Requests : Kept(q[r], q2[r]),
           \A r \in Requests : q2[r].outcome = "pending" => q2[r].held
    PROVE  Caps(q2)
<1> DEFINE H == {r \in Requests : q[r].held}
           H2 == {r \in Requests : q2[r].held}
           U == UnknownPending(q)
           U2 == UnknownPending(q2)
<1>1. H \in SUBSET Requests /\ U \in SUBSET Requests
  BY DEF UnknownPending
<1>2. H2 \in SUBSET H
  BY DEF Kept
<1>3. U2 \in SUBSET U
  BY DEF Kept, UnknownPending
<1>4. H2 \in SUBSET Requests /\ U2 \in SUBSET Requests
  BY DEF UnknownPending
<1>5. Cardinality(H) <= MaxRequests /\ Cardinality(U) <= MaxUnknownPending
  BY DEF Caps
<1> HIDE DEF H, H2, U, U2
<1>6. /\ Cardinality(H2) <= Cardinality(H) /\ Cardinality(U2) <= Cardinality(U)
      /\ Cardinality(H) \in Nat /\ Cardinality(U) \in Nat
      /\ Cardinality(H2) \in Nat /\ Cardinality(U2) \in Nat
  BY <1>1, <1>2, <1>3, <1>4, RequestSets
<1>7. Cardinality(H2) <= MaxRequests /\ Cardinality(U2) <= MaxUnknownPending
  BY <1>5, <1>6, CapTypes
<1>8. QED
  BY <1>7 DEF Caps, H2, U2

\* The oldest of some requests exists.
LEMMA OldestExists ==
    ASSUME NEW q \in [Requests -> Reqs], NEW S \in SUBSET Requests, S # {}
    PROVE  \E r \in S : \A s \in S : q[r].at <= q[s].at
<1> DEFINE T == {q[r].at : r \in S}
<1>1. T \in SUBSET Nat /\ T # {}
  BY DEF Reqs
<1>2. PICK x \in T : \A y \in T : x <= y
  BY <1>1, LeastNumber
<1>3. QED
  BY <1>2

\* What is shed leaves at most the cap: the oldest request left has all the
\* others that are left among the ones as new as itself.
LEMMA ShedFits ==
    ASSUME NEW q \in [Requests -> Reqs]
    PROVE  Cardinality(UnknownPending(q) \ Crowded(q)) <= MaxUnknownPending
<1> DEFINE L == UnknownPending(q) \ Crowded(q)
<1>1. L \in SUBSET Requests
  BY DEF UnknownPending
<1>2. CASE L = {}
  BY <1>2, FS_EmptySet, CapTypes
<1>3. CASE L # {}
  <2>1. PICK r \in L : \A s \in L : q[r].at <= q[s].at
    BY <1>1, <1>3, OldestExists
  <2> DEFINE N == {s \in UnknownPending(q) : q[s].at >= q[r].at}
  <2>2. Cardinality(N) <= MaxUnknownPending
    <3>1. N \in SUBSET Requests
      BY DEF UnknownPending
    <3>2. Cardinality(N) \in Nat
      BY <3>1, RequestSets
    <3>3. ~(Cardinality(N) > MaxUnknownPending)
      BY <2>1 DEF Crowded
    <3> HIDE DEF N
    <3>4. QED
      BY <3>2, <3>3, CapTypes
  <2>3. L \in SUBSET N
    <3>1. ASSUME NEW s \in L PROVE q[s].at >= q[r].at
      <4>1. q[r].at \in Nat /\ q[s].at \in Nat /\ q[r].at <= q[s].at
        BY <1>1, <2>1 DEF Reqs
      <4>2. QED
        BY <4>1
    <3>2. QED
      BY <3>1
  <2>4. N \in SUBSET Requests
    BY DEF UnknownPending
  <2> HIDE DEF L, N
  <2>5. Cardinality(L) <= Cardinality(N) /\ Cardinality(L) \in Nat /\ Cardinality(N) \in Nat
    BY <1>1, <2>3, <2>4, RequestSets
  <2>6. Cardinality(L) <= MaxUnknownPending
    BY <2>2, <2>5, CapTypes
  <2>7. QED
    BY <2>6 DEF L
<1>4. QED
  BY <1>2, <1>3
\* Past MaxRequests one of the remembered requests is evicted.
LEMMA EvictionHappens ==
    ASSUME NEW q \in [Requests -> Reqs], Full(q)
    PROVE  \E r \in Evicted(q) : q[r].held
<1> DEFINE H == {r \in Requests : q[r].held}
<1>1. H # {}
  <2>1. CASE H = {}
    <3>1. Cardinality(H) = 0 /\ Cardinality(H) > MaxRequests
      BY <2>1, FS_EmptySet DEF Full
    <3> HIDE DEF H
    <3>2. QED
      BY <3>1, CapTypes
  <2>2. QED
    BY <2>1
<1>2. Evictable(q) \in SUBSET H /\ Evictable(q) # {}
  BY <1>1 DEF Evictable, UnknownPending
<1>3. Evictable(q) \in SUBSET Requests
  BY <1>2
<1>4. PICK r \in Evictable(q) : \A s \in Evictable(q) : q[r].at <= q[s].at
  BY <1>2, <1>3, OldestExists
<1>5. QED
  BY <1>2, <1>4 DEF Evicted

\* The caps after the new request was recorded and the best-effort ones shed:
\* one request too many at most.
LEMMA AskedCaps ==
    ASSUME RequestInv, Caps(req), NEW r \in Requests, NEW p \in Pauses, NEW o \in Owners,
           NEW action \in Actions
    PROVE  LET q == Asked(r, p, o, action) IN
           /\ \A s \in Requests : q[s].outcome = "pending" => q[s].held
           /\ Cardinality({s \in Requests : q[s].held}) <= MaxRequests + 1
           /\ Cardinality(UnknownPending(q)) <= MaxUnknownPending
<1> DEFINE new == New(p, o, action)
           b == Begun(r, p, o, action)
           q == Asked(r, p, o, action)
           H == {s \in Requests : req[s].held}
           H2 == {s \in Requests : q[s].held}
<1>1. /\ q \in [Requests -> Reqs] /\ Kept(new, q[r])
      /\ \A s \in Requests : s # r => Kept(req[s], q[s])
  BY AskedKeeps
<1>2. new \in Reqs /\ new.held /\ new.known = Tracked(p) /\ new.outcome = "pending"
  BY DEF New, Reqs, RequestInv, Tracked
<1>3. /\ b \in [Requests -> Reqs] /\ b[r] = new
      /\ \A s \in Requests : s # r => b[s] = req[s]
  <2>1. b = [req EXCEPT ![r] = new]
    BY DEF Begun
  <2> HIDE DEF b, new
  <2>2. QED
    BY <1>2, <2>1 DEF RequestInv
<1>4. \A s \in Requests :
         q[s] = IF s \in (IF Tracked(p) THEN {} ELSE Crowded(b))
                THEN Settled(b[s], "no-answer") ELSE b[s]
  BY DEF Asked
<1>5. \A s \in Requests : q[s].outcome = "pending" => q[s].held
  <2>1. \A s \in Requests : b[s].outcome = "pending" => b[s].held
    BY <1>2, <1>3 DEF Caps
  <2> HIDE DEF b, q
  <2>2. QED
    BY <1>3, <1>4, <2>1 DEF Settled, Reqs
<1>6. Cardinality(H2) <= MaxRequests + 1
  <2>1. H \in SUBSET Requests /\ H2 \in SUBSET Requests /\ H \cup {r} \in SUBSET Requests
    OBVIOUS
  <2>2. H2 \in SUBSET (H \cup {r})
    BY <1>1 DEF Kept
  <2>3. Cardinality(H) <= MaxRequests
    BY DEF Caps
  <2> HIDE DEF H, H2
  <2>4. Cardinality(H \cup {r}) = IF r \in H THEN Cardinality(H) ELSE Cardinality(H) + 1
    BY <2>1, RequestSets, FS_AddElement
  <2>5. /\ Cardinality(H2) <= Cardinality(H \cup {r})
        /\ Cardinality(H) \in Nat /\ Cardinality(H2) \in Nat /\ Cardinality(H \cup {r}) \in Nat
    BY <2>1, <2>2, RequestSets
  <2>6. QED
    BY <2>3, <2>4, <2>5, CapTypes
<1>7. Cardinality(UnknownPending(q)) <= MaxUnknownPending
  <2>1. CASE Tracked(p)
    <3>1. q = b
      BY <1>1, <1>3, <1>4, <2>1
    <3>2. UnknownPending(q) \in SUBSET UnknownPending(req)
      <4> HIDE DEF q, b, new
      <4>1. QED
        BY <1>2, <1>3, <2>1, <3>1 DEF UnknownPending
    <3>3. UnknownPending(req) \in SUBSET Requests /\ UnknownPending(q) \in SUBSET Requests
      BY DEF UnknownPending
    <3>4. Cardinality(UnknownPending(req)) <= MaxUnknownPending
      BY DEF Caps
    <3> HIDE DEF q
    <3>5. /\ Cardinality(UnknownPending(q)) <= Cardinality(UnknownPending(req))
          /\ Cardinality(UnknownPending(q)) \in Nat /\ Cardinality(UnknownPending(req)) \in Nat
      BY <3>2, <3>3, RequestSets
    <3>6. QED
      BY <3>4, <3>5, CapTypes
  <2>2. CASE ~Tracked(p)
    <3>1. Cardinality(UnknownPending(b) \ Crowded(b)) <= MaxUnknownPending
      BY <1>3, ShedFits
    <3>2. UnknownPending(q) = UnknownPending(b) \ Crowded(b)
      <4> HIDE DEF q, b
      <4>1. \A s \in Requests : s \in Crowded(b) => q[s].outcome # "pending"
        BY <1>3, <1>4, <2>2 DEF Settled, Reqs
      <4>2. \A s \in Requests : s \notin Crowded(b) => q[s] = b[s]
        BY <1>4, <2>2
      <4>3. QED
        BY <4>1, <4>2 DEF UnknownPending, Crowded
    <3>3. QED
      BY <3>1, <3>2
  <2>3. QED
    BY <2>1, <2>2
<1>8. QED
  BY <1>5, <1>6, <1>7

\* begin() keeps the caps: the one request too many is evicted.
LEMMA BeginCaps ==
    ASSUME RequestInv, Caps(req), NEW r \in Requests, NEW p \in Pauses, NEW o \in Owners,
           NEW action \in Actions, NEW posted \in BOOLEAN, Begin(r, p, o, action, posted)
    PROVE  Caps(req')
<1> DEFINE q == Asked(r, p, o, action)
           out == Evicted(q)
           H == {s \in Requests : q[s].held}
           H2 == {s \in Requests : req'[s].held}
<1>1. req' = [s \in Requests |->
                 IF s \in out THEN [Settled(q[s], "no-answer") EXCEPT !.held = FALSE]
                 ELSE IF s = r /\ ~posted THEN Settled(q[s], "app-disconnected")
                 ELSE q[s]]
  BY BeginSteps
<1>2. /\ q \in [Requests -> Reqs]
      /\ \A s \in Requests : q[s].outcome = "pending" => q[s].held
      /\ Cardinality(H) <= MaxRequests + 1
      /\ Cardinality(UnknownPending(q)) <= MaxUnknownPending
  BY AskedKeeps, AskedCaps
<1>3. ASSUME NEW s \in Requests
      PROVE  /\ Kept(q[s], req'[s])
             /\ s \in out => ~req'[s].held
             /\ req'[s].outcome = "pending" => req'[s].held
  <2>1. {"no-answer", "app-disconnected"} \subseteq Answers /\ q[s] \in Reqs
    BY <1>2 DEF Answers
  <2> HIDE DEF q, out
  <2>2. CASE s \in out
    <3> DEFINE z == [Settled(q[s], "no-answer") EXCEPT !.held = FALSE]
    <3>1. req'[s] = z
      BY <1>1, <2>2
    <3>2. /\ Kept(q[s], z) /\ ~z.held
          /\ z.outcome = IF q[s].outcome = "pending" THEN "no-answer" ELSE q[s].outcome
      BY <2>1, SettledKeeps
    <3> HIDE DEF z
    <3>3. z.outcome # "pending"
      BY <3>2
    <3>4. QED
      BY <3>1, <3>2, <3>3, Zenon
  <2>3. CASE s \notin out /\ s = r /\ ~posted
    <3> DEFINE z == Settled(q[s], "app-disconnected")
    <3>1. req'[s] = z
      BY <1>1, <2>3
    <3>2. /\ Kept(q[s], z)
          /\ z.outcome = IF q[s].outcome = "pending" THEN "app-disconnected" ELSE q[s].outcome
      BY <2>1, SettledKeeps
    <3> HIDE DEF z
    <3>3. z.outcome # "pending"
      BY <3>2
    <3>4. QED
      BY <2>3, <3>1, <3>2, <3>3, Zenon
  <2>4. CASE s \notin out /\ ~(s = r /\ ~posted)
    BY <1>1, <1>2, <2>1, <2>4, SameKept
  <2>5. QED
    BY <2>2, <2>3, <2>4
<1>4. H2 \in SUBSET (H \ out) /\ H \in SUBSET Requests /\ H2 \in SUBSET Requests
  BY <1>3 DEF Kept
<1>5. Cardinality(H2) <= MaxRequests
  <2>1. CASE Full(q)
    <3>1. PICK s \in out : s \in H
      <4>1. \A s \in out : s \in Requests
        BY DEF Evicted, Evictable, UnknownPending
      <4>2. QED
        BY <1>2, <2>1, <4>1, EvictionHappens
    <3> HIDE DEF H, H2, out, q
    <3>2. H2 \in SUBSET (H \ {s}) /\ (H \ {s}) \in SUBSET Requests
      BY <1>4, <3>1
    <3>3. Cardinality(H \ {s}) = Cardinality(H) - 1
      BY <1>4, <3>1, RequestSets, FS_RemoveElement
    <3>4. /\ Cardinality(H2) <= Cardinality(H \ {s})
          /\ Cardinality(H) \in Nat /\ Cardinality(H2) \in Nat
      BY <1>4, <3>2, RequestSets
    <3>5. QED
      BY <1>2, <3>3, <3>4, CapTypes
  <2>2. CASE ~Full(q)
    <3>1. ~(Cardinality(H) > MaxRequests)
      BY <2>2 DEF Full
    <3>2. H2 \in SUBSET H
      BY <1>4
    <3> HIDE DEF H, H2, out, q
    <3>3. /\ Cardinality(H2) <= Cardinality(H)
          /\ Cardinality(H) \in Nat /\ Cardinality(H2) \in Nat
      BY <1>4, <3>2, RequestSets
    <3>4. QED
      BY <3>1, <3>3, CapTypes
  <2>3. QED
    BY <2>1, <2>2
<1>6. Cardinality(UnknownPending(req')) <= MaxUnknownPending
  <2> HIDE DEF q, out
  <2>1. UnknownPending(req') \in SUBSET UnknownPending(q)
    BY <1>3 DEF UnknownPending, Kept, Answers
  <2>2. UnknownPending(q) \in SUBSET Requests /\ UnknownPending(req') \in SUBSET Requests
    BY DEF UnknownPending
  <2>3. /\ Cardinality(UnknownPending(req')) <= Cardinality(UnknownPending(q))
        /\ Cardinality(UnknownPending(req')) \in Nat /\ Cardinality(UnknownPending(q)) \in Nat
    BY <2>1, <2>2, RequestSets
  <2>4. QED
    BY <1>2, <2>3, CapTypes
<1>7. QED
  BY <1>3, <1>5, <1>6 DEF Caps
\* Every call keeps the caps.
LEMMA CapsStep == RequestInv /\ Caps(req) /\ [RegistryNext]_registryVars => Caps(req')
<1> SUFFICES ASSUME RequestInv, Caps(req), [RegistryNext]_registryVars PROVE Caps(req')
  OBVIOUS
<1>1. CASE Begins
  BY <1>1, BeginCaps DEF Begins, BegunBy
<1>2. CASE ~Begins
  <2>1. \A r \in Requests : Kept(req[r], req'[r]) /\ req'[r].held = req[r].held
    BY <1>2, RequestsKept DEF Begins
  <2>2. ASSUME NEW r \in Requests, req'[r].outcome = "pending" PROVE req'[r].held
    BY <2>1, <2>2 DEF Kept, Caps
  <2>3. QED
    BY <2>1, <2>2, KeptCaps
<1>3. QED
  BY <1>1, <1>2

-----------------------------------------------------------------------------
(* The theorems.                                                           *)

\* A new registry is empty.
LEMMA InitHolds == RegistryInit => IndInv /\ Caps(req)
<1> SUFFICES ASSUME RegistryInit PROVE IndInv /\ Caps(req)
  OBVIOUS
<1>1. EntriesType
  BY DEF RegistryInit, EntriesType, Entries, NoEntry
<1>2. CountInv
  <2>1. \A o \in Owners : EntriesOf(o) = {}
    BY RegistryAssumption DEF RegistryInit, EntriesOf, NoEntry
  <2>2. \A o \in Owners : ownerCount[o] = 0
    BY DEF RegistryInit
  <2>3. ownerCount \in [Owners -> Nat]
    BY DEF RegistryInit
  <2>4. 0 <= MaxPerOwner
    BY CapType
  <2>5. QED
    BY <1>1, <2>1, <2>2, <2>3, <2>4, FS_EmptySet DEF CountInv, OwnerCountExact
<1>3. NoReq \in Reqs /\ NoReq.outcome = "unused" /\ ~NoReq.held /\ NoReq.at = 0
  BY RegistryAssumption DEF NoReq, Reqs
<1>4. RequestInv
  <2>1. /\ req \in [Requests -> Reqs] /\ closed \subseteq Pauses /\ disposed \in BOOLEAN
        /\ \A r \in Requests : req[r].outcome = "unused" => ~req[r].held
    BY <1>3 DEF RegistryInit
  <2>2. arrivals = 0 /\ \A r \in Requests : req[r].at = 0
    BY <1>3 DEF RegistryInit
  <2>3. QED
    BY <2>1, <2>2 DEF RequestInv
<1>5. ClosedApart /\ ResolvingIsUnsettled
  BY DEF RegistryInit, ClosedApart, ResolvingIsUnsettled, NoEntry
<1>6. Caps(req)
  <2>1. \A r \in Requests : req[r].outcome # "pending" /\ ~req[r].held
    BY <1>3 DEF RegistryInit
  <2>2. {r \in Requests : req[r].held} = {} /\ UnknownPending(req) = {}
    BY <2>1 DEF UnknownPending
  <2>3. Cardinality({}) = 0 /\ 0 <= MaxRequests /\ 0 <= MaxUnknownPending
    BY FS_EmptySet, CapTypes
  <2>4. QED
    BY <2>1, <2>2, <2>3 DEF Caps
<1>7. QED
  BY <1>2, <1>4, <1>5, <1>6 DEF IndInv

\* Every call keeps the whole invariant.
LEMMA IndStep ==
    IndInv /\ Caps(req) /\ [RegistryNext]_registryVars => (IndInv /\ Caps(req))'
<1>1. IndInv => EntriesType
  BY DEF IndInv, CountInv
<1>2. QED
  BY <1>1, CountStep, RequestStep, ClosedStep, ResolvingStep, CapsStep DEF IndInv

\* The invariant of the registry, whatever the hub calls and in which order.
THEOREM IndInvHolds == RegistrySpec => [](IndInv /\ Caps(req))
BY InitHolds, IndStep, PTL DEF RegistrySpec

\* Every reachable state of the registry is well typed.
THEOREM TypeCorrect == RegistrySpec => []TypeOK
<1>1. IndInv => TypeOK
  BY DEF IndInv, CountInv, RequestInv, EntriesType, TypeOK
<1>2. QED
  BY <1>1, IndInvHolds, PTL

\* ownerCounts never drifts from the entries, and no connection has more than
\* its cap (open, removeEntry, closeOwner).
THEOREM CountsExact == RegistrySpec => []OwnerCountExact
<1>1. IndInv => OwnerCountExact
  BY DEF IndInv, CountInv
<1>2. QED
  BY <1>1, IndInvHolds, PTL

\* No pause is both listed and known to be closed (markClosed, open).
THEOREM ListedIsNotClosed == RegistrySpec => []ClosedApart
<1>1. IndInv => ClosedApart
  BY DEF IndInv
<1>2. QED
  BY <1>1, IndInvHolds, PTL

\* The request a pause resolves on is for that pause, through its connection,
\* and still open (begin, refused, abort, removeEntry).
THEOREM ResolvingStaysOpen == RegistrySpec => []ResolvingIsUnsettled
<1>1. IndInv => ResolvingIsUnsettled
  BY DEF IndInv
<1>2. QED
  BY <1>1, IndInvHolds, PTL

\* No waiting caller is forgotten, and the request map keeps its two caps
\* (rememberRequest).
THEOREM CapsKept == RegistrySpec => []RequestsBounded
<1>1. Caps(req) => RequestsBounded
  BY DEF Caps, RequestsBounded, Remembered
<1>2. QED
  BY <1>1, IndInvHolds, PTL

\* A request is answered once (settle).
THEOREM FirstAnswerStands == RegistrySpec => AnswersAreFinal
<1> DEFINE Final == \A r \in Requests :
                       req[r].outcome \in Answers => req'[r].outcome = req[r].outcome
<1>1. IndInv /\ [RegistryNext]_registryVars => [Final]_registryVars
  <2> SUFFICES ASSUME RequestInv, [RegistryNext]_registryVars, NEW r \in Requests,
                      req[r].outcome \in Answers
               PROVE  req'[r].outcome = req[r].outcome
    BY DEF IndInv
  <2>1. req[r].outcome # "unused" /\ req[r].outcome # "pending"
    BY DEF Answers
  <2>2. ~BegunBy(r)
    BY <2>1, BeginSteps DEF BegunBy
  <2>3. QED
    BY <2>1, <2>2, RequestsKept DEF Kept
<1>2. QED
  BY <1>1, IndInvHolds, PTL DEF RegistrySpec, AnswersAreFinal
\* A waiting request for a listed pause is evicted by begin() only when every
\* request in the map is one too.
LEMMA KnownEvictedLast ==
    ASSUME RequestInv, NEW b \in Requests, BegunBy(b),
           NEW r \in Requests, r \in Waiting, req[r].known, ~req'[r].held,
           NEW s \in Requests, req'[s].held
    PROVE  /\ req'[s].known
           /\ req'[s].outcome = "pending" \/ s \notin Remembered
<1>1. PICK p \in Pauses, o \in Owners, a \in Actions, posted \in BOOLEAN : Begin(b, p, o, a, posted)
  BY DEF BegunBy
<1> DEFINE q == Asked(b, p, o, a)
           out == Evicted(q)
<1>2. /\ req[b].outcome = "unused"
      /\ req' = [x \in Requests |->
                    IF x \in out THEN [Settled(q[x], "no-answer") EXCEPT !.held = FALSE]
                    ELSE IF x = b /\ ~posted THEN Settled(q[x], "app-disconnected")
                    ELSE q[x]]
  BY <1>1, BeginSteps
<1>3. q \in [Requests -> Reqs] /\ \A x \in Requests : x # b => Kept(req[x], q[x])
  BY AskedKeeps
<1>4. b \notin Remembered /\ r # b
  BY <1>2 DEF RequestInv, Remembered, Waiting
<1>5. q[r].held /\ q[r].known /\ q[r].outcome = "pending"
  <2>1. q[r] = req[r]
    BY <1>4 DEF Asked, Begun, RequestInv, Crowded, UnknownPending, Waiting
  <2>2. QED
    BY <2>1 DEF Waiting, Remembered
<1>6. r \in out
  <2> HIDE DEF q, out
  <2>1. ASSUME r \notin out PROVE req'[r].held
    BY <1>2, <1>4, <1>5, <2>1
  <2>2. QED
    BY <2>1
<1>7. \A x \in Requests : q[x].held => q[x].outcome = "pending" /\ q[x].known
  <2>1. r \in Evictable(q)
    BY <1>6 DEF Evicted
  <2> HIDE DEF q, out
  <2>2. \A x \in Requests : q[x].held => q[x].outcome = "pending"
    BY <1>5, <2>1 DEF Evictable
  <2>3. UnknownPending(q) = {}
    BY <1>5, <2>1, <2>2 DEF Evictable, UnknownPending
  <2>4. QED
    BY <2>2, <2>3 DEF UnknownPending
<1>8. s \notin out
  BY <1>2, <1>3, SettledKeeps DEF Answers
<1>9. CASE s = b /\ ~posted
  <2>1. req'[s] = Settled(q[s], "app-disconnected")
    BY <1>2, <1>8, <1>9
  <2>2. q[s].held /\ req'[s].known = q[s].known
    <3> HIDE DEF q, out
    <3>1. QED
      BY <1>3, <2>1 DEF Settled, Reqs
  <2>3. QED
    BY <1>4, <1>7, <1>9, <2>2
<1>10. CASE ~(s = b /\ ~posted)
  <2>1. req'[s] = q[s]
    BY <1>2, <1>8, <1>10
  <2>2. QED
    BY <1>7, <2>1
<1>11. QED
  BY <1>9, <1>10

\* Resumes for pauses nobody listed never crowd out those for held gates
\* (rememberRequest's choice of whom to forget).
THEOREM RealRequestsGoLast == RegistrySpec => KnownForgottenLast
<1> DEFINE Late == \A r \in Requests :
                      (r \in Waiting /\ req[r].known /\ ~req'[r].held) =>
                          \A s \in Requests :
                              req'[s].held => /\ req'[s].known
                                              /\ req'[s].outcome = "pending" \/ s \notin Remembered
<1>1. IndInv /\ [RegistryNext]_registryVars => [Late]_registryVars
  <2> SUFFICES ASSUME RequestInv, [RegistryNext]_registryVars,
                      NEW r \in Requests, r \in Waiting, req[r].known, ~req'[r].held,
                      NEW s \in Requests, req'[s].held
               PROVE  /\ req'[s].known
                      /\ req'[s].outcome = "pending" \/ s \notin Remembered
    BY DEF IndInv
  <2>1. Begins
    <3>1. req[r].held /\ req[r].outcome = "pending"
      BY DEF Waiting, Remembered
    <3>2. QED
      BY <3>1, RequestsKept DEF Begins
  <2>2. QED
    BY <2>1, KnownEvictedLast DEF Begins
<1>2. QED
  BY <1>1, IndInvHolds, PTL DEF RegistrySpec, KnownForgottenLast

-----------------------------------------------------------------------------
(* Part two: the race is within RegistrySpec.  What a stored event or a    *)
(* queued resume carries becomes an argument of a call, so the argument    *)
(* rests on the types of the application's log and of the queues.          *)

\* The application's gates: one that validates does so for a request.
GatesInv ==
    /\ gate \in [Pauses -> Gates]
    /\ \A p \in Pauses : gate[p].st = "validating" => gate[p].by \in Requests

\* The application's log: all events but run.finished are about a pause.
Told(e) == e \in Events /\ (e.type # "finished" => e.pause \in Pauses)
LogInv ==
    /\ up \in Seq(Events)
    /\ \A i \in 1..Len(up) : up[i].type # "finished" => up[i].pause \in Pauses

\* The connections: nothing is read that was not emitted.
LinksInv ==
    /\ echoes \in BOOLEAN
    /\ appConn \in Owners \cup {None}
    /\ hubConn \in [Owners -> {"new", "live", "dead"}]
    /\ stored \in 0..Len(up)
    /\ sent \in [Owners -> 0..Len(up)]
    /\ credit \in [Pauses -> Requests \cup {None}]
QueuesInv == down \in [Owners -> Seq(Requests)]

AppInv == GatesInv /\ LogInv /\ LinksInv /\ QueuesInv
RegistryInv == IndInv /\ Caps(req)
RaceInv == RegistryInv /\ AppInv

-----------------------------------------------------------------------------
(* The hub's handlers.                                                     *)

\* Each hub step makes one call of the registry, the application's steps none.
LEMMA StepsAreCalls == RaceInv /\ [Next]_vars => [RegistryNext]_registryVars
<1> SUFFICES ASSUME RaceInv, [Next]_vars PROVE [RegistryNext]_registryVars
  OBVIOUS
<1>1. ASSUME NEW o \in Owners, HubStores(o) PROVE RegistryNext
  <2> DEFINE e == up[stored + 1]
  <2>1. stored < Len(up) /\ stored \in Nat /\ Len(up) \in Nat
    <3>1. /\ stored \in 0..Len(up) /\ Len(up) \in Nat
          /\ sent[o] \in 0..Len(up)
      BY DEF RaceInv, AppInv, LogInv, LinksInv
    <3>2. stored < Reaches(o) /\ Reaches(o) \in {Len(up), sent[o]}
      BY <1>1 DEF HubStores, Reaches
    <3>3. QED
      BY <3>1, <3>2
  <2>2. stored + 1 \in 1..Len(up)
    BY <2>1
  <2>3. e \in Events /\ (e.type # "finished" => e.pause \in Pauses)
    BY <2>2 DEF RaceInv, AppInv, LogInv
  <2>4. \/ e.type = "paused" /\ Open(o, e.pause)
        \/ e.type = "resumed" /\ Resumed(e.pause, e.req, echoes, e.action)
        \/ e.type = "refused" /\ Refused(e.pause, e.req)
        \/ \E run \in Runs : CloseRun(run)
    BY <1>1 DEF HubStores
  <2> HIDE DEF e
  <2>5. /\ e.req \in Requests \cup {None} /\ e.action \in Actions
        /\ e.type \in {"paused", "resumed", "refused"} => e.pause \in Pauses
    BY <2>3 DEF Events
  <2>6. Frames
    <3>1. echoes \in BOOLEAN
      BY DEF RaceInv, AppInv, LinksInv
    <3>2. QED
      BY <2>4, <2>5, <3>1, RaceAssumption DEF Frames
  <2>7. QED
    BY <2>6 DEF RegistryNext
<1>2. ASSUME NEW o \in Owners, HubLoses(o) PROVE RegistryNext
  BY <1>2 DEF HubLoses, RegistryNext, Frames
<1>3. ASSUME NEW o \in Owners, HubSendFails(o) PROVE RegistryNext
  <2>1. down[o] \in Seq(Requests) /\ down[o] # << >>
    BY <1>3 DEF HubSendFails, RaceInv, AppInv, QueuesInv
  <2>2. Last(down[o]) \in Requests
    BY <2>1 DEF Last
  <2>3. QED
    BY <1>3, <2>2 DEF HubSendFails, RegistryNext, Resumes
<1>4. ASSUME NEW r \in Requests, NEW p \in Pauses, NEW o \in Owners, NEW a \in Actions,
             NEW delivered \in BOOLEAN, HubForwards(r, p, o, a, delivered)
      PROVE  RegistryNext
  <2>1. (Tracked(p) => o = entry[p].owner) /\ Begin(r, p, o, a, delivered)
    BY <1>4 DEF HubForwards
  <2>2. Resumes
    BY <2>1 DEF Resumes
  <2>3. QED
    BY <2>2 DEF RegistryNext
<1>5. ASSUME HubTimers PROVE RegistryNext
  BY <1>5 DEF HubTimers, RegistryNext
<1>6. ASSUME NEW o \in Owners, AppAttaches(o) PROVE UNCHANGED registryVars
  BY <1>6 DEF AppAttaches
<1>7. CASE AppDetaches \/ AppReads \/ AppRunFinishes
  BY <1>7 DEF AppDetaches, AppReads, AppRunFinishes
<1>8. ASSUME NEW p \in Pauses, AppPauses(p) \/ AppVerdict(p) \/ AppLetsGo(p)
      PROVE  UNCHANGED registryVars
  BY <1>8 DEF AppPauses, AppVerdict, AppLetsGo
<1>9. CASE UNCHANGED vars
  BY <1>9 DEF vars, registryVars
<1>10. QED
  BY <1>1, <1>2, <1>3, <1>4, <1>5, <1>6, <1>7, <1>8, <1>9 DEF Next
-----------------------------------------------------------------------------
(* The application's log.                                                  *)

\* Everything known of a log that is longer stays known of what was there.
LEMMA LongerLog ==
    ASSUME LinksInv, Len(up) \in Nat, Len(up') \in Nat, Len(up) <= Len(up')
    PROVE  stored \in 0..Len(up') /\ sent \in [Owners -> 0..Len(up')]
<1>1. \A n \in 0..Len(up) : n \in 0..Len(up')
  OBVIOUS
<1>2. QED
  BY <1>1 DEF LinksInv

\* emit() appends one event.
LEMMA LogAppends ==
    ASSUME LogInv, NEW e, Told(e), up' = Append(up, e)
    PROVE  LogInv' /\ Len(up') \in Nat /\ Len(up) \in Nat /\ Len(up) <= Len(up')
<1>1. e \in Events /\ up \in Seq(Events)
  BY DEF Told, LogInv
<1>2. up' \in Seq(Events) /\ Len(up') = Len(up) + 1 /\ Len(up) \in Nat
  BY <1>1
<1>3. ASSUME NEW i \in 1..Len(up') PROVE up'[i].type # "finished" => up'[i].pause \in Pauses
  <2>1. CASE i = Len(up) + 1
    BY <1>1, <2>1 DEF Told
  <2>2. CASE i # Len(up) + 1
    <3>1. i \in 1..Len(up)
      BY <1>2, <2>2
    <3>2. up'[i] = up[i]
      BY <1>1, <3>1
    <3>3. QED
      BY <3>1, <3>2 DEF LogInv
  <2>3. QED
    BY <2>1, <2>2
<1>4. QED
  BY <1>2, <1>3 DEF LogInv

\* The events of the application are told of a pause.
LEMMA EventsTold ==
    ASSUME NEW p \in Pauses, NEW r \in Requests \cup {None}, NEW a \in Actions,
           NEW type \in {"paused", "resumed", "refused"}
    PROVE  /\ Told(Event(type, p, r, a))
           /\ Told(Event("finished", None, None, "continue"))
BY RaceAssumption DEF Told, Event, Events

\* A finite set of pauses in some order (SetToSeq): each once, and all of them.
LEMMA PausesOnce ==
    ASSUME NEW S \in SUBSET Pauses
    PROVE  /\ SetToSeq(S) \in [1..Cardinality(S) -> S] /\ Cardinality(S) \in Nat
           /\ \A i, j \in 1..Cardinality(S) : SetToSeq(S)[i] = SetToSeq(S)[j] => i = j
           /\ \A p \in S : \E i \in 1..Cardinality(S) : SetToSeq(S)[i] = p
<1> DEFINE n == Cardinality(S)
           f == SetToSeq(S)
<1>1. IsFiniteSet(S)
  BY RegistryAssumption, FS_Subset
<1>2. n \in Nat /\ ExistsBijection(1..n, S)
  BY <1>1, FS_CardinalityType
<1>3. \E g \in [1..n -> S] : IsInjective(g)
  BY <1>2 DEF ExistsBijection, Bijection, Injection
<1>4. f \in [1..n -> S] /\ IsInjective(f)
  BY <1>2, <1>3 DEF SetToSeq
<1> HIDE DEF f, n
<1>5. \A i, j \in 1..n : f[i] = f[j] => i = j
  BY <1>4 DEF IsInjective
<1>6. \A p \in S : \E i \in 1..n : f[i] = p
  <2>1. f \in Injection(1..n, S)
    BY <1>4 DEF Injection
  <2>2. Cardinality(1..n) = n
    BY <1>2, FS_Interval
  <2>3. f \in Surjection(1..n, S)
    BY <1>1, <2>1, <2>2, FS_Injection DEF n
  <2>4. QED
    BY <2>3 DEF Surjection
<1>7. QED
  BY <1>2, <1>4, <1>5, <1>6 DEF f, n

\* handleDetached releases every gate, and the log says so.
LEMMA LogDetaches ==
    ASSUME LogInv, AppDetaches
    PROVE  LogInv' /\ Len(up') \in Nat /\ Len(up) \in Nat /\ Len(up) <= Len(up')
<1> DEFINE S == {p \in Pauses : IsOpen(p)}
           open == SetToSeq(S)
           n == Cardinality(S)
           es == [i \in DOMAIN open |-> Event("resumed", open[i], None, "continue")]
<1>1. S \in SUBSET Pauses
  OBVIOUS
<1>2. up' = up \o es
  BY DEF AppDetaches
<1> HIDE DEF S
<1>3. open \in [1..n -> S] /\ n \in Nat
  BY <1>1, PausesOnce
<1> HIDE DEF open, n
<1>4. \A i \in 1..n : Told(es[i])
  BY <1>1, <1>3, EventsTold, RaceAssumption
<1>5. es \in Seq(Events) /\ Len(es) = n /\ \A i \in 1..n : Told(es[i])
  <2>1. es = [i \in 1..n |-> Event("resumed", open[i], None, "continue")]
    BY <1>3
  <2>2. es \in [1..n -> Events]
    BY <1>4, <2>1 DEF Told
  <2> HIDE DEF es
  <2>3. QED
    BY <1>3, <1>4, <2>2
<1> HIDE DEF es
<1>6. up \in Seq(Events) /\ Len(up) \in Nat
  BY DEF LogInv
<1>7. up' \in Seq(Events) /\ Len(up') = Len(up) + n
  <2>1. es \in Seq(Events) /\ Len(es) = n
    BY <1>5
  <2>2. up \o es \in Seq(Events) /\ Len(up \o es) = Len(up) + Len(es)
    BY <1>6, <2>1
  <2>3. QED
    BY <1>2, <2>1, <2>2
<1>8. ASSUME NEW i \in 1..Len(up') PROVE up'[i].type # "finished" => up'[i].pause \in Pauses
  <2>1. CASE i \in 1..Len(up)
    <3>1. up'[i] = up[i]
      BY <1>2, <1>5, <1>6, <2>1
    <3>2. QED
      BY <2>1, <3>1 DEF LogInv
  <2>2. CASE i \notin 1..Len(up)
    <3>1. i - Len(up) \in 1..n /\ up'[i] = es[i - Len(up)]
      BY <1>2, <1>3, <1>5, <1>6, <1>7, <2>2
    <3>2. QED
      BY <1>5, <3>1 DEF Told
  <2>3. QED
    BY <2>1, <2>2
<1>9. QED
  BY <1>3, <1>6, <1>7, <1>8 DEF LogInv

-----------------------------------------------------------------------------
(* The application's steps.                                                *)

\* Letting a gate go, for a request or for none, is one more event.
LEMMA ReleasesKeeps ==
    ASSUME GatesInv, LogInv, NEW p \in Pauses, NEW r \in Requests \cup {None},
           NEW a \in Actions, Releases(p, r, a)
    PROVE  GatesInv' /\ LogInv' /\ Len(up') \in Nat /\ Len(up) \in Nat /\ Len(up) <= Len(up')
<1>1. gate' = [gate EXCEPT ![p] = [st |-> "released", by |-> r, action |-> a]]
  BY DEF Releases
<1>2. GatesInv'
  BY <1>1 DEF GatesInv, Gates
<1>3. Echo(r) \in Requests \cup {None}
  BY DEF Echo
<1>4. Told(Event("resumed", p, Echo(r), a))
  BY <1>3, EventsTold
<1>5. QED
  BY <1>2, <1>4, LogAppends DEF Releases

\* So is refusing an edit, and the gate is held again.
LEMMA RefusesKeeps ==
    ASSUME GatesInv, LogInv, NEW p \in Pauses, NEW r \in Requests, Refuses(p, r)
    PROVE  GatesInv' /\ LogInv' /\ Len(up') \in Nat /\ Len(up) \in Nat /\ Len(up) <= Len(up')
<1>1. gate' = [gate EXCEPT ![p].st = "held", ![p].by = None]
  BY DEF Refuses
<1>2. GatesInv'
  BY <1>1 DEF GatesInv, Gates
<1>3. Echo(r) \in Requests \cup {None}
  BY DEF Echo
<1>4. Told(Event("refused", p, Echo(r), "continue"))
  BY <1>3, EventsTold, RaceAssumption
<1>5. QED
  BY <1>2, <1>4, LogAppends DEF Refuses

\* The steps of the application keep the gates and the log well formed, and
\* the log only grows.
LEMMA AppKeeps ==
    ASSUME RegistryInv, GatesInv, LogInv, LinksInv, QueuesInv,
           \/ \E p \in Pauses : AppPauses(p) \/ AppVerdict(p) \/ AppLetsGo(p)
           \/ AppDetaches \/ AppReads \/ AppRunFinishes
    PROVE  GatesInv' /\ LogInv' /\ Len(up') \in Nat /\ Len(up) \in Nat /\ Len(up) <= Len(up')
<1> DEFINE Grown == LogInv' /\ Len(up') \in Nat /\ Len(up) \in Nat /\ Len(up) <= Len(up')
<1>0. /\ req \in [Requests -> Reqs] /\ Len(up) \in Nat
      /\ \A r \in Requests : req[r].pause \in Pauses /\ req[r].action \in Actions
  BY DEF RegistryInv, IndInv, RequestInv, Reqs, LogInv
<1>1. ASSUME NEW p \in Pauses, AppPauses(p) PROVE GatesInv' /\ Grown
  <2>1. gate' = [gate EXCEPT ![p].st = "held"] /\ up' = Append(up, Event("paused", p, None, "continue"))
    BY <1>1 DEF AppPauses
  <2>2. GatesInv'
    BY <2>1 DEF GatesInv, Gates
  <2>3. Told(Event("paused", p, None, "continue"))
    BY EventsTold, RaceAssumption
  <2>4. QED
    BY <2>1, <2>2, <2>3, LogAppends
<1>2. ASSUME NEW p \in Pauses, AppVerdict(p) PROVE GatesInv' /\ Grown
  <2> DEFINE r == gate[p].by
  <2>1. gate[p].st = "validating" /\ (Releases(p, r, req[r].action) \/ Refuses(p, r))
    BY <1>2 DEF AppVerdict
  <2>2. r \in Requests
    BY <2>1 DEF GatesInv
  <2>3. QED
    BY <1>0, <2>1, <2>2, ReleasesKeeps, RefusesKeeps
<1>3. ASSUME NEW p \in Pauses, AppLetsGo(p) PROVE GatesInv' /\ Grown
  BY <1>3, ReleasesKeeps, RaceAssumption DEF AppLetsGo
<1>4. CASE AppDetaches
  <2> DEFINE free == [st |-> "released", by |-> None, action |-> "continue"]
  <2>1. gate' = [p \in Pauses |-> IF IsOpen(p) THEN free ELSE gate[p]]
    BY <1>4 DEF AppDetaches
  <2>2. free \in Gates
    BY RaceAssumption DEF Gates
  <2>3. GatesInv'
    BY <2>1, <2>2 DEF GatesInv
  <2>4. QED
    BY <1>4, <2>3, LogDetaches
<1>5. CASE AppReads
  <2> DEFINE r == Head(down[appConn])
             p == req[r].pause
  <2>1. down[appConn] \in Seq(Requests) /\ down[appConn] # << >>
    BY <1>5 DEF AppReads, LinksInv, QueuesInv
  <2>2. r \in Requests /\ p \in Pauses /\ req[r].action \in Actions
    BY <1>0, <2>1
  <2>3. \/ UNCHANGED <<gate, up>>
        \/ Releases(p, r, req[r].action)
        \/ Refuses(p, r)
        \/ gate' = [gate EXCEPT ![p].st = "validating", ![p].by = r] /\ UNCHANGED up
    BY <1>5 DEF AppReads
  <2> HIDE DEF r
  <2>4. CASE UNCHANGED <<gate, up>>
    BY <1>0, <2>4 DEF GatesInv, LogInv
  <2>5. CASE gate' = [gate EXCEPT ![p].st = "validating", ![p].by = r] /\ UNCHANGED up
    <3>1. GatesInv'
      BY <2>2, <2>5 DEF GatesInv, Gates
    <3>2. QED
      BY <1>0, <2>5, <3>1 DEF LogInv
  <2>6. QED
    BY <2>2, <2>3, <2>4, <2>5, ReleasesKeeps, RefusesKeeps
<1>6. CASE AppRunFinishes
  <2>1. up' = Append(up, Event("finished", None, None, "continue")) /\ UNCHANGED gate
    BY <1>6 DEF AppRunFinishes
  <2>2. Told(Event("finished", None, None, "continue"))
    BY EventsTold, RaceAssumption DEF Told, Event, Events
  <2>3. GatesInv'
    BY <2>1 DEF GatesInv
  <2>4. QED
    BY <2>1, <2>2, <2>3, LogAppends
<1>7. QED
  BY <1>1, <1>2, <1>3, <1>4, <1>5, <1>6

-----------------------------------------------------------------------------
(* Every step.                                                             *)

\* The gates and the log are the application's; the hub leaves them alone.
LEMMA GatesAndLogStep ==
    RaceInv /\ [Next]_vars
        => GatesInv' /\ LogInv' /\ Len(up') \in Nat /\ Len(up) \in Nat /\ Len(up) <= Len(up')
<1> SUFFICES ASSUME RaceInv, [Next]_vars
             PROVE  GatesInv' /\ LogInv' /\ Len(up') \in Nat /\ Len(up) \in Nat /\ Len(up) <= Len(up')
  OBVIOUS
<1>1. RegistryInv /\ GatesInv /\ LogInv /\ LinksInv /\ QueuesInv
  BY DEF RaceInv, AppInv
<1>2. \/ \E p \in Pauses : AppPauses(p) \/ AppVerdict(p) \/ AppLetsGo(p)
      \/ AppDetaches \/ AppReads \/ AppRunFinishes
      \/ UNCHANGED <<gate, up>>
  BY DEF Next, vars, appVars, AppAttaches, HubStores, HubLoses, HubSendFails, HubForwards, HubTimers
<1>3. CASE UNCHANGED <<gate, up>>
  BY <1>1, <1>3 DEF GatesInv, LogInv
<1>4. QED
  BY <1>1, <1>2, <1>3, AppKeeps

\* removeIngest, requestResume and the socket callback: the queues hold
\* requests and nothing else.
LEMMA QueuesStep == RaceInv /\ [Next]_vars => QueuesInv'
<1> SUFFICES ASSUME RaceInv, [Next]_vars PROVE QueuesInv'
  OBVIOUS
<1>1. down \in [Owners -> Seq(Requests)]
  BY DEF RaceInv, AppInv, QueuesInv
<1>2. appConn \in Owners \cup {None}
  BY DEF RaceInv, AppInv, LinksInv
<1>3. CASE UNCHANGED down
  BY <1>1, <1>3 DEF QueuesInv
<1>4. CASE AppDetaches
  <2>1. appConn \in Owners /\ down' = [down EXCEPT ![appConn] = << >>]
    BY <1>2, <1>4 DEF AppDetaches
  <2>2. << >> \in Seq(Requests)
    OBVIOUS
  <2>3. QED
    BY <1>1, <2>1, <2>2 DEF QueuesInv
<1>5. CASE AppReads
  <2>1. /\ appConn \in Owners /\ down[appConn] # << >>
        /\ down' = [down EXCEPT ![appConn] = Tail(@)]
    BY <1>2, <1>5 DEF AppReads
  <2>2. Tail(down[appConn]) \in Seq(Requests)
    BY <1>1, <2>1
  <2>3. QED
    BY <1>1, <2>1, <2>2 DEF QueuesInv
<1>6. ASSUME NEW o \in Owners, HubLoses(o) PROVE QueuesInv'
  BY <1>1, <1>6 DEF HubLoses, QueuesInv
<1>7. ASSUME NEW r \in Requests, NEW p \in Pauses, NEW o \in Owners, NEW a \in Actions,
             NEW delivered \in BOOLEAN, HubForwards(r, p, o, a, delivered)
      PROVE  QueuesInv'
  <2>1. down' = IF delivered /\ o = appConn THEN [down EXCEPT ![o] = Append(@, r)] ELSE down
    BY <1>7 DEF HubForwards
  <2>2. Append(down[o], r) \in Seq(Requests)
    BY <1>1
  <2>3. QED
    BY <1>1, <2>1, <2>2 DEF QueuesInv
<1>8. ASSUME NEW o \in Owners, HubSendFails(o) PROVE QueuesInv'
  <2>1. down[o] # << >> /\ down' = [down EXCEPT ![o] = Front(@)]
    BY <1>8 DEF HubSendFails
  <2>2. Front(down[o]) \in Seq(Requests)
    <3>1. down[o] \in Seq(Requests)
      BY <1>1
    <3>2. QED
      BY <2>1, <3>1 DEF Front
  <2>3. QED
    BY <1>1, <2>1, <2>2 DEF QueuesInv
<1>9. QED
  BY <1>3, <1>4, <1>5, <1>6, <1>7, <1>8
     DEF Next, vars, appVars, AppAttaches, AppPauses, AppVerdict, AppLetsGo, AppRunFinishes,
         HubStores, HubTimers

\* handleIngestFrame: what a stored exec.resumed is credited to is a request.
LEMMA CreditStep ==
    ASSUME RaceInv, NEW o \in Owners, HubStores(o)
    PROVE  credit' \in [Pauses -> Requests \cup {None}]
<1> DEFINE e == up[stored + 1]
           by == Correlate(e.pause, e.req, echoes, e.action)
<1>1. RequestInv /\ credit \in [Pauses -> Requests \cup {None}] /\ up \in Seq(Events)
  BY DEF RaceInv, RegistryInv, IndInv, AppInv, LinksInv, LogInv
<1>2. stored + 1 \in 1..Len(up)
  <2>1. /\ stored \in 0..Len(up) /\ Len(up) \in Nat
        /\ sent[o] \in 0..Len(up)
    BY DEF RaceInv, AppInv, LogInv, LinksInv
  <2>2. stored < Reaches(o) /\ Reaches(o) \in {Len(up), sent[o]}
    BY DEF HubStores, Reaches
  <2>3. QED
    BY <2>1, <2>2
<1>3. e \in Events
  BY <1>1, <1>2
<1>4. UNCHANGED credit \/ credit' = [credit EXCEPT ![e.pause] = by]
  BY DEF HubStores
<1> HIDE DEF e
<1>5. e.req \in Requests \cup {None}
  BY <1>3 DEF Events
<1>6. by \in Requests \cup {None}
  BY <1>1, <1>5, CorrelateIsForThePause
<1> HIDE DEF by
<1>7. QED
  BY <1>1, <1>4, <1>6

\* No connection is read past what the application has emitted.
LEMMA LinksStep == RaceInv /\ [Next]_vars => LinksInv'
<1> SUFFICES ASSUME RaceInv, [Next]_vars PROVE LinksInv'
  OBVIOUS
<1>1. Len(up') \in Nat /\ Len(up) \in Nat /\ Len(up) <= Len(up')
  BY GatesAndLogStep
<1>2. LinksInv
  BY DEF RaceInv, AppInv
<1>3. stored \in 0..Len(up') /\ sent \in [Owners -> 0..Len(up')]
  BY <1>1, <1>2, LongerLog
<1>4. appConn' \in Owners \cup {None}
  BY <1>2 DEF LinksInv, Next, vars, appVars, AppAttaches, AppDetaches, AppReads, AppRunFinishes,
       AppPauses, AppVerdict, AppLetsGo, HubStores, HubLoses, HubSendFails, HubForwards, HubTimers
<1>5. hubConn' \in [Owners -> {"new", "live", "dead"}]
  <2>1. \/ UNCHANGED hubConn
        \/ \E o \in Owners : \/ hubConn' = [hubConn EXCEPT ![o] = "live"]
                             \/ hubConn' = [hubConn EXCEPT ![o] = "dead"]
    BY DEF Next, vars, appVars, AppAttaches, AppDetaches, AppReads, AppRunFinishes,
       AppPauses, AppVerdict, AppLetsGo, HubStores, HubLoses, HubSendFails, HubForwards, HubTimers
  <2>2. QED
    BY <1>2, <2>1 DEF LinksInv
<1>6. stored' \in 0..Len(up')
  <2>1. ASSUME NEW o \in Owners, HubStores(o) PROVE stored' \in 0..Len(up')
    <3>1. stored' = stored + 1 /\ UNCHANGED up /\ stored < Reaches(o)
      BY <2>1 DEF HubStores, appVars
    <3>2. Reaches(o) \in {Len(up), sent[o]} /\ sent[o] \in 0..Len(up) /\ stored \in 0..Len(up)
      BY <1>2 DEF Reaches, LinksInv
    <3>3. QED
      BY <1>1, <3>1, <3>2
  <2>2. (\E o \in Owners : HubStores(o)) \/ UNCHANGED stored
    BY DEF Next, vars, appVars, AppAttaches, AppDetaches, AppReads, AppRunFinishes,
       AppPauses, AppVerdict, AppLetsGo, HubLoses, HubSendFails, HubForwards, HubTimers
  <2>3. QED
    BY <1>3, <2>1, <2>2
<1>7. sent' \in [Owners -> 0..Len(up')]
  <2>1. UNCHANGED sent \/ sent' = [sent EXCEPT ![appConn] = Len(up)]
    BY DEF Next, vars, appVars, AppAttaches, AppDetaches, AppReads, AppRunFinishes,
       AppPauses, AppVerdict, AppLetsGo, HubStores, HubLoses, HubSendFails, HubForwards, HubTimers
  <2>2. Len(up) \in 0..Len(up')
    BY <1>1
  <2>3. QED
    BY <1>3, <2>1, <2>2
<1>8. credit' \in [Pauses -> Requests \cup {None}]
  <2>1. (\E o \in Owners : HubStores(o)) \/ UNCHANGED credit
    BY DEF Next, vars, appVars, AppAttaches, AppDetaches, AppReads, AppRunFinishes,
       AppPauses, AppVerdict, AppLetsGo, HubLoses, HubSendFails, HubForwards, HubTimers
  <2>2. credit \in [Pauses -> Requests \cup {None}]
    BY <1>2 DEF LinksInv
  <2>3. QED
    BY <2>1, <2>2, CreditStep
<1>9. echoes' \in BOOLEAN
  <2>1. UNCHANGED echoes
    BY DEF Next, vars, appVars, AppAttaches, AppDetaches, AppReads, AppRunFinishes,
       AppPauses, AppVerdict, AppLetsGo, HubStores, HubLoses, HubSendFails, HubForwards, HubTimers
  <2>2. QED
    BY <1>2, <2>1 DEF LinksInv
<1>10. QED
  BY <1>4, <1>5, <1>6, <1>7, <1>8, <1>9 DEF LinksInv

-----------------------------------------------------------------------------
(* The race is within the registry's specification.                        *)

\* Nothing has happened yet.
LEMMA RaceStarts == Init => RaceInv
<1> SUFFICES ASSUME Init PROVE RaceInv
  OBVIOUS
<1>1. RegistryInv
  BY InitHolds DEF Init, RegistryInv
<1>2. GatesInv
  BY RaceAssumption DEF Init, GatesInv, Gates
<1>3. up = << >> /\ stored = 0
  BY DEF Init
<1>4. LogInv
  BY <1>3 DEF LogInv
<1>5. LinksInv
  BY <1>3 DEF Init, LinksInv
<1>6. QueuesInv
  BY DEF Init, QueuesInv
<1>7. QED
  BY <1>1, <1>2, <1>4, <1>5, <1>6 DEF RaceInv, AppInv

\* Every step of the race keeps all of it.
LEMMA RaceStep == RaceInv /\ [Next]_vars => RaceInv'
<1> SUFFICES ASSUME RaceInv, [Next]_vars PROVE RaceInv'
  OBVIOUS
<1>1. RegistryInv'
  BY StepsAreCalls, IndStep DEF RaceInv, RegistryInv
<1>2. QED
  BY <1>1, GatesAndLogStep, LinksStep, QueuesStep DEF RaceInv, AppInv

\* The invariant of the race.
THEOREM RaceInvHolds == Spec => []RaceInv
BY RaceStarts, RaceStep, PTL DEF Spec

\* Every reachable state of the hub and its applications is well typed.
THEOREM RaceTypeCorrect == Spec => []RaceTypeOK
<1>1. RaceInv => RaceTypeOK
  <2> SUFFICES ASSUME RaceInv PROVE RaceTypeOK
    OBVIOUS
  <2>1. TypeOK
    BY DEF RaceInv, RegistryInv, IndInv, CountInv, RequestInv, EntriesType, TypeOK
  <2>2. /\ gate \in [Pauses -> Gates] /\ up \in Seq(Events)
        /\ down \in [Owners -> Seq(Requests)] /\ LinksInv
    BY DEF RaceInv, AppInv, GatesInv, LogInv, QueuesInv
  <2>3. QED
    BY <2>1, <2>2 DEF LinksInv, RaceTypeOK
<1>2. QED
  BY <1>1, RaceInvHolds, PTL

\* requestResume and handleIngestFrame use the registry as PauseRegistry
\* allows: every call the hub makes in the race is one of RegistrySpec's, with
\* a resume for a listed pause going through the connection that owns it.
THEOREM RaceImplementsRegistry == Spec => RegistrySpec
<1>1. Init => RegistryInit
  BY DEF Init
<1>2. QED
  BY <1>1, RaceInvHolds, StepsAreCalls, PTL DEF Spec, RegistrySpec

\* So in the race, too, a listed call that is being resolved is resolved by a
\* request made for it and not yet answered otherwise (requestResume).
THEOREM RaceResolvesOpen == Spec => []ResolvingIsUnsettled
BY RaceImplementsRegistry, ResolvingStaysOpen, PTL

-----------------------------------------------------------------------------
(* What the log tells of the gates.                                        *)

\* An event about a pause and the gates g of a client that echoes or not.
Tells(e, g, ec) ==
    /\ e.type = "paused" => g[e.pause].st # "none"
    /\ e.type = "refused" => ec /\ e.req \in Requests /\ g[e.pause].st # "none"
    /\ e.type = "resumed" =>
          /\ g[e.pause].st = "released"
          /\ e.req = IF ec THEN g[e.pause].by ELSE None
          /\ e.action = g[e.pause].action

\* What was emitted is true, exec.resumed is the last of its pause, and no gate
\* is released without it.
StoryInv ==
    /\ \A i \in 1..Len(up) : Tells(up[i], gate, echoes)
    /\ \A i, j \in 1..Len(up) :
          up[i].type = "resumed" /\ up[j].type # "finished" /\ up[j].pause = up[i].pause => j <= i
    /\ \A p \in Pauses : gate[p].st = "released" =>
          \E i \in 1..Len(up) : up[i].type = "resumed" /\ up[i].pause = p
    /\ \A p \in Pauses : gate[p].st = "validating" => echoes

\* What a step may do to the gates: a released one stays as it is.
GatesMove ==
    \A q \in Pauses : /\ gate[q].st = "released" => gate'[q] = gate[q]
                      /\ gate[q].st # "none" => gate'[q].st # "none"
                      /\ gate'[q].st = "validating" => echoes

\* And to the log: it grows, by at most one event of each pause that is not
\* released yet, and by an exec.resumed for each gate the step releases.
LogGrows ==
    /\ Len(up) \in Nat /\ Len(up') \in Nat /\ Len(up) <= Len(up')
    /\ \A i \in 1..Len(up) : up'[i] = up[i]
NewIsTrue ==
    \A i \in 1..Len(up') : i > Len(up) /\ up'[i].type # "finished" =>
        gate[up'[i].pause].st # "released" /\ Tells(up'[i], gate', echoes)
NewIsOne ==
    \A i, j \in 1..Len(up') :
        /\ i > Len(up) /\ up'[i].type # "finished"
        /\ j > Len(up) /\ up'[j].type # "finished"
        /\ up'[i].pause = up'[j].pause
        => i = j
NewIsAll ==
    \A q \in Pauses : gate'[q].st = "released" /\ gate[q].st # "released" =>
        \E i \in 1..Len(up') : i > Len(up) /\ up'[i].type = "resumed" /\ up'[i].pause = q
Advance == UNCHANGED echoes /\ GatesMove /\ LogGrows /\ NewIsTrue /\ NewIsOne /\ NewIsAll

\* One more event.
LEMMA OneMore ==
    ASSUME LogInv, NEW e, Told(e), up' = Append(up, e)
    PROVE  /\ LogGrows /\ Len(up') = Len(up) + 1 /\ up'[Len(up')] = e
           /\ \A i \in 1..Len(up') : i > Len(up) => i = Len(up') /\ up'[i] = e
           /\ NewIsOne
<1>1. up \in Seq(Events) /\ e \in Events
  BY DEF LogInv, Told
<1>2. /\ Len(up) \in Nat /\ Len(up') = Len(up) + 1 /\ up'[Len(up) + 1] = e
      /\ \A i \in 1..Len(up) : up'[i] = up[i]
  BY <1>1
<1>3. \A i \in 1..Len(up') : i > Len(up) => i = Len(up')
  BY <1>2
<1>4. QED
  BY <1>2, <1>3 DEF LogGrows, NewIsOne

\* A gate that was open is let go.
LEMMA ReleaseAdvances ==
    ASSUME GatesInv, LogInv, UNCHANGED echoes, StoryInv, NEW p \in Pauses, IsOpen(p),
           NEW r \in Requests \cup {None}, NEW a \in Actions, Releases(p, r, a)
    PROVE  Advance
<1> DEFINE e == Event("resumed", p, Echo(r), a)
<1>1. gate' = [gate EXCEPT ![p] = [st |-> "released", by |-> r, action |-> a]] /\ up' = Append(up, e)
  BY DEF Releases
<1>2. Echo(r) \in Requests \cup {None}
  BY DEF Echo
<1>3. /\ Told(e) /\ e.type = "resumed" /\ e.pause = p
      /\ e.req = (IF echoes THEN r ELSE None) /\ e.action = a
  BY <1>2, EventsTold DEF Event, Echo
<1> HIDE DEF e
<1>4. /\ LogGrows /\ Len(up') = Len(up) + 1 /\ up'[Len(up')] = e
      /\ \A i \in 1..Len(up') : i > Len(up) => i = Len(up') /\ up'[i] = e
      /\ NewIsOne
  BY <1>1, <1>3, OneMore
<1>5. /\ gate'[p].st = "released" /\ gate'[p].by = r /\ gate'[p].action = a
      /\ \A q \in Pauses : q # p => gate'[q] = gate[q]
  BY <1>1 DEF GatesInv
<1>6. GatesMove
  BY <1>5 DEF GatesMove, IsOpen, StoryInv
<1>7. NewIsTrue
  <2>1. gate[p].st # "released"
    BY DEF IsOpen
  <2>2. QED
    BY <1>3, <1>4, <1>5, <2>1 DEF NewIsTrue, Tells
<1>8. NewIsAll
  <2>1. Len(up') \in 1..Len(up') /\ Len(up') > Len(up)
    BY <1>4 DEF LogGrows
  <2>2. QED
    BY <1>3, <1>4, <1>5, <2>1 DEF NewIsAll
<1>9. QED
  BY <1>4, <1>6, <1>7, <1>8 DEF Advance

\* A gate is held, again or anew, and the log says so.
LEMMA HoldAdvances ==
    ASSUME GatesInv, LogInv, UNCHANGED echoes, StoryInv, NEW p \in Pauses, NEW e, Told(e),
           gate[p].st # "released", gate'[p].st = "held",
           \A q \in Pauses : q # p => gate'[q] = gate[q],
           e.type \in {"paused", "refused"}, e.pause = p,
           e.type = "refused" => echoes /\ e.req \in Requests,
           up' = Append(up, e)
    PROVE  Advance
<1>1. /\ LogGrows /\ \A i \in 1..Len(up') : i > Len(up) => i = Len(up') /\ up'[i] = e
      /\ NewIsOne
  BY OneMore
<1>2. GatesMove /\ NewIsAll
  BY DEF GatesMove, NewIsAll, StoryInv
<1>3. NewIsTrue
  BY <1>1 DEF NewIsTrue, Tells
<1>4. QED
  BY <1>1, <1>2, <1>3 DEF Advance

\* A few more at once.
LEMMA ManyMore ==
    ASSUME NEW s \in Seq(Events), NEW t \in Seq(Events)
    PROVE  /\ Len(s \o t) = Len(s) + Len(t)
           /\ \A i \in 1..Len(s) : (s \o t)[i] = s[i]
           /\ \A i \in 1..Len(s \o t) :
                 i > Len(s) => i - Len(s) \in 1..Len(t) /\ (s \o t)[i] = t[i - Len(s)]
<1>1. Len(s) \in Nat /\ Len(t) \in Nat
  OBVIOUS
<1>2. /\ Len(s \o t) = Len(s) + Len(t)
      /\ \A i \in 1..Len(s) + Len(t) :
            (s \o t)[i] = IF i <= Len(s) THEN s[i] ELSE t[i - Len(s)]
  OBVIOUS
<1>3. QED
  BY <1>1, <1>2

\* handleDetached lets every open gate go, with one event each.
LEMMA DetachAdvances ==
    ASSUME GatesInv, LogInv, UNCHANGED echoes, StoryInv, AppDetaches
    PROVE  Advance /\ \A i \in 1..Len(up') : i > Len(up) => up'[i].type = "resumed"
<1> DEFINE S == {p \in Pauses : IsOpen(p)}
           open == SetToSeq(S)
           n == Cardinality(S)
           free == [st |-> "released", by |-> None, action |-> "continue"]
           es == [i \in DOMAIN open |-> Event("resumed", open[i], None, "continue")]
<1>1. S \in SUBSET Pauses
  OBVIOUS
<1>2. up' = up \o es /\ gate' = [p \in Pauses |-> IF IsOpen(p) THEN free ELSE gate[p]]
  BY DEF AppDetaches
<1>3. \A p \in Pauses : p \in S <=> IsOpen(p)
  OBVIOUS
<1> HIDE DEF S
<1>4. /\ open \in [1..n -> S] /\ n \in Nat
      /\ \A i, j \in 1..n : open[i] = open[j] => i = j
      /\ \A p \in S : \E i \in 1..n : open[i] = p
  BY <1>1, PausesOnce
<1> HIDE DEF open, n
<1>5. /\ es = [i \in 1..n |-> Event("resumed", open[i], None, "continue")]
      /\ \A i \in 1..n : Told(es[i])
  <2>1. es = [i \in 1..n |-> Event("resumed", open[i], None, "continue")]
    BY <1>4
  <2>2. QED
    BY <1>1, <1>4, <2>1, EventsTold, RaceAssumption
<1>6. \A i \in 1..n : /\ es[i].type = "resumed" /\ es[i].pause = open[i]
                      /\ es[i].req = None /\ es[i].action = "continue"
  BY <1>5 DEF Event
<1>7. es \in Seq(Events) /\ Len(es) = n
  <2>1. es \in [1..n -> Events]
    BY <1>5 DEF Told
  <2> HIDE DEF es
  <2>2. QED
    BY <1>4, <2>1
<1> HIDE DEF es
<1>8. up \in Seq(Events) /\ Len(up) \in Nat
  BY DEF LogInv
<1>9. /\ Len(up') = Len(up) + n
      /\ \A i \in 1..Len(up) : up'[i] = up[i]
      /\ \A i \in 1..Len(up') : i > Len(up) => i - Len(up) \in 1..n /\ up'[i] = es[i - Len(up)]
  BY <1>2, <1>7, <1>8, ManyMore
<1>10. \A p \in Pauses : gate'[p] = IF p \in S THEN free ELSE gate[p]
  BY <1>2, <1>3
<1>11. LogGrows
  BY <1>4, <1>8, <1>9 DEF LogGrows
<1>12. \A p \in S : gate[p].st \in {"held", "validating"}
  BY <1>1, <1>3 DEF IsOpen
<1>13. GatesMove
  BY <1>10, <1>12 DEF GatesMove, StoryInv
<1>14. NewIsTrue
  <2>1. \A p \in S : p \in Pauses /\ gate[p].st # "released" /\ gate'[p] = free
    BY <1>1, <1>10, <1>12
  <2> SUFFICES ASSUME NEW i \in 1..Len(up'), i > Len(up)
               PROVE  gate[up'[i].pause].st # "released" /\ Tells(up'[i], gate', echoes)
    BY DEF NewIsTrue
  <2> DEFINE k == i - Len(up)
  <2>2. k \in 1..n /\ up'[i] = es[k]
    BY <1>9
  <2> HIDE DEF k
  <2>3. open[k] \in S
    BY <1>4, <2>2
  <2>4. QED
    BY <1>6, <2>1, <2>2, <2>3 DEF Tells
<1>15. NewIsOne
  <2> SUFFICES ASSUME NEW i \in 1..Len(up'), NEW j \in 1..Len(up'), i > Len(up), j > Len(up),
                      up'[i].pause = up'[j].pause
               PROVE  i = j
    BY DEF NewIsOne
  <2>1. i - Len(up) \in 1..n /\ j - Len(up) \in 1..n
    BY <1>9
  <2>2. es[i - Len(up)].pause = open[i - Len(up)] /\ es[j - Len(up)].pause = open[j - Len(up)]
    BY <1>6, <2>1
  <2>3. es[i - Len(up)].pause = es[j - Len(up)].pause
    BY <1>9
  <2>4. i - Len(up) = j - Len(up)
    BY <1>4, <2>1, <2>2, <2>3
  <2>5. QED
    BY <1>8, <1>9, <2>4
<1>16. NewIsAll
  <2> SUFFICES ASSUME NEW q \in Pauses, gate'[q].st = "released", gate[q].st # "released"
               PROVE  \E i \in 1..Len(up') : /\ i > Len(up)
                                             /\ up'[i].type = "resumed" /\ up'[i].pause = q
    BY DEF NewIsAll
  <2>1. q \in S
    BY <1>10
  <2>2. PICK k \in 1..n : open[k] = q
    BY <1>4, <2>1
  <2>3. Len(up) + k \in 1..Len(up') /\ Len(up) + k > Len(up)
    BY <1>4, <1>8, <1>9
  <2>4. up'[Len(up) + k] = es[k]
    <3>1. (Len(up) + k) - Len(up) = k
      BY <1>8
    <3>2. QED
      BY <1>9, <2>3, <3>1
  <2>5. QED
    BY <1>6, <2>2, <2>3, <2>4
<1>17. \A i \in 1..Len(up') : i > Len(up) => up'[i].type = "resumed"
  BY <1>6, <1>9
<1>18. QED
  BY <1>11, <1>13, <1>14, <1>15, <1>16, <1>17 DEF Advance

\* A log that stays, while the gates do.
LEMMA QuietAdvances ==
    ASSUME GatesInv, LogInv, StoryInv, UNCHANGED <<echoes, up>>, GatesMove,
           \A q \in Pauses : gate'[q].st = "released" => gate[q].st = "released"
    PROVE  Advance
<1>1. Len(up) \in Nat /\ \A i \in 1..Len(up') : ~(i > Len(up))
  BY DEF LogInv
<1>2. QED
  BY <1>1 DEF Advance, LogGrows, NewIsTrue, NewIsOne, NewIsAll

\* A gate is held again after a refusal, and the application says so.
LEMMA RefuseAdvances ==
    ASSUME GatesInv, LogInv, UNCHANGED echoes, StoryInv, echoes, NEW p \in Pauses,
           gate[p].st # "released", NEW r \in Requests, Refuses(p, r)
    PROVE  Advance
<1> DEFINE e == Event("refused", p, Echo(r), "continue")
<1>1. up' = Append(up, e) /\ gate' = [gate EXCEPT ![p].st = "held", ![p].by = None]
  BY DEF Refuses
<1>2. Echo(r) = r
  BY DEF Echo
<1>3. Told(e) /\ e.type = "refused" /\ e.pause = p /\ e.req = r
  BY <1>2, EventsTold, RaceAssumption DEF Event
<1>4. gate'[p].st = "held" /\ \A q \in Pauses : q # p => gate'[q] = gate[q]
  BY <1>1 DEF GatesInv, Gates
<1> HIDE DEF e
<1>5. QED
  BY <1>1, <1>3, <1>4, HoldAdvances

\* Every step of the application advances the story, and the hub's leave it.
LEMMA StepAdvances == RaceInv /\ StoryInv /\ [Next]_vars => Advance
<1> SUFFICES ASSUME RaceInv, StoryInv, [Next]_vars PROVE Advance
  OBVIOUS
<1>0. /\ GatesInv /\ LogInv /\ LinksInv /\ QueuesInv
      /\ \A r \in Requests : req[r].pause \in Pauses /\ req[r].action \in Actions
  BY DEF RaceInv, AppInv, RegistryInv, IndInv, RequestInv, Reqs
<1>1. UNCHANGED echoes
  BY DEF Next, vars, appVars, AppAttaches, AppDetaches, AppReads, AppRunFinishes,
       AppPauses, AppVerdict, AppLetsGo, HubStores, HubLoses, HubSendFails, HubForwards, HubTimers
<1>2. CASE UNCHANGED <<gate, up>>
  BY <1>0, <1>1, <1>2, QuietAdvances DEF GatesMove, StoryInv
<1>3. ASSUME NEW p \in Pauses, AppPauses(p) PROVE Advance
  <2> DEFINE e == Event("paused", p, None, "continue")
  <2>1. /\ gate[p].st = "none" /\ gate' = [gate EXCEPT ![p].st = "held"]
        /\ up' = Append(up, e)
    BY <1>3 DEF AppPauses
  <2>2. Told(e) /\ e.type = "paused" /\ e.pause = p
    BY EventsTold, RaceAssumption DEF Event
  <2>3. gate'[p].st = "held" /\ \A q \in Pauses : q # p => gate'[q] = gate[q]
    BY <1>0, <2>1 DEF GatesInv, Gates
  <2> HIDE DEF e
  <2>4. QED
    BY <1>0, <1>1, <2>1, <2>2, <2>3, HoldAdvances
<1>4. ASSUME NEW p \in Pauses, AppVerdict(p) PROVE Advance
  <2> DEFINE r == gate[p].by
  <2>1. gate[p].st = "validating" /\ (Releases(p, r, req[r].action) \/ Refuses(p, r))
    BY <1>4 DEF AppVerdict
  <2>2. r \in Requests /\ echoes /\ IsOpen(p)
    BY <1>0, <2>1 DEF GatesInv, StoryInv, IsOpen
  <2> HIDE DEF r
  <2>3. QED
    BY <1>0, <1>1, <2>1, <2>2, ReleaseAdvances, RefuseAdvances
<1>5. ASSUME NEW p \in Pauses, AppLetsGo(p) PROVE Advance
  BY <1>0, <1>1, <1>5, ReleaseAdvances, RaceAssumption DEF AppLetsGo
<1>6. CASE AppDetaches
  BY <1>0, <1>1, <1>6, DetachAdvances
<1>7. CASE AppReads
  <2> DEFINE r == Head(down[appConn])
             p == req[r].pause
  <2>1. down[appConn] \in Seq(Requests) /\ down[appConn] # << >>
    BY <1>0, <1>7 DEF AppReads, LinksInv, QueuesInv
  <2>2. r \in Requests /\ p \in Pauses /\ req[r].action \in Actions
    BY <1>0, <2>1
  <2>3. \/ UNCHANGED <<gate, up>>
        \/ gate[p].st = "held" /\ Releases(p, r, req[r].action)
        \/ gate[p].st = "held" /\ echoes /\ Refuses(p, r)
        \/ /\ gate[p].st = "held" /\ echoes /\ UNCHANGED up
           /\ gate' = [gate EXCEPT ![p].st = "validating", ![p].by = r]
    BY <1>7 DEF AppReads
  <2> HIDE DEF r, p
  <2>4. CASE gate[p].st = "held" /\ Releases(p, r, req[r].action)
    BY <1>0, <1>1, <2>2, <2>4, ReleaseAdvances DEF IsOpen
  <2>5. CASE gate[p].st = "held" /\ echoes /\ Refuses(p, r)
    BY <1>0, <1>1, <2>2, <2>5, RefuseAdvances
  <2>6. CASE /\ gate[p].st = "held" /\ echoes /\ UNCHANGED up
             /\ gate' = [gate EXCEPT ![p].st = "validating", ![p].by = r]
    <3>1. gate'[p].st = "validating" /\ \A q \in Pauses : q # p => gate'[q] = gate[q]
      BY <1>0, <2>2, <2>6 DEF GatesInv, Gates
    <3>2. GatesMove /\ \A q \in Pauses : gate'[q].st = "released" => gate[q].st = "released"
      BY <2>2, <2>6, <3>1 DEF GatesMove, StoryInv
    <3>3. QED
      BY <1>0, <1>1, <2>6, <3>2, QuietAdvances
  <2>7. QED
    BY <1>2, <2>3, <2>4, <2>5, <2>6
<1>8. CASE AppRunFinishes
  <2> DEFINE e == Event("finished", None, None, "continue")
  <2>1. up' = Append(up, e) /\ UNCHANGED gate
    BY <1>8 DEF AppRunFinishes
  <2>2. Told(e) /\ e.type = "finished"
    BY EventsTold, RaceAssumption DEF Told, Event, Events
  <2> HIDE DEF e
  <2>3. /\ LogGrows /\ \A i \in 1..Len(up') : i > Len(up) => up'[i] = e
        /\ NewIsOne
    BY <1>0, <2>1, <2>2, OneMore
  <2>4. QED
    BY <1>1, <2>1, <2>2, <2>3 DEF Advance, GatesMove, NewIsTrue, NewIsAll, StoryInv
<1>9. QED
  BY <1>2, <1>3, <1>4, <1>5, <1>6, <1>7, <1>8
     DEF Next, vars, appVars, AppAttaches, HubStores, HubLoses, HubSendFails, HubForwards, HubTimers

\* What was true of an event stays true of it.
LEMMA StillTells ==
    ASSUME GatesMove, NEW e \in Events, e.type # "finished" => e.pause \in Pauses, Tells(e, gate, echoes)
    PROVE  Tells(e, gate', echoes)
BY DEF Tells, GatesMove, Events

\* The story stays true.
LEMMA StoryStep == RaceInv /\ StoryInv /\ [Next]_vars => StoryInv'
<1> SUFFICES ASSUME RaceInv, StoryInv, [Next]_vars PROVE StoryInv'
  OBVIOUS
<1>1. UNCHANGED echoes /\ GatesMove /\ LogGrows /\ NewIsTrue /\ NewIsOne /\ NewIsAll
  BY StepAdvances DEF Advance
<1>2. /\ \A i \in 1..Len(up) : up[i] \in Events /\ (up[i].type # "finished" => up[i].pause \in Pauses)
      /\ \A i \in 1..Len(up') : up'[i] \in Events /\ (up'[i].type # "finished" => up'[i].pause \in Pauses)
  <2>1. LogInv /\ LogInv'
    BY GatesAndLogStep DEF RaceInv, AppInv
  <2>2. up \in Seq(Events) /\ up' \in Seq(Events)
    BY <2>1 DEF LogInv
  <2>3. \A i \in 1..Len(up) : up[i] \in Events
    BY <2>2
  <2>4. \A i \in 1..Len(up') : up'[i] \in Events
    BY <2>2
  <2>5. QED
    BY <2>1, <2>3, <2>4 DEF LogInv
<1>3. \A i \in 1..Len(up') : i > Len(up) \/ (i \in 1..Len(up) /\ up'[i] = up[i])
  BY <1>1 DEF LogGrows
<1>4. ASSUME NEW i \in 1..Len(up') PROVE Tells(up'[i], gate', echoes')
  <2>1. CASE i > Len(up) /\ up'[i].type # "finished"
    BY <1>1, <2>1 DEF NewIsTrue
  <2>2. CASE up'[i].type = "finished"
    BY <2>2 DEF Tells
  <2>3. CASE i \in 1..Len(up) /\ up'[i] = up[i]
    <3>1. Tells(up[i], gate, echoes)
      BY <2>3 DEF StoryInv
    <3>2. QED
      BY <1>1, <1>2, <2>3, <3>1, StillTells
  <2>4. QED
    BY <1>3, <2>1, <2>2, <2>3
<1>5. ASSUME NEW i \in 1..Len(up'), NEW j \in 1..Len(up'), up'[i].type = "resumed",
             up'[j].type # "finished", up'[j].pause = up'[i].pause
      PROVE  j <= i
  <2>1. CASE i > Len(up) /\ j > Len(up)
    BY <1>1, <1>5, <2>1 DEF NewIsOne, LogGrows
  <2>2. CASE i > Len(up) /\ j \in 1..Len(up)
    BY <1>1, <2>2 DEF LogGrows
  <2>3. CASE i \in 1..Len(up) /\ up'[i] = up[i] /\ j > Len(up)
    <3>1. Tells(up[i], gate, echoes)
      BY <2>3 DEF StoryInv
    <3>2. gate[up[i].pause].st = "released"
      BY <1>5, <2>3, <3>1 DEF Tells
    <3>3. gate[up'[j].pause].st # "released"
      BY <1>1, <1>5, <2>3 DEF NewIsTrue
    <3>4. QED
      BY <1>5, <2>3, <3>2, <3>3
  <2>4. CASE i \in 1..Len(up) /\ up'[i] = up[i] /\ j \in 1..Len(up) /\ up'[j] = up[j]
    BY <1>5, <2>4 DEF StoryInv
  <2>5. QED
    BY <1>3, <2>1, <2>2, <2>3, <2>4
<1>6. ASSUME NEW p \in Pauses, gate'[p].st = "released"
      PROVE  \E i \in 1..Len(up') : up'[i].type = "resumed" /\ up'[i].pause = p
  <2>1. CASE gate[p].st = "released"
    <3>1. PICK i \in 1..Len(up) : up[i].type = "resumed" /\ up[i].pause = p
      BY <2>1 DEF StoryInv
    <3>2. i \in 1..Len(up') /\ up'[i] = up[i]
      BY <1>1 DEF LogGrows
    <3>3. QED
      BY <3>1, <3>2
  <2>2. CASE gate[p].st # "released"
    BY <1>1, <1>6, <2>2 DEF NewIsAll
  <2>3. QED
    BY <2>1, <2>2
<1>7. \A p \in Pauses : gate'[p].st = "validating" => echoes'
  BY <1>1 DEF GatesMove
<1>8. QED
  BY <1>4, <1>5, <1>6, <1>7 DEF StoryInv

-----------------------------------------------------------------------------
(* Where a request is.                                                     *)

Used(r) == req[r].outcome # "unused"
Travels(r) == req[r].outcome \notin {"unused", "send-failed"}
Queued(r) == \E o \in Owners : \E i \in 1..Len(down[o]) : down[o][i] = r
AtAGate(r) == \E p \in Pauses : gate[p].by = r
TurnedDown(r) == \E i \in 1..Len(up) : up[i].type = "refused" /\ up[i].req = r

\* Only the connection the application is attached by has resumes on their
\* way, and none of them twice.
OneQueue ==
    /\ \A o \in Owners : o # appConn => down[o] = << >>
    /\ \A o \in Owners : \A i, j \in 1..Len(down[o]) : down[o][i] = down[o][j] => i = j

\* A request is on its way, or with the gate it is for, or turned down.
SeatInv ==
    /\ \A r \in Requests : Queued(r) => Travels(r) /\ ~AtAGate(r) /\ ~TurnedDown(r)
    /\ \A p \in Pauses, r \in Requests : gate[p].by = r =>
          /\ Travels(r) /\ req[r].pause = p /\ ~TurnedDown(r)
          /\ gate[p].st = "released" => gate[p].action = req[r].action
    /\ \A i \in 1..Len(up), r \in Requests : up[i].type = "refused" /\ up[i].req = r =>
          Used(r) /\ req[r].pause = up[i].pause

\* A request that was begun keeps what it asked for.
LEMMA AskedStays ==
    ASSUME RaceInv, [Next]_vars, NEW r \in Requests, Used(r) PROVE Kept(req[r], req'[r]) /\ Used(r)'
<1>1. RequestInv /\ [RegistryNext]_registryVars
  BY StepsAreCalls DEF RaceInv, RegistryInv, IndInv
<1>2. ~BegunBy(r)
  BY BeginSteps DEF BegunBy, Used
<1>3. Kept(req[r], req'[r])
  <2>1. Kept(req[r], req'[r]) \/ BegunBy(r)
    BY <1>1, RequestsKept
  <2>2. QED
    BY <1>2, <2>1
<1>4. QED
  BY <1>3 DEF Kept, Used, Answers

\* What begin() answers at once.
LEMMA BeginAnswers ==
    ASSUME RequestInv, NEW r \in Requests, NEW p \in Pauses, NEW o \in Owners,
           NEW action \in Actions, NEW sent0 \in BOOLEAN, Begin(r, p, o, action, sent0)
    PROVE  /\ req[r].outcome = "unused"
           /\ req'[r].outcome \in {"pending", "no-answer", "app-disconnected"}
           /\ \A s \in Requests : s # r => req'[s].outcome \in {req[s].outcome, "no-answer"}
<1> DEFINE new == New(p, o, action)
           begun == Begun(r, p, o, action)
           asked == Asked(r, p, o, action)
           out == Evicted(asked)
<1>1. /\ req[r].outcome = "unused"
      /\ req' = [s \in Requests |->
                 IF s \in out THEN [Settled(asked[s], "no-answer") EXCEPT !.held = FALSE]
                 ELSE IF s = r /\ ~sent0 THEN Settled(asked[s], "app-disconnected")
                 ELSE asked[s]]
  BY BeginSteps
<1>2. asked \in [Requests -> Reqs]
  BY AskedKeeps
<1>3. /\ begun[r] = new /\ \A s \in Requests : s # r => begun[s] = req[s]
      /\ new.outcome = "pending" /\ \A s \in Requests : begun[s] \in Reqs
  <2>1. new \in Reqs /\ new.outcome = "pending"
    BY DEF New, Reqs, RequestInv, Tracked
  <2> HIDE DEF new
  <2>2. begun = [req EXCEPT ![r] = new]
    BY DEF Begun, new
  <2>3. QED
    BY <2>1, <2>2 DEF RequestInv
<1>4. \A s \in Requests : asked[s] \in {begun[s], Settled(begun[s], "no-answer")}
  BY DEF Asked
<1> HIDE DEF asked, begun, new, out
<1>5. ASSUME NEW q \in Reqs, NEW a \in {"no-answer", "app-disconnected"}
      PROVE  /\ Settled(q, a).outcome \in {q.outcome, a}
             /\ [Settled(q, a) EXCEPT !.held = FALSE].outcome \in {q.outcome, a}
  BY DEF Settled, Reqs
<1>6. ASSUME NEW s \in Requests PROVE asked[s].outcome \in {begun[s].outcome, "no-answer"}
  <2>1. Settled(begun[s], "no-answer").outcome \in {begun[s].outcome, "no-answer"}
    BY <1>3, <1>5
  <2>2. QED
    BY <1>4, <2>1
<1>7. ASSUME NEW s \in Requests
      PROVE  \/ req'[s].outcome \in {asked[s].outcome, "no-answer"}
             \/ s = r /\ req'[s].outcome = "app-disconnected"
  <2>1. asked[s] \in Reqs
    BY <1>2
  <2>2. CASE s \in out
    <3>1. req'[s] = [Settled(asked[s], "no-answer") EXCEPT !.held = FALSE]
      BY <1>1, <2>2
    <3>2. QED
      BY <1>5, <2>1, <3>1
  <2>3. CASE s \notin out /\ s = r /\ ~sent0
    <3>1. req'[s] = Settled(asked[s], "app-disconnected")
      BY <1>1, <2>3
    <3>2. QED
      BY <1>5, <2>1, <2>3, <3>1
  <2>4. CASE s \notin out /\ ~(s = r /\ ~sent0)
    BY <1>1, <2>4
  <2>5. QED
    BY <2>2, <2>3, <2>4
<1>8. QED
  BY <1>1, <1>3, <1>6, <1>7

\* Where the answers that say something of a gate come from.
Silent == {"unused", "pending", "no-answer", "app-disconnected", "run-finished", "server-closing"}
AnswersFrom(r) ==
    LET x == req'[r].outcome
        e == up[stored + 1]
    IN
    \/ x = req[r].outcome
    \/ x \in Silent
    \/ x = "send-failed" /\ \E o \in Owners : HubSendFails(o) /\ r = Last(down[o])
    \/ /\ \E o \in Owners : HubStores(o)
       /\ \/ /\ e.type = "resumed" /\ x = "resumed"
             /\ r = Correlate(e.pause, e.req, echoes, e.action)
          \/ /\ e.type = "resumed" /\ x = "superseded" /\ r \in Waiting
             /\ req[r].pause = e.pause /\ r # Correlate(e.pause, e.req, echoes, e.action)
          \/ e.type = "refused" /\ x = "refused" /\ r = RefusedRequest(e.pause, e.req)

LEMMA Outcomes == ASSUME RaceInv, [Next]_vars, NEW r \in Requests PROVE AnswersFrom(r)
<1>0. req \in [Requests -> Reqs] /\ req[r] \in Reqs /\ RequestInv
  BY DEF RaceInv, RegistryInv, IndInv, RequestInv
<1>1. \A a \in Answers : Settled(req[r], a).outcome \in {req[r].outcome, a}
  BY <1>0, SettledKeeps
<1>2. Answers = {"resumed", "refused", "superseded", "no-answer", "app-disconnected",
            "send-failed", "run-finished", "server-closing"}
  BY DEF Answers
<1>3. CASE req' = req
  BY <1>3 DEF AnswersFrom
<1>4. ASSUME NEW o \in Owners, HubLoses(o) PROVE AnswersFrom(r)
  <2>1. req'[r] \in {req[r], Settled(req[r], "app-disconnected")}
    BY <1>0, <1>4 DEF HubLoses, CloseOwner
  <2>2. QED
    BY <1>1, <1>2, <2>1 DEF AnswersFrom, Silent
<1>5. ASSUME NEW o \in Owners, HubSendFails(o) PROVE AnswersFrom(r)
  <2> DEFINE s == Last(down[o])
  <2>1. s \in Requests /\ req' = [req EXCEPT ![s] = Settled(@, "send-failed")]
    BY <1>0, <1>5 DEF HubSendFails, Abort, Remembered
  <2>2. CASE s = r
    BY <1>0, <1>1, <1>2, <1>5, <2>1, <2>2 DEF AnswersFrom
  <2>3. CASE s # r
    BY <1>0, <2>1, <2>3 DEF AnswersFrom
  <2>4. QED
    BY <2>2, <2>3
<1>6. ASSUME NEW s \in Requests, NEW p \in Pauses, NEW o \in Owners, NEW a \in Actions,
             NEW delivered \in BOOLEAN, HubForwards(s, p, o, a, delivered)
      PROVE  AnswersFrom(r)
  <2>1. Begin(s, p, o, a, delivered)
    BY <1>6 DEF HubForwards
  <2>2. req'[r].outcome \in Silent \cup {req[r].outcome}
    BY <1>0, <2>1, BeginAnswers DEF Silent
  <2>3. QED
    BY <2>2 DEF AnswersFrom
<1>7. ASSUME HubTimers PROVE AnswersFrom(r)
  <2>1. req'[r] \in {req[r], Settled(req[r], "no-answer")}
    BY <1>0, <1>7 DEF HubTimers, ResolvingTimeout, Deadline
  <2>2. QED
    BY <1>1, <1>2, <2>1 DEF AnswersFrom, Silent
<1>8. ASSUME NEW o \in Owners, HubStores(o) PROVE AnswersFrom(r)
  <2> DEFINE e == up[stored + 1]
             by == Correlate(e.pause, e.req, echoes, e.action)
             turned == RefusedRequest(e.pause, e.req)
  <2>1. \/ e.type = "paused" /\ Open(o, e.pause)
        \/ e.type = "resumed" /\ Resumed(e.pause, e.req, echoes, e.action)
        \/ e.type = "refused" /\ Refused(e.pause, e.req)
        \/ \E run \in Runs : CloseRun(run)
    BY <1>8 DEF HubStores
  <2>2. CASE e.type = "paused" /\ Open(o, e.pause)
    BY <1>3, <2>2 DEF Open
  <2>3. CASE e.type = "resumed" /\ Resumed(e.pause, e.req, echoes, e.action)
    <3>1. req'[r] = IF r = by THEN Settled(req[r], "resumed")
                    ELSE IF r \in Waiting /\ req[r].pause = e.pause
                         THEN Settled(req[r], "superseded")
                    ELSE req[r]
      BY <2>3 DEF Resumed
    <3> HIDE DEF by
    <3>2. CASE r = by
      <4>1. req'[r].outcome \in {req[r].outcome, "resumed"}
        BY <1>1, <1>2, <3>1, <3>2
      <4>2. QED
        BY <1>8, <2>3, <3>2, <4>1 DEF AnswersFrom, by
    <3>3. CASE r # by /\ r \in Waiting /\ req[r].pause = e.pause
      <4>1. req'[r].outcome \in {req[r].outcome, "superseded"}
        BY <1>1, <1>2, <3>1, <3>3
      <4>2. QED
        BY <1>8, <2>3, <3>3, <4>1 DEF AnswersFrom, by
    <3>4. CASE r # by /\ ~(r \in Waiting /\ req[r].pause = e.pause)
      BY <3>1, <3>4 DEF AnswersFrom
    <3>5. QED
      BY <3>2, <3>3, <3>4
  <2>4. CASE e.type = "refused" /\ Refused(e.pause, e.req)
    <3>1. req'[r] = IF r = turned THEN Settled(req[r], "refused") ELSE req[r]
      BY <2>4 DEF Refused
    <3> HIDE DEF turned
    <3>2. CASE r = turned
      <4>1. req'[r].outcome \in {req[r].outcome, "refused"}
        BY <1>1, <1>2, <3>1, <3>2
      <4>2. QED
        BY <1>8, <2>4, <3>2, <4>1 DEF AnswersFrom, turned
    <3>3. CASE r # turned
      BY <3>1, <3>3 DEF AnswersFrom
    <3>4. QED
      BY <3>2, <3>3
  <2>5. CASE \E run \in Runs : CloseRun(run)
    <3>1. req'[r] \in {req[r], Settled(req[r], "run-finished")}
      BY <2>5 DEF CloseRun
    <3>2. QED
      BY <1>1, <1>2, <3>1 DEF AnswersFrom, Silent
  <2>6. QED
    BY <2>1, <2>2, <2>3, <2>4, <2>5
<1>9. QED
  BY <1>3, <1>4, <1>5, <1>6, <1>7, <1>8
     DEF Next, vars, registryVars, AppAttaches, AppDetaches, AppReads, AppRunFinishes,
         AppPauses, AppVerdict, AppLetsGo

\* Every queue holds what it held, without its first, its last or any of them.
Shorter(s2, s) ==
    \E k \in {0, 1} : /\ Len(s2) + k <= Len(s)
                      /\ \A i \in 1..Len(s2) : s2[i] = s[i + k]

\* Dropping the first or the last of a queue leaves a shorter one without it.
LEMMA FirstGone ==
    ASSUME NEW s \in Seq(Requests), s # << >>
    PROVE  /\ Tail(s) \in Seq(Requests) /\ Shorter(Tail(s), s)
           /\ Head(s) = s[1] /\ 1 \in 1..Len(s) /\ Len(Tail(s)) = Len(s) - 1
           /\ \A i \in 1..Len(Tail(s)) : Tail(s)[i] = s[i + 1] /\ i + 1 \in 1..Len(s) /\ i + 1 # 1
<1>1. /\ Len(s) \in Nat /\ Len(s) > 0 /\ Head(s) = s[1]
      /\ Tail(s) \in Seq(Requests) /\ Len(Tail(s)) = Len(s) - 1
      /\ \A i \in 1..Len(Tail(s)) : Tail(s)[i] = s[i + 1]
  OBVIOUS
<1>2. QED
  BY <1>1 DEF Shorter
LEMMA LastGone ==
    ASSUME NEW s \in Seq(Requests), s # << >>
    PROVE  /\ Front(s) \in Seq(Requests) /\ Shorter(Front(s), s)
           /\ Last(s) = s[Len(s)] /\ Len(s) \in 1..Len(s) /\ Len(Front(s)) = Len(s) - 1
           /\ \A i \in 1..Len(Front(s)) : Front(s)[i] = s[i] /\ i \in 1..Len(s) /\ i # Len(s)
<1>1. Len(s) \in Nat /\ Len(s) > 0 /\ Last(s) = s[Len(s)]
  BY DEF Last
<1>2. /\ Front(s) \in Seq(Requests) /\ Len(Front(s)) = Len(s) - 1
      /\ \A i \in 1..Len(Front(s)) : Front(s)[i] = s[i]
  <2> DEFINE n == Len(s) - 1
  <2>1. n \in 0..Len(s) /\ n \in Nat
    BY <1>1
  <2>2. Front(s) = SubSeq(s, 1, n)
    BY DEF Front
  <2>3. SubSeq(s, 1, n) = [i \in 1..n |-> s[i]]
    BY <1>1
  <2>4. [i \in 1..n |-> s[i]] \in Seq(Requests) /\ Len([i \in 1..n |-> s[i]]) = n
    BY <1>1
  <2>5. QED
    BY <2>1, <2>2, <2>3, <2>4
<1>3. Shorter(Front(s), s)
  <2>1. /\ Len(Front(s)) + 0 <= Len(s)
        /\ \A i \in 1..Len(Front(s)) : Front(s)[i] = s[i + 0]
    BY <1>1, <1>2
  <2>2. QED
    BY <2>1 DEF Shorter
<1>4. /\ Len(s) \in 1..Len(s)
      /\ \A i \in 1..Len(Front(s)) : i \in 1..Len(s) /\ i # Len(s)
  BY <1>1, <1>2
<1>5. QED
  BY <1>1, <1>2, <1>3, <1>4

\* How the queues move: shorter, or longer by a request begun in the step.
QueueShorter ==
    /\ \A o \in Owners : Shorter(down'[o], down[o])
    /\ appConn' # appConn => \A o \in Owners : down'[o] = << >>
QueueLonger(r) ==
    /\ UNCHANGED <<appConn, gate, up>>
    /\ ~Used(r) /\ Travels(r)'
    /\ \E o \in Owners : o = appConn /\ down' = [down EXCEPT ![o] = Append(@, r)]

\* What leaves the queues is no longer there, so it is nowhere twice.
LEMMA QueueShrinks ==
    ASSUME QueuesInv, QueuesInv', OneQueue, QueueShorter
    PROVE  /\ OneQueue'
           /\ \A r \in Requests : Queued(r)' => Queued(r)
<1>1. ASSUME NEW o \in Owners
      PROVE  /\ Len(down[o]) \in Nat /\ Len(down'[o]) \in Nat
             /\ \E k \in {0, 1} : /\ Len(down'[o]) + k <= Len(down[o])
                                  /\ \A i \in 1..Len(down'[o]) : down'[o][i] = down[o][i + k]
  <2>1. down[o] \in Seq(Requests) /\ down'[o] \in Seq(Requests)
    BY DEF QueuesInv
  <2>2. QED
    BY <2>1 DEF QueueShorter, Shorter
<1>2. ASSUME NEW o \in Owners, o # appConn' PROVE down'[o] = << >>
  <2>1. CASE appConn' # appConn
    BY <2>1 DEF QueueShorter
  <2>2. CASE appConn' = appConn
    <3>1. down[o] = << >> /\ Len(down[o]) = 0
      BY <1>2, <2>2 DEF OneQueue
    <3>2. Len(down'[o]) = 0
      BY <1>1, <3>1
    <3>3. down'[o] \in Seq(Requests)
      BY DEF QueuesInv
    <3>4. QED
      BY <3>2, <3>3
  <2>3. QED
    BY <2>1, <2>2
<1>3. ASSUME NEW o \in Owners, NEW i \in 1..Len(down'[o]), NEW j \in 1..Len(down'[o]),
             down'[o][i] = down'[o][j]
      PROVE  i = j
  <2>1. PICK k \in {0, 1} : /\ Len(down'[o]) + k <= Len(down[o])
                            /\ \A x \in 1..Len(down'[o]) : down'[o][x] = down[o][x + k]
    BY <1>1
  <2>2. i + k \in 1..Len(down[o]) /\ j + k \in 1..Len(down[o])
    BY <1>1, <2>1
  <2>3. i + k = j + k
    BY <1>3, <2>1, <2>2 DEF OneQueue
  <2>4. QED
    BY <2>1, <2>3
<1>4. ASSUME NEW r \in Requests, Queued(r)' PROVE Queued(r)
  <2>1. PICK o \in Owners : \E i \in 1..Len(down'[o]) : down'[o][i] = r
    BY <1>4 DEF Queued
  <2>2. PICK i \in 1..Len(down'[o]) : down'[o][i] = r
    BY <2>1
  <2>3. PICK k \in {0, 1} : /\ Len(down'[o]) + k <= Len(down[o])
                            /\ \A x \in 1..Len(down'[o]) : down'[o][x] = down[o][x + k]
    BY <1>1
  <2>4. i + k \in 1..Len(down[o]) /\ down[o][i + k] = r
    BY <1>1, <2>2, <2>3
  <2>5. QED
    BY <2>4 DEF Queued
<1>5. QED
  BY <1>2, <1>3, <1>4 DEF OneQueue

\* The first of the queue, once read, and the last, once withdrawn.
LEMMA ReadIsGone ==
    ASSUME QueuesInv, QueuesInv', OneQueue, NEW o \in Owners, down[o] # << >>,
           NEW r \in Requests,
           \/ r = Head(down[o]) /\ down' = [down EXCEPT ![o] = Tail(@)]
           \/ r = Last(down[o]) /\ down' = [down EXCEPT ![o] = Front(@)],
           UNCHANGED appConn
    PROVE  QueueShorter /\ Queued(r) /\ ~Queued(r)'
<1>1. down \in [Owners -> Seq(Requests)] /\ down[o] \in Seq(Requests) /\ o = appConn
  BY DEF QueuesInv, OneQueue
<1>2. /\ \A x \in Owners : x # o => down'[x] = down[x]
      /\ down'[o] \in {Tail(down[o]), Front(down[o])}
  BY <1>1
<1>3. \A x \in Owners : x # o => Shorter(down'[x], down[x]) /\ Len(down'[x]) = 0
  <2>1. \A x \in Owners : x # o => down'[x] = << >> /\ down[x] = << >>
    BY <1>1, <1>2 DEF OneQueue
  <2>2. Len(<< >>) = 0
    OBVIOUS
  <2>3. QED
    BY <2>1, <2>2 DEF Shorter
<1>4. /\ Shorter(down'[o], down[o])
      /\ \E i \in 1..Len(down[o]) : down[o][i] = r
      /\ \A i \in 1..Len(down'[o]) : down'[o][i] # r
  <2>1. CASE r = Head(down[o]) /\ down' = [down EXCEPT ![o] = Tail(@)]
    <3>1. down'[o] = Tail(down[o])
      BY <1>1, <2>1
    <3>2. QED
      BY <1>1, <2>1, <3>1, FirstGone DEF OneQueue
  <2>2. CASE r = Last(down[o]) /\ down' = [down EXCEPT ![o] = Front(@)]
    <3>1. down'[o] = Front(down[o])
      BY <1>1, <2>2
    <3>2. QED
      BY <1>1, <2>2, <3>1, LastGone DEF OneQueue
  <2>3. QED
    BY <2>1, <2>2
<1>5. QueueShorter
  BY <1>3, <1>4 DEF QueueShorter
<1>6. Queued(r)
  BY <1>4 DEF Queued
<1>7. ~Queued(r)'
  BY <1>3, <1>4 DEF Queued
<1>8. QED
  BY <1>5, <1>6, <1>7

\* A request sent for the first time joins the queue.
LEMMA QueueGrows ==
    ASSUME QueuesInv, OneQueue, NEW r \in Requests, QueueLonger(r), ~Queued(r)
    PROVE  /\ OneQueue'
           /\ \A s \in Requests : Queued(s)' => Queued(s) \/ s = r
<1>1. PICK o \in Owners : o = appConn /\ down' = [down EXCEPT ![o] = Append(@, r)]
  BY DEF QueueLonger
<1>2. down \in [Owners -> Seq(Requests)] /\ down[o] \in Seq(Requests) /\ UNCHANGED appConn
  BY DEF QueuesInv, QueueLonger
<1>3. /\ \A x \in Owners : x # o => down'[x] = down[x]
      /\ down'[o] = Append(down[o], r)
  BY <1>1, <1>2
<1>4. /\ Len(down[o]) \in Nat /\ Len(down'[o]) = Len(down[o]) + 1
      /\ down'[o][Len(down[o]) + 1] = r
      /\ \A i \in 1..Len(down[o]) : down'[o][i] = down[o][i]
  BY <1>2, <1>3
<1>5. \A i \in 1..Len(down[o]) : down[o][i] # r
  BY DEF Queued
<1>6. \A i \in 1..Len(down'[o]) : i = Len(down[o]) + 1 \/ i \in 1..Len(down[o])
  BY <1>4
<1>7. OneQueue'
  <2>1. \A x \in Owners : x # appConn' => down'[x] = << >>
    BY <1>1, <1>2, <1>3 DEF OneQueue
  <2>2. ASSUME NEW i \in 1..Len(down'[o]), NEW j \in 1..Len(down'[o]), down'[o][i] = down'[o][j]
        PROVE  i = j
    <3>1. \A k \in 1..Len(down[o]) : down'[o][k] # r
      BY <1>4, <1>5
    <3>2. CASE i = Len(down[o]) + 1 \/ j = Len(down[o]) + 1
      BY <1>4, <1>6, <2>2, <3>1, <3>2
    <3>3. CASE i \in 1..Len(down[o]) /\ j \in 1..Len(down[o])
      <4>1. down[o][i] = down[o][j]
        BY <1>4, <2>2, <3>3
      <4>2. QED
        BY <3>3, <4>1 DEF OneQueue
    <3>4. QED
      BY <1>6, <3>2, <3>3
  <2>3. \A x \in Owners : \A i, j \in 1..Len(down'[x]) : down'[x][i] = down'[x][j] => i = j
    BY <1>3, <2>2 DEF OneQueue
  <2>4. QED
    BY <2>1, <2>3 DEF OneQueue
<1>8. ASSUME NEW s \in Requests, Queued(s)', s # r PROVE Queued(s)
  <2>1. PICK x \in Owners : \E i \in 1..Len(down'[x]) : down'[x][i] = s
    BY <1>8 DEF Queued
  <2>2. CASE x = o
    BY <1>4, <1>6, <1>8, <2>1, <2>2 DEF Queued
  <2>3. CASE x # o
    BY <1>3, <2>1, <2>3 DEF Queued
  <2>4. QED
    BY <2>2, <2>3
<1>9. QED
  BY <1>7, <1>8

\* What a step may do with the requests: a queued one may be lost, or come to
\* its gate, and one at a gate may be used up; a new one may be queued.
RequestsMove ==
    /\ \A r \in Requests : Used(r) =>
          Used(r)' /\ req'[r].pause = req[r].pause /\ req'[r].action = req[r].action
    /\ \A r \in Requests : Travels(r) =>
          Travels(r)' \/ (Queued(r) /\ ~Queued(r)' /\ UNCHANGED <<gate, up>>)
QueuesMove ==
    \A r \in Requests : Queued(r)' =>
        Queued(r) \/ (~Used(r) /\ Travels(r)' /\ UNCHANGED <<gate, up>>)
SeatsMove ==
    /\ \A p \in Pauses, r \in Requests : gate'[p].by = r =>
          gate[p].by = r \/ (Queued(r) /\ ~Queued(r)' /\ req[r].pause = p)
    /\ \A p \in Pauses, r \in Requests : gate'[p].by = r /\ gate'[p].st = "released" =>
          gate'[p] = gate[p] \/ gate'[p].action = req[r].action
RefusalsMove ==
    /\ \A r \in Requests : TurnedDown(r)' =>
          TurnedDown(r) \/ ((Queued(r) \/ AtAGate(r)) /\ ~Queued(r)' /\ ~AtAGate(r)')
    /\ \A i \in 1..Len(up'), r \in Requests :
          i > Len(up) /\ up'[i].type = "refused" /\ up'[i].req = r =>
              Used(r) /\ req[r].pause = up'[i].pause

\* The registry's part.
LEMMA RequestsMoved == RaceInv /\ QueuesInv' /\ OneQueue /\ [Next]_vars => RequestsMove
<1> SUFFICES ASSUME RaceInv, QueuesInv', OneQueue, [Next]_vars PROVE RequestsMove
  OBVIOUS
<1>1. ASSUME NEW r \in Requests, Used(r)
      PROVE  Used(r)' /\ req'[r].pause = req[r].pause /\ req'[r].action = req[r].action
  BY <1>1, AskedStays DEF Kept
<1>2. ASSUME NEW r \in Requests, Travels(r)
      PROVE  Travels(r)' \/ (Queued(r) /\ ~Queued(r)' /\ UNCHANGED <<gate, up>>)
  <2>1. AnswersFrom(r) /\ Used(r)'
    BY <1>1, <1>2, Outcomes DEF Travels, Used
  <2>2. ASSUME NEW o \in Owners, HubSendFails(o), r = Last(down[o])
        PROVE  Queued(r) /\ ~Queued(r)' /\ UNCHANGED <<gate, up>>
    <3>1. /\ down[o] # << >> /\ down' = [down EXCEPT ![o] = Front(@)]
          /\ UNCHANGED <<gate, up, appConn>>
      BY <2>2 DEF HubSendFails, appVars
    <3>2. QED
      BY <2>2, <3>1, ReadIsGone DEF RaceInv, AppInv
  <2>3. CASE req'[r].outcome \notin {"unused", "send-failed"}
    BY <2>3 DEF Travels
  <2>4. CASE req'[r].outcome = "send-failed"
    BY <1>2, <2>1, <2>2, <2>4 DEF AnswersFrom, Travels, Silent
  <2>5. QED
    BY <2>1, <2>3, <2>4 DEF Used
<1>3. QED
  BY <1>1, <1>2 DEF RequestsMove

\* The sockets' part: a queue of the application's is emptied, read or
\* withdrawn from, or a new request is sent.
LEMMA QueuesMoved ==
    RaceInv /\ QueuesInv' /\ OneQueue /\ SeatInv /\ [Next]_vars => QueuesMove /\ OneQueue'
<1> SUFFICES ASSUME RaceInv, QueuesInv', OneQueue, SeatInv, [Next]_vars
             PROVE  QueuesMove /\ OneQueue'
  OBVIOUS
<1>0. QueuesInv /\ down \in [Owners -> Seq(Requests)] /\ appConn \in Owners \cup {None}
  BY DEF RaceInv, AppInv, QueuesInv, LinksInv
<1>1. CASE QueueShorter
  BY <1>0, <1>1, QueueShrinks DEF QueuesMove
<1>2. ASSUME NEW r \in Requests, QueueLonger(r) PROVE QueuesMove /\ OneQueue'
  <2>1. ~Used(r) /\ Travels(r)' /\ UNCHANGED <<gate, up>>
    BY <1>2 DEF QueueLonger
  <2>2. ~Queued(r)
    BY <2>1 DEF SeatInv, Travels, Used
  <2>3. OneQueue' /\ \A s \in Requests : Queued(s)' => Queued(s) \/ s = r
    BY <1>0, <1>2, <2>2, QueueGrows
  <2>4. QED
    BY <2>1, <2>3 DEF QueuesMove
<1>3. \A o \in Owners : /\ Shorter(down[o], down[o])
                        /\ Shorter(<< >>, down[o])
  <2> SUFFICES ASSUME NEW o \in Owners PROVE Shorter(down[o], down[o]) /\ Shorter(<< >>, down[o])
    OBVIOUS
  <2>1. Len(down[o]) \in Nat /\ Len(<< >>) = 0
    BY <1>0
  <2>2. /\ Len(down[o]) + 0 <= Len(down[o])
        /\ \A i \in 1..Len(down[o]) : down[o][i] = down[o][i + 0]
    BY <2>1
  <2>3. QED
    BY <2>1, <2>2 DEF Shorter
<1>4. CASE UNCHANGED <<down, appConn>>
  BY <1>1, <1>3, <1>4 DEF QueueShorter
<1>5. ASSUME NEW o \in Owners, AppAttaches(o) PROVE QueuesMove /\ OneQueue'
  <2>1. \A x \in Owners : down[x] = << >>
    BY <1>5, RegistryAssumption DEF AppAttaches, OneQueue
  <2>2. QED
    BY <1>1, <1>3, <1>5, <2>1 DEF QueueShorter, AppAttaches
<1>6. CASE AppDetaches
  <2>1. appConn \in Owners /\ down' = [down EXCEPT ![appConn] = << >>]
    BY <1>0, <1>6 DEF AppDetaches
  <2>2. \A x \in Owners : down'[x] = << >>
    BY <1>0, <2>1 DEF OneQueue
  <2>3. QED
    BY <1>1, <1>3, <2>2 DEF QueueShorter
<1>7. CASE AppReads
  <2>1. /\ appConn \in Owners /\ down[appConn] # << >> /\ UNCHANGED appConn
        /\ down' = [down EXCEPT ![appConn] = Tail(@)]
    BY <1>0, <1>7 DEF AppReads
  <2>2. Head(down[appConn]) \in Requests
    BY <1>0, <2>1
  <2>3. QueueShorter
    BY <1>0, <2>1, <2>2, ReadIsGone
  <2>4. QED
    BY <1>1, <2>3
<1>8. ASSUME NEW o \in Owners, HubSendFails(o) PROVE QueuesMove /\ OneQueue'
  <2>1. /\ down[o] # << >> /\ UNCHANGED appConn
        /\ down' = [down EXCEPT ![o] = Front(@)]
    BY <1>8 DEF HubSendFails, appVars
  <2>2. Last(down[o]) \in Requests
    <3>1. down[o] \in Seq(Requests)
      BY <1>0
    <3>2. QED
      BY <2>1, <3>1, LastGone
  <2>3. QueueShorter
    BY <1>0, <2>1, <2>2, ReadIsGone
  <2>4. QED
    BY <1>1, <2>3
<1>9. ASSUME NEW o \in Owners, HubLoses(o) PROVE QueuesMove /\ OneQueue'
  <2>1. down' = [down EXCEPT ![o] = << >>] /\ UNCHANGED appConn
    BY <1>9 DEF HubLoses, appVars
  <2>2. \A x \in Owners : down'[x] \in {down[x], << >>}
    BY <1>0, <2>1
  <2>3. QED
    BY <1>1, <1>3, <2>1, <2>2 DEF QueueShorter
<1>10. ASSUME NEW r \in Requests, NEW p \in Pauses, NEW o \in Owners, NEW a \in Actions,
             NEW delivered \in BOOLEAN, HubForwards(r, p, o, a, delivered)
      PROVE  QueuesMove /\ OneQueue'
  <2>1. /\ UNCHANGED <<appConn, gate, up>> /\ Begin(r, p, o, a, delivered)
        /\ down' = IF delivered /\ o = appConn THEN [down EXCEPT ![o] = Append(@, r)] ELSE down
    BY <1>10 DEF HubForwards, appVars
  <2>2. /\ req[r].outcome = "unused"
        /\ req'[r].outcome \in {"pending", "no-answer", "app-disconnected"}
    BY <2>1, BeginAnswers DEF RaceInv, RegistryInv, IndInv
  <2>3. CASE delivered /\ o = appConn
    <3>1. QueueLonger(r)
      BY <2>1, <2>2, <2>3 DEF QueueLonger, Used, Travels
    <3>2. QED
      BY <1>2, <3>1
  <2>4. CASE ~(delivered /\ o = appConn)
    BY <1>4, <2>1, <2>4
  <2>5. QED
    BY <2>3, <2>4
<1>11. QED
  BY <1>4, <1>5, <1>6, <1>7, <1>8, <1>9, <1>10
     DEF Next, vars, appVars, AppPauses, AppVerdict, AppLetsGo, AppRunFinishes,
         HubStores, HubTimers

\* Steps that turn nothing down and bring no request to a gate.
LEMMA PlainSteps ==
    ASSUME LogGrows, \A i \in 1..Len(up') : i > Len(up) => up'[i].type # "refused",
           \A p \in Pauses : \/ gate'[p] = gate[p]
                             \/ gate'[p].by = None
                             \/ /\ gate'[p].by = gate[p].by
                                /\ gate'[p].st = "released" => gate'[p].action = req[gate[p].by].action
    PROVE  SeatsMove /\ RefusalsMove
<1>1. \A r \in Requests : r # None
  BY RegistryAssumption
<1>2. SeatsMove
  BY <1>1 DEF SeatsMove
<1>3. ASSUME NEW r \in Requests, TurnedDown(r)' PROVE TurnedDown(r)
  <2>1. PICK i \in 1..Len(up') : up'[i].type = "refused" /\ up'[i].req = r
    BY <1>3 DEF TurnedDown
  <2>2. i \in 1..Len(up) /\ up'[i] = up[i]
    BY <2>1 DEF LogGrows
  <2>3. QED
    BY <2>1, <2>2 DEF TurnedDown
<1>4. QED
  BY <1>2, <1>3 DEF RefusalsMove

\* The log of a step that leaves it alone, or that adds anything but a refusal.
LEMMA NoRefusal ==
    ASSUME LogInv
    PROVE  /\ UNCHANGED up => LogGrows /\ \A i \in 1..Len(up') : i > Len(up) => up'[i].type # "refused"
           /\ \A e : Told(e) /\ e.type # "refused" /\ up' = Append(up, e) =>
                 LogGrows /\ \A i \in 1..Len(up') : i > Len(up) => up'[i].type # "refused"
<1>1. ASSUME UNCHANGED up
      PROVE  LogGrows /\ \A i \in 1..Len(up') : i > Len(up) => up'[i].type # "refused"
  <2>1. Len(up) \in Nat /\ \A i \in 1..Len(up) : ~(i > Len(up))
    BY DEF LogInv
  <2>2. QED
    BY <1>1, <2>1 DEF LogGrows
<1>2. ASSUME NEW e, Told(e), e.type # "refused", up' = Append(up, e)
      PROVE  LogGrows /\ \A i \in 1..Len(up') : i > Len(up) => up'[i].type # "refused"
  BY <1>2, OneMore
<1>3. QED
  BY <1>1, <1>2

\* A gate lets a request through that is for it.
LEMMA ReleaseMoves ==
    ASSUME GatesInv, LogInv, NEW p \in Pauses, NEW r \in Requests \cup {None}, NEW a \in Actions,
           Releases(p, r, a),
           r # None => a = req[r].action /\ (gate[p].by = r \/ (Queued(r) /\ ~Queued(r)' /\ req[r].pause = p))
    PROVE  SeatsMove /\ RefusalsMove
<1> DEFINE e == Event("resumed", p, Echo(r), a)
<1>1. gate' = [gate EXCEPT ![p] = [st |-> "released", by |-> r, action |-> a]] /\ up' = Append(up, e)
  BY DEF Releases
<1>2. Told(e) /\ e.type = "resumed"
  <2>1. Echo(r) \in Requests \cup {None}
    BY DEF Echo
  <2>2. QED
    BY <2>1, EventsTold DEF Event
<1> HIDE DEF e
<1>3. LogGrows /\ \A i \in 1..Len(up') : i > Len(up) => up'[i].type # "refused"
  BY <1>1, <1>2, NoRefusal
<1>4. /\ gate'[p].by = r /\ gate'[p].action = a
      /\ \A q \in Pauses : q # p => gate'[q] = gate[q]
  BY <1>1 DEF GatesInv
<1>5. CASE r = None
  BY <1>3, <1>4, <1>5, PlainSteps
<1>6. CASE r # None
  <2>1. SeatsMove
    BY <1>4, <1>6 DEF SeatsMove
  <2>2. RefusalsMove
    <3>1. ASSUME NEW s \in Requests, TurnedDown(s)' PROVE TurnedDown(s)
      <4>1. PICK i \in 1..Len(up') : up'[i].type = "refused" /\ up'[i].req = s
        BY <3>1 DEF TurnedDown
      <4>2. i \in 1..Len(up) /\ up'[i] = up[i]
        BY <1>3, <4>1 DEF LogGrows
      <4>3. QED
        BY <4>1, <4>2 DEF TurnedDown
    <3>2. QED
      BY <1>3, <3>1 DEF RefusalsMove
  <2>3. QED
    BY <2>1, <2>2
<1>7. QED
  BY <1>5, <1>6

\* A gate turns down a request that is for it.
LEMMA RefuseMoves ==
    ASSUME RaceInv, SeatInv, echoes, NEW p \in Pauses, NEW r \in Requests, Refuses(p, r),
           req[r].pause = p, ~Queued(r)', Queued(r) \/ gate[p].by = r
    PROVE  SeatsMove /\ RefusalsMove
<1> DEFINE e == Event("refused", p, Echo(r), "continue")
<1>0. GatesInv /\ LogInv /\ r # None
  BY RegistryAssumption DEF RaceInv, AppInv
<1>1. gate' = [gate EXCEPT ![p].st = "held", ![p].by = None] /\ up' = Append(up, e)
  BY DEF Refuses
<1>2. Told(e) /\ e.req = r /\ e.pause = p
  <2>1. Echo(r) = r
    BY DEF Echo
  <2>2. QED
    BY <2>1, EventsTold, RaceAssumption DEF Event
<1> HIDE DEF e
<1>3. LogGrows /\ \A i \in 1..Len(up') : i > Len(up) => up'[i] = e
  BY <1>0, <1>1, <1>2, OneMore
<1>4. /\ gate'[p].by = None
      /\ \A q \in Pauses : q # p => gate'[q] = gate[q]
  BY <1>0, <1>1 DEF GatesInv, Gates
<1>5. Used(r) /\ (Queued(r) \/ AtAGate(r))
  BY DEF SeatInv, Travels, Used, AtAGate
<1>6. ~AtAGate(r)'
  BY <1>0, <1>4 DEF SeatInv, AtAGate
<1>7. ASSUME NEW s \in Requests, TurnedDown(s)', s # r PROVE TurnedDown(s)
  <2>1. PICK i \in 1..Len(up') : up'[i].type = "refused" /\ up'[i].req = s
    BY <1>7 DEF TurnedDown
  <2>2. i \in 1..Len(up) /\ up'[i] = up[i]
    BY <1>2, <1>3, <1>7, <2>1 DEF LogGrows
  <2>3. QED
    BY <2>1, <2>2 DEF TurnedDown
<1>8. SeatsMove
  <2>1. \A s \in Requests : s # None
    BY RegistryAssumption
  <2>2. QED
    BY <1>4, <2>1 DEF SeatsMove
<1>9. RefusalsMove
  <2>1. \A s \in Requests : TurnedDown(s)' =>
          TurnedDown(s) \/ ((Queued(s) \/ AtAGate(s)) /\ ~Queued(s)' /\ ~AtAGate(s)')
    BY <1>5, <1>6, <1>7
  <2>2. \A i \in 1..Len(up'), s \in Requests :
          i > Len(up) /\ up'[i].type = "refused" /\ up'[i].req = s =>
              Used(s) /\ req[s].pause = up'[i].pause
    BY <1>2, <1>3, <1>5
  <2>3. QED
    BY <2>1, <2>2 DEF RefusalsMove
<1>10. QED
  BY <1>8, <1>9

\* The application's part.
LEMMA SeatsMoved ==
    RaceInv /\ QueuesInv' /\ StoryInv /\ OneQueue /\ SeatInv /\ [Next]_vars
        => SeatsMove /\ RefusalsMove
<1> SUFFICES ASSUME RaceInv, QueuesInv', StoryInv, OneQueue, SeatInv, [Next]_vars
             PROVE  SeatsMove /\ RefusalsMove
  OBVIOUS
<1>0. /\ GatesInv /\ LogInv /\ LinksInv /\ QueuesInv
      /\ \A r \in Requests : req[r].pause \in Pauses /\ req[r].action \in Actions
  BY DEF RaceInv, AppInv, RegistryInv, IndInv, RequestInv, Reqs
<1>2. CASE UNCHANGED <<gate, up>>
  BY <1>0, <1>2, NoRefusal, PlainSteps
<1>3. ASSUME NEW p \in Pauses, AppPauses(p) PROVE SeatsMove /\ RefusalsMove
  <2> DEFINE e == Event("paused", p, None, "continue")
  <2>1. gate' = [gate EXCEPT ![p].st = "held"] /\ up' = Append(up, e)
    BY <1>3 DEF AppPauses
  <2>2. Told(e) /\ e.type = "paused"
    BY EventsTold, RaceAssumption DEF Event
  <2>3. /\ gate'[p].st = "held" /\ gate'[p].by = gate[p].by
        /\ \A q \in Pauses : q # p => gate'[q] = gate[q]
    BY <1>0, <2>1 DEF GatesInv, Gates
  <2> HIDE DEF e
  <2>4. LogGrows /\ \A i \in 1..Len(up') : i > Len(up) => up'[i].type # "refused"
    BY <1>0, <2>1, <2>2, NoRefusal
  <2>5. QED
    BY <2>3, <2>4, PlainSteps
<1>4. ASSUME NEW p \in Pauses, AppVerdict(p) PROVE SeatsMove /\ RefusalsMove
  <2>1. PICK r : r = gate[p].by
    OBVIOUS
  <2>2. /\ gate[p].st = "validating" /\ (Releases(p, r, req[r].action) \/ Refuses(p, r))
        /\ UNCHANGED down
    BY <1>4, <2>1 DEF AppVerdict
  <2>3. r \in Requests /\ echoes
    BY <1>0, <2>1, <2>2 DEF GatesInv, StoryInv
  <2>4. req[r].pause = p /\ ~Queued(r)
    BY <2>1, <2>3 DEF SeatInv, AtAGate
  <2>5. ~Queued(r)'
    BY <2>2, <2>4 DEF Queued
  <2>6. QED
    BY <1>0, <2>1, <2>2, <2>3, <2>4, <2>5, ReleaseMoves, RefuseMoves
<1>5. ASSUME NEW p \in Pauses, AppLetsGo(p) PROVE SeatsMove /\ RefusalsMove
  BY <1>0, <1>5, ReleaseMoves, RaceAssumption DEF AppLetsGo
<1>6. CASE AppDetaches
  <2>1. LogGrows /\ \A i \in 1..Len(up') : i > Len(up) => up'[i].type # "refused"
    <3>1. UNCHANGED echoes
      BY <1>6 DEF AppDetaches
    <3>2. QED
      BY <1>0, <1>6, <3>1, DetachAdvances DEF Advance
  <2>2. \A p \in Pauses : gate'[p] = gate[p] \/ gate'[p].by = None
    BY <1>6 DEF AppDetaches
  <2>3. QED
    BY <2>1, <2>2, PlainSteps
<1>7. CASE AppReads
  <2>1. PICK r, p : r = Head(down[appConn]) /\ p = req[r].pause
    OBVIOUS
  <2>2. /\ down \in [Owners -> Seq(Requests)] /\ appConn \in Owners
        /\ down[appConn] \in Seq(Requests) /\ down[appConn] # << >>
        /\ down' = [down EXCEPT ![appConn] = Tail(@)] /\ UNCHANGED appConn
    BY <1>0, <1>7 DEF AppReads, LinksInv, QueuesInv
  <2>3. r \in Requests /\ p \in Pauses /\ req[r].action \in Actions /\ r # None
    BY <1>0, <2>1, <2>2, RegistryAssumption
  <2>4. \/ UNCHANGED <<gate, up>>
        \/ gate[p].st = "held" /\ Releases(p, r, req[r].action)
        \/ gate[p].st = "held" /\ echoes /\ Refuses(p, r)
        \/ /\ gate[p].st = "held" /\ echoes /\ UNCHANGED up
           /\ gate' = [gate EXCEPT ![p].st = "validating", ![p].by = r]
    BY <1>7, <2>1 DEF AppReads
  <2>5. Queued(r) /\ ~Queued(r)'
    BY <1>0, <2>1, <2>2, <2>3, ReadIsGone
  <2>6. CASE Releases(p, r, req[r].action)
    BY <1>0, <2>1, <2>3, <2>5, <2>6, ReleaseMoves
  <2>7. CASE echoes /\ Refuses(p, r)
    BY <2>1, <2>3, <2>5, <2>7, RefuseMoves
  <2>8. CASE UNCHANGED up /\ gate' = [gate EXCEPT ![p].st = "validating", ![p].by = r]
    <3>1. /\ gate'[p].st = "validating" /\ gate'[p].by = r
          /\ \A q \in Pauses : q # p => gate'[q] = gate[q]
      BY <1>0, <2>3, <2>8 DEF GatesInv, Gates
    <3>2. SeatsMove
      BY <2>1, <2>5, <3>1 DEF SeatsMove
    <3>3. LogGrows /\ \A i \in 1..Len(up') : i > Len(up) => up'[i].type # "refused"
      BY <1>0, <2>8, NoRefusal
    <3>4. RefusalsMove
      BY <2>8, <3>3 DEF RefusalsMove, TurnedDown
    <3>5. QED
      BY <3>2, <3>4
  <2>9. QED
    BY <1>2, <2>4, <2>6, <2>7, <2>8
<1>8. CASE AppRunFinishes
  <2> DEFINE e == Event("finished", None, None, "continue")
  <2>1. up' = Append(up, e) /\ UNCHANGED gate
    BY <1>8 DEF AppRunFinishes
  <2>2. Told(e) /\ e.type = "finished"
    BY EventsTold, RaceAssumption DEF Told, Event, Events
  <2> HIDE DEF e
  <2>3. LogGrows /\ \A i \in 1..Len(up') : i > Len(up) => up'[i].type # "refused"
    BY <1>0, <2>1, <2>2, NoRefusal
  <2>4. QED
    BY <2>1, <2>3, PlainSteps
<1>9. QED
  BY <1>2, <1>3, <1>4, <1>5, <1>6, <1>7, <1>8
     DEF Next, vars, appVars, AppAttaches, HubStores, HubLoses, HubSendFails, HubForwards, HubTimers

\* So every request stays in its one place.
LEMMA SeatStep ==
    ASSUME RequestsMove, QueuesMove, SeatsMove, RefusalsMove, LogGrows, SeatInv, QueuesInv
    PROVE  SeatInv'
<1>1. ASSUME NEW r \in Requests, Queued(r)' PROVE Travels(r)' /\ ~AtAGate(r)' /\ ~TurnedDown(r)'
  <2>1. CASE Queued(r)
    <3>1. Travels(r) /\ ~AtAGate(r) /\ ~TurnedDown(r)
      BY <2>1 DEF SeatInv
    <3>2. Travels(r)'
      BY <1>1, <3>1 DEF RequestsMove
    <3>3. ~AtAGate(r)'
      BY <1>1, <3>1 DEF SeatsMove, AtAGate
    <3>4. ~TurnedDown(r)'
      BY <1>1, <3>1 DEF RefusalsMove
    <3>5. QED
      BY <3>2, <3>3, <3>4
  <2>2. CASE ~Queued(r)
    <3>1. ~Used(r) /\ Travels(r)' /\ UNCHANGED <<gate, up>>
      BY <1>1, <2>2 DEF QueuesMove
    <3>2. ~AtAGate(r) /\ ~TurnedDown(r)
      BY <3>1 DEF SeatInv, AtAGate, TurnedDown, Travels, Used
    <3>3. QED
      BY <3>1, <3>2 DEF AtAGate, TurnedDown
  <2>3. QED
    BY <2>1, <2>2
<1>2. ASSUME NEW p \in Pauses, NEW r \in Requests, gate'[p].by = r
      PROVE  /\ Travels(r)' /\ req'[r].pause = p /\ ~TurnedDown(r)'
             /\ gate'[p].st = "released" => gate'[p].action = req'[r].action
  <2>1. AtAGate(r)'
    BY <1>2 DEF AtAGate
  <2>2. /\ Travels(r) /\ req[r].pause = p /\ ~TurnedDown(r)
        /\ gate[p].by = r \/ (Queued(r) /\ ~AtAGate(r))
    BY <1>2 DEF SeatsMove, SeatInv
  <2>3. Travels(r)'
    <3> SUFFICES ASSUME Queued(r), UNCHANGED gate PROVE FALSE
      BY <2>2 DEF RequestsMove
    <3>1. AtAGate(r)
      BY <1>2 DEF AtAGate
    <3>2. QED
      BY <3>1 DEF SeatInv
  <2>4. Used(r)
    BY <2>2 DEF Travels, Used
  <2>5. req'[r].pause = p /\ req'[r].action = req[r].action
    BY <2>2, <2>4 DEF RequestsMove
  <2>6. ~TurnedDown(r)'
    BY <2>1, <2>2 DEF RefusalsMove
  <2>7. ASSUME gate'[p].st = "released" PROVE gate'[p].action = req'[r].action
    <3>1. CASE gate'[p] = gate[p]
      BY <1>2, <2>5, <2>7, <3>1 DEF SeatInv
    <3>2. CASE gate'[p] # gate[p]
      BY <1>2, <2>5, <2>7, <3>2 DEF SeatsMove
    <3>3. QED
      BY <3>1, <3>2
  <2>8. QED
    BY <2>3, <2>5, <2>6, <2>7
<1>3. ASSUME NEW i \in 1..Len(up'), NEW r \in Requests, up'[i].type = "refused", up'[i].req = r
      PROVE  Used(r)' /\ req'[r].pause = up'[i].pause
  <2>1. Used(r) /\ req[r].pause = up'[i].pause
    <3>1. CASE i > Len(up)
      BY <1>3, <3>1 DEF RefusalsMove
    <3>2. CASE ~(i > Len(up))
      <4>1. i \in 1..Len(up) /\ up'[i] = up[i]
        BY <3>2 DEF LogGrows
      <4>2. QED
        BY <1>3, <4>1 DEF SeatInv
    <3>3. QED
      BY <3>1, <3>2
  <2>2. QED
    BY <2>1 DEF RequestsMove
<1>4. QED
  BY <1>1, <1>2, <1>3 DEF SeatInv

-----------------------------------------------------------------------------
(* What the hub makes of the log.                                          *)

\* The event the hub stores in this step, and what it tells.
LEMMA StoredEvent ==
    ASSUME RaceInv, StoryInv, NEW o \in Owners, HubStores(o)
    PROVE  LET e == up[stored + 1] IN
           /\ stored \in Nat /\ stored' = stored + 1 /\ stored + 1 \in 1..Len(up)
           /\ e \in Events /\ (e.type # "finished" => e.pause \in Pauses)
           /\ Tells(e, gate, echoes)
           /\ UNCHANGED <<gate, up, echoes, appConn, sent>>
<1>1. up \in Seq(Events) /\ stored \in 0..Len(up) /\ Len(up) \in Nat /\ sent[o] \in 0..Len(up)
  BY DEF RaceInv, AppInv, LogInv, LinksInv
<1>2. stored < Reaches(o) /\ Reaches(o) \in {Len(up), sent[o]}
  BY DEF HubStores, Reaches
<1>3. stored \in Nat /\ stored + 1 \in 1..Len(up)
  BY <1>1, <1>2
<1>4. up[stored + 1] \in Events
  BY <1>1, <1>3
<1>5. QED
  BY <1>3, <1>4 DEF HubStores, appVars, StoryInv, RaceInv, AppInv, LogInv

\* Nothing is stored but by handleIngestFrame, and what is stays.
LEMMA StoredGrows ==
    ASSUME RaceInv, [Next]_vars
    PROVE  stored \in 0..Len(up) /\ (stored' = stored \/ \E o \in Owners : HubStores(o))
BY DEF RaceInv, AppInv, LinksInv, Next, vars, appVars, AppAttaches, AppDetaches, AppReads, AppRunFinishes,
       AppPauses, AppVerdict, AppLetsGo, HubLoses, HubSendFails, HubForwards, HubTimers

\* The answers, for a client that echoes: resumed means that the gate went by
\* this request, superseded that it did not, refused that the log says so.
AnswerInv ==
    echoes => \A r \in Requests :
        /\ req[r].outcome = "resumed" =>
              gate[req[r].pause].st = "released" /\ gate[req[r].pause].by = r
        /\ req[r].outcome = "superseded" =>
              gate[req[r].pause].st = "released" /\ gate[req[r].pause].by # r
        /\ req[r].outcome = "refused" =>
              \E i \in 1..stored : up[i].type = "refused" /\ up[i].req = r

\* The answers stay true: a released gate does not change, and what is stored
\* is true of the gates.
LEMMA AnswerStep ==
    ASSUME RaceInv, StoryInv, AnswerInv, [Next]_vars, GatesMove, LogGrows, UNCHANGED echoes
    PROVE  AnswerInv'
<1> SUFFICES ASSUME echoes, NEW r \in Requests
             PROVE  /\ req'[r].outcome = "resumed" =>
                          gate'[req'[r].pause].st = "released" /\ gate'[req'[r].pause].by = r
                    /\ req'[r].outcome = "superseded" =>
                          gate'[req'[r].pause].st = "released" /\ gate'[req'[r].pause].by # r
                    /\ req'[r].outcome = "refused" =>
                          \E i \in 1..stored' : up'[i].type = "refused" /\ up'[i].req = r
  BY DEF AnswerInv
<1>0. /\ RequestInv /\ req[r].pause \in Pauses /\ \A p \in Pauses : gate[p].st = "released" => gate'[p] = gate[p]
      /\ r # None
  BY RegistryAssumption DEF RaceInv, RegistryInv, IndInv, RequestInv, Reqs, GatesMove
<1>1. CASE req'[r].outcome = req[r].outcome
  <2>1. CASE ~Used(r)
    BY <1>1, <2>1 DEF Used
  <2>2. CASE Used(r)
    <3>1. req'[r].pause = req[r].pause
      BY <2>2, AskedStays DEF Kept
    <3>2. ASSUME NEW i \in 1..stored PROVE i \in 1..stored' /\ up'[i] = up[i]
      <4>1. /\ stored \in 0..Len(up) /\ Len(up) \in Nat
            /\ stored' = stored \/ stored' = stored + 1
        BY StoredGrows, StoredEvent DEF LogGrows
      <4>2. QED
        BY <4>1 DEF LogGrows
    <3>3. QED
      BY <1>0, <1>1, <3>1, <3>2 DEF AnswerInv
  <2>3. QED
    BY <2>1, <2>2
<1>2. CASE req'[r].outcome \in Silent \cup {"send-failed"}
  BY <1>2 DEF Silent
<1>3. ASSUME NEW o \in Owners, HubStores(o), req'[r].outcome # req[r].outcome,
             req'[r].outcome \notin Silent \cup {"send-failed"}
      PROVE  /\ req'[r].outcome = "resumed" =>
                          gate'[req'[r].pause].st = "released" /\ gate'[req'[r].pause].by = r
             /\ req'[r].outcome = "superseded" =>
                          gate'[req'[r].pause].st = "released" /\ gate'[req'[r].pause].by # r
             /\ req'[r].outcome = "refused" =>
                          \E i \in 1..stored' : up'[i].type = "refused" /\ up'[i].req = r
  <2> DEFINE e == up[stored + 1]
  <2>1. /\ stored \in Nat /\ stored' = stored + 1 /\ stored + 1 \in 1..Len(up)
        /\ e \in Events /\ (e.type # "finished" => e.pause \in Pauses)
        /\ Tells(e, gate, echoes)
        /\ UNCHANGED <<gate, up, echoes>>
    BY <1>3, StoredEvent
  <2>2. \/ /\ e.type = "resumed" /\ req'[r].outcome = "resumed"
           /\ r = Correlate(e.pause, e.req, echoes, e.action)
        \/ /\ e.type = "resumed" /\ req'[r].outcome = "superseded" /\ r \in Waiting
           /\ req[r].pause = e.pause /\ r # Correlate(e.pause, e.req, echoes, e.action)
        \/ e.type = "refused" /\ req'[r].outcome = "refused" /\ r = RefusedRequest(e.pause, e.req)
    BY <1>3, Outcomes DEF AnswersFrom
  <2> HIDE DEF e
  <2>3. CASE /\ e.type = "resumed" /\ req'[r].outcome = "resumed"
             /\ r = Correlate(e.pause, e.req, echoes, e.action)
    <3>1. e.req = r /\ r \in Remembered /\ req[r].pause = e.pause
      BY <1>0, <2>3 DEF Correlate
    <3>2. Used(r)
      BY <1>0, <3>1 DEF Remembered, RequestInv, Used
    <3>3. req'[r].pause = e.pause
      BY <3>1, <3>2, AskedStays DEF Kept
    <3>4. QED
      BY <2>1, <2>3, <3>1, <3>3 DEF Tells
  <2>4. CASE /\ e.type = "resumed" /\ req'[r].outcome = "superseded" /\ r \in Waiting
             /\ req[r].pause = e.pause /\ r # Correlate(e.pause, e.req, echoes, e.action)
    <3>1. e.req # r
      BY <1>0, <2>4 DEF Correlate, Waiting
    <3>2. Used(r)
      BY <2>4 DEF Waiting, Used
    <3>3. req'[r].pause = e.pause
      BY <2>4, <3>2, AskedStays DEF Kept
    <3>4. QED
      BY <2>1, <2>4, <3>1, <3>3 DEF Tells
  <2>5. CASE e.type = "refused" /\ req'[r].outcome = "refused" /\ r = RefusedRequest(e.pause, e.req)
    <3>1. e.req \in Requests /\ e.req # None
      BY <2>1, <2>5, RegistryAssumption DEF Tells
    <3>2. r = Correlate(e.pause, e.req, FALSE, None)
      BY <2>5, <3>1 DEF RefusedRequest
    <3>3. e.req = r
      BY <1>0, <3>1, <3>2 DEF Correlate
    <3>4. stored + 1 \in 1..stored' /\ up'[stored + 1] = e
      BY <2>1 DEF e
    <3>5. QED
      BY <2>5, <3>3, <3>4
  <2>6. QED
    BY <2>2, <2>3, <2>4, <2>5
<1>4. QED
  BY <1>1, <1>2, <1>3, Outcomes DEF AnswersFrom

-----------------------------------------------------------------------------
(* Who a release is credited to.                                           *)

\* No request was dropped from the map to make room (MAX_REQUESTS).
NothingForgotten == \A r \in Requests : Used(r) => req[r].held

ResumedStored(p) == \E i \in 1..stored : up[i].type = "resumed" /\ up[i].pause = p
CreditInv ==
    \A p \in Pauses : ResumedStored(p) =>
        IF echoes THEN NothingForgotten => credit[p] = gate[p].by
        ELSE credit[p] # None => /\ Used(credit[p]) /\ req[credit[p]].pause = p
                                 /\ req[credit[p]].action = gate[p].action

\* A guess is a request for this pause that asked for what the app did.
LEMMA GuessAgrees ==
    ASSUME RequestInv, NEW p, NEW action \in Actions, NEW r, r = Guess(p, action), r # None
    PROVE  r \in Requests /\ Used(r) /\ req[r].pause = p /\ req[r].action = action
<1> DEFINE candidates == {s \in Requests : Matches(s, p, action)}
<1>1. r \in candidates
  BY NewestIsOne DEF Guess
<1>2. action # None
  BY RegistryAssumption
<1>3. QED
  BY <1>1, <1>2 DEF Matches, Used

\* Credit is given once, with the release, and stays.
LEMMA CreditedOnce ==
    ASSUME RaceInv, StoryInv, SeatInv, CreditInv, [Next]_vars, GatesMove, LogGrows, RequestsMove,
           UNCHANGED echoes
    PROVE  CreditInv'
<1> SUFFICES ASSUME NEW p \in Pauses, ResumedStored(p)'
             PROVE  IF echoes THEN NothingForgotten' => credit'[p] = gate'[p].by
                    ELSE credit'[p] # None => /\ req'[credit'[p]].outcome # "unused"
                                              /\ req'[credit'[p]].pause = p
                                              /\ req'[credit'[p]].action = gate'[p].action
  BY DEF CreditInv, Used
<1>0. /\ RequestInv /\ up \in Seq(Events) /\ gate \in [Pauses -> Gates]
      /\ credit \in [Pauses -> Requests \cup {None}]
  BY DEF RaceInv, RegistryInv, IndInv, AppInv, LogInv, LinksInv, GatesInv
<1>1. NothingForgotten' => NothingForgotten
  <2> SUFFICES ASSUME NothingForgotten', NEW r \in Requests, Used(r) PROVE req[r].held
    BY DEF NothingForgotten
  <2>1. Kept(req[r], req'[r]) /\ Used(r)'
    BY AskedStays
  <2>2. req'[r].held
    BY <2>1 DEF NothingForgotten
  <2>3. QED
    BY <2>1, <2>2 DEF Kept
<1>2. ASSUME ResumedStored(p), UNCHANGED gate \/ gate'[p] = gate[p], credit'[p] = credit[p]
      PROVE  IF echoes THEN NothingForgotten' => credit'[p] = gate'[p].by
                    ELSE credit'[p] # None => /\ req'[credit'[p]].outcome # "unused"
                                              /\ req'[credit'[p]].pause = p
                                              /\ req'[credit'[p]].action = gate'[p].action
  BY <1>0, <1>1, <1>2 DEF CreditInv, RequestsMove, Used
<1>3. ASSUME ResumedStored(p) PROVE gate'[p] = gate[p]
  <2>1. PICK i \in 1..stored : up[i].type = "resumed" /\ up[i].pause = p
    BY <1>3 DEF ResumedStored
  <2>2. i \in 1..Len(up)
    BY StoredGrows DEF LogGrows
  <2>3. gate[p].st = "released"
    BY <2>1, <2>2 DEF StoryInv, Tells
  <2>4. QED
    BY <2>3 DEF GatesMove
<1>4. CASE stored' = stored /\ credit' = credit
  <2>1. ResumedStored(p)
    <3>1. \A i \in 1..stored : up'[i] = up[i]
      BY StoredGrows DEF LogGrows
    <3>2. QED
      BY <1>4, <3>1 DEF ResumedStored
  <2>2. QED
    BY <1>2, <1>3, <1>4, <2>1
<1>5. ASSUME NEW o \in Owners, HubStores(o)
      PROVE  IF echoes THEN NothingForgotten' => credit'[p] = gate'[p].by
                    ELSE credit'[p] # None => /\ req'[credit'[p]].outcome # "unused"
                                              /\ req'[credit'[p]].pause = p
                                              /\ req'[credit'[p]].action = gate'[p].action
  <2> DEFINE e == up[stored + 1]
             by == Correlate(e.pause, e.req, echoes, e.action)
  <2>1. /\ stored \in Nat /\ stored' = stored + 1 /\ stored + 1 \in 1..Len(up)
        /\ e \in Events /\ (e.type # "finished" => e.pause \in Pauses)
        /\ Tells(e, gate, echoes)
        /\ UNCHANGED <<gate, up, echoes>>
    BY <1>5, StoredEvent
  <2>2. \/ e.type # "resumed" /\ credit' = credit
        \/ e.type = "resumed" /\ credit' = [credit EXCEPT ![e.pause] = by]
    BY <1>5 DEF HubStores
  <2>3. CASE e.type = "resumed" /\ e.pause = p
    <3>1. /\ gate[p].st = "released" /\ e.action = gate[p].action
          /\ e.req = IF echoes THEN gate[p].by ELSE None
      BY <2>1, <2>3 DEF Tells
    <3>2. credit'[p] = by
      BY <1>0, <2>2, <2>3
    <3>3. e.action \in Actions
      BY <2>1 DEF Events
    <3>4. CASE echoes
      <4>1. SUFFICES ASSUME NothingForgotten PROVE by = gate[p].by
        BY <1>1, <2>1, <3>2, <3>4
      <4>2. CASE gate[p].by = None
        BY <3>1, <3>4, <4>2 DEF Correlate
      <4>3. CASE gate[p].by # None
        <5>1. gate[p].by \in Requests
          BY <1>0, <4>3 DEF Gates
        <5>2. Used(gate[p].by) /\ req[gate[p].by].pause = p
          BY <5>1 DEF SeatInv, Travels, Used
        <5>3. gate[p].by \in Remembered
          BY <4>1, <5>1, <5>2 DEF NothingForgotten, Remembered
        <5>4. QED
          BY <2>3, <3>1, <3>4, <4>3, <5>2, <5>3 DEF Correlate
      <4>4. QED
        BY <4>2, <4>3
    <3>5. CASE ~echoes
      <4>1. SUFFICES ASSUME by # None
                     PROVE  /\ req'[by].outcome # "unused" /\ req'[by].pause = p
                            /\ req'[by].action = gate[p].action
        BY <2>1, <3>2, <3>5
      <4>2. by = Guess(p, e.action)
        BY <2>3, <3>1, <3>5 DEF Correlate
      <4> HIDE DEF by, e
      <4>3. by \in Requests /\ Used(by) /\ req[by].pause = p /\ req[by].action = e.action
        BY <1>0, <3>3, <4>1, <4>2, GuessAgrees
      <4>4. QED
        BY <3>1, <4>3 DEF RequestsMove, Used
    <3>6. QED
      BY <3>4, <3>5
  <2>4. CASE ~(e.type = "resumed" /\ e.pause = p)
    <3>1. credit'[p] = credit[p]
      BY <1>0, <2>1, <2>2, <2>4
    <3>2. PICK i \in 1..stored' : up'[i].type = "resumed" /\ up'[i].pause = p
      BY DEF ResumedStored
    <3>3. i \in 1..stored /\ up[i].type = "resumed" /\ up[i].pause = p
      BY <2>1, <2>4, <3>2
    <3>4. ResumedStored(p)
      BY <3>3 DEF ResumedStored
    <3>5. QED
      BY <1>2, <1>3, <3>1, <3>4
  <2>5. QED
    BY <2>3, <2>4
<1>6. QED
  <2>1. (stored' = stored /\ credit' = credit) \/ \E o \in Owners : HubStores(o)
    BY DEF Next, vars, appVars, AppAttaches, AppDetaches, AppReads, AppRunFinishes,
       AppPauses, AppVerdict, AppLetsGo, HubLoses, HubSendFails, HubForwards, HubTimers
  <2>2. QED
    BY <1>4, <1>5, <2>1

-----------------------------------------------------------------------------
(* What the hub lists.                                                     *)

\* An open gate belongs to the connection the application is attached by: it
\* was announced since the last one was left.
OpenInv ==
    \A p \in Pauses : IsOpen(p) =>
        /\ appConn # None
        /\ \A i \in 1..Len(up), o \in Owners :
              up[i].type = "paused" /\ up[i].pause = p => i > sent[o]
        /\ Tracked(p) => entry[p].owner = appConn

\* A listed pause was announced and its release is not stored; one known to be
\* closed was announced, too, and is not held.
ListInv ==
    \A p \in Pauses :
        /\ Tracked(p) => gate[p].st # "none" /\ ~ResumedStored(p)
        /\ p \in closed => gate[p].st # "none"
        /\ IsOpen(p) /\ Attached /\ ~RunFinishStored => p \notin closed

\* A gate opens in AppPauses alone, and handleDetached leaves none open.
LEMMA OpensByPausing ==
    ASSUME RaceInv, [Next]_vars, NEW p \in Pauses, IsOpen(p)'
    PROVE  /\ IsOpen(p) \/ (AppPauses(p) /\ gate[p].st = "none")
           /\ ~AppDetaches
<1>0. gate \in [Pauses -> Gates]
  BY DEF RaceInv, AppInv, GatesInv
<1>1. ~AppDetaches
  BY <1>0 DEF AppDetaches, IsOpen
<1>2. CASE UNCHANGED gate
  BY <1>1, <1>2 DEF IsOpen
<1>3. ASSUME NEW q \in Pauses, AppPauses(q) PROVE IsOpen(p) \/ (AppPauses(p) /\ gate[p].st = "none")
  BY <1>0, <1>3 DEF AppPauses, IsOpen
<1>4. ASSUME NEW q, gate[q].st \in {"held", "validating"}, \A x \in Pauses : x # q => gate'[x] = gate[x]
      PROVE  IsOpen(p)
  BY <1>4 DEF IsOpen
<1>5. ASSUME NEW q \in Pauses, AppVerdict(q) \/ AppLetsGo(q) PROVE IsOpen(p)
  <2>1. gate[q].st \in {"held", "validating"} /\ \A x \in Pauses : x # q => gate'[x] = gate[x]
    BY <1>0, <1>5 DEF AppVerdict, AppLetsGo, Releases, Refuses, IsOpen
  <2>2. QED
    BY <1>4, <2>1
<1>6. ASSUME AppReads, ~UNCHANGED gate PROVE IsOpen(p)
  <2>1. PICK q : q = req[Head(down[appConn])].pause
    OBVIOUS
  <2>2. gate[q].st = "held" /\ \A x \in Pauses : x # q => gate'[x] = gate[x]
    BY <1>0, <1>6, <2>1 DEF AppReads, Releases, Refuses
  <2>3. QED
    BY <1>4, <2>2
<1>7. QED
  BY <1>1, <1>2, <1>3, <1>5, <1>6
     DEF Next, vars, appVars, AppAttaches, AppRunFinishes,
         HubStores, HubLoses, HubSendFails, HubForwards, HubTimers

\* The registry's entries, seen from the race: a pause is listed, for the
\* connection that brought it, with its exec.paused, and not with any other's.
LEMMA ListedBy ==
    ASSUME RaceInv, [Next]_vars, NEW p \in Pauses, entry'[p].owner # None
    PROVE  /\ \/ entry'[p].owner = entry[p].owner
              \/ \E o \in Owners : /\ HubStores(o) /\ entry'[p].owner = o
                                   /\ up[stored + 1].type = "paused" /\ up[stored + 1].pause = p
           /\ \A o \in Owners : HubStores(o) =>
                 ~(up[stored + 1].type = "resumed" /\ up[stored + 1].pause = p)
<1>0. entry \in [Pauses -> Entries] /\ NoEntry.owner = None
  BY DEF RaceInv, RegistryInv, IndInv, CountInv, EntriesType, NoEntry
<1>1. ASSUME NEW S, RemoveEntries(S) PROVE entry'[p].owner = entry[p].owner /\ p \notin S
  BY <1>0, <1>1 DEF RemoveEntries
<1>2. ASSUME NEW o \in Owners, HubStores(o)
      PROVE  /\ \/ entry'[p].owner = entry[p].owner
                \/ /\ entry'[p].owner = o
                   /\ up[stored + 1].type = "paused" /\ up[stored + 1].pause = p
             /\ ~(up[stored + 1].type = "resumed" /\ up[stored + 1].pause = p)
  <2> DEFINE e == up[stored + 1]
  <2>1. \/ e.type = "paused" /\ Open(o, e.pause)
        \/ e.type = "resumed" /\ RemoveEntries({e.pause})
        \/ e.type = "refused" /\ Refused(e.pause, e.req)
        \/ e.type = "finished" /\ \E S : RemoveEntries(S)
    BY <1>2 DEF HubStores, Resumed, ResumedEntries, CloseRun
  <2> HIDE DEF e
  <2>2. CASE e.type = "paused" /\ Open(o, e.pause)
    <3>1. entry' \in {[entry EXCEPT ![e.pause] = NoEntry],
                      [entry EXCEPT ![e.pause] = [owner |-> o, resolving |-> None]]}
      BY <2>2 DEF Open
    <3>2. CASE p = e.pause
      BY <1>0, <2>2, <3>1, <3>2 DEF e
    <3>3. CASE p # e.pause
      BY <1>0, <2>2, <3>1, <3>3 DEF e
    <3>4. QED
      BY <3>2, <3>3
  <2>3. CASE e.type = "resumed" /\ RemoveEntries({e.pause})
    BY <1>1, <2>3 DEF e
  <2>4. CASE e.type = "refused" /\ Refused(e.pause, e.req)
    BY <1>0, <2>4 DEF Refused, Entries, e
  <2>5. CASE e.type = "finished" /\ \E S : RemoveEntries(S)
    BY <1>1, <2>5 DEF e
  <2>6. QED
    BY <2>1, <2>2, <2>3, <2>4, <2>5
<1>3. (\E o \in Owners : HubStores(o)) \/ entry'[p].owner = entry[p].owner
  <2>1. CASE UNCHANGED entry
    BY <2>1
  <2>2. ASSUME NEW o \in Owners, HubLoses(o) PROVE entry'[p].owner = entry[p].owner
    BY <1>0, <2>2 DEF HubLoses, CloseOwner
  <2>3. ASSUME NEW o \in Owners, HubSendFails(o) PROVE entry'[p].owner = entry[p].owner
    BY <1>0, <2>3 DEF HubSendFails, Abort, Entries
  <2>4. ASSUME NEW r \in Requests, NEW q \in Pauses, NEW o \in Owners, NEW a \in Actions,
             NEW delivered \in BOOLEAN, HubForwards(r, q, o, a, delivered)
        PROVE  entry'[p].owner = entry[p].owner
    <3>1. entry' \in {entry, [entry EXCEPT ![q].resolving = r]}
      BY <2>4 DEF HubForwards, Begin
    <3>2. QED
      BY <1>0, <3>1 DEF Entries
  <2>5. ASSUME HubTimers PROVE entry'[p].owner = entry[p].owner
    BY <1>0, <2>5 DEF HubTimers, ResolvingTimeout, Reopen, Deadline, Entries
  <2>6. QED
    BY <2>1, <2>2, <2>3, <2>4, <2>5
       DEF Next, vars, registryVars, AppAttaches, AppDetaches, AppReads, AppRunFinishes,
           AppPauses, AppVerdict, AppLetsGo
<1>4. QED
  BY <1>2, <1>3

\* The keys known to be closed: a stored release, a stored end of the run, or
\* a lost connection puts them there.
LEMMA ClosedBy ==
    ASSUME RaceInv, [Next]_vars, NEW p \in Pauses, p \in closed'
    PROVE  \/ p \in closed
           \/ \E o \in Owners : /\ HubStores(o)
                                /\ up[stored + 1].type = "resumed" /\ up[stored + 1].pause = p
           \/ \E o \in Owners : /\ HubStores(o) /\ Tracked(p)
                                /\ up[stored + 1].type = "finished"
           \/ \E o \in Owners : HubLoses(o) /\ Tracked(p) /\ entry[p].owner = o
<1>1. ASSUME NEW S, MarkClosed(S) PROVE p \in closed \/ p \in S
  BY <1>1, MarkedClosed
<1>2. ASSUME NEW o \in Owners, HubStores(o)
      PROVE  \/ p \in closed
             \/ up[stored + 1].type = "resumed" /\ up[stored + 1].pause = p
             \/ up[stored + 1].type = "finished" /\ Tracked(p)
  <2> DEFINE e == up[stored + 1]
  <2>1. \/ e.type = "paused" /\ Open(o, e.pause)
        \/ e.type = "resumed" /\ MarkClosed({e.pause})
        \/ e.type = "refused" /\ UNCHANGED closed
        \/ e.type = "finished" /\ \E run \in Runs : MarkClosed({q \in Pauses : Tracked(q) /\ RunOf[q] = run})
    BY <1>2 DEF HubStores, Resumed, Refused, CloseRun
  <2>2. CASE e.type = "paused" /\ Open(o, e.pause)
    BY <2>2 DEF Open, Forget
  <2>3. CASE e.type = "resumed" /\ MarkClosed({e.pause})
    BY <1>1, <2>3
  <2>4. CASE e.type = "finished" /\ \E run \in Runs : MarkClosed({q \in Pauses : Tracked(q) /\ RunOf[q] = run})
    BY <1>1, <2>4
  <2>5. QED
    BY <2>1, <2>2, <2>3, <2>4
<1>3. ASSUME NEW o \in Owners, HubLoses(o) PROVE p \in closed \/ (Tracked(p) /\ entry[p].owner = o)
  BY <1>1, <1>3, RegistryAssumption DEF HubLoses, CloseOwner, EntriesOf, Tracked
<1>4. CASE UNCHANGED closed
  BY <1>4
<1>5. ASSUME NEW r \in Requests, NEW q \in Pauses, NEW o \in Owners, NEW a \in Actions,
             NEW delivered \in BOOLEAN, HubForwards(r, q, o, a, delivered)
      PROVE  UNCHANGED closed
  BY <1>5 DEF HubForwards, Begin
<1>6. ASSUME NEW o \in Owners, HubSendFails(o) PROVE UNCHANGED closed
  BY <1>6 DEF HubSendFails, Abort
<1>7. ASSUME HubTimers PROVE UNCHANGED closed
  BY <1>7 DEF HubTimers, ResolvingTimeout, Deadline
<1>8. (\E o \in Owners : HubStores(o)) \/ (\E o \in Owners : HubLoses(o)) \/ UNCHANGED closed
  BY <1>5, <1>6, <1>7
     DEF Next, vars, registryVars, AppAttaches, AppDetaches, AppReads, AppRunFinishes,
         AppPauses, AppVerdict, AppLetsGo
<1>9. QED
  BY <1>2, <1>3, <1>4, <1>8

\* The application and its connection stay attached while a gate is open.
LEMMA StaysAttached ==
    ASSUME RaceInv, OpenInv, [Next]_vars, NEW p \in Pauses, IsOpen(p)'
    PROVE  /\ appConn \in Owners /\ UNCHANGED <<appConn, sent>>
           /\ hubConn'[appConn] = "live" =>
                 hubConn[appConn] = "live" /\ ~HubLoses(appConn)
<1>0. appConn \in Owners \cup {None} /\ hubConn \in [Owners -> {"new", "live", "dead"}]
  BY DEF RaceInv, AppInv, LinksInv
<1>1. (IsOpen(p) \/ AppPauses(p)) /\ ~AppDetaches
  BY OpensByPausing
<1>2. appConn # None
  BY <1>1 DEF OpenInv, AppPauses
<1>3. UNCHANGED <<appConn, sent>>
  BY <1>1, <1>2
     DEF Next, vars, appVars, AppAttaches, AppReads, AppRunFinishes,
         AppPauses, AppVerdict, AppLetsGo, HubStores, HubLoses, HubSendFails, HubForwards, HubTimers
<1>4. UNCHANGED hubConn \/ \E o \in Owners : hubConn' = [hubConn EXCEPT ![o] = "dead"]
  BY <1>1, <1>2
     DEF Next, vars, appVars, AppAttaches, AppReads, AppRunFinishes,
         AppPauses, AppVerdict, AppLetsGo, HubStores, HubLoses, HubSendFails, HubForwards, HubTimers
<1>5. hubConn'[appConn] = "live" => hubConn[appConn] = "live"
  BY <1>0, <1>2, <1>4
<1>6. HubLoses(appConn) => hubConn'[appConn] = "dead"
  BY <1>0, <1>2 DEF HubLoses
<1>7. QED
  BY <1>0, <1>2, <1>3, <1>5, <1>6

\* What was true of the open gates stays true.
LEMMA OpenStep ==
    ASSUME RaceInv, StoryInv, OpenInv, ListInv, [Next]_vars, LogGrows PROVE OpenInv'
<1> SUFFICES ASSUME NEW p \in Pauses, IsOpen(p)'
             PROVE  /\ appConn' # None
                    /\ \A i \in 1..Len(up'), o \in Owners :
                          up'[i].type = "paused" /\ up'[i].pause = p => i > sent'[o]
                    /\ entry'[p].owner # None => entry'[p].owner = appConn'
  BY DEF OpenInv, Tracked
<1>1. appConn \in Owners /\ UNCHANGED <<appConn, sent>>
  BY StaysAttached
<1>2. IsOpen(p) \/ (AppPauses(p) /\ gate[p].st = "none")
  BY OpensByPausing
<1>3. appConn' # None
  BY <1>1, RegistryAssumption
<1>4. ASSUME NEW i \in 1..Len(up'), NEW o \in Owners, up'[i].type = "paused", up'[i].pause = p
      PROVE  i > sent'[o]
  <2>1. CASE i > Len(up)
    <3>1. sent[o] \in 0..Len(up) /\ Len(up) \in Nat
      BY DEF RaceInv, AppInv, LinksInv, LogGrows
    <3>2. QED
      BY <1>1, <2>1, <3>1
  <2>2. CASE ~(i > Len(up))
    <3>1. i \in 1..Len(up) /\ up'[i] = up[i]
      BY <2>2 DEF LogGrows
    <3>2. gate[p].st # "none"
      BY <1>4, <3>1 DEF StoryInv, Tells
    <3>3. QED
      BY <1>1, <1>2, <1>4, <3>1, <3>2 DEF OpenInv
  <2>3. QED
    BY <2>1, <2>2
<1>5. ASSUME entry'[p].owner # None PROVE entry'[p].owner = appConn'
  <2>1. CASE entry'[p].owner = entry[p].owner
    <3>1. Tracked(p)
      BY <1>5, <2>1 DEF Tracked
    <3>2. IsOpen(p)
      BY <1>2, <3>1 DEF ListInv
    <3>3. QED
      BY <1>1, <2>1, <3>1, <3>2 DEF OpenInv
  <2>2. ASSUME NEW o \in Owners, HubStores(o), entry'[p].owner = o,
               up[stored + 1].type = "paused", up[stored + 1].pause = p
        PROVE  o = appConn
    <3>1. stored + 1 \in 1..Len(up) /\ stored \in Nat /\ UNCHANGED gate
      BY <2>2, StoredEvent
    <3>2. IsOpen(p)
      BY <3>1 DEF IsOpen
    <3>3. stored + 1 > sent[o]
      BY <2>2, <3>1, <3>2 DEF OpenInv
    <3>4. sent[o] \in Nat
      BY DEF RaceInv, AppInv, LinksInv
    <3>5. stored < Reaches(o)
      BY <2>2 DEF HubStores
    <3>6. QED
      BY <3>1, <3>3, <3>4, <3>5 DEF Reaches
  <2>3. QED
    BY <1>1, <1>5, <2>1, <2>2, ListedBy
<1>6. QED
  BY <1>3, <1>4, <1>5

\* And of the list.
LEMMA ListStep ==
    ASSUME RaceInv, StoryInv, OpenInv, ListInv, [Next]_vars, GatesMove, LogGrows PROVE ListInv'
<1> SUFFICES ASSUME NEW p \in Pauses
             PROVE  /\ entry'[p].owner # None => gate'[p].st # "none" /\ ~ResumedStored(p)'
                    /\ p \in closed' => gate'[p].st # "none"
                    /\ IsOpen(p)' /\ Attached' /\ ~RunFinishStored' => p \notin closed'
  BY DEF ListInv, Tracked
<1>0. /\ gate[p].st # "none" => gate'[p].st # "none"
      /\ Len(up) \in Nat /\ stored \in 0..Len(up)
      /\ \A i \in 1..stored : up'[i] = up[i] /\ i \in 1..Len(up)
      /\ stored' = stored \/ \E o \in Owners : HubStores(o)
  BY StoredGrows DEF GatesMove, LogGrows
<1>1. ASSUME NEW o \in Owners, HubStores(o)
      PROVE  LET e == up[stored + 1] IN
             /\ stored' = stored + 1 /\ stored \in Nat /\ stored + 1 \in 1..Len(up)
             /\ UNCHANGED <<gate, up>> /\ Tells(e, gate, echoes)
  BY <1>1, StoredEvent
<1>2. ASSUME entry'[p].owner # None PROVE gate'[p].st # "none" /\ ~ResumedStored(p)'
  <2>1. CASE entry'[p].owner = entry[p].owner
    <3>1. gate[p].st # "none" /\ ~ResumedStored(p)
      BY <1>2, <2>1 DEF ListInv, Tracked
    <3>2. ~ResumedStored(p)'
      <4>1. CASE stored' = stored
        BY <1>0, <3>1, <4>1 DEF ResumedStored
      <4>2. ASSUME NEW o \in Owners, HubStores(o) PROVE ~ResumedStored(p)'
        <5>1. ~(up[stored + 1].type = "resumed" /\ up[stored + 1].pause = p)
          BY <1>2, <4>2, ListedBy
        <5>2. stored' = stored + 1 /\ stored \in Nat /\ up' = up
          BY <1>1, <4>2
        <5>3. \A i \in 1..stored' : i \in 1..stored \/ i = stored + 1
          BY <5>2
        <5>4. QED
          BY <3>1, <5>1, <5>2, <5>3 DEF ResumedStored
      <4>3. QED
        BY <1>0, <4>1, <4>2
    <3>3. QED
      BY <1>0, <3>1, <3>2
  <2>2. ASSUME NEW o \in Owners, HubStores(o), up[stored + 1].type = "paused",
               up[stored + 1].pause = p
        PROVE  gate'[p].st # "none" /\ ~ResumedStored(p)'
    <3>1. /\ stored' = stored + 1 /\ stored \in Nat /\ stored + 1 \in 1..Len(up) /\ up' = up
          /\ Tells(up[stored + 1], gate, echoes)
      BY <1>1, <2>2
    <3>2. gate[p].st # "none"
      BY <2>2, <3>1 DEF Tells
    <3>3. ASSUME NEW i \in 1..stored', up[i].type = "resumed", up[i].pause = p PROVE FALSE
      <4>1. i \in 1..Len(up)
        BY <1>0, <3>1
      <4>2. stored + 1 <= i
        BY <2>2, <3>1, <3>3, <4>1 DEF StoryInv
      <4>3. i = stored + 1
        BY <3>1, <4>2
      <4>4. QED
        BY <2>2, <3>3, <4>3
    <3>4. QED
      BY <1>0, <3>1, <3>2, <3>3 DEF ResumedStored
  <2>3. QED
    BY <1>2, <2>1, <2>2, ListedBy
<1>3. ASSUME p \in closed' PROVE gate[p].st # "none"
  BY <1>1, <1>3, ClosedBy DEF ListInv, Tells
<1>4. ASSUME IsOpen(p)', Attached', ~RunFinishStored', p \in closed' PROVE FALSE
  <2>1. /\ appConn \in Owners /\ appConn' = appConn
        /\ hubConn[appConn] = "live" /\ ~HubLoses(appConn)
    BY <1>4, StaysAttached DEF Attached
  <2>2. IsOpen(p)
    BY <1>3, <1>4, OpensByPausing
  <2>3. CASE p \in closed
    <3>1. Attached
      BY <2>1, RegistryAssumption DEF Attached
    <3>2. RunFinishStored
      BY <2>2, <2>3, <3>1 DEF ListInv
    <3>3. PICK i \in 1..stored : up[i].type = "finished"
      BY <3>2 DEF RunFinishStored
    <3>4. i \in 1..stored' /\ up'[i].type = "finished"
      BY <1>0, <1>1, <3>3
    <3>5. QED
      BY <1>4, <3>4 DEF RunFinishStored
  <2>4. ASSUME NEW o \in Owners, HubStores(o), up[stored + 1].type = "resumed",
               up[stored + 1].pause = p
        PROVE  FALSE
    <3>1. Tells(up[stored + 1], gate, echoes)
      BY <1>1, <2>4
    <3>2. QED
      BY <2>2, <2>4, <3>1 DEF Tells, IsOpen
  <2>5. ASSUME NEW o \in Owners, HubStores(o), up[stored + 1].type = "finished" PROVE FALSE
    <3>1. stored + 1 \in 1..stored' /\ up'[stored + 1].type = "finished"
      BY <1>1, <2>5
    <3>2. QED
      BY <1>4, <3>1 DEF RunFinishStored
  <2>6. ASSUME NEW o \in Owners, HubLoses(o), Tracked(p), entry[p].owner = o PROVE FALSE
    <3>1. o = appConn
      BY <2>2, <2>6 DEF OpenInv
    <3>2. QED
      BY <2>1, <2>6, <3>1
  <2>7. QED
    BY <1>4, <2>3, <2>4, <2>5, <2>6, ClosedBy
<1>5. QED
  BY <1>0, <1>2, <1>3, <1>4

-----------------------------------------------------------------------------
(* Fewer requests than the map holds.                                      *)

\* begin() forgets nothing while the map has room.
LEMMA BeginForgetsNothing ==
    ASSUME Cardinality(Requests) <= MaxRequests, RequestInv, NothingForgotten,
           NEW r \in Requests, NEW p \in Pauses, NEW o \in Owners,
           NEW action \in Actions, NEW sent0 \in BOOLEAN, Begin(r, p, o, action, sent0),
           NEW s \in Requests, req'[s].outcome # "unused"
    PROVE  req'[s].held
<1> DEFINE new == New(p, o, action)
           begun == Begun(r, p, o, action)
           asked == Asked(r, p, o, action)
<1>1. req' = [x \in Requests |->
                 IF x \in Evicted(asked) THEN [Settled(asked[x], "no-answer") EXCEPT !.held = FALSE]
                 ELSE IF x = r /\ ~sent0 THEN Settled(asked[x], "app-disconnected")
                 ELSE asked[x]]
  BY BeginSteps
<1>2. asked \in [Requests -> Reqs]
  BY AskedKeeps
<1>3. begun[r] = new /\ new.held /\ new.outcome = "pending" /\ new \in Reqs
      /\ \A x \in Requests : x # r => begun[x] = req[x]
  <2>1. new \in Reqs /\ new.held /\ new.outcome = "pending"
    BY DEF New, Reqs, RequestInv, Tracked
  <2> HIDE DEF new
  <2>2. begun = [req EXCEPT ![r] = new]
    BY DEF Begun, new
  <2>3. QED
    BY <2>1, <2>2 DEF RequestInv
<1>4. asked[s] \in {begun[s], Settled(begun[s], "no-answer")}
  BY DEF Asked
<1>5. Evicted(asked) = {}
  <2>1. Cardinality({x \in Requests : asked[x].held}) <= Cardinality(Requests)
    BY RegistryAssumption, FS_Subset
  <2>2. /\ Cardinality({x \in Requests : asked[x].held}) \in Nat /\ Cardinality(Requests) \in Nat
        /\ MaxRequests \in Nat
    BY RegistryAssumption, FS_Subset, FS_CardinalityType
  <2>3. ~Full(asked)
    BY <2>1, <2>2 DEF Full
  <2>4. QED
    BY <2>3 DEF Evicted
<1> HIDE DEF asked, begun, new
<1>6. \A q \in Reqs : \A a \in {"no-answer", "app-disconnected"} :
         Settled(q, a).held = q.held /\ (q.outcome = "unused" => Settled(q, a) = q)
  BY DEF Settled, Reqs
<1>7. begun[s] \in Reqs /\ asked[s] \in Reqs
  BY <1>2, <1>3 DEF RequestInv
<1>8. req'[s].held = begun[s].held /\ (begun[s].outcome = "unused" => req'[s] = begun[s])
  <2>1. asked[s].held = begun[s].held /\ (begun[s].outcome = "unused" => asked[s] = begun[s])
    BY <1>4, <1>6, <1>7
  <2>2. req'[s] \in {asked[s], Settled(asked[s], "app-disconnected")}
    BY <1>1, <1>5
  <2>3. QED
    BY <1>6, <1>7, <2>1, <2>2
<1>9. begun[s].outcome # "unused"
  BY <1>8
<1>10. QED
  BY <1>3, <1>8, <1>9 DEF NothingForgotten, Used

\* Nothing else does.
LEMMA NoneForgotten ==
    ASSUME Cardinality(Requests) <= MaxRequests, RaceInv, NothingForgotten, [Next]_vars
    PROVE  NothingForgotten'
<1> SUFFICES ASSUME NEW s \in Requests, Used(s)' PROVE req'[s].held
  BY DEF NothingForgotten
<1>1. RequestInv /\ [RegistryNext]_registryVars
  BY StepsAreCalls DEF RaceInv, RegistryInv, IndInv
<1>2. ASSUME Begins PROVE req'[s].held
  BY <1>1, <1>2, BeginForgetsNothing DEF Begins, BegunBy, Used
<1>3. CASE Kept(req[s], req'[s]) /\ req'[s].held = req[s].held
  BY <1>3 DEF Kept, NothingForgotten, Used
<1>4. CASE BegunBy(s)
  BY <1>2, <1>4 DEF Begins
<1>5. QED
  BY <1>1, <1>2, <1>3, <1>4, RequestsKept

-----------------------------------------------------------------------------
(* What the race's callers see.                                            *)

\* The race with the stories its two ends tell.
WholeInv ==
    /\ RaceInv /\ StoryInv /\ OneQueue /\ SeatInv
    /\ AnswerInv /\ CreditInv /\ OpenInv /\ ListInv

LEMMA WholeStarts == Init => WholeInv
<1> SUFFICES ASSUME Init PROVE WholeInv
  OBVIOUS
<1>1. /\ up = << >> /\ Len(up) = 0 /\ stored = 0 /\ closed = {}
      /\ \A o \in Owners : down[o] = << >>
      /\ \A p \in Pauses : gate[p].st = "none" /\ gate[p].by = None /\ entry[p].owner = None
      /\ \A r \in Requests : req[r].outcome = "unused" /\ r # None
  BY RegistryAssumption DEF Init, RegistryInit, NoReq, NoEntry
<1>2. Len(<< >>) = 0
  OBVIOUS
<1>3. StoryInv /\ OneQueue /\ SeatInv
  BY <1>1, <1>2 DEF StoryInv, OneQueue, SeatInv, Queued
<1>4. AnswerInv /\ CreditInv /\ OpenInv /\ ListInv
  BY <1>1 DEF AnswerInv, CreditInv, ResumedStored, OpenInv, IsOpen, ListInv, Tracked
<1>5. QED
  BY <1>3, <1>4, RaceStarts DEF WholeInv

LEMMA WholeStep == WholeInv /\ [Next]_vars => WholeInv'
<1> SUFFICES ASSUME WholeInv, [Next]_vars PROVE WholeInv'
  OBVIOUS
<1>1. /\ RaceInv /\ StoryInv /\ OneQueue /\ SeatInv
      /\ AnswerInv /\ CreditInv /\ OpenInv /\ ListInv
  BY DEF WholeInv
<1>2. RaceInv' /\ StoryInv'
  BY <1>1, RaceStep, StoryStep
<1>3. QueuesInv /\ QueuesInv'
  BY <1>1, <1>2 DEF RaceInv, AppInv
<1>4. UNCHANGED echoes /\ GatesMove /\ LogGrows
  BY <1>1, StepAdvances DEF Advance
<1>5. RequestsMove /\ QueuesMove /\ OneQueue' /\ SeatsMove /\ RefusalsMove
  BY <1>1, <1>3, RequestsMoved, QueuesMoved, SeatsMoved
<1>6. SeatInv'
  BY <1>1, <1>3, <1>4, <1>5, SeatStep
<1>7. AnswerInv' /\ CreditInv'
  BY <1>1, <1>4, <1>5, AnswerStep, CreditedOnce
<1>8. OpenInv' /\ ListInv'
  BY <1>1, <1>4, OpenStep, ListStep
<1>9. QED
  BY <1>2, <1>5, <1>6, <1>7, <1>8 DEF WholeInv

\* The invariant of the race and of what is told in it.
THEOREM WholeInvHolds == Spec => []WholeInv
BY WholeStarts, WholeStep, PTL DEF Spec

\* What an operator is told became of a resume (requestResume) is what became
\* of it in the application, however the resume, the events and the sockets
\* were ordered: resumed released the call with the action asked for, refused
\* and not delivered did not, and superseded means something else did.
THEOREM AnswersAreTrue == Spec => []AnswerIsTrue
<1>1. WholeInv => AnswerIsTrue
  <2> SUFFICES ASSUME WholeInv, echoes, NEW r \in Requests
               PROVE  LET p == req[r].pause IN
                      /\ req[r].outcome = "resumed" => ReleasedBy(p, r) /\ gate[p].action = req[r].action
                      /\ req[r].outcome = "refused" =>
                            ~ReleasedBy(p, r) /\ \E i \in Emitted("refused", p) : i <= stored /\ up[i].req = r
                      /\ req[r].outcome = "superseded" => gate[p].st = "released" /\ gate[p].by # r
                      /\ req[r].outcome = "send-failed" => ~ReleasedBy(p, r)
    BY DEF AnswerIsTrue
  <2>1. SeatInv /\ AnswerInv /\ RaceInv
    BY DEF WholeInv
  <2>2. /\ req[r].pause \in Pauses /\ DOMAIN up = 1..Len(up) /\ Len(up) \in Nat
        /\ stored \in 0..Len(up)
    BY <2>1 DEF RaceInv, AppInv, LogInv, LinksInv, RegistryInv, IndInv, RequestInv, Reqs
  <2>3. ASSUME req[r].outcome = "refused"
        PROVE  /\ ~ReleasedBy(req[r].pause, r)
               /\ \E i \in Emitted("refused", req[r].pause) : i <= stored /\ up[i].req = r
    <3>1. PICK i \in 1..stored : up[i].type = "refused" /\ up[i].req = r
      BY <2>1, <2>3 DEF AnswerInv
    <3>2. i \in 1..Len(up) /\ i <= stored
      BY <2>2
    <3>3. up[i].pause = req[r].pause /\ TurnedDown(r)
      BY <2>1, <3>1, <3>2 DEF SeatInv, TurnedDown
    <3>4. i \in Emitted("refused", req[r].pause)
      BY <2>2, <3>1, <3>2, <3>3 DEF Emitted
    <3>5. QED
      BY <2>1, <2>2, <3>1, <3>2, <3>3, <3>4 DEF SeatInv, ReleasedBy
  <2>4. QED
    BY <2>1, <2>2, <2>3 DEF SeatInv, AnswerInv, ReleasedBy, Travels
<1>2. QED
  BY <1>1, WholeInvHolds, PTL

\* Who a stored exec.resumed is stamped with (correlate()): the one whose
\* resume the application applied, as long as the map forgot no request, and
\* for a client that echoes nothing, always, one who asked for just that.
THEOREM CreditsAreTrue == Spec => [](NothingForgotten \/ ~echoes => CreditIsTrue)
<1>1. WholeInv => (NothingForgotten \/ ~echoes => CreditIsTrue)
  <2> SUFFICES ASSUME WholeInv, NothingForgotten \/ ~echoes, NEW p \in Pauses,
                      NEW i \in Emitted("resumed", p), i <= stored
               PROVE  IF echoes THEN credit[p] = gate[p].by
                      ELSE credit[p] # None =>
                              /\ req[credit[p]].pause = p
                              /\ req[credit[p]].action = gate[p].action
    BY DEF CreditIsTrue
  <2>1. up \in Seq(Events) /\ stored \in 0..Len(up) /\ CreditInv
    BY DEF WholeInv, RaceInv, AppInv, LogInv, LinksInv
  <2>2. i \in 1..stored /\ up[i].type = "resumed" /\ up[i].pause = p
    BY <2>1 DEF Emitted
  <2>3. ResumedStored(p)
    BY <2>2 DEF ResumedStored
  <2>4. QED
    BY <2>1, <2>3 DEF CreditInv
<1>2. QED
  BY <1>1, WholeInvHolds, PTL

\* With fewer requests than the map holds, none is forgotten and every credit
\* is true.
THEOREM CreditsAreTrueWithRoom ==
    ASSUME Cardinality(Requests) <= MaxRequests PROVE Spec => []CreditIsTrue
<1>1. Init => NothingForgotten
  BY DEF Init, RegistryInit, NoReq, NothingForgotten, Used
<1>2. RaceInv /\ NothingForgotten /\ [Next]_vars => NothingForgotten'
  BY NoneForgotten
<1>3. Spec => []NothingForgotten
  BY <1>1, <1>2, RaceInvHolds, PTL DEF Spec
<1>4. QED
  BY <1>3, CreditsAreTrue, PTL

\* The list of held calls (listPauses) has no phantoms, and the call of an
\* attached application is never answered "no longer held" while its run goes
\* on.
THEOREM ListsAreTrue == Spec => []ListIsTrue
<1>1. WholeInv => ListIsTrue
  <2> SUFFICES ASSUME WholeInv, NEW p \in Pauses
               PROVE  /\ Tracked(p) => IsOpen(p) \/ \E i \in Emitted("resumed", p) : i > stored
                      /\ IsOpen(p) /\ Attached /\ ~RunFinishStored => p \notin closed
    BY DEF ListIsTrue
  <2>1. StoryInv /\ ListInv /\ RaceInv
    BY DEF WholeInv
  <2>2. /\ DOMAIN up = 1..Len(up) /\ Len(up) \in Nat /\ stored \in 0..Len(up)
        /\ gate[p].st \in {"none", "held", "validating", "released"}
    BY <2>1 DEF RaceInv, AppInv, LogInv, LinksInv, GatesInv, Gates
  <2>3. ASSUME Tracked(p), ~IsOpen(p) PROVE \E i \in Emitted("resumed", p) : i > stored
    <3>1. gate[p].st = "released" /\ ~ResumedStored(p)
      BY <2>1, <2>2, <2>3 DEF ListInv, IsOpen
    <3>2. PICK i \in 1..Len(up) : up[i].type = "resumed" /\ up[i].pause = p
      BY <2>1, <3>1 DEF StoryInv
    <3>3. i \notin 1..stored
      BY <3>1, <3>2 DEF ResumedStored
    <3>4. i > stored /\ i \in Emitted("resumed", p)
      BY <2>2, <3>2, <3>3 DEF Emitted
    <3>5. QED
      BY <3>4
  <2>4. QED
    BY <2>1, <2>3 DEF ListInv
<1>2. QED
  BY <1>1, WholeInvHolds, PTL
=============================================================================
