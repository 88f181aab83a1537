-------------------------- MODULE LongPolls_proofs --------------------------
(***************************************************************************)
(* Proofs about LongPolls, for any finite sets of callers, any runs and    *)
(* pauses and any two caps: the two slot counters are exact, no poll       *)
(* sleeps through news, and a resume is answered with what became of it.   *)
(*                                                                         *)
(* Every step either wakes some parked polls and leaves the slots alone    *)
(* (Wakes), or moves one caller's request (Set).  The registry is only     *)
(* seen through what a waking step may do to an outcome and to the news.   *)
(***************************************************************************)
EXTENDS LongPolls, FiniteSetTheorems, TLAPS

\* A request that was not recorded has no outcome, a parked one is pending, and
\* one that was told an outcome was told its own, unless it was told nothing
\* because its client was gone or the server closing.
RequestInv ==
    \A c \in Resumers :
        /\ call[c].at \in {"idle", "sent", "parked"} => call[c].reply = "none"
        /\ call[c].at \in {"idle", "sent"} => outcome[c] = "none"
        /\ call[c].at = "parked" => outcome[c] = "pending"
        /\ call[c].reply \in {"429", "busy"} => outcome[c] = "none"
        /\ call[c].reply \in Outcomes =>
              \/ outcome[c] = call[c].reply
              \/ call[c].reply = "no-answer" /\ (server # "up" \/ c \in gone)

\* The inductive invariant.
IInv == TypeOK /\ SlotsAccounted /\ NoSleepThroughNews /\ RequestInv

\* The variables but call and the two counters are well typed.
RestTyped ==
    /\ pause \in [Pauses -> {"unknown", "open", "resolving", "closed"}]
    /\ by \in [Pauses -> Resumers \cup {None}]
    /\ outcome \in [Resumers -> {"none", "pending"} \cup Outcomes]
    /\ status \in [Runs -> {"running", "finished", "abandoned"}]
    /\ owned \subseteq Runs
    /\ due \subseteq Waiters
    /\ exit \in [Waiters -> {"none", "ok", "gone", "timeout", "unreachable"}]
    /\ gone \subseteq Callers
    /\ server \in {"up", "closing", "closed"}

\* Only a request that is pending gets an outcome.
OnlyPending == \A c \in Resumers : outcome[c] # "pending" => outcome'[c] = outcome[c]

\* A step that only wakes parked polls: every resume that is settled, no other
\* one unless its client is gone or the server closing, and every waiter with
\* news.
WakesAll(S) ==
    /\ Wake(S) /\ Answered \subseteq S
    /\ \A c \in S \cap Resumers : outcome'[c] = "pending" => c \in gone' \/ server' # "up"
    /\ \A c \in (Parked \cap Waiters) \ S : ~News(c)'
Wakes ==
    /\ UNCHANGED <<waits, tokenless>>
    /\ OnlyPending /\ gone \subseteq gone' /\ (server' = "up" => server = "up")
    /\ \E S \in SUBSET Parked : WakesAll(S)

-----------------------------------------------------------------------------
(* The slots.                                                              *)

LEMMA HoldingFinite == IsFiniteSet(Holding) /\ IsFiniteSet(Holding \ Tokened)
<1>1. Holding \in SUBSET Callers /\ Holding \ Tokened \in SUBSET Callers
  BY DEF Holding
<1>2. IsFiniteSet(Callers)
  BY PollAssumption
<1>3. QED
  BY <1>1, <1>2, FS_Subset

\* The counters follow the set of the requests that are held.
LEMMA SlotsKept ==
    ASSUME SlotsAccounted, Holding' = Holding, UNCHANGED <<waits, tokenless>>
    PROVE  SlotsAccounted'
BY DEF SlotsAccounted

LEMMA SlotTaken ==
    ASSUME TypeOK, SlotsAccounted, NEW c \in Callers, SlotFree(c), TakeSlot(c),
           c \notin Holding, Holding' = Holding \cup {c}
    PROVE  SlotsAccounted'
<1>1. waits' = Cardinality(Holding') /\ waits' <= MaxWaits
  <2>1. Cardinality(Holding \cup {c}) = Cardinality(Holding) + 1
    BY HoldingFinite, FS_AddElement
  <2>2. waits \in Nat /\ MaxWaits \in Nat
    BY PollAssumption DEF TypeOK
  <2>3. QED
    BY <2>1, <2>2 DEF SlotsAccounted, SlotFree, TakeSlot
<1>2. tokenless' = Cardinality((Holding \ Tokened)') /\ tokenless' <= MaxTokenless
  <2>1. tokenless \in Nat /\ MaxTokenless \in Nat
    BY PollAssumption DEF TypeOK
  <2>2. CASE c \in Tokened
    <3>1. (Holding \ Tokened)' = Holding \ Tokened
      BY <2>2
    <3>2. QED
      BY <2>1, <2>2, <3>1 DEF SlotsAccounted, TakeSlot, Share
  <2>3. CASE c \notin Tokened
    <3>1. (Holding \ Tokened)' = (Holding \ Tokened) \cup {c}
      BY <2>3
    <3>2. Cardinality((Holding \ Tokened) \cup {c}) = Cardinality(Holding \ Tokened) + 1
      BY HoldingFinite, FS_AddElement
    <3>3. QED
      BY <2>1, <2>3, <3>1, <3>2 DEF SlotsAccounted, SlotFree, TakeSlot, Share
  <2>4. QED
    BY <2>2, <2>3
<1>3. QED
  BY <1>1, <1>2 DEF SlotsAccounted

LEMMA SlotFreed ==
    ASSUME TypeOK, SlotsAccounted, NEW c \in Callers, FreeSlot(c),
           c \in Holding, Holding' = Holding \ {c}
    PROVE  SlotsAccounted'
<1>1. waits' = Cardinality(Holding') /\ waits' <= MaxWaits
  <2>1. Cardinality(Holding \ {c}) = Cardinality(Holding) - 1
    BY HoldingFinite, FS_RemoveElement
  <2>2. waits \in Nat /\ MaxWaits \in Nat
    BY PollAssumption DEF TypeOK
  <2>3. QED
    BY <2>1, <2>2 DEF SlotsAccounted, FreeSlot
<1>2. tokenless' = Cardinality((Holding \ Tokened)') /\ tokenless' <= MaxTokenless
  <2>1. tokenless \in Nat /\ MaxTokenless \in Nat
    BY PollAssumption DEF TypeOK
  <2>2. CASE c \in Tokened
    <3>1. (Holding \ Tokened)' = Holding \ Tokened
      BY <2>2
    <3>2. QED
      BY <2>1, <2>2, <3>1 DEF SlotsAccounted, FreeSlot, Share
  <2>3. CASE c \notin Tokened
    <3>1. (Holding \ Tokened)' = (Holding \ Tokened) \ {c}
      OBVIOUS
    <3>2. Cardinality((Holding \ Tokened) \ {c}) = Cardinality(Holding \ Tokened) - 1
      BY <2>3, HoldingFinite, FS_RemoveElement
    <3>3. QED
      BY <2>1, <2>3, <3>1, <3>2 DEF SlotsAccounted, FreeSlot, Share
  <2>4. QED
    BY <2>2, <2>3
<1>3. QED
  BY <1>1, <1>2 DEF SlotsAccounted

\* Exact counters are numbers.
LEMMA CountersAreNumbers ==
    ASSUME SlotsAccounted PROVE waits \in Nat /\ tokenless \in Nat
BY HoldingFinite, FS_CardinalityType DEF SlotsAccounted

-----------------------------------------------------------------------------
(* A waking step.                                                          *)

LEMMA ToldType ==
    ASSUME RestTyped', NEW c \in Callers
    PROVE  Told(c) \in {"none"} \cup Outcomes
BY PollAssumption DEF RestTyped, Told, Callers, Outcomes

LEMMA WakesKeepInv ==
    ASSUME IInv, RestTyped', Wakes PROVE IInv'
<1>1. PICK S \in SUBSET Parked : WakesAll(S)
  BY DEF Wakes
<1>2. \A c \in Callers : call'[c] =
          IF c \in S THEN [call[c] EXCEPT !.at = "woken", !.reply = Told(c)] ELSE call[c]
  BY <1>1 DEF WakesAll, Wake
<1>3. call \in [Callers -> Calls]
  BY DEF IInv, TypeOK
<1>4. \A c \in S : c \in Callers /\ call[c].at = "parked"
  BY <1>1 DEF Parked
<1>5. \A c \in S : call'[c].at = "woken" /\ call'[c].reply = Told(c)
  BY <1>2, <1>3, <1>4 DEF Calls
<1>6. \A c \in Callers \ S : call'[c] = call[c]
  BY <1>2
<1>7. SlotsAccounted'
  <2>1. Holding' = Holding
    BY <1>4, <1>5, <1>6 DEF Holding
  <2>2. QED
    BY <2>1, SlotsKept DEF IInv, Wakes
<1>8. TypeOK'
  <2>1. call' \in [Callers -> Calls]
    <3>1. ASSUME NEW c \in Callers
          PROVE  (IF c \in S THEN [call[c] EXCEPT !.at = "woken", !.reply = Told(c)] ELSE call[c])
                     \in Calls
      BY <1>3, ToldType DEF Calls
    <3>2. QED
      BY <1>1, <3>1 DEF WakesAll, Wake
  <2>2. QED
    BY <1>7, <2>1, CountersAreNumbers DEF TypeOK, RestTyped, IInv, Wakes
<1>9. NoSleepThroughNews'
  <2>1. SUFFICES ASSUME NEW c \in (Parked \cap Waiters)' PROVE ~News(c)'
    BY DEF NoSleepThroughNews
  <2>2. c \in (Parked \cap Waiters) \ S
    BY <1>4, <1>5, <1>6 DEF Parked
  <2>3. QED
    BY <1>1, <2>2 DEF WakesAll
<1>10. RequestInv'
  <2>1. SUFFICES ASSUME NEW c \in Resumers
                 PROVE  /\ call'[c].at \in {"idle", "sent", "parked"} => call'[c].reply = "none"
                        /\ call'[c].at \in {"idle", "sent"} => outcome'[c] = "none"
                        /\ call'[c].at = "parked" => outcome'[c] = "pending"
                        /\ call'[c].reply \in {"429", "busy"} => outcome'[c] = "none"
                        /\ call'[c].reply \in Outcomes =>
                              \/ outcome'[c] = call'[c].reply
                              \/ call'[c].reply = "no-answer" /\ (server' # "up" \/ c \in gone')
    BY DEF RequestInv
  <2>2. c \in Callers /\ c \notin Waiters
    BY PollAssumption DEF Callers
  <2>3. outcome'[c] \in {"none", "pending"} \cup Outcomes
    BY DEF RestTyped
  <2>4. CASE c \in S
    <3>1. call'[c].reply = IF outcome'[c] = "pending" THEN "no-answer" ELSE outcome'[c]
      BY <1>5, <2>2, <2>4 DEF Told
    <3>2. outcome'[c] = "pending" => c \in gone' \/ server' # "up"
      BY <1>1, <2>4 DEF WakesAll
    <3>3. QED
      BY <1>5, <2>3, <2>4, <3>1, <3>2 DEF Outcomes
  <2>5. CASE c \notin S
    <3>1. call'[c] = call[c]
      BY <1>6, <2>2, <2>5
    <3>2. outcome[c] # "pending" => outcome'[c] = outcome[c]
      BY DEF Wakes, OnlyPending
    <3>3. call[c].at = "parked" => outcome'[c] = "pending"
      BY <1>1, <2>2, <2>5 DEF WakesAll, Answered, Parked
    <3>4. (server # "up" \/ c \in gone) => (server' # "up" \/ c \in gone')
      BY DEF Wakes
    <3>5. QED
      BY <3>1, <3>2, <3>3, <3>4 DEF IInv, RequestInv, Outcomes
  <2>6. QED
    BY <2>4, <2>5
<1>11. QED
  BY <1>7, <1>8, <1>9, <1>10 DEF IInv

\* emitChange() wakes whom it should, and so does a quiet step that makes no
\* news.
LEMMA EmitChangeWakes ==
    ASSUME EmitChange, OnlyPending PROVE Wakes
<1> DEFINE S == Answered \cup {c \in Parked \cap Waiters : News(c)'}
<1>1. S \in SUBSET Parked /\ Wake(S) /\ Answered \subseteq S
  BY DEF EmitChange, Answered
<1>2. \A c \in S \cap Resumers : outcome'[c] # "pending"
  BY PollAssumption DEF Answered
<1>3. \A c \in (Parked \cap Waiters) \ S : ~News(c)'
  OBVIOUS
<1>4. UNCHANGED <<waits, tokenless>> /\ gone' = gone /\ server' = server
  BY DEF EmitChange, clients
<1>5. QED
  BY <1>1, <1>2, <1>3, <1>4 DEF Wakes, WakesAll

LEMMA NewsKept ==
    ASSUME UNCHANGED <<pause, status>>, NEW c PROVE News(c)' = News(c)
BY DEF News, HasOpen, RunEnded

LEMMA QuietlyWakes ==
    ASSUME NoSleepThroughNews, Quietly, OnlyPending, UNCHANGED <<pause, status>> PROVE Wakes
<1>1. Answered \in SUBSET Parked /\ Wake(Answered)
  BY DEF Quietly, Answered
<1>2. \A c \in Answered \cap Resumers : outcome'[c] # "pending"
  BY DEF Answered
<1>3. \A c \in (Parked \cap Waiters) \ Answered : ~News(c)'
  BY NewsKept DEF NoSleepThroughNews
<1>4. UNCHANGED <<waits, tokenless>> /\ gone' = gone /\ server' = server
  BY DEF Quietly, clients
<1>5. QED
  BY <1>1, <1>2, <1>3, <1>4 DEF Wakes, WakesAll

\* Settling touches what is pending.
LEMMA SettleType ==
    ASSUME TypeOK, NEW S, NEW o \in Outcomes, Settle(S, o)
    PROVE  OnlyPending /\ outcome' \in [Resumers -> {"none", "pending"} \cup Outcomes]
<1>1. \A c \in Resumers : outcome'[c] = IF c \in S \cap Pending THEN o ELSE outcome[c]
  BY DEF Settle
<1>2. OnlyPending
  BY <1>1 DEF OnlyPending, Pending
<1>3. outcome' \in [Resumers -> {"none", "pending"} \cup Outcomes]
  BY DEF Settle, TypeOK
<1>4. QED
  BY <1>2, <1>3

LEMMA ReopenType ==
    ASSUME TypeOK, NEW p \in Pauses, Reopen(p)
    PROVE  /\ pause' \in [Pauses -> {"unknown", "open", "resolving", "closed"}]
           /\ by' \in [Pauses -> Resumers \cup {None}]
           /\ UNCHANGED <<status, owned>>
BY DEF TypeOK, Reopen

LEMMA CloseAllType ==
    ASSUME TypeOK, NEW S, CloseAll(S)
    PROVE  /\ pause' \in [Pauses -> {"unknown", "open", "resolving", "closed"}]
           /\ by' \in [Pauses -> Resumers \cup {None}]
BY DEF TypeOK, CloseAll

\* A step of the registry that emits and settles.
LEMMA EmitKeepsInv ==
    ASSUME IInv, EmitChange, OnlyPending,
           pause' \in [Pauses -> {"unknown", "open", "resolving", "closed"}],
           by' \in [Pauses -> Resumers \cup {None}],
           outcome' \in [Resumers -> {"none", "pending"} \cup Outcomes],
           status' \in [Runs -> {"running", "finished", "abandoned"}],
           owned' \subseteq Runs
    PROVE  IInv'
<1>1. RestTyped'
  BY DEF IInv, TypeOK, RestTyped, EmitChange, clients
<1>2. QED
  BY <1>1, EmitChangeWakes, WakesKeepInv

LEMMA OpensKeepsInv == ASSUME IInv, NEW p \in Pauses, Opens(p) PROVE IInv'
<1>1. OnlyPending
  BY DEF Opens, OnlyPending
<1>2. QED
  BY <1>1, EmitKeepsInv DEF Opens, IInv, TypeOK

LEMMA IsResumedKeepsInv == ASSUME IInv, NEW p \in Pauses, IsResumed(p) PROVE IInv'
<1>1. PICK winner \in {c \in Pending : Target[c] = p} \cup {None} :
          outcome' = [c \in Resumers |->
              IF c = winner THEN "resumed"
              ELSE IF c \in Pending /\ Target[c] = p THEN "taken" ELSE outcome[c]]
  BY DEF IsResumed
<1>2. winner # None => winner \in Pending
  BY <1>1
<1>3. None \notin Resumers
  BY PollAssumption
<1>4. OnlyPending
  BY <1>1, <1>2, <1>3 DEF OnlyPending, Pending
<1>5. outcome' \in [Resumers -> {"none", "pending"} \cup Outcomes]
  BY <1>1 DEF IInv, TypeOK, Outcomes
<1>6. pause' \in [Pauses -> {"unknown", "open", "resolving", "closed"}]
      /\ by' \in [Pauses -> Resumers \cup {None}]
  BY DEF IInv, TypeOK, IsResumed
<1>7. QED
  BY <1>4, <1>5, <1>6, EmitKeepsInv DEF IsResumed, IInv, TypeOK

LEMMA ReopensKeepsInv == ASSUME IInv, NEW p \in Pauses, Reopens(p) PROVE IInv'
<1>1. OnlyPending
  BY DEF Reopens, OnlyPending
<1>2. QED
  BY <1>1, ReopenType, EmitKeepsInv DEF Reopens, IInv, TypeOK

LEMMA IsRefusedKeepsInv == ASSUME IInv, NEW c \in Resumers, IsRefused(c) PROVE IInv'
<1>1. Target[c] \in Pauses /\ "refused" \in Outcomes
  BY PollAssumption DEF Outcomes
<1>2. OnlyPending /\ outcome' \in [Resumers -> {"none", "pending"} \cup Outcomes]
  BY <1>1, SettleType DEF IsRefused, IInv
<1>3. QED
  BY <1>1, <1>2, ReopenType, EmitKeepsInv DEF IsRefused, IInv, TypeOK

LEMMA SendFailsKeepsInv == ASSUME IInv, NEW c \in Resumers, SendFails(c) PROVE IInv'
<1>1. Target[c] \in Pauses /\ "send-failed" \in Outcomes
  BY PollAssumption DEF Outcomes
<1>2. OnlyPending /\ outcome' \in [Resumers -> {"none", "pending"} \cup Outcomes]
  BY <1>1, SettleType DEF SendFails, IInv
<1>3. /\ pause' \in [Pauses -> {"unknown", "open", "resolving", "closed"}]
      /\ by' \in [Pauses -> Resumers \cup {None}]
      /\ UNCHANGED <<status, owned>>
  BY <1>1, ReopenType DEF SendFails, IInv, TypeOK
<1>4. QED
  BY <1>2, <1>3, EmitKeepsInv DEF SendFails, IInv, TypeOK

LEMMA RequestDeadlineKeepsInv == ASSUME IInv, NEW c \in Resumers, RequestDeadline(c) PROVE IInv'
<1>1. "no-answer" \in Outcomes
  BY DEF Outcomes
<1>2. OnlyPending /\ outcome' \in [Resumers -> {"none", "pending"} \cup Outcomes]
  BY <1>1, SettleType DEF RequestDeadline, IInv
<1>3. Wakes
  BY <1>2, QuietlyWakes DEF RequestDeadline, IInv
<1>4. RestTyped'
  BY <1>2 DEF IInv, TypeOK, RestTyped, RequestDeadline, Quietly, clients
<1>5. QED
  BY <1>3, <1>4, WakesKeepInv

LEMMA RunFinishesKeepsInv == ASSUME IInv, NEW r \in Runs, RunFinishes(r) PROVE IInv'
<1>1. "run-finished" \in Outcomes
  BY DEF Outcomes
<1>2. OnlyPending /\ outcome' \in [Resumers -> {"none", "pending"} \cup Outcomes]
  BY <1>1, SettleType DEF RunFinishes, IInv
<1>3. QED
  BY <1>2, CloseAllType, EmitKeepsInv DEF RunFinishes, IInv, TypeOK

LEMMA AppLeavesKeepsInv == ASSUME IInv, NEW r \in Runs, AppLeaves(r) PROVE IInv'
<1>1. "app-disconnected" \in Outcomes
  BY DEF Outcomes
<1>2. OnlyPending /\ outcome' \in [Resumers -> {"none", "pending"} \cup Outcomes]
  BY <1>1, SettleType DEF AppLeaves, IInv
<1>3. owned' \subseteq Runs
  BY DEF AppLeaves, IInv, TypeOK
<1>4. QED
  BY <1>2, <1>3, CloseAllType, EmitKeepsInv DEF AppLeaves, IInv, TypeOK

LEMMA AbandonedKeepsInv == ASSUME IInv, NEW r \in Runs, Abandoned(r) PROVE IInv'
<1>1. OnlyPending
  BY DEF Abandoned, OnlyPending
<1>2. status' \in [Runs -> {"running", "finished", "abandoned"}]
  BY DEF Abandoned, IInv, TypeOK
<1>3. QED
  BY <1>1, <1>2, EmitKeepsInv DEF Abandoned, IInv, TypeOK

\* The steps that change no request at all wake nobody.
LEMMA NobodyWakes ==
    ASSUME IInv, UNCHANGED <<polls, outcome, gone, server>>, \A c \in Waiters : News(c)' => News(c)
    PROVE  Wakes
<1>1. call' = [c \in Callers |-> call[c]]
  BY DEF IInv, TypeOK, polls
<1>2. Wake({})
  BY <1>1 DEF Wake
<1>3. Answered = {}
  BY DEF Answered, IInv, RequestInv, Parked
<1>4. \A c \in Parked \cap Waiters : ~News(c)'
  BY DEF IInv, NoSleepThroughNews
<1>5. WakesAll({})
  BY <1>2, <1>3, <1>4 DEF WakesAll
<1>6. QED
  BY <1>5 DEF Wakes, OnlyPending, polls

LEMMA AppReturnsKeepsInv == ASSUME IInv, NEW r \in Runs, AppReturns(r) PROVE IInv'
<1>1. status' \in [Runs -> {"running", "finished", "abandoned"}]
      /\ \A q \in Runs : status'[q] # "running" => status[q] # "running"
  BY DEF AppReturns, IInv, TypeOK
<1>2. ASSUME NEW c \in Waiters, News(c)' PROVE News(c)
  <2>1. Watched[c] \in Runs \cup {None}
    BY PollAssumption
  <2>2. QED
    BY <1>1, <1>2, <2>1 DEF AppReturns, News, HasOpen, RunEnded
<1>3. Wakes
  BY <1>2, NobodyWakes DEF AppReturns, clients
<1>4. RestTyped'
  BY <1>1 DEF AppReturns, clients, polls, RestTyped, IInv, TypeOK
<1>5. QED
  BY <1>3, <1>4, WakesKeepInv

LEMMA DeadlinePassesKeepsInv == ASSUME IInv, NEW c \in Waiters, DeadlinePasses(c) PROVE IInv'
<1>1. Wakes
  BY NobodyWakes, NewsKept DEF DeadlinePasses, registry
<1>2. RestTyped'
  BY DEF DeadlinePasses, registry, polls, RestTyped, IInv, TypeOK
<1>3. QED
  BY <1>1, <1>2, WakesKeepInv

\* A poll's own timer, its client or the server closing wakes it.
LEMMA PollTimerKeepsInv == ASSUME IInv, NEW c \in Waiters, PollTimer(c) PROVE IInv'
<1>1. c \in Parked /\ Wake({c}) /\ UNCHANGED <<pause, status, outcome, gone, server, waits, tokenless>>
  BY DEF PollTimer, registry, clients
<1>2. Answered = {}
  BY <1>1 DEF Answered, IInv, RequestInv, Parked
<1>3. WakesAll({c})
  BY <1>1, <1>2, NewsKept, PollAssumption DEF WakesAll, IInv, NoSleepThroughNews
<1>4. Wakes
  BY <1>1, <1>3 DEF Wakes, OnlyPending
<1>5. RestTyped'
  BY DEF PollTimer, registry, clients, RestTyped, IInv, TypeOK
<1>6. QED
  BY <1>4, <1>5, WakesKeepInv

LEMMA KilledKeepsInv == ASSUME IInv, NEW c \in Callers, Killed(c) PROVE IInv'
<1>1. /\ Wake({c} \cap Parked) /\ gone' = gone \cup {c}
      /\ UNCHANGED <<pause, status, outcome, server, waits, tokenless>>
  BY DEF Killed, registry
<1>2. Answered = {}
  BY <1>1 DEF Answered, IInv, RequestInv, Parked
<1>3. WakesAll({c} \cap Parked)
  BY <1>1, <1>2, NewsKept DEF WakesAll, IInv, NoSleepThroughNews
<1>4. Wakes
  BY <1>1, <1>3 DEF Wakes, OnlyPending
<1>5. RestTyped'
  BY <1>1 DEF Killed, registry, RestTyped, IInv, TypeOK
<1>6. QED
  BY <1>4, <1>5, WakesKeepInv

LEMMA CloseWaitsKeepsInv == ASSUME IInv, CloseWaits PROVE IInv'
<1>1. /\ Wake(Parked) /\ server = "up" /\ server' = "closing"
      /\ UNCHANGED <<pause, status, outcome, gone, waits, tokenless>>
  BY DEF CloseWaits, registry, clients
<1>2. WakesAll(Parked)
  BY <1>1 DEF WakesAll, Answered
<1>3. Wakes
  BY <1>1, <1>2 DEF Wakes, OnlyPending
<1>4. RestTyped'
  BY <1>1 DEF CloseWaits, registry, clients, RestTyped, IInv, TypeOK
<1>5. QED
  BY <1>3, <1>4, WakesKeepInv

LEMMA CloseServerKeepsInv == ASSUME IInv, CloseServer PROVE IInv'
<1>1. /\ Wake(Parked) /\ server = "closing" /\ server' = "closed" /\ gone' = gone
      /\ UNCHANGED <<waits, tokenless>>
  BY DEF CloseServer, clients
<1>2. OnlyPending /\ outcome' \in [Resumers -> {"none", "pending"} \cup Outcomes]
  BY SettleType DEF CloseServer, IInv, Outcomes
<1>3. WakesAll(Parked)
  BY <1>1 DEF WakesAll, Answered
<1>4. Wakes
  BY <1>1, <1>2, <1>3 DEF Wakes
<1>5. RestTyped'
  BY <1>1, <1>2 DEF CloseServer, clients, RestTyped, IInv, TypeOK
<1>6. QED
  BY <1>4, <1>5, WakesKeepInv

-----------------------------------------------------------------------------
(* A step of one caller's request.                                         *)

\* What the new call x of c must be for the invariant to hold, when nothing
\* makes news.
Fits(c, x) ==
    /\ x \in Calls
    /\ c \in Waiters => (x.at = "parked" => ~News(c)')
    /\ c \in Resumers =>
        /\ x.at \in {"idle", "sent", "parked"} => x.reply = "none"
        /\ x.at \in {"idle", "sent"} => outcome'[c] = "none"
        /\ x.at = "parked" => outcome'[c] = "pending"
        /\ x.reply \in {"429", "busy"} => outcome'[c] = "none"
        /\ x.reply \in Outcomes =>
              \/ outcome'[c] = x.reply
              \/ x.reply = "no-answer" /\ (server' # "up" \/ c \in gone')

LEMMA SetKeepsInv ==
    ASSUME IInv, RestTyped', SlotsAccounted', NEW c \in Callers, NEW x,
           Set(c, x), Fits(c, x), UNCHANGED <<server, gone>>,
           \A d \in Resumers \ {c} : outcome'[d] = outcome[d],
           \A d \in Waiters : News(d)' => News(d)
    PROVE  IInv'
<1>1. call \in [Callers -> Calls]
  BY DEF IInv, TypeOK
<1>2. call'[c] = x /\ \A d \in Callers \ {c} : call'[d] = call[d]
  BY <1>1 DEF Set
<1>3. call' \in [Callers -> Calls]
  BY <1>1 DEF Set, Fits
<1>4. TypeOK'
  <2>1. Holding' \in SUBSET Callers /\ (Holding \ Tokened)' \in SUBSET Callers
    BY DEF Holding
  <2>2. Cardinality(Holding') \in Nat /\ Cardinality((Holding \ Tokened)') \in Nat
    BY <2>1, PollAssumption, FS_Subset, FS_CardinalityType
  <2>3. waits' \in Nat /\ tokenless' \in Nat
    BY <2>2 DEF SlotsAccounted
  <2>4. QED
    BY <1>3, <2>3 DEF TypeOK, RestTyped
<1>5. NoSleepThroughNews'
  <2>1. SUFFICES ASSUME NEW d \in (Parked \cap Waiters)' PROVE ~News(d)'
    BY DEF NoSleepThroughNews
  <2>2. d \in Callers /\ d \in Waiters /\ call'[d].at = "parked"
    BY <2>1 DEF Parked
  <2>3. CASE d = c
    BY <1>2, <2>2, <2>3 DEF Fits
  <2>4. CASE d # c
    BY <1>2, <2>2, <2>4 DEF IInv, NoSleepThroughNews, Parked
  <2>5. QED
    BY <2>3, <2>4
<1>6. RequestInv'
  <2>1. SUFFICES ASSUME NEW d \in Resumers
                 PROVE  /\ call'[d].at \in {"idle", "sent", "parked"} => call'[d].reply = "none"
                        /\ call'[d].at \in {"idle", "sent"} => outcome'[d] = "none"
                        /\ call'[d].at = "parked" => outcome'[d] = "pending"
                        /\ call'[d].reply \in {"429", "busy"} => outcome'[d] = "none"
                        /\ call'[d].reply \in Outcomes =>
                              \/ outcome'[d] = call'[d].reply
                              \/ call'[d].reply = "no-answer" /\ (server' # "up" \/ d \in gone')
    BY DEF RequestInv
  <2>2. d \in Callers
    BY DEF Callers
  <2>3. CASE d = c
    BY <1>2, <2>3 DEF Fits
  <2>4. CASE d # c
    BY <1>2, <2>2, <2>4 DEF IInv, RequestInv
  <2>5. QED
    BY <2>3, <2>4
<1>7. QED
  BY <1>4, <1>5, <1>6 DEF IInv

\* Nothing but the call and the slots changes.
LEMMA SetAlone ==
    ASSUME IInv, UNCHANGED <<registry, clients, server>>
    PROVE  /\ RestTyped' /\ UNCHANGED <<server, gone, outcome>>
           /\ \A d \in Waiters : News(d)' = News(d)
<1>1. RestTyped' /\ UNCHANGED <<server, gone, outcome, pause, status>>
  BY DEF IInv, TypeOK, RestTyped, registry, clients
<1>2. QED
  BY <1>1, NewsKept

\* Who holds a slot afterwards.
LEMMA SetHolding ==
    ASSUME TypeOK, NEW c \in Callers, NEW x, Set(c, x)
    PROVE  Holding' = IF x.at \in {"parked", "woken"} THEN Holding \cup {c} ELSE Holding \ {c}
<1>1. call'[c] = x /\ \A d \in Callers \ {c} : call'[d] = call[d]
  BY DEF Set, TypeOK
<1>2. QED
  BY <1>1 DEF Holding

\* A request that neither held a slot nor takes one.
LEMMA IdleSetKeepsInv ==
    ASSUME IInv, NEW c \in Callers, NEW x, Set(c, x), Fits(c, x),
           UNCHANGED <<registry, waits, tokenless, clients, server>>,
           c \notin Holding, x.at \notin {"parked", "woken"}
    PROVE  IInv'
<1>1. Holding' = Holding
  BY SetHolding DEF IInv
<1>2. SlotsAccounted'
  BY <1>1, SlotsKept DEF IInv
<1>3. QED
  BY <1>2, SetAlone, SetKeepsInv

LEMMA CallFacts ==
    ASSUME IInv, NEW c \in Callers
    PROVE  call[c] \in Calls
BY DEF IInv, TypeOK

LEMMA ListedFields ==
    ASSUME IInv, NEW c \in Callers
    PROVE  /\ Listed(c) \in Calls /\ Listed(c).at = "answered" /\ Listed(c).reply = "list"
<1>1. HasOpen(Watched[c]) \in BOOLEAN /\ RunEnded(Watched[c]) \in BOOLEAN
  BY DEF HasOpen, RunEnded
<1>2. QED
  BY <1>1, CallFacts DEF Listed, Calls

LEMMA RepliedFields ==
    ASSUME IInv, NEW c \in Callers, NEW reply \in {"429", "busy"} \cup {call[c].reply}
    PROVE  /\ Replied(c, reply) \in Calls
           /\ Replied(c, reply).at = "answered" /\ Replied(c, reply).reply = reply
BY CallFacts DEF Replied, Calls

LEMMA ListIsNoOutcome == "list" \notin Outcomes /\ "none" \notin Outcomes
                         /\ "429" \notin Outcomes /\ "busy" \notin Outcomes
BY DEF Outcomes

LEMMA WaitersApart ==
    ASSUME NEW c \in Waiters PROVE c \in Callers /\ c \notin Resumers
BY PollAssumption DEF Callers

LEMMA ResumersApart ==
    ASSUME NEW c \in Resumers PROVE c \in Callers /\ c \notin Waiters
BY PollAssumption DEF Callers

LEMMA GetAnsweredAtOnceKeepsInv ==
    ASSUME IInv, NEW c \in Waiters, GetAnsweredAtOnce(c) PROVE IInv'
<1>1. Fits(c, Listed(c))
  BY WaitersApart, ListedFields DEF Fits
<1>2. c \notin Holding
  BY DEF GetAnsweredAtOnce, Holding
<1>3. QED
  BY <1>1, <1>2, WaitersApart, ListedFields, IdleSetKeepsInv DEF GetAnsweredAtOnce

LEMMA GetTurnedAwayKeepsInv ==
    ASSUME IInv, NEW c \in Waiters, GetTurnedAway(c) PROVE IInv'
<1>1. Fits(c, Replied(c, "429"))
  BY WaitersApart, RepliedFields DEF Fits
<1>2. c \notin Holding
  BY DEF GetTurnedAway, Holding
<1>3. QED
  BY <1>1, <1>2, WaitersApart, RepliedFields, IdleSetKeepsInv DEF GetTurnedAway

LEMMA GetParksKeepsInv ==
    ASSUME IInv, NEW c \in Waiters, GetParks(c) PROVE IInv'
<1> DEFINE x == [call[c] EXCEPT !.at = "parked"]
<1>1. x \in Calls /\ x.at = "parked"
  BY CallFacts, WaitersApart DEF Calls
<1>2. UNCHANGED <<registry, clients, server>> /\ Set(c, x) /\ ~News(c) /\ SlotFree(c)
      /\ TakeSlot(c) /\ c \in Callers /\ c \notin Holding
  BY WaitersApart DEF GetParks, NeedsSlot, Holding
<1>3. ~News(c)'
  BY <1>2, SetAlone
<1>4. Fits(c, x)
  BY <1>1, <1>3, WaitersApart DEF Fits
<1>5. Holding' = Holding \cup {c}
  BY <1>1, <1>2, SetHolding DEF IInv
<1>6. SlotsAccounted'
  BY <1>2, <1>5, SlotTaken DEF IInv
<1>7. QED
  BY <1>2, <1>4, <1>6, SetAlone, SetKeepsInv

LEMMA GetAnsweredKeepsInv ==
    ASSUME IInv, NEW c \in Waiters, GetAnswered(c) PROVE IInv'
<1>1. UNCHANGED <<registry, clients, server>> /\ Set(c, Listed(c)) /\ FreeSlot(c)
      /\ c \in Callers /\ c \in Holding
  BY WaitersApart DEF GetAnswered, Holding
<1>2. Fits(c, Listed(c))
  BY WaitersApart, ListedFields DEF Fits
<1>3. Holding' = Holding \ {c}
  BY <1>1, SetHolding, ListedFields DEF IInv
<1>4. SlotsAccounted'
  BY <1>1, <1>3, SlotFreed DEF IInv
<1>5. QED
  BY <1>1, <1>2, <1>4, SetAlone, SetKeepsInv

\* A resume that was turned away or refused was never recorded.
LEMMA PostTurnedAwayKeepsInv ==
    ASSUME IInv, NEW c \in Resumers, PostTurnedAway(c) PROVE IInv'
<1>1. c \notin Holding /\ c \in Callers /\ outcome[c] = "none" /\ outcome' = outcome
  BY ResumersApart DEF PostTurnedAway, Holding, IInv, RequestInv, registry
<1>2. Fits(c, Replied(c, "429"))
  BY <1>1, ResumersApart, RepliedFields, ListIsNoOutcome DEF Fits
<1>3. QED
  BY <1>1, <1>2, RepliedFields, IdleSetKeepsInv DEF PostTurnedAway

LEMMA PostRefusedKeepsInv ==
    ASSUME IInv, NEW c \in Resumers, PostRefused(c) PROVE IInv'
<1>1. c \notin Holding /\ c \in Callers /\ outcome[c] = "none" /\ outcome' = outcome
  BY ResumersApart DEF PostRefused, Holding, IInv, RequestInv, registry
<1>2. Fits(c, Replied(c, "busy"))
  BY <1>1, ResumersApart, RepliedFields, ListIsNoOutcome DEF Fits
<1>3. QED
  BY <1>1, <1>2, RepliedFields, IdleSetKeepsInv DEF PostRefused

\* A pause may stop being open, which makes no news.
LEMMA BeginFacts ==
    ASSUME IInv, NEW c \in Resumers, Begin(c), UNCHANGED <<clients, server>>
    PROVE  /\ RestTyped' /\ UNCHANGED <<server, gone>>
           /\ outcome'[c] = "pending" /\ \A d \in Resumers \ {c} : outcome'[d] = outcome[d]
           /\ \A d \in Waiters : News(d)' => News(d)
<1>1. UNCHANGED <<server, gone, due, exit, status, owned>>
  BY DEF Begin, clients
<1>2. outcome' \in [Resumers -> {"none", "pending"} \cup Outcomes]
      /\ outcome'[c] = "pending" /\ \A d \in Resumers \ {c} : outcome'[d] = outcome[d]
  BY DEF Begin, IInv, TypeOK
<1>3. /\ pause' \in [Pauses -> {"unknown", "open", "resolving", "closed"}]
      /\ by' \in [Pauses -> Resumers \cup {None}]
      /\ \A p \in Pauses : pause'[p] = "open" => pause[p] = "open"
  BY DEF Begin, IInv, TypeOK
<1>4. RestTyped'
  BY <1>1, <1>2, <1>3 DEF RestTyped, IInv, TypeOK
<1>5. \A d \in Waiters : News(d)' => News(d)
  BY <1>1, <1>3 DEF News, HasOpen, RunEnded
<1>6. QED
  BY <1>1, <1>2, <1>4, <1>5

LEMMA PostParksKeepsInv ==
    ASSUME IInv, NEW c \in Resumers, PostParks(c) PROVE IInv'
<1> DEFINE x == [call[c] EXCEPT !.at = "parked"]
<1>1. c \in Callers /\ c \notin Holding /\ call[c].reply = "none"
  BY ResumersApart DEF PostParks, Holding, IInv, RequestInv
<1>2. x \in Calls /\ x.at = "parked" /\ x.reply = "none"
  BY <1>1, CallFacts DEF Calls
<1>3. Begin(c) /\ UNCHANGED <<clients, server>> /\ Set(c, x) /\ SlotFree(c) /\ TakeSlot(c)
  BY DEF PostParks
<1>4. Fits(c, x)
  BY <1>2, <1>3, BeginFacts, ResumersApart, ListIsNoOutcome DEF Fits
<1>5. Holding' = Holding \cup {c}
  BY <1>1, <1>2, <1>3, SetHolding DEF IInv
<1>6. SlotsAccounted'
  BY <1>1, <1>3, <1>5, SlotTaken DEF IInv
<1>7. QED
  BY <1>1, <1>3, <1>4, <1>6, BeginFacts, SetKeepsInv

LEMMA PostAnsweredKeepsInv ==
    ASSUME IInv, NEW c \in Resumers, PostAnswered(c) PROVE IInv'
<1> DEFINE x == Replied(c, call[c].reply)
<1>1. UNCHANGED <<registry, clients, server>> /\ Set(c, x) /\ FreeSlot(c)
      /\ c \in Callers /\ c \in Holding
  BY ResumersApart DEF PostAnswered, Holding
<1>2. x \in Calls /\ x.at = "answered" /\ x.reply = call[c].reply
  BY <1>1, RepliedFields
<1>3. UNCHANGED <<server, gone, outcome>>
  BY <1>1, SetAlone
<1>4. Fits(c, x)
  BY <1>2, <1>3, ResumersApart DEF Fits, IInv, RequestInv
<1>5. Holding' = Holding \ {c}
  BY <1>1, <1>2, SetHolding DEF IInv
<1>6. SlotsAccounted'
  BY <1>1, <1>5, SlotFreed DEF IInv
<1>7. QED
  BY <1>1, <1>4, <1>6, SetAlone, SetKeepsInv

LEMMA NoCallFields == NoCall \in Calls /\ NoCall.at = "idle" /\ NoCall.reply = "none"
BY DEF NoCall, Calls

LEMMA PostSentKeepsInv ==
    ASSUME IInv, NEW c \in Resumers, PostSent(c) PROVE IInv'
<1> DEFINE x == [NoCall EXCEPT !.at = "sent"]
<1>1. x \in Calls /\ x.at = "sent" /\ x.reply = "none"
  BY DEF NoCall, Calls
<1>2. c \in Callers /\ c \notin Holding /\ outcome[c] = "none" /\ outcome' = outcome
  BY ResumersApart, NoCallFields DEF PostSent, Holding, IInv, RequestInv, registry
<1>3. Fits(c, x)
  BY <1>1, <1>2, ResumersApart, ListIsNoOutcome DEF Fits
<1>4. QED
  BY <1>1, <1>2, <1>3, IdleSetKeepsInv DEF PostSent

LEMMA WaitAsksKeepsInv ==
    ASSUME IInv, NEW c \in Waiters, WaitAsks(c) PROVE IInv'
<1> DEFINE x == [NoCall EXCEPT !.at = "sent", !.chunk = Chunk(c)]
<1>1. x \in Calls /\ x.at = "sent"
  BY DEF NoCall, Calls, Chunk
<1>2. c \in Callers /\ c \notin Holding
  BY WaitersApart DEF WaitAsks, Holding
<1>3. Fits(c, x)
  BY <1>1, WaitersApart DEF Fits
<1>4. QED
  BY <1>1, <1>2, <1>3, IdleSetKeepsInv DEF WaitAsks

\* A waiter that is done with an answer, or finds nobody to ask.
LEMMA WaiterIdles ==
    ASSUME IInv, NEW c \in Waiters, Set(c, NoCall), c \notin Holding,
           exit' \in [Waiters -> {"none", "ok", "gone", "timeout", "unreachable"}],
           UNCHANGED <<registry, waits, tokenless, due, gone, server>>
    PROVE  IInv'
<1>1. c \in Callers /\ Fits(c, NoCall)
  BY WaitersApart, NoCallFields DEF Fits
<1>2. Holding' = Holding
  BY <1>1, SetHolding, NoCallFields DEF IInv
<1>3. SlotsAccounted'
  BY <1>2, SlotsKept DEF IInv
<1>4. UNCHANGED <<pause, by, outcome, status, owned>>
  BY DEF registry
<1>5. RestTyped'
  BY <1>4 DEF RestTyped, IInv, TypeOK
<1>6. \A d \in Waiters : News(d)' = News(d)
  BY <1>4, NewsKept
<1>7. QED
  BY <1>1, <1>3, <1>4, <1>5, <1>6, SetKeepsInv

LEMMA WaitReadsKeepsInv ==
    ASSUME IInv, NEW c \in Waiters, WaitReads(c) PROVE IInv'
<1>1. c \notin Holding
  BY DEF WaitReads, Holding
<1>2. Set(c, NoCall)
  BY DEF WaitReads, Leaves, AsksAgain
<1>3. exit' \in [Waiters -> {"none", "ok", "gone", "timeout", "unreachable"}]
  BY DEF WaitReads, Leaves, AsksAgain, IInv, TypeOK
<1>4. QED
  BY <1>1, <1>2, <1>3, WaiterIdles DEF WaitReads

LEMMA WaitUnreachableKeepsInv ==
    ASSUME IInv, NEW c \in Waiters, WaitUnreachable(c) PROVE IInv'
<1>1. c \notin Holding
  BY DEF WaitUnreachable, Holding
<1>2. Set(c, NoCall) /\ exit' \in [Waiters -> {"none", "ok", "gone", "timeout", "unreachable"}]
  BY DEF WaitUnreachable, Leaves, IInv, TypeOK
<1>3. QED
  BY <1>1, <1>2, WaiterIdles DEF WaitUnreachable

-----------------------------------------------------------------------------
(* The theorems.                                                           *)

LEMMA InitIInv == Init => IInv
<1> SUFFICES ASSUME Init PROVE IInv
  OBVIOUS
<1>1. Holding = {} /\ Holding \ Tokened = {} /\ Parked = {}
  BY DEF Init, Holding, Parked, NoCall
<1>2. SlotsAccounted
  BY <1>1, FS_EmptySet, PollAssumption DEF Init, SlotsAccounted
<1>3. NoSleepThroughNews
  BY <1>1 DEF NoSleepThroughNews
<1>4. RequestInv
  BY ResumersApart, ListIsNoOutcome DEF Init, RequestInv, NoCall
<1>5. TypeOK
  BY NoCallFields DEF Init, TypeOK
<1>6. QED
  BY <1>2, <1>3, <1>4, <1>5 DEF IInv

LEMMA NextIInv == IInv /\ [Next]_vars => IInv'
<1> SUFFICES ASSUME IInv, [Next]_vars PROVE IInv'
  OBVIOUS
<1>1. CASE UNCHANGED vars
  <2>1. UNCHANGED <<pause, by, outcome, status, owned, call, waits, tokenless,
                    due, exit, gone, server>>
    BY <1>1 DEF vars, registry, polls, clients
  <2>2. \A c : News(c)' = News(c)
    BY <2>1, NewsKept
  <2>3. Holding' = Holding
    BY <2>1 DEF Holding
  <2>4. SlotsAccounted'
    BY <2>1, <2>3, SlotsKept DEF IInv
  <2>5. NoSleepThroughNews'
    BY <2>1, <2>2 DEF IInv, NoSleepThroughNews, Parked
  <2>6. RequestInv' /\ TypeOK'
    BY <2>1 DEF IInv, RequestInv, TypeOK
  <2>7. QED
    BY <2>4, <2>5, <2>6 DEF IInv
<1>2. CASE Registry
  BY <1>2, OpensKeepsInv, IsResumedKeepsInv, ReopensKeepsInv, IsRefusedKeepsInv,
     SendFailsKeepsInv, RequestDeadlineKeepsInv, RunFinishesKeepsInv, AppLeavesKeepsInv,
     AbandonedKeepsInv, AppReturnsKeepsInv
     DEF Registry
<1>3. CASE \E c \in Callers : Handle(c)
  BY <1>3, GetAnsweredAtOnceKeepsInv, GetParksKeepsInv, GetTurnedAwayKeepsInv,
     GetAnsweredKeepsInv, PostTurnedAwayKeepsInv, PostRefusedKeepsInv, PostParksKeepsInv,
     PostAnsweredKeepsInv
     DEF Handle
<1>4. CASE \E c \in Waiters : PollTimer(c)
  BY <1>4, PollTimerKeepsInv
<1>5. CASE Client
  BY <1>5, KilledKeepsInv, PostSentKeepsInv, WaitAsksKeepsInv, WaitReadsKeepsInv,
     WaitUnreachableKeepsInv, DeadlinePassesKeepsInv
     DEF Client
<1>6. CASE CloseWaits \/ CloseServer
  BY <1>6, CloseWaitsKeepsInv, CloseServerKeepsInv
<1>7. QED
  BY <1>1, <1>2, <1>3, <1>4, <1>5, <1>6 DEF Next

THEOREM PollInvariant == Spec => []IInv
BY InitIInv, NextIInv, PTL DEF Spec

\* Every slot that is counted belongs to a request that is held open, whatever
\* ends it, and neither of the two caps is passed (park and its `finally`).
THEOREM SlotsExact == Spec => []SlotsAccounted
<1>1. IInv => SlotsAccounted
  BY DEF IInv
<1>2. QED
  BY <1>1, PollInvariant, PTL

\* A parked poll has nothing to be told: every method that makes news wakes it
\* (emitChange), and a poll that had news was never parked.
THEOREM NobodySleepsThroughNews == Spec => []NoSleepThroughNews
<1>1. IInv => NoSleepThroughNews
  BY DEF IInv
<1>2. QED
  BY <1>1, PollInvariant, PTL

\* What a POST .../resume is answered is what became of its request, and one
\* that was turned away with a 429 was never forwarded.
THEOREM PostsAreTruthful == Spec => []PostIsTruthful
<1>1. IInv => PostIsTruthful
  BY DEF IInv, RequestInv, PostIsTruthful, Outcomes
<1>2. QED
  BY <1>1, PollInvariant, PTL

\* What became of a resume is decided once: no later answer, deadline, finished
\* run or closing server changes it.
OutcomeStands ==
    \A c \in Resumers : outcome[c] \notin {"none", "pending"} => outcome'[c] = outcome[c]
THEOREM OutcomesAreFinal == Spec => [][OutcomeStands]_vars
<1>1. ASSUME IInv, [Next]_vars PROVE [OutcomeStands]_vars
  <2>1. CASE UNCHANGED vars
    BY <2>1
  <2>2. CASE Registry
    <3>1. None \notin Resumers
      BY PollAssumption
    <3>2. CASE \E p \in Pauses : IsResumed(p)
      <4>1. PICK p \in Pauses : IsResumed(p)
        BY <3>2
      <4>2. PICK winner \in {c \in Pending : Target[c] = p} \cup {None} :
                outcome' = [c \in Resumers |->
                    IF c = winner THEN "resumed"
                    ELSE IF c \in Pending /\ Target[c] = p THEN "taken" ELSE outcome[c]]
        BY <4>1 DEF IsResumed
      <4>3. \A c \in Resumers : c # winner \/ c \in Pending
        BY <3>1
      <4>4. \A c \in Resumers : outcome[c] # "pending" => outcome'[c] = outcome[c]
        BY <4>2, <4>3 DEF Pending
      <4>5. QED
        BY <4>4 DEF OutcomeStands
    <3>3. CASE outcome' = outcome
      BY <3>3 DEF OutcomeStands
    <3>4. CASE \E S, o : Settle(S, o)
      BY <3>4 DEF Settle, Pending, OutcomeStands
    <3>5. QED
      BY <2>2, <3>2, <3>3, <3>4
         DEF Registry, Opens, Reopens, IsRefused, SendFails, RequestDeadline,
             RunFinishes, AppLeaves, Abandoned, AppReturns
  <2>3. CASE \E c \in Callers : Handle(c)
    <3>1. PICK c \in Callers : Handle(c)
      BY <2>3
    <3>2. CASE c \in Resumers /\ PostParks(c)
      <4>1. outcome[c] = "none"
        BY <1>1, <3>2 DEF PostParks, IInv, RequestInv
      <4>2. \A d \in Resumers \ {c} : outcome'[d] = outcome[d]
        BY <1>1, <3>2 DEF PostParks, Begin, IInv, TypeOK
      <4>3. QED
        BY <4>1, <4>2 DEF OutcomeStands
    <3>3. CASE outcome' = outcome
      BY <3>3 DEF OutcomeStands
    <3>4. QED
      BY <3>1, <3>2, <3>3
         DEF Handle, GetAnsweredAtOnce, GetParks, GetTurnedAway, GetAnswered,
             PostTurnedAway, PostRefused, PostAnswered, registry
  <2>4. CASE (\E c \in Waiters : PollTimer(c)) \/ Client \/ CloseWaits
    <3>1. outcome' = outcome
      BY <2>4 DEF PollTimer, Client, Killed, PostSent, WaitAsks, WaitReads, WaitUnreachable,
                  DeadlinePasses, CloseWaits, registry
    <3>2. QED
      BY <3>1 DEF OutcomeStands
  <2>5. CASE CloseServer
    BY <2>5 DEF CloseServer, Settle, Pending, OutcomeStands
  <2>6. QED
    BY <1>1, <2>1, <2>2, <2>3, <2>4, <2>5 DEF Next
<1>2. QED
  BY <1>1, PollInvariant, PTL DEF Spec
=============================================================================
