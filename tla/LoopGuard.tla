----------------------------- MODULE LoopGuard -----------------------------
(***************************************************************************)
(* The client's loop guard for one run and one watched kind of nodes: the  *)
(* streak of back-to-back identical calls (rule v3), the history of        *)
(* completed calls with its two detectors, cycle and error-repeat (v4),    *)
(* and the before-gate that asks whether the call it is for is a loop.     *)
(*                                                                         *)
(* A call is its node and the fingerprint of its input, Undefined when it  *)
(* could not be read or the start never reached the wire; an outcome is ok *)
(* or failed with the digest of its output or error, or unknown.  A start  *)
(* is numbered, which stands for the seq of its envelope.  Every adapter   *)
(* names the instance a call runs as, and may start it again.              *)
(***************************************************************************)
EXTENDS Naturals, Sequences, FiniteSets, SequencesExt

CONSTANTS
    Nodes, Inputs, Instances, Digests, Undefined,
    Threshold,             \* back-to-back calls that are a loop
    Laps,                  \* CYCLE_LAPS
    MinPeriod, MaxPeriod,  \* CYCLE_MIN_PERIOD, CYCLE_MAX_PERIOD
    Failures,              \* ERROR_REPEAT_COUNT
    HistorySize,           \* LOOP_HISTORY_SIZE
    MaxOpen,               \* MAX_OPEN_CALLS_PER_RUN
    MaxCalls,              \* bound: calls that start
    MaxUnknown             \* bound: calls that equal nothing

ASSUME LoopAssumption ==
    /\ Undefined \notin Nodes \cup Inputs \cup Digests
    /\ \A n \in {Threshold, Laps, MinPeriod, MaxPeriod, Failures, HistorySize, MaxOpen, MaxCalls} :
          n \in Nat \ {0}
    /\ MaxUnknown \in Nat
    /\ MinPeriod >= 2 /\ Laps >= 2 /\ Laps * MaxPeriod <= HistorySize

VARIABLES
    streak,     \* the streak of the kind
    ring,       \* the newest completed calls, in the order they completed
    completed,  \* how many ever completed
    quiet,      \* no cycle is reported before so many completed
    verdict,    \* what the latest start tripped
    open,       \* the calls that started and have not completed
    starts,     \* history: every start
    ends,       \* history: every completion, with what its start was
    holds       \* history: the holds since the latest start

guard == <<streak, ring, completed, quiet, verdict, open>>
guardVars == <<guard, starts, ends, holds>>

NoStreak == [node |-> Undefined, in |-> Undefined, repeats |-> 0, first |-> 0, last |-> 0, tripped |-> FALSE]
NoLoop == [kind |-> Undefined, repeats |-> 0, first |-> 0, period |-> 0]
NoVerdict == [node |-> Undefined, info |-> NoLoop, tripped |-> FALSE]

Entry(n, x, outcome, out, seq) == [node |-> n, in |-> x, outcome |-> outcome, out |-> out, seq |-> seq]
Unknown(n, seq) == Entry(n, Undefined, Undefined, Undefined, seq)

GuardInit ==
    /\ streak = NoStreak /\ ring = << >> /\ completed = 0 /\ quiet = 0
    /\ verdict = NoVerdict /\ open = {}
    /\ starts = << >> /\ ends = << >> /\ holds = 0

-----------------------------------------------------------------------------
(* The detectors.                                                          *)

Newest(s, n) == IF Len(s) <= n THEN s ELSE SubSeq(s, Len(s) - n + 1, Len(s))
Push(s, e) == Newest(Append(s, e), HistorySize)

\* sameEntry: what is not comparable equals nothing.
Comparable(e) == Undefined \notin {e.node, e.in, e.outcome, e.out}
Same(d, e) == Comparable(d) /\ Comparable(e) /\ [d EXCEPT !.seq = e.seq] = e

LapsEqual(a, b, k) == \A i \in 0..(k - 1) : Same(ring[a + i], ring[b + i])

\* detectCycle for one period.
Cycles(n, x, k) ==
    LET base == Len(ring) - Laps * k + 1 IN
    /\ base >= 1
    /\ ring[base].node = n /\ ring[base].in = x
    /\ \A lap \in 1..(Laps - 1) : LapsEqual(base, base + lap * k, k)
    /\ \E i \in 1..(k - 1) : ring[base + i].node # n \/ ring[base + i].in # x

\* The identical laps, counted back from the newest.
LapsBack(k) ==
    CHOOSE m \in 1..Len(ring) :
        /\ \A l \in 1..m : l * k <= Len(ring) /\ LapsEqual(Len(ring) - l * k + 1, Len(ring) - k + 1, k)
        /\ (m + 1) * k <= Len(ring) => ~LapsEqual(Len(ring) - (m + 1) * k + 1, Len(ring) - k + 1, k)

Periods(n, x) == {k \in MinPeriod..MaxPeriod : completed >= quiet /\ Cycles(n, x, k)}
Cycle(k) ==
    [kind |-> "cycle", repeats |-> LapsBack(k), period |-> k,
     first |-> ring[Len(ring) - LapsBack(k) * k + 1].seq]

\* detectErrorRepeat: back through the history, past the calls of other nodes,
\* to the first that is not this failure.
Counted(seq) == [kind |-> "error-repeat", repeats |-> 0, period |-> 0, first |-> seq,
                 out |-> Undefined, over |-> FALSE]
FailedAs(out, e) == e.outcome = "fail" /\ Undefined \notin {e.node, e.out, e.in} /\ out \in {Undefined, e.out}
Back(n, e, c) ==
    IF c.over \/ e.node \notin {n, Undefined} THEN c
    ELSE IF ~FailedAs(c.out, e) THEN [c EXCEPT !.over = TRUE]
    ELSE [c EXCEPT !.repeats = @ + 1, !.first = e.seq, !.out = e.out]
ErrorRepeat(n, seq) ==
    LET c == FoldRight(LAMBDA e, acc : Back(n, e, acc), ring, Counted(seq))
    IN  IF c.repeats < Failures THEN NoLoop
        ELSE [kind |-> c.kind, repeats |-> c.repeats, first |-> c.first, period |-> c.period]

Smallest(K) == CHOOSE k \in K : \A l \in K : k <= l
Detected(n, x, seq) ==
    IF Periods(n, x) # {} THEN Cycle(Smallest(Periods(n, x))) ELSE ErrorRepeat(n, seq)

-----------------------------------------------------------------------------
(* What the session tells the guard.                                       *)

\* openCall: an instance that starts again will not complete the older start,
\* and past the cap the oldest call is forgotten.  The calls are kept in the
\* order of their seqs.
Oldest(calls) == CHOOSE c \in calls : \A d \in calls : c.seq <= d.seq
Opened(call) ==
    LET calls == {c \in open : c.node # call.node \/ c.inst # call.inst} \cup {call}
    IN  IF Cardinality(calls) <= MaxOpen THEN calls ELSE calls \ {Oldest(calls)}

\* record, of a start whose input was read.
Extended(n, x, seq) ==
    IF streak.node = n /\ streak.in = x
    THEN [streak EXCEPT !.repeats = @ + 1, !.last = seq, !.tripped = FALSE]
    ELSE [node |-> n, in |-> x, repeats |-> 1, first |-> seq, last |-> seq, tripped |-> FALSE]
Quiet_Never(n, x) == quiet
Quiet(n, x) ==
    IF Periods(n, x) = {} THEN quiet ELSE completed + Smallest(Periods(n, x))

Unread == {j \in DOMAIN starts : starts[j].in = Undefined}
Aborted == {j \in DOMAIN starts \ Unread : \E e \in Range(ends) : e.seq = j /\ e.in = Undefined}
MayBeUnknown == Cardinality(Unread) + Cardinality(Aborted) < MaxUnknown

Starting(n, i, x) ==
    /\ Len(starts) < MaxCalls
    /\ starts' = Append(starts, [node |-> n, inst |-> i, in |-> x, seen |-> Len(ends)])
    /\ holds' = 0
Starts(n, i, x) ==
    LET seq == Len(starts) + 1
        loop == Detected(n, x, seq)
    IN  /\ Starting(n, i, x)
        /\ streak' = Extended(n, x, seq)
        /\ open' = Opened([node |-> n, inst |-> i, in |-> x, seq |-> seq])
        /\ verdict' = IF loop = NoLoop THEN NoVerdict ELSE [node |-> n, info |-> loop, tripped |-> FALSE]
        /\ quiet' = Quiet(n, x)
        /\ UNCHANGED <<ring, completed, ends>>

\* Rule 3: it did happen, with arguments nobody can compare.
Cleared_Kept == streak
Cleared == NoStreak
StartsUnread(n, i) ==
    /\ MayBeUnknown /\ Starting(n, i, Undefined)
    /\ streak' = Cleared /\ verdict' = NoVerdict
    /\ open' = Opened([node |-> n, inst |-> i, in |-> Undefined, seq |-> Len(starts) + 1])
    /\ UNCHANGED <<ring, completed, quiet, ends>>

\* Not even the node is known: the call goes into the history as it starts.
StartsUnnamed ==
    LET e == Unknown(Undefined, Len(starts) + 1) IN
    /\ MayBeUnknown /\ Starting(Undefined, Undefined, Undefined)
    /\ streak' = Cleared /\ verdict' = NoVerdict
    /\ ring' = Push(ring, e) /\ completed' = completed + 1
    /\ ends' = Append(ends, e)
    /\ UNCHANGED <<quiet, open>>

\* entryFor.
EntryOf(n, x, outcome, out, seq) ==
    IF outcome = Undefined \/ x = Undefined THEN Unknown(n, seq) ELSE Entry(n, x, outcome, out, seq)

\* complete: the instance names the call.  A start that is still running is
\* the latest of its node and instance.
Finishes(n, i, outcome, out) ==
    \E c \in open :
        /\ c.node = n /\ c.inst = i
        /\ open' = open \ {c}
        /\ ring' = Push(ring, EntryOf(n, c.in, outcome, out, c.seq))
        /\ completed' = completed + 1
        /\ \E j \in DOMAIN starts :
              /\ starts[j].node = n /\ starts[j].inst = i
              /\ \A l \in (j + 1)..Len(starts) : starts[l].node # n \/ starts[l].inst # i
              /\ ends' = Append(ends, EntryOf(n, starts[j].in, outcome, out, j))
        /\ UNCHANGED <<streak, quiet, verdict, starts, holds>>

\* consult, from gate('before') with a debugger attached; a retry comes here
\* again.
Repeats(n) == streak.node = n /\ ~streak.tripped /\ streak.repeats >= Threshold
Tripped(n) == verdict.node = n /\ ~verdict.tripped
Spent_Alone(n) == verdict
Spent(n) == IF verdict.node = n THEN [verdict EXCEPT !.tripped = TRUE] ELSE verdict
Gate(n) ==
    /\ \/ /\ Repeats(n)
          /\ streak' = [streak EXCEPT !.tripped = TRUE] /\ verdict' = Spent(n)
       \/ /\ ~Repeats(n) /\ Tripped(n)
          /\ verdict' = [verdict EXCEPT !.tripped = TRUE] /\ UNCHANGED streak
    /\ holds' = holds + 1
    /\ UNCHANGED <<ring, completed, quiet, open, starts, ends>>

GuardNext ==
    \/ \E n \in Nodes, i \in Instances :
          \/ \E x \in Inputs : Starts(n, i, x)
          \/ StartsUnread(n, i)
          \/ \E outcome \in {"ok", "fail"}, out \in Digests : Finishes(n, i, outcome, out)
          \/ MayBeUnknown /\ Finishes(n, i, Undefined, Undefined)
    \/ StartsUnnamed
    \/ \E n \in Nodes : Gate(n)

GuardSpec == GuardInit /\ [][GuardNext]_guardVars

-----------------------------------------------------------------------------
(* Properties: what a loop is, over everything that happened.              *)

Greatest(K) == CHOOSE k \in K : \A l \in K : l <= k

\* The identical calls in a row up to the j-th start.
Identical(j, m) == \A l \in (j - m + 1)..j : starts[l].node = starts[j].node /\ starts[l].in = starts[j].in
InARow(j) == IF starts[j].in = Undefined THEN 0 ELSE Greatest({m \in 1..j : Identical(j, m)})

\* "a loop is the same call BACK-TO-BACK": the streak is the calls in a row up
\* to the latest start, whatever completed, failed or was held between them.
StreakIsBackToBack ==
    LET j == Len(starts)
        m == IF j = 0 THEN 0 ELSE InARow(j)
    IN  IF m = 0 THEN streak = NoStreak
        ELSE /\ streak.node = starts[j].node /\ streak.in = starts[j].in
             /\ streak.repeats = m /\ streak.first = j - m + 1 /\ streak.last = j

\* The history a start looks at, and the periods its end repeats m times.
Window(j) == Newest(SubSeq(ends, 1, starts[j].seen), HistorySize)
Periodic(h, k, m) ==
    /\ m * k <= Len(h)
    /\ \A i \in (Len(h) - m * k + 1)..(Len(h) - k) : Same(h[i], h[i + k])
Round(j, k) ==
    LET h == Window(j)
        lap == SubSeq(h, Len(h) - k + 1, Len(h))
        calls == {<<lap[i].node, lap[i].in>> : i \in DOMAIN lap}
    IN  /\ Periodic(h, k, Laps)
        /\ lap[1].node = starts[j].node /\ lap[1].in = starts[j].in
        /\ Cardinality(calls) >= 2

\* The period the j-th start is found to continue (0: none).  After one was
\* found the next needs another full lap.
Found ==
    LET found[j \in 0..Len(starts)] ==
            LET K == IF j = 0 THEN {}
                     ELSE {k \in MinPeriod..MaxPeriod :
                             /\ starts[j].in # Undefined /\ Round(j, k)
                             /\ \A i \in 1..(j - 1) : found[i] # 0 => starts[j].seen >= starts[i].seen + found[i]}
            IN  IF K = {} THEN 0 ELSE Smallest(K)
    IN  found

\* The failures in a row of the node that starts, whoever else ran between.
OwnFailures(j) ==
    LET h == Window(j)
        own == {i \in DOMAIN h : h[i].node \in {starts[j].node, Undefined}}
        tails == {{i \in own : i >= first} : first \in own}
    IN  {t \in tails : \A i \in t : FailedAs(h[i].out, h[i]) /\ h[i].out = h[Greatest(own)].out}
Failing(j) == IF OwnFailures(j) = {} THEN 0 ELSE Greatest({Cardinality(t) : t \in OwnFailures(j)})

LoopAt(j) == Found[j] # 0 \/ (starts[j].in # Undefined /\ Failing(j) >= Failures)

\* A cycle is identical laps with identical results, three and no fewer, held
\* once a lap; error-repeat is the node's own failures: what the ring and the
\* counters say is so, over the whole history, with the numbers on the banner.
VerdictIsTrue ==
    LET j == Len(starts) IN
    IF j = 0 \/ ~LoopAt(j) THEN verdict = NoVerdict
    ELSE /\ verdict.node = starts[j].node
         /\ LET info == verdict.info
                h == Window(j)
                k == Found[j]
                m == Greatest({n \in 1..HistorySize : Periodic(h, k, n)})
            IN  IF k # 0
                THEN info = [kind |-> "cycle", period |-> k, repeats |-> m, first |-> h[Len(h) - m * k + 1].seq]
                ELSE info.kind = "error-repeat" /\ info.repeats = Failing(j)

\* "An innocent call" is never held, a loop is, and once: not again when the
\* operator retries the call, not for two reasons.  A gate that is consulted
\* holds its call when one of the two rules says so (the branches of Gate).
HoldsLoopsOnce ==
    \A n \in Nodes :
        Repeats(n) \/ Tripped(n) <=>
            /\ starts # << >> /\ starts[Len(starts)].node = n /\ holds = 0
            /\ InARow(Len(starts)) >= Threshold \/ LoopAt(Len(starts))
=============================================================================
