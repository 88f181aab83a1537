--------------------------- MODULE PyGates_proofs ---------------------------
(***************************************************************************)
(* Proofs about PyGates: however many threads race for a gate, one decides, *)
(* the record tells it once, the host returns with it, and no host leaves a *)
(* gate behind.  What is invariant is said of one host at a time, in two    *)
(* parts: the engine's side (EngineOK) and the call's (CallOK).             *)
(***************************************************************************)
EXTENDS PyGates, TLAPS

Mails == {"empty", "request", "cancelled"} \cup Acts

\* The engine's record of a gate, its mailboxes and its release agree.
EngineOK(h) ==
    /\ rel[h].phase = "none" <=> gate[h].at # "out"
    /\ \A i \in Resumptions(h) : rel[h].phase \in {"told", "done"} /\ events[h][i] = rel[h].act
    /\ \A i, j \in Resumptions(h) : i = j
    /\ \A i \in DOMAIN box[h] : box[h][i] \in Acts => rel[h].phase = "done" /\ box[h][i] = rel[h].act
    /\ gate[h].at = "new" <=> Len(box[h]) = 0
    /\ Len(box[h]) > 0 /\ box[h][Len(box[h])] = "request" =>
          gate[h].at = "validating" /\ gate[h].ticket = Len(box[h])

Before == {"idle", "matching", "matched"}
Watching == {"looking", "asking", "blocked", "taking"}

\* Where the host is, and what it knows of its gate.
CallOK(h) ==
    /\ pc[h] \in Before => gate[h].at = "new" /\ handled[h] = 0
    /\ gate[h].at = "new" => pc[h] \in Before \cup {"out"}
    /\ ret[h] \in Acts => pc[h] = "out" /\ (gate[h].at = "new" \/ (rel[h].phase = "done" /\ ret[h] = rel[h].act))
    /\ watch[h] <= Len(box[h])
    /\ pc[h] \in Before \cup {"announcing"} => watch[h] = 0
    /\ pc[h] \in Watching \cup {"validating"} => watch[h] >= 1
    /\ pc[h] \in {"announcing", "reading"} => handled[h] < Len(box[h])
    /\ pc[h] \in Watching => handled[h] < watch[h]
    /\ pc[h] = "validating" =>
          handled[h] < Len(box[h]) \/ (handled[h] = Len(box[h]) /\ box[h][Len(box[h])] = "request")
    /\ h \in Registered /\ pc[h] = "out" =>
          ret[h] = "inHold" \/ (h \in tasks /\ ret[h] \in Exceptions \ {"cancelled"})

PyInv == TypeOK /\ \A h \in Hosts : EngineOK(h) /\ CallOK(h)

EngineSame(k) ==
    gate'[k] = gate[k] /\ box'[k] = box[k] /\ rel'[k] = rel[k] /\ events'[k] = events[k]
CallSame(k) ==
    pc'[k] = pc[k] /\ watch'[k] = watch[k] /\ handled'[k] = handled[k] /\ ret'[k] = ret[k]
    /\ tasks' = tasks

\* The mailboxes only fill up: what a host has seen of them stays.
BoxGrows(h) ==
    /\ Len(box'[h]) >= Len(box[h])
    /\ \A i \in DOMAIN box[h] : box[h][i] = "request" => box'[h][i] = "request"

-----------------------------------------------------------------------------
(* What a step leaves alone.                                               *)

LEMMA EngineFrame ==
    ASSUME NEW k \in Hosts, EngineOK(k), EngineSame(k)
    PROVE  EngineOK(k)'
BY DEF EngineOK, EngineSame, Resumptions

LEMMA CallFrame ==
    ASSUME NEW k \in Hosts, CallOK(k), EngineSame(k), CallSame(k)
    PROVE  CallOK(k)'
BY DEF CallOK, EngineSame, CallSame, Registered

-----------------------------------------------------------------------------
(* The engine's operations on a gate.                                      *)

\* A new mailbox follows one that is used.
LEMMA FreshIs ==
    ASSUME TypeOK, NEW h \in Hosts, Len(box[h]) > 0
    PROVE  /\ Fresh(h) \in Seq(Mails)
           /\ Len(Fresh(h)) >= Len(box[h])
           /\ Fresh(h)[Len(Fresh(h))] = "empty"
           /\ box[h][Len(box[h])] # "empty" => Len(Fresh(h)) = Len(box[h]) + 1
           /\ \A i \in 1..Len(box[h]) : Fresh(h)[i] = box[h][i]
           /\ \A i \in 1..Len(Fresh(h)) : Fresh(h)[i] # "empty" => i \in 1..Len(box[h])
<1>1. box[h] \in Seq(Mails)
  BY DEF TypeOK, Mails
<1>2. CASE box[h][Len(box[h])] = "empty"
  <2>1. Fresh(h) = box[h]
    BY <1>2 DEF Fresh, Last
  <2>2. QED
    BY <1>1, <1>2, <2>1
<1>3. CASE box[h][Len(box[h])] # "empty"
  <2>1. Fresh(h) = Append(box[h], "empty") /\ "empty" \in Mails
    BY <1>3 DEF Fresh, Last, Mails
  <2>2. QED
    BY <1>1, <1>3, <2>1
<1>4. QED
  BY <1>2, <1>3

\* Whoever takes a registered gate is the only one to release it.
LEMMA TakeKeeps ==
    ASSUME TypeOK, NEW h \in Hosts, EngineOK(h), h \in Registered,
           NEW act \in Acts, NEW by \in {"loop", "timer", "host", "owner"}, Take(h, act, by)
    PROVE  /\ gate' \in [Hosts -> Gates] /\ rel' \in [Hosts -> Releases]
           /\ box' \in [Hosts -> Seq(Mails)] /\ events' = events
           /\ EngineOK(h)' /\ BoxGrows(h) /\ gate'[h].at = "out"
           /\ box[h][Len(box[h])] # "empty" => Len(box'[h]) = Len(box[h]) + 1
           /\ \A k \in Hosts \ {h} : EngineSame(k)
<1>1. gate[h].at \in {"held", "validating"} /\ Len(box[h]) > 0 /\ box[h] \in Seq(Mails)
  BY DEF Registered, EngineOK, TypeOK, Mails
<1>2. gate' = [gate EXCEPT ![h] = [at |-> "out", ticket |-> 0]] /\ events' = events
  BY DEF Take
<1>3. rel' = [rel EXCEPT ![h] = [phase |-> "taken", act |-> act, by |-> by]]
  BY DEF Take
<1>4. box' = [box EXCEPT ![h] = Fresh(h)]
  BY DEF Take
<1>5. gate' \in [Hosts -> Gates] /\ gate'[h].at = "out"
  BY <1>2 DEF TypeOK, Gates
<1>6. rel' \in [Hosts -> Releases] /\ rel'[h].phase = "taken" /\ rel'[h].act = act
  BY <1>3 DEF TypeOK, Releases
<1>7. box' \in [Hosts -> Seq(Mails)] /\ box'[h] = Fresh(h)
  BY <1>1, <1>4, FreshIs DEF TypeOK, Mails
<1>8. \A k \in Hosts \ {h} : EngineSame(k)
  BY <1>2, <1>3, <1>4 DEF EngineSame, TypeOK
<1>9. BoxGrows(h)
  BY <1>1, <1>7, FreshIs DEF BoxGrows
<1>10. EngineOK(h)'
  <2>1. rel[h].phase = "none"
    BY <1>1 DEF EngineOK
  <2>2. Resumptions(h)' = Resumptions(h) /\ Resumptions(h) = {}
    BY <1>2, <2>1 DEF Resumptions, EngineOK
  <2>3. \A i \in DOMAIN box'[h] : box'[h][i] \notin Acts
    <3>1. \A i \in 1..Len(box[h]) : box[h][i] \notin Acts
      BY <1>1, <2>1 DEF EngineOK
    <3>2. QED
      BY <1>1, <1>7, <3>1, FreshIs DEF Acts
  <2>4. Len(box'[h]) > 0 /\ box'[h][Len(box'[h])] = "empty"
    BY <1>1, <1>7, FreshIs
  <2>5. QED
    BY <1>5, <1>6, <2>2, <2>3, <2>4 DEF EngineOK
<1>11. QED
  BY <1>1, <1>2, <1>5, <1>6, <1>7, <1>8, <1>9, <1>10, FreshIs

\* Releasing a gate, or leaving it to whoever did.
LEMMA ContinueKeeps ==
    ASSUME TypeOK, NEW h \in Hosts, EngineOK(h),
           NEW by \in {"loop", "timer", "host", "owner"}, Continue(h, by)
    PROVE  /\ gate' \in [Hosts -> Gates] /\ rel' \in [Hosts -> Releases]
           /\ box' \in [Hosts -> Seq(Mails)] /\ events' = events
           /\ EngineOK(h)' /\ BoxGrows(h) /\ gate'[h].at \notin {"held", "validating"}
           /\ gate[h].at # "new" => gate'[h].at # "new"
           /\ \/ EngineSame(h)
              \/ h \in Registered /\ gate'[h].at = "out"
           /\ \A k \in Hosts \ {h} : EngineSame(k)
<1>1. CASE h \in Registered
  <2>1. Take(h, "continue", by) /\ "continue" \in Acts
    BY <1>1 DEF Continue, StillHeld, Acts
  <2>2. QED
    BY <1>1, <2>1, TakeKeeps
<1>2. CASE h \notin Registered
  <2>1. UNCHANGED engine
    BY <1>2 DEF Continue, StillHeld
  <2>2. EngineSame(h) /\ events' = events /\ \A k \in Hosts : EngineSame(k)
    BY <2>1 DEF EngineSame, engine
  <2>3. gate' \in [Hosts -> Gates] /\ rel' \in [Hosts -> Releases] /\ box' \in [Hosts -> Seq(Mails)]
    BY <2>1 DEF engine, TypeOK, Mails
  <2>4. gate[h].at \notin {"held", "validating"}
    BY <1>2 DEF Registered
  <2>5. EngineOK(h)'
    BY <2>2, EngineFrame
  <2>6. BoxGrows(h)
    BY <2>2, <2>3 DEF BoxGrows, EngineSame, TypeOK, Mails
  <2>7. QED
    BY <2>2, <2>3, <2>4, <2>5, <2>6 DEF EngineSame
<1>3. QED
  BY <1>1, <1>2

\* A call whose host stays where it is outlives whatever the engine does.
LEMMA CallOutlives ==
    ASSUME TypeOK, NEW h \in Hosts, EngineOK(h), CallOK(h), box' \in [Hosts -> Seq(Mails)],
           CallSame(h), BoxGrows(h),
           gate[h].at = "new" <=> gate'[h].at = "new",
           h \in Registered' => h \in Registered,
           rel[h].phase = "done" => rel'[h].phase = "done" /\ rel'[h].act = rel[h].act
    PROVE  CallOK(h)'
<1>1. box[h] \in Seq(Mails) /\ box'[h] \in Seq(Mails) /\ handled[h] \in Nat /\ watch[h] \in Nat
  BY DEF TypeOK, Mails
<1>2. pc[h] = "validating" =>
         handled[h] < Len(box'[h]) \/ (handled[h] = Len(box'[h]) /\ box'[h][Len(box'[h])] = "request")
  <2>1. CASE handled[h] < Len(box[h])
    BY <1>1, <2>1 DEF BoxGrows
  <2>2. CASE handled[h] = Len(box[h]) /\ box[h][Len(box[h])] = "request" /\ Len(box[h]) > 0
    BY <1>1, <2>2 DEF BoxGrows
  <2>3. pc[h] = "validating" => Len(box[h]) > 0
    BY <1>1 DEF CallOK
  <2>4. QED
    BY <2>1, <2>2, <2>3 DEF CallOK
<1>3. QED
  BY <1>1, <1>2 DEF CallOK, CallSame, BoxGrows

\* Everything typed, and every host but one where it was.
LEMMA OneHost ==
    ASSUME PyInv, NEW h \in Hosts, TypeOK', EngineOK(h)', CallOK(h)',
           \A k \in Hosts \ {h} : EngineSame(k) /\ CallSame(k)
    PROVE  PyInv'
BY EngineFrame, CallFrame DEF PyInv

\* A step that touches neither the engine nor a call.
LEMMA Elsewhere ==
    ASSUME PyInv, TypeOK', UNCHANGED <<engine, hosts>>
    PROVE  PyInv'
BY EngineFrame, CallFrame DEF PyInv, EngineSame, CallSame, engine, hosts

-----------------------------------------------------------------------------
(* The release of a gate, whoever runs it.                                 *)

LEMMA TakeStep ==
    ASSUME PyInv, NEW h \in Hosts, h \in Registered, NEW act \in Acts,
           NEW by \in {"loop", "timer", "host", "owner"}, Take(h, act, by),
           UNCHANGED <<hosts, due, transport, owner>>
    PROVE  PyInv'
<1>1. TypeOK /\ EngineOK(h) /\ CallOK(h)
  BY DEF PyInv
<1>2. EngineOK(h)' /\ BoxGrows(h) /\ \A k \in Hosts \ {h} : EngineSame(k)
  BY <1>1, TakeKeeps
<1>3. TypeOK'
  BY <1>1, TakeKeeps DEF TypeOK, Mails, hosts, transport
<1>4. \A k \in Hosts : CallSame(k)
  BY DEF CallSame, hosts
<1>5. CallOK(h)'
  <2>1. gate[h].at # "new" /\ gate'[h].at = "out"
    BY <1>1, TakeKeeps DEF Registered
  <2>2. h \notin Registered' /\ rel[h].phase = "none"
    BY <1>1, <2>1 DEF Registered, EngineOK
  <2>3. box' \in [Hosts -> Seq(Mails)]
    BY <1>1, TakeKeeps
  <2>4. QED
    BY <1>1, <1>2, <1>4, <2>1, <2>2, <2>3, CallOutlives
<1>6. QED
  BY <1>2, <1>3, <1>4, <1>5, OneHost

LEMMA ContinueStep ==
    ASSUME PyInv, NEW h \in Hosts, NEW by \in {"loop", "timer", "host", "owner"}, Continue(h, by),
           UNCHANGED <<hosts, due>>, loop' \in Threads, owner' \in Owners,
           attached' \in BOOLEAN, armed' \in BOOLEAN
    PROVE  PyInv'
<1>1. TypeOK /\ EngineOK(h) /\ CallOK(h)
  BY DEF PyInv
<1>2. EngineOK(h)' /\ BoxGrows(h) /\ box' \in [Hosts -> Seq(Mails)]
      /\ \A k \in Hosts \ {h} : EngineSame(k)
  BY <1>1, ContinueKeeps
<1>3. TypeOK'
  BY <1>1, ContinueKeeps DEF TypeOK, Mails, hosts
<1>4. \A k \in Hosts : CallSame(k)
  BY DEF CallSame, hosts
<1>5. CASE EngineSame(h)
  <2>1. CallOK(h)'
    BY <1>1, <1>4, <1>5, CallFrame
  <2>2. QED
    BY <1>2, <1>3, <1>4, <2>1, OneHost
<1>6. CASE h \in Registered /\ gate'[h].at = "out"
  <2>1. gate[h].at # "new" /\ h \notin Registered' /\ rel[h].phase = "none"
    BY <1>1, <1>6 DEF Registered, EngineOK
  <2>2. CallOK(h)'
    BY <1>1, <1>2, <1>4, <1>6, <2>1, CallOutlives
  <2>3. QED
    BY <1>2, <1>3, <1>4, <2>2, OneHost
<1>7. QED
  BY <1>1, <1>5, <1>6, ContinueKeeps

LEMMA TellStep == ASSUME PyInv, NEW h \in Hosts, Tell(h) PROVE PyInv'
<1>1. TypeOK /\ EngineOK(h) /\ CallOK(h)
  BY DEF PyInv
<1>2. /\ rel[h].phase = "taken" /\ rel' = [rel EXCEPT ![h].phase = "told"]
      /\ events' = [events EXCEPT ![h] = IF Disposed THEN @ ELSE Append(@, rel[h].act)]
      /\ gate' = gate /\ box' = box /\ UNCHANGED <<hosts, due, transport, owner>>
  BY DEF Tell, Emitted
<1>3. \A k \in Hosts : CallSame(k)
  BY <1>2 DEF CallSame, hosts
<1>4. \A k \in Hosts \ {h} : EngineSame(k)
  BY <1>1, <1>2 DEF EngineSame, TypeOK
<1>5. rel[h] \in Releases /\ rel' \in [Hosts -> Releases] /\ rel'[h].phase = "told" /\ rel'[h].act = rel[h].act
  BY <1>1, <1>2 DEF TypeOK, Releases
<1>6. events[h] \in Seq({"paused"} \cup Acts) /\ rel[h].act \in Acts
  BY <1>1, <1>5 DEF TypeOK, Releases
<1>7. events' \in [Hosts -> Seq({"paused"} \cup Acts)]
  BY <1>1, <1>2, <1>6 DEF TypeOK
<1>8. TypeOK'
  BY <1>1, <1>2, <1>5, <1>7 DEF TypeOK, hosts, transport
<1>9. EngineOK(h)'
  <2>1. Resumptions(h) = {}
    BY <1>1, <1>2 DEF EngineOK
  <2>2. events'[h] = events[h] \/ events'[h] = Append(events[h], rel[h].act)
    BY <1>1, <1>2 DEF TypeOK
  <2>3. \A i \in Resumptions(h)' : i = Len(events[h]) + 1 /\ events'[h][i] = rel[h].act
    BY <1>6, <2>1, <2>2 DEF Resumptions
  <2>4. QED
    BY <1>1, <1>2, <1>5, <2>3 DEF EngineOK
<1>10. CallOK(h)'
  <2>1. h \in Registered' <=> h \in Registered
    BY <1>2 DEF Registered
  <2>2. QED
    BY <1>1, <1>2, <1>3, <2>1 DEF CallOK, CallSame
<1>11. QED
  BY <1>3, <1>4, <1>8, <1>9, <1>10, OneHost

LEMMA DeliverStep == ASSUME PyInv, NEW h \in Hosts, Deliver(h) PROVE PyInv'
<1>1. TypeOK /\ EngineOK(h) /\ CallOK(h)
  BY DEF PyInv
<1>2. /\ rel[h].phase = "told" /\ rel' = [rel EXCEPT ![h].phase = "done"]
      /\ box' = [box EXCEPT ![h][Len(box[h])] = IF @ = "empty" THEN rel[h].act ELSE @]
      /\ gate' = gate /\ events' = events /\ UNCHANGED <<hosts, due, transport, owner>>
  BY DEF Deliver
<1>3. \A k \in Hosts : CallSame(k)
  BY <1>2 DEF CallSame, hosts
<1>4. \A k \in Hosts \ {h} : EngineSame(k)
  BY <1>1, <1>2 DEF EngineSame, TypeOK
<1>5. rel[h] \in Releases /\ rel' \in [Hosts -> Releases] /\ rel'[h].phase = "done" /\ rel'[h].act = rel[h].act
  BY <1>1, <1>2 DEF TypeOK, Releases
<1>6. box[h] \in Seq(Mails) /\ rel[h].act \in Acts
  BY <1>1, <1>5 DEF TypeOK, Releases, Mails
<1>7. gate[h].at = "out" /\ Len(box[h]) > 0
  BY <1>1, <1>2 DEF EngineOK
<1>8. /\ box'[h] \in Seq(Mails) /\ Len(box'[h]) = Len(box[h])
      /\ \A i \in 1..Len(box[h]) :
            box'[h][i] = IF i = Len(box[h]) /\ box[h][i] = "empty" THEN rel[h].act ELSE box[h][i]
  BY <1>1, <1>2, <1>6, <1>7 DEF TypeOK, Mails
<1>9. box' \in [Hosts -> Seq(Mails)]
  BY <1>1, <1>2, <1>8 DEF TypeOK, Mails
<1>10. TypeOK'
  BY <1>1, <1>2, <1>5, <1>9 DEF TypeOK, Mails, hosts, transport
<1>11. EngineOK(h)'
  <2>1. Resumptions(h)' = Resumptions(h)
    BY <1>2 DEF Resumptions
  <2>2. \A i \in DOMAIN box[h] : box[h][i] \notin Acts
    BY <1>1, <1>2 DEF EngineOK
  <2>3. \A i \in DOMAIN box'[h] : box'[h][i] \in Acts => box'[h][i] = rel[h].act
    BY <1>6, <1>8, <2>2
  <2>4. box'[h][Len(box'[h])] # "request"
    BY <1>1, <1>6, <1>7, <1>8 DEF EngineOK, Acts
  <2>5. QED
    BY <1>1, <1>2, <1>5, <1>7, <1>8, <2>1, <2>3, <2>4 DEF EngineOK
<1>12. CallOK(h)'
  <2>1. BoxGrows(h)
    BY <1>6, <1>8 DEF BoxGrows
  <2>2. h \in Registered' => h \in Registered
    BY <1>2 DEF Registered
  <2>3. QED
    BY <1>1, <1>2, <1>3, <1>5, <1>9, <2>1, <2>2, CallOutlives
<1>13. QED
  BY <1>3, <1>4, <1>10, <1>11, <1>12, OneHost

-----------------------------------------------------------------------------
(* The host.                                                               *)

PCs == {"idle", "matching", "matched", "announcing", "reading", "looking",
        "asking", "blocked", "taking", "validating", "discarding", "final", "out"}

\* A step of a host within its own call: at the end of it the call is in order.
LEMMA HostOnly ==
    ASSUME PyInv, NEW h \in Hosts, UNCHANGED <<engine, tasks, due, transport, owner>>,
           NEW at \in PCs, NEW w \in Nat, NEW d \in Nat, NEW with \in Ends,
           pc' = [pc EXCEPT ![h] = at], watch' = [watch EXCEPT ![h] = w],
           handled' = [handled EXCEPT ![h] = d], ret' = [ret EXCEPT ![h] = with],
           CallOK(h)'
    PROVE  PyInv'
<1>1. TypeOK /\ EngineOK(h)
  BY DEF PyInv
<1>2. \A k \in Hosts : EngineSame(k)
  BY DEF EngineSame, engine
<1>3. \A k \in Hosts \ {h} : CallSame(k)
  BY <1>1 DEF CallSame, TypeOK
<1>4. pc' \in [Hosts -> PCs]
  BY <1>1 DEF TypeOK, PCs
<1>5. watch' \in [Hosts -> Nat] /\ handled' \in [Hosts -> Nat]
  BY <1>1 DEF TypeOK
<1>6. ret' \in [Hosts -> Ends]
  BY <1>1 DEF TypeOK
<1>7. TypeOK'
  BY <1>1, <1>4, <1>5, <1>6 DEF TypeOK, PCs, engine, transport
<1>8. EngineOK(h)'
  BY <1>1, <1>2, EngineFrame
<1>9. QED
  BY <1>2, <1>3, <1>7, <1>8, OneHost

\* The host goes from one place to another, and nothing else happens.
LEMMA Moves ==
    ASSUME PyInv, NEW h \in Hosts, UNCHANGED <<engine, tasks, due, transport, owner, watch, handled>>,
           NEW at \in PCs, NEW with \in Ends,
           Goto(h, at), ret' = [ret EXCEPT ![h] = with], CallOK(h)'
    PROVE  PyInv'
<1>1. watch' = [watch EXCEPT ![h] = watch[h]] /\ handled' = [handled EXCEPT ![h] = handled[h]]
      /\ watch[h] \in Nat /\ handled[h] \in Nat
  BY DEF PyInv, TypeOK
<1>2. QED
  BY <1>1, HostOnly DEF Goto

LEMMA EngineStays ==
    ASSUME NEW h \in Hosts, UNCHANGED engine
    PROVE  /\ EngineSame(h) /\ Mail(h) = box[h][watch[h]]
           /\ h \in Registered' <=> h \in Registered
BY DEF EngineSame, engine, Mail, Registered

LEMMA MovesStep ==
    ASSUME PyInv, NEW h \in Hosts,
           \/ Enters(h) \/ Matches(h) \/ MatchesNot(h) \/ Looks(h) \/ Asks(h) \/ Wakes(h)
           \/ TakesDecision(h) \/ Finishes(h) \/ InterruptedInHold(h)
           \/ \E exc \in Exceptions : Interrupted(h, exc)
    PROVE  PyInv'
<1>1. TypeOK /\ EngineOK(h) /\ CallOK(h)
  BY DEF PyInv
<1>2. UNCHANGED <<engine, tasks, due, transport, owner, watch, handled>>
  BY DEF Enters, Matches, MatchesNot, Looks, Asks, Wakes, TakesDecision, Finishes, Interrupted,
         InterruptedInHold, Stays
<1>3. EngineSame(h) /\ (h \in Registered' <=> h \in Registered)
  BY <1>2, EngineStays
<1>4. ret[h] \in Ends /\ pc \in [Hosts -> PCs]
      /\ watch[h] \in Nat /\ handled[h] \in Nat /\ box[h] \in Seq(Mails)
  BY <1>1 DEF TypeOK, PCs, Mails
<1>5. ret \in [Hosts -> Ends]
  BY <1>1 DEF TypeOK
<1>6. ASSUME UNCHANGED ret PROVE ret' = [ret EXCEPT ![h] = ret[h]]
  BY <1>5, <1>6
\* The record a host returns with is the one of a release that is over.
<1>7. ASSUME Len(box[h]) > 0, NEW i \in 1..Len(box[h]), box[h][i] \in Acts
      PROVE  gate[h].at = "out" /\ rel[h].phase = "done" /\ box[h][i] = rel[h].act
  BY <1>1, <1>4, <1>7 DEF EngineOK
<1>8. CASE Enters(h)
  <2>1. CASE Goto(h, "matching") /\ UNCHANGED ret
    <3>1. CallOK(h)'
      BY <1>1, <1>2, <1>3, <1>4, <1>8, <2>1 DEF CallOK, Enters, At, Goto, EngineSame, Before, Watching, Acts
    <3>2. QED
      BY <1>2, <1>4, <1>6, <2>1, <3>1, Moves DEF PCs
  <2>2. CASE Return(h, "continue")
    <3>1. CallOK(h)'
      BY <1>1, <1>2, <1>3, <1>4, <1>5, <1>8, <2>2
      DEF CallOK, Enters, At, Return, Goto, EngineSame, Before, Watching, Acts, Registered
    <3>2. QED
      BY <1>2, <2>2, <3>1, Moves DEF PCs, Acts, Return, Ends
  <2>3. QED
    BY <1>8, <2>1, <2>2 DEF Enters
<1>9. CASE Matches(h)
  <2>1. Goto(h, "matched") /\ UNCHANGED ret /\ pc[h] = "matching"
    BY <1>9 DEF Matches, At
  <2>2. CallOK(h)'
    BY <1>1, <1>2, <1>3, <1>4, <2>1 DEF CallOK, Goto, EngineSame, Before, Watching, Acts
  <2>3. QED
    BY <1>2, <1>4, <1>6, <2>1, <2>2, Moves DEF PCs
<1>10. CASE MatchesNot(h)
  <2>1. Return(h, "continue") /\ pc[h] = "matching"
    BY <1>10 DEF MatchesNot, At
  <2>2. CallOK(h)'
    BY <1>1, <1>2, <1>3, <1>4, <1>5, <2>1
    DEF CallOK, Return, Goto, EngineSame, Before, Watching, Acts, Registered
  <2>3. QED
    BY <1>2, <2>1, <2>2, Moves DEF PCs, Acts, Return, Ends
<1>11. CASE Looks(h)
  <2>1. PICK at \in {"asking", "taking"} : Goto(h, at) /\ UNCHANGED ret /\ pc[h] = "looking"
    BY <1>11 DEF Looks, At
  <2>2. CallOK(h)'
    BY <1>1, <1>2, <1>3, <1>4, <2>1 DEF CallOK, Goto, EngineSame, Before, Watching, Acts
  <2>3. QED
    BY <1>2, <1>4, <1>6, <2>1, <2>2, Moves DEF PCs
<1>12. CASE Asks(h)
  <2>1. PICK at \in {"discarding", "blocked"} : Goto(h, at) /\ UNCHANGED ret /\ pc[h] = "asking"
    BY <1>12 DEF Asks, At, AfterAsking
  <2>2. CallOK(h)'
    BY <1>1, <1>2, <1>3, <1>4, <2>1 DEF CallOK, Goto, EngineSame, Before, Watching, Acts
  <2>3. at \in PCs
    BY DEF PCs
  <2>4. QED
    BY <1>2, <1>4, <1>6, <2>1, <2>2, <2>3, Moves
<1>13. CASE Wakes(h)
  <2>1. PICK at \in {"reading", "taking"} : Goto(h, at) /\ UNCHANGED ret /\ pc[h] = "blocked"
    BY <1>13 DEF Wakes, At
  <2>2. CallOK(h)'
    BY <1>1, <1>2, <1>3, <1>4, <2>1 DEF CallOK, Goto, EngineSame, Before, Watching, Acts
  <2>3. QED
    BY <1>2, <1>4, <1>6, <2>1, <2>2, Moves DEF PCs
<1>14. CASE TakesDecision(h)
  <2>1. Return(h, Mail(h)) /\ pc[h] = "taking" /\ Mail(h) \in Acts /\ Mail(h) = box[h][watch[h]]
    BY <1>14 DEF TakesDecision, At, Mail
  <2>2. watch[h] \in 1..Len(box[h])
    BY <1>1, <1>4, <2>1 DEF CallOK, Watching
  <2>3. gate[h].at = "out" /\ rel[h].phase = "done" /\ Mail(h) = rel[h].act
    BY <1>4, <1>7, <2>1, <2>2
  <2>4. CallOK(h)'
    BY <1>1, <1>2, <1>3, <1>4, <1>5, <2>1, <2>3
    DEF CallOK, Return, Goto, EngineSame, Before, Watching, Registered
  <2>5. QED
    BY <1>2, <2>1, <2>4, Moves DEF PCs, Return, Ends
<1>15. CASE Finishes(h)
  <2>1. Return(h, FinalDecision(h)) /\ pc[h] = "final" /\ FinalDecision(h) \in Acts
        /\ FinalDecision(h) = box[h][Len(box[h])]
    BY <1>15 DEF Finishes, At, FinalDecision, Last
  <2>2. Len(box[h]) > 0
    BY <1>1, <1>4, <2>1 DEF CallOK, EngineOK, Before
  <2>3. gate[h].at = "out" /\ rel[h].phase = "done" /\ FinalDecision(h) = rel[h].act
    BY <1>4, <1>7, <2>1, <2>2
  <2>4. CallOK(h)'
    BY <1>1, <1>2, <1>3, <1>4, <1>5, <2>1, <2>3
    DEF CallOK, Return, Goto, EngineSame, Before, Watching, Registered
  <2>5. QED
    BY <1>2, <2>1, <2>4, Moves DEF PCs, Return, Ends
<1>16. CASE \E exc \in Exceptions : Interrupted(h, exc)
  <2>1. PICK exc \in Exceptions : Interrupted(h, exc)
    BY <1>16
  <2>2. pc[h] \in Watching \cup {"reading", "validating"} /\ ret' = [ret EXCEPT ![h] = exc]
    BY <2>1 DEF Interrupted, Strikes, At, Loops, Waits, Watching
  <2>3. PICK at \in {"discarding", "out"} :
          Goto(h, at) /\ (at = "out" => h \in tasks /\ exc # "cancelled")
    BY <2>1 DEF Interrupted, Catches
  <2>4. CallOK(h)'
    BY <1>1, <1>2, <1>3, <1>4, <1>5, <2>2, <2>3
    DEF CallOK, Goto, EngineSame, Before, Watching, Acts, Exceptions
  <2>5. at \in PCs /\ exc \in Ends
    BY DEF PCs, Ends
  <2>6. QED
    BY <1>2, <2>2, <2>3, <2>4, <2>5, Moves
<1>17. CASE InterruptedInHold(h)
  <2>1. Return(h, "inHold") /\ pc[h] = "announcing"
    BY <1>17 DEF InterruptedInHold, At
  <2>2. CallOK(h)'
    BY <1>1, <1>2, <1>3, <1>4, <1>5, <2>1 DEF CallOK, Return, Goto, EngineSame, Before, Watching, Acts
  <2>3. QED
    BY <1>2, <2>1, <2>2, Moves DEF PCs, Return, Ends
<1>18. QED
  BY <1>8, <1>9, <1>10, <1>11, <1>12, <1>13, <1>14, <1>15, <1>16, <1>17

LEMMA ReadsStep ==
    ASSUME PyInv, NEW h \in Hosts, ReadsMailbox(h) \/ TakesRequest(h)
    PROVE  PyInv'
<1>1. TypeOK /\ EngineOK(h) /\ CallOK(h)
  BY DEF PyInv
<1>2. UNCHANGED <<engine, tasks, due, transport, owner, ret>>
  BY DEF ReadsMailbox, TakesRequest, Stays
<1>3. EngineSame(h) /\ (h \in Registered' <=> h \in Registered)
  BY <1>2, EngineStays
<1>4. ret[h] \in Ends /\ pc \in [Hosts -> PCs]
      /\ watch[h] \in Nat /\ handled[h] \in Nat /\ box[h] \in Seq(Mails)
  BY <1>1 DEF TypeOK, PCs, Mails
<1>5. watch \in [Hosts -> Nat] /\ handled \in [Hosts -> Nat] /\ ret' = [ret EXCEPT ![h] = ret[h]]
  BY <1>1, <1>2 DEF TypeOK
<1>6. CASE ReadsMailbox(h)
  <2>1. /\ pc[h] = "reading" /\ pc' = [pc EXCEPT ![h] = "looking"]
        /\ watch' = [watch EXCEPT ![h] = Len(box[h])] /\ handled' = [handled EXCEPT ![h] = handled[h]]
    BY <1>5, <1>6 DEF ReadsMailbox, At, Goto
  <2>2. Len(box[h]) \in Nat /\ "looking" \in PCs
    BY <1>4 DEF PCs
  <2>3. CallOK(h)'
    BY <1>1, <1>2, <1>3, <1>4, <1>5, <2>1, <2>2 DEF CallOK, EngineSame, Before, Watching, Acts
  <2>4. QED
    BY <1>2, <1>4, <1>5, <2>1, <2>2, <2>3, HostOnly
<1>7. CASE TakesRequest(h)
  <2>1. /\ pc[h] = "taking" /\ pc' = [pc EXCEPT ![h] = "validating"]
        /\ watch' = [watch EXCEPT ![h] = watch[h]] /\ handled' = [handled EXCEPT ![h] = watch[h]]
        /\ box[h][watch[h]] = "request"
    BY <1>5, <1>7 DEF TakesRequest, At, Goto, Mail
  <2>2. "validating" \in PCs
    BY DEF PCs
  <2>3. CallOK(h)'
    BY <1>1, <1>2, <1>3, <1>4, <1>5, <2>1 DEF CallOK, EngineSame, Before, Watching, Acts
  <2>4. QED
    BY <1>2, <1>4, <1>5, <2>1, <2>2, <2>3, HostOnly
<1>8. QED
  BY <1>6, <1>7

LEMMA HoldsStep == ASSUME PyInv, NEW h \in Hosts, Holds(h) PROVE PyInv'
<1>1. TypeOK /\ EngineOK(h) /\ CallOK(h)
  BY DEF PyInv
<1>2. /\ pc[h] = "matched" /\ gate' = [gate EXCEPT ![h].at = "held"]
      /\ box' = [box EXCEPT ![h] = <<"empty">>] /\ pc' = [pc EXCEPT ![h] = "announcing"]
      /\ UNCHANGED <<rel, events, watch, handled, ret, tasks, due, transport, owner>>
  BY DEF Holds, At, Goto, Stays
<1>3. gate[h].at = "new" /\ handled[h] = 0 /\ watch[h] = 0 /\ Len(box[h]) = 0
  BY <1>1, <1>2 DEF CallOK, EngineOK, Before
<1>4. \A k \in Hosts \ {h} : EngineSame(k) /\ CallSame(k)
  BY <1>1, <1>2 DEF EngineSame, CallSame, TypeOK
<1>5. <<"empty">> \in Seq(Mails) /\ Len(<<"empty">>) = 1 /\ <<"empty">>[1] = "empty"
  BY DEF Mails
<1>6. gate' \in [Hosts -> Gates] /\ gate'[h].at = "held"
  BY <1>1, <1>2 DEF TypeOK, Gates
<1>7. box' \in [Hosts -> Seq(Mails)] /\ box'[h] = <<"empty">>
  BY <1>1, <1>2, <1>5 DEF TypeOK, Mails
<1>8. pc' \in [Hosts -> PCs] /\ pc'[h] = "announcing"
  BY <1>1, <1>2 DEF TypeOK, PCs
<1>9. TypeOK'
  BY <1>1, <1>2, <1>6, <1>7, <1>8 DEF TypeOK, Mails, PCs, transport
<1>10. EngineOK(h)'
  <2>1. Resumptions(h)' = Resumptions(h) /\ rel[h].phase = "none"
    BY <1>1, <1>2, <1>3 DEF EngineOK, Resumptions
  <2>2. \A i \in DOMAIN box'[h] : box'[h][i] = "empty"
    BY <1>5, <1>7
  <2>3. QED
    BY <1>1, <1>2, <1>5, <1>6, <1>7, <2>1, <2>2 DEF EngineOK, Acts
<1>11. CallOK(h)'
  BY <1>1, <1>2, <1>3, <1>5, <1>6, <1>7, <1>8 DEF CallOK, Before, Watching
<1>12. QED
  BY <1>4, <1>9, <1>10, <1>11, OneHost

LEMMA AnnouncesStep == ASSUME PyInv, NEW h \in Hosts, Announces(h) PROVE PyInv'
<1>1. TypeOK /\ EngineOK(h) /\ CallOK(h)
  BY DEF PyInv
<1>2. /\ pc[h] = "announcing" /\ pc' = [pc EXCEPT ![h] = "reading"]
      /\ events' = [events EXCEPT ![h] = IF Disposed THEN @ ELSE Append(@, "paused")]
      /\ UNCHANGED <<gate, box, rel, watch, handled, ret, tasks, due, transport, owner>>
  BY DEF Announces, At, Goto, Stays, Emitted
<1>3. \A k \in Hosts \ {h} : EngineSame(k) /\ CallSame(k)
  BY <1>1, <1>2 DEF EngineSame, CallSame, TypeOK
<1>4. events[h] \in Seq({"paused"} \cup Acts)
  BY <1>1 DEF TypeOK
<1>5. events' \in [Hosts -> Seq({"paused"} \cup Acts)]
  BY <1>1, <1>2, <1>4 DEF TypeOK
<1>6. pc' \in [Hosts -> PCs] /\ pc'[h] = "reading"
  BY <1>1, <1>2 DEF TypeOK, PCs
<1>7. TypeOK'
  BY <1>1, <1>2, <1>5, <1>6 DEF TypeOK, PCs, transport
<1>8. EngineOK(h)'
  <2>1. events'[h] = events[h] \/ events'[h] = Append(events[h], "paused")
    BY <1>1, <1>2 DEF TypeOK
  <2>2. \A i \in Resumptions(h)' : i \in Resumptions(h) /\ events'[h][i] = events[h][i]
    BY <1>4, <2>1 DEF Resumptions, Acts
  <2>3. QED
    BY <1>1, <1>2, <2>2 DEF EngineOK
<1>9. CallOK(h)'
  <2>1. h \in Registered' <=> h \in Registered
    BY <1>2 DEF Registered
  <2>2. QED
    BY <1>1, <1>2, <1>6, <2>1 DEF CallOK, Before, Watching, Acts
<1>10. QED
  BY <1>3, <1>7, <1>8, <1>9, OneHost

LEMMA CancelledStep == ASSUME PyInv, NEW h \in Hosts, MailboxCancelled(h) PROVE PyInv'
<1>1. TypeOK /\ EngineOK(h) /\ CallOK(h)
  BY DEF PyInv
<1>2. /\ watch[h] > 0 /\ box[h][watch[h]] = "empty" /\ ret[h] \in Exceptions
      /\ box' = [box EXCEPT ![h][watch[h]] = "cancelled"]
      /\ UNCHANGED <<gate, rel, events, hosts, tasks, due, transport, owner>>
  BY DEF MailboxCancelled, Mail, Stays, Leaving
<1>3. \A k \in Hosts : CallSame(k)
  BY <1>2 DEF CallSame, hosts
<1>4. \A k \in Hosts \ {h} : EngineSame(k)
  BY <1>1, <1>2 DEF EngineSame, TypeOK
<1>5. box[h] \in Seq(Mails) /\ watch[h] \in 1..Len(box[h])
  BY <1>1, <1>2 DEF TypeOK, Mails, CallOK
<1>6. /\ box'[h] \in Seq(Mails) /\ Len(box'[h]) = Len(box[h])
      /\ \A i \in 1..Len(box[h]) : box'[h][i] = IF i = watch[h] THEN "cancelled" ELSE box[h][i]
  BY <1>1, <1>2, <1>5 DEF TypeOK, Mails
<1>7. box' \in [Hosts -> Seq(Mails)]
  BY <1>1, <1>2, <1>6 DEF TypeOK, Mails
<1>8. TypeOK'
  BY <1>1, <1>2, <1>7 DEF TypeOK, Mails, hosts, transport
<1>9. EngineOK(h)'
  <2>1. Resumptions(h)' = Resumptions(h)
    BY <1>2 DEF Resumptions
  <2>2. \A i \in DOMAIN box'[h] : box'[h][i] \in Acts \cup {"request"} => box'[h][i] = box[h][i]
    BY <1>5, <1>6 DEF Acts
  <2>3. QED
    BY <1>1, <1>2, <1>5, <1>6, <2>1, <2>2 DEF EngineOK
<1>10. CallOK(h)'
  <2>1. BoxGrows(h)
    BY <1>2, <1>5, <1>6 DEF BoxGrows
  <2>2. h \in Registered' => h \in Registered
    BY <1>2 DEF Registered
  <2>3. QED
    BY <1>1, <1>2, <1>3, <1>7, <2>1, <2>2, CallOutlives
<1>11. QED
  BY <1>3, <1>4, <1>8, <1>9, <1>10, OneHost

LEMMA BeginsStep == ASSUME PyInv, NEW h \in Hosts, BeginsValidation(h) PROVE PyInv'
<1>1. TypeOK /\ EngineOK(h) /\ CallOK(h)
  BY DEF PyInv
<1>2. /\ gate[h].at = "held" /\ box[h][Len(box[h])] = "empty"
      /\ gate' = [gate EXCEPT ![h] = [at |-> "validating", ticket |-> Len(box[h])]]
      /\ box' = [box EXCEPT ![h][Len(box[h])] = "request"]
      /\ UNCHANGED <<rel, events, hosts, due, transport, owner>>
  BY DEF BeginsValidation, Last
<1>3. \A k \in Hosts : CallSame(k)
  BY <1>2 DEF CallSame, hosts
<1>4. \A k \in Hosts \ {h} : EngineSame(k)
  BY <1>1, <1>2 DEF EngineSame, TypeOK
<1>5. box[h] \in Seq(Mails) /\ Len(box[h]) \in 1..Len(box[h])
  BY <1>1, <1>2 DEF TypeOK, Mails, EngineOK
<1>6. /\ box'[h] \in Seq(Mails) /\ Len(box'[h]) = Len(box[h])
      /\ \A i \in 1..Len(box[h]) : box'[h][i] = IF i = Len(box[h]) THEN "request" ELSE box[h][i]
  BY <1>1, <1>2, <1>5 DEF TypeOK, Mails
<1>7. box' \in [Hosts -> Seq(Mails)]
  BY <1>1, <1>2, <1>6 DEF TypeOK, Mails
<1>8. gate' \in [Hosts -> Gates] /\ gate'[h].at = "validating" /\ gate'[h].ticket = Len(box[h])
  BY <1>1, <1>2, <1>5 DEF TypeOK, Gates
<1>9. TypeOK'
  BY <1>1, <1>2, <1>7, <1>8 DEF TypeOK, Mails, hosts, transport
<1>10. EngineOK(h)'
  <2>1. Resumptions(h)' = Resumptions(h)
    BY <1>2 DEF Resumptions
  <2>2. \A i \in DOMAIN box'[h] : box'[h][i] \in Acts => box'[h][i] = box[h][i]
    BY <1>5, <1>6 DEF Acts
  <2>3. QED
    BY <1>1, <1>2, <1>5, <1>6, <1>8, <2>1, <2>2 DEF EngineOK
<1>11. CallOK(h)'
  <2>1. BoxGrows(h)
    BY <1>5, <1>6 DEF BoxGrows
  <2>2. h \in Registered
    BY <1>2 DEF Registered
  <2>3. QED
    BY <1>1, <1>2, <1>3, <1>7, <1>8, <2>1, <2>2, CallOutlives
<1>12. QED
  BY <1>3, <1>4, <1>9, <1>10, <1>11, OneHost

\* A verdict on the edit a gate waits for leaves the gate another mailbox; one
\* that comes too late finds that it has had one since.
LEMMA VerdictStep == ASSUME PyInv, NEW h \in Hosts, Accepts(h) \/ Refuses(h) PROVE PyInv'
<1>1. TypeOK /\ EngineOK(h) /\ CallOK(h)
  BY DEF PyInv
<1>2. /\ pc[h] = "validating" /\ pc' = [pc EXCEPT ![h] = "reading"]
      /\ UNCHANGED <<watch, handled, ret, tasks, due, transport, owner>>
  BY DEF Accepts, Refuses, At, Goto, Stays
<1>3. \A k \in Hosts \ {h} : CallSame(k)
  BY <1>1, <1>2 DEF CallSame, TypeOK
<1>4. pc' \in [Hosts -> PCs] /\ pc'[h] = "reading"
  BY <1>1, <1>2 DEF TypeOK, PCs
<1>5. box[h] \in Seq(Mails) /\ watch[h] \in 1..Len(box[h]) /\ handled[h] \in Nat
  BY <1>1, <1>2 DEF TypeOK, Mails, CallOK
<1>6. gate[h].at # "new" /\ ret[h] \notin Acts
  BY <1>1, <1>2 DEF CallOK, Before
\* What each outcome has to show.
<1>7. ASSUME gate' \in [Hosts -> Gates], rel' \in [Hosts -> Releases], box' \in [Hosts -> Seq(Mails)],
             events' = events, EngineOK(h)', BoxGrows(h), gate'[h].at # "new",
             handled[h] < Len(box'[h]), \A k \in Hosts \ {h} : EngineSame(k)
      PROVE  PyInv'
  <2>1. TypeOK'
    BY <1>1, <1>2, <1>4, <1>7 DEF TypeOK, Mails, PCs, transport
  <2>2. CallOK(h)'
    <3>1. watch'[h] <= Len(box'[h])
      BY <1>2, <1>5, <1>7 DEF BoxGrows
    <3>2. QED
      BY <1>2, <1>4, <1>6, <1>7, <3>1 DEF CallOK, Before, Watching
  <2>3. QED
    BY <1>3, <1>7, <2>1, <2>2, OneHost
<1>8. CASE ~TicketCurrent(h)
  <2>1. UNCHANGED engine
    BY <1>8 DEF Accepts, Refuses
  <2>2. \A k \in Hosts : EngineSame(k)
    BY <2>1 DEF EngineSame, engine
  <2>3. EngineOK(h)'
    BY <1>1, <2>2, EngineFrame
  <2>4. handled[h] < Len(box[h])
    <3>1. ~(handled[h] = Len(box[h]) /\ box[h][Len(box[h])] = "request")
      BY <1>1, <1>5, <1>8 DEF EngineOK, TicketCurrent
    <3>2. QED
      BY <1>1, <1>2, <3>1 DEF CallOK
  <2>5. BoxGrows(h)
    BY <1>5, <2>2 DEF BoxGrows, EngineSame
  <2>6. gate' \in [Hosts -> Gates] /\ rel' \in [Hosts -> Releases] /\ box' \in [Hosts -> Seq(Mails)]
        /\ events' = events
    BY <1>1, <2>1 DEF engine, TypeOK, Mails
  <2>7. QED
    BY <1>6, <1>7, <2>2, <2>3, <2>4, <2>5, <2>6 DEF EngineSame
<1>9. CASE TicketCurrent(h) /\ \E act \in Acts : Take(h, act, "host")
  <2>1. h \in Registered
    BY <1>9 DEF TicketCurrent, Registered
  <2>2. PICK act \in Acts : Take(h, act, "host")
    BY <1>9
  <2>3. handled[h] < Len(box'[h])
    <3>1. box'[h] \in Seq(Mails) /\ Len(box'[h]) >= Len(box[h])
      BY <1>1, <2>1, <2>2, TakeKeeps DEF BoxGrows
    <3>2. box[h][Len(box[h])] = "request" => Len(box'[h]) = Len(box[h]) + 1
      BY <1>1, <2>1, <2>2, TakeKeeps
    <3>3. QED
      BY <1>1, <1>2, <1>5, <3>1, <3>2 DEF CallOK
  <2>4. QED
    BY <1>1, <1>7, <2>1, <2>2, <2>3, TakeKeeps
<1>10. CASE /\ TicketCurrent(h) /\ gate' = [gate EXCEPT ![h] = [at |-> "held", ticket |-> 0]]
            /\ Reopened(h) /\ UNCHANGED <<rel, events>>
  <2>1. box' = [box EXCEPT ![h] = Append(box[h], "empty")] /\ rel' = rel /\ events' = events
    BY <1>10 DEF Reopened
  <2>2. /\ box' \in [Hosts -> Seq(Mails)] /\ Len(box'[h]) = Len(box[h]) + 1
        /\ \A i \in 1..Len(box[h]) : box'[h][i] = box[h][i]
        /\ box'[h][Len(box'[h])] = "empty"
    BY <1>1, <1>5, <2>1 DEF TypeOK, Mails
  <2>3. gate' \in [Hosts -> Gates] /\ gate'[h].at = "held"
    BY <1>1, <1>10 DEF TypeOK, Gates
  <2>4. \A k \in Hosts \ {h} : EngineSame(k)
    BY <1>1, <1>10, <2>1 DEF EngineSame, TypeOK
  <2>5. EngineOK(h)'
    <3>1. Resumptions(h)' = Resumptions(h) /\ gate[h].at = "validating"
      BY <1>10, <2>1 DEF Resumptions, TicketCurrent
    <3>2. \A i \in DOMAIN box'[h] : box'[h][i] \in Acts => i \in DOMAIN box[h] /\ box'[h][i] = box[h][i]
      BY <1>5, <2>2 DEF Acts
    <3>3. QED
      BY <1>1, <1>5, <2>1, <2>2, <2>3, <3>1, <3>2 DEF EngineOK
  <2>6. BoxGrows(h) /\ handled[h] < Len(box'[h])
    <3>1. BoxGrows(h)
      BY <1>5, <2>2 DEF BoxGrows
    <3>2. handled[h] < Len(box[h]) \/ handled[h] = Len(box[h])
      BY <1>1, <1>2 DEF CallOK
    <3>3. handled[h] < Len(box'[h])
      BY <1>5, <2>2, <3>2
    <3>4. QED
      BY <3>1, <3>3
  <2>7. rel' \in [Hosts -> Releases]
    BY <1>1, <2>1 DEF TypeOK
  <2>8. QED
    BY <1>7, <2>1, <2>2, <2>3, <2>4, <2>5, <2>6, <2>7
<1>11. QED
  <2>1. CASE Accepts(h)
    BY <1>8, <1>9, <2>1 DEF Accepts, Acts
  <2>2. CASE Refuses(h)
    BY <1>8, <1>9, <1>10, <2>2 DEF Refuses, Acts
  <2>3. QED
    BY <2>1, <2>2

\* Whoever gives up, or is interrupted, leaves no gate behind.
LEMMA DiscardsStep == ASSUME PyInv, NEW h \in Hosts, Discards(h) PROVE PyInv'
<1>1. TypeOK /\ EngineOK(h) /\ CallOK(h)
  BY DEF PyInv
<1>2. PICK at \in {"out", "final"} :
        /\ pc[h] = "discarding" /\ pc' = [pc EXCEPT ![h] = at] /\ Continue(h, "host")
        /\ UNCHANGED <<watch, handled, ret, tasks, due, transport, owner>>
  BY DEF Discards, At, Goto, Stays
<1>3. EngineOK(h)' /\ BoxGrows(h) /\ gate'[h].at \notin {"held", "validating", "new"}
      /\ \A k \in Hosts \ {h} : EngineSame(k)
  BY <1>1, <1>2, ContinueKeeps DEF CallOK, Before
<1>4. \A k \in Hosts \ {h} : CallSame(k)
  BY <1>1, <1>2 DEF CallSame, TypeOK
<1>5. pc' \in [Hosts -> PCs] /\ pc'[h] = at
  BY <1>1, <1>2 DEF TypeOK, PCs
<1>6. TypeOK'
  BY <1>1, <1>2, <1>5, ContinueKeeps DEF TypeOK, Mails, PCs, transport
<1>7. CallOK(h)'
  <2>1. h \notin Registered' /\ ret[h] \notin Acts
    BY <1>1, <1>2, <1>3 DEF Registered, CallOK
  <2>2. watch'[h] <= Len(box'[h])
    <3>1. Len(box[h]) \in Nat /\ Len(box'[h]) \in Nat /\ watch[h] \in Nat
      BY <1>1, <1>6 DEF TypeOK
    <3>2. QED
      BY <1>1, <1>2, <1>3, <3>1 DEF CallOK, BoxGrows
  <2>3. QED
    BY <1>2, <1>3, <1>5, <2>1, <2>2 DEF CallOK, Before, Watching
<1>8. QED
  BY <1>3, <1>4, <1>6, <1>7, OneHost

-----------------------------------------------------------------------------
(* The other threads.                                                      *)

LEMMA ThreadStep ==
    ASSUME PyInv,
           \/ Attaches \/ Arms \/ Loses \/ Disarms \/ LoopSweeps \/ Detached
           \/ Disposes \/ OwnerSweeps \/ IsDisposed
           \/ \E h \in Hosts : TimeoutPasses(h)
    PROVE  PyInv'
<1>1. TypeOK
  BY DEF PyInv
<1>2. UNCHANGED <<engine, hosts>>
  BY DEF Attaches, Arms, Loses, Disarms, LoopSweeps, Detached, Disposes, OwnerSweeps, IsDisposed,
         TimeoutPasses, transport
<1>3. due' \subseteq Hosts
  BY <1>1 DEF Attaches, Arms, Loses, Disarms, LoopSweeps, Detached, Disposes, OwnerSweeps,
              IsDisposed, TimeoutPasses, TypeOK
<1>4. attached' \in BOOLEAN /\ armed' \in BOOLEAN
  BY <1>1 DEF Attaches, Arms, Loses, Disarms, LoopSweeps, Detached, Disposes, OwnerSweeps,
              IsDisposed, TimeoutPasses, TypeOK, transport
<1>5. Registered \subseteq Hosts
  BY DEF Registered
<1>6. loop' \in Threads
  <2>1. CASE UNCHANGED loop
    BY <1>1, <2>1 DEF TypeOK
  <2>2. CASE LoopSweeps
    BY <1>5, <2>2 DEF LoopSweeps, Threads
  <2>3. CASE \E at \in {"arming", "pump", "closing", "disarmed", "away"} : LoopGoes(at)
    <3>1. PICK at \in {"arming", "pump", "closing", "disarmed", "away"} : loop' = [loop EXCEPT !.at = at]
      BY <2>3 DEF LoopGoes
    <3>2. loop \in Threads
      BY <1>1 DEF TypeOK
    <3>3. QED
      BY <3>1, <3>2 DEF Threads
  <2>4. QED
    BY <2>1, <2>2, <2>3 DEF Attaches, Arms, Loses, Disarms, Detached, Disposes, OwnerSweeps,
                            IsDisposed, TimeoutPasses, transport
<1>7. owner' \in Owners
  <2>1. CASE UNCHANGED owner
    BY <1>1, <2>1 DEF TypeOK
  <2>2. CASE OwnerSweeps
    BY <1>5, <2>2 DEF OwnerSweeps, Owners
  <2>3. CASE \E at \in {"disposed", "over"} : owner' = [owner EXCEPT !.at = at]
    <3>1. PICK at \in {"disposed", "over"} : owner' = [owner EXCEPT !.at = at]
      BY <2>3
    <3>2. owner \in Owners
      BY <1>1 DEF TypeOK
    <3>3. QED
      BY <3>1, <3>2 DEF Owners
  <2>4. QED
    BY <2>1, <2>2, <2>3 DEF Attaches, Arms, Loses, Disarms, LoopSweeps, Detached, Disposes,
                            IsDisposed, TimeoutPasses
<1>8. TypeOK'
  BY <1>1, <1>2, <1>3, <1>4, <1>6, <1>7 DEF TypeOK, engine, hosts
<1>9. QED
  BY <1>2, <1>8, Elsewhere DEF hosts

LEMMA SweepStep ==
    ASSUME PyInv, NEW h \in Hosts, LoopReleases(h) \/ OwnerReleases(h)
    PROVE  PyInv'
<1>1. TypeOK
  BY DEF PyInv
<1>2. CASE LoopReleases(h)
  <2>1. loop' \in Threads
    BY <1>1, <1>2 DEF LoopReleases, TypeOK, Threads
  <2>2. QED
    BY <1>1, <1>2, <2>1, ContinueStep DEF LoopReleases, TypeOK
<1>3. CASE OwnerReleases(h)
  <2>1. owner' \in Owners
    BY <1>1, <1>3 DEF OwnerReleases, TypeOK, Owners
  <2>2. QED
    BY <1>1, <1>3, <2>1, ContinueStep DEF OwnerReleases, TypeOK, transport
<1>4. QED
  BY <1>2, <1>3

LEMMA ReleaseStep ==
    ASSUME PyInv, NEW h \in Hosts,
           TimerFires(h) \/ \E act \in {"continue", "abort"} : Resumes(h, act)
    PROVE  PyInv'
<1>1. PICK act \in Acts, by \in {"loop", "timer", "host", "owner"} :
        /\ h \in Registered /\ Take(h, act, by) /\ UNCHANGED <<hosts, due, transport, owner>>
  BY DEF TimerFires, Resumes, Acts, Registered
<1>2. QED
  BY <1>1, TakeStep

-----------------------------------------------------------------------------
(* The theorems.                                                           *)

LEMMA PyInit == Init => PyInv
<1> SUFFICES ASSUME Init PROVE PyInv
  OBVIOUS
<1>1. TypeOK
  <2>1. gate \in [Hosts -> Gates] /\ rel \in [Hosts -> Releases]
    BY DEF Init, Gates, Releases, Acts
  <2>2. << >> \in Seq(Mails) /\ << >> \in Seq({"paused"} \cup Acts)
    OBVIOUS
  <2>3. box \in [Hosts -> Seq(Mails)] /\ events \in [Hosts -> Seq({"paused"} \cup Acts)]
    BY <2>2 DEF Init
  <2>4. loop \in Threads /\ owner \in Owners
    BY DEF Init, Threads, Owners
  <2>5. QED
    BY <2>1, <2>3, <2>4 DEF Init, TypeOK, Mails, Acts, Ends
<1>2. ASSUME NEW h \in Hosts PROVE EngineOK(h) /\ CallOK(h)
  BY DEF Init, EngineOK, CallOK, Resumptions, Before, Watching, Acts, Registered
<1>3. QED
  BY <1>1, <1>2 DEF PyInv

LEMMA PyNext == PyInv /\ [Next]_vars => PyInv'
<1> SUFFICES ASSUME PyInv, [Next]_vars PROVE PyInv'
  OBVIOUS
<1>1. ASSUME NEW h \in Hosts, Host(h) PROVE PyInv'
  BY <1>1, MovesStep, ReadsStep, HoldsStep, AnnouncesStep, CancelledStep, VerdictStep, DiscardsStep
  DEF Host, HostStep
<1>2. ASSUME NEW h \in Hosts, Tell(h) \/ Deliver(h) PROVE PyInv'
  BY <1>2, TellStep, DeliverStep
<1>3. ASSUME NEW h \in Hosts, NEW act \in {"continue", "abort"}, Resumes(h, act) PROVE PyInv'
  BY <1>3, ReleaseStep
<1>4. ASSUME NEW h \in Hosts, TimerFires(h) PROVE PyInv'
  BY <1>4, ReleaseStep
<1>5. ASSUME NEW h \in Hosts, BeginsValidation(h) PROVE PyInv'
  BY <1>5, BeginsStep
<1>6. CASE Detaching \/ Disposing
  BY <1>6, ThreadStep, SweepStep DEF Detaching, Disposing
<1>7. CASE \/ Attaches \/ Arms \/ Loses \/ Disposes \/ \E h \in Hosts : TimeoutPasses(h)
  BY <1>7, ThreadStep
<1>8. CASE UNCHANGED vars
  <2>1. TypeOK'
    BY <1>8 DEF PyInv, TypeOK, vars, engine, hosts, transport
  <2>2. QED
    BY <1>8, <2>1, Elsewhere DEF vars, hosts
<1>9. QED
  BY <1>1, <1>2, <1>3, <1>4, <1>5, <1>6, <1>7, <1>8 DEF Next

LEMMA PyInvariance == Spec => []PyInv
BY PyInit, PyNext, PTL DEF Spec

\* Every state of the engine, the hosts and the threads is well typed.
THEOREM TypeCorrect == Spec => []TypeOK
<1>1. PyInv => TypeOK
  BY DEF PyInv
<1>2. QED
  BY <1>1, PyInvariance, PTL

\* Of all the threads that race for a gate one releases it, the debugger hears
\* of it at most once, and the host returns with that decision (GateEngine's
\* settle, gate()).
THEOREM OneDecides == Spec => []OneDecision
<1>1. PyInv => OneDecision
  BY DEF PyInv, EngineOK, CallOK, OneDecision
<1>2. QED
  BY <1>1, PyInvariance, PTL

\* The branch of gate() for a request that comes back is never taken: whatever
\* ends a validation gives the gate another mailbox.
THEOREM NoRequestTwice == Spec => []NeverTwice
<1>1. PyInv => NeverTwice
  <2> SUFFICES ASSUME PyInv, NEW h \in Hosts, pc[h] = "taking" PROVE handled[h] # watch[h]
    BY DEF NeverTwice
  <2>1. handled[h] < watch[h] /\ handled[h] \in Nat /\ watch[h] \in Nat
    BY DEF PyInv, TypeOK, CallOK, Watching
  <2>2. QED
    BY <2>1
<1>2. QED
  BY <1>1, PyInvariance, PTL

\* However a call of gate() ends, and wherever a task is cancelled, its gate is
\* released first (the except clauses, discard).  A gate is left registered only
\* by a call that was struck inside hold(), and by a task that Ctrl-C, SystemExit
\* or GeneratorExit ends, which gate_async() does not catch.
THEOREM NoneLeftBehind == Spec => []WaitedOn
<1>1. PyInv => WaitedOn
  BY DEF PyInv, CallOK, WaitedOn, Registered
<1>2. QED
  BY <1>1, PyInvariance, PTL
=============================================================================
