------------------------ MODULE SessionGates_proofs ------------------------
(***************************************************************************)
(* Theorems about SessionGates, for any set of pauses and requests.        *)
(*                                                                         *)
(* Every handler of the module ends in Commit (directly or through         *)
(* Finish): the handler's own change g of the gates and l of the logs,     *)
(* followed by the release of a set S of gates.  The lemmas of the first   *)
(* part say what Commit keeps, so that each action is proved by looking at *)
(* its own g and l only.                                                   *)
(*                                                                         *)
(* The second part says what each action does to one pause (StepOf): its   *)
(* log stays or grows by one event or two.  From it follow that echoes     *)
(* are true (EchoTruthful) and that gate() keeps its contract              *)
(* (GateContract, all but its liveness).                                   *)
(*                                                                         *)
(* The third is about the loop guard that the session asks before a call   *)
(* (LoopGuard), which shares no state with the gates.  Its invariant,      *)
(* GuardInv, is stated over everything that ever happened.  What the       *)
(* guard's folds and Found compute is shown along runs of single steps,    *)
(* from 0 to some number (Climb), by the well-order of the naturals.       *)
(***************************************************************************)
EXTENDS SessionGates, LoopGuard, SequenceTheorems, FiniteSetTheorems, WellFoundedInduction, TLAPS

\* What the invariants say of the gate h under pause id p, given the requests
\* q, the connection lk and the attachment count ep.
GoodGate(h, p, q, lk, ep) ==
    /\ (h.st = "validating") <=> (h.ticket # None)
    /\ h.ticket # None => /\ lk = "attached"
                          /\ q[h.ticket].st = "running" /\ q[h.ticket].pause = p
                          /\ q[h.ticket].epoch = ep
    /\ IsOpen(h) => lk = "attached" \/ (lk = "idle" /\ h.dark)
    /\ h.edited => h.st = "released"

GoodGates(g, q, lk, ep) == \A p \in Pauses : GoodGate(g[p], p, q, lk, ep)

GatesType(g) == g \in [Pauses -> Gates]
LogsType(l) == l \in [Pauses -> Seq(Events)]
ReqsType(q) == /\ q \in [Requests -> Reqs]
               /\ \A r \in Requests : q[r].st = "running" => q[r].pause \in Pauses

-----------------------------------------------------------------------------
(* The records are well typed.                                             *)

\* Events built by the emitters are events.
LEMMA EventTypes ==
    ASSUME NEW a \in Actions, NEW r \in Requests \cup {None}, NEW e \in BOOLEAN
    PROVE  /\ Paused \in Events
           /\ Resumed(a, r, e) \in Events
           /\ Refused(r) \in Events
BY GatesAssumption DEF Paused, Resumed, Refused, Events

\* The gate of a call that never opened one (the absence of a HeldGate) is a
\* well-typed record with no ticket.
LEMMA NoGateType == NoGate \in Gates /\ NoGate.st = "none" /\ NoGate.ticket = None
                    /\ ~NoGate.edited
<1>1. (CHOOSE pt \in Points : TRUE) \in Points
  BY GatesAssumption
<1>2. QED
  BY <1>1, GatesAssumption DEF NoGate, Gates

\* A released gate is a gate with no ticket.
LEMMA ReleasedType ==
    ASSUME NEW a \in Actions, NEW e \in BOOLEAN
    PROVE  /\ Released(a, e) \in Gates
           /\ Released(a, e).st = "released"
           /\ Released(a, e).ticket = None
           /\ Released(a, e).action = a
           /\ Released(a, e).edited = e
<1>1. (CHOOSE pt \in Points : TRUE) \in Points
  BY GatesAssumption
<1>2. QED
  BY <1>1 DEF Released, NoGate, Gates

\* emitRefused puts the gate back to held: the record stays well typed and
\* loses its ticket.
LEMMA ReopenedType ==
    ASSUME NEW g \in Gates
    PROVE  /\ Reopened(g) \in Gates
           /\ Reopened(g).st = "held"
           /\ Reopened(g).ticket = None
           /\ Reopened(g).dark = g.dark
           /\ Reopened(g).edited = g.edited
BY DEF Reopened, Gates

\* An event joins a log.
LEMMA AppendType ==
    ASSUME NEW s \in Seq(Events), NEW e \in Events
    PROVE  Append(s, e) \in Seq(Events) /\ Len(Append(s, e)) = Len(s) + 1
OBVIOUS

-----------------------------------------------------------------------------
(* What Commit keeps.                                                      *)

\* commitRelease writes a well-typed gate, released and with no ticket.
LEMMA CommitType ==
    ASSUME NEW g, GatesType(g), NEW l, LogsType(l), NEW S \in SUBSET Pauses,
           Commit(g, l, S)
    PROVE  GatesType(gate') /\ LogsType(log')
<1>1. /\ Released("continue", FALSE) \in Gates
      /\ \A p \in Pauses : Resumed("continue", SweepEcho(g[p]), FALSE) \in Events
  BY GatesAssumption, EventTypes, ReleasedType DEF SweepEcho
<1>2. ASSUME NEW p \in Pauses
      PROVE  Append(l[p], Resumed("continue", SweepEcho(g[p]), FALSE)) \in Seq(Events)
  <2>1. l[p] \in Seq(Events) /\ Resumed("continue", SweepEcho(g[p]), FALSE) \in Events
    BY <1>1 DEF LogsType
  <2>2. QED
    BY <2>1, AppendType
<1>3. QED
  BY <1>1, <1>2 DEF Commit, GatesType, LogsType

\* A released gate satisfies every conjunct of GoodGate, whatever the rest.
LEMMA CommitGood ==
    ASSUME NEW g, NEW l, NEW S \in SUBSET Pauses, Commit(g, l, S),
           NEW q, NEW lk, NEW ep,
           \A p \in Pauses \ S : GoodGate(g[p], p, q, lk, ep)
    PROVE  GoodGates(gate', q, lk, ep)
<1>1. \A p \in Pauses : GoodGate(Released("continue", FALSE), p, q, lk, ep)
  BY GatesAssumption, ReleasedType DEF GoodGate, IsOpen
<1>2. QED
  BY <1>1 DEF Commit, GoodGates

\* A gate that is not open has no ticket: it is good under any connection.
LEMMA ClosedIsGood ==
    ASSUME NEW h, NEW p, NEW q, NEW lk, NEW ep, GoodGate(h, p, q, lk, ep), ~IsOpen(h),
           NEW lk2
    PROVE  GoodGate(h, p, q, lk2, ep)
BY DEF GoodGate, IsOpen

\* releaseAll sweeps calls of this session only.
LEMMA SweepableType == ASSUME NEW g PROVE Sweepable(g) \in SUBSET Pauses
BY DEF Sweepable

Links == {"idle", "attached", "disposed"}

\* The state that Finish leaves.
LEMMA FinishKeeps ==
    ASSUME link \in Links, hubEdit \in BOOLEAN,
           NEW g, GatesType(g), NEW l, LogsType(l), NEW dies \in BOOLEAN,
           NEW q, NEW ep, GoodGates(g, q, link, ep), Finish(g, l, dies)
    PROVE  /\ link' \in Links /\ hubEdit' \in BOOLEAN
           /\ GatesType(gate') /\ LogsType(log')
           /\ GoodGates(gate', q, link', ep)
<1> DEFINE S == IF dies THEN Sweepable(g) ELSE {}
<1>1. S \in SUBSET Pauses
  BY SweepableType
<1>2. Commit(g, l, S)
  BY DEF Finish
<1>3. link' \in Links /\ hubEdit' \in BOOLEAN
  BY DEF Finish, Links
<1>4. \A p \in Pauses \ S : GoodGate(g[p], p, q, link', ep)
  <2>1. CASE dies
    BY <2>1, ClosedIsGood DEF Sweepable, GoodGates
  <2>2. CASE ~dies
    BY <2>2 DEF Finish, GoodGates
  <2>3. QED
    BY <2>1, <2>2
<1> HIDE DEF S
<1>5. QED
  BY <1>1, <1>2, <1>3, <1>4, CommitType, CommitGood

-----------------------------------------------------------------------------
(* The inductive invariant.                                                *)

\* An edit is recorded only on a released gate: needed to tell, in
\* EditIsCurrent, the step that applies an edit from one that keeps it.
EditedIsReleased == \A p \in Pauses : gate[p].edited => gate[p].st = "released"

IndInv == TypeOK /\ TicketsAreLive /\ FailOpenHolds /\ EditedIsReleased

\* The same invariant, cut the way the lemmas about Commit and Finish use it.
IndParts ==
    /\ link \in Links /\ hubEdit \in BOOLEAN
    /\ epoch \in 0..MaxEpoch /\ implicitRun \in BOOLEAN
    /\ ReqsType(req)
    /\ GatesType(gate) /\ LogsType(log)
    /\ GoodGates(gate, req, link, epoch)

\* The invariant and its named parts say the same, so a step may be proved
\* part by part.
LEMMA IndInvParts == (IndInv <=> IndParts) /\ (IndInv' <=> IndParts')
<1> USE DEF IndInv, TypeOK, TicketsAreLive, FailOpenHolds, EditedIsReleased, IndParts,
            GatesType, LogsType, ReqsType, GoodGates, GoodGate, Links
<1>1. IndInv <=> IndParts
  OBVIOUS
<1>2. IndInv' <=> IndParts'
  OBVIOUS
<1>3. QED
  BY <1>1, <1>2

\* A session that has just been created satisfies every part.
LEMMA IndPartsInit == Init => IndParts
<1> SUFFICES ASSUME Init PROVE IndParts
  OBVIOUS
<1>1. GatesType(gate) /\ LogsType(log) /\ GoodGates(gate, req, link, epoch)
  BY NoGateType DEF Init, GatesType, LogsType, GoodGates, GoodGate, IsOpen
<1>2. ReqsType(req)
  BY GatesAssumption DEF Init, NoReq, ReqsType, Reqs
<1>3. epoch \in 0..MaxEpoch
  BY GatesAssumption DEF Init
<1>4. QED
  BY <1>1, <1>2, <1>3 DEF Init, Links, IndParts

-----------------------------------------------------------------------------
(* One lemma per group of actions: each names the gates g and logs l that  *)
(* its handler builds, and leaves the rest to FinishKeeps.                 *)

\* One gate and one log entry of the present state replaced.
LEMMA OneGate ==
    ASSUME IndParts, NEW p \in Pauses, NEW h \in Gates, NEW q,
           \A s \in Pauses \ {p} : GoodGate(gate[s], s, q, link, epoch),
           GoodGate(h, p, q, link, epoch)
    PROVE  GatesType([gate EXCEPT ![p] = h]) /\ GoodGates([gate EXCEPT ![p] = h], q, link, epoch)
BY DEF IndParts, GatesType, GoodGates

\* Replacing one log by a well-typed log leaves the logs well typed.
LEMMA OneLog ==
    ASSUME IndParts, NEW p \in Pauses, NEW e \in Events
    PROVE  LogsType([log EXCEPT ![p] = Append(@, e)]) /\ LogsType([log EXCEPT ![p] = <<e>>])
<1>1. log[p] \in Seq(Events)
  BY DEF IndParts, LogsType
<1>2. Append(log[p], e) \in Seq(Events) /\ <<e>> \in Seq(Events)
  BY <1>1, AppendType
<1>3. QED
  BY <1>2 DEF IndParts, LogsType

\* settle(p), under any requests q that keep the other gates good.
LEMMA SettleKeeps ==
    ASSUME IndParts, NEW p \in Pauses, NEW a \in Actions, NEW r \in Requests \cup {None},
           NEW e \in BOOLEAN, NEW dies \in BOOLEAN, Settle(p, a, r, e, dies), NEW q,
           \A s \in Pauses \ {p} : GoodGate(gate[s], s, q, link, epoch)
    PROVE  /\ link' \in Links /\ hubEdit' \in BOOLEAN
           /\ GatesType(gate') /\ LogsType(log') /\ GoodGates(gate', q, link', epoch)
<1> DEFINE g == [gate EXCEPT ![p] = Released(a, e)]
           l == [log EXCEPT ![p] = Append(@, Resumed(a, r, e))]
<1>1. Released(a, e) \in Gates /\ GoodGate(Released(a, e), p, q, link, epoch)
  BY ReleasedType DEF GoodGate, IsOpen
<1>2. GatesType(g) /\ GoodGates(g, q, link, epoch)
  BY <1>1, OneGate
<1>3. LogsType(l)
  BY EventTypes, OneLog
<1>4. Finish(g, l, dies)
  BY DEF Settle
<1> HIDE DEF g, l
<1>5. QED
  BY <1>2, <1>3, <1>4, FinishKeeps DEF IndParts

\* emitRefused, for a gate h that is good under q.
LEMMA RefuseKeeps ==
    ASSUME IndParts, NEW p \in Pauses, NEW h \in Gates, NEW r \in Requests,
           NEW dies \in BOOLEAN, Refuse(p, h, r, dies), NEW q,
           \A s \in Pauses \ {p} : GoodGate(gate[s], s, q, link, epoch),
           GoodGate(h, p, q, link, epoch)
    PROVE  /\ link' \in Links /\ hubEdit' \in BOOLEAN
           /\ GatesType(gate') /\ LogsType(log') /\ GoodGates(gate', q, link', epoch)
<1> DEFINE g == [gate EXCEPT ![p] = h]
           l == [log EXCEPT ![p] = Append(@, Refused(r))]
<1>1. GatesType(g) /\ GoodGates(g, q, link, epoch)
  BY OneGate
<1>2. LogsType(l)
  BY EventTypes, OneLog, GatesAssumption
<1>3. Finish(g, l, dies)
  BY DEF Refuse
<1> HIDE DEF g, l
<1>4. QED
  BY <1>1, <1>2, <1>3, FinishKeeps DEF IndParts

\* Changing one request leaves the gates good that do not wait for it.
LEMMA OtherRequests ==
    ASSUME IndParts, NEW r \in Requests, NEW q, \A s \in Requests \ {r} : q[s] = req[s],
           NEW p \in Pauses, gate[p].ticket # r
    PROVE  GoodGate(gate[p], p, q, link, epoch)
<1>1. GoodGate(gate[p], p, req, link, epoch) /\ gate[p].ticket \in Requests \cup {None}
  BY DEF IndParts, GoodGates, GatesType, Gates
<1>2. QED
  BY <1>1 DEF GoodGate

\* A request that is not running is no gate's ticket; a running one is the
\* ticket of its own gate at most.
LEMMA TicketOwner ==
    ASSUME IndParts, NEW r \in Requests, NEW p \in Pauses, gate[p].ticket = r
    PROVE  req[r].st = "running" /\ req[r].pause = p /\ req[r].epoch = epoch
           /\ link = "attached" /\ gate[p].st = "validating"
<1>1. r # None
  BY GatesAssumption
<1>2. QED
  BY <1>1 DEF IndParts, GoodGates, GoodGate

\* Asked() writes one well-typed request.
LEMMA AskedType ==
    ASSUME IndParts, NEW r \in Requests, NEW p \in Pauses, NEW a \in Actions,
           NEW e \in BOOLEAN, NEW st \in {"running", "done"}, Asked(r, p, a, e, st)
    PROVE  /\ ReqsType(req')
           /\ req'[r].pause = p /\ req'[r].st = st /\ req'[r].epoch = epoch
           /\ \A s \in Requests \ {r} : req'[s] = req[s]
<1>1. [st |-> st, pause |-> p, action |-> a, edit |-> e, late |-> FALSE, epoch |-> epoch] \in Reqs
  BY DEF IndParts, ReqsType, Reqs
<1>2. QED
  BY <1>1 DEF Asked, IndParts, ReqsType, Reqs

\* attach, detach and dispose keep the parts: the sweeps of releaseAll leave
\* no gate held on a dead link.
LEMMA ConnectionKeeps == ASSUME IndParts, Connection PROVE IndParts'
<1>1. ASSUME NEW edit \in BOOLEAN, Attach(edit) PROVE IndParts'
  <2>1. ASSUME NEW p \in Pauses PROVE GoodGate(gate[p], p, req, "attached", epoch + 1)
    BY <1>1 DEF Attach, IndParts, GoodGates, GoodGate
  <2>2. epoch + 1 \in 0..MaxEpoch
    BY <1>1, GatesAssumption DEF Attach, IndParts
  <2>3. QED
    BY <1>1, <2>1, <2>2 DEF Attach, IndParts, GoodGates, GatesType, LogsType, Links
<1>2. CASE Detach
  <2>1. Finish(gate, log, TRUE)
    BY <1>2 DEF Detach
  <2>2. QED
    BY <1>2, <2>1, FinishKeeps DEF IndParts, Detach
<1>3. CASE Dispose
  <2> DEFINE S == Sweepable(gate)
  <2>1. S \in SUBSET Pauses /\ Commit(gate, log, S)
    BY <1>3, SweepableType DEF Dispose
  <2>2. \A p \in Pauses \ S : GoodGate(gate[p], p, req, "disposed", epoch)
    BY ClosedIsGood DEF Sweepable, IndParts, GoodGates
  <2> HIDE DEF S
  <2>3. GatesType(gate') /\ LogsType(log') /\ GoodGates(gate', req, "disposed", epoch)
    BY <2>1, <2>2, CommitType, CommitGood DEF IndParts
  <2>4. hubEdit' \in BOOLEAN /\ link' = "disposed"
    BY <1>3 DEF Dispose, IndParts
  <2>5. QED
    BY <1>3, <2>3, <2>4 DEF Dispose, IndParts, Links
<1>4. QED
  BY <1>1, <1>2, <1>3 DEF Connection

\* gate() and the start of an implicit run keep the parts, the one gate() that
\* loses its socket on the way to hold() included.
LEMMA CallsKeep == ASSUME IndParts, Calls PROVE IndParts'
<1>1. ASSUME NEW dies \in BOOLEAN, ImplicitRunStarts(dies) PROVE IndParts'
  <2>1. Finish(gate, log, dies)
    BY <1>1 DEF ImplicitRunStarts
  <2>2. QED
    BY <1>1, <2>1, FinishKeeps DEF IndParts, ImplicitRunStarts
<1>2. ASSUME NEW p \in Pauses, NEW pt \in Points, NEW li \in BOOLEAN,
             NEW ed \in BOOLEAN, NEW outside \in BOOLEAN, NEW dies \in BOOLEAN,
             GateHolds(p, pt, ed, li, outside, dies)
      PROVE  IndParts'
  <2> DEFINE h == HeldAt(gate[p], pt, ed, li, FALSE)
             g == [gate EXCEPT ![p] = h]
             l == [log EXCEPT ![p] = <<Paused>>]
  <2>1. gate[p] \in Gates /\ gate[p].st = "none" /\ GoodGate(gate[p], p, req, link, epoch)
    BY <1>2 DEF GateHolds, IndParts, GatesType, GoodGates
  <2>2. gate[p].ticket = None /\ ~gate[p].edited
    BY <2>1 DEF GoodGate
  <2> HIDE DEF h
  <2>7. h \in Gates /\ h.st = "held" /\ h.ticket = None /\ ~h.edited
    BY <2>1, <2>2, <1>2 DEF h, HeldAt, Gates
  <2>8. GoodGate(h, p, req, link, epoch)
    BY <1>2, <2>7 DEF GoodGate, GateHolds
  <2>3. GatesType(g) /\ GoodGates(g, req, link, epoch)
    BY <2>7, <2>8, OneGate DEF IndParts, GoodGates
  <2>4. LogsType(l)
    BY EventTypes, OneLog, GatesAssumption
  <2>5. Finish(g, l, dies)
    BY <1>2 DEF GateHolds, h
  <2> HIDE DEF g, l
  <2>6. QED
    BY <1>2, <2>3, <2>4, <2>5, FinishKeeps DEF IndParts, GateHolds
<1>3. ASSUME NEW p \in Pauses, NEW pt \in Points, NEW li \in BOOLEAN,
             GateLosesSocket(p, pt, li)
      PROVE  IndParts'
  <2> DEFINE h == HeldAt(gate[p], pt, FALSE, li, TRUE)
             g == [gate EXCEPT ![p] = h]
             l == [log EXCEPT ![p] = <<Paused>>]
             S == Sweepable(gate)
  <2>1. gate[p] \in Gates /\ gate[p].st = "none" /\ GoodGate(gate[p], p, req, link, epoch)
    BY <1>3 DEF GateLosesSocket, IndParts, GatesType, GoodGates
  <2>10. gate[p].ticket = None /\ ~gate[p].edited
    BY <2>1 DEF GoodGate
  <2> HIDE DEF h
  <2>11. h \in Gates /\ h.st = "held" /\ h.ticket = None /\ ~h.edited /\ h.dark
    BY <2>1, <2>10 DEF h, HeldAt, Gates
  <2>2. GoodGate(h, p, req, "idle", epoch)
    BY <2>11 DEF GoodGate
  <2>3. GatesType(g)
    BY <2>11 DEF IndParts, GatesType
  <2>4. LogsType(l)
    BY EventTypes, OneLog, GatesAssumption
  <2>5. S \in SUBSET Pauses /\ Commit(g, l, S)
    BY <1>3, SweepableType DEF GateLosesSocket, h
  <2>6. \A s \in Pauses \ S : GoodGate(g[s], s, req, "idle", epoch)
    BY <2>2, ClosedIsGood DEF Sweepable, IndParts, GoodGates, GatesType
  <2>7. link' = "idle" /\ hubEdit' = FALSE
    BY <1>3 DEF GateLosesSocket
  <2> HIDE DEF g, l, S
  <2>8. GatesType(gate') /\ LogsType(log') /\ GoodGates(gate', req, "idle", epoch)
    BY <2>3, <2>4, <2>5, <2>6, CommitType, CommitGood
  <2>9. QED
    BY <1>3, <2>7, <2>8 DEF IndParts, GateLosesSocket, Links
<1>4. QED
  BY <1>1, <1>2, <1>3 DEF Calls

\* exec.resume keeps the parts: ignored, refused, releasing the gate, or
\* starting the validation of its edit.
LEMMA ResumesKeep == ASSUME IndParts, Resumes PROVE IndParts'
<1>1. PICK r \in Requests, p \in Pauses, a \in Actions :
          \/ ResumeIgnored(r, p)
          \/ \E edit, bad, dies \in BOOLEAN : ResumeRefused(r, p, a, edit, bad, dies)
          \/ \E bad, dies \in BOOLEAN : ResumeReleases(r, p, a, bad, dies)
          \/ ResumeValidates(r, p, a)
  BY DEF Resumes
<1>2. req[r].st = "unused" /\ link = "attached"
  BY <1>1 DEF ResumeIgnored, ResumeRefused, ResumeReleases, ResumeValidates
<1>3. \A s \in Pauses : gate[s].ticket # r
  BY <1>2, TicketOwner
<1>4. gate[p] \in Gates
  BY DEF IndParts, GatesType
<1>5. CASE ResumeIgnored(r, p)
  <2>1. ReqsType(req') /\ \A s \in Requests \ {r} : req'[s] = req[s]
    BY <1>5 DEF ResumeIgnored, IndParts, ReqsType, Reqs
  <2>2. GoodGates(gate, req', link, epoch)
    BY <1>3, <2>1, OtherRequests DEF GoodGates
  <2>3. QED
    BY <1>5, <2>1, <2>2 DEF ResumeIgnored, IndParts, GoodGates, GatesType, LogsType
<1>6. ASSUME NEW edit \in BOOLEAN, NEW bad \in BOOLEAN, NEW dies \in BOOLEAN,
             ResumeRefused(r, p, a, edit, bad, dies)
      PROVE  IndParts'
  <2>1. Asked(r, p, a, edit, "done") /\ Refuse(p, gate[p], r, dies)
    BY <1>6 DEF ResumeRefused
  <2>2. ReqsType(req') /\ \A s \in Requests \ {r} : req'[s] = req[s]
    BY <2>1, AskedType
  <2>3. \A s \in Pauses : GoodGate(gate[s], s, req', link, epoch)
    BY <1>3, <2>2, OtherRequests
  <2>4. /\ link' \in Links /\ hubEdit' \in BOOLEAN
        /\ GatesType(gate') /\ LogsType(log') /\ GoodGates(gate', req', link', epoch)
    BY <1>4, <2>1, <2>3, RefuseKeeps
  <2>5. QED
    BY <1>6, <2>2, <2>4 DEF ResumeRefused, IndParts
<1>7. ASSUME NEW bad \in BOOLEAN, NEW dies \in BOOLEAN, ResumeReleases(r, p, a, bad, dies)
      PROVE  IndParts'
  <2>1. Asked(r, p, a, FALSE, "done") /\ Settle(p, a, r, FALSE, dies)
    BY <1>7 DEF ResumeReleases
  <2>2. ReqsType(req') /\ \A s \in Requests \ {r} : req'[s] = req[s]
    BY <2>1, AskedType
  <2>3. \A s \in Pauses : GoodGate(gate[s], s, req', link, epoch)
    BY <1>3, <2>2, OtherRequests
  <2>4. /\ link' \in Links /\ hubEdit' \in BOOLEAN
        /\ GatesType(gate') /\ LogsType(log') /\ GoodGates(gate', req', link', epoch)
    BY <2>1, <2>3, SettleKeeps
  <2>5. QED
    BY <1>7, <2>2, <2>4 DEF ResumeReleases, IndParts
<1>8. CASE ResumeValidates(r, p, a)
  <2>1. Asked(r, p, a, TRUE, "running") /\ gate[p].st = "held"
    BY <1>8 DEF ResumeValidates, Resumable
  <2>2. /\ ReqsType(req') /\ \A s \in Requests \ {r} : req'[s] = req[s]
        /\ req'[r].pause = p /\ req'[r].st = "running" /\ req'[r].epoch = epoch
    BY <2>1, AskedType
  <2>3. \A s \in Pauses : GoodGate(gate[s], s, req', link, epoch)
    BY <1>3, <2>2, OtherRequests
  <2> DEFINE h == [gate[p] EXCEPT !.st = "validating", !.ticket = r]
  <2>4. h \in Gates
    BY <1>4 DEF Gates
  <2>5. h.st = "validating" /\ h.ticket = r /\ ~h.edited /\ r # None
    BY <1>4, <2>1, <2>3, GatesAssumption DEF GoodGate, Gates
  <2>6. gate' = [gate EXCEPT ![p] = h]
    BY <1>8 DEF ResumeValidates, IndParts, GatesType
  <2> HIDE DEF h
  <2>7. GoodGate(h, p, req', link, epoch)
    BY <1>2, <2>2, <2>5 DEF GoodGate
  <2>8. GatesType(gate') /\ GoodGates(gate', req', link, epoch)
    BY <2>3, <2>4, <2>6, <2>7, OneGate
  <2>9. QED
    BY <1>8, <2>2, <2>8 DEF ResumeValidates, IndParts, LogsType
<1>9. QED
  BY <1>1, <1>5, <1>6, <1>7, <1>8

\* A verdict ends its own request and touches no other.
LEMMA VerdictRequests ==
    ASSUME IndParts, NEW r \in Requests, NEW ok \in BOOLEAN, NEW dies \in BOOLEAN,
           Verdict(r, ok, dies)
    PROVE  /\ ReqsType(req')
           /\ req'[r] = [req[r] EXCEPT !.st = "done", !.late = FALSE]
           /\ \A s \in Requests \ {r} : req'[s] = req[s]
<1> DEFINE done == [req[r] EXCEPT !.st = "done", !.late = FALSE]
<1>1. req \in [Requests -> Reqs] /\ req[r] \in Reqs
  BY DEF IndParts, ReqsType
<1>2. done \in Reqs /\ done.st = "done"
  BY <1>1 DEF Reqs
<1>3. req' = [req EXCEPT ![r] = done]
  BY DEF Verdict
<1> HIDE DEF done
<1>4. req' \in [Requests -> Reqs] /\ req'[r] = done /\ \A s \in Requests \ {r} : req'[s] = req[s]
  BY <1>1, <1>2, <1>3
<1>5. \A s \in Requests : req'[s].st = "running" => req'[s].pause \in Pauses
  BY <1>2, <1>4 DEF IndParts, ReqsType
<1>6. QED
  BY <1>4, <1>5 DEF ReqsType, done

\* The verdict on an edit keeps the parts, in time, late, or for a gate that is
\* gone.
LEMMA VerdictKeeps ==
    ASSUME IndParts, NEW r \in Requests, NEW ok \in BOOLEAN, NEW dies \in BOOLEAN,
           Verdict(r, ok, dies)
    PROVE  IndParts'
<1> DEFINE p == req[r].pause
<1>1. req[r] \in Reqs /\ req[r].st = "running" /\ p \in Pauses
  BY DEF Verdict, IndParts, ReqsType
<1>2. ReqsType(req') /\ \A s \in Requests \ {r} : req'[s] = req[s]
  BY VerdictRequests
<1>3. epoch' = epoch /\ implicitRun' = implicitRun
  BY DEF Verdict
<1>4. \A s \in Pauses : s # p => GoodGate(gate[s], s, req', link, epoch)
  BY <1>2, TicketOwner, OtherRequests
<1>5. CASE ~TicketCurrent(r)
  <2>1. \A s \in Pauses : gate[s].ticket # r
    BY <1>5, TicketOwner DEF TicketCurrent
  <2>2. GoodGates(gate, req', link, epoch)
    BY <1>2, <2>1, OtherRequests DEF GoodGates
  <2>3. UNCHANGED <<link, hubEdit, gate, log>>
    BY <1>5 DEF Verdict
  <2>4. QED
    BY <1>2, <1>3, <2>2, <2>3 DEF IndParts, GoodGates, GatesType, LogsType
<1>6. ASSUME TicketCurrent(r), p \in Pauses PROVE IndParts'
  <2>1. gate[p] \in Gates /\ GoodGate(gate[p], p, req, link, epoch) /\ gate[p].ticket = r
    BY <1>6 DEF IndParts, GatesType, GoodGates, TicketCurrent
  <2>2. \A s \in Pauses \ {p} : GoodGate(gate[s], s, req', link, epoch)
    BY <1>4
  <2>3. \/ Settle(p, "continue", None, FALSE, dies)
        \/ Settle(p, req[r].action, r, TRUE, dies)
        \/ Refuse(p, Reopened(gate[p]), r, dies)
    BY <1>6 DEF Verdict
  <2>4. req[r].action \in Actions /\ "continue" \in Actions
    BY <1>1, GatesAssumption DEF ReqsType, Reqs
  <2>5. ASSUME Settle(p, "continue", None, FALSE, dies) \/ Settle(p, req[r].action, r, TRUE, dies)
        PROVE  /\ link' \in Links /\ hubEdit' \in BOOLEAN
               /\ GatesType(gate') /\ LogsType(log') /\ GoodGates(gate', req', link', epoch)
    BY <1>6, <2>2, <2>4, <2>5, SettleKeeps
  <2>6. ASSUME Refuse(p, Reopened(gate[p]), r, dies)
        PROVE  /\ link' \in Links /\ hubEdit' \in BOOLEAN
               /\ GatesType(gate') /\ LogsType(log') /\ GoodGates(gate', req', link', epoch)
    <3> DEFINE h == Reopened(gate[p])
    <3>1. h \in Gates /\ h.st = "held" /\ h.ticket = None
      BY <2>1, ReopenedType
    <3>2. ~h.edited
      BY <2>1, <1>1, GatesAssumption DEF Reopened, Gates, GoodGate
    <3>3. link = "attached"
      BY <1>6, <2>1, TicketOwner
    <3> HIDE DEF h
    <3>4. GoodGate(h, p, req', link, epoch)
      BY <3>1, <3>2, <3>3 DEF GoodGate
    <3>5. Refuse(p, h, r, dies)
      BY <2>6 DEF h
    <3>6. QED
      BY <1>6, <2>2, <3>1, <3>4, <3>5, RefuseKeeps
  <2>7. QED
    BY <1>2, <1>3, <2>3, <2>5, <2>6 DEF IndParts
<1>7. QED
  BY <1>1, <1>5, <1>6

\* A gate let go without an answer (its timer, its signal) keeps the parts.
LEMMA FreedKeeps ==
    ASSUME IndParts, NEW p \in Pauses, NEW dies \in BOOLEAN,
           Settle(p, "continue", None, FALSE, dies), UNCHANGED <<epoch, implicitRun, req>>
    PROVE  IndParts'
<1>1. \A s \in Pauses \ {p} : GoodGate(gate[s], s, req, link, epoch)
  BY DEF IndParts, GoodGates
<1>2. "continue" \in Actions
  BY GatesAssumption
<1>3. /\ link' \in Links /\ hubEdit' \in BOOLEAN
      /\ GatesType(gate') /\ LogsType(log') /\ GoodGates(gate', req, link', epoch)
  BY <1>1, <1>2, SettleKeeps
<1>4. QED
  BY <1>3 DEF IndParts

\* The validation timer and the pause timer keep the parts.
LEMMA TimersKeep == ASSUME IndParts, Timers PROVE IndParts'
<1>1. ASSUME NEW r \in Requests, NEW dies \in BOOLEAN, ValidationTimer(r, dies) PROVE IndParts'
  BY <1>1, VerdictKeeps DEF ValidationTimer
<1>2. ASSUME NEW r \in Requests, ValidationRunsLate(r) PROVE IndParts'
  <2>1. ReqsType(req') /\ \A s \in Requests : /\ req'[s].st = req[s].st
                                             /\ req'[s].pause = req[s].pause
                                             /\ req'[s].epoch = req[s].epoch
    BY <1>2 DEF ValidationRunsLate, IndParts, ReqsType, Reqs
  <2>2. GoodGates(gate, req', link, epoch)
    BY <2>1 DEF IndParts, GoodGates, GoodGate, GatesType, Gates
  <2>3. QED
    BY <1>2, <2>1, <2>2 DEF ValidationRunsLate, IndParts, GoodGates, GatesType, LogsType
<1>3. ASSUME NEW p \in Pauses, PauseDeadline(p) PROVE IndParts'
  <2> DEFINE h == [gate[p] EXCEPT !.overdue = TRUE]
  <2>1. gate[p] \in Gates /\ GoodGate(gate[p], p, req, link, epoch)
    BY DEF IndParts, GatesType, GoodGates
  <2>2. h \in Gates /\ GoodGate(h, p, req, link, epoch)
    BY <2>1 DEF Gates, GoodGate, IsOpen
  <2>3. gate' = [gate EXCEPT ![p] = h]
    BY <1>3 DEF PauseDeadline, IndParts, GatesType
  <2> HIDE DEF h
  <2>4. GatesType(gate') /\ GoodGates(gate', req, link, epoch)
    BY <2>2, <2>3, OneGate DEF IndParts, GoodGates
  <2>5. QED
    BY <1>3, <2>4 DEF PauseDeadline, IndParts, LogsType
<1>4. ASSUME NEW p \in Pauses, NEW dies \in BOOLEAN, PauseTimer(p, dies) PROVE IndParts'
  BY <1>4, FreedKeeps DEF PauseTimer
<1>5. QED
  BY <1>1, <1>2, <1>3, <1>4 DEF Timers

\* Every step of the session keeps the inductive invariant.
LEMMA IndInvStep == IndInv /\ [Next]_vars => IndInv'
<1> SUFFICES ASSUME IndParts, [Next]_vars PROVE IndParts'
  BY IndInvParts
<1>1. ASSUME NEW r \in Requests, NEW ok \in BOOLEAN, NEW dies \in BOOLEAN,
             ValidatorSettles(r, ok, dies)
      PROVE  IndParts'
  BY <1>1, VerdictKeeps DEF ValidatorSettles
<1>2. ASSUME NEW p \in Pauses, NEW dies \in BOOLEAN, SignalAborts(p, dies) PROVE IndParts'
  BY <1>2, FreedKeeps DEF SignalAborts
<1>3. CASE UNCHANGED vars
  BY <1>3 DEF vars, IndParts, GatesType, LogsType, GoodGates
<1>4. QED
  BY <1>1, <1>2, <1>3, ConnectionKeeps, CallsKeep, ResumesKeep, TimersKeep DEF Next

\* The invariant of the session holds in every reachable state, for any number
\* of gates, requests and reconnects, whatever sends die.
THEOREM IndInvHolds == Spec => []IndInv
<1>1. Init => IndInv
  BY IndPartsInit, IndInvParts
<1>2. QED
  BY <1>1, IndInvStep, PTL DEF Spec

-----------------------------------------------------------------------------
(* The theorems.                                                           *)

\* Every reachable state of the session is well typed, and a gate carries a
\* ticket exactly while it validates an edit.
THEOREM TypeCorrect == Spec => []TypeOK
BY IndInvHolds, PTL DEF IndInv

\* A validation never outlives its attachment as its gate's ticket.
THEOREM TicketsStayLive == Spec => []TicketsAreLive
BY IndInvHolds, PTL DEF IndInv

\* "FAIL-OPEN: no debugger, no holds", for every number of gates and resumes,
\* with the one exception the code has.
THEOREM FailOpen == Spec => []FailOpenHolds
BY IndInvHolds, PTL DEF IndInv

\* Releases that fail open record no edit.
LEMMA CommitEdited ==
    ASSUME NEW g, NEW l, NEW S \in SUBSET Pauses, Commit(g, l, S),
           NEW p \in Pauses, gate'[p].edited
    PROVE  g[p].edited
<1>1. ~Released("continue", FALSE).edited
  BY GatesAssumption, ReleasedType
<1>2. QED
  BY <1>1 DEF Commit

\* Finish adds no edit to a log.
LEMMA FinishEdited ==
    ASSUME NEW g, NEW l, NEW dies \in BOOLEAN, Finish(g, l, dies),
           NEW p \in Pauses, gate'[p].edited
    PROVE  g[p].edited
<1> DEFINE S == IF dies THEN Sweepable(g) ELSE {}
<1>1. S \in SUBSET Pauses /\ Commit(g, l, S)
  BY SweepableType DEF Finish
<1> HIDE DEF S
<1>2. QED
  BY <1>1, CommitEdited

\* The one handler that turns an edit into a decision.
Applies(r, p) ==
    /\ req[r].st = "running" /\ req[r].pause = p /\ gate[p].ticket = r
    /\ ~gate[p].overdue /\ ~req[r].late

\* settle(p) adds an edit only where its caller passes one.
LEMMA SettleEdited ==
    ASSUME IndParts, NEW s \in Pauses, NEW a \in Actions, NEW r \in Requests \cup {None},
           NEW dies \in BOOLEAN, Settle(s, a, r, FALSE, dies),
           NEW p \in Pauses, gate'[p].edited
    PROVE  gate[p].edited
<1> DEFINE g == [gate EXCEPT ![s] = Released(a, FALSE)]
           l == [log EXCEPT ![s] = Append(@, Resumed(a, r, FALSE))]
<1>1. Finish(g, l, dies)
  BY DEF Settle
<1>2. g[p].edited
  <2> HIDE DEF g, l
  <2>1. QED
    BY <1>1, FinishEdited
<1>3. ~Released(a, FALSE).edited
  BY ReleasedType
<1>4. QED
  BY <1>2, <1>3 DEF IndParts, GatesType

\* An edit joins a log in a verdict step only if its request is current.
LEMMA VerdictEdited ==
    ASSUME IndParts, NEW r \in Requests, NEW ok \in BOOLEAN, NEW dies \in BOOLEAN,
           Verdict(r, ok, dies),
           NEW p \in Pauses, gate'[p].edited, ~gate[p].edited
    PROVE  Applies(r, p)
<1> DEFINE s == req[r].pause
<1>1. req[r] \in Reqs /\ req[r].st = "running" /\ s \in Pauses
  BY DEF Verdict, IndParts, ReqsType
<1>2. req[r].action \in Actions /\ "continue" \in Actions
  BY <1>1, GatesAssumption DEF Reqs
<1>3. TicketCurrent(r)
  BY DEF Verdict
<1>4. ~gate[s].overdue
  BY <1>1, <1>2, <1>3, SettleEdited DEF Verdict
<1>5. ASSUME Refuse(s, Reopened(gate[s]), r, dies) PROVE FALSE
  <2> DEFINE g == [gate EXCEPT ![s] = Reopened(gate[s])]
             l == [log EXCEPT ![s] = Append(@, Refused(r))]
  <2>1. Finish(g, l, dies)
    BY <1>5 DEF Refuse
  <2>2. g[p].edited
    <3> HIDE DEF g, l
    <3>1. QED
      BY <2>1, FinishEdited
  <2>3. QED
    BY <1>1, <2>2 DEF Reopened, IndParts, GatesType, Gates
<1>6. Accepted(r, ok) /\ Settle(s, req[r].action, r, TRUE, dies)
  BY <1>3, <1>4, <1>5 DEF Verdict
<1>7. s = p
  <2> DEFINE g == [gate EXCEPT ![s] = Released(req[r].action, TRUE)]
             l == [log EXCEPT ![s] = Append(@, Resumed(req[r].action, r, TRUE))]
  <2>1. Finish(g, l, dies)
    BY <1>6 DEF Settle
  <2>2. g[p].edited
    <3> HIDE DEF g, l
    <3>1. QED
      BY <2>1, FinishEdited
  <2>3. QED
    BY <1>1, <2>2 DEF IndParts, GatesType
<1>8. QED
  BY <1>1, <1>3, <1>4, <1>6, <1>7 DEF Applies, TicketCurrent, Accepted

\* No step but a validator's verdict puts an edit in a log.
LEMMA OnlyVerdictsEdit ==
    ASSUME IndParts, Next, NEW p \in Pauses, gate'[p].edited, ~gate[p].edited
    PROVE  \E r \in Requests : Applies(r, p)
<1> USE DEF IndParts
<1>1. ASSUME NEW r \in Requests, NEW ok \in BOOLEAN, NEW dies \in BOOLEAN, Verdict(r, ok, dies)
      PROVE  Applies(r, p)
  BY <1>1, VerdictEdited
<1>2. ASSUME Connection PROVE FALSE
  <2>1. \/ gate' = gate
        \/ Finish(gate, log, TRUE)
        \/ Commit(gate, log, Sweepable(gate))
    BY <1>2 DEF Connection, Attach, Detach, Dispose
  <2>2. QED
    BY <2>1, FinishEdited, CommitEdited, SweepableType
<1>3. ASSUME Calls PROVE FALSE
  <2>1. ASSUME NEW dies \in BOOLEAN, ImplicitRunStarts(dies) PROVE FALSE
    BY <2>1, FinishEdited DEF ImplicitRunStarts
  <2>2. ASSUME NEW s \in Pauses, NEW pt \in Points, NEW li \in BOOLEAN, NEW ed \in BOOLEAN,
               NEW outside \in BOOLEAN, NEW dies \in BOOLEAN,
               GateHolds(s, pt, ed, li, outside, dies)
        PROVE  FALSE
    <3> DEFINE g == [gate EXCEPT ![s] = HeldAt(gate[s], pt, ed, li, FALSE)]
               l == [log EXCEPT ![s] = <<Paused>>]
    <3>1. Finish(g, l, dies)
      BY <2>2 DEF GateHolds
    <3>2. g[p].edited
      <4> HIDE DEF g, l
      <4>1. QED
        BY <3>1, FinishEdited
    <3>3. QED
      BY <3>2 DEF HeldAt, GatesType, Gates
  <2>3. ASSUME NEW s \in Pauses, NEW pt \in Points, NEW li \in BOOLEAN, GateLosesSocket(s, pt, li)
        PROVE  FALSE
    <3> DEFINE g == [gate EXCEPT ![s] = HeldAt(gate[s], pt, FALSE, li, TRUE)]
               l == [log EXCEPT ![s] = <<Paused>>]
               S == Sweepable(gate)
    <3>1. Commit(g, l, S) /\ S \in SUBSET Pauses
      BY <2>3, SweepableType DEF GateLosesSocket
    <3>2. g[p].edited
      <4> HIDE DEF g, l, S
      <4>1. QED
        BY <3>1, CommitEdited
    <3>3. QED
      BY <3>2 DEF HeldAt, GatesType, Gates
  <2>4. QED
    BY <1>3, <2>1, <2>2, <2>3 DEF Calls
<1>4. ASSUME Resumes PROVE FALSE
  <2>1. PICK r \in Requests, s \in Pauses, a \in Actions :
          \/ ResumeIgnored(r, s)
          \/ \E edit, bad, dies \in BOOLEAN : ResumeRefused(r, s, a, edit, bad, dies)
          \/ \E bad, dies \in BOOLEAN : ResumeReleases(r, s, a, bad, dies)
          \/ ResumeValidates(r, s, a)
    BY <1>4 DEF Resumes
  <2>2. CASE ResumeIgnored(r, s)
    BY <2>2 DEF ResumeIgnored
  <2>3. ASSUME NEW dies \in BOOLEAN, Refuse(s, gate[s], r, dies) PROVE FALSE
    <3> DEFINE g == [gate EXCEPT ![s] = gate[s]]
               l == [log EXCEPT ![s] = Append(@, Refused(r))]
    <3>1. Finish(g, l, dies)
      BY <2>3 DEF Refuse
    <3>2. g[p].edited
      <4> HIDE DEF g, l
      <4>1. QED
        BY <3>1, FinishEdited
    <3>3. QED
      BY <3>2 DEF GatesType
  <2>4. ASSUME NEW bad \in BOOLEAN, NEW dies \in BOOLEAN, ResumeReleases(r, s, a, bad, dies)
        PROVE  FALSE
    BY <2>4, SettleEdited DEF ResumeReleases
  <2>5. CASE ResumeValidates(r, s, a)
    BY <2>5 DEF ResumeValidates, GatesType, Gates
  <2>6. QED
    BY <2>1, <2>2, <2>3, <2>4, <2>5 DEF ResumeRefused
<1>5. ASSUME Timers PROVE \E r \in Requests : Applies(r, p)
  <2>1. ASSUME NEW r \in Requests, ValidationRunsLate(r) PROVE FALSE
    BY <2>1 DEF ValidationRunsLate
  <2>2. ASSUME NEW s \in Pauses, PauseDeadline(s) PROVE FALSE
    BY <2>2 DEF PauseDeadline, GatesType, Gates
  <2>3. ASSUME NEW s \in Pauses, NEW dies \in BOOLEAN, PauseTimer(s, dies) PROVE FALSE
    BY <2>3, SettleEdited, GatesAssumption DEF PauseTimer
  <2>4. QED
    BY <1>1, <1>5, <2>1, <2>2, <2>3 DEF Timers, ValidationTimer
<1>6. ASSUME NEW s \in Pauses, NEW dies \in BOOLEAN, SignalAborts(s, dies) PROVE FALSE
  BY <1>6, SettleEdited, GatesAssumption DEF SignalAborts
<1>7. QED
  BY <1>1, <1>2, <1>3, <1>4, <1>5, <1>6 DEF Next, ValidatorSettles

\* An edit is applied only while its own validation is current, in time, and
\* under the attachment that asked for it.
THEOREM EditsAreCurrent == Spec => EditIsCurrent
<1> DEFINE Current(p) ==
      (gate[p].st # "released" /\ gate'[p].edited) =>
          /\ gate[p].st = "validating" /\ ~gate[p].overdue
          /\ link = "attached"
          /\ LET r == gate[p].ticket IN
                /\ req[r].st = "running" /\ ~req[r].late
                /\ req[r].epoch = epoch
<1>1. ASSUME IndInv, Next, NEW p \in Pauses PROVE Current(p)
  <2> SUFFICES ASSUME gate[p].st # "released", gate'[p].edited
               PROVE  /\ gate[p].st = "validating" /\ ~gate[p].overdue
                      /\ link = "attached"
                      /\ req[gate[p].ticket].st = "running" /\ ~req[gate[p].ticket].late
                      /\ req[gate[p].ticket].epoch = epoch
    OBVIOUS
  <2>1. IndParts
    BY <1>1, IndInvParts
  <2>2. ~gate[p].edited
    BY <1>1 DEF IndInv, EditedIsReleased
  <2>3. PICK r \in Requests : Applies(r, p)
    BY <1>1, <2>1, <2>2, OnlyVerdictsEdit
  <2>4. QED
    BY <2>1, <2>3, TicketOwner DEF Applies
<1>2. IndInv /\ [Next]_vars => [\A p \in Pauses : Current(p)]_vars
  BY <1>1
<1>3. QED
  BY <1>2, IndInvHolds, PTL DEF Spec, EditIsCurrent
-----------------------------------------------------------------------------
(* What one step may do to one gate, to its log, and to the request it     *)
(* answers: the contract of gate() and the truth of the echoes both follow *)
(* from these few cases.                                                   *)

Freeing == Resumed("continue", None, FALSE)

\* The gate keeps its place and its log; an open one does not lose the debugger.
Untouched(p) ==
    /\ Call(gate'[p]) = Call(gate[p]) /\ log'[p] = log[p]
    /\ IsOpen(gate[p]) /\ link = "attached" => link' = "attached"

\* A call is held, or held and let go in the same step.
Taken(p) ==
    /\ link = "attached" /\ gate[p].st = "none"
    /\ gate'[p].st = "held" /\ log'[p] = <<Paused>>
TakenInVain(p) ==
    /\ link = "attached" /\ link' # "attached" /\ gate[p].st = "none"
    /\ gate'[p] = Released("continue", FALSE) /\ log'[p] = Append(<<Paused>>, Freeing)

\* Let go unanswered.
Freed(p) ==
    /\ IsOpen(gate[p]) /\ (link' = "attached" => link = "attached")
    /\ gate'[p] = Released("continue", FALSE) /\ log'[p] = Append(log[p], Freeing)

\* Request r ends in this step, with the pause it names.
Answers(r, p) ==
    /\ link = "attached" /\ IsOpen(gate[p])
    /\ req[r].st # "done" /\ req'[r].st = "done" /\ req'[r].pause = p
TurnedDown(r, p) ==
    \/ /\ link' = "attached" /\ gate'[p].st = "held"
       /\ log'[p] = Append(log[p], Refused(r))
    \/ /\ link' # "attached" /\ gate'[p] = Released("continue", FALSE)
       /\ log'[p] = Append(Append(log[p], Refused(r)), Freeing)
Granted(r, p) ==
    /\ gate'[p] = Released(req'[r].action, req'[r].edit)
    /\ log'[p] = Append(log[p], Resumed(req'[r].action, r, req'[r].edit))

StepOf(p) ==
    \/ Untouched(p) \/ Taken(p) \/ TakenInVain(p) \/ Freed(p)
    \/ \E r \in Requests : Answers(r, p) /\ (TurnedDown(r, p) \/ Granted(r, p))

\* The handler's gate h and log k of p stand, or fall with the socket.
Stands(h, k, p) ==
    gate'[p] = h /\ log'[p] = k /\ (link' = link \/ (link' = "idle" /\ ~IsOpen(h)))
Falls(h, k, p) ==
    /\ IsOpen(h) /\ link = "attached" /\ link' = "idle"
    /\ gate'[p] = Released("continue", FALSE) /\ log'[p] = Append(k, Freeing)

LEMMA FinishShape ==
    ASSUME NEW g, NEW l, NEW dies \in BOOLEAN, Finish(g, l, dies), NEW p \in Pauses
    PROVE  Stands(g[p], l[p], p) \/ Falls(g[p], l[p], p)
<1>1. CASE dies /\ IsOpen(g[p])
  BY <1>1 DEF Finish, Commit, Sweepable, SweepEcho, Falls, Freeing
<1>2. CASE dies /\ ~IsOpen(g[p])
  BY <1>2 DEF Finish, Commit, Sweepable, Stands
<1>3. CASE ~dies
  BY <1>3 DEF Finish, Commit, Stands
<1>4. QED
  BY <1>1, <1>2, <1>3

\* A gate its handler did not change.
LEMMA BystanderStep ==
    ASSUME NEW p \in Pauses, Stands(gate[p], log[p], p) \/ Falls(gate[p], log[p], p)
    PROVE  Untouched(p) \/ Freed(p)
BY DEF Stands, Falls, Untouched, Freed

\* The decision (a, e) and the release that announces it.
Settled(p, a, r, e) ==
    /\ link' = link \/ link' = "idle"
    /\ gate'[p] = Released(a, e) /\ log'[p] = Append(log[p], Resumed(a, r, e))

\* settle(s), seen from any gate: s is settled, another one is a bystander.
LEMMA SettleShape ==
    ASSUME IndParts, NEW s \in Pauses, NEW a \in Actions, NEW r \in Requests \cup {None},
           NEW e \in BOOLEAN, NEW dies \in BOOLEAN, Settle(s, a, r, e, dies), NEW p \in Pauses
    PROVE  \/ p # s /\ (Untouched(p) \/ Freed(p))
           \/ p = s /\ Settled(p, a, r, e)
<1> DEFINE g == [gate EXCEPT ![s] = Released(a, e)]
           l == [log EXCEPT ![s] = Append(log[s], Resumed(a, r, e))]
<1>1. Finish(g, l, dies)
  BY DEF Settle
<1>2. Stands(g[p], l[p], p) \/ Falls(g[p], l[p], p)
  <2> HIDE DEF g, l
  <2>1. QED
    BY <1>1, FinishShape
<1>3. gate \in [Pauses -> Gates] /\ log \in [Pauses -> Seq(Events)]
  BY DEF IndParts, GatesType, LogsType
<1>4. CASE p # s
  BY <1>2, <1>3, <1>4, BystanderStep
<1>5. CASE p = s
  <2>1. g[p] = Released(a, e) /\ l[p] = Append(log[p], Resumed(a, r, e))
    BY <1>3, <1>5
  <2>2. ~IsOpen(Released(a, e))
    BY ReleasedType DEF IsOpen
  <2> HIDE DEF g, l
  <2>3. QED
    BY <1>2, <1>5, <2>1, <2>2 DEF Stands, Falls, Settled
<1>6. QED
  BY <1>4, <1>5

\* The same, with the two decisions their handlers take: none was asked for, or
\* the edit of request r.
LEMMA FreeShape ==
    ASSUME IndParts, NEW s \in Pauses, NEW dies \in BOOLEAN,
           Settle(s, "continue", None, FALSE, dies), IsOpen(gate[s]), NEW p \in Pauses
    PROVE  Untouched(p) \/ Freed(p)
<1>1. "continue" \in Actions /\ None \in Requests \cup {None}
  BY GatesAssumption
<1>2. (p # s /\ (Untouched(p) \/ Freed(p))) \/ (p = s /\ Settled(p, "continue", None, FALSE))
  BY <1>1, SettleShape
<1>3. QED
  BY <1>2 DEF Settled, Freed, Freeing

\* emitRefused of gate s, which becomes h and stays held.
LEMMA RefuseShape ==
    ASSUME IndParts, NEW s \in Pauses, NEW h, h.st = "held", NEW r, NEW dies \in BOOLEAN,
           Refuse(s, h, r, dies), NEW p \in Pauses, link = "attached"
    PROVE  (p # s /\ (Untouched(p) \/ Freed(p))) \/ (p = s /\ TurnedDown(r, p))
<1> DEFINE g == [gate EXCEPT ![s] = h]
           l == [log EXCEPT ![s] = Append(log[s], Refused(r))]
<1>1. Finish(g, l, dies)
  BY DEF Refuse
<1>2. Stands(g[p], l[p], p) \/ Falls(g[p], l[p], p)
  <2> HIDE DEF g, l
  <2>1. QED
    BY <1>1, FinishShape
<1>3. gate \in [Pauses -> Gates] /\ log \in [Pauses -> Seq(Events)]
  BY DEF IndParts, GatesType, LogsType
<1>4. CASE p # s
  BY <1>2, <1>3, <1>4, BystanderStep
<1>5. CASE p = s
  <2>1. g[p] = h /\ l[p] = Append(log[p], Refused(r)) /\ IsOpen(h)
    BY <1>3, <1>5 DEF IsOpen
  <2> HIDE DEF g, l
  <2>2. QED
    BY <1>2, <1>5, <2>1 DEF Stands, Falls, TurnedDown
<1>6. QED
  BY <1>4, <1>5

\* attach, detach and dispose answer nobody.
LEMMA ConnectionStep == ASSUME IndParts, Connection, NEW p \in Pauses PROVE Untouched(p) \/ Freed(p)
<1>1. CASE \E edit \in BOOLEAN : Attach(edit)
  BY <1>1 DEF Attach, Untouched
<1>2. CASE Detach
  <2>1. Stands(gate[p], log[p], p) \/ Falls(gate[p], log[p], p)
    BY <1>2, FinishShape DEF Detach
  <2>2. QED
    BY <2>1, BystanderStep
<1>3. CASE Dispose
  <2>1. CASE IsOpen(gate[p])
    BY <1>3, <2>1 DEF Dispose, Commit, Sweepable, SweepEcho, Freed, Freeing
  <2>2. CASE ~IsOpen(gate[p])
    BY <1>3, <2>2 DEF Dispose, Commit, Sweepable, Untouched
  <2>3. QED
    BY <2>1, <2>2
<1>4. QED
  BY <1>1, <1>2, <1>3 DEF Connection

\* gate(), and the implicit run it or any other event may start.
LEMMA CallsStep ==
    ASSUME IndParts, Calls, NEW p \in Pauses
    PROVE  Untouched(p) \/ Taken(p) \/ TakenInVain(p) \/ Freed(p)
<1>0. gate \in [Pauses -> Gates] /\ log \in [Pauses -> Seq(Events)]
  BY DEF IndParts, GatesType, LogsType
<1>1. ASSUME NEW dies \in BOOLEAN, ImplicitRunStarts(dies) PROVE Untouched(p) \/ Freed(p)
  BY <1>1, FinishShape, BystanderStep DEF ImplicitRunStarts
<1>2. ASSUME NEW s \in Pauses, NEW pt \in Points, NEW li \in BOOLEAN, NEW ed \in BOOLEAN,
             NEW outside \in BOOLEAN, NEW dies \in BOOLEAN,
             GateHolds(s, pt, ed, li, outside, dies)
      PROVE  Untouched(p) \/ Taken(p) \/ TakenInVain(p) \/ Freed(p)
  <2> DEFINE h == HeldAt(gate[s], pt, ed, li, FALSE)
             g == [gate EXCEPT ![s] = h]
             l == [log EXCEPT ![s] = <<Paused>>]
  <2>1. Finish(g, l, dies) /\ link = "attached" /\ gate[s].st = "none"
    BY <1>2 DEF GateHolds
  <2>2. Stands(g[p], l[p], p) \/ Falls(g[p], l[p], p)
    <3> HIDE DEF g, l
    <3>1. QED
      BY <2>1, FinishShape
  <2>3. h.st = "held" /\ IsOpen(h)
    BY <1>0 DEF HeldAt, IsOpen, Gates
  <2> HIDE DEF h
  <2>4. CASE p # s
    BY <1>0, <2>2, <2>4, BystanderStep
  <2>5. CASE p = s
    <3>1. g[p] = h /\ l[p] = <<Paused>>
      BY <1>0, <2>5
    <3> HIDE DEF g, l
    <3>2. QED
      BY <2>1, <2>2, <2>3, <2>5, <3>1 DEF Stands, Falls, Taken, TakenInVain
  <2>6. QED
    BY <2>4, <2>5
<1>3. ASSUME NEW s \in Pauses, NEW pt \in Points, NEW li \in BOOLEAN, GateLosesSocket(s, pt, li)
      PROVE  Untouched(p) \/ Taken(p) \/ Freed(p)
  <2> DEFINE h == HeldAt(gate[s], pt, FALSE, li, TRUE)
             g == [gate EXCEPT ![s] = h]
             l == [log EXCEPT ![s] = <<Paused>>]
             S == Sweepable(gate)
  <2>1. /\ Commit(g, l, S) /\ link = "attached" /\ link' = "idle"
        /\ gate[s].st = "none"
    BY <1>3 DEF GateLosesSocket
  <2>2. h.st = "held" /\ s \notin S
    BY <1>0, <2>1 DEF HeldAt, Gates, Sweepable, IsOpen
  <2> HIDE DEF h
  <2>3. g[s] = h /\ l[s] = <<Paused>> /\ (p # s => g[p] = gate[p] /\ l[p] = log[p])
    BY <1>0
  <2>4. (p \in S) <=> IsOpen(gate[p])
    BY DEF Sweepable
  <2> HIDE DEF g, l, S
  <2>5. CASE p = s
    BY <2>1, <2>2, <2>3, <2>5 DEF Commit, Taken
  <2>6. CASE p # s /\ p \in S
    BY <2>1, <2>3, <2>4, <2>6 DEF Commit, SweepEcho, Freed, Freeing
  <2>7. CASE p # s /\ p \notin S
    BY <2>1, <2>3, <2>4, <2>7 DEF Commit, Untouched
  <2>8. QED
    BY <2>5, <2>6, <2>7
<1>4. QED
  BY <1>1, <1>2, <1>3 DEF Calls

\* exec.resume: one gate is answered, or starts to validate.
LEMMA ResumesStep == ASSUME IndParts, Resumes, NEW p \in Pauses PROVE StepOf(p)
<1>1. PICK r \in Requests, s \in Pauses, a \in Actions :
          \/ ResumeIgnored(r, s)
          \/ \E edit, bad, dies \in BOOLEAN : ResumeRefused(r, s, a, edit, bad, dies)
          \/ \E bad, dies \in BOOLEAN : ResumeReleases(r, s, a, bad, dies)
          \/ ResumeValidates(r, s, a)
  BY DEF Resumes
<1>2. gate \in [Pauses -> Gates] /\ gate[s] \in Gates
  BY DEF IndParts, GatesType
<1>3. CASE ResumeIgnored(r, s)
  BY <1>3 DEF ResumeIgnored, StepOf, Untouched
<1>4. ASSUME NEW edit \in BOOLEAN, NEW bad \in BOOLEAN, NEW dies \in BOOLEAN,
             ResumeRefused(r, s, a, edit, bad, dies)
      PROVE  StepOf(p)
  <2>1. /\ link = "attached" /\ req[r].st = "unused" /\ gate[s].st = "held"
        /\ Asked(r, s, a, edit, "done") /\ Refuse(s, gate[s], r, dies)
    BY <1>4 DEF ResumeRefused, Resumable
  <2>2. req'[r].st = "done" /\ req'[r].pause = s
    BY <2>1, AskedType
  <2>3. \/ p # s /\ (Untouched(p) \/ Freed(p))
        \/ p = s /\ TurnedDown(r, p)
    BY <2>1, RefuseShape
  <2>4. p = s => Answers(r, p)
    BY <2>1, <2>2 DEF Answers, IsOpen
  <2>5. QED
    BY <2>3, <2>4 DEF StepOf
<1>5. ASSUME NEW bad \in BOOLEAN, NEW dies \in BOOLEAN, ResumeReleases(r, s, a, bad, dies)
      PROVE  StepOf(p)
  <2>1. /\ link = "attached" /\ req[r].st = "unused" /\ gate[s].st = "held"
        /\ Asked(r, s, a, FALSE, "done") /\ Settle(s, a, r, FALSE, dies)
    BY <1>5 DEF ResumeReleases, Resumable
  <2>2. /\ req'[r].st = "done" /\ req'[r].pause = s
        /\ req'[r].action = a /\ req'[r].edit = FALSE
    BY <2>1, AskedType DEF Asked, IndParts, ReqsType
  <2>3. \/ p # s /\ (Untouched(p) \/ Freed(p))
        \/ p = s /\ Settled(p, a, r, FALSE)
    BY <2>1, SettleShape
  <2>4. p = s => Answers(r, p)
    BY <2>1, <2>2 DEF Answers, IsOpen
  <2>5. p = s => Granted(r, p)
    BY <2>2, <2>3 DEF Granted, Settled
  <2>6. QED
    BY <2>3, <2>4, <2>5 DEF StepOf
<1>6. CASE ResumeValidates(r, s, a)
  <2>1. /\ gate[s].st = "held" /\ log' = log /\ link' = link
        /\ gate' = [gate EXCEPT ![s] = [gate[s] EXCEPT !.st = "validating", !.ticket = r]]
    BY <1>6 DEF ResumeValidates, Resumable
  <2>2. p # s => gate'[p] = gate[p]
    BY <1>2, <2>1
  <2>3. gate'[s].st = "validating"
    BY <1>2, <2>1 DEF Gates
  <2>4. Call(gate'[s]) = Call(gate[s])
    BY <2>1, <2>3 DEF Call
  <2>5. QED
    BY <2>1, <2>2, <2>4 DEF StepOf, Untouched
<1>7. QED
  BY <1>1, <1>3, <1>4, <1>5, <1>6

\* A running validation is that of an edit.
RunningEdits == \A r \in Requests : req[r].st = "running" => req[r].edit

\* The verdict on an edit.
LEMMA VerdictStep ==
    ASSUME IndParts, RunningEdits, NEW r \in Requests, NEW ok \in BOOLEAN, NEW dies \in BOOLEAN,
           Verdict(r, ok, dies), NEW p \in Pauses
    PROVE  StepOf(p)
<1> DEFINE s == req[r].pause
<1>1. req[r] \in Reqs /\ req[r].st = "running" /\ s \in Pauses /\ req[r].edit = TRUE
  BY DEF Verdict, IndParts, ReqsType, RunningEdits, Reqs
<1>2. req'[r] = [req[r] EXCEPT !.st = "done", !.late = FALSE]
  BY VerdictRequests
<1>3. /\ req'[r].st = "done" /\ req'[r].pause = s
      /\ req'[r].action = req[r].action /\ req'[r].edit = TRUE
  BY <1>1, <1>2 DEF Reqs
<1>4. CASE ~TicketCurrent(r)
  BY <1>4 DEF Verdict, StepOf, Untouched
<1>5. ASSUME TicketCurrent(r) PROVE StepOf(p)
  <2>1. gate[s].ticket = r /\ link = "attached" /\ IsOpen(gate[s])
    BY <1>1, <1>5, TicketOwner DEF TicketCurrent, IsOpen
  <2>2. p = s => Answers(r, p)
    BY <1>1, <1>3, <2>1 DEF Answers
  <2>3. req[r].action \in Actions /\ "continue" \in Actions
    BY <1>1, GatesAssumption DEF Reqs
  <2>4. CASE Settle(s, "continue", None, FALSE, dies)
    BY <1>1, <2>1, <2>4, FreeShape DEF StepOf
  <2>5. CASE Settle(s, req[r].action, r, TRUE, dies)
    <3>1. \/ p # s /\ (Untouched(p) \/ Freed(p))
          \/ p = s /\ Settled(p, req[r].action, r, TRUE)
      <4>1. ASSUME NEW a \in Actions, Settle(s, a, r, TRUE, dies)
            PROVE  (p # s /\ (Untouched(p) \/ Freed(p))) \/ (p = s /\ Settled(p, a, r, TRUE))
        BY <1>1, <4>1, SettleShape
      <4>2. QED
        BY <2>3, <2>5, <4>1
    <3>2. p = s => Granted(r, p)
      BY <1>3, <3>1 DEF Granted, Settled
    <3>3. QED
      BY <2>2, <3>1, <3>2 DEF StepOf
  <2>6. CASE Refuse(s, Reopened(gate[s]), r, dies)
    <3>1. Reopened(gate[s]).st = "held"
      BY <1>1, ReopenedType DEF IndParts, GatesType
    <3>2. \/ p # s /\ (Untouched(p) \/ Freed(p))
          \/ p = s /\ TurnedDown(r, p)
      BY <1>1, <2>1, <2>6, <3>1, RefuseShape
    <3>3. QED
      BY <2>2, <3>2 DEF StepOf
  <2>7. QED
    BY <1>5, <2>4, <2>5, <2>6 DEF Verdict
<1>6. QED
  BY <1>4, <1>5

\* Every step is one of the few, for every gate.
LEMMA EveryStep ==
    ASSUME IndParts, RunningEdits, [Next]_vars, NEW p \in Pauses
    PROVE  StepOf(p)
<1>1. ASSUME NEW r \in Requests, NEW ok \in BOOLEAN, NEW dies \in BOOLEAN, Verdict(r, ok, dies)
      PROVE  StepOf(p)
  BY <1>1, VerdictStep
<1>2. ASSUME NEW s \in Pauses, NEW dies \in BOOLEAN, Settle(s, "continue", None, FALSE, dies),
             IsOpen(gate[s])
      PROVE  StepOf(p)
  BY <1>2, FreeShape DEF StepOf
<1>3. CASE Connection
  BY <1>3, ConnectionStep DEF StepOf
<1>4. CASE Calls
  BY <1>4, CallsStep DEF StepOf
<1>5. CASE Timers
  <2>1. ASSUME NEW r \in Requests, ValidationRunsLate(r) PROVE StepOf(p)
    BY <2>1 DEF ValidationRunsLate, StepOf, Untouched
  <2>2. ASSUME NEW s \in Pauses, PauseDeadline(s) PROVE StepOf(p)
    <3>1. /\ gate' = [gate EXCEPT ![s] = [gate[s] EXCEPT !.overdue = TRUE]]
          /\ log' = log /\ link' = link
      BY <2>2 DEF PauseDeadline
    <3>2. gate \in [Pauses -> Gates] /\ gate[s] \in Gates
      BY DEF IndParts, GatesType
    <3>3. /\ gate'[s].st = gate[s].st /\ gate'[s].action = gate[s].action
          /\ gate'[s].edited = gate[s].edited /\ (p # s => gate'[p] = gate[p])
      BY <3>1, <3>2 DEF Gates
    <3>4. Call(gate'[p]) = Call(gate[p])
      BY <3>3 DEF Call
    <3>5. QED
      BY <3>1, <3>4 DEF StepOf, Untouched
  <2>3. ASSUME NEW s \in Pauses, NEW dies \in BOOLEAN, PauseTimer(s, dies) PROVE StepOf(p)
    BY <1>2, <2>3 DEF PauseTimer
  <2>4. QED
    BY <1>1, <1>5, <2>1, <2>2, <2>3 DEF Timers, ValidationTimer
<1>6. ASSUME NEW s \in Pauses, NEW dies \in BOOLEAN, SignalAborts(s, dies) PROVE StepOf(p)
  BY <1>2, <1>6 DEF SignalAborts
<1>7. CASE UNCHANGED vars
  BY <1>7 DEF vars, StepOf, Untouched
<1>8. QED
  BY <1>1, <1>3, <1>4, <1>5, <1>6, <1>7, ResumesStep DEF Next, ValidatorSettles

-----------------------------------------------------------------------------
(* An event that echoes a request is the answer to it.                     *)

\* What a step may do to one request.
RequestStep(r) ==
    /\ req[r].st = "done" => req'[r] = req[r]
    /\ req'[r].st = "running" => \/ req'[r].edit = TRUE
                                 \/ req[r].st = "running" /\ req'[r].edit = req[r].edit

\* Only request s changed, and it was not done before.
LEMMA OneRequest ==
    ASSUME NEW s \in Requests, req[s].st # "done", \A r \in Requests \ {s} : req'[r] = req[r],
           req'[s].st = "running" => \/ req'[s].edit = TRUE
                                     \/ req[s].st = "running" /\ req'[s].edit = req[s].edit,
           NEW r \in Requests
    PROVE  RequestStep(r)
BY DEF RequestStep

\* exec.resume uses a requestId once, and validates an edit only.
LEMMA ResumeRequests == ASSUME IndParts, Resumes, NEW r \in Requests PROVE RequestStep(r)
<1>1. PICK q \in Requests, s \in Pauses, a \in Actions :
          \/ ResumeIgnored(q, s)
          \/ \E edit, bad, dies \in BOOLEAN : ResumeRefused(q, s, a, edit, bad, dies)
          \/ \E bad, dies \in BOOLEAN : ResumeReleases(q, s, a, bad, dies)
          \/ ResumeValidates(q, s, a)
  BY DEF Resumes
<1>2. CASE ResumeIgnored(q, s)
  <2>1. /\ req \in [Requests -> Reqs] /\ req[q].st = "unused"
        /\ req' = [req EXCEPT ![q] = [req[q] EXCEPT !.st = "done"]]
    BY <1>2 DEF ResumeIgnored, IndParts, ReqsType
  <2>2. req'[q].st = "done" /\ \A p \in Requests \ {q} : req'[p] = req[p]
    BY <2>1 DEF Reqs
  <2>3. QED
    BY <2>1, <2>2, OneRequest
<1>3. ASSUME NEW e \in BOOLEAN, Asked(q, s, a, e, "done"), req[q].st = "unused"
      PROVE  RequestStep(r)
  <2>1. req'[q].st = "done" /\ \A p \in Requests \ {q} : req'[p] = req[p]
    BY <1>3, AskedType
  <2>2. QED
    BY <1>3, <2>1, OneRequest
<1>4. CASE ResumeValidates(q, s, a)
  <2>1. req[q].st = "unused" /\ Asked(q, s, a, TRUE, "running")
    BY <1>4 DEF ResumeValidates
  <2>2. \A p \in Requests \ {q} : req'[p] = req[p]
    BY <2>1, AskedType
  <2>3. req'[q].edit = TRUE
    BY <2>1 DEF Asked, IndParts, ReqsType
  <2>4. QED
    BY <2>1, <2>2, <2>3, OneRequest
<1>5. QED
  BY <1>1, <1>2, <1>3, <1>4 DEF ResumeRefused, ResumeReleases

\* An answered request is never written again, and what a validation validates
\* is an edit.
LEMMA EveryRequest ==
    ASSUME IndParts, [Next]_vars, NEW r \in Requests
    PROVE  RequestStep(r)
<1>1. ASSUME req' = req PROVE RequestStep(r)
  BY <1>1 DEF RequestStep
<1>2. ASSUME NEW q \in Requests, NEW ok \in BOOLEAN, NEW dies \in BOOLEAN, Verdict(q, ok, dies)
      PROVE  RequestStep(r)
  <2>1. /\ req'[q] = [req[q] EXCEPT !.st = "done", !.late = FALSE]
        /\ \A p \in Requests \ {q} : req'[p] = req[p]
    BY <1>2, VerdictRequests
  <2>2. req[q] \in Reqs /\ req[q].st = "running"
    BY <1>2 DEF Verdict, IndParts, ReqsType
  <2>3. req'[q].st = "done"
    BY <2>1, <2>2 DEF Reqs
  <2>4. QED
    BY <2>1, <2>2, <2>3, OneRequest
<1>3. ASSUME NEW q \in Requests, ValidationRunsLate(q) PROVE RequestStep(r)
  <2>1. /\ req \in [Requests -> Reqs] /\ req[q].st = "running"
        /\ req' = [req EXCEPT ![q] = [req[q] EXCEPT !.late = TRUE]]
    BY <1>3 DEF ValidationRunsLate, IndParts, ReqsType
  <2>2. req'[q].edit = req[q].edit /\ \A p \in Requests \ {q} : req'[p] = req[p]
    BY <2>1 DEF Reqs
  <2>3. QED
    BY <2>1, <2>2, OneRequest
<1>4. CASE Connection \/ Calls
  BY <1>1, <1>4 DEF Connection, Attach, Detach, Dispose, Calls, ImplicitRunStarts, GateHolds,
     GateLosesSocket
<1>5. CASE Timers
  BY <1>1, <1>2, <1>3, <1>5 DEF Timers, ValidationTimer, PauseDeadline, PauseTimer
<1>6. CASE UNCHANGED vars
  BY <1>1, <1>6 DEF vars
<1>7. QED
  BY <1>1, <1>2, <1>4, <1>5, <1>6, ResumeRequests DEF Next, ValidatorSettles, SignalAborts

\* EchoTruthful, of the log l of pause p under the requests q.
TrueEchoes(l, q, p) ==
    \A i \in 1..Len(l) : l[i].req # None =>
        /\ q[l[i].req].st = "done" /\ q[l[i].req].pause = p
        /\ \A j \in 1..Len(l) : l[j].req = l[i].req => j = i
        /\ l[i].type = "resumed" => /\ l[i].action = q[l[i].req].action
                                    /\ l[i].edited = q[l[i].req].edit

\* One more event, which echoes nobody, or a request of this pause that is done
\* and that no event has echoed.
LEMMA OneMoreEcho ==
    ASSUME NEW l \in Seq(Events), NEW q, NEW p, TrueEchoes(l, q, p), NEW e \in Events,
           e.req # None =>
               /\ q[e.req].st = "done" /\ q[e.req].pause = p
               /\ \A i \in 1..Len(l) : l[i].req # e.req
               /\ e.type = "resumed" => e.action = q[e.req].action /\ e.edited = q[e.req].edit
    PROVE  TrueEchoes(Append(l, e), q, p) /\ Append(l, e) \in Seq(Events)
<1> DEFINE k == Append(l, e)
<1>1. /\ k \in Seq(Events) /\ Len(k) = Len(l) + 1 /\ Len(l) \in Nat /\ k[Len(l) + 1] = e
      /\ \A i \in 1..Len(l) : k[i] = l[i]
  OBVIOUS
<1> HIDE DEF k
<1>2. \A i \in 1..Len(k) : i \in 1..Len(l) \/ i = Len(l) + 1
  BY <1>1
<1>3. ASSUME NEW i \in 1..Len(l), k[i].req # None
      PROVE  /\ q[k[i].req].st = "done" /\ q[k[i].req].pause = p
             /\ \A j \in 1..Len(k) : k[j].req = k[i].req => j = i
             /\ k[i].type = "resumed" => /\ k[i].action = q[k[i].req].action
                                         /\ k[i].edited = q[k[i].req].edit
  <2>1. k[i] = l[i] /\ l[i].req # None
    BY <1>1, <1>3
  <2>2. e.req # l[i].req
    BY <2>1
  <2>3. \A j \in 1..Len(k) : k[j].req = k[i].req => j = i
    BY <1>1, <1>2, <2>1, <2>2 DEF TrueEchoes
  <2>4. QED
    BY <2>1, <2>3 DEF TrueEchoes
<1>4. ASSUME e.req # None
      PROVE  \A j \in 1..Len(k) : k[j].req = e.req => j = Len(l) + 1
  BY <1>1, <1>2, <1>4
<1>5. TrueEchoes(k, q, p)
  BY <1>1, <1>2, <1>3, <1>4 DEF TrueEchoes
<1>6. QED
  BY <1>1, <1>5 DEF k

\* The requests an echo names stay as they are, so the echoes of a log that
\* does not change stay true.
LEMMA EchoesStay ==
    ASSUME IndParts, [Next]_vars, NEW p \in Pauses, TrueEchoes(log[p], req, p)
    PROVE  TrueEchoes(log[p], req', p)
<1>1. log[p] \in Seq(Events)
  BY DEF IndParts, LogsType
<1>2. \A i \in 1..Len(log[p]) : log[p][i].req \in Requests \cup {None}
  <2>1. \A i \in 1..Len(log[p]) : log[p][i] \in Events
    BY <1>1
  <2>2. QED
    BY <2>1 DEF Events
<1>3. \A i \in 1..Len(log[p]) : log[p][i].req # None => req'[log[p][i].req] = req[log[p][i].req]
  <2> SUFFICES ASSUME NEW i \in 1..Len(log[p]), log[p][i].req # None
               PROVE  req'[log[p][i].req] = req[log[p][i].req]
    OBVIOUS
  <2>1. log[p][i].req \in Requests /\ req[log[p][i].req].st = "done"
    BY <1>2 DEF TrueEchoes
  <2>2. QED
    BY <2>1, EveryRequest DEF RequestStep
<1>4. QED
  BY <1>3 DEF TrueEchoes

\* The echoes of one pause stay true in every step.
LEMMA EchoesStep ==
    ASSUME IndParts, RunningEdits, [Next]_vars, NEW p \in Pauses, TrueEchoes(log[p], req, p)
    PROVE  TrueEchoes(log'[p], req', p)
<1>1. log[p] \in Seq(Events) /\ TrueEchoes(log[p], req', p)
  BY EchoesStay DEF IndParts, LogsType
<1>2. /\ Freeing \in Events /\ Freeing.req = None
      /\ \A r \in Requests : Refused(r) \in Events /\ Refused(r).req = r /\ Refused(r).type = "refused"
      /\ \A r \in Requests : r # None
  BY GatesAssumption DEF Freeing, Resumed, Refused, Events
<1>3. \A l \in Seq(Events) : TrueEchoes(l, req', p) => TrueEchoes(Append(l, Freeing), req', p)
  BY <1>2, OneMoreEcho
<1>4. StepOf(p)
  BY EveryStep
<1>5. CASE Untouched(p)
  BY <1>1, <1>5 DEF Untouched
<1>6. CASE Taken(p) \/ TakenInVain(p)
  <2>1. <<Paused>> \in Seq(Events) /\ <<Paused>>[1].req = None /\ Len(<<Paused>>) = 1
    BY GatesAssumption DEF Paused, Events
  <2>2. TrueEchoes(<<Paused>>, req', p)
    BY <2>1 DEF TrueEchoes
  <2>3. QED
    BY <1>3, <1>6, <2>1, <2>2 DEF Taken, TakenInVain
<1>7. CASE Freed(p)
  BY <1>1, <1>3, <1>7 DEF Freed
<1>8. ASSUME NEW r \in Requests, Answers(r, p), TurnedDown(r, p) \/ Granted(r, p)
      PROVE  TrueEchoes(log'[p], req', p)
  <2>1. /\ req[r].st # "done" /\ req'[r].st = "done" /\ req'[r].pause = p
        /\ \A i \in 1..Len(log[p]) : log[p][i].req # r
    BY <1>2, <1>8 DEF Answers, TrueEchoes
  <2>2. CASE TurnedDown(r, p)
    <3>1. /\ TrueEchoes(Append(log[p], Refused(r)), req', p)
          /\ Append(log[p], Refused(r)) \in Seq(Events)
      BY <1>1, <1>2, <2>1, OneMoreEcho
    <3>2. QED
      BY <1>3, <2>2, <3>1 DEF TurnedDown
  <2>3. CASE Granted(r, p)
    <3> DEFINE e == Resumed(req'[r].action, r, req'[r].edit)
    <3>1. req'[r] \in Reqs
      <4>1. IndParts'
        BY IndInvStep, IndInvParts
      <4>2. QED
        BY <4>1 DEF IndParts, ReqsType
    <3>2. e \in Events /\ e.req = r /\ e.action = req'[r].action /\ e.edited = req'[r].edit
      BY <3>1 DEF Reqs, Resumed, Events
    <3>3. log'[p] = Append(log[p], e)
      BY <2>3 DEF Granted
    <3> HIDE DEF e
    <3>4. QED
      BY <1>1, <2>1, <3>2, <3>3, OneMoreEcho
  <2>4. QED
    BY <1>8, <2>2, <2>3
<1>9. QED
  BY <1>4, <1>5, <1>6, <1>7, <1>8 DEF StepOf

EchoInv == IndInv /\ RunningEdits /\ EchoTruthful

LEMMA EchoParts ==
    /\ EchoTruthful <=> \A p \in Pauses : TrueEchoes(log[p], req, p)
    /\ EchoTruthful' <=> \A p \in Pauses : TrueEchoes(log'[p], req', p)
BY DEF EchoTruthful, TrueEchoes

\* The echoes, with what makes them inductive.
LEMMA EchoInvHolds == Spec => []EchoInv
<1>1. Init => EchoInv
  <2> SUFFICES ASSUME Init PROVE EchoInv
    OBVIOUS
  <2>1. RunningEdits /\ EchoTruthful
    BY DEF Init, NoReq, RunningEdits, EchoTruthful
  <2>2. QED
    BY <2>1, IndPartsInit, IndInvParts DEF EchoInv
<1>2. EchoInv /\ [Next]_vars => EchoInv'
  <2> SUFFICES ASSUME IndParts, RunningEdits, EchoTruthful, [Next]_vars PROVE EchoInv'
    BY IndInvParts DEF EchoInv
  <2>1. IndInv'
    BY IndInvParts, IndInvStep
  <2>2. RunningEdits'
    BY EveryRequest DEF RequestStep, RunningEdits
  <2>3. EchoTruthful'
    BY EchoesStep, EchoParts
  <2>4. QED
    BY <2>1, <2>2, <2>3 DEF EchoInv
<1>3. QED
  BY <1>1, <1>2, PTL DEF Spec

\* An event that echoes a request is the one answer to it, on the gate it named,
\* and a release that echoes it did what was asked.
THEOREM EchoesAreTrue == Spec => []EchoTruthful
BY EchoInvHolds, PTL DEF EchoInv

-----------------------------------------------------------------------------
(* The session keeps the contract of gate(): its initial states are the    *)
(* contract's, and each of its steps is a step of the contract.            *)

\* What the contract sees of a gate.
LEMMA CallFacts ==
    /\ \A g \in Gates : g.st = "none" => Call(g) = Contract!Idle
    /\ \A g \in Gates : (Call(g) = Contract!Held) <=> IsOpen(g)
    /\ \A a \in Actions, e \in BOOLEAN : Call(Released(a, e)) = Contract!Released(a, e)
<1>1. ASSUME NEW g \in Gates, g.st = "none" PROVE Call(g) = Contract!Idle
  BY <1>1 DEF Call, Contract!Idle
<1>2. ASSUME NEW g \in Gates PROVE (Call(g) = Contract!Held) <=> IsOpen(g)
  <2>1. Contract!Held = [st |-> "held", action |-> "continue", edited |-> FALSE]
    BY DEF Contract!Held
  <2>2. CASE IsOpen(g)
    BY <2>1, <2>2 DEF Call, IsOpen
  <2>3. CASE ~IsOpen(g)
    <3>1. g.st = "none" \/ g.st = "released"
      BY <2>3 DEF IsOpen, Gates
    <3>2. Call(g).st = "idle" \/ Call(g).st = "released"
      BY <3>1 DEF Call
    <3>3. QED
      BY <2>1, <2>3, <3>2
  <2>4. QED
    BY <2>2, <2>3
<1>3. ASSUME NEW a \in Actions, NEW e \in BOOLEAN PROVE Call(Released(a, e)) = Contract!Released(a, e)
  BY ReleasedType DEF Call, Contract!Released
<1>4. QED
  BY <1>1, <1>2, <1>3

\* The contract speaks of the same events.
LEMMA EventFacts ==
    /\ Contract!Paused = Paused
    /\ \A r \in Requests : Contract!Refused(r) = Refused(r)
    /\ \A a \in Actions, r \in Requests \cup {None}, e \in BOOLEAN :
           Contract!Resumed(a, r, e) = Resumed(a, r, e)
BY DEF Contract!Paused, Paused, Contract!Refused, Refused, Contract!Resumed, Resumed

\* Two ways of writing the record of a call held in vain, and of one more event.
LEMMA PairOfEvents == ASSUME NEW S, NEW a \in S, NEW b \in S PROVE Append(<<a>>, b) = <<a, b>>
<1> DEFINE s == Append(<<a>>, b)
           t == <<a, b>>
<1>1. <<a>> \in Seq(S) /\ Len(<<a>>) = 1 /\ <<a>>[1] = a
  OBVIOUS
<1>2. s \in Seq(S) /\ Len(s) = 2 /\ s[1] = a /\ s[2] = b
  BY <1>1
<1>3. t \in Seq(S) /\ Len(t) = 2 /\ t[1] = a /\ t[2] = b
  OBVIOUS
<1>4. \A i \in 1..2 : i = 1 \/ i = 2
  OBVIOUS
<1> HIDE DEF s, t
<1>5. s = t
  BY <1>2, <1>3, <1>4, SeqEqual
<1>6. QED
  BY <1>5 DEF s, t

\* One gate's part of a step of the contract.
Allowed(p) ==
    \/ Contract!Holds(p) \/ Contract!HoldsInVain(p)
    \/ \E r \in Requests : Contract!Refuses(p, r)
    \/ \E a \in Actions, r \in Requests \cup {None}, e \in BOOLEAN : Contract!Releases(p, a, r, e)
    \/ Contract!LosesHeld(p, << >>) \/ \E r \in Requests : Contract!LosesHeld(p, <<Refused(r)>>)
    \/ Contract!Elsewhere(p)

LEMMA AllowedStep ==
    ASSUME IndParts, RunningEdits, [Next]_vars, NEW p \in Pauses
    PROVE  Allowed(p)
<1> DEFINE calls == [s \in Pauses |-> Call(gate[s])]
<1>1. /\ gate[p] \in Gates /\ log[p] \in Seq(Events)
      /\ gate'[p] \in Gates /\ log'[p] \in Seq(Events)
  <2>1. IndParts'
    BY IndInvStep, IndInvParts
  <2>2. QED
    BY <2>1 DEF IndParts, GatesType, LogsType
<1>2. calls[p] = Call(gate[p]) /\ calls'[p] = Call(gate'[p])
  OBVIOUS
<1>3. "continue" \in Actions /\ None \in Requests \cup {None} /\ \A r \in Requests : r # None
  BY GatesAssumption
<1>4. Freeing \in Events /\ Contract!Resumed("continue", None, FALSE) = Freeing
  BY <1>3, EventFacts, EventTypes DEF Freeing
<1>5. gate'[p] = Released("continue", FALSE) => Call(gate'[p]) = Contract!Released("continue", FALSE)
  BY <1>3, CallFacts
<1>6. StepOf(p)
  BY EveryStep
<1> HIDE DEF calls
<1>7. CASE Untouched(p)
  <2>1. Contract!Elsewhere(p)
    BY <1>1, <1>2, <1>7, CallFacts DEF Untouched, Contract!Elsewhere, calls
  <2>2. QED
    BY <2>1 DEF Allowed
<1>8. CASE Taken(p)
  <2>1. IsOpen(gate'[p])
    BY <1>8 DEF Taken, IsOpen
  <2>2. Contract!Holds(p)
    BY <1>1, <1>2, <1>8, <2>1, CallFacts, EventFacts DEF Taken, Contract!Holds, calls
  <2>3. QED
    BY <2>2 DEF Allowed
<1>9. CASE TakenInVain(p)
  <2>1. Append(<<Paused>>, Freeing) = <<Paused, Freeing>>
    BY <1>3, <1>4, EventTypes, PairOfEvents
  <2>2. Contract!HoldsInVain(p)
    BY <1>1, <1>2, <1>4, <1>5, <1>9, <2>1, CallFacts, EventFacts
    DEF TakenInVain, Contract!HoldsInVain, calls
  <2>3. QED
    BY <2>2 DEF Allowed
<1>10. CASE Freed(p)
  <2>1. Contract!Releases(p, "continue", None, FALSE)
    BY <1>1, <1>2, <1>4, <1>5, <1>10, CallFacts DEF Freed, Contract!Releases, calls
  <2>2. QED
    BY <1>3, <2>1 DEF Allowed
<1>11. ASSUME NEW r \in Requests, Answers(r, p), TurnedDown(r, p) PROVE Allowed(p)
  <2>1. link = "attached" /\ calls[p] = Contract!Held
    BY <1>1, <1>2, <1>11, CallFacts DEF Answers
  <2>2. Refused(r) \in Events /\ Contract!Refused(r) = Refused(r)
    BY <1>3, EventTypes, EventFacts
  <2>3. CASE link' = "attached"
    <3>1. gate'[p].st = "held" /\ log'[p] = Append(log[p], Refused(r))
      BY <1>11, <2>3 DEF TurnedDown
    <3>2. calls'[p] = Contract!Held
      BY <1>1, <1>2, <3>1, CallFacts DEF IsOpen
    <3>3. Contract!Refuses(p, r)
      BY <2>1, <2>2, <2>3, <3>1, <3>2 DEF Contract!Refuses, calls
    <3>4. QED
      BY <3>3 DEF Allowed
  <2>4. CASE link' # "attached"
    <3>1. /\ gate'[p] = Released("continue", FALSE)
          /\ log'[p] = Append(Append(log[p], Refused(r)), Freeing)
      BY <1>11, <2>4 DEF TurnedDown
    <3>2. log'[p] = log[p] \o <<Refused(r)>> \o <<Freeing>>
      <4>1. log[p] \o <<Refused(r)>> = Append(log[p], Refused(r))
        BY <1>1, <2>2, AppendIsConcat
      <4>2. Append(log[p], Refused(r)) \in Seq(Events)
        BY <1>1, <2>2, AppendType
      <4>3. QED
        BY <1>4, <3>1, <4>1, <4>2, AppendIsConcat
    <3>3. Contract!LosesHeld(p, <<Refused(r)>>)
      BY <1>2, <1>4, <1>5, <2>1, <2>4, <3>1, <3>2 DEF Contract!LosesHeld, calls
    <3>4. QED
      BY <3>3 DEF Allowed
  <2>5. QED
    BY <2>3, <2>4
<1>12. ASSUME NEW r \in Requests, Answers(r, p), Granted(r, p) PROVE Allowed(p)
  <2> DEFINE a == req'[r].action
             e == req'[r].edit
  <2>1. a \in Actions /\ e \in BOOLEAN
    <3>1. IndParts'
      BY IndInvStep, IndInvParts
    <3>2. QED
      BY <3>1 DEF IndParts, ReqsType, Reqs
  <2>2. gate'[p] = Released(a, e) /\ log'[p] = Append(log[p], Resumed(a, r, e))
    BY <1>12 DEF Granted
  <2> HIDE DEF a, e
  <2>3. Call(gate'[p]) = Contract!Released(a, e) /\ Contract!Resumed(a, r, e) = Resumed(a, r, e)
    BY <2>1, <2>2, CallFacts, EventFacts
  <2>4. link = "attached" /\ calls[p] = Contract!Held
    BY <1>1, <1>2, <1>12, CallFacts DEF Answers
  <2>5. Contract!Releases(p, a, r, e)
    BY <1>2, <1>3, <2>2, <2>3, <2>4 DEF Contract!Releases, calls
  <2>6. QED
    BY <2>1, <2>5 DEF Allowed
<1>13. QED
  BY <1>6, <1>7, <1>8, <1>9, <1>10, <1>11, <1>12 DEF StepOf

\* Whatever the engine, the validators and the transport do, session.gate()
\* keeps its contract: one decision per call, the record tells the same story,
\* an edit comes from an attached debugger, and losing it lets the call go.
\* (That no call is kept for ever is the part of KeepsContract left to TLC.)
THEOREM KeepsContractSafely == Spec => Contract!Safely
<1>1. Init => Contract!Init
  <2> SUFFICES ASSUME Init PROVE Contract!Init
    OBVIOUS
  <2>1. \A p \in Pauses : Call(gate[p]) = Contract!Idle
    BY NoGateType, CallFacts DEF Init
  <2>2. QED
    BY <2>1 DEF Init, Contract!Init
<1>2. EchoInv /\ [Next]_vars => [Contract!Next]_(Contract!vars)
  <2> SUFFICES ASSUME IndParts, RunningEdits, [Next]_vars PROVE Contract!Next
    BY IndInvParts DEF EchoInv
  <2>1. \A p \in Pauses : Allowed(p)
    BY AllowedStep
  <2>2. \A r \in Requests : Contract!Refused(r) = Refused(r)
    BY EventFacts
  <2>3. QED
    BY <2>1, <2>2 DEF Allowed, Contract!Next
<1>3. QED
  BY <1>1, <1>2, EchoInvHolds, PTL DEF Spec, Contract!Safely


-----------------------------------------------------------------------------
(* The loop guard of the session (LoopGuard), which may hold a call of its *)
(* own: the streak it keeps by counting is the run of identical calls at   *)
(* the end of everything that ever started, and what it detects in its     *)
(* ring of calls is what the whole history has.                            *)

Start == [node : Nodes \cup {Undefined}, inst : Instances \cup {Undefined},
          in : Inputs \cup {Undefined}, seen : Nat]
Ended == [node : Nodes \cup {Undefined}, in : Inputs \cup {Undefined}, outcome : {"ok", "fail", Undefined},
          out : Digests \cup {Undefined}, seq : Nat]
Streak == [node : Nodes \cup {Undefined}, in : Inputs \cup {Undefined},
           repeats : Nat, first : Nat, last : Nat, tripped : BOOLEAN]

TypeInv ==
    /\ starts \in Seq(Start) /\ ends \in Seq(Ended)
    /\ streak \in Streak

\* The m latest of the first j calls of s are the same call, and the one before
\* them, if any, is another.
SameCall(s, i, j) == s[i].node = s[j].node /\ s[i].in = s[j].in
Ending(s, j, m) ==
    /\ m \in 1..j
    /\ \A i \in (j - m + 1)..j : SameCall(s, i, j)
    /\ m < j => ~SameCall(s, j - m, j)

StreakInv ==
    IF starts = << >> \/ starts[Len(starts)].in = Undefined THEN streak = NoStreak
    ELSE /\ streak.node = starts[Len(starts)].node /\ streak.in = starts[Len(starts)].in
         /\ streak.first = Len(starts) - streak.repeats + 1 /\ streak.last = Len(starts)
         /\ Ending(starts, Len(starts), streak.repeats)

LEMMA NoStreakType == NoStreak \in Streak
BY DEF NoStreak, Streak

\* The number that Ending gives is the one InARow chooses.
LEMMA EndingIsInARow ==
    ASSUME NEW j \in Nat \ {0}, NEW m, starts[j].in # Undefined, Ending(starts, j, m)
    PROVE  InARow(j) = m
<1> DEFINE S == {l \in 1..j : Identical(j, l)}
<1>1. m \in S
  BY DEF Ending, Identical, SameCall
<1>2. ASSUME NEW l \in S PROVE l <= m
  <2>1. CASE m < j /\ m < l
    <3>1. j - m \in (j - l + 1)..j
      BY <2>1, <1>1
    <3>2. SameCall(starts, j - m, j)
      BY <3>1 DEF Identical, SameCall
    <3>3. QED
      BY <3>2, <2>1 DEF Ending
  <2>2. CASE ~(m < j /\ m < l)
    BY <2>2, <1>1
  <2>3. QED
    BY <2>1, <2>2
<1>3. ASSUME NEW k \in S, \A l \in S : l <= k PROVE k = m
  BY <1>1, <1>2, <1>3
<1>4. Greatest(S) = m
  BY <1>1, <1>2, <1>3 DEF Greatest
<1>5. QED
  BY <1>4 DEF InARow

\* One more of the same is one more in a row; another call begins anew.
LEMMA EndingGrows ==
    ASSUME NEW s, NEW t, NEW j \in Nat, NEW m, j >= 1, Ending(s, j, m),
           \A l \in 1..j : t[l] = s[l], SameCall(t, j, j + 1)
    PROVE  Ending(t, j + 1, m + 1)
<1>1. m \in 1..j /\ j \in 1..j
  BY DEF Ending
<1>2. \A l \in (j - m + 1)..(j + 1) : SameCall(t, l, j + 1)
  <2>1. ASSUME NEW l \in (j - m + 1)..j PROVE SameCall(t, l, j + 1)
    <3>1. l \in 1..j /\ SameCall(s, l, j)
      BY <1>1, <2>1 DEF Ending
    <3>2. QED
      BY <1>1, <3>1 DEF SameCall
  <2>2. QED
    BY <1>1, <2>1 DEF SameCall
<1>3. ASSUME m < j PROVE ~SameCall(t, j - m, j + 1)
  <2>1. j - m \in 1..j /\ ~SameCall(s, j - m, j)
    BY <1>1, <1>3 DEF Ending
  <2>2. QED
    BY <1>1, <2>1 DEF SameCall
<1>4. j + 1 - (m + 1) + 1 = j - m + 1 /\ j + 1 - (m + 1) = j - m /\ m + 1 \in 1..(j + 1)
  BY <1>1
<1>5. QED
  BY <1>1, <1>2, <1>3, <1>4 DEF Ending

LEMMA EndingBegins ==
    ASSUME NEW t, NEW j \in Nat, j >= 1 => ~SameCall(t, j, j + 1)
    PROVE  Ending(t, j + 1, 1)
<1>1. /\ j + 1 - 1 + 1 = j + 1 /\ j + 1 - 1 = j /\ (j + 1)..(j + 1) = {j + 1}
      /\ 1 \in 1..(j + 1)
  OBVIOUS
<1>2. SameCall(t, j + 1, j + 1)
  BY DEF SameCall
<1>3. QED
  BY <1>1, <1>2 DEF Ending

-----------------------------------------------------------------------------

LEMMA StreakStarts == GuardInit => TypeInv /\ StreakInv
BY NoStreakType DEF GuardInit, TypeInv, StreakInv

\* A start, whatever it is, appends one call.
LEMMA StartTyped ==
    ASSUME TypeInv, NEW n \in Nodes \cup {Undefined}, NEW i \in Instances \cup {Undefined},
           NEW x \in Inputs \cup {Undefined}, Starting(n, i, x)
    PROVE  /\ starts' \in Seq(Start) /\ Len(starts') = Len(starts) + 1
           /\ starts'[Len(starts) + 1].node = n /\ starts'[Len(starts) + 1].in = x
           /\ \A j \in 1..Len(starts) : starts'[j] = starts[j]
<1> DEFINE call == [node |-> n, inst |-> i, in |-> x, seen |-> Len(ends)]
<1>1. call \in Start /\ call.node = n /\ call.in = x
  BY DEF TypeInv, Start
<1>2. starts' = Append(starts, call) /\ starts \in Seq(Start)
  BY DEF Starting, TypeInv
<1> HIDE DEF call
<1>3. QED
  BY <1>1, <1>2

LEMMA UnreadKeeps ==
    ASSUME TypeInv, ends' \in Seq(Ended), NEW n \in Nodes \cup {Undefined}, NEW i \in Instances \cup {Undefined},
           Starting(n, i, Undefined), streak' = Cleared
    PROVE  TypeInv' /\ StreakInv'
<1>1. /\ starts' \in Seq(Start) /\ Len(starts') = Len(starts) + 1
      /\ starts'[Len(starts) + 1].in = Undefined
  BY StartTyped
<1>2. starts'[Len(starts')].in = Undefined
  BY <1>1
<1>3. QED
  BY <1>1, <1>2, NoStreakType DEF TypeInv, StreakInv, Cleared

LEMMA StartKeeps ==
    ASSUME TypeInv, StreakInv, NEW n \in Nodes, NEW i \in Instances, NEW x \in Inputs, Starts(n, i, x)
    PROVE  TypeInv' /\ StreakInv'
<1>1. PICK j \in Nat : j = Len(starts)
  BY DEF TypeInv
<1>2. PICK k \in Nat : k = streak.repeats
  BY DEF TypeInv, Streak
<1>3. /\ starts' \in Seq(Start) /\ Len(starts') = j + 1
      /\ starts'[j + 1].node = n /\ starts'[j + 1].in = x
      /\ \A l \in 1..j : starts'[l] = starts[l]
  BY <1>1, StartTyped DEF Starts
<1>4. starts \in Seq(Start) /\ streak \in Streak /\ n # Undefined /\ x # Undefined
  BY LoopAssumption DEF TypeInv
<1>5. streak' = Extended(n, x, j + 1) /\ ends' = ends
  BY <1>1 DEF Starts
<1>6. CASE streak.node = n /\ streak.in = x
  <2>1. streak # NoStreak
    BY <1>4, <1>6 DEF NoStreak
  <2>2. /\ j >= 1
        /\ starts[j].node = n /\ starts[j].in = x
        /\ streak.first = j - k + 1
        /\ Ending(starts, j, k)
    BY <1>1, <1>2, <1>4, <1>6, <2>1 DEF StreakInv
  <2>3. streak' = [streak EXCEPT !.repeats = k + 1, !.last = j + 1, !.tripped = FALSE]
    BY <1>2, <1>5, <1>6 DEF Extended
  <2>4. /\ streak' \in Streak
        /\ streak'.node = n /\ streak'.in = x
        /\ streak'.repeats = k + 1
        /\ streak'.first = j - k + 1 /\ streak'.last = j + 1
    <3>1. streak = [node |-> streak.node, in |-> streak.in, repeats |-> streak.repeats,
                    first |-> streak.first, last |-> streak.last, tripped |-> streak.tripped]
      BY <1>4 DEF Streak
    <3>2. streak' = [node |-> n, in |-> x, repeats |-> k + 1, first |-> streak.first,
                     last |-> j + 1, tripped |-> FALSE]
      BY <1>6, <2>3, <3>1
    <3>3. streak' \in Streak
      BY <1>4, <3>2 DEF Streak
    <3>4. QED
      BY <2>2, <3>2, <3>3
  <2>5. SameCall(starts', j, j + 1)
    BY <1>3, <2>2 DEF SameCall
  <2>6. Ending(starts', j + 1, k + 1)
    BY <1>3, <2>2, <2>5, EndingGrows
  <2>7. j - k + 1 = (j + 1) - (k + 1) + 1
    OBVIOUS
  <2>8. QED
    BY <1>3, <1>4, <1>5, <2>4, <2>6, <2>7 DEF TypeInv, StreakInv
<1>7. CASE ~(streak.node = n /\ streak.in = x)
  <2>1. streak' = [node |-> n, in |-> x, repeats |-> 1, first |-> j + 1, last |-> j + 1, tripped |-> FALSE]
    BY <1>5, <1>7 DEF Extended
  <2>2. /\ streak' \in Streak
        /\ streak'.node = n /\ streak'.in = x
        /\ streak'.repeats = 1 /\ streak'.first = j + 1 /\ streak'.last = j + 1
    BY <2>1 DEF Streak
  <2>3. ASSUME j >= 1, SameCall(starts', j, j + 1) PROVE FALSE
    <3>1. starts[j].node = n /\ starts[j].in = x /\ starts # << >>
      BY <1>1, <1>3, <1>4, <2>3 DEF SameCall
    <3>2. QED
      BY <1>1, <1>4, <1>7, <3>1 DEF StreakInv
  <2>4. Ending(starts', j + 1, 1)
    BY <2>3, EndingBegins
  <2>5. j + 1 = (j + 1) - 1 + 1
    OBVIOUS
  <2>6. QED
    BY <1>3, <1>4, <1>5, <2>2, <2>4, <2>5 DEF TypeInv, StreakInv
<1>8. QED
  BY <1>6, <1>7

\* What is not a start leaves the streak's call and counts alone.
LEMMA OtherKeeps ==
    ASSUME TypeInv, StreakInv, starts' = starts, ends' \in Seq(Ended),
           streak' = streak \/ (streak.node \in Nodes /\ streak' = [streak EXCEPT !.tripped = TRUE])
    PROVE  TypeInv' /\ StreakInv'
<1>1. CASE streak' = streak
  BY <1>1 DEF TypeInv, StreakInv
<1>2. CASE streak.node \in Nodes /\ streak' = [streak EXCEPT !.tripped = TRUE]
  <2>1. /\ streak' \in Streak
        /\ streak'.node = streak.node /\ streak'.in = streak.in /\ streak'.repeats = streak.repeats
        /\ streak'.first = streak.first /\ streak'.last = streak.last
    BY <1>2 DEF TypeInv, Streak
  <2>2. streak # NoStreak
    BY <1>2, LoopAssumption DEF NoStreak
  <2>3. QED
    BY <2>1, <2>2 DEF TypeInv, StreakInv
<1>3. QED
  BY <1>1, <1>2

LEMMA FinishTyped ==
    ASSUME TypeInv, NEW n \in Nodes, NEW i \in Instances,
           NEW outcome \in {"ok", "fail", Undefined}, NEW out \in Digests \cup {Undefined},
           Finishes(n, i, outcome, out)
    PROVE  ends' \in Seq(Ended)
<1>1. PICK j \in DOMAIN starts : ends' = Append(ends, EntryOf(n, starts[j].in, outcome, out, j))
  BY DEF Finishes
<1>2. starts[j].in \in Inputs \cup {Undefined} /\ j \in Nat
  <2>1. starts \in Seq(Start)
    BY DEF TypeInv
  <2>2. starts[j] \in Start /\ j \in Nat
    BY <1>1, <2>1
  <2>3. QED
    BY <2>2 DEF Start
<1>3. EntryOf(n, starts[j].in, outcome, out, j) \in Ended
  <2>1. Unknown(n, j) \in Ended /\ Entry(n, starts[j].in, outcome, out, j) \in Ended
    BY <1>2 DEF Unknown, Entry, Ended
  <2>2. QED
    BY <2>1 DEF EntryOf
<1>4. QED
  BY <1>1, <1>3 DEF TypeInv

LEMMA StreakStep == TypeInv /\ StreakInv /\ [GuardNext]_guardVars => TypeInv' /\ StreakInv'
<1> SUFFICES ASSUME TypeInv, StreakInv, [GuardNext]_guardVars PROVE TypeInv' /\ StreakInv'
  OBVIOUS
<1>1. ASSUME NEW n \in Nodes, NEW i \in Instances, NEW x \in Inputs, Starts(n, i, x)
      PROVE  TypeInv' /\ StreakInv'
  BY <1>1, StartKeeps
<1>2. ASSUME NEW n \in Nodes, NEW i \in Instances, StartsUnread(n, i)
      PROVE  TypeInv' /\ StreakInv'
  <2>1. Starting(n, i, Undefined) /\ streak' = Cleared /\ ends' \in Seq(Ended)
    BY <1>2 DEF StartsUnread, TypeInv
  <2>2. QED
    BY <2>1, UnreadKeeps
<1>3. CASE StartsUnnamed
  <2>1. Unknown(Undefined, Len(starts) + 1) \in Ended
    BY DEF Unknown, Entry, Ended, TypeInv
  <2>2. Starting(Undefined, Undefined, Undefined) /\ streak' = Cleared /\ ends' \in Seq(Ended)
    BY <1>3, <2>1 DEF StartsUnnamed, TypeInv
  <2>3. QED
    BY <2>2, UnreadKeeps
<1>4. ASSUME NEW n \in Nodes, NEW i \in Instances,
             NEW outcome \in {"ok", "fail", Undefined}, NEW out \in Digests \cup {Undefined},
             Finishes(n, i, outcome, out)
      PROVE  TypeInv' /\ StreakInv'
  <2>1. starts' = starts /\ streak' = streak
    BY <1>4 DEF Finishes
  <2>2. QED
    BY <1>4, <2>1, FinishTyped, OtherKeeps
<1>5. ASSUME NEW n \in Nodes, Gate(n) PROVE TypeInv' /\ StreakInv'
  <2>1. /\ starts' = starts /\ ends' \in Seq(Ended)
        /\ streak' = streak \/ (streak.node \in Nodes /\ streak' = [streak EXCEPT !.tripped = TRUE])
    BY <1>5 DEF Gate, Repeats, TypeInv
  <2>2. QED
    BY <2>1, OtherKeeps
<1>6. CASE UNCHANGED guardVars
  BY <1>6 DEF guardVars, guard, TypeInv, StreakInv
<1>7. QED
  BY <1>1, <1>2, <1>3, <1>4, <1>5, <1>6 DEF GuardNext

-----------------------------------------------------------------------------
(* Theorem about the streak.                                               *)

\* The streak is the identical calls back-to-back at the end of all that ever
\* started, with their first and last seq: for any number of calls, nodes and
\* instances, whatever else the guard does between them.
THEOREM StreakIsTrue == GuardSpec => []StreakIsBackToBack
<1>1. TypeInv /\ StreakInv => StreakIsBackToBack
  <2> SUFFICES ASSUME TypeInv, StreakInv PROVE StreakIsBackToBack
    OBVIOUS
  <2>1. PICK j \in Nat : j = Len(starts)
    BY DEF TypeInv
  <2>2. CASE starts = << >> \/ starts[j].in = Undefined
    <3>1. j = 0 \/ InARow(j) = 0
      BY <2>1, <2>2 DEF InARow
    <3>2. QED
      BY <2>1, <2>2, <3>1 DEF StreakIsBackToBack, StreakInv
  <2>3. CASE ~(starts = << >> \/ starts[j].in = Undefined)
    <3>1. /\ j # 0 /\ starts[j].in # Undefined
          /\ streak.node = starts[j].node /\ streak.in = starts[j].in
          /\ streak.first = j - streak.repeats + 1 /\ streak.last = j
          /\ Ending(starts, j, streak.repeats)
      BY <2>1, <2>3 DEF StreakInv, TypeInv
    <3>2. InARow(j) = streak.repeats /\ streak.repeats # 0
      BY <3>1, EndingIsInARow DEF Ending
    <3>3. QED
      BY <2>1, <3>1, <3>2 DEF StreakIsBackToBack
  <2>4. QED
    BY <2>2, <2>3
<1>2. QED
  BY <1>1, StreakStarts, StreakStep, PTL DEF GuardSpec

\* Induction, for the numbers of a set.
LEMMA Least == ASSUME NEW T \in SUBSET Nat, T # {} PROVE \E x \in T : \A y \in T : x <= y
<1>1. PICK x \in T : \A y \in T : <<y, x>> \notin OpToRel(<, Nat)
  BY NatLessThanWellFounded, WFMin
<1>2. \A y \in T : <<y, x>> \in OpToRel(<, Nat) <=> y < x
  BY Zenon DEF OpToRel
<1>3. \A y \in T : ~(y < x)
  BY <1>1, <1>2, Zenon
<1>4. QED
  BY <1>3

LEMMA Climb ==
    ASSUME NEW N \in Nat, NEW T, 0 \in T, \A n \in 0..(N - 1) : n \in T => n + 1 \in T
    PROVE  \A n \in 0..N : n \in T
<1> SUFFICES ASSUME {n \in 0..N : n \notin T} # {} PROVE FALSE
  OBVIOUS
<1>1. PICK x \in {n \in 0..N : n \notin T} : \A y \in {n \in 0..N : n \notin T} : x <= y
  <2>1. {n \in 0..N : n \notin T} \in SUBSET Nat
    OBVIOUS
  <2>2. QED
    BY <2>1, Least
<1>2. x # 0 /\ x - 1 \in 0..(N - 1) /\ x - 1 \in T
  BY <1>1
<1>3. QED
  BY <1>1, <1>2

\* A bounded set of numbers that has any has a greatest one.
LEMMA GreatestIs ==
    ASSUME NEW n \in Nat, NEW K, K \subseteq 0..n, K # {}
    PROVE  Greatest(K) \in K /\ \A x \in K : x <= Greatest(K)
<1>1. {n - x : x \in K} \in SUBSET Nat /\ {n - x : x \in K} # {}
  <2>1. \A x \in K : n - x \in Nat
    OBVIOUS
  <2>2. QED
    BY <2>1
<1>2. PICK d \in {n - x : x \in K} : \A y \in {n - x : x \in K} : d <= y
  BY <1>1, Least
<1>3. PICK m \in K : d = n - m
  BY <1>2
<1>4. \A x \in K : x <= m
  BY <1>2, <1>3
<1>5. QED
  BY <1>4 DEF Greatest

LEMMA SmallestIs ==
    ASSUME NEW K, K \subseteq Nat, K # {}
    PROVE  Smallest(K) \in K /\ \A x \in K : Smallest(K) <= x
<1>1. PICK m \in K : \A x \in K : m <= x
  BY Least
<1>2. QED
  BY <1>1 DEF Smallest

-----------------------------------------------------------------------------
(* The ring is the newest of what ended.                                   *)

LEMMA NewestIs ==
    ASSUME NEW S, NEW s \in Seq(S), NEW n \in Nat \ {0}
    PROVE  /\ Newest(s, n) \in Seq(S)
           /\ Len(Newest(s, n)) = IF Len(s) <= n THEN Len(s) ELSE n
           /\ \A i \in 1..Len(Newest(s, n)) : Newest(s, n)[i] = s[Len(s) - Len(Newest(s, n)) + i]
<1>1. Len(s) \in Nat
  OBVIOUS
<1>2. CASE Len(s) <= n
  BY <1>1, <1>2 DEF Newest
<1>3. CASE ~(Len(s) <= n)
  <2>1. Newest(s, n) = SubSeq(s, Len(s) - n + 1, Len(s))
    BY <1>3 DEF Newest
  <2>2. Len(s) - n + 1 \in 1..Len(s) /\ Len(s) - (Len(s) - n + 1) + 1 = n
    BY <1>1, <1>3
  <2> DEFINE a == Len(s) - n + 1
  <2> HIDE DEF a
  <2>3. SubSeq(s, a, Len(s)) \in Seq(S) /\ Len(SubSeq(s, a, Len(s))) = n
        /\ \A i \in 1..n : SubSeq(s, a, Len(s))[i] = s[a + i - 1]
    BY <1>1, <2>2 DEF a
  <2>4. \A i \in 1..n : a + i - 1 = Len(s) - n + i
    BY <1>1 DEF a
  <2>5. QED
    BY <1>3, <2>1, <2>3, <2>4 DEF a
<1>4. QED
  BY <1>2, <1>3

LEMMA AppendIs ==
    ASSUME NEW S, NEW s \in Seq(S), NEW e \in S
    PROVE  /\ Append(s, e) \in Seq(S) /\ Len(s) \in Nat /\ Len(Append(s, e)) = Len(s) + 1
           /\ Append(s, e)[Len(s) + 1] = e /\ \A i \in 1..Len(s) : Append(s, e)[i] = s[i]
OBVIOUS

LEMMA PushIsNewest ==
    ASSUME NEW S, NEW s \in Seq(S), NEW e \in S
    PROVE  Push(Newest(s, HistorySize), e) = Newest(Append(s, e), HistorySize)
<1> DEFINE n == HistorySize
           r == Newest(s, n)
           t == Append(s, e)
           u == Append(r, e)
           a == Newest(u, n)
           b == Newest(t, n)
<1>1. n \in Nat \ {0} /\ Len(s) \in Nat
  BY LoopAssumption
<1> HIDE DEF n
<1>2. /\ r \in Seq(S) /\ Len(r) = IF Len(s) <= n THEN Len(s) ELSE n
      /\ \A i \in 1..Len(r) : r[i] = s[Len(s) - Len(r) + i]
  BY <1>1, NewestIs
<1> HIDE DEF r
<1>3. t \in Seq(S) /\ Len(t) = Len(s) + 1 /\ t[Len(s) + 1] = e /\ \A i \in 1..Len(s) : t[i] = s[i]
  BY AppendIs
<1>4. u \in Seq(S) /\ Len(u) = Len(r) + 1 /\ u[Len(r) + 1] = e /\ \A i \in 1..Len(r) : u[i] = r[i]
  BY <1>2, AppendIs
<1> HIDE DEF t, u
<1>5. /\ a \in Seq(S) /\ Len(a) = IF Len(u) <= n THEN Len(u) ELSE n
      /\ \A i \in 1..Len(a) : a[i] = u[Len(u) - Len(a) + i]
  <2>1. u \in Seq(S)
    BY <1>4
  <2>2. QED
    BY <1>1, <2>1, NewestIs
<1>6. /\ b \in Seq(S) /\ Len(b) = IF Len(t) <= n THEN Len(t) ELSE n
      /\ \A i \in 1..Len(b) : b[i] = t[Len(t) - Len(b) + i]
  <2>1. t \in Seq(S)
    BY <1>3
  <2>2. QED
    BY <1>1, <2>1, NewestIs
<1> HIDE DEF a, b
<1>7. /\ Len(r) \in Nat /\ Len(u) \in Nat /\ Len(t) \in Nat /\ Len(a) \in Nat /\ Len(b) = Len(a)
      /\ Len(a) # 0 /\ Len(t) - Len(a) = Len(s) - Len(r) + (Len(u) - Len(a))
      /\ Len(u) - Len(a) \in Nat /\ Len(t) - Len(a) \in Nat
  <2>1. Len(r) = IF Len(s) <= n THEN Len(s) ELSE n
    BY <1>2
  <2>2. Len(t) = Len(s) + 1 /\ Len(u) = Len(r) + 1
    BY <1>3, <1>4
  <2>3. Len(a) = (IF Len(u) <= n THEN Len(u) ELSE n) /\ Len(b) = (IF Len(t) <= n THEN Len(t) ELSE n)
    BY <1>5, <1>6
  <2>4. CASE Len(s) < n
    <3>1. Len(r) = Len(s) /\ Len(u) = Len(s) + 1 /\ Len(a) = Len(s) + 1 /\ Len(b) = Len(s) + 1
      BY <1>1, <2>1, <2>2, <2>3, <2>4
    <3>2. QED
      BY <1>1, <2>2, <3>1
  <2>5. CASE ~(Len(s) < n)
    <3>1. Len(r) = n /\ Len(u) = n + 1 /\ Len(a) = n /\ Len(b) = n
      BY <1>1, <2>1, <2>2, <2>3, <2>5
    <3>2. QED
      BY <1>1, <2>2, <2>5, <3>1
  <2>6. QED
    BY <2>4, <2>5
<1>8. ASSUME NEW i \in 1..Len(a) PROVE a[i] = b[i]
  <2>1. a[i] = u[Len(u) - Len(a) + i] /\ b[i] = t[Len(t) - Len(a) + i]
    BY <1>5, <1>6, <1>7
  <2>2. CASE i = Len(a)
    <3>1. Len(u) - Len(a) + i = Len(r) + 1 /\ Len(t) - Len(a) + i = Len(s) + 1
      BY <1>1, <1>3, <1>4, <1>7, <2>2
    <3>2. QED
      BY <1>3, <1>4, <2>1, <3>1
  <2>3. CASE i # Len(a)
    <3>1. Len(u) - Len(a) + i \in 1..Len(r) /\ Len(t) - Len(a) + i \in 1..Len(s)
          /\ Len(s) - Len(r) + (Len(u) - Len(a) + i) = Len(t) - Len(a) + i
      BY <1>1, <1>3, <1>4, <1>7, <2>3
    <3>2. u[Len(u) - Len(a) + i] = r[Len(u) - Len(a) + i] /\ t[Len(t) - Len(a) + i] = s[Len(t) - Len(a) + i]
      BY <1>3, <1>4, <3>1
    <3>3. QED
      BY <1>2, <2>1, <3>1, <3>2
  <2>4. QED
    BY <2>2, <2>3
<1>9. a = b
  BY <1>5, <1>6, <1>7, <1>8, SeqEqual
<1>10. QED
  BY <1>9 DEF Push, a, b, u, r, t, n

-----------------------------------------------------------------------------
(* Cycles: the laps a start counts in its ring are those of the history.   *)

LEMMA Multiples ==
    ASSUME NEW k \in Nat \ {0}, NEW m \in Nat
    PROVE  /\ m * k \in Nat /\ (m + 1) * k = m * k + k /\ m <= m * k /\ 0 * k = 0 /\ 1 * k = k /\ 2 * k = k + k
           /\ m # 0 => (m - 1) * k = m * k - k /\ k <= m * k
           /\ m >= 2 => k + k <= m * k
OBVIOUS

LEMMA MultiplesGrow ==
    ASSUME NEW k \in Nat \ {0}, NEW m \in Nat, NEW l \in Nat, l <= m
    PROVE  l * k <= m * k /\ (m - l) * k = m * k - l * k
OBVIOUS

LEMMA SameIs ==
    ASSUME NEW d \in Ended, NEW e \in Ended
    PROVE  Same(d, e) <=> /\ Comparable(d) /\ Comparable(e)
                          /\ d.node = e.node /\ d.in = e.in /\ d.outcome = e.outcome /\ d.out = e.out
<1> DEFINE f == [d EXCEPT !.seq = e.seq]
<1>1. f \in Ended /\ f.node = d.node /\ f.in = d.in /\ f.outcome = d.outcome /\ f.out = d.out /\ f.seq = e.seq
  BY DEF Ended
<1> HIDE DEF f
<1>2. f = e <=> d.node = e.node /\ d.in = e.in /\ d.outcome = e.outcome /\ d.out = e.out
  BY <1>1 DEF Ended
<1>3. QED
  BY <1>2 DEF Same, f

LEMMA SameTurns ==
    ASSUME NEW a \in Ended, NEW b \in Ended, NEW c \in Ended, Same(a, b)
    PROVE  /\ Same(b, a) /\ Same(a, a) /\ Same(b, b)
           /\ Same(b, c) => Same(a, c)
           /\ a.node = b.node /\ a.in = b.in
BY SameIs

\* The l-th lap of k calls from the end of h is the last one over again.
Lap(h, k, l) ==
    /\ l * k <= Len(h)
    /\ \A r \in 0..(k - 1) : Same(h[Len(h) - l * k + 1 + r], h[Len(h) - k + 1 + r])

LEMMA InLap ==
    ASSUME NEW h \in Seq(Ended), NEW k \in Nat \ {0}, NEW l \in Nat \ {0}, l * k <= Len(h), NEW r \in 0..(k - 1)
    PROVE  /\ Len(h) - l * k + 1 + r \in 1..Len(h) /\ Len(h) - k + 1 + r \in 1..Len(h)
           /\ h[Len(h) - l * k + 1 + r] \in Ended /\ h[Len(h) - k + 1 + r] \in Ended
<1>1. Len(h) \in Nat /\ l * k \in Nat /\ k <= l * k
  BY Multiples
<1>2. Len(h) - l * k + 1 + r \in 1..Len(h) /\ Len(h) - k + 1 + r \in 1..Len(h)
  BY <1>1
<1>3. \A i \in 1..Len(h) : h[i] \in Ended
  OBVIOUS
<1>4. QED
  BY <1>2, <1>3

LEMMA PeriodicFewer ==
    ASSUME NEW h \in Seq(Ended), NEW k \in Nat \ {0}, NEW m \in Nat, NEW l \in Nat, l <= m, Periodic(h, k, m)
    PROVE  Periodic(h, k, l)
<1>1. Len(h) \in Nat /\ l * k \in Nat /\ m * k \in Nat /\ l * k <= m * k
  BY Multiples, MultiplesGrow
<1>2. m * k <= Len(h) /\ \A i \in (Len(h) - m * k + 1)..(Len(h) - k) : Same(h[i], h[i + k])
  BY DEF Periodic
<1> DEFINE p == l * k
           q == m * k
<1> HIDE DEF p, q
<1>3. Len(h) \in Nat /\ p \in Nat /\ q \in Nat /\ p <= q /\ q <= Len(h)
  BY <1>1, <1>2 DEF p, q
<1>4. p <= Len(h) /\ \A i \in (Len(h) - p + 1)..(Len(h) - k) : i \in (Len(h) - q + 1)..(Len(h) - k)
  BY <1>3
<1>5. \A i \in (Len(h) - p + 1)..(Len(h) - k) : Same(h[i], h[i + k])
  BY <1>2, <1>4 DEF q
<1>6. QED
  BY <1>4, <1>5 DEF Periodic, p

LEMMA PeriodicGrows ==
    ASSUME NEW h \in Seq(Ended), NEW k \in Nat \ {0}, NEW m \in Nat \ {0},
           Periodic(h, k, m), Lap(h, k, m), Lap(h, k, m + 1)
    PROVE  Periodic(h, k, m + 1)
<1> DEFINE p == m * k
           N == Len(h)
<1>1. N \in Nat /\ p \in Nat /\ (m + 1) * k = p + k /\ p + k <= N
  BY Multiples DEF Lap
<1>2. ASSUME NEW i \in (N - (p + k) + 1)..(N - k) PROVE Same(h[i], h[i + k])
  <2>1. CASE i >= N - p + 1
    BY <1>1, <1>2, <2>1 DEF Periodic
  <2>2. CASE ~(i >= N - p + 1)
    <3> DEFINE r == i - (N - (p + k) + 1)
    <3>1. r \in 0..(k - 1) /\ N - (m + 1) * k + 1 + r = i /\ N - m * k + 1 + r = i + k
      BY <1>1, <1>2, <2>2
    <3> HIDE DEF r
    <3>2. Same(h[i], h[N - k + 1 + r]) /\ Same(h[i + k], h[N - k + 1 + r])
      BY <3>1 DEF Lap
    <3>3. h[i] \in Ended /\ h[i + k] \in Ended /\ h[N - k + 1 + r] \in Ended
      <4>1. i \in 1..N /\ i + k \in 1..N /\ N - k + 1 + r \in 1..N
        BY <1>1, <3>1
      <4>2. QED
        BY <4>1
    <3>4. QED
      BY <3>2, <3>3, SameTurns
  <2>3. QED
    BY <2>1, <2>2
<1>3. QED
  BY <1>1, <1>2 DEF Periodic

LEMMA PeriodicLap ==
    ASSUME NEW h \in Seq(Ended), NEW k \in Nat \ {0}, NEW m \in Nat \ {0},
           Periodic(h, k, m + 1), Lap(h, k, m)
    PROVE  Lap(h, k, m + 1)
<1> DEFINE p == m * k
           N == Len(h)
<1>1. N \in Nat /\ p \in Nat /\ (m + 1) * k = p + k /\ p + k <= N /\ k <= p
  BY Multiples DEF Periodic
<1>2. ASSUME NEW r \in 0..(k - 1) PROVE Same(h[N - (p + k) + 1 + r], h[N - k + 1 + r])
  <2> DEFINE i == N - (p + k) + 1 + r
  <2>1. i \in (N - (p + k) + 1)..(N - k) /\ i + k = N - p + 1 + r /\ i \in 1..N /\ i + k \in 1..N
        /\ N - k + 1 + r \in 1..N
    BY <1>1
  <2> HIDE DEF i
  <2>2. Same(h[i], h[i + k])
    BY <1>1, <2>1 DEF Periodic
  <2>3. Same(h[i + k], h[N - k + 1 + r])
    BY <2>1 DEF Lap
  <2>4. h[i] \in Ended /\ h[i + k] \in Ended /\ h[N - k + 1 + r] \in Ended
    BY <2>1
  <2>5. QED
    BY <2>2, <2>3, <2>4, SameTurns DEF i
<1>3. QED
  BY <1>1, <1>2 DEF Lap

\* So m laps in a row are m times the last one, if that can be compared.
LEMMA PeriodicIsLaps ==
    ASSUME NEW h \in Seq(Ended), NEW k \in Nat \ {0}, NEW M \in Nat, Lap(h, k, 1)
    PROVE  \A m \in 1..M : Periodic(h, k, m) <=> \A l \in 1..m : Lap(h, k, l)
<1> DEFINE T == {m \in Nat : m # 0 => (Periodic(h, k, m) <=> \A l \in 1..m : Lap(h, k, l))}
<1>1. 0 \in T
  OBVIOUS
<1>2. ASSUME NEW m \in 0..(M - 1), m \in T PROVE m + 1 \in T
  <2>1. CASE m = 0
    <3>1. Periodic(h, k, 1)
      <4>1. 1 * k = k /\ k <= Len(h) /\ Len(h) \in Nat
        BY Multiples DEF Lap
      <4>2. (Len(h) - k + 1)..(Len(h) - k) = {}
        BY <4>1
      <4>3. QED
        BY <4>1, <4>2 DEF Periodic
    <3>2. \A l \in 1..1 : Lap(h, k, l)
      OBVIOUS
    <3>3. QED
      BY <2>1, <3>1, <3>2
  <2>2. CASE m # 0
    <3>1. m \in Nat \ {0} /\ m \in 1..m /\ m + 1 \in 1..(m + 1) /\ m + 1 \in Nat /\ m <= m + 1
      BY <2>2
    <3>2. Periodic(h, k, m) <=> \A l \in 1..m : Lap(h, k, l)
      BY <1>2, <2>2
    <3> HIDE DEF T
    <3>3. ASSUME Periodic(h, k, m + 1) PROVE \A l \in 1..(m + 1) : Lap(h, k, l)
      <4>1. Periodic(h, k, m)
        BY <3>1, <3>3, PeriodicFewer
      <4>2. Lap(h, k, m)
        BY <3>1, <3>2, <4>1
      <4>3. Lap(h, k, m + 1)
        BY <3>1, <3>3, <4>2, PeriodicLap
      <4>4. \A l \in 1..(m + 1) : l \in 1..m \/ l = m + 1
        BY <3>1
      <4>5. QED
        BY <3>2, <4>1, <4>3, <4>4
    <3>4. ASSUME \A l \in 1..(m + 1) : Lap(h, k, l) PROVE Periodic(h, k, m + 1)
      <4>1. \A l \in 1..m : l \in 1..(m + 1)
        BY <3>1
      <4>2. Periodic(h, k, m) /\ Lap(h, k, m) /\ Lap(h, k, m + 1)
        BY <3>1, <3>2, <3>4, <4>1
      <4>3. QED
        BY <3>1, <4>2, PeriodicGrows
    <3>5. QED
      BY <3>1, <3>3, <3>4 DEF T
  <2>3. QED
    BY <2>1, <2>2
<1>3. \A m \in 0..M : m \in T
  <2> HIDE DEF T
  <2>1. \A m \in 0..(M - 1) : m \in T => m + 1 \in T
    BY <1>2
  <2>2. QED
    BY <1>1, <2>1, Climb
<1>4. QED
  BY <1>3

LEMMA TwoCalls ==
    ASSUME NEW k \in Nat \ {0}, NEW g
    PROVE  Cardinality({g[i] : i \in 1..k}) >= 2 <=> \E i \in 1..(k - 1) : g[i + 1] # g[1]
<1> DEFINE S == {g[i] : i \in 1..k}
           f == [i \in 1..k |-> g[i]]
<1>1. IsFiniteSet(S)
  <2>1. f \in Surjection(1..k, S)
    BY DEF Surjection
  <2>2. IsFiniteSet(1..k)
    BY FS_Interval
  <2> HIDE DEF f, S
  <2>3. QED
    BY <2>1, <2>2, FS_Surjection
<1>2. ASSUME NEW i \in 1..(k - 1), g[i + 1] # g[1] PROVE Cardinality(S) >= 2
  <2> DEFINE T == {g[1]} \cup {g[i + 1]}
  <2>1. IsFiniteSet({g[1]}) /\ Cardinality({g[1]}) = 1
    BY FS_Singleton
  <2>2. IsFiniteSet(T) /\ Cardinality(T) = 2
    <3>1. g[i + 1] \notin {g[1]}
      BY <1>2
    <3>2. QED
      BY <2>1, <3>1, FS_AddElement
  <2>3. T \in SUBSET S
    <3>1. 1 \in 1..k /\ i + 1 \in 1..k
      OBVIOUS
    <3>2. QED
      BY <3>1
  <2>4. Cardinality(T) <= Cardinality(S) /\ Cardinality(S) \in Nat
    <3> HIDE DEF T, S
    <3>1. QED
      BY <1>1, <2>3, FS_Subset, FS_CardinalityType
  <2>5. QED
    BY <2>2, <2>4
<1>3. ASSUME \A i \in 1..(k - 1) : g[i + 1] = g[1] PROVE ~(Cardinality(S) >= 2)
  <2>1. S = {g[1]}
    <3>1. ASSUME NEW i \in 1..k PROVE g[i] = g[1]
      <4>1. CASE i = 1
        BY <4>1
      <4>2. CASE i # 1
        <5>1. i - 1 \in 1..(k - 1) /\ (i - 1) + 1 = i
          BY <4>2
        <5>2. QED
          BY <1>3, <5>1
      <4>3. QED
        BY <4>1, <4>2
    <3>2. 1 \in 1..k
      OBVIOUS
    <3>3. QED
      BY <3>1, <3>2
  <2>2. Cardinality(S) = 1
    BY <2>1, FS_Singleton
  <2>3. QED
    BY <2>2
<1>4. QED
  BY <1>2, <1>3

\* Round, of any history.
RoundOf(h, n, x, k) ==
    LET lap == SubSeq(h, Len(h) - k + 1, Len(h))
        calls == {<<lap[i].node, lap[i].in>> : i \in DOMAIN lap}
    IN  /\ Periodic(h, k, Laps)
        /\ lap[1].node = n /\ lap[1].in = x
        /\ Cardinality(calls) >= 2

\* The k calls from the a-th on begin with this one and have another.
Turns(h, n, x, k, a) ==
    /\ h[a].node = n /\ h[a].in = x
    /\ \E i \in 1..(k - 1) : h[a + i].node # n \/ h[a + i].in # x

LEMMA RoundIs ==
    ASSUME NEW h \in Seq(Ended), NEW k \in Nat \ {0}, NEW n, NEW x, Periodic(h, k, Laps)
    PROVE  RoundOf(h, n, x, k) <=> Turns(h, n, x, k, Len(h) - k + 1)
<1> DEFINE N == Len(h)
           a == N - k + 1
           lap == SubSeq(h, a, N)
           g == [i \in 1..k |-> <<h[N - k + i].node, h[N - k + i].in>>]
<1>1. N \in Nat /\ k <= N
  <2>1. Laps \in Nat \ {0} /\ Laps * k <= N
    BY LoopAssumption DEF Periodic
  <2>2. QED
    BY <2>1, Multiples
<1>2. a \in 1..N /\ N - a + 1 = k
  BY <1>1
<1>3. DOMAIN lap = 1..k /\ \A i \in 1..k : lap[i] = h[N - k + i]
  <2>1. Len(lap) = k /\ \A i \in 1..k : lap[i] = h[a + i - 1]
    <3> HIDE DEF a
    <3>1. QED
      BY <1>1, <1>2
  <2>2. lap \in Seq(Ended)
    <3> HIDE DEF a
    <3>1. QED
      BY <1>1, <1>2
  <2>3. \A i \in 1..k : a + i - 1 = N - k + i
    BY <1>1
  <2> HIDE DEF lap, a
  <2>4. QED
    BY <2>1, <2>2, <2>3
<1> HIDE DEF lap
<1>4. {<<lap[i].node, lap[i].in>> : i \in DOMAIN lap} = {g[i] : i \in 1..k}
  BY <1>3
<1>5. lap[1] = h[a] /\ 1 \in 1..k /\ N - k + 1 = a
  <2>1. 1 \in 1..k
    OBVIOUS
  <2>2. QED
    BY <1>3, <2>1
<1>6. g[1] = <<h[a].node, h[a].in>>
  BY <1>5
<1>7. ASSUME NEW i \in 1..(k - 1) PROVE g[i + 1] = <<h[a + i].node, h[a + i].in>>
  <2>1. i + 1 \in 1..k /\ N - k + (i + 1) = a + i
    BY <1>1
  <2>2. QED
    BY <2>1
<1>8. RoundOf(h, n, x, k) <=>
         h[a].node = n /\ h[a].in = x /\ Cardinality({g[i] : i \in 1..k}) >= 2
  BY <1>4, <1>5 DEF RoundOf, lap
<1> HIDE DEF g, a
<1>9. Cardinality({g[i] : i \in 1..k}) >= 2 <=> \E i \in 1..(k - 1) : g[i + 1] # g[1]
  BY TwoCalls
<1>10. ASSUME h[a].node = n, h[a].in = x, NEW i \in 1..(k - 1)
       PROVE  g[i + 1] # g[1] <=> h[a + i].node # n \/ h[a + i].in # x
  BY <1>6, <1>7, <1>10
<1>11. RoundOf(h, n, x, k) <=>
          h[a].node = n /\ h[a].in = x /\ \E i \in 1..(k - 1) : h[a + i].node # n \/ h[a + i].in # x
  BY <1>8, <1>9, <1>10
<1>12. QED
  BY <1>11 DEF a, Turns

-----------------------------------------------------------------------------

\* The base of a cycle and the start of each lap after it.
LEMMA Places ==
    ASSUME NEW N \in Nat, NEW k \in Nat \ {0}, Laps * k <= N, NEW l \in 1..Laps
    PROVE  /\ N - Laps * k + 1 \in Nat /\ Laps * k \in Nat /\ l * k \in Nat /\ l * k <= N
           /\ (N - Laps * k + 1) + (Laps - l) * k = N - l * k + 1
<1>1. Laps \in Nat /\ l \in Nat /\ l <= Laps /\ Laps - l \in Nat
  BY LoopAssumption
<1>2. l * k <= Laps * k /\ (Laps - l) * k = Laps * k - l * k /\ l * k \in Nat /\ Laps * k \in Nat
  BY <1>1, MultiplesGrow, Multiples
<1>3. QED
  BY <1>2

\* All laps are the first over again when they are the last over again.
LEMMA FirstOrLast ==
    ASSUME ring \in Seq(Ended), NEW k \in Nat \ {0}, Laps * k <= Len(ring)
    PROVE  LET base == Len(ring) - Laps * k + 1 IN
           (\A lap \in 1..(Laps - 1) : LapsEqual(base, base + lap * k, k)) <=> \A l \in 1..Laps : Lap(ring, k, l)
<1> DEFINE N == Len(ring)
           base == N - Laps * k + 1
           S(l, r) == ring[N - l * k + 1 + r]
<1>1. Laps \in Nat /\ Laps >= 2 /\ N \in Nat /\ Laps \in 1..Laps /\ 1 \in 1..Laps /\ 1 * k = k
  BY LoopAssumption, Multiples
<1>2. ASSUME NEW l \in 1..Laps, NEW r \in 0..(k - 1) PROVE S(l, r) \in Ended
  <2>1. l \in Nat \ {0} /\ l * k <= N
    BY <1>1, Places
  <2>2. QED
    BY <2>1, InLap
<1>3. ASSUME NEW l \in 1..Laps
      PROVE  Lap(ring, k, l) <=> \A r \in 0..(k - 1) : Same(S(l, r), S(1, r))
  <2>1. l * k <= N
    BY <1>1, Places
  <2>2. QED
    BY <1>1, <2>1 DEF Lap
<1>4. (\A lap \in 1..(Laps - 1) : LapsEqual(base, base + lap * k, k))
        <=> \A l \in 1..(Laps - 1), r \in 0..(k - 1) : Same(S(Laps, r), S(l, r))
  <2>1. ASSUME NEW l \in 1..(Laps - 1)
        PROVE  LapsEqual(base, base + (Laps - l) * k, k) <=> \A r \in 0..(k - 1) : Same(S(Laps, r), S(l, r))
    <3>1. base + (Laps - l) * k = N - l * k + 1
      BY <1>1, Places
    <3>2. QED
      BY <3>1 DEF LapsEqual
  <2> DEFINE P(lap) == LapsEqual(base, base + lap * k, k)
             Q(l) == \A r \in 0..(k - 1) : Same(S(Laps, r), S(l, r))
  <2>2. \A l \in 1..(Laps - 1) : P(Laps - l) <=> Q(l)
    BY <2>1
  <2>3. \A l \in 1..(Laps - 1) : Laps - l \in 1..(Laps - 1) /\ Laps - (Laps - l) = l
    BY <1>1
  <2> HIDE DEF P, Q
  <2>4. (\A lap \in 1..(Laps - 1) : P(lap)) <=> \A l \in 1..(Laps - 1) : Q(l)
    BY <2>2, <2>3
  <2>5. QED
    BY <2>4 DEF P, Q
<1> HIDE DEF S
<1>5. ASSUME \A l \in 1..(Laps - 1), r \in 0..(k - 1) : Same(S(Laps, r), S(l, r)),
             NEW l \in 1..Laps, NEW r \in 0..(k - 1)
      PROVE  Same(S(l, r), S(1, r))
  <2>1. 1 \in 1..(Laps - 1)
    BY <1>1
  <2>2. Same(S(Laps, r), S(1, r))
    BY <1>5, <2>1
  <2>3. CASE l = Laps
    BY <2>2, <2>3
  <2>4. CASE l # Laps
    <3>1. Same(S(Laps, r), S(l, r))
      BY <1>5, <1>1, <2>4
    <3>2. Same(S(l, r), S(Laps, r))
      BY <1>1, <1>2, <3>1, SameTurns
    <3>3. QED
      BY <1>1, <1>2, <2>2, <3>2, SameTurns
  <2>5. QED
    BY <2>3, <2>4
<1>6. ASSUME \A l \in 1..Laps, r \in 0..(k - 1) : Same(S(l, r), S(1, r)),
             NEW l \in 1..(Laps - 1), NEW r \in 0..(k - 1)
      PROVE  Same(S(Laps, r), S(l, r))
  <2>1. l \in 1..Laps
    BY <1>1
  <2>2. Same(S(Laps, r), S(1, r)) /\ Same(S(l, r), S(1, r))
    BY <1>1, <1>6, <2>1
  <2>3. Same(S(1, r), S(l, r))
    BY <1>1, <1>2, <2>1, <2>2, SameTurns
  <2>4. QED
    BY <1>1, <1>2, <2>1, <2>2, <2>3, SameTurns
<1>7. (\A lap \in 1..(Laps - 1) : LapsEqual(base, base + lap * k, k))
        <=> \A l \in 1..Laps, r \in 0..(k - 1) : Same(S(l, r), S(1, r))
  BY <1>4, <1>5, <1>6
<1>8. QED
  BY <1>3, <1>7

LEMMA CyclesAreRounds ==
    ASSUME ring \in Seq(Ended), NEW k \in MinPeriod..MaxPeriod, NEW n, NEW x
    PROVE  /\ Cycles(n, x, k) <=> RoundOf(ring, n, x, k)
           /\ RoundOf(ring, n, x, k) => Lap(ring, k, 1)
<1> DEFINE N == Len(ring)
           p == Laps * k
           base == N - p + 1
           a == N - k + 1
<1>1. k \in Nat \ {0} /\ Laps \in Nat \ {0} /\ Laps >= 2 /\ N \in Nat /\ p \in Nat /\ 1 \in 1..Laps /\ Laps \in 1..Laps
  BY LoopAssumption, Multiples
<1>2. Periodic(ring, k, Laps) <=> p <= N /\ \A l \in 1..Laps : Lap(ring, k, l)
  <2>1. ASSUME Periodic(ring, k, Laps) PROVE Lap(ring, k, 1)
    <3>1. 1 * k = k /\ 2 * k = k + k /\ 2 * k <= N
      <4>1. 2 * k <= p /\ p <= N
        BY <1>1, <2>1, MultiplesGrow DEF Periodic
      <4>2. QED
        BY <1>1, <4>1, Multiples
    <3>2. Periodic(ring, k, 2)
      BY <1>1, <2>1, PeriodicFewer
    <3>3. ASSUME NEW r \in 0..(k - 1) PROVE Same(ring[a + r], ring[a + r])
      <4>1. a + r - k \in (N - 2 * k + 1)..(N - k) /\ (a + r - k) + k = a + r
            /\ a + r - k \in 1..N /\ a + r \in 1..N
        BY <1>1, <3>1
      <4>2. Same(ring[a + r - k], ring[(a + r - k) + k])
        BY <3>2, <4>1 DEF Periodic
      <4>3. ring[a + r - k] \in Ended /\ ring[a + r] \in Ended
        BY <4>1
      <4>4. QED
        BY <4>1, <4>2, <4>3, SameTurns
    <3>4. QED
      BY <1>1, <3>1, <3>3 DEF Lap
  <2>2. ASSUME Lap(ring, k, 1) PROVE Periodic(ring, k, Laps) <=> \A l \in 1..Laps : Lap(ring, k, l)
    BY <1>1, <2>2, PeriodicIsLaps
  <2>3. Periodic(ring, k, Laps) => p <= N
    BY DEF Periodic
  <2>4. QED
    BY <1>1, <2>1, <2>2, <2>3
<1>3. ASSUME p <= N
      PROVE  (\A lap \in 1..(Laps - 1) : LapsEqual(base, base + lap * k, k)) <=> \A l \in 1..Laps : Lap(ring, k, l)
  BY <1>1, <1>3, FirstOrLast
<1>4. ASSUME \A l \in 1..Laps : Lap(ring, k, l), NEW r \in 0..(k - 1)
      PROVE  ring[base + r].node = ring[a + r].node /\ ring[base + r].in = ring[a + r].in
  <2>1. Lap(ring, k, Laps)
    BY <1>1, <1>4
  <2>2. Same(ring[base + r], ring[a + r]) /\ p <= N
    BY <2>1 DEF Lap
  <2>3. ring[base + r] \in Ended /\ ring[a + r] \in Ended
    BY <1>1, <2>2, InLap
  <2>4. QED
    BY <2>2, <2>3, SameTurns
<1>5. base + 0 = base /\ a + 0 = a /\ 0 \in 0..(k - 1) /\ (base >= 1 <=> p <= N) /\ \A i \in 1..(k - 1) : i \in 0..(k - 1)
  BY <1>1
<1> DEFINE Laped == \A l \in 1..Laps : Lap(ring, k, l)
           Others(b) == \E i \in 1..(k - 1) : ring[b + i].node # n \/ ring[b + i].in # x
<1>6. Cycles(n, x, k) <=> p <= N /\ Laped /\ ring[base].node = n /\ ring[base].in = x /\ Others(base)
  BY <1>3, <1>5 DEF Cycles
<1>7. ASSUME p <= N, Laped
      PROVE  RoundOf(ring, n, x, k) <=> ring[a].node = n /\ ring[a].in = x /\ Others(a)
  <2>1. Periodic(ring, k, Laps)
    BY <1>2, <1>7
  <2>2. RoundOf(ring, n, x, k) <=> Turns(ring, n, x, k, Len(ring) - k + 1)
    BY <1>1, <2>1, RoundIs
  <2>3. QED
    BY <2>2 DEF Turns
<1>8. ASSUME p <= N, Laped
      PROVE  /\ ring[base].node = ring[a].node /\ ring[base].in = ring[a].in
             /\ Others(base) <=> Others(a)
  <2>1. ring[base + 0].node = ring[a + 0].node /\ ring[base + 0].in = ring[a + 0].in
    BY <1>4, <1>5, <1>8
  <2>2. \A i \in 1..(k - 1) : ring[base + i].node = ring[a + i].node /\ ring[base + i].in = ring[a + i].in
    BY <1>4, <1>5, <1>8
  <2>3. QED
    BY <1>5, <2>1, <2>2
<1>9. RoundOf(ring, n, x, k) => p <= N /\ Laped
  BY <1>2 DEF RoundOf
<1>10. Laped => Lap(ring, k, 1)
  BY <1>1
<1> HIDE DEF Laped, Others
<1>11. QED
  BY <1>6, <1>7, <1>8, <1>9, <1>10

\* The laps counted back from the newest are the most the history has.
LEMMA LapsBackIs ==
    ASSUME ring \in Seq(Ended), Len(ring) <= HistorySize, NEW k \in MinPeriod..MaxPeriod,
           Periodic(ring, k, Laps), Lap(ring, k, 1)
    PROVE  LapsBack(k) = Greatest({m \in 1..HistorySize : Periodic(ring, k, m)}) /\ LapsBack(k) \in Nat \ {0}
<1> DEFINE N == Len(ring)
           K == {m \in 1..HistorySize : Periodic(ring, k, m)}
           G == Greatest(K)
           Q(m) == /\ \A l \in 1..m : l * k <= N /\ LapsEqual(N - l * k + 1, N - k + 1, k)
                   /\ (m + 1) * k <= N => ~LapsEqual(N - (m + 1) * k + 1, N - k + 1, k)
<1>1. k \in Nat \ {0} /\ Laps \in Nat \ {0} /\ N \in Nat /\ HistorySize \in Nat
  BY LoopAssumption
<1>2. ASSUME NEW m \in Nat, m # 0 PROVE Periodic(ring, k, m) <=> \A l \in 1..m : Lap(ring, k, l)
  BY <1>1, <1>2, PeriodicIsLaps
<1>3. ASSUME NEW m \in Nat, Periodic(ring, k, m) PROVE m <= N
  <2> DEFINE q == m * k
  <2>1. q <= N
    BY <1>3 DEF Periodic
  <2>2. m <= q /\ q \in Nat
    BY <1>1, Multiples
  <2> HIDE DEF q
  <2>3. QED
    BY <1>1, <2>1, <2>2
<1>4. G \in K /\ \A m \in K : m <= G
  <2>1. Laps \in K
    BY <1>1, <1>3
  <2>2. K \subseteq 0..HistorySize
    OBVIOUS
  <2> HIDE DEF K
  <2>3. QED
    BY <1>1, <2>1, <2>2, GreatestIs
<1>5. ASSUME NEW m \in Nat, m # 0
      PROVE  Q(m) <=> Periodic(ring, k, m) /\ ~Periodic(ring, k, m + 1)
  <2>1. ASSUME NEW l \in Nat
        PROVE  Lap(ring, k, l) <=> l * k <= N /\ LapsEqual(N - l * k + 1, N - k + 1, k)
    BY DEF Lap, LapsEqual
  <2>2. m + 1 \in Nat /\ m + 1 # 0 /\ \A l \in 1..m : l \in Nat
    OBVIOUS
  <2>3. Q(m) <=> (\A l \in 1..m : Lap(ring, k, l)) /\ ~Lap(ring, k, m + 1)
    BY <2>1, <2>2
  <2>4. Periodic(ring, k, m + 1) <=> \A l \in 1..(m + 1) : Lap(ring, k, l)
    BY <1>2, <2>2
  <2>5. \A l \in 1..(m + 1) : l \in 1..m \/ l = m + 1
    OBVIOUS
  <2>6. m + 1 \in 1..(m + 1) /\ \A l \in 1..m : l \in 1..(m + 1)
    OBVIOUS
  <2>7. (\A l \in 1..(m + 1) : Lap(ring, k, l)) <=> (\A l \in 1..m : Lap(ring, k, l)) /\ Lap(ring, k, m + 1)
    BY <2>5, <2>6
  <2> HIDE DEF Q
  <2>8. QED
    BY <1>2, <1>5, <2>3, <2>4, <2>7
<1>6. G \in 1..N /\ Q(G)
  <2>1. G \in Nat /\ G # 0 /\ Periodic(ring, k, G) /\ G <= N
    <3> HIDE DEF G
    <3>1. QED
      BY <1>3, <1>4
  <2>2. ~Periodic(ring, k, G + 1)
    <3> HIDE DEF G, K
    <3>1. G + 1 \in Nat /\ G + 1 > G
      BY <2>1
    <3>2. ASSUME Periodic(ring, k, G + 1) PROVE G + 1 \in K
      <4>1. G + 1 <= N
        BY <1>3, <3>1, <3>2
      <4>2. G + 1 \in 1..HistorySize
        BY <1>1, <2>1, <3>1, <4>1
      <4>3. QED
        BY <3>2, <4>2 DEF K
    <3>3. QED
      BY <1>4, <2>1, <3>1, <3>2
  <2> HIDE DEF G, Q
  <2>3. QED
    BY <1>1, <1>5, <2>1, <2>2
<1>7. ASSUME NEW m \in 1..N, Q(m) PROVE m = G
  <2>1. m \in Nat /\ m # 0 /\ Periodic(ring, k, m) /\ ~Periodic(ring, k, m + 1)
    <3> HIDE DEF Q
    <3>1. QED
      BY <1>1, <1>5, <1>7
  <2>2. m \in K
    BY <1>1, <1>3, <2>1
  <2> HIDE DEF Q
  <2>3. m <= G /\ G \in Nat /\ Periodic(ring, k, G)
    <3>1. m <= G
      <4> HIDE DEF G, K
      <4>1. QED
        BY <1>4, <2>2
    <3>2. QED
      <4> HIDE DEF G
      <4>1. QED
        BY <1>4, <3>1
  <2> HIDE DEF G, K
  <2>4. CASE m < G
    <3>1. m + 1 \in Nat /\ m + 1 <= G
      BY <2>1, <2>3, <2>4
    <3>2. Periodic(ring, k, m + 1)
      BY <1>1, <2>3, <3>1, PeriodicFewer
    <3>3. QED
      BY <2>1, <3>2
  <2>5. QED
    BY <2>1, <2>3, <2>4
<1>8. LapsBack(k) = CHOOSE m \in 1..N : Q(m)
  BY DEF LapsBack
<1> HIDE DEF Q, G
<1>9. LapsBack(k) = G
  BY <1>6, <1>7, <1>8
<1>10. QED
  BY <1>1, <1>6, <1>9 DEF G

-----------------------------------------------------------------------------
(* The cycles found so far: a recursive function, whose values for the     *)
(* starts there were do not change as more start and end.                  *)

\* Window and Found, of any starts and ends.
WindowOf(ss, es, j) == Newest(SubSeq(es, 1, ss[j].seen), HistorySize)
PeriodsAt(f, ss, es, j) ==
    IF j = 0 THEN {}
    ELSE {k \in MinPeriod..MaxPeriod :
            /\ ss[j].in # Undefined /\ RoundOf(WindowOf(ss, es, j), ss[j].node, ss[j].in, k)
            /\ \A i \in 1..(j - 1) : f[i] # 0 => ss[j].seen >= ss[i].seen + f[i]}
PeriodAt(f, ss, es, j) ==
    IF PeriodsAt(f, ss, es, j) = {} THEN 0 ELSE Smallest(PeriodsAt(f, ss, es, j))
FoundIn(f, N, ss, es) == f = [j \in 0..N |-> PeriodAt(f, ss, es, j)]

LEMMA PeriodDepends ==
    ASSUME NEW f, NEW g, NEW ss, NEW tt, NEW es, NEW ds, NEW j \in Nat,
           \A i \in 1..(j - 1) : f[i] = g[i],
           \A i \in 1..j : ss[i] = tt[i],
           j # 0 => WindowOf(ss, es, j) = WindowOf(tt, ds, j)
    PROVE  PeriodAt(f, ss, es, j) = PeriodAt(g, tt, ds, j)
<1>1. PeriodsAt(f, ss, es, j) = PeriodsAt(g, tt, ds, j)
  <2>1. CASE j = 0
    BY <2>1 DEF PeriodsAt
  <2>2. CASE j # 0
    <3>1. ss[j] = tt[j] /\ WindowOf(ss, es, j) = WindowOf(tt, ds, j) /\ \A i \in 1..(j - 1) : i \in 1..j
      BY <2>2
    <3>2. \A i \in 1..(j - 1) : f[i] = g[i] /\ ss[i] = tt[i]
      BY <3>1
    <3>3. QED
      BY <2>2, <3>1, <3>2 DEF PeriodsAt
  <2>3. QED
    BY <2>1, <2>2
<1>2. QED
  BY <1>1 DEF PeriodAt

LEMMA FoundExists ==
    ASSUME NEW N \in Nat, NEW ss, NEW es
    PROVE  \E f : FoundIn(f, N, ss, es)
<1> DEFINE T == {n \in Nat : \E f : FoundIn(f, n, ss, es)}
<1>1. 0 \in T
  <2> DEFINE f == [j \in 0..0 |-> 0]
  <2>1. \A j \in 0..0 : PeriodAt(f, ss, es, j) = 0
    BY DEF PeriodAt, PeriodsAt
  <2>2. FoundIn(f, 0, ss, es)
    BY <2>1 DEF FoundIn
  <2> HIDE DEF f
  <2>3. QED
    BY <2>2
<1>2. ASSUME NEW n \in 0..(N - 1), n \in T PROVE n + 1 \in T
  <2>1. PICK f : FoundIn(f, n, ss, es)
    BY <1>2
  <2> DEFINE new == PeriodAt(f, ss, es, n + 1)
             g == [j \in 0..(n + 1) |-> IF j = n + 1 THEN new ELSE f[j]]
  <2> HIDE DEF new
  <2>2. n \in Nat /\ n + 1 \in Nat
    OBVIOUS
  <2>3. ASSUME NEW j \in 0..(n + 1) PROVE g[j] = PeriodAt(g, ss, es, j)
    <3>1. \A i \in 1..(j - 1) : f[i] = g[i]
      BY <2>2
    <3> HIDE DEF g
    <3>2. PeriodAt(f, ss, es, j) = PeriodAt(g, ss, es, j)
      BY <2>2, <3>1, PeriodDepends
    <3>3. CASE j = n + 1
      BY <2>2, <3>2, <3>3 DEF g, new
    <3>4. CASE j # n + 1
      <4>1. j \in 0..n
        BY <2>2, <3>4
      <4>2. f[j] = PeriodAt(f, ss, es, j)
        BY <2>1, <4>1 DEF FoundIn
      <4>3. QED
        BY <2>2, <3>2, <3>4, <4>2 DEF g
    <3>5. QED
      BY <3>3, <3>4
  <2>4. FoundIn(g, n + 1, ss, es)
    <3>1. g = [j \in 0..(n + 1) |-> g[j]]
      OBVIOUS
    <3> HIDE DEF g
    <3>2. QED
      BY <2>3, <3>1 DEF FoundIn
  <2> HIDE DEF g
  <2>5. QED
    BY <2>2, <2>4
<1>3. N \in T
  <2> HIDE DEF T
  <2>1. \A n \in 0..(N - 1) : n \in T => n + 1 \in T
    BY <1>2
  <2>2. \A n \in 0..N : n \in T
    BY <1>1, <2>1, Climb
  <2>3. QED
    BY <2>2
<1>4. QED
  BY <1>3

LEMMA FoundStays ==
    ASSUME NEW N \in Nat, NEW M \in Nat, N <= M, NEW f, NEW g, NEW ss, NEW tt, NEW es, NEW ds,
           FoundIn(f, N, ss, es), FoundIn(g, M, tt, ds),
           \A j \in 1..N : ss[j] = tt[j] /\ WindowOf(ss, es, j) = WindowOf(tt, ds, j)
    PROVE  \A j \in 0..N : f[j] = g[j]
<1> DEFINE T == {n \in Nat : \A j \in 0..n : f[j] = g[j]}
<1>1. ASSUME NEW n \in 0..N, \A i \in 1..(n - 1) : f[i] = g[i] PROVE f[n] = g[n]
  <2>1. n \in Nat /\ n \in 0..M /\ (n # 0 => n \in 1..N) /\ \A i \in 1..n : i \in 1..N
    OBVIOUS
  <2>2. PeriodAt(f, ss, es, n) = PeriodAt(g, tt, ds, n)
    BY <1>1, <2>1, PeriodDepends
  <2>3. QED
    BY <2>1, <2>2 DEF FoundIn
<1>2. 0 \in T
  BY <1>1
<1>3. ASSUME NEW n \in 0..(N - 1), n \in T PROVE n + 1 \in T
  <2>1. n + 1 \in 0..N /\ (n + 1) - 1 = n /\ \A i \in 1..n : f[i] = g[i]
    BY <1>3
  <2>2. f[n + 1] = g[n + 1]
    BY <1>1, <2>1
  <2>3. QED
    BY <1>3, <2>2
<1>4. N \in T
  <2> HIDE DEF T
  <2>1. \A n \in 0..(N - 1) : n \in T => n + 1 \in T
    BY <1>3
  <2>2. \A n \in 0..N : n \in T
    BY <1>2, <2>1, Climb
  <2>3. QED
    BY <2>2
<1>5. QED
  BY <1>4

LEMMA FoundIs == ASSUME Len(starts) \in Nat PROVE FoundIn(Found, Len(starts), starts, ends)
<1>1. PICK f : FoundIn(f, Len(starts), starts, ends)
  BY FoundExists
<1>2. QED
  BY <1>1 DEF FoundIn, PeriodAt, PeriodsAt, Found, Round, Window, WindowOf, RoundOf

LEMMA FoundIsNext == ASSUME Len(starts') \in Nat PROVE FoundIn(Found', Len(starts'), starts', ends')
<1>1. PICK f : FoundIn(f, Len(starts'), starts', ends')
  BY FoundExists
<1>2. QED
  BY <1>1 DEF FoundIn, PeriodAt, PeriodsAt, Found, Round, Window, WindowOf, RoundOf

LEMMA FoundTyped ==
    ASSUME NEW N \in Nat, NEW f, NEW ss, NEW es, FoundIn(f, N, ss, es), NEW j \in 0..N
    PROVE  /\ f[j] = PeriodAt(f, ss, es, j) /\ f[j] \in Nat
           /\ f[j] # 0 <=> PeriodsAt(f, ss, es, j) # {}
           /\ f[j] # 0 => j # 0 /\ f[j] \in PeriodsAt(f, ss, es, j) /\ f[j] \in MinPeriod..MaxPeriod /\ ss[j].in # Undefined
<1> DEFINE K == PeriodsAt(f, ss, es, j)
<1>1. f[j] = IF K = {} THEN 0 ELSE Smallest(K)
  BY DEF FoundIn, PeriodAt
<1>2. K \subseteq MinPeriod..MaxPeriod /\ MinPeriod..MaxPeriod \subseteq Nat \ {0}
      /\ (K # {} => j # 0 /\ ss[j].in # Undefined)
  BY LoopAssumption DEF PeriodsAt
<1> HIDE DEF K
<1>3. K # {} => Smallest(K) \in K
  BY <1>2, SmallestIs
<1>4. QED
  BY <1>1, <1>2, <1>3 DEF FoundIn, K

-----------------------------------------------------------------------------
(* Error-repeat: the fold back through the ring, as a run of single steps.  *)

LEMMA MinIs ==
    ASSUME NEW t \in SUBSET Nat, t # {}
    PROVE  Min(t) \in t /\ \A x \in t : Min(t) <= x
<1>1. PICK m \in t : \A x \in t : m <= x
  BY Least
<1>2. QED
  BY <1>1 DEF Min

BackOver(f, n, seq, h, a) ==
    f = [t \in SUBSET (a..Len(h)) |->
           IF t = {} THEN Counted(seq) ELSE Back(n, h[Min(t)], f[t \ {Min(t)}])]

LEMMA BackOverExists ==
    ASSUME NEW n, NEW seq, NEW h, Len(h) \in Nat
    PROVE  \E f : BackOver(f, n, seq, h, 1)
<1> DEFINE N == Len(h)
           T == {m \in Nat : \E f : BackOver(f, n, seq, h, N - m + 1)}
<1>1. 0 \in T
  <2> DEFINE f == [t \in SUBSET ((N + 1)..N) |-> Counted(seq)]
  <2>1. (N + 1)..N = {} /\ N - 0 + 1 = N + 1
    OBVIOUS
  <2>2. BackOver(f, n, seq, h, N + 1)
    BY <2>1 DEF BackOver
  <2> HIDE DEF f
  <2>3. QED
    BY <2>1, <2>2
<1>2. ASSUME NEW m \in 0..(N - 1), m \in T PROVE m + 1 \in T
  <2> DEFINE a == N - m
  <2>1. a \in 1..N /\ N - m + 1 = a + 1 /\ N - (m + 1) + 1 = a
    OBVIOUS
  <2>2. PICK f : BackOver(f, n, seq, h, a + 1)
    BY <1>2, <2>1
  <2> DEFINE g == [t \in SUBSET (a..N) |-> IF a \in t THEN Back(n, h[a], f[t \ {a}]) ELSE f[t]]
  <2> HIDE DEF a
  <2>3. ASSUME NEW t \in SUBSET (a..N)
        PROVE  g[t] = IF t = {} THEN Counted(seq) ELSE Back(n, h[Min(t)], g[t \ {Min(t)}])
    <3>1. t \in SUBSET Nat /\ \A x \in t : a <= x
      BY <2>1
    <3>2. CASE a \in t
      <4>1. Min(t) = a
        <5>1. Min(t) \in t /\ Min(t) <= a
          BY <3>1, <3>2, MinIs
        <5>2. a <= Min(t)
          BY <3>1, <5>1
        <5>3. Min(t) \in Nat
          BY <3>1, <5>1
        <5>4. a \in Nat
          BY <2>1
        <5>5. QED
          BY <5>1, <5>2, <5>3, <5>4
      <4>2. t \ {a} \in SUBSET (a..N) /\ a \notin t \ {a}
        OBVIOUS
      <4>3. g[t \ {a}] = f[t \ {a}] /\ g[t] = Back(n, h[a], f[t \ {a}])
        BY <3>2, <4>2
      <4> HIDE DEF g
      <4>4. QED
        BY <3>2, <4>1, <4>3
    <3>3. CASE a \notin t /\ t # {}
      <4>1. t \in SUBSET ((a + 1)..N)
        BY <2>1, <3>3
      <4>2. Min(t) \in t
        BY <3>1, <3>3, MinIs
      <4>3. t \ {Min(t)} \in SUBSET (a..N) /\ a \notin t \ {Min(t)}
        BY <3>3
      <4>4. g[t] = f[t] /\ g[t \ {Min(t)}] = f[t \ {Min(t)}]
        BY <3>3, <4>3
      <4>5. f[t] = Back(n, h[Min(t)], f[t \ {Min(t)}])
        BY <2>2, <3>3, <4>1 DEF BackOver
      <4> HIDE DEF g
      <4>6. QED
        BY <3>3, <4>4, <4>5
    <3>4. CASE t = {}
      <4>1. g[t] = f[t] /\ t \in SUBSET ((a + 1)..N)
        BY <3>4
      <4>2. f[t] = Counted(seq)
        BY <2>2, <3>4, <4>1 DEF BackOver
      <4> HIDE DEF g
      <4>3. QED
        BY <3>4, <4>1, <4>2
    <3>5. QED
      BY <3>2, <3>3, <3>4
  <2>4. g = [t \in SUBSET (a..N) |-> g[t]]
    OBVIOUS
  <2> HIDE DEF g
  <2>5. BackOver(g, n, seq, h, a)
    BY <2>3, <2>4 DEF BackOver
  <2>6. m + 1 \in Nat
    OBVIOUS
  <2>7. QED
    BY <2>1, <2>5, <2>6
<1>3. N \in T
  <2> HIDE DEF T
  <2>1. \A m \in 0..(N - 1) : m \in T => m + 1 \in T
    BY <1>2
  <2>2. \A m \in 0..N : m \in T
    BY <1>1, <2>1, Climb
  <2>3. QED
    BY <2>2
<1>4. N - N + 1 = 1
  OBVIOUS
<1>5. QED
  BY <1>3, <1>4

\* What detectErrorRepeat counts in h.
LookBack(n, h, seq) == FoldRight(LAMBDA e, acc : Back(n, e, acc), h, Counted(seq))

BacksUp(c, n, h, seq) ==
    /\ c[0] = Counted(seq)
    /\ \A m \in 0..(Len(h) - 1) : c[m + 1] = Back(n, h[Len(h) - m], c[m])
    /\ LookBack(n, h, seq) = c[Len(h)]

LEMMA BackRun ==
    ASSUME NEW n, NEW seq, NEW h, Len(h) \in Nat, DOMAIN h = 1..Len(h)
    PROVE  \E c : BacksUp(c, n, h, seq)
<1> DEFINE N == Len(h)
           Is(f) == f = [t \in SUBSET (DOMAIN h) |->
                           IF t = {} THEN Counted(seq) ELSE Back(n, h[Min(t)], f[t \ {Min(t)}])]
           f == CHOOSE f : Is(f)
           c == [m \in 0..N |-> f[(N - m + 1)..N]]
<1>1. Is(f)
  <2>1. PICK g : BackOver(g, n, seq, h, 1)
    BY BackOverExists
  <2>2. Is(g)
    BY <2>1 DEF BackOver
  <2> HIDE DEF Is
  <2>3. QED
    BY <2>2
<1>2. LookBack(n, h, seq) = f[1..N]
  BY DEF LookBack, FoldRight, MapThenFoldSet
<1> HIDE DEF f
<1>3. c[0] = Counted(seq)
  <2>1. (N - 0 + 1)..N = {} /\ 0 \in 0..N
    OBVIOUS
  <2>2. QED
    BY <1>1, <2>1
<1>4. ASSUME NEW m \in 0..(N - 1) PROVE c[m + 1] = Back(n, h[N - m], c[m])
  <2> DEFINE t == (N - m)..N
  <2>1. /\ m \in 0..N /\ m + 1 \in 0..N /\ N - (m + 1) + 1 = N - m
        /\ t \in SUBSET (1..N) /\ t \in SUBSET Nat /\ t # {} /\ N - m \in t
        /\ t \ {N - m} = (N - m + 1)..N /\ \A x \in t : N - m <= x
    <3> DEFINE a == N - m
    <3>1. a \in 1..N /\ N - m + 1 = a + 1 /\ N - (m + 1) + 1 = a /\ m \in 0..N /\ m + 1 \in 0..N
      OBVIOUS
    <3> HIDE DEF a
    <3>2. (a..N) \ {a} = (a + 1)..N
      BY <3>1
    <3>3. a..N \in SUBSET (1..N) /\ a..N \in SUBSET Nat /\ a \in a..N /\ \A x \in a..N : a <= x
      BY <3>1
    <3>4. QED
      BY <3>1, <3>2, <3>3 DEF a
  <2>2. Min(t) = N - m
    <3> HIDE DEF t
    <3>1. Min(t) \in t /\ Min(t) <= N - m /\ N - m <= Min(t)
      BY <2>1, MinIs
    <3>2. Min(t) \in Nat /\ N - m \in Nat
      BY <2>1, <3>1
    <3>3. QED
      BY <3>1, <3>2
  <2>3. f[t] = Back(n, h[Min(t)], f[t \ {Min(t)}])
    <3> HIDE DEF t
    <3>1. QED
      BY <1>1, <2>1
  <2>4. QED
    BY <2>1, <2>2, <2>3
<1>5. c[N] = f[1..N]
  <2>1. N - N + 1 = 1 /\ N \in 0..N
    OBVIOUS
  <2>2. QED
    BY <2>1
<1> HIDE DEF c
<1>6. BacksUp(c, n, h, seq)
  BY <1>2, <1>3, <1>4, <1>5 DEF BacksUp
<1>7. QED
  BY <1>6

\* OwnFailures and Failing, of any history and node.
OwnIn(h, n) == {i \in DOMAIN h : h[i].node \in {n, Undefined}}
GoodIn(h, n, i) == FailedAs(h[i].out, h[i]) /\ h[i].out = h[Greatest(OwnIn(h, n))].out
SinceIn(h, n, a) == {i \in OwnIn(h, n) : i >= a}
FailuresIn(h, n) == {t \in {SinceIn(h, n, first) : first \in OwnIn(h, n)} : \A i \in t : GoodIn(h, n, i)}
FailingIn(h, n) == IF FailuresIn(h, n) = {} THEN 0 ELSE Greatest({Cardinality(t) : t \in FailuresIn(h, n)})

LEMMA OwnTyped ==
    ASSUME NEW h \in Seq(Ended), NEW n, NEW a
    PROVE  /\ OwnIn(h, n) \subseteq 1..Len(h) /\ IsFiniteSet(OwnIn(h, n))
           /\ SinceIn(h, n, a) \subseteq OwnIn(h, n) /\ IsFiniteSet(SinceIn(h, n, a)) /\ Cardinality(SinceIn(h, n, a)) \in Nat
<1>1. OwnIn(h, n) \subseteq 1..Len(h) /\ Len(h) \in Nat
  BY DEF OwnIn
<1>2. IsFiniteSet(1..Len(h))
  BY <1>1, FS_Interval
<1>3. IsFiniteSet(OwnIn(h, n))
  BY <1>1, <1>2, FS_Subset
<1>4. SinceIn(h, n, a) \subseteq OwnIn(h, n)
  BY DEF SinceIn
<1>5. QED
  BY <1>1, <1>3, <1>4, FS_Subset, FS_CardinalityType

\* The failures in a row are those from a on, if all of these are and the call
\* before is not.
LEMMA FailingIs ==
    ASSUME NEW h \in Seq(Ended), NEW n, NEW a \in 1..(Len(h) + 1),
           \A i \in SinceIn(h, n, a) : GoodIn(h, n, i),
           a # 1 => a - 1 \in OwnIn(h, n) /\ ~GoodIn(h, n, a - 1)
    PROVE  FailingIn(h, n) = Cardinality(SinceIn(h, n, a))
<1> DEFINE C == SinceIn(h, n, a)
           own == OwnIn(h, n)
           F == FailuresIn(h, n)
<1>1. own \subseteq 1..Len(h) /\ C \subseteq own /\ IsFiniteSet(C) /\ Cardinality(C) \in Nat /\ Len(h) \in Nat
  BY OwnTyped
<1>2. ASSUME NEW t \in F PROVE t \subseteq C /\ t # {}
  <2>1. PICK first \in own : t = SinceIn(h, n, first) /\ \A i \in t : GoodIn(h, n, i)
    BY <1>2 DEF FailuresIn
  <2>2. first \in t
    BY <1>1, <2>1 DEF SinceIn
  <2>3. first >= a
    <3>1. SUFFICES ASSUME ~(first >= a) PROVE FALSE
      OBVIOUS
    <3>2. a # 1 /\ a - 1 >= first
      BY <1>1, <3>1
    <3>3. a - 1 \in t
      BY <2>1, <3>2 DEF SinceIn
    <3>4. QED
      BY <2>1, <3>2, <3>3
  <2>4. ASSUME NEW i \in t PROVE i \in C
    <3>1. i \in own /\ i >= first
      BY <2>1, <2>4 DEF SinceIn
    <3>2. i >= a
      BY <1>1, <2>3, <3>1
    <3>3. QED
      BY <3>1, <3>2 DEF SinceIn
  <2>5. QED
    BY <2>2, <2>4
<1>3. CASE C = {}
  <2>1. F = {}
    BY <1>2, <1>3
  <2>2. Cardinality(C) = 0
    BY <1>3, FS_EmptySet
  <2>3. QED
    BY <2>1, <2>2 DEF FailingIn
<1>4. CASE C # {}
  <2> DEFINE K == {Cardinality(t) : t \in F}
  <2>1. C \in F
    <3>1. PICK m \in C : \A x \in C : m <= x
      <4>1. C \in SUBSET Nat
        BY <1>1
      <4>2. QED
        BY <1>4, <4>1, Least
    <3>2. m \in own /\ m >= a /\ m \in Nat
      BY <1>1, <3>1 DEF SinceIn
    <3>3. SinceIn(h, n, m) = C
      <4>1. ASSUME NEW i \in own PROVE i >= m <=> i >= a /\ (i >= a => m <= i)
        BY <1>1, <3>2
      <4>2. ASSUME NEW i \in own, i >= a PROVE m <= i
        BY <3>1, <4>2 DEF SinceIn
      <4>3. \A i \in own : i >= m <=> i >= a
        BY <4>1, <4>2
      <4>4. QED
        BY <4>3 DEF SinceIn
    <3>4. QED
      BY <3>2, <3>3 DEF FailuresIn
  <2>2. ASSUME NEW t \in F PROVE Cardinality(t) <= Cardinality(C)
    <3>1. t \in SUBSET C
      BY <1>2
    <3> HIDE DEF C, F
    <3>2. QED
      BY <1>1, <3>1, FS_Subset
  <2>3. Cardinality(C) \in K /\ \A x \in K : x <= Cardinality(C)
    <3> HIDE DEF C, F
    <3>1. QED
      BY <2>1, <2>2
  <2>4. ASSUME NEW k \in K, \A l \in K : l <= k PROVE k = Cardinality(C)
    <3>1. Cardinality(C) <= k /\ k <= Cardinality(C)
      BY <2>3, <2>4
    <3>2. k \in Nat
      <4>1. PICK t \in F : k = Cardinality(t)
        OBVIOUS
      <4>2. t \in SUBSET C
        BY <1>2
      <4>3. IsFiniteSet(t)
        <5> HIDE DEF C
        <5>1. QED
          BY <1>1, <4>2, FS_Subset
      <4>4. QED
        BY <4>1, <4>3, FS_CardinalityType
    <3> HIDE DEF K, C
    <3>3. QED
      BY <1>1, <3>1, <3>2
  <2> HIDE DEF C, K
  <2>5. Greatest(K) = Cardinality(C)
    BY <2>3, <2>4 DEF Greatest
  <2>6. QED
    BY <2>1, <2>5 DEF FailingIn, K, C
<1>5. QED
  BY <1>3, <1>4

Counts == [kind : {"error-repeat"}, repeats : Nat, period : {0}, first : Nat, out : Digests \cup {Undefined},
           over : BOOLEAN]

\* The fold when the calls from a on have been looked at.
Tallied(h, n, c, a) ==
    /\ c \in Counts
    /\ ~c.over => /\ \A i \in SinceIn(h, n, a) : GoodIn(h, n, i)
                  /\ c.repeats = Cardinality(SinceIn(h, n, a))
                  /\ c.out = IF SinceIn(h, n, a) = {} THEN Undefined ELSE h[Greatest(OwnIn(h, n))].out
    /\ c.over => \E b \in a..Len(h) :
                    /\ b \in OwnIn(h, n) /\ ~GoodIn(h, n, b)
                    /\ \A i \in SinceIn(h, n, b + 1) : GoodIn(h, n, i)
                    /\ c.repeats = Cardinality(SinceIn(h, n, b + 1))

LEMMA BackIs ==
    ASSUME NEW n, NEW e \in Ended, NEW c \in Counts
    PROVE  LET d == Back(n, e, c) IN
           /\ d \in Counts
           /\ c.over \/ e.node \notin {n, Undefined} => d = c
           /\ ~c.over /\ e.node \in {n, Undefined} =>
                 /\ d.over = ~FailedAs(c.out, e)
                 /\ d.over => d.repeats = c.repeats
                 /\ ~d.over => d.repeats = c.repeats + 1 /\ d.out = e.out
<1> DEFINE d == Back(n, e, c)
<1>1. CASE c.over \/ e.node \notin {n, Undefined}
  BY <1>1 DEF Back
<1>2. CASE ~(c.over \/ e.node \notin {n, Undefined}) /\ ~FailedAs(c.out, e)
  <2>1. d = [c EXCEPT !.over = TRUE]
    BY <1>2 DEF Back
  <2> HIDE DEF d
  <2>2. d \in Counts /\ d.over /\ d.repeats = c.repeats
    BY <2>1 DEF Counts
  <2>3. QED
    BY <1>2, <2>2 DEF d, Counts
<1>3. CASE ~(c.over \/ e.node \notin {n, Undefined}) /\ FailedAs(c.out, e)
  <2> DEFINE more == c.repeats + 1
             out == e.out
  <2>1. d = [c EXCEPT !.repeats = more, !.first = e.seq, !.out = out]
    BY <1>3 DEF Back
  <2>2. more \in Nat /\ e.seq \in Nat /\ out \in Digests \cup {Undefined}
    BY DEF Counts, Ended
  <2> HIDE DEF d, more, out
  <2>3. d \in Counts /\ d.over = c.over /\ d.repeats = more /\ d.out = out
    BY <2>1, <2>2 DEF Counts
  <2>4. c.over = FALSE
    BY <1>3 DEF Counts
  <2>5. QED
    BY <1>3, <2>3, <2>4 DEF d, more, out
<1>4. QED
  BY <1>1, <1>2, <1>3

LEMMA TallySteps ==
    ASSUME NEW h \in Seq(Ended), NEW n, NEW a \in 1..Len(h), NEW c, Tallied(h, n, c, a + 1)
    PROVE  Tallied(h, n, Back(n, h[a], c), a)
<1> DEFINE e == h[a]
           d == Back(n, e, c)
           own == OwnIn(h, n)
           z == h[Greatest(own)].out
           later == SinceIn(h, n, a + 1)
<1>1. /\ Len(h) \in Nat /\ own \subseteq 1..Len(h) /\ e \in Ended /\ c \in Counts
      /\ (a \in own <=> e.node \in {n, Undefined})
  <2>1. \A i \in 1..Len(h) : h[i] \in Ended
    OBVIOUS
  <2>2. QED
    BY <2>1, OwnTyped DEF Tallied, OwnIn
<1>2. /\ d \in Counts
      /\ c.over \/ e.node \notin {n, Undefined} => d = c
      /\ ~c.over /\ e.node \in {n, Undefined} =>
            /\ d.over = ~FailedAs(c.out, e)
            /\ d.over => d.repeats = c.repeats
            /\ ~d.over => d.repeats = c.repeats + 1 /\ d.out = e.out
  BY <1>1, BackIs
<1>3. \A i \in own : i >= a <=> i = a \/ i >= a + 1
  BY <1>1
<1>4. SinceIn(h, n, a) = later \cup ({a} \cap own)
  BY <1>3 DEF SinceIn
<1>5. IsFiniteSet(later) /\ Cardinality(later) \in Nat /\ a \notin later
  <2>1. IsFiniteSet(later) /\ Cardinality(later) \in Nat
    BY OwnTyped
  <2>2. ~(a >= a + 1)
    BY <1>1
  <2>3. a \notin later
    BY <2>2 DEF SinceIn
  <2> HIDE DEF later
  <2>4. QED
    BY <2>1, <2>3
<1>6. CASE c.over
  <2>1. PICK b \in (a + 1)..Len(h) : /\ b \in own /\ ~GoodIn(h, n, b)
                                     /\ \A i \in SinceIn(h, n, b + 1) : GoodIn(h, n, i)
                                     /\ c.repeats = Cardinality(SinceIn(h, n, b + 1))
    BY <1>6 DEF Tallied
  <2>2. b \in a..Len(h)
    BY <1>1
  <2>3. d = c
    BY <1>2, <1>6
  <2> HIDE DEF d
  <2>4. QED
    BY <1>1, <1>6, <2>1, <2>2, <2>3 DEF Tallied, d
<1>7. CASE ~c.over /\ a \notin own
  <2>1. SinceIn(h, n, a) = later
    BY <1>4, <1>7
  <2>2. d = c
    BY <1>1, <1>2, <1>7
  <2> HIDE DEF d
  <2>3. Tallied(h, n, d, a)
    BY <1>7, <2>1, <2>2 DEF Tallied
  <2>4. QED
    BY <2>3 DEF d
<1>8. CASE ~c.over /\ a \in own
  <2>1. /\ \A i \in later : GoodIn(h, n, i)
        /\ c.repeats = Cardinality(later)
        /\ c.out = IF later = {} THEN Undefined ELSE z
    BY <1>8 DEF Tallied
  <2>2. SinceIn(h, n, a) = later \cup {a} /\ SinceIn(h, n, a) # {}
    BY <1>4, <1>8
  <2>3. FailedAs(c.out, e) <=> GoodIn(h, n, a)
    <3>1. CASE later = {}
      <4>1. Greatest(own) = a
        <5>1. \A i \in own : i <= a
          <6>1. \A i \in own : i >= a + 1 => i \in later
            BY DEF SinceIn
          <6>2. \A i \in own : ~(i >= a + 1) => i <= a
            BY <1>1
          <6>3. QED
            BY <3>1, <6>1, <6>2
        <5>2. Greatest(own) \in own /\ \A i \in own : i <= Greatest(own)
          <6>1. own \subseteq 0..Len(h) /\ own # {}
            BY <1>1, <1>8
          <6> HIDE DEF own
          <6>2. QED
            BY <1>1, <6>1, GreatestIs
        <5>3. Greatest(own) <= a /\ a <= Greatest(own) /\ Greatest(own) \in Nat
          BY <1>1, <1>8, <5>1, <5>2
        <5> HIDE DEF own
        <5>4. QED
          BY <5>3
      <4>2. c.out = Undefined /\ z = e.out
        BY <2>1, <3>1, <4>1
      <4>3. QED
        BY <4>1, <4>2 DEF FailedAs, GoodIn
    <3>2. CASE later # {}
      <4>1. PICK i \in later : GoodIn(h, n, i)
        BY <2>1, <3>2
      <4>2. z # Undefined
        BY <4>1 DEF GoodIn, FailedAs
      <4>3. c.out = z
        BY <2>1, <3>2
      <4>4. QED
        BY <4>2, <4>3 DEF FailedAs, GoodIn
    <3>3. QED
      BY <3>1, <3>2
  <2>4. d.over = ~GoodIn(h, n, a) /\ (d.over => d.repeats = c.repeats)
        /\ (~d.over => d.repeats = c.repeats + 1 /\ d.out = e.out)
    <3>1. d.over = ~FailedAs(c.out, e) /\ (d.over => d.repeats = c.repeats)
          /\ (~d.over => d.repeats = c.repeats + 1 /\ d.out = e.out)
      BY <1>1, <1>2, <1>8
    <3>2. FailedAs(c.out, e) \in BOOLEAN /\ GoodIn(h, n, a) \in BOOLEAN
      BY DEF FailedAs, GoodIn
    <3> HIDE DEF d
    <3>3. QED
      BY <2>3, <3>1, <3>2
  <2>5. CASE GoodIn(h, n, a)
    <3>1. Cardinality(SinceIn(h, n, a)) = Cardinality(later) + 1
      <4> HIDE DEF later
      <4>1. QED
        BY <1>5, <2>2, FS_AddElement
    <3>2. \A i \in SinceIn(h, n, a) : GoodIn(h, n, i)
      BY <2>1, <2>2, <2>5
    <3>3. e.out = z
      BY <2>5 DEF GoodIn
    <3> HIDE DEF d
    <3>4. ~d.over /\ d.repeats = Cardinality(SinceIn(h, n, a)) /\ d.out = z
      BY <2>1, <2>4, <2>5, <3>1, <3>3
    <3>5. Tallied(h, n, d, a)
      BY <1>2, <2>2, <3>2, <3>4 DEF Tallied
    <3>6. QED
      BY <3>5 DEF d
  <2>6. CASE ~GoodIn(h, n, a)
    <3> HIDE DEF d
    <3>0. a \in a..Len(h)
      BY <1>1
    <3>1. d.over /\ d.repeats = Cardinality(later) /\ a \in a..Len(h)
      BY <2>1, <2>4, <2>6, <3>0
    <3>2. Tallied(h, n, d, a)
      BY <1>2, <1>8, <2>1, <2>6, <3>1 DEF Tallied
    <3>3. QED
      BY <3>2 DEF d
  <2>7. QED
    BY <2>5, <2>6
<1>9. QED
  BY <1>6, <1>7, <1>8

LEMMA TallyBegins ==
    ASSUME NEW h \in Seq(Ended), NEW n, NEW seq \in Nat
    PROVE  Tallied(h, n, Counted(seq), Len(h) + 1)
<1>1. SinceIn(h, n, Len(h) + 1) = {}
  <2>1. Len(h) \in Nat /\ OwnIn(h, n) \subseteq 1..Len(h)
    BY DEF OwnIn
  <2>2. \A i \in OwnIn(h, n) : ~(i >= Len(h) + 1)
    BY <2>1
  <2>3. QED
    BY <2>2 DEF SinceIn
<1>2. Counted(seq) \in Counts /\ ~Counted(seq).over /\ Counted(seq).repeats = 0 /\ Counted(seq).out = Undefined
  BY DEF Counted, Counts
<1>3. QED
  BY <1>1, <1>2, FS_EmptySet DEF Tallied

LEMMA TallyEnds ==
    ASSUME NEW h \in Seq(Ended), NEW n, NEW c, Tallied(h, n, c, 1)
    PROVE  c \in Counts /\ c.repeats = FailingIn(h, n)
<1>1. CASE ~c.over
  <2>1. 1 \in 1..(Len(h) + 1)
    OBVIOUS
  <2>2. (\A i \in SinceIn(h, n, 1) : GoodIn(h, n, i)) /\ c.repeats = Cardinality(SinceIn(h, n, 1)) /\ c \in Counts
    BY <1>1 DEF Tallied
  <2>3. FailingIn(h, n) = Cardinality(SinceIn(h, n, 1))
    BY <2>1, <2>2, FailingIs
  <2>4. QED
    BY <2>2, <2>3
<1>2. CASE c.over
  <2>1. PICK b \in 1..Len(h) : /\ b \in OwnIn(h, n) /\ ~GoodIn(h, n, b)
                               /\ \A i \in SinceIn(h, n, b + 1) : GoodIn(h, n, i)
                               /\ c.repeats = Cardinality(SinceIn(h, n, b + 1))
    BY <1>2 DEF Tallied
  <2>2. b + 1 \in 1..(Len(h) + 1) /\ (b + 1) - 1 = b
    OBVIOUS
  <2>3. FailingIn(h, n) = Cardinality(SinceIn(h, n, b + 1))
    BY <2>1, <2>2, FailingIs
  <2>4. QED
    BY <2>1, <2>3 DEF Tallied
<1>3. QED
  BY <1>1, <1>2

\* So the guard counts the failures of the node at the end of its ring.
LEMMA ErrorRepeatIs ==
    ASSUME ring \in Seq(Ended), NEW n, NEW seq \in Nat
    PROVE  /\ FailingIn(ring, n) \in Nat
           /\ FailingIn(ring, n) < Failures => ErrorRepeat(n, seq) = NoLoop
           /\ ~(FailingIn(ring, n) < Failures) =>
                 ErrorRepeat(n, seq).kind = "error-repeat" /\ ErrorRepeat(n, seq).repeats = FailingIn(ring, n)
<1> DEFINE N == Len(ring)
           last == LookBack(n, ring, seq)
<1>1. N \in Nat /\ DOMAIN ring = 1..N
  OBVIOUS
<1>2. PICK c : /\ c[0] = Counted(seq)
               /\ \A m \in 0..(N - 1) : c[m + 1] = Back(n, ring[N - m], c[m])
               /\ last = c[N]
  <2>1. PICK c : BacksUp(c, n, ring, seq)
    BY <1>1, BackRun
  <2>2. QED
    BY <2>1 DEF BacksUp
<1> DEFINE T == {m \in 0..N : Tallied(ring, n, c[m], N - m + 1)}
<1>3. 0 \in T
  <2>1. N - 0 + 1 = N + 1 /\ 0 \in 0..N
    BY <1>1
  <2>2. QED
    BY <1>2, <2>1, TallyBegins
<1>4. ASSUME NEW m \in 0..(N - 1), m \in T PROVE m + 1 \in T
  <2> DEFINE a == N - m
  <2>1. a \in 1..N /\ N - m + 1 = a + 1 /\ N - (m + 1) + 1 = a /\ m + 1 \in 0..N
    BY <1>1
  <2>2. c[m + 1] = Back(n, ring[a], c[m])
    BY <1>2
  <2> HIDE DEF a
  <2>3. Tallied(ring, n, c[m], a + 1)
    BY <1>4, <2>1
  <2>4. Tallied(ring, n, c[m + 1], a)
    BY <2>1, <2>2, <2>3, TallySteps
  <2>5. QED
    BY <2>1, <2>4
<1>5. N \in T
  <2> HIDE DEF T
  <2>1. \A m \in 0..(N - 1) : m \in T => m + 1 \in T
    BY <1>4
  <2>2. \A m \in 0..N : m \in T
    BY <1>1, <1>3, <2>1, Climb
  <2>3. QED
    BY <1>1, <2>2
<1>6. Tallied(ring, n, last, 1)
  <2>1. N - N + 1 = 1
    BY <1>1
  <2> HIDE DEF last
  <2>2. QED
    BY <1>2, <1>5, <2>1
<1> HIDE DEF last, T
<1>7. last \in Counts /\ last.repeats = FailingIn(ring, n)
  BY <1>6, TallyEnds
<1>8. ErrorRepeat(n, seq) = IF last.repeats < Failures THEN NoLoop
                            ELSE [kind |-> last.kind, repeats |-> last.repeats, first |-> last.first, period |-> last.period]
  BY DEF ErrorRepeat, last, LookBack, FoldRight, MapThenFoldSet
<1>9. QED
  BY <1>7, <1>8 DEF Counts

-----------------------------------------------------------------------------
(* What the guard remembers is the history.                                *)

OpenCall == [node : Nodes, inst : Instances, in : Inputs \cup {Undefined}, seq : Nat]

\* An open call is the latest start of its node and instance.
LatestOf(ss, c) ==
    /\ c.seq \in 1..Len(ss)
    /\ ss[c.seq].node = c.node /\ ss[c.seq].inst = c.inst /\ ss[c.seq].in = c.in
    /\ \A l \in (c.seq + 1)..Len(ss) : ss[l].node # c.node \/ ss[l].inst # c.inst

HistoryInv ==
    /\ completed = Len(ends) /\ ring = Newest(ends, HistorySize)
    /\ open \subseteq OpenCall /\ \A c \in open : LatestOf(starts, c)
    /\ \A j \in 1..Len(starts) : starts[j].seen <= Len(ends)

LEMMA HistoryStarts == GuardInit => HistoryInv
<1> SUFFICES ASSUME GuardInit PROVE HistoryInv
  OBVIOUS
<1>1. ends = << >> /\ starts = << >> /\ ring = << >> /\ completed = 0 /\ open = {}
  BY DEF GuardInit
<1>2. HistorySize \in Nat \ {0}
  BY LoopAssumption
<1>3. Newest(ends, HistorySize) = ends
  BY <1>1, <1>2 DEF Newest
<1>4. QED
  BY <1>1, <1>3 DEF HistoryInv

\* Starting appends a start that saw all that has ended.
LEMMA StartAppends ==
    ASSUME TypeInv, NEW n \in Nodes \cup {Undefined}, NEW i \in Instances \cup {Undefined},
           NEW x \in Inputs \cup {Undefined}, Starting(n, i, x)
    PROVE  /\ Len(starts) \in Nat /\ starts' \in Seq(Start) /\ Len(starts') = Len(starts) + 1
           /\ starts'[Len(starts) + 1] = [node |-> n, inst |-> i, in |-> x, seen |-> Len(ends)]
           /\ \A j \in 1..Len(starts) : starts'[j] = starts[j]
<1> DEFINE call == [node |-> n, inst |-> i, in |-> x, seen |-> Len(ends)]
<1>1. call \in Start
  BY DEF TypeInv, Start
<1>2. starts' = Append(starts, call) /\ starts \in Seq(Start)
  BY DEF Starting, TypeInv
<1> HIDE DEF call
<1>3. Len(starts) \in Nat /\ starts' \in Seq(Start) /\ Len(starts') = Len(starts) + 1
      /\ starts'[Len(starts) + 1] = call /\ \A j \in 1..Len(starts) : starts'[j] = starts[j]
  BY <1>1, <1>2, AppendIs
<1>4. QED
  BY <1>3 DEF call

LEMMA SeenKept ==
    ASSUME TypeInv, HistoryInv, NEW n \in Nodes \cup {Undefined}, NEW i \in Instances \cup {Undefined},
           NEW x \in Inputs \cup {Undefined}, Starting(n, i, x), Len(ends') \in Nat, Len(ends) <= Len(ends')
    PROVE  \A j \in 1..Len(starts') : starts'[j].seen <= Len(ends')
<1>1. /\ Len(starts) \in Nat /\ starts' \in Seq(Start) /\ Len(starts') = Len(starts) + 1
      /\ starts'[Len(starts) + 1] = [node |-> n, inst |-> i, in |-> x, seen |-> Len(ends)]
      /\ \A j \in 1..Len(starts) : starts'[j] = starts[j]
  BY StartAppends
<1>2. Len(ends) \in Nat
  BY DEF TypeInv
<1>3. ASSUME NEW j \in 1..Len(starts) PROVE starts'[j].seen <= Len(ends')
  <2>1. starts[j].seen <= Len(ends) /\ starts[j].seen \in Nat
    <3>1. starts[j] \in Start
      BY DEF TypeInv
    <3>2. QED
      BY <3>1 DEF HistoryInv, Start
  <2>2. QED
    BY <1>1, <1>2, <2>1
<1>4. starts'[Len(starts) + 1].seen <= Len(ends')
  BY <1>1
<1>5. \A j \in 1..Len(starts') : j \in 1..Len(starts) \/ j = Len(starts) + 1
  BY <1>1
<1>6. QED
  BY <1>3, <1>4, <1>5

\* A new start leaves the open calls that it does not restart the latest.
LEMMA OpenKept ==
    ASSUME TypeInv, HistoryInv, NEW n \in Nodes \cup {Undefined}, NEW i \in Instances \cup {Undefined},
           NEW x \in Inputs \cup {Undefined}, Starting(n, i, x), NEW c \in open, c.node # n \/ c.inst # i
    PROVE  LatestOf(starts', c)
<1>1. /\ Len(starts) \in Nat /\ Len(starts') = Len(starts) + 1
      /\ starts'[Len(starts) + 1].node = n /\ starts'[Len(starts) + 1].inst = i
      /\ \A j \in 1..Len(starts) : starts'[j] = starts[j]
  <2>1. /\ Len(starts) \in Nat /\ Len(starts') = Len(starts) + 1
        /\ starts'[Len(starts) + 1] = [node |-> n, inst |-> i, in |-> x, seen |-> Len(ends)]
        /\ \A j \in 1..Len(starts) : starts'[j] = starts[j]
    BY StartAppends
  <2>2. QED
    BY <2>1
<1>2. LatestOf(starts, c) /\ c.seq \in Nat
  BY DEF HistoryInv, OpenCall
<1>3. ASSUME NEW l \in (c.seq + 1)..Len(starts') PROVE starts'[l].node # c.node \/ starts'[l].inst # c.inst
  <2>1. CASE l = Len(starts) + 1
    BY <1>1, <2>1
  <2>2. CASE l # Len(starts) + 1
    <3>1. l \in (c.seq + 1)..Len(starts) /\ l \in 1..Len(starts)
      BY <1>1, <1>2, <2>2
    <3>2. QED
      BY <1>1, <1>2, <3>1 DEF LatestOf
  <2>3. QED
    BY <2>1, <2>2
<1>4. c.seq \in 1..Len(starts') /\ starts'[c.seq] = starts[c.seq]
  BY <1>1, <1>2 DEF LatestOf
<1>5. QED
  BY <1>2, <1>3, <1>4 DEF LatestOf

LEMMA OpenedKept ==
    ASSUME TypeInv, HistoryInv, NEW n \in Nodes, NEW i \in Instances, NEW x \in Inputs \cup {Undefined},
           Starting(n, i, x), open' = Opened([node |-> n, inst |-> i, in |-> x, seq |-> Len(starts) + 1])
    PROVE  open' \subseteq OpenCall /\ \A c \in open' : LatestOf(starts', c)
<1> DEFINE call == [node |-> n, inst |-> i, in |-> x, seq |-> Len(starts) + 1]
<1>1. /\ Len(starts) \in Nat /\ Len(starts') = Len(starts) + 1
      /\ starts'[Len(starts) + 1] = [node |-> n, inst |-> i, in |-> x, seen |-> Len(ends)]
  BY StartAppends
<1>2. call \in OpenCall /\ call.seq = Len(starts) + 1 /\ call.node = n /\ call.inst = i /\ call.in = x
  BY <1>1 DEF OpenCall
<1> HIDE DEF call
<1>3. LatestOf(starts', call)
  <2>1. (Len(starts) + 1 + 1)..Len(starts') = {} /\ Len(starts) + 1 \in 1..Len(starts')
    BY <1>1
  <2>2. QED
    BY <1>1, <1>2, <2>1 DEF LatestOf
<1>4. open' \subseteq {c \in open : c.node # n \/ c.inst # i} \cup {call}
  BY <1>2 DEF Opened, call
<1>5. ASSUME NEW c \in open, c.node # n \/ c.inst # i PROVE LatestOf(starts', c)
  BY <1>5, OpenKept
<1>6. open \subseteq OpenCall
  BY DEF HistoryInv
<1>7. QED
  BY <1>2, <1>3, <1>4, <1>5, <1>6

LEMMA EndAppends ==
    ASSUME TypeInv, HistoryInv, NEW e \in Ended, ends' = Append(ends, e), ring' = Push(ring, e),
           completed' = completed + 1
    PROVE  /\ completed' = Len(ends') /\ ring' = Newest(ends', HistorySize)
           /\ Len(ends') \in Nat /\ Len(ends) <= Len(ends')
<1>1. ends \in Seq(Ended) /\ ring = Newest(ends, HistorySize) /\ completed = Len(ends)
  BY DEF TypeInv, HistoryInv
<1>2. Len(ends) \in Nat /\ Len(ends') = Len(ends) + 1
  BY <1>1, AppendIs
<1>3. ring' = Newest(ends', HistorySize)
  BY <1>1, PushIsNewest
<1>4. QED
  BY <1>1, <1>2, <1>3

\* What completes is the open call that the instance names.
LEMMA FinishIs ==
    ASSUME TypeInv, HistoryInv, NEW n \in Nodes, NEW i \in Instances,
           NEW outcome \in {"ok", "fail", Undefined}, NEW out \in Digests \cup {Undefined},
           Finishes(n, i, outcome, out)
    PROVE  /\ \E e \in Ended : ends' = Append(ends, e) /\ ring' = Push(ring, e)
           /\ open' \subseteq open /\ completed' = completed + 1
           /\ UNCHANGED <<streak, quiet, verdict, starts, holds>>
<1>1. PICK c \in open :
         /\ c.node = n /\ c.inst = i
         /\ open' = open \ {c}
         /\ ring' = Push(ring, EntryOf(n, c.in, outcome, out, c.seq))
         /\ completed' = completed + 1
         /\ \E j \in DOMAIN starts :
               /\ starts[j].node = n /\ starts[j].inst = i
               /\ \A l \in (j + 1)..Len(starts) : starts[l].node # n \/ starts[l].inst # i
               /\ ends' = Append(ends, EntryOf(n, starts[j].in, outcome, out, j))
         /\ UNCHANGED <<streak, quiet, verdict, starts, holds>>
  BY DEF Finishes
<1>2. PICK j \in DOMAIN starts :
         /\ starts[j].node = n /\ starts[j].inst = i
         /\ \A l \in (j + 1)..Len(starts) : starts[l].node # n \/ starts[l].inst # i
         /\ ends' = Append(ends, EntryOf(n, starts[j].in, outcome, out, j))
  BY <1>1
<1>3. Len(starts) \in Nat /\ DOMAIN starts = 1..Len(starts) /\ j \in 1..Len(starts) /\ starts[j] \in Start
  BY DEF TypeInv
<1>4. LatestOf(starts, c) /\ c.seq \in 1..Len(starts)
  BY DEF HistoryInv, LatestOf
<1>5. c.seq = j
  <2>1. ~(c.seq < j)
    <3>1. SUFFICES ASSUME c.seq < j PROVE FALSE
      OBVIOUS
    <3>2. j \in (c.seq + 1)..Len(starts)
      BY <1>3, <1>4, <3>1
    <3>3. QED
      BY <1>1, <1>2, <1>4, <3>2 DEF LatestOf
  <2>2. ~(j < c.seq)
    <3>1. SUFFICES ASSUME j < c.seq PROVE FALSE
      OBVIOUS
    <3>2. c.seq \in (j + 1)..Len(starts)
      BY <1>3, <1>4, <3>1
    <3>3. QED
      BY <1>1, <1>2, <1>4, <3>2 DEF LatestOf
  <2>3. QED
    BY <1>3, <1>4, <2>1, <2>2
<1>6. c.in = starts[j].in
  BY <1>4, <1>5 DEF LatestOf
<1> DEFINE e == EntryOf(n, starts[j].in, outcome, out, j)
<1>7. e \in Ended
  <2>1. starts[j].in \in Inputs \cup {Undefined} /\ j \in Nat
    BY <1>3 DEF Start
  <2>2. Unknown(n, j) \in Ended /\ Entry(n, starts[j].in, outcome, out, j) \in Ended
    BY <2>1 DEF Unknown, Entry, Ended
  <2>3. QED
    BY <2>2 DEF EntryOf
<1>8. ends' = Append(ends, e) /\ ring' = Push(ring, e)
  BY <1>1, <1>2, <1>5, <1>6
<1>9. QED
  BY <1>1, <1>7, <1>8

\* Starts and completions are only ever added.
Grows ==
    /\ Len(starts) <= Len(starts') /\ \A j \in 1..Len(starts) : starts'[j] = starts[j]
    /\ Len(ends) <= Len(ends') /\ \A i \in 1..Len(ends) : ends'[i] = ends[i]

LEMMA EndGrows ==
    ASSUME TypeInv, NEW e \in Ended, ends' = Append(ends, e)
    PROVE  Len(ends) <= Len(ends') /\ \A i \in 1..Len(ends) : ends'[i] = ends[i]
<1>1. ends \in Seq(Ended)
  BY DEF TypeInv
<1>2. QED
  BY <1>1, AppendIs

LEMMA StartGrows ==
    ASSUME TypeInv, NEW n \in Nodes \cup {Undefined}, NEW i \in Instances \cup {Undefined},
           NEW x \in Inputs \cup {Undefined}, Starting(n, i, x)
    PROVE  Len(starts) <= Len(starts') /\ \A j \in 1..Len(starts) : starts'[j] = starts[j]
<1>1. Len(starts) \in Nat /\ Len(starts') = Len(starts) + 1 /\ \A j \in 1..Len(starts) : starts'[j] = starts[j]
  BY StartAppends
<1>2. QED
  BY <1>1

LEMMA UnnamedIs ==
    ASSUME TypeInv
    PROVE  Unknown(Undefined, Len(starts) + 1) \in Ended
<1>1. Len(starts) + 1 \in Nat
  BY DEF TypeInv
<1>2. QED
  BY <1>1 DEF Unknown, Entry, Ended

\* The kinds of steps.
LEMMA StepIs ==
    ASSUME TypeInv, HistoryInv, [GuardNext]_guardVars
    PROVE  \/ \E n \in Nodes, i \in Instances, x \in Inputs : Starts(n, i, x)
           \/ \E n \in Nodes, i \in Instances : StartsUnread(n, i)
           \/ StartsUnnamed
           \/ /\ \E e \in Ended : ends' = Append(ends, e) /\ ring' = Push(ring, e)
              /\ open' \subseteq open /\ completed' = completed + 1
              /\ UNCHANGED <<streak, quiet, verdict, starts, holds>>
           \/ \E n \in Nodes : Gate(n)
           \/ UNCHANGED guardVars
<1>1. ASSUME NEW n \in Nodes, NEW i \in Instances, NEW outcome \in {"ok", "fail"}, NEW out \in Digests,
             Finishes(n, i, outcome, out)
      PROVE  /\ \E e \in Ended : ends' = Append(ends, e) /\ ring' = Push(ring, e)
             /\ open' \subseteq open /\ completed' = completed + 1
             /\ UNCHANGED <<streak, quiet, verdict, starts, holds>>
  BY <1>1, FinishIs
<1>2. ASSUME NEW n \in Nodes, NEW i \in Instances, Finishes(n, i, Undefined, Undefined)
      PROVE  /\ \E e \in Ended : ends' = Append(ends, e) /\ ring' = Push(ring, e)
             /\ open' \subseteq open /\ completed' = completed + 1
             /\ UNCHANGED <<streak, quiet, verdict, starts, holds>>
  BY <1>2, FinishIs
<1>3. QED
  BY <1>1, <1>2 DEF GuardNext

LEMMA HistoryStep ==
    ASSUME TypeInv, HistoryInv, [GuardNext]_guardVars
    PROVE  HistoryInv' /\ Grows
<1>1. Len(ends) \in Nat /\ Len(starts) \in Nat
  BY DEF TypeInv
<1>2. ASSUME NEW n \in Nodes, NEW i \in Instances, NEW x \in Inputs, Starts(n, i, x) PROVE HistoryInv' /\ Grows
  <2>1. Starting(n, i, x) /\ UNCHANGED <<ring, completed, ends>>
        /\ open' = Opened([node |-> n, inst |-> i, in |-> x, seq |-> Len(starts) + 1])
    BY <1>2 DEF Starts
  <2>2. open' \subseteq OpenCall /\ \A c \in open' : LatestOf(starts', c)
    BY <2>1, OpenedKept
  <2>3. \A j \in 1..Len(starts') : starts'[j].seen <= Len(ends')
    BY <1>1, <2>1, SeenKept
  <2>4. Len(starts) <= Len(starts') /\ \A j \in 1..Len(starts) : starts'[j] = starts[j]
    BY <2>1, StartGrows
  <2>5. QED
    BY <1>1, <2>1, <2>2, <2>3, <2>4 DEF HistoryInv, Grows
<1>3. ASSUME NEW n \in Nodes, NEW i \in Instances, StartsUnread(n, i) PROVE HistoryInv' /\ Grows
  <2>1. Starting(n, i, Undefined) /\ UNCHANGED <<ring, completed, ends>>
        /\ open' = Opened([node |-> n, inst |-> i, in |-> Undefined, seq |-> Len(starts) + 1])
    BY <1>3 DEF StartsUnread
  <2>2. open' \subseteq OpenCall /\ \A c \in open' : LatestOf(starts', c)
    BY <2>1, OpenedKept
  <2>3. \A j \in 1..Len(starts') : starts'[j].seen <= Len(ends')
    BY <1>1, <2>1, SeenKept
  <2>4. Len(starts) <= Len(starts') /\ \A j \in 1..Len(starts) : starts'[j] = starts[j]
    BY <2>1, StartGrows
  <2>5. QED
    BY <1>1, <2>1, <2>2, <2>3, <2>4 DEF HistoryInv, Grows
<1>4. CASE StartsUnnamed
  <2> DEFINE e == Unknown(Undefined, Len(starts) + 1)
  <2>1. /\ Starting(Undefined, Undefined, Undefined) /\ ends' = Append(ends, e) /\ ring' = Push(ring, e)
        /\ completed' = completed + 1 /\ open' = open
    BY <1>4 DEF StartsUnnamed
  <2>2. e \in Ended
    BY UnnamedIs
  <2> HIDE DEF e
  <2>3. /\ completed' = Len(ends') /\ ring' = Newest(ends', HistorySize)
        /\ Len(ends') \in Nat /\ Len(ends) <= Len(ends')
    BY <2>1, <2>2, EndAppends
  <2>4. \A j \in 1..Len(starts') : starts'[j].seen <= Len(ends')
    BY <2>1, <2>3, SeenKept
  <2>5. ASSUME NEW c \in open PROVE LatestOf(starts', c)
    <3>1. c.node # Undefined
      BY LoopAssumption DEF HistoryInv, OpenCall
    <3>2. QED
      BY <2>1, <3>1, OpenKept
  <2>6. Len(starts) <= Len(starts') /\ \A j \in 1..Len(starts) : starts'[j] = starts[j]
    BY <2>1, StartGrows
  <2>7. Len(ends) <= Len(ends') /\ \A i \in 1..Len(ends) : ends'[i] = ends[i]
    BY <2>1, <2>2, EndGrows
  <2>8. QED
    BY <2>1, <2>3, <2>4, <2>5, <2>6, <2>7 DEF HistoryInv, Grows
<1>5. ASSUME NEW e \in Ended, ends' = Append(ends, e), ring' = Push(ring, e),
             open' \subseteq open, completed' = completed + 1, starts' = starts
      PROVE  HistoryInv' /\ Grows
  <2>1. /\ completed' = Len(ends') /\ ring' = Newest(ends', HistorySize)
        /\ Len(ends') \in Nat /\ Len(ends) <= Len(ends')
    BY <1>5, EndAppends
  <2>2. ASSUME NEW j \in 1..Len(starts) PROVE starts[j].seen <= Len(ends')
    <3>1. starts[j].seen <= Len(ends) /\ starts[j] \in Start
      BY DEF HistoryInv, TypeInv
    <3>2. QED
      BY <1>1, <2>1, <3>1 DEF Start
  <2>3. Len(ends) <= Len(ends') /\ \A i \in 1..Len(ends) : ends'[i] = ends[i]
    BY <1>5, EndGrows
  <2>4. QED
    BY <1>1, <1>5, <2>1, <2>2, <2>3 DEF HistoryInv, Grows
<1>6. ASSUME UNCHANGED <<ring, completed, open, starts, ends>> PROVE HistoryInv' /\ Grows
  BY <1>1, <1>6 DEF HistoryInv, Grows
<1>7. ASSUME NEW n \in Nodes, Gate(n) PROVE HistoryInv' /\ Grows
  BY <1>6, <1>7 DEF Gate
<1>8. CASE UNCHANGED guardVars
  BY <1>6, <1>8 DEF guardVars, guard
<1>9. QED
  BY <1>2, <1>3, <1>4, <1>5, <1>7, <1>8, StepIs

LEMMA PrefixKept ==
    ASSUME NEW S, NEW s \in Seq(S), NEW t \in Seq(S), NEW m \in 0..Len(s),
           Len(s) <= Len(t), \A i \in 1..Len(s) : t[i] = s[i]
    PROVE  SubSeq(t, 1, m) = SubSeq(s, 1, m)
<1>1. SubSeq(t, 1, m) = [i \in 1..m |-> t[i]] /\ SubSeq(s, 1, m) = [i \in 1..m |-> s[i]]
  OBVIOUS
<1>2. \A i \in 1..m : t[i] = s[i]
  OBVIOUS
<1>3. QED
  BY <1>1, <1>2

\* What was found of the starts there were is found for ever.
LEMMA FoundKept ==
    ASSUME TypeInv, TypeInv', HistoryInv, Grows
    PROVE  \A j \in 1..Len(starts) : WindowOf(starts', ends', j) = WindowOf(starts, ends, j) /\ Found'[j] = Found[j]
<1>1. Len(starts) \in Nat /\ Len(starts') \in Nat /\ ends \in Seq(Ended) /\ ends' \in Seq(Ended)
  BY DEF TypeInv
<1>2. ASSUME NEW j \in 1..Len(starts)
      PROVE  starts[j] = starts'[j] /\ WindowOf(starts, ends, j) = WindowOf(starts', ends', j)
  <2>1. starts[j] = starts'[j]
    BY DEF Grows
  <2>2. starts[j].seen \in 0..Len(ends)
    <3>1. starts[j] \in Start /\ starts[j].seen <= Len(ends)
      BY DEF TypeInv, HistoryInv
    <3>2. QED
      BY <1>1, <3>1 DEF Start
  <2>3. SubSeq(ends', 1, starts[j].seen) = SubSeq(ends, 1, starts[j].seen)
    BY <1>1, <2>2, PrefixKept DEF Grows
  <2>4. QED
    BY <2>1, <2>3 DEF WindowOf
<1>3. Len(starts) <= Len(starts')
  BY DEF Grows
<1>4. FoundIn(Found, Len(starts), starts, ends) /\ FoundIn(Found', Len(starts'), starts', ends')
  BY <1>1, FoundIs, FoundIsNext
<1>5. \A j \in 0..Len(starts) : Found[j] = Found'[j]
  BY <1>1, <1>2, <1>3, <1>4, FoundStays
<1>6. QED
  BY <1>1, <1>2, <1>5

-----------------------------------------------------------------------------
(* The counter that keeps a cycle quiet for a lap is what Found asks of    *)
(* every cycle found before.                                               *)

\* Whether a cycle may be found when m calls have completed.
LapsOver(f, ss, m) == \A i \in 1..Len(ss) : f[i] # 0 => m >= ss[i].seen + f[i]
QuietInv == quiet \in Nat /\ \A m \in Nat : m >= quiet <=> LapsOver(Found, starts, m)

LEMMA QuietStarts == GuardInit => QuietInv
<1> SUFFICES ASSUME GuardInit PROVE QuietInv
  OBVIOUS
<1>1. starts = << >> /\ quiet = 0
  BY DEF GuardInit
<1>2. \A m \in Nat : LapsOver(Found, starts, m)
  BY <1>1 DEF LapsOver
<1>3. QED
  BY <1>1, <1>2 DEF QuietInv

\* With the same starts the same is found.
LEMMA LapsOverKept ==
    ASSUME TypeInv, TypeInv', HistoryInv, Grows, starts' = starts
    PROVE  \A m \in Nat : LapsOver(Found', starts', m) <=> LapsOver(Found, starts, m)
<1>1. \A j \in 1..Len(starts) : Found'[j] = Found[j]
  BY FoundKept
<1>2. QED
  BY <1>1 DEF LapsOver

\* One more start asks for one thing more.
LEMMA LapsOverGrows ==
    ASSUME TypeInv, TypeInv', HistoryInv, Grows, Len(starts') = Len(starts) + 1, NEW m \in Nat
    PROVE  LapsOver(Found', starts', m) <=>
             /\ LapsOver(Found, starts, m)
             /\ Found'[Len(starts) + 1] # 0 => m >= starts'[Len(starts) + 1].seen + Found'[Len(starts) + 1]
<1>1. \A j \in 1..Len(starts) : Found'[j] = Found[j] /\ starts'[j] = starts[j]
  BY FoundKept DEF Grows
<1>2. Len(starts) \in Nat
  BY DEF TypeInv
<1>3. \A j : j \in 1..Len(starts') <=> j \in 1..Len(starts) \/ j = Len(starts) + 1
  BY <1>2
<1>4. QED
  BY <1>1, <1>3 DEF LapsOver

LEMMA NothingFound ==
    ASSUME TypeInv', starts' # << >>, starts'[Len(starts')].in = Undefined
    PROVE  Found'[Len(starts')] = 0
<1>1. Len(starts') \in Nat /\ Len(starts') \in 0..Len(starts')
  BY DEF TypeInv
<1>2. FoundIn(Found', Len(starts'), starts', ends')
  BY <1>1, FoundIsNext
<1>3. QED
  BY <1>1, <1>2, FoundTyped

\* What the guard detects as a call starts is what there is to find.
LEMMA FoundNow ==
    ASSUME TypeInv, TypeInv', HistoryInv, QuietInv, Grows,
           NEW n \in Nodes, NEW i \in Instances, NEW x \in Inputs, Starts(n, i, x)
    PROVE  /\ Len(starts) \in Nat /\ Len(starts') = Len(starts) + 1
           /\ starts'[Len(starts) + 1] = [node |-> n, inst |-> i, in |-> x, seen |-> completed]
           /\ WindowOf(starts', ends', Len(starts) + 1) = ring
           /\ Found'[Len(starts) + 1] = IF Periods(n, x) = {} THEN 0 ELSE Smallest(Periods(n, x))
<1> DEFINE N == Len(starts)
<1>1. /\ N \in Nat /\ starts' \in Seq(Start) /\ Len(starts') = N + 1
      /\ starts'[N + 1] = [node |-> n, inst |-> i, in |-> x, seen |-> Len(ends)]
  <2>1. Starting(n, i, x)
    BY DEF Starts
  <2>2. QED
    BY <2>1, StartAppends
<1>2. ends' = ends /\ ends \in Seq(Ended) /\ completed = Len(ends) /\ ring = Newest(ends, HistorySize)
      /\ completed \in Nat /\ x # Undefined
  BY LoopAssumption DEF Starts, TypeInv, HistoryInv
<1>3. WindowOf(starts', ends', N + 1) = ring
  <2>1. SubSeq(ends, 1, Len(ends)) = ends
    BY <1>2
  <2>2. starts'[N + 1].seen = Len(ends)
    BY <1>1
  <2>3. QED
    BY <1>2, <2>1, <2>2 DEF WindowOf
<1>4. ring \in Seq(Ended)
  <2>1. HistorySize \in Nat \ {0}
    BY LoopAssumption
  <2>2. QED
    BY <1>2, <2>1, NewestIs
<1>5. \A j \in 1..N : Found'[j] = Found[j] /\ starts'[j] = starts[j]
  BY FoundKept DEF Grows
<1>6. (\A j \in 1..N : Found'[j] # 0 => completed >= starts'[j].seen + Found'[j]) <=> completed >= quiet
  <2>1. completed >= quiet <=> LapsOver(Found, starts, completed)
    BY <1>2 DEF QuietInv
  <2>2. QED
    BY <1>5, <2>1 DEF LapsOver
<1>7. PeriodsAt(Found', starts', ends', N + 1) = Periods(n, x)
  <2>1. \A k \in MinPeriod..MaxPeriod : Cycles(n, x, k) <=> RoundOf(ring, n, x, k)
    BY <1>4, CyclesAreRounds
  <2>2. N + 1 # 0 /\ (N + 1) - 1 = N
    BY <1>1
  <2>3. starts'[N + 1].node = n /\ starts'[N + 1].in = x /\ starts'[N + 1].seen = completed
    BY <1>1, <1>2
  <2>4. PeriodsAt(Found', starts', ends', N + 1) =
          {k \in MinPeriod..MaxPeriod : RoundOf(ring, n, x, k) /\ completed >= quiet}
    BY <1>2, <1>3, <1>6, <2>2, <2>3 DEF PeriodsAt
  <2>5. QED
    BY <2>1, <2>4 DEF Periods
<1>8. Found'[N + 1] = PeriodAt(Found', starts', ends', N + 1)
  <2>1. FoundIn(Found', N + 1, starts', ends')
    BY <1>1, FoundIsNext
  <2>2. N + 1 \in 0..(N + 1) /\ N + 1 \in Nat
    BY <1>1
  <2>3. QED
    BY <2>1, <2>2, FoundTyped
<1>9. QED
  BY <1>1, <1>2, <1>3, <1>7, <1>8 DEF PeriodAt

LEMMA PeriodsTyped ==
    ASSUME NEW n, NEW x, Periods(n, x) # {}
    PROVE  /\ Smallest(Periods(n, x)) \in Periods(n, x) /\ Smallest(Periods(n, x)) \in Nat \ {0}
           /\ Smallest(Periods(n, x)) \in MinPeriod..MaxPeriod /\ completed >= quiet
           /\ Cycles(n, x, Smallest(Periods(n, x)))
<1>1. Periods(n, x) \subseteq MinPeriod..MaxPeriod /\ MinPeriod..MaxPeriod \subseteq Nat \ {0}
  BY LoopAssumption DEF Periods
<1>2. Smallest(Periods(n, x)) \in Periods(n, x)
  BY <1>1, SmallestIs
<1>3. QED
  BY <1>1, <1>2 DEF Periods

LEMMA QuietStep ==
    ASSUME TypeInv, TypeInv', HistoryInv, QuietInv, Grows, [GuardNext]_guardVars
    PROVE  QuietInv'
<1>1. quiet \in Nat /\ Len(starts) \in Nat /\ completed \in Nat
  BY DEF QuietInv, TypeInv, HistoryInv
<1>2. ASSUME NEW n \in Nodes, NEW i \in Instances, NEW x \in Inputs, Starts(n, i, x) PROVE QuietInv'
  <2> DEFINE new == Len(starts) + 1
             K == Periods(n, x)
             k == Smallest(K)
  <2>1. /\ Len(starts') = new /\ starts'[new].seen = completed
        /\ Found'[new] = IF K = {} THEN 0 ELSE k
    <3>1. /\ Len(starts') = new
          /\ starts'[new] = [node |-> n, inst |-> i, in |-> x, seen |-> completed]
          /\ Found'[new] = IF K = {} THEN 0 ELSE k
      BY <1>2, FoundNow
    <3>2. QED
      BY <3>1
  <2>2. quiet' = IF K = {} THEN quiet ELSE completed + k
    BY <1>2 DEF Starts, Quiet
  <2>3. K # {} => k \in Nat \ {0} /\ completed >= quiet
    BY PeriodsTyped
  <2>4. \A m \in Nat : LapsOver(Found', starts', m) <=>
           LapsOver(Found, starts, m) /\ (Found'[new] # 0 => m >= starts'[new].seen + Found'[new])
    BY <2>1, LapsOverGrows
  <2> HIDE DEF k, K, new
  <2>5. quiet' \in Nat
    BY <1>1, <2>2, <2>3
  <2>6. \A m \in Nat : m >= quiet <=> LapsOver(Found, starts, m)
    BY DEF QuietInv
  <2>7. ASSUME NEW m \in Nat PROVE m >= quiet' <=> LapsOver(Found', starts', m)
    <3>1. CASE K = {}
      BY <2>1, <2>2, <2>4, <2>6, <3>1
    <3>2. CASE K # {}
      BY <1>1, <2>1, <2>2, <2>3, <2>4, <2>6, <3>2
    <3>3. QED
      BY <3>1, <3>2
  <2>8. QED
    BY <2>5, <2>7 DEF QuietInv
<1>3. ASSUME starts' # << >>, Len(starts') = Len(starts) + 1, starts'[Len(starts')].in = Undefined, quiet' = quiet
      PROVE  QuietInv'
  <2>1. Found'[Len(starts) + 1] = 0
    BY <1>3, NothingFound
  <2>2. \A m \in Nat : LapsOver(Found', starts', m) <=> LapsOver(Found, starts, m)
    BY <1>3, <2>1, LapsOverGrows
  <2>3. QED
    BY <1>3, <2>2 DEF QuietInv
<1>4. ASSUME NEW n \in Nodes \cup {Undefined}, NEW i \in Instances \cup {Undefined},
             Starting(n, i, Undefined), quiet' = quiet
      PROVE  QuietInv'
  <2>1. Len(starts') = Len(starts) + 1 /\ starts'[Len(starts) + 1].in = Undefined /\ starts' \in Seq(Start)
    BY <1>4, StartTyped
  <2>2. starts' # << >>
    BY <1>1, <2>1
  <2>3. QED
    BY <1>3, <1>4, <2>1, <2>2
<1>5. ASSUME NEW n \in Nodes, NEW i \in Instances, StartsUnread(n, i) PROVE QuietInv'
  BY <1>4, <1>5 DEF StartsUnread
<1>6. CASE StartsUnnamed
  BY <1>4, <1>6 DEF StartsUnnamed
<1>7. ASSUME starts' = starts, quiet' = quiet PROVE QuietInv'
  <2>1. \A m \in Nat : LapsOver(Found', starts', m) <=> LapsOver(Found, starts, m)
    BY <1>7, LapsOverKept
  <2>2. QED
    BY <1>7, <2>1 DEF QuietInv
<1>8. ASSUME NEW n \in Nodes, Gate(n) PROVE QuietInv'
  BY <1>7, <1>8 DEF Gate
<1>9. CASE UNCHANGED guardVars
  BY <1>7, <1>9 DEF guardVars, guard
<1>10. QED
  BY <1>2, <1>5, <1>6, <1>7, <1>8, <1>9, StepIs

-----------------------------------------------------------------------------
(* The verdict says what the history had, when the latest call started.    *)

CycleOf(h, k) ==
    LET m == Greatest({l \in 1..HistorySize : Periodic(h, k, l)})
    IN  [kind |-> "cycle", period |-> k, repeats |-> m, first |-> h[Len(h) - m * k + 1].seq]
Loops(h, n, x, k) == k # 0 \/ (x # Undefined /\ FailingIn(h, n) >= Failures)
Says(v, h, n, x, k) ==
    IF ~Loops(h, n, x, k) THEN v = NoVerdict
    ELSE /\ v.node = n
         /\ IF k # 0 THEN v.info = CycleOf(h, k)
            ELSE v.info.kind = "error-repeat" /\ v.info.repeats = FailingIn(h, n)
IsVerdict(v) == v.tripped \in BOOLEAN /\ v = [node |-> v.node, info |-> v.info, tripped |-> v.tripped]

VerdictInv ==
    /\ IsVerdict(verdict)
    /\ IF starts = << >> THEN verdict = NoVerdict
       ELSE Says(verdict, WindowOf(starts, ends, Len(starts)), starts[Len(starts)].node,
                 starts[Len(starts)].in, Found[Len(starts)])

LEMMA NoVerdictIs == IsVerdict(NoVerdict) /\ NoVerdict.tripped = FALSE /\ NoVerdict.node = Undefined
BY DEF IsVerdict, NoVerdict

LEMMA VerdictStarts == GuardInit => VerdictInv
BY NoVerdictIs DEF GuardInit, VerdictInv

LEMMA RingTyped ==
    ASSUME TypeInv, HistoryInv
    PROVE  ring \in Seq(Ended) /\ Len(ring) \in Nat /\ Len(ring) <= HistorySize
<1>1. HistorySize \in Nat \ {0} /\ ends \in Seq(Ended) /\ ring = Newest(ends, HistorySize) /\ Len(ends) \in Nat
  BY LoopAssumption DEF TypeInv, HistoryInv
<1>2. ring \in Seq(Ended) /\ Len(ring) = IF Len(ends) <= HistorySize THEN Len(ends) ELSE HistorySize
  BY <1>1, NewestIs
<1>3. QED
  BY <1>1, <1>2

LEMMA CycleIs ==
    ASSUME TypeInv, HistoryInv, NEW n, NEW x, Periods(n, x) # {}
    PROVE  LET k == Smallest(Periods(n, x)) IN Cycle(k) = CycleOf(ring, k) /\ Cycle(k) # NoLoop
<1> DEFINE k == Smallest(Periods(n, x))
<1>1. k \in MinPeriod..MaxPeriod /\ Cycles(n, x, k)
  BY PeriodsTyped
<1> HIDE DEF k
<1>2. ring \in Seq(Ended) /\ Len(ring) <= HistorySize
  BY RingTyped
<1>3. RoundOf(ring, n, x, k) /\ Lap(ring, k, 1)
  BY <1>1, <1>2, CyclesAreRounds
<1>4. Periodic(ring, k, Laps)
  BY <1>3 DEF RoundOf
<1>5. LapsBack(k) = Greatest({m \in 1..HistorySize : Periodic(ring, k, m)}) /\ LapsBack(k) \in Nat \ {0}
  BY <1>1, <1>2, <1>3, <1>4, LapsBackIs
<1>6. Cycle(k) = CycleOf(ring, k)
  BY <1>5 DEF Cycle, CycleOf
<1>7. Cycle(k).repeats # 0 /\ NoLoop.repeats = 0
  BY <1>5 DEF Cycle, NoLoop
<1>8. QED
  BY <1>6, <1>7 DEF k

\* The verdict of a start.
LEMMA DetectedIs ==
    ASSUME TypeInv, HistoryInv, NEW n \in Nodes, NEW x \in Inputs, NEW seq \in Nat, NEW k,
           k = IF Periods(n, x) = {} THEN 0 ELSE Smallest(Periods(n, x))
    PROVE  LET loop == Detected(n, x, seq)
               v == IF loop = NoLoop THEN NoVerdict ELSE [node |-> n, info |-> loop, tripped |-> FALSE]
           IN  IsVerdict(v) /\ Says(v, ring, n, x, k) /\ ~v.tripped
<1> DEFINE loop == Detected(n, x, seq)
           v == IF loop = NoLoop THEN NoVerdict ELSE [node |-> n, info |-> loop, tripped |-> FALSE]
<1>1. ring \in Seq(Ended) /\ x # Undefined /\ Failures \in Nat \ {0}
  BY RingTyped, LoopAssumption
<1> HIDE DEF loop
<1>2. IsVerdict(v) /\ ~v.tripped
  BY NoVerdictIs DEF IsVerdict
<1>3. CASE Periods(n, x) # {}
  <2>1. k # 0 /\ k = Smallest(Periods(n, x))
    BY <1>3, PeriodsTyped
  <2>2. loop = CycleOf(ring, k) /\ loop # NoLoop
    BY <1>3, <2>1, CycleIs DEF loop, Detected
  <2>3. v.node = n /\ v.info = CycleOf(ring, k)
    BY <2>2
  <2> HIDE DEF v
  <2>4. Says(v, ring, n, x, k)
    BY <2>1, <2>3 DEF Says, Loops
  <2>5. QED
    BY <1>2, <2>4 DEF v, loop
<1>4. CASE Periods(n, x) = {}
  <2>1. k = 0 /\ loop = ErrorRepeat(n, seq)
    BY <1>4 DEF loop, Detected
  <2>2. /\ FailingIn(ring, n) \in Nat
        /\ FailingIn(ring, n) < Failures => loop = NoLoop
        /\ ~(FailingIn(ring, n) < Failures) => loop.kind = "error-repeat" /\ loop.repeats = FailingIn(ring, n)
    BY <1>1, <2>1, ErrorRepeatIs
  <2>3. CASE FailingIn(ring, n) < Failures
    <3>1. v = NoVerdict /\ ~Loops(ring, n, x, k)
      BY <1>1, <2>1, <2>2, <2>3 DEF Loops
    <3>2. Says(v, ring, n, x, k)
      BY <3>1 DEF Says
    <3>3. QED
      BY <1>2, <3>2 DEF v, loop
  <2>4. CASE ~(FailingIn(ring, n) < Failures)
    <3>1. loop.repeats # 0 /\ NoLoop.repeats = 0
      BY <1>1, <2>2, <2>4 DEF NoLoop
    <3>2. v.node = n /\ v.info = loop
      BY <3>1
    <3>3. Loops(ring, n, x, k)
      BY <1>1, <2>1, <2>2, <2>4 DEF Loops
    <3> HIDE DEF v
    <3>4. Says(v, ring, n, x, k)
      BY <2>1, <2>2, <2>4, <3>2, <3>3 DEF Says
    <3>5. QED
      BY <1>2, <3>4 DEF v, loop
  <2>5. QED
    BY <2>3, <2>4
<1>5. QED
  BY <1>3, <1>4

LEMMA LoopVerdictStep ==
    ASSUME TypeInv, TypeInv', HistoryInv, QuietInv, VerdictInv, Grows, [GuardNext]_guardVars
    PROVE  VerdictInv'
<1>1. Len(starts) \in Nat
  BY DEF TypeInv
<1>2. ASSUME NEW n \in Nodes, NEW i \in Instances, NEW x \in Inputs, Starts(n, i, x) PROVE VerdictInv'
  <2> DEFINE new == Len(starts) + 1
             k == IF Periods(n, x) = {} THEN 0 ELSE Smallest(Periods(n, x))
  <2>1. /\ Len(starts') = new
        /\ starts'[new] = [node |-> n, inst |-> i, in |-> x, seen |-> completed]
        /\ WindowOf(starts', ends', new) = ring /\ Found'[new] = k
    BY <1>2, FoundNow
  <2>2. starts'[new].node = n /\ starts'[new].in = x /\ starts' # << >>
    BY <1>1, <2>1 DEF TypeInv
  <2>3. verdict' = IF Detected(n, x, new) = NoLoop THEN NoVerdict
                   ELSE [node |-> n, info |-> Detected(n, x, new), tripped |-> FALSE]
    BY <1>2 DEF Starts
  <2>4. new \in Nat
    BY <1>1
  <2> HIDE DEF k, new
  <2>5. IsVerdict(verdict') /\ Says(verdict', ring, n, x, k)
    BY <2>3, <2>4, DetectedIs DEF k
  <2>6. QED
    BY <2>1, <2>2, <2>5 DEF VerdictInv
<1>3. ASSUME NEW n \in Nodes \cup {Undefined}, NEW i \in Instances \cup {Undefined},
             Starting(n, i, Undefined), verdict' = NoVerdict
      PROVE  VerdictInv'
  <2>1. Len(starts') = Len(starts) + 1 /\ starts'[Len(starts')].in = Undefined /\ starts' \in Seq(Start)
    <3>1. Len(starts') = Len(starts) + 1 /\ starts'[Len(starts) + 1].in = Undefined /\ starts' \in Seq(Start)
      BY <1>3, StartTyped
    <3>2. QED
      BY <3>1
  <2>2. starts' # << >>
    BY <1>1, <2>1
  <2>3. Found'[Len(starts')] = 0
    BY <2>1, <2>2, NothingFound
  <2>4. QED
    BY <1>3, <2>1, <2>2, <2>3, NoVerdictIs DEF VerdictInv, Says, Loops
<1>4. ASSUME NEW n \in Nodes, NEW i \in Instances, StartsUnread(n, i) PROVE VerdictInv'
  BY <1>3, <1>4 DEF StartsUnread
<1>5. CASE StartsUnnamed
  BY <1>3, <1>5 DEF StartsUnnamed
<1>6. ASSUME starts' = starts, starts # << >>
      PROVE  /\ WindowOf(starts', ends', Len(starts')) = WindowOf(starts, ends, Len(starts))
             /\ Found'[Len(starts')] = Found[Len(starts)]
  <2>1. Len(starts) \in 1..Len(starts)
    BY <1>1, <1>6 DEF TypeInv
  <2>2. QED
    BY <1>6, <2>1, FoundKept
<1>7. ASSUME starts' = starts, verdict' = verdict PROVE VerdictInv'
  BY <1>6, <1>7 DEF VerdictInv
<1>8. ASSUME starts' = starts, verdict.node \in Nodes, verdict' = [verdict EXCEPT !.tripped = TRUE] PROVE VerdictInv'
  <2>1. verdict # NoVerdict
    BY <1>8, LoopAssumption, NoVerdictIs
  <2>2. starts # << >> /\ IsVerdict(verdict)
    BY <2>1 DEF VerdictInv
  <2>3. verdict' = [node |-> verdict.node, info |-> verdict.info, tripped |-> TRUE]
    BY <1>8, <2>2 DEF IsVerdict
  <2>4. verdict'.node = verdict.node /\ verdict'.info = verdict.info /\ IsVerdict(verdict')
    BY <2>3 DEF IsVerdict
  <2>5. QED
    BY <1>6, <1>8, <2>1, <2>2, <2>4 DEF VerdictInv, Says
<1>9. ASSUME NEW n \in Nodes, Gate(n) PROVE VerdictInv'
  BY <1>7, <1>8, <1>9 DEF Gate, Spent, Tripped
<1>10. CASE UNCHANGED guardVars
  BY <1>7, <1>10 DEF guardVars, guard
<1>11. QED
  BY <1>2, <1>4, <1>5, <1>7, <1>9, <1>10, StepIs

\* LoopAt and Failing are what the verdict says.
LEMMA LoopAtIs ==
    ASSUME NEW j
    PROVE  /\ Failing(j) = FailingIn(WindowOf(starts, ends, j), starts[j].node)
           /\ LoopAt(j) <=> Loops(WindowOf(starts, ends, j), starts[j].node, starts[j].in, Found[j])
<1>1. Window(j) = WindowOf(starts, ends, j)
  BY DEF Window, WindowOf
<1>2. Failing(j) = FailingIn(WindowOf(starts, ends, j), starts[j].node)
  BY <1>1 DEF Failing, OwnFailures, FailingIn, FailuresIn, SinceIn, OwnIn, GoodIn
<1>3. QED
  BY <1>2 DEF LoopAt, Loops

LEMMA VerdictInvIsTrue == TypeInv /\ VerdictInv => VerdictIsTrue
<1> SUFFICES ASSUME TypeInv, VerdictInv PROVE VerdictIsTrue
  OBVIOUS
<1> DEFINE j == Len(starts)
           h == WindowOf(starts, ends, j)
<1>1. j = 0 <=> starts = << >>
  BY DEF TypeInv
<1>2. Window(j) = h
  BY DEF Window, WindowOf
<1>3. CASE j = 0
  BY <1>1, <1>3 DEF VerdictIsTrue, VerdictInv
<1>4. CASE j # 0
  <2>1. Says(verdict, h, starts[j].node, starts[j].in, Found[j])
    BY <1>1, <1>4 DEF VerdictInv
  <2>2. LoopAt(j) <=> Loops(h, starts[j].node, starts[j].in, Found[j])
    BY LoopAtIs
  <2>3. Failing(j) = FailingIn(h, starts[j].node)
    BY LoopAtIs
  <2> HIDE DEF h
  <2>4. CASE ~LoopAt(j)
    BY <2>1, <2>2, <2>4 DEF VerdictIsTrue, Says
  <2>5. CASE LoopAt(j)
    BY <1>2, <1>4, <2>1, <2>2, <2>3, <2>5 DEF VerdictIsTrue, Says, CycleOf
  <2>6. QED
    BY <2>4, <2>5
<1>5. QED
  BY <1>3, <1>4

-----------------------------------------------------------------------------
(* The two rules are consulted together and spent together.                *)

HoldsInv ==
    /\ holds \in Nat
    /\ holds = 0 => ~streak.tripped /\ ~verdict.tripped
    /\ holds # 0 => \A n \in Nodes : ~Repeats(n) /\ ~Tripped(n)

LEMMA HoldsStarts == GuardInit => HoldsInv
BY DEF GuardInit, HoldsInv, NoStreak, NoVerdict

\* The streak and the verdict are about the latest call, or about none.
LEMMA AboutLatest ==
    ASSUME StreakInv, VerdictInv, NEW n \in Nodes, NEW m \in Nodes, streak.node = n, verdict.node = m
    PROVE  n = m
<1>1. streak # NoStreak /\ verdict # NoVerdict
  BY LoopAssumption DEF NoStreak, NoVerdict
<1>2. starts # << >> /\ streak.node = starts[Len(starts)].node
  BY <1>1 DEF StreakInv
<1>3. verdict.node = starts[Len(starts)].node
  BY <1>1, <1>2 DEF VerdictInv, Says
<1>4. QED
  BY <1>2, <1>3

LEMMA GateSpends ==
    ASSUME TypeInv, StreakInv, VerdictInv, HoldsInv, NEW n \in Nodes, Gate(n)
    PROVE  HoldsInv'
<1>1. holds' = holds + 1 /\ holds \in Nat
  BY DEF Gate, HoldsInv
<1>2. holds' \in Nat /\ holds' # 0
  BY <1>1
<1>3. IsVerdict(verdict) /\ streak \in Streak
  BY DEF VerdictInv, TypeInv
<1>4. ([verdict EXCEPT !.tripped = TRUE]).tripped = TRUE /\ ([verdict EXCEPT !.tripped = TRUE]).node = verdict.node
  BY <1>3 DEF IsVerdict
<1>5. ([streak EXCEPT !.tripped = TRUE]).tripped = TRUE
  BY <1>3 DEF Streak
<1>6. CASE Repeats(n) /\ streak' = [streak EXCEPT !.tripped = TRUE] /\ verdict' = Spent(n)
  <2>1. streak.node = n /\ streak'.tripped
    BY <1>5, <1>6 DEF Repeats
  <2>2. ASSUME NEW m \in Nodes, verdict'.node = m PROVE verdict'.tripped
    <3>1. verdict.node = m
      BY <1>4, <1>6, <2>2 DEF Spent
    <3>2. m = n
      BY <2>1, <3>1, AboutLatest
    <3>3. QED
      BY <1>4, <1>6, <3>1, <3>2 DEF Spent
  <2>3. QED
    BY <1>2, <2>1, <2>2 DEF HoldsInv, Repeats, Tripped
<1>7. CASE ~Repeats(n) /\ Tripped(n) /\ verdict' = [verdict EXCEPT !.tripped = TRUE] /\ UNCHANGED streak
  <2>1. verdict.node = n /\ verdict'.tripped
    BY <1>4, <1>7 DEF Tripped
  <2>2. ASSUME NEW m \in Nodes PROVE ~Repeats(m)'
    <3>1. CASE streak.node = m
      <4>1. m = n
        BY <2>1, <3>1, AboutLatest
      <4>2. QED
        BY <1>7, <4>1 DEF Repeats
    <3>2. CASE streak.node # m
      BY <1>7, <3>2 DEF Repeats
    <3>3. QED
      BY <3>1, <3>2
  <2>3. QED
    BY <1>2, <2>1, <2>2 DEF HoldsInv, Tripped
<1>8. QED
  BY <1>6, <1>7 DEF Gate

LEMMA HoldsStep ==
    ASSUME TypeInv, HistoryInv, StreakInv, VerdictInv, HoldsInv, [GuardNext]_guardVars
    PROVE  HoldsInv'
<1>1. ASSUME NEW n \in Nodes, NEW i \in Instances, NEW x \in Inputs, Starts(n, i, x) PROVE HoldsInv'
  <2>1. holds' = 0
    BY <1>1 DEF Starts, Starting
  <2>2. ~streak'.tripped
    <3>1. streak' = Extended(n, x, Len(starts) + 1) /\ streak \in Streak
      BY <1>1 DEF Starts, TypeInv
    <3>2. QED
      BY <3>1 DEF Extended, Streak
  <2>3. ~verdict'.tripped
    <3>1. verdict' = IF Detected(n, x, Len(starts) + 1) = NoLoop THEN NoVerdict
                     ELSE [node |-> n, info |-> Detected(n, x, Len(starts) + 1), tripped |-> FALSE]
      BY <1>1 DEF Starts
    <3>2. QED
      BY <3>1, NoVerdictIs
  <2>4. QED
    BY <2>1, <2>2, <2>3 DEF HoldsInv
<1>2. ASSUME holds' = 0, streak' = Cleared, verdict' = NoVerdict PROVE HoldsInv'
  BY <1>2 DEF HoldsInv, Cleared, NoStreak, NoVerdict
<1>3. ASSUME NEW n \in Nodes, NEW i \in Instances, StartsUnread(n, i) PROVE HoldsInv'
  BY <1>2, <1>3 DEF StartsUnread, Starting
<1>4. CASE StartsUnnamed
  BY <1>2, <1>4 DEF StartsUnnamed, Starting
<1>5. ASSUME UNCHANGED <<streak, verdict, holds>> PROVE HoldsInv'
  BY <1>5 DEF HoldsInv, Repeats, Tripped
<1>6. CASE UNCHANGED guardVars
  BY <1>5, <1>6 DEF guardVars, guard
<1>7. QED
  BY <1>1, <1>3, <1>4, <1>5, <1>6, GateSpends, StepIs

LEMMA HoldsInvIsOnce == TypeInv /\ StreakInv /\ VerdictInv /\ HoldsInv => HoldsLoopsOnce
<1> SUFFICES ASSUME TypeInv, StreakInv, VerdictInv, HoldsInv, NEW n \in Nodes
             PROVE  Repeats(n) \/ Tripped(n) <=>
                      /\ starts # << >> /\ starts[Len(starts)].node = n /\ holds = 0
                      /\ InARow(Len(starts)) >= Threshold \/ LoopAt(Len(starts))
  BY DEF HoldsLoopsOnce
<1> DEFINE j == Len(starts)
<1>1. n # Undefined /\ NoStreak.node = Undefined /\ NoVerdict.node = Undefined /\ Threshold \in Nat \ {0}
  BY LoopAssumption DEF NoStreak, NoVerdict
<1>2. CASE starts = << >>
  BY <1>1, <1>2 DEF StreakInv, VerdictInv, Repeats, Tripped
<1>3. CASE starts # << >> /\ holds # 0
  BY <1>3 DEF HoldsInv
<1>4. CASE starts # << >> /\ holds = 0
  <2>1. ~streak.tripped /\ ~verdict.tripped /\ j \in Nat \ {0}
    BY <1>4 DEF HoldsInv, TypeInv
  <2>2. Repeats(n) <=> starts[j].node = n /\ InARow(j) >= Threshold
    <3>1. CASE starts[j].in = Undefined
      <4>1. streak.node = Undefined /\ InARow(j) = 0
        BY <1>1, <3>1 DEF StreakInv, InARow
      <4>2. QED
        BY <1>1, <4>1 DEF Repeats
    <3>2. CASE starts[j].in # Undefined
      <4>1. streak.node = starts[j].node /\ Ending(starts, j, streak.repeats)
        BY <1>4, <3>2 DEF StreakInv
      <4>2. InARow(j) = streak.repeats
        BY <2>1, <3>2, <4>1, EndingIsInARow
      <4>3. QED
        BY <2>1, <4>1, <4>2 DEF Repeats
    <3>3. QED
      BY <3>1, <3>2
  <2>3. Tripped(n) <=> starts[j].node = n /\ LoopAt(j)
    <3>1. Says(verdict, WindowOf(starts, ends, j), starts[j].node, starts[j].in, Found[j])
      BY <1>4 DEF VerdictInv
    <3>2. LoopAt(j) <=> Loops(WindowOf(starts, ends, j), starts[j].node, starts[j].in, Found[j])
      BY LoopAtIs
    <3>3. verdict.node = IF LoopAt(j) THEN starts[j].node ELSE Undefined
      BY <1>1, <3>1, <3>2 DEF Says
    <3>4. QED
      BY <1>1, <2>1, <3>3 DEF Tripped
  <2>4. QED
    BY <1>4, <2>2, <2>3
<1>5. QED
  BY <1>2, <1>3, <1>4

-----------------------------------------------------------------------------
(* The loop guard's invariant and its theorems.                            *)

GuardInv == TypeInv /\ StreakInv /\ HistoryInv /\ QuietInv /\ VerdictInv /\ HoldsInv

LEMMA GuardHolds == GuardSpec => []GuardInv
<1>1. GuardInit => GuardInv
  BY StreakStarts, HistoryStarts, QuietStarts, VerdictStarts, HoldsStarts DEF GuardInv
<1>2. GuardInv /\ [GuardNext]_guardVars => GuardInv'
  <2> SUFFICES ASSUME GuardInv, [GuardNext]_guardVars PROVE GuardInv'
    OBVIOUS
  <2>1. TypeInv /\ StreakInv /\ HistoryInv /\ QuietInv /\ VerdictInv /\ HoldsInv
    BY DEF GuardInv
  <2>2. TypeInv' /\ StreakInv'
    BY <2>1, StreakStep
  <2>3. HistoryInv' /\ Grows
    BY <2>1, HistoryStep
  <2>4. QuietInv' /\ VerdictInv' /\ HoldsInv'
    BY <2>1, <2>2, <2>3, QuietStep, LoopVerdictStep, HoldsStep
  <2>5. QED
    BY <2>2, <2>3, <2>4 DEF GuardInv
<1>3. QED
  BY <1>1, <1>2, PTL DEF GuardSpec

\* detectCycle and detectErrorRepeat look at a ring of the newest calls and at
\* two counters, and see what the whole history has: a cycle is reported when
\* its laps are there with equal results and a lap has passed since the last,
\* an error-repeat when the node's own last calls failed alike, each with the
\* numbers the banner shows; for any number of calls and any sizes of the ring.
THEOREM VerdictsAreTrue == GuardSpec => []VerdictIsTrue
<1>1. GuardInv => VerdictIsTrue
  BY VerdictInvIsTrue DEF GuardInv
<1>2. QED
  BY <1>1, GuardHolds, PTL

\* consult holds a call that is a loop and holds it once: what the two rules
\* have against a node is there until the first gate of the latest call and is
\* spent by it, both rules together, so a retry of the call is let through.
THEOREM LoopsAreHeldOnce == GuardSpec => []HoldsLoopsOnce
<1>1. GuardInv => HoldsLoopsOnce
  BY HoldsInvIsOnce DEF GuardInv
<1>2. QED
  BY <1>1, GuardHolds, PTL
=============================================================================
