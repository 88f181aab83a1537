# GraphMind in TLA+

GraphMind is a debugger for agents: an application that uses a client library
streams the events of its runs to a local hub; the hub stores them, shows them
to viewers, and lets an operator hold a call at a gate and release it, possibly
with another input. These modules model the parts of it where the order of
things matters, TLC checks them on small instances, and TLAPS proves the most
important statements for every instance. Paths below are those of the
repository.

## 1. Inventory

| Component | State | Operations | Hard behaviour | Module |
|---|---|---|---|---|
| Held gates: `packages/client/src/gate-engine.ts`, and the part of `session.ts` that drives it | `held` (pauseId → gate: state, ticket, deadline), `armed`, mode, breakpoints | `hold`, `resume`, `peek`, `beginValidation`, `reopen`, `completeValidation`, `release`, `releaseAll`, pause timer | a resume, an edit validation, a timeout, an aborted signal and a detach race for one release; `send` may close the socket inside a handler | `SessionGates`, `GateContract` |
| Client session: `session.ts` | runs, buffer, gap records, hub capabilities, validations | `emit`, `gate`, `handleControl`, `applyVerdict`, `handleAttached`, `handleDetached`, `ready`, `dispose` | emission nests: payload code, dying sends and released gates emit inside an emit | `SessionGates`, `EventBuffer`, `Transport` |
| Ring buffer: `ring-buffer.ts` | items, bytes | `push`, `toArray` | two bounds and items above both | `EventBuffer` |
| Transport: `transport.ts` | socket, attempt, retry and handshake timers | `connect`, `send`, `kick`, `handleClose`, `abandon` | one retry timer shared by four causes; attempts that complete after they were abandoned | `Transport` |
| Loop guard: `loop-guard.ts` | streaks, history rings, open calls, verdicts | `record`, `complete`, `consult` | counters that must agree with a history nobody keeps | `LoopGuard` |
| Pause registry: `packages/cli/src/pause-registry.ts` | `entries`, `ownerCounts`, `closed`, `requests` | `open`, `resumed`, `refused`, `closeRun`, `closeOwner`, `begin`, `abort`, two timers, `dispose` | competing resumes, stale answers, caps | `PauseRegistry`, `ResumeRace` |
| Hub: `packages/cli/src/hub.ts` | ingest and viewer sockets, run owners, claims, seals, abandon timers | `handleIngestFrame`, `requestResume`, `removeIngest`, `checkClaim`, `scheduleAbandon`, `reconcileOrphanedRuns`, `handleSubscribe` | reconnect before the old socket is known dead; restart with live applications | `ResumeRace`, `RunOwnership`, `ViewerSync` |
| Debug state: `debug-state.ts` | mode, breakpoints | set and list | engine, hub and page equal after a reconnect | `Transport`, `ViewerSync` |
| Storage: `storage.ts`, `sqlite-storage.ts` | events by (runId, seq), run status | `insertEvent`, status changes, retention | replays are idempotent | `RunOwnership`, `EventBuffer` |
| MCP proxy: `mcp-proxy/` | a queue per direction, the unflushed writes of each sink, the pending map | relay, hold, retry, report | order of frames in a direction; one direction waits for the other's sink; the server exits in the middle | `McpProxy` |
| Viewer: `apps/viewer/src` | socket hook, UI store, run stores | retry, subscribe, read, toggle | snapshot and live tail; optimistic toggles | `ViewerSync` |
| Control HTTP: `control-http.ts`, and its client `commands/control.ts` | long-poll slot counts, parked polls; a wait's deadline | `park`, `GET /api/pauses?wait=`, `POST .../resume`, `closeWaits`; `runWait` | slots leak or starve; a poll sleeps through what it waits for; 429s and timeouts | `LongPolls` |
| Python client, gates: `python/graphmind` `gate.py`, `session.py` | the engine's gates with their mailboxes, under a lock; threads, tasks, timers | `gate`, `gate_async`, `hold`, `mailbox`, `resume`, `begin_validation`, `reopen`, `complete_validation`, `discard`, `release_all`, `dispose` | several threads race to release one gate; an exception at any point of a held call | `PyGates` |
| Held ledger, smart breakpoints, redaction, edit merging, builder, demo replayer, importers, exporters, adapters, the rest of the Python client, the Ruby client, web and docs sites | see `PROJECT.json` | | | – |

How they interact. The application calls the session, which calls the engine,
the loop guard and the buffer and writes to the transport. Frames travel up a
WebSocket to the hub, which decides whether the connection may write the run,
stores each (runId, seq) once, feeds the registry with the `exec.paused`,
`exec.resumed`, `exec.refused` and `run.finished` events it stored, and sends
them on to the viewers that tail the run. An operator's resume (viewer, CLI or
HTTP) goes to `Hub.requestResume`, is raced in the registry and sent down as an
`exec.resume` frame; the answer comes back as an event. What is armed is set in
the hub and reaches every application and every viewer. A closed socket releases
every gate on one side and closes every pause on the other, at different
moments. The MCP proxy is an application of its own kind: it sits between two
programs and makes a node of each frame it relays.

What makes each correct:

- *Gates.* No debugger, no holds; one decision per gate; what the record says
  is what the call got; an edit is used only if it was validated in time, under
  the attachment that asked for it; nothing is held for ever.
- *Session and buffer.* An attach replays all that is buffered; what was lost is
  counted, counted once, and announced; a seq is never used twice.
- *Transport.* A client that is not disposed is attached, trying, or will try
  again; `ready()` settles; what it has armed is what the server has armed.
- *Loop guard.* A call is held as a loop exactly when what happened before it is
  one, and once.
- *Registry.* A listed pause really is held; a pause given to one request comes
  back if that request fails; a request is answered once and with the truth;
  the maps stay within their caps and real requests go last.
- *Ownership and storage.* A run belongs to the application that began it; a
  live run is not listed as abandoned, a dead one does not run for ever.
- *Viewer.* Nothing falls between the replay of a run and its tail; the page
  shows what is armed.
- *MCP proxy.* Frames keep their order; nobody gets two answers; a node ends
  once, and ends; a held direction leaves the other one flowing.
- *Long-polls.* Every way a poll can end gives its slot back; nobody sleeps
  through news; a resume is answered with what became of it; a wait ends.
- *Python gates.* What is said of gates above, with threads: one of those that
  race for a gate decides, the host returns with that decision, and however a
  thread leaves, or wherever a task is cancelled, its gate does not stay behind
  (what does leave one behind is under *Observations*).

`PROJECT.json` lists every component with its status, and every hazard with the
line where it bites and the properties that cover it.

## 2. Plan

| | Modules | State |
|---|---|---|
| A | `SessionGates`, `SessionGates_proofs` | modelled, checked, safety proved |
| B | `PauseRegistry`, `ResumeRace` (composes the registry, the sockets and an application), `ResumeRace_proofs` (both) | modelled, checked, safety proved |
| C | `EventBuffer`; its proofs are in `Transport_proofs` | modelled, checked, safety proved |
| D | `Transport`, `Transport_proofs`: connect, handshake and retry timers, `ready()`, and what is armed on both sides | modelled, checked, safety proved |
| E | `RunOwnership`, `RunOwnership_proofs`: claims, seals, abandonment, run status in storage, the sweep after a restart | modelled, checked, safety proved |
| F | `GateContract`: the abstract gate that `SessionGates` implements | stated, the refinement checked, its safety part proved |
| G | `LoopGuard`: streaks and the two history detectors against what they mean; its proofs are in `SessionGates_proofs` | modelled, checked, safety proved |
| H | `McpProxy`, `McpProxy_proofs`: relays and reporter | modelled, checked, safety proved |
| I | `ViewerSync`, `ViewerSync_proofs`: subscriptions, replay and tail, optimistic toggles | modelled, checked, safety proved |
| J | `LongPolls`, `LongPolls_proofs`: slots, parked polls, `graphmind wait` | modelled, checked, safety proved |
| K | `PyGates`, `PyGates_proofs`: the held gates of the Python client | modelled, checked, safety proved |
| L | Retention, builder runs, the Ruby client, the rest of the Python client | not modelled |

What could come next: the Ruby client, whose engine has locks like the Python
one; and the rest of the Python client.

## 3. The modules

A handler of a Node program runs to its end before the next one, so a handler
is one action, with everything it calls. Two things break that: `await` (the
handler is then cut into two actions with the state in between, as in the
validation of an edit, or a frame of the proxy at its gate) and *re-entrance*:
`transport.send` that throws closes the connection synchronously, and
`handleDetached` releases every gate before the send returns. Actions that emit
take that outcome as the parameter `dies`. Operators named `X_Something` next to
an `X` are alternative forms of it with a plausible bug; they are used to
confirm that the properties can fail.

### SessionGates and GateContract

One client session. `link` is the transport as the session sees it, `gate` is
`GateEngine.held` together with the decision of the gates that left it, `req` is
each `exec.resume` with the validation it began, `log` is what was emitted for
each pause. `hubEdit` is the `edit-input` capability of the attached hub,
`implicitRun` is set once an event outside any run created one, and `epoch`
counts the attachments.

| Action | Code |
|---|---|
| `Attach`, `Detach`, `Dispose` | `handleAttached`, `handleDetached`, `dispose` |
| `GateHolds`, `GateLosesSocket`, `ImplicitRunStarts` | `gate()` up to the promise it returns |
| `ResumeIgnored`, `ResumeRefused`, `ResumeReleases`, `ResumeValidates` | `handleControl` for `exec.resume`, `handleResume`, `validateEdit` |
| `ValidatorSettles` | `applyVerdict`, `completeValidation`, `reopen` |
| `ValidationTimer`, `ValidationRunsLate` | the validation limit, and `outlived()`: it passed while host code blocked the loop |
| `PauseTimer`, `PauseDeadline` | the pause timeout, and its passing while a validation runs |
| `SignalAborts` | `listenForRelease`, the caller's abort signal |

Which calls are gated (mode, breakpoints, detectors, loop guard) is a free
choice of `GateHolds`: every gate that can be held, may be.

`GateContract` is what a caller of `gate()` may rely on, without engine,
validators, timers or transport: a call is idle, held, or released with one
decision; its record tells the same story as the caller got; only an attached
debugger refuses an edit or has it accepted; who loses the debugger goes on as
if nothing had been asked; a held call is released some day. `SessionGates`
implements it (`KeepsContract`) with `call` computed from `gate`, a validating
gate being a held call, and `record` its `log`.

### PauseRegistry

`entry` is `entries`, `ownerCount` is `ownerCounts`, `closed` is the memory of
closed keys, `req` is every request ever begun; `held` in its record tells those
still in `requests`, and `at` is its place in the map's insertion order. Each
method of the class is an action of the same name. Of the order of `closed` only
this is kept: what was marked last is the last to go. Request ids are distinct:
`requestResume` mints a new id when the caller's is still remembered.

### ResumeRace

EXTENDS `PauseRegistry` and calls its actions from the hub's handlers, so the
registry is driven as the hub drives it: `up` is the application's event log,
`stored` the prefix of it the hub has taken in, `sent` what went out on a
connection the application has left and the hub still believes in, `down` the
resumes on their way, `credit` the principal of each stored `exec.resumed`. The
application is `SessionGates` reduced to what the hub can see: held, validating,
released by a request or by itself. It may move to a new connection while the
hub still serves the old one. `echoes`, chosen at the start, tells a client that
names the request it answers (0.6) from an older one whose answers are guessed
by `correlate()`.

### EventBuffer

The session is one record, because its handlers nest; a step of a handler is an
operator from a session to a session, composed in the code's order. `buffer` is
the ring buffer with the `sent` mark of each item, `gaps` is `pendingGaps`,
`told` counts the losses in markers some socket accepted, `lost` is the set of
events that were counted lost, `emitted` all of them (both are history
variables), `wire` is what the living socket accepted and the hub has not read,
`stale` the same for the previous socket. `Emit` is `emitInternal` with its
re-entrant emit and its payload that fails to serialise; `Hold`,
`HoldLosesSocket` and `Release` are the gates' events; `Hello`,
`HandshakeFails`, `Attach(n)` and `Detach` the connection, where the flush and
replay of `Attach(n)` die after `n` frames.

### Transport

The client's transport, one `ready()` call, and the server as far as a client
sees it. `state`, `ws` and `retry` are fields of the class; `timer` is the open
or the ack timeout of the attempt under way. A socket has two ends: `end` is
what the client thinks of it (`stale` once it is abandoned and not yet closed),
`peer` what the server thinks. `impl` and `compatible` are the two
circumstances that never change: is there a WebSocket implementation, does the
server speak our version. What is armed (`armed` in the engine, `server` in
`DebugState`) is a set: the breakpoint matchers, and step mode as one item more.

| Action | Code |
|---|---|
| `FirstUse`, `Ready`, `ReadyTimeout`, `ReadyTaken` | `ensureStarted`, `ready()` with its `kick` |
| `RetryTimer`, `AttemptTimeout` | the retry timer; the connect and ack timeouts, `abandon` |
| `Opens`, `Reads`, `Closes`, `SendThrows` | the socket's `open`, `message`, `close`/`error`; a throwing `send` |
| `Dispose` | `dispose` |
| `Serves`, `Stops`, `ReadsHello`, `Controls` | the server: start, stop, `hello.ack`, a control frame relayed to applications |

### RunOwnership

`mem` is what each server process has in memory: `owner` is `runOwners`, `claim`
is `runClaims`, `sealed` the sealed runs, `timers` the abandon timers, `swept`
whether the startup sweep has run; `status` and `stored` are the database, which
the next process opens. `log` is what each application emits, given whole at the
start, and `conn` how far the hub has read each connection. A `Strict` client is
one with the `run-claim` capability: its token is the same on every connection.
`HubReads` is `handleIngestFrame` up to the stored event, with `checkClaim` and
its eviction (`Admits`, `Evict`), the change of owner, and the status it writes;
`HubLoses` is `removeIngest`; `AbandonTimer`, `Sweep`, `Start` and `Stop` the
rest of a process's life. `writers` is a history variable.

### ViewerSync

The page: `ws`, `phase`, `retry` and `retries` are the hook
`useWebSocketWithRetry`, `shown` and `have` the two stores, `asked` the runs the
listener's effect subscribed to. `Opens` and `Listens` are two actions because
React runs the effect that adds the message listener some time after the socket
opened; what is dispatched in between is `Unheard`. The server is the UI side of
`Hub`: `Accepts` is `addUiSocket` with its welcome, `Subscribed` is
`handleSubscribe` (list, replay, then the tail), `Controlled` a control frame of
a viewer with a credential, or without (the refusal says what is armed),
`Stores` the fan-out of a stored event.

### LoopGuard

One run and one watched kind. `streak`, `ring`, `completed`, `quiet`
(`cycleQuietUntil`), `verdict` and `open` are the guard's own state; `starts`,
`ends` and `holds` are histories that the properties judge it by. The open calls
are a set: their order is that of their seqs, which tells the oldest. `Starts` is
`record` of a readable call, `StartsUnread` and `StartsUnnamed` the two kinds of
unreadable ones, `Finishes` is `complete`, `Gate` is `consult` when it says hold.
The numbers of the rules (`CYCLE_LAPS` and so on) are constants, so that small
ones exercise the same code.

### McpProxy

Two relays and one reporter. `queue` holds the frames a relay has received,
`held` the frame its pump waits on and at which gate (`before`, the reply that
is written first, `after`), `out` what was written to each side, `pending` the
map of that name, `node` the node of each message. `tail` is the chain of writes
of each `FrameWriter`: what is not flushed, and which pump awaits it, the one of
the same direction, or of the other when an answer is given in a call's place or
a request is sent again (`reporter.ts:685`, 691, 820). `Pump` is `relayOne` up to
the gate; `Continues`, `Replies`, `Replied`, `Drops`, `Answers` and `Retries`
are what follows each decision, with the write it makes; `Flushes` is a write
that is over, since the reader took it or has gone; `Degrades` is a relay that
stops framing, `Exits` and `SessionFinished` the end. A pump whose write is not
flushed takes up nothing (`Idle`), and a request the sink has not begun to write
cannot be answered (`Unsent`).

### LongPolls

A request (`call`) is sent, parked on a slot, woken and answered: `park()` awaits
a promise, so what `finish()` does (`Wake`) and what the `finally` does
(`FreeSlot`, in `GetAnswered` and `PostAnswered`) are steps of different turns.
`waits` and `tokenless` are the two counters. The registry is reduced to what a
poll sees (`pause`, `outcome`), one action per method that calls `emitChange()`;
those that do not (`RequestDeadline`) are `Quietly`. The run statuses that
`touch()` announces are `Abandoned`. A waiter is `runWait`: `WaitAsks` with what
is left of its timeout, `WaitReads` for a 429, an open pause, an ended run and a
timeout in the code's order. `Killed` is a client that goes away, `CloseWaits`
and `CloseServer` the two halves of closing.

### PyGates

Here a step is what one thread does under the engine's lock, or between two reads
of something another thread writes. `gate` is the engine's table, `box` the
mailboxes a gate has had, `rel` its release, which one thread runs in three
steps: `Take` under the lock, `Tell` the debugger, `Deliver` to the mailbox.
`events` is what was emitted for the gate. A host is one call of `gate()` or, if
it is among the `tasks`, of `gate_async()`; `pc` is where it is.

| Action | Code |
|---|---|
| `Enters`, `Matches`, `MatchesNot`, `Holds`, `Announces` | `gate()` up to and with `engine.hold()` |
| `ReadsMailbox`, `Looks`, `Asks`, `Wakes` | `_next_message_sync` and its task twin, with `_debugger_gone` |
| `TakesRequest`, `Accepts`, `Refuses` | the host validates an edit; `complete_validation`, `reopen` |
| `TakesDecision`, `Discards`, `Finishes` | the returns: with a message, with a gate given up, `_final_decision` |
| `Interrupted`, `InterruptedInHold`, `MailboxCancelled` | an exception in a held call: `KeyboardInterrupt` or `SystemExit`, by a signal or out of a validator; `CancelledError` or `GeneratorExit` where a task awaits. `Catches` is which of them the handlers of `gate()` and `gate_async()` see |
| `TimerFires`; `Resumes`, `BeginsValidation` | the pause timer's thread; `_handle_resume` on the loop thread |
| `Attaches`, `Arms`, `Loses`, `Disarms`, `LoopSweeps`, `LoopReleases`, `Detached` | `_handle_attached`, `_handle_detached`, `release_all` |
| `Disposes`, `OwnerSweeps`, `OwnerReleases`, `IsDisposed` | `dispose()`, on any thread |

## 4. The runs

| Run | Instance | Shows |
|---|---|---|
| `gates` | 2 gates, 2 requests, before/after points, continue and retry, 2 attachments | edits are current, echoes truthful, fail open, and the contract of `gate()` kept, its liveness included |
| `registry` | 2 pauses of 2 runs, 2 owners, 2 requests; every cap 1 | counts, caps and claims stay consistent past every cap; a claimed pause is given back, every request answered |
| `race` | 1 pause, 2 connections, 2 requests with 2 actions, echoing or not | every caller is told what really happened, credit is right, the list has no phantoms; the hub uses the registry within `RegistrySpec` |
| `race_run_finished` | 1 pause, 1 connection, 1 request | *violated*: `HeldIsResumable` |
| `buffer` | 2 runs, sizes 1, 2 and 4 against 2 items and 3 bytes, 6 seqs, 1 held gate, 1 tracked gap run | single seqs, complete replay, true and accounted losses |
| `transport` | 2 sockets, 2 items to arm, 2 frames in flight | never stranded, comes back, armed as the server |
| `ownership` | 2 processes in turn, 2 applications (one claim-aware), 2 connections, 2 runs, 2 events; caps 1 | one writer, no live run abandoned, no orphan unwatched, no phantom row |
| `viewer` | 2 sockets, 1 run of 2 events, 1 item, 1 token change, 1 retry | nothing missed, the page catches up and shows what is armed |
| `loops` | 6 calls of 2 nodes, one of them unknown; 2 laps of 2, 2 failures, threshold 2, a ring of 5 | the streak, the detectors and the holds against the whole history |
| `proxy` | a call, a sampling request, a notification; 1 pending, 2 retries | order, single answers, accounted nodes, flow |
| `polls` | 1 waiter without a token and 1 resume, 1 slot, 1 pause of 1 run | slots accounted, no sleep through news, truthful answers, every wait ends |
| `py_gates` | 1 host, a thread or a task; 2 edits | one decision, nothing left behind, the host goes on |

The bounds, and why they are enough. Two gates let one gate's release disturb
another (the sweep inside a dying send); two requests let a second resume meet
the first one's validation; two attachments let a verdict arrive after a
reconnect. `inject` differs from `continue` only in guards that no property
looks at, so `gates` has the other two actions. In the registry and in
`ownership` every cap is smaller than the number of things it bounds, so each is
passed. In the buffer, a size above both bounds, sizes that fit one or two to
the buffer, and a gap pile of one run make every eviction path occur; six seqs
suffice for an overflow before, during and after an attach that dies. Two
sockets let an abandoned one speak up while the next is in use. Two connections
are what a blip takes, and two processes a restart. In `loops`, six calls are a
cycle of two laps, its hold, and the next call, which the quiet rule must let
go; the ring is one longer than the laps, so it wraps. There each node has one
instance, which starts again; the cap on open calls is not reached with it
(`MaxOpen = 1` reaches it, and was checked by hand with the same result). In
`proxy` one pending request makes the map evict. In `polls` one slot makes either
caller turn the other away; both caps are 1 in it, so the total cap alone is
binding, and that the smaller cap on callers without a token holds too is what
the theorem `SlotsExact` says. Two waiters of which one has a token, or two
resumes, over two slots were checked by hand with the same result (some two
million states). In `py_gates` the race is between the threads that release one gate;
hosts meet only in the sweeps, which take the gates of a set one after the other,
and the theorems are about any number of them. A second edit lets a late verdict
meet a later validation. `Max...` names that the code
does not have (`MaxEpoch`, `MaxSeq`, `MaxHeld`, `MaxQueue`, `MaxUp`, `MaxDown`,
`MaxTokens`, `MaxHubs`, `MaxConns`, `MaxEvents`, `MaxRetries` of the proxy,
`MaxCalls`, `MaxUnknown`, `MaxEdits`), and the sets, are bounds of the model and guards name
them; the others are the code's own limits. Because the models are bounded, they
stop when the bounds are used up, and so does an application that has no more
calls: deadlock is not checked. Symmetry (pauses, requests, owners, nodes) is
used in runs without liveness only; `RegistrySpec`, the one temporal property
checked with it, is a safety property.

**Fairness.** Node fires a timer that is due once the loop is free, and runs the
handlers of what has arrived; nothing is promised of the application, the
validator, the operator, or the network beyond that.

- `SessionGates`: the validation limit and the pause timeout. "No call is held
  for ever" therefore needs `PauseTimeout = TRUE`, the option the code offers.
- `PauseRegistry`: `ResolvingTimeout` and `Deadline`.
- `Transport`: its timers, and that a frame or a handshake under way arrives,
  and a socket its server has left says so. That the client comes back is stated
  for a server that stays up and attempts that stop failing.
- `RunOwnership`: the timers, the sweep, and the loss of a connection its
  application left (the hub's ping reaps it).
- `ViewerSync`: both event loops and the delivery between them. `CatchesUp` is
  about a page that stays linked.
- `LongPolls`: requests are handled, a parked poll's timer fires, and a waiter
  goes on; nothing is promised of applications, operators or the closing server.
- `PyGates`: a host's thread runs, a thread that took a gate tells and delivers,
  a detach and a dispose that began go on. No pause timeout need be set, nobody
  need resume, a validator need not return, and nobody need dispose.
- `McpProxy`: the pumps, the sink of a server that is gone (every write fails at
  once), and the end of the session. Nothing is promised of a gate, which without
  a pause timeout holds for as long as nobody acts (`reporter.ts:219` is a
  notice), nor of a peer, which need not read. `FlowResumes` is therefore
  conditional: provided both sinks come to be flushed again and again, a
  direction that is not held at its own gates for ever flows, even if the other
  one is held for ever.

### What the violated statement shows

`HeldIsResumable`: `run.finished` closes every pause of the run, and an
application may still hold calls of a branch it did not await. Every later resume
of such a call is answered `no-such-pause`; a pause timeout or a detach releases
it.

### Observations

Seen while modelling, and kept out of the properties by an exception that names
them, or by what they say:

- *A gate held in the dark.* `gate()` asks whether a debugger is attached, then
  `resolveRunId()` may emit the `run.started` of the implicit run; if that send
  dies, the gate is held after the sweep that should have released it, until the
  pause timeout, an abort or the next detach. `FailOpenHolds` excepts it (`dark`).
- *`pause-taken` for nobody.* `resolvingUnanswered()` asks the request cache; an
  answered request evicted from it looks like one somebody waits on.
- *Silent loss.* An event that a socket accepted, and lost when it died, is
  forgotten without being counted if the buffer wraps before the next replay.
- *A marker one short.* If sending a gap marker kills the socket while a gate is
  held dark, the events that gate's release evicts open a new gap record, which
  is overwritten when the old one is put back. `LossAccounted` excepts it.
- *`ready()` of a socket that died.* A send that dies in the flush detaches the
  session inside `handleAttached`, which then answers `ready()` with true.
- *A welcome nobody heard.* The welcome can be dispatched before the listener is
  added; the page then shows what it had before until the next change.
  `ShowsWhatIsArmed` is about a page that was told.
- *Guesses.* For a client that echoes no request id, credit may go to another
  request for the same action: `CreditIsTrue` says what is certain.
- *A second server.* `reconcileOrphanedRuns` sweeps every stored running run this
  process does not own. The comment at `hub.ts:787` says that a second server
  sharing the database "cannot kill a live run"; it owns nothing when it starts,
  so it lists the runs the first one is streaming as abandoned, until their next
  change of owner. The instance of `RunOwnership` with `Overlap = TRUE` violates
  `LiveRunIsNotAbandoned`; the run and the theorems about rows have one process
  at a time.
- *A node left open.* When the server of an MCP proxy exits, requests held at
  their `before` gate are not in the pending map yet, so `sessionFinished`
  (`reporter.ts:382`, "every request still in flight ...") does not end their
  nodes. `NodesEndOnce` says that a node ends once, not that each one does.
- *No answer at shutdown.* `closeWaits` ends the parked polls before
  `hub.dispose` settles the requests, so a resume is then answered `no-answer`
  although its application may still act on it. `PostIsTruthful` excepts it.
- *Resumed before paused.* The Python engine's `hold()` registers the gate under
  its lock and emits `exec.paused` after it (`gate.py:345`); a timer, a detach or
  a dispose on another thread may emit the `exec.resumed` of that gate first, and
  the hub then lists a pause nobody holds. `OneDecision` counts resumptions and
  does not order them.
- *Releases nobody hears of.* The Python `dispose()` marks the session disposed
  before it releases the gates (`session.py:1128`), and a disposed session emits
  nothing; `wire-protocol.mdx:148` promises an `exec.resumed` for a dispose too.
- *Ctrl-C inside `hold()`.* The host does not know its gate yet, so
  `session.py:673`, "never leave a gate registered that nobody waits on", cannot
  discard it; the next detach, timeout or dispose does. `WaitedOn` excepts it.
- *What a task does not catch.* `gate()` discards its gate on `BaseException`
  (`session.py:671`), `gate_async()` on `CancelledError` and `Exception` only
  (`session.py:720`-728). A `KeyboardInterrupt` or `SystemExit` in the task, out
  of a synchronous validator or by a signal, and the `GeneratorExit` of a
  coroutine that is closed, leave the gate registered, held or validating. A
  held one goes by a resume, a timeout, a detach or a dispose, a validating one
  by the last three only; where `begin_validation` finds the mailbox of such a
  host cancelled, "its discard follows" (`gate.py:390`) is not true. `WaitedOn` excepts
  this case and says exactly which ends it is about; the mutant gives `gate()`
  the handlers of `gate_async()`.
- *An exit is swallowed.* For a `SystemExit`, `gate()` discards the gate, warns and
  returns `CONTINUE`, so the exit does not happen, and a decision taken just
  before is not the one returned. `OneDecision` speaks of calls that return with
  a decision, and counts such an end as an exception.
- *A client that hangs up behind its own held frame.* `clientRelay.whenFinished()`
  waits for the frame, so with no pause timeout and nobody at the debugger the
  EOF is not passed on and `armShutdown` (`proxy.ts:442`-445) is not reached.
- *A pump waits for the other sink.* A reply in a call's place and a retry await
  the sink of the other direction, so a peer that does not read stops the
  direction it sends in too, and two peers that wait for each other to read
  stop both. `FlowResumes` presupposes that both read.
- *Held time of parallel calls.* `held-ledger.ts` pins a hold to the newest open
  instance of each enclosing node (line 173); of two parallel calls of one node,
  a hold inside the older one is charged to the newer, although the header
  (line 37) calls the ledger exact whenever the gate names its execution.

## 5. What is proved

`SessionGates_proofs`, for any finite or infinite set of gates and requests, any
number of attachments, and every combination of options, from the one assumption
`GatesAssumption` (points and actions are the code's, `continue` is one of them,
`None` is not an id):

- `TypeCorrect`: `Spec => []TypeOK`;
- `TicketsStayLive`: `Spec => []TicketsAreLive`;
- `FailOpen`: `Spec => []FailOpenHolds`;
- `EditsAreCurrent`: `Spec => EditIsCurrent`, an action property;
- `EchoesAreTrue`: `Spec => []EchoTruthful`;
- `KeepsContractSafely`: `Spec => Contract!Safely`, the refinement of
  `GateContract` without its fairness, with the mapping of `KeepsContract`.

The argument. `IndInv` is `TypeOK /\ TicketsAreLive /\ FailOpenHolds /\
EditedIsReleased`. `FailOpenHolds` alone is not inductive: a verdict of a
validation releases or reopens a gate, and that it is reopened only while
attached follows from its ticket being live; that a ticket is live needs its
request to be for this very gate, which is where the types come in.
`EditedIsReleased` is there for `EditIsCurrent`: it tells the step that applies
an edit from those that keep one. Every action that emits ends in the same
operator, `Finish`, whose effect is one of two: the gates it was given, or those
with all open ones swept. The lemmas `CommitGood`, `ClosedIsGood` and
`FinishKeeps` say once that both keep the parts of the invariant, so that what is
left for an action is that the one gate it changes is good, under the requests it
leaves. `IndParts` is the invariant cut along those lemmas.

`EchoTruthful` speaks of two positions of a log. The second half of the module
says what every action does to one pause (`StepOf`): its log stays, or gets one
event at its end, or two, and the gate and the requests change with it.
`EchoInv` adds to `IndInv` that only a request with an edit is ever being validated
(`RunningEdits`); that there is no second echo of a request follows from its being
done with the first. The refinement uses the same `StepOf`: the
contract's state of a call is a function of its gate and log, so each of the ways
a log grows is one of the contract's actions, or a stutter.

`ResumeRace_proofs`, first about the registry, for any finite sets of pauses and
requests, any set of connections and runs, and any positive caps
(`RegistryAssumption`):

- `TypeCorrect`, `CountsExact`, `ListedIsNotClosed`, `ResolvingStaysOpen`,
  `CapsKept`: `RegistrySpec => []P` for `TypeOK`, `OwnerCountExact`,
  `ClosedApart`, `ResolvingIsUnsettled`, `RequestsBounded`;
- `FirstAnswerStands` and `RealRequestsGoLast`: the action properties
  `AnswersAreFinal` and `KnownForgottenLast`.

The argument. The invariant is `IndInv /\ Caps(req)`, four parts that are proved
one after the other since they lean on each other in one direction only.
`CountInv`: a count that is decremented by hand stays equal to a cardinality,
for the entries removed are exactly those subtracted (`CountWithout`,
`OpenCount`). `RequestInv`: what every call does to a request is one of three
things, leave it, answer it, or begin it (`RequestsKept`); forgetting happens
only in `begin`. `ResolvingIsUnsettled`: an answer other than a timeout is given
to the request a pause resolves on only by a call that also reopens or removes
that pause; for `exec.refused` this needs that `correlate()` only credits
requests for the pause it was asked about, hence that the newest of a non-empty
set exists (`NewestIsOne`, from the well-order of the naturals). `Caps`: the
oldest request that shedding spares has all the others it spares among those as
new as itself, so they fit the cap (`ShedFits`), and eviction past the cap always
finds somebody (`EvictionHappens`).

Then about the race, under the same assumptions and `RaceAssumption` (`continue`,
what a gate that lets go by itself reports, is an action):

- `RaceTypeCorrect`: `Spec => []RaceTypeOK`;
- `RaceImplementsRegistry`: `Spec => RegistrySpec`, with the identity as the
  mapping: the hub passes the registry only what its contract allows. An event
  or a queued resume becomes an argument of a call, so this rests on the types of
  the log and the queues (`AppInv`);
- `RaceResolvesOpen`: what follows for the race from the two modules together;
- `AnswersAreTrue`: `Spec => []AnswerIsTrue`;
- `CreditsAreTrue`: `Spec => [](NothingForgotten \/ ~echoes => CreditIsTrue)`, and
  `CreditsAreTrueWithRoom`, `[]CreditIsTrue` when there are at most `MaxRequests`
  requests. The hypothesis is needed, and is the code's: a request that was
  evicted from the map and is echoed later is credited to nobody. The run, whose
  requests fit the map, is an instance of the second;
- `ListsAreTrue`: `Spec => []ListIsTrue`.

These three relate what the hub holds to what happened in the application, with
two queues and a log between them, so the invariant (`WholeInv`) tells what is in
between. `StoryInv`: what the application emitted is true of its gates,
`exec.resumed` is the last event of its pause, and no gate is released without
one. `OneQueue` and `SeatInv`: only the connection the application is attached by
has resumes on their way, each once, and a request is on its way, or with the
gate it is for, or turned down, never two of these; so a gate that went by a
request did what it asked. On that rest the three parts about the hub's side:
`AnswerInv` (an outcome agrees with the gate), `CreditInv` (once a release is
stored, its credit agrees with the gate; without echoes the guess asked for the
same), and `OpenInv` with `ListInv` (an open gate was announced to the current
connection, so a listed pause of it is owned by that connection; a listed pause
has no stored release). The hub's steps are proved through the registry's calls:
what a call does to the answers, to the credits and to the list is one lemma each
(`Outcomes`, `CreditedOnce`, `ListStep`).

`RunOwnership_proofs`, for any numbers of processes, applications, connections
and runs, and any caps (`OwnershipAssumption`):

- `TypeCorrect`: `Spec => []TypeOK`;
- `OnlyOneWrites`: `Spec => OneWriter`, with or without overlap;
- with one process at a time (`~Overlap`): `NoLiveRunAbandoned`,
  `EveryOrphanWatched`, `NoFloodTakesAClaim`, that is `LiveRunIsNotAbandoned`,
  `OrphanIsWatched` and `InFlightIsProtected` (eviction spares the claims of
  runs in flight).

The argument. What `HubReads` does is `Take` of an `Admits`, and `Admits` an
`Evict` or not, so one lemma per operator says what it does to a claim, a seal
and an owner. `HubInv` is what one process knows: a process that is not up has
nothing (`QuietWhenDown`), an owner is a live connection to this process
(`OwnersAreLive`), a claim's token and its strictness agree (`KindsAreTrue`), a
claim marked finished is of a stored, finished run (`FinishedIsStored`), a sealed
run is unclaimed and unowned (`SealedIsFree`), and a run that one claim-aware
client has written alone is claimed by it, sealed, or finished (`BegunIsHeld`).
The last is what makes `OneWriter` inductive: whoever else asks finds one of the
three. The statements about the rows need more, that the status column agrees
with the memory of the one process that writes it (`Alone`, `RowsAgree`), which
is exactly what a second process breaks.

`Transport_proofs`, for any set of sockets and of things to arm
(`TransportAssumption`): `TypeCorrect`, `ClientIsNeverStranded`,
`NothingArmedDetached`, `NoVainWait`, the invariants `TypeOK`, `NeverStranded`,
`DetachedIsDisarmed` and `NobodyWaitsInVain`, and `ArmedAsServed`
(`ArmedFollowsServer`). The first four become inductive with two facts. Timers belong to their state (`TimersInv`): the open
and the ack timer run only while connecting, the retry timer only while idle, and
a client that never started has nothing under way. And a socket that has not
opened is the current attempt's, whose server has sent nothing on it
(`SocketsInv`). `ArmedFollowsServer` says what the engine will have armed once it
has read what is under way. Stated with `WillArm`, it looks at the last frame of
the queue that names the thing, or at a handshake behind which nothing does, so a
frame put at the end decides (`SaysYes`), and one taken from the front has its effect in the
engine (`ReadingKeeps`). `PeersInv`, that a server that is gone knows no socket,
is what lets one that starts again begin with a new handshake.

`McpProxy_proofs`, for any requests, notifications, retries and caps
(`ProxyAssumption`): `TypeCorrect`, `NobodyIsForgotten` (`OpenIsAccountedFor`),
`EndsOnce` (`NodesEndOnce`), `RelayedInOrder` (`InOrder`) and `AnsweredOnce`
(`OneAnswer`). A node is opened by the pump from the head of
the queue, so that it does not open twice needs that a message is in the queue
once and not after its node began (`QueueInv`, `SentInv`); that it does not end
twice, that what is held at a gate is open (`HeldInv`) and what is pending too
(`PendingInv`). The order of the frames needs a statement about all four places
of a relay at once (`Flow`): what was sent before is written, or held, or queued
before, where an answer given in a call's place is no frame of that call. That no
request gets two answers: it is in one of seven places (`Seat`), from not sent to
answered, and every step leaves it where it is or takes it on (`OnceInv`);
a request that is sent again goes from the gate of its answer, which is dropped,
back to the peer.

`LongPolls_proofs`, for any finite sets of callers, any caps, and any
sets of runs and pauses (`PollAssumption`): `SlotsExact` (`SlotsAccounted`),
`NobodySleepsThroughNews` (`NoSleepThroughNews`), `PostsAreTruthful`
(`PostIsTruthful`), and `OutcomesAreFinal`, an action property. A step of this
module either wakes every parked poll (`Wakes`) or moves the request of one
caller to where it fits what is known of it (`Fits`); a lemma for each says what
becomes of the counted slots, which are cardinalities. What an answer says of a
request is tied to what became of it by `RequestInv`, for every place where its
handler may stand.

`ViewerSync_proofs`, for any sockets (at least one: the page connects when it is
mounted), any finite set of runs, any armed items and any bounds
(`ViewerAssumption`): `TypeCorrect`, `PageShowsWhatIsArmed` (`ShowsWhatIsArmed`)
and `NothingIsMissed` (`NothingMissed`). Three invariants, each with those before
it. `SyncInv`: types, and what the hook and the server know of sockets (a page
that does not listen yet has asked nothing on this one). `WordInv`: the last
frame that says what is armed, if there is one on its way, says what the server
has; if there is none, a page that was told and asks nothing shows it. Every
action says nothing of what is armed (`WordStands`) or says it last
(`WordGiven`). `TailInv`: what the page has and what is on its way was stored,
the server has the subscription of every run the page asked for or will read it,
and of a subscribed run every stored event is on the page or on its way, so that
the replay and the tail meet. Steps that neither store nor deliver leave it as it
is (`TailStands`).

The second half of `Transport_proofs` is about `EventBuffer`, for any runs and
sizes and any bounds of the ring buffer and of the gap records
(`BufferAssumption`: an event of size `Small` fits the buffer, the implicit run is
one of the runs): `BufferIsSound`, the invariant `BufferInv`, and from it
`SeqsAreUnique` (`SeqsUnique`), `ReplaysAreComplete` (`ReplayComplete`),
`LossesAreAccounted` (`LossAccounted`) and `BufferTypeCorrect` (the type
invariant, with the two bounds of the ring). None of them is inductive. An emit
takes its seq, and other emits nest in it before its event is in the buffer, or
is given up; so what is invariant (`Sound`) is said for a set `Q` of seqs that
were taken and not yet used: these, the seqs that are buffered, those that were
lost and those that were sent are apart (`Apart`; a buffered event may have been
sent, an unsent one has not). A gap record begins and ends at lost events and
counts no more than there are in between (`GapsTrue`); while no gate was held in
the dark the losses add up and no more records wait than the bound allows
(`CountTrue`), and only an attached session has held gates whose release would
emit, which is what bounds the nesting, or frames in flight (`LitHolds`); what is
buffered or lost was given a frame (`Ledger`). The buffer is `Bounded`: it sheds
until it fits, down to the item pushed last, and an item that does not fit by
itself never enters, so one item alone is within the bytes too (`BoundedIs`).
`Full` is completeness: an attached client has handed over all it buffers. A
handler folds steps over the buffer, the gap records and the gates, while what it folds
over changes under it. Every fold is first shown to be a run of single steps
(`EvictionsRun`, `SumRun`, `SizeRun`, `ReleasesRun`, `MarkersRun`, `PutsRun`,
`ResendsRun`), and that a run keeps what its steps keep is shown for the set of
the positions it has kept it at (`Climb`), from the well-order of the naturals.

The third part of `SessionGates_proofs` is about the guard that the session asks,
for any numbers of nodes, inputs, instances and calls and any numbers in the
rules (`LoopAssumption`: laps and periods are at least 2, and the ring holds the
laps of the longest period): `StreakIsTrue` (`StreakIsBackToBack`),
`VerdictsAreTrue` (`VerdictIsTrue`) and `LoopsAreHeldOnce` (`HoldsLoopsOnce`). The
first property speaks of the greatest number of identical calls at the end of
the history; the invariant (`StreakInv`) names that number by its two ends, a
stretch of the same call and a different one before it, which a start extends
(`EndingGrows`) or begins anew (`EndingBegins`), and `EndingIsInARow` says the two
are one. The second compares what the detectors find in the ring with what the
history has. `HistoryInv`: the ring is the newest of all that ended, so that what
a start sees is fixed for ever, and an open call is the latest start of its
instance, so that what it completes as is true. The detector compares each lap
with the oldest of them, or counts laps back from the newest; the definition asks
that the tail repeats itself at the distance of the period. That these are one is
`PeriodicIsLaps`, with `CyclesAreRounds` and `LapsBackIs`. The fold of
detectErrorRepeat is a run of single steps backwards through the ring, of which
`Tallied` says what it has counted so far (`ErrorRepeatIs`). `QuietInv`: the one
counter `quiet` says what `Found`, a recursive function over all starts, asks of
every cycle found before; the values of that function for the starts there were
stay (`FoundKept`). `VerdictInv` is then the property at the latest start, and
`HoldsInv` adds that before the first hold of a call nothing is spent, and after
it neither rule has anything left against any node: both speak of the latest
call, so the gate that spends one rule spends the other.

`PyGates_proofs`, for any hosts and any number of edits: `TypeCorrect`,
`OneDecides` (`OneDecision`), `NoneLeftBehind` (`WaitedOn`), and `NoRequestTwice`
(`NeverTwice`: the branch of `gate()` for a request that comes back is dead code,
and therefore no action here). The invariant is said of one host at a time.
`EngineOK` is the engine's side: a gate is out of the table exactly when it has a
release, what is in a mailbox or in the record of that gate comes from this one
release once it has come that far, and a request in the last mailbox is what the
gate validates. `CallOK` is the host's: what it returned with is the decision of
a release that is over, it watches a mailbox that exists, and it has never
handled the request it may find there. A thread that takes a gate finds it
registered under the lock (`TakeKeeps`), so it is the only one; a host that stays
where it is outlives whatever others do to its gate, since mailboxes only fill up
(`CallOutlives`). A call that is over has a gate that is out of the table, unless
an exception ended it past every handler (`Catches`): that is `WaitedOn`.

Theorems without a run: some are about invariants that are in no run because
nothing is learnt from checking what is proved (the type invariants,
`TicketsAreLive`, `ClosedApart`, `AnswersAreFinal`, `KnownForgottenLast`,
`InFlightIsProtected`, `NobodyWaitsInVain`, `OutcomesAreFinal`, `DetachedIsDisarmed`, `NeverTwice`).

Every invariant and every action property of the runs is proved. Only
model-checked: that no call is kept
for ever, the part of `KeepsContract` that `KeepsContractSafely` leaves, and all
liveness
(`NeverWedged`, `NoPhantoms`, `Reconnects`, `CatchesUp`, `FlowResumes`,
`WaitsEnd`, `HostGoesOn`), which is out of the prover's reach.

## 6. What is left out

- `SessionGates`, `EventBuffer`: the content of events, redaction and edit
  merging (a payload matters by its size, an edit by whether it was accepted);
  mode, breakpoints and detectors (free choices); held-time accounting. A
  session's disposal is in `SessionGates` and not in `EventBuffer`. In
  `EventBuffer` an emit nests one other emit: deeper nesting repeats the same
  step. A connection that goes away loses any suffix of what was in flight.
- `ResumeRace` has one run, so that the hub's events are one log; several runs
  on one connection only interleave independent registries, but for the caps,
  which `PauseRegistry` covers. Events are not lost there, `EventBuffer` is
  about that.
- `Transport`: delays (the fast burst, the backoff) and `unref`; that hub, client
  and viewer each have their own notion of equal matchers (`canonicalKey`,
  `matcherEquals`, `matcherKey`), taken to be the same.
- `RunOwnership`: run names and metadata, deletion and retention, several
  databases. Which claim of a class is the oldest is a free choice.
- `ViewerSync`: `handleUnsubscribe`, health readouts, paging of a replay, and
  what the events look like.
- `LoopGuard`: several runs and their eviction, several kinds (each has its own
  streak and history), warnings, fingerprints and digests (an outcome has a
  digest, or is unknown; an outcome without a digest compares like an unknown
  one), and calls without an instance id, which no adapter makes.
- `McpProxy`: batches, argument edits, errors of interceptors, stdout that is no
  frame, stderr, the client's EOF with the shutdown it leads to (see the
  observation), and the oldest-first order of eviction (a free choice).
- `LongPolls`: authentication and origin checks, the detail of one pause (it
  only reads), what the commands print, and the run file that carries the token.
  An application does whatever one may do.
- `PyGates`: `exec.refused`, the expiry of the second a host grants the thread
  that releases its gate (`_DISCARD_GRACE`), an exception while it waits for that
  or releases its gate itself, or
  a cancellation of the synchronous wait's future, and which points are gated.
  Emission, buffer and transport of the Python client are the TypeScript
  client's design, and only the states a gate reads are here.
- Not modelled: the held-time ledger (sums of intervals; see the observation),
  the builder's single job, the demo replayer, and the Ruby client, whose engine
  is a port of the same design with a lock. Not to be modelled: pure conversions
  (schema, importers, exporters, code generation), predicates on one value (smart
  breakpoints, authentication checks), and the sites.
