# Formal model of the Real-time Shared Whiteboard (Synapse)

TLA+ specifications of the collaboration server and of its clients, the TLC runs
that check them on small instances, and TLAPS proofs of their safety properties.
Paths are relative to the repository's `src/`.

## 1. The system

A room is a whiteboard shared by browsers. A client sends a drawn segment to a
server process (`draw`); the process authorizes it, numbers it, buffers it,
broadcasts it to the other members and writes it to PostgreSQL in batches. A client
that joins, or that sees a gap in the numbers, is sent the board's history. Presence
(who is in the room, with which cursor color) lives in Redis, so that several
processes can serve one room. In the browser a tab goes from board to board, and
each board's canvas is painted one animation frame at a time.

| Component | Source | State | Operations | Interacts with |
|---|---|---|---|---|
| Stroke write path | `server/src/services/strokeService.ts` | per board: `nextSeq`, `buffer`, `timer`, `retryTimer`, `flushAttempts`, `persistenceDegraded`, `initPromise` | `append`, `flush`, `flushAll`, retries with backoff, restore | draw handler, shutdown, readiness; repositories |
| Compaction | same, `maybeCompact` | `compacting`, the board's baseline | count, cut, set the baseline, delete the prefix | draw handler; repositories |
| History | same, `loadForJoin`; `handlers/joinRoom.ts`, `handlers/resync.ts` | none of its own | read the baseline, read the tail, merge the buffer, reload or delta | write path, compaction, clients |
| Repositories | `repositories/strokeRepository.ts`, `boardRepository.ts` | tables `strokes`, `boards` | one SQL statement each | PostgreSQL |
| Presence | `services/presenceService.ts`, join/cursor/disconnecting handlers | Redis: users, colors, last-seen, rooms, key TTLs | Lua scripts allocate, join, leave, cursor, heartbeat, sweep | every process |
| Gateway and guards | `socket/gateway.ts`, `context.ts`, `middleware/authGuard.ts`, `transport.ts` | `currentRoomId`, `userId`, rooms of the socket | admit, bind, reject an event, close | every handler |
| Rate limiters | `middleware/rateLimiter.ts`, `httpRateLimiter.ts` | token buckets by key | consume | draw and cursor-move handlers, join endpoint |
| HTTP application | `app.ts`, `observability/health.ts`, `metrics.ts` | requests under way, the rolling stroke rate | `/readyz`, `/api/rooms/:id/join`, `/metrics` | datastores, write path's health |
| Shutdown | `index.ts` | `shuttingDown`, the forced-exit timer | close, flush, disconnect, release, exit | write path, sockets |
| Client synchronisation | `client/src/features/collaboration` | high-water mark `lastAppliedSeq` | ingest, adopt a history, request a resync | canvas; history |
| Canvas engine | `client/src/features/canvas/engine`, `lib/rafScheduler.ts` | scene, dirty marks, painted count, cursor nodes, pending frame | commit, load, clear, pan, resize, paint | client synchronisation |
| Pointer input | `client/src/features/canvas/input`, `lib/throttle.ts` | stroke anchor, pan origin, throttle timer | press, move, release, emit a cursor frame | canvas, connection |
| Client session | `client/src/routes`, `stores`, `lib/boardStorage.ts`, `useCollaboration.ts`, `SocketClient.ts` | address, view, stores, connection, recent boards | navigate, join, connect, clean up | all of the client |
| UI components | `client/src/components`, visual stores | presentation | | |

### What is hard here

* **Interleaving at every `await`.** Several flushes of one board can be in flight
  (size-triggered, interval, retry); each captures the buffer, and a failed one
  puts its batch back while the others go on. Flushes cancel each other's timers.
* **Check, then act.** `maybeCompact` tests its flag before a query and sets it
  after; it computes a cut from a baseline that may have changed; `loadForJoin`
  reads the baseline and the tail in two queries; the join endpoint reads a board's
  password and creates its row later; the guard of a packet and its handler are apart.
* **Failure.** A statement may be committed and reported as failed; a compaction
  may stop between its baseline and its deletes; a restore may fail and be retried.
* **Crash, restart, shutdown.** The buffer is lost; the sequence counter is restored
  from what is stored, which pruning has shortened. Draws, flushes and restores go on
  while the process closes down, and a second signal must not start
  the sequence again.
* **Shared state across processes.** Presence is shared through Redis scripts that
  interleave with joins, disconnects and key expiry; sequence counters are not shared.
* **Clocks.** Token expiry, buckets, the rolling rate, probe budgets and throttles
  compare times; `Date.now` may be set back.
* **Clients.** They see broadcasts and histories in an order nobody fixed, and do
  not receive their own strokes back. A navigation renders before its effects run, and
  stores outlive the view; changes of every kind fall between two frames.

`PROJECT.json` lists each hazard at its line, with the properties that cover it.

### What makes each component correct

* Write path: no accepted stroke is lost short of a crash; none is written from two
  places; buffered strokes always have a flush coming; a number names one stroke for
  ever; the degraded flag says exactly that the retry budget is exhausted; the retry's
  delay follows the attempts; every accepted stroke becomes durable once the store answers.
* Compaction: only strokes under a recorded baseline are pruned; a number is not
  reused because its stroke was pruned; the flag is always released.
* History: ascending, each stroke once; every durable stroke the client lacks.
* Presence: present members have distinct colors while the pool allows; every member can be
  reached by a sweep, and every key has an end; a room everybody left is reclaimed. (That a member whose
  connection is gone is removed, and that the last list broadcast is the current one, does not hold.)
* Gateway: every effect has a token that is fresh now, in a room the socket is in; a
  closed connection is in no room.
* Shutdown: a clean exit leaves no accepted stroke behind; a signalled process exits.
* Limiters and rates: exactly capacity plus refill in any window; exact counts.
* HTTP: ready means that every dependency answered; a token is issued for an existing
  board, with its password; metrics stay inside; readiness is always answered.
* Clients: the canvases of the members converge to the stored board; what the connection has
  joined and the member list it received are of the board in the address; a segment never joins two
  strokes; the last cursor position is sent. (That the strokes on screen are only those of the board in the
  address, and that a joined board is served its history, does not hold.)

## 2. Modules

| Module | Models | Built on |
|---|---|---|
| `DurableLog` | abstract: accepted strokes become durable, in batches, and are lost only in a crash | |
| `StrokeService` | the write path of one board in one process, with crash and restart | |
| `Backoff` | the delay of its retries | `StrokeService` |
| `StrokeService_proofs` | inductive invariants, safety theorems, refinement of `DurableLog`; the delays of the retries; the shutdown | `Shutdown`, `Backoff` |
| `Compaction`, `MCCompaction` | `maybeCompact`, any number of calls at once | `StrokeService` |
| `Compaction_proofs` | inductive invariants, safety theorems, refinement of `DurableLog`; the histories, and sorting | `JoinHistory`, `StrokeService_proofs` |
| `JoinHistory` | `loadForJoin`, the join and resync handlers | `Compaction` |
| `Shutdown` | `gracefulShutdown` over the running write path | `StrokeService` |
| `Cluster` | several processes with counters and buffers of their own over one store | |
| `Presence`, `MCPresence` | presence of one room: the Redis scripts and the handlers, of any number of processes, that call them | |
| `Presence_proofs` | its inductive invariant and safety theorems | `Presence` |
| `Whiteboard`, `MCWhiteboard` | the clients of a board, their connections, and the handlers that number, broadcast and replay strokes | |
| `Whiteboard_proofs` | inductive invariants, safety theorems, of the clients of a board and of one canvas | `Whiteboard`, `Canvas` |
| `TokenBucket` | the arithmetic of a bucket | |
| `Meters`, `MCMeters` | the map of buckets against a sliding window; the rolling stroke rate | `TokenBucket` |
| `Meters_proofs` | inductive invariant, safety theorems, sums over finite sets | `Meters` |
| `Gateway`, `MCGateway` | one connection: handshake, guards, limits and handlers | `TokenBucket` |
| `Gateway_proofs` | inductive invariant, safety theorems, the bucket's arithmetic | `Gateway` |
| `Access` | which addresses may read the metrics | |
| `HttpApp`, `MCHttpApp` | readiness, the join endpoint and the metrics, while datastores come and go | `Access` |
| `HttpApp_proofs` | inductive invariant, safety theorems, the address blocks | `HttpApp` |
| `Canvas` | scene, cursor overlay and frame loop of one canvas | |
| `Pointer` | pointer input, stroke anchor and throttle | |
| `Session` | a tab between its home page and its boards | `Pointer` |
| `Session_proofs` | inductive invariants, safety theorems, of the input alone and in the tab | `Session` |

`MC` modules add what an instance needs: symmetry, or constants that a `.cfg` cannot write.

### From code to actions

Node, like the browser, runs one callback at a time. An action is what runs between two
I/O completions: a handler or timer callback up to its first pending query, or the
continuation of a query that was answered.

**Write path and history.**

* `append` up to its return is one action (`AppendStroke`), with the flush it
  triggers up to the INSERT; the restore it may await first is `AwaitInit`,
  `InitDone`/`InitFails`, and its continuation `ResumeAppend`.
* `drainOnce` is split at its two queries: `DrainOnce` (capture), `InsertDone`,
  `TouchDone`; `DrainFails` stands for either query's rejection, the re-buffering and
  `handleFlushFailure`, which run without a pause.
* With an empty buffer `drainOnce` awaits nothing, so `markPersisted` follows in the
  same action.
* Promise continuations run before the next event; the guard `Resumed` makes every
  other action wait for the appends that a finished restore resumes.
* The queries of a restore are one action. Nothing else of the process touches the
  board while it is restored, so their interleavings with other statements do not
  differ; the statements of an earlier process have ended by then (see `Crash`).
* A query that only reads, and whose answer is used without looking at other memory,
  is one action at the moment the store executes it. Where memory is read or set on
  the answer, the execution and the answer are separate: `CountAboveCap`/`SetFlag`,
  `LoadRows`/`HistoryLoaded`.
* A failed INSERT or UPDATE may have been committed.
* `Crash` stands for any ungraceful exit and the restart: in-flight INSERTs are
  committed or not, memory is gone, numbers start from the store.
* `Backoff` adds to each step of the write path the delay it arms: `pace` is
  the constructor's clamping of its options, `RetryDelay` is `computeBackoffDelay`.

State maps one to one: `BoardState`'s fields keep their names; `initPromise` and the
appends awaiting it are `initPhase` and `waiting`; the calls that await the store are
`drains` (batch and query), `counting`/`compactions` (phase and locals), `requests`.
`accepted`, `pruned`, `highCut`, `sent`, `owed`, `drawn` and the counters of the
bounds are history variables. A stroke is its number and an id: color, points, author and
time are never looked at by this code. Delays other than the backoff's are not modelled: a
timer that is set may fire at any time.

**Shutdown.** `phase` is what `gracefulShutdown` awaits: `server.close` (`Signal`, until
`ServerClosed`), `flushAll`, `io.close` (`IoClosed`), the release of the datastores
(`Released`), and then `exited`. The actions of the write path, draws of the connected
clients and `ForceExit` interleave with all of them. `awaited` is the batch that `flushAll`
awaits, `served` the statements sent before `pool.end`, which waits for these and refuses
later ones. A second signal finds
`shuttingDown` set and changes nothing; a mutant that forgets the flag lets it end the wait early.

**Cluster.** `EnsureInitialized`, `AppendStroke` and `Flush` of each process; `shown` is what
the Redis adapter relays to every member. No failures: the loss needs none.

**Presence.** An action is one script, atomic in Redis, with the handler's code up to
its next call: a join is `JoinRoom`, `AllocateColor`, `Register`, `RefreshAfterJoin`
(the EXPIRE commands, separate from the script) and `AnnounceJoin` (after the history
was loaded), and `JoinFails` stands for its catch block at each of these, the call
executed or not. `users`, `colors`, `seen` and `registered` are the four Redis keys;
`awaits`, `color` and `members` the handler's position and locals; `shown` the last
`users-update`. Ages are abstract: a last-seen score is fresh or stale, a key's time to
live far or near its end. A key gets near only when nobody in the room has been seen for
as long, or an EXPIRE failed. `Maintained` says whether `sweep` and `heartbeat` may be
called: the server defines them and calls neither. The passing runs let them happen at any time, or never. `shared` is a history variable:
the pool was exhausted, or the colors expired under a holder.

**Whiteboard.** An action is the handling of one message by a client or by the server,
one answer of the store, or one deed of a user. `mark` is `lastAppliedSeq`, `canvas` the
`SceneStore`, `loads` the join and resync handlers that await `loadForJoin`, `toServer`
and `toClient` the two directions of a connection: in order, and lost with it. What
`JoinHistory` and `StrokeService` detail is one step here: a history is everything stored
and any part of what is not, because a batch being written is seen by neither query. A
client's own stroke is on its canvas at once, goes to the others only, and does not move
its mark. `excused` are the strokes a client cannot be expected to have: cleared from its
canvas, in a batch being written when it was served, or below the baseline, whose snapshot
carries no drawing. `behind` are clients whose last load failed, which show a toast and
wait for the user; `ahead` those whose mark is above what a crashed server restored, to
whom strokes that reuse these numbers look like duplicates. The properties leave these out
and no others.

**Gateway.** The packets of one read pass the middleware one after the other (the payload
guard, then the Auth_Guard, which sets `ctx.userId`), and wait in `inbox` for their handlers, which
run after the read, in order. A refused packet never reaches a handler; a refused token closes the
connection and drops what waits. Each handler (`JoinRoom`, draw, cursor, clear, resync) checks its
limit, its schema and the bound room in the code's order, and leaves its effect in `last`.
`last` is what the handler decided when it ran: a draw is then appended, which may await the restore, and broadcast
afterwards (draw.ts:92-96), and a join awaits presence and history; these are in `StrokeService`, `Whiteboard` and `Presence`. So
`EffectsFresh` and `MembershipKept` are about the handler's checks and not about a broadcast that comes later.
`HandlerThrows` is error isolation: the exception is answered, the connection stays. `rooms` are
the socket's rooms, its own one included; an earlier room is not left by a join. Signatures and
schemas are outcomes: a token is genuine or not, a payload valid or not.

**Meters.** `TryConsume` is one call for one key with the bucket created on first use; time is
in ticks and tokens in fractions of a token, so that what the code computes in floating point is
exact here. `exact` records whether every answer was the reference's (the sliding window over all
grants). `Record` is `RollingRate.record`, `ring` its slots. `Advance` and `SetBack` are the clock.

**HttpApp.** A probe has a status per dependency: pending, answered, failed or timed out;
stores are up, down or hanging and change at any time. A join request goes lookup, compare,
ensure, answered, and each is a step of its own; the operator sets the board's password in between.
A metrics request is one check of the peer address. `late` marks requests that began after the
password was set, `entitled` those that know the password or come from inside.

**Canvas.** One action per public method, `Tick` is the frame. Pixels are the segments painted
since the surface was last blank, each with the version of the viewport (pan, zoom, size) it was
painted under. The frame is requested as the code requests it, and asked for once.

**Pointer, Session.** `OnDown`, `OnMove`, `OnUp` are the sampler's handlers, `TrailingCall` the
throttle's timer. `Session` splits a navigation into its render and the effects that run later
(`ran` is the view whose effects have run); a write of a store or of a component's state renders and
runs them at once (`Urgent`). The connection is `socket` (none, connecting, up, down) with its
`seat`, the board and name it has joined. What the server sends is `OnHistory`, of a join or a resync, `OnUsers`, `OnDraw`,
`ClearBoard` and, for a join that failed, `OnError` (`JOIN_FAILED`), in any order and each at any time; `answer` and `listed`
are what this connection has had of them. `scene` are the boards whose strokes the engine holds: a history
appends to it, a clear empties it, and it lives as long as the view, also when the view changes its board. Strokes drawn in this tab
are left out here (`Whiteboard` has them). The late timer of the home page, the stores that outlive a
view, and the storage of recent boards are state of the tab.

### Mutants

An operator `X_Y` that stands before an operator `X` is `X` with a plausible bug `Y`
(`Rebuffered_Dropped`: a failed batch is not put back). No specification uses it: it
records, for each property, a bug of the code that the property notices when `X` is
replaced by it. `PROJECT.json` lists the pairs under `mutants`.

## 3. Runs

| Run | Instance | Shows |
|---|---|---|
| `write_path` (`Backoff`) | 4 strokes, batches of 2, 2 retries, 3 failures, 1 crash, baseline 0 or 1; base option unset (1) or 5, ceiling 4; fairness | the safety of the write path, its inductive invariant and the delays of its retries; that it implements `DurableLog`; that accepted strokes become durable and a degraded board recovers |
| `compaction_safety` | 4 strokes, cap 1, 2 compactions, deletes of 2, 1 failure, 1 crash | pruning, numbers and flag under overlapping compactions |
| `history_safety` | baseline 0 or 1 with a stored stroke, 2 strokes, 1 compaction, 1 request, 1 failure, 1 crash | histories are ascending and miss no durable stroke |
| `presence` | 2 sockets, 2 colors, 1 failure, 1 death, sweeps at any time or never, fairness | distinct colors; every user reachable for a sweep; every key has an end; a room everybody left is reclaimed unless a join was cut short |
| `whiteboard_safety` | 2 clients, 2 strokes, 2 of: clear, lost connection, refused draw, failed load, compaction, crash | no client skips a stroke, and canvases converge to the board, in every order of broadcasts, histories and resyncs |
| `shutdown_exit` | 3 strokes, batches of 2, 1 client at a time, 2 signals, 2 failures | exit code 0 leaves nothing behind; no draw is accepted after the flush; a signalled process exits |
| `meters` | 2 keys (capacity 2 at 2/s, 1 at 1/s), half-second ticks, a window of 2 s, time 0 to 6, set back once | buckets equal the sliding window; the rolling rate is exact |
| `gateway` | 2 rooms, 3 tokens (expiring at 1 and 2, one not genuine), time 0 to 2, reads of 2 packets, 2 draws | effects only with a fresh token for the room, in a room the socket is in; a closed connection has left all |
| `httpapp` | 1 probe of 2 stores, 2 requests (join or metrics), budget 1, time 0 to 2, 1 change of a store, peers on both sides of every private block | ready means reached; tokens need the row and the password; metrics stay inside; readiness is answered |
| `canvas` | 2 peers, 2 colors, 3 segments, 2 changes of the viewport, 3 cursor updates, fairness of the frame | a clean canvas shows its scene and its cursors, and it becomes clean |
| `session` | 2 boards, 2 navigations, 1 lost connection, interval 1, time 0 to 1, 3 moves, 1 press, fairness | connection, input and member list are those of the board shown; joins pass the gate; a joined board is asked for; cursor frames are paced and the last is sent |
| `cluster_lost` | 2 processes, 3 strokes | *violation*: of two strokes with one number, both shown to everyone, one is dropped |

`cluster_lost` refutes a statement of the README and of two comments; `PROJECT.json` quotes
them under `findings`.

Every other configuration checks something beside these runs:

| Configuration | Checks | What TLC shows |
|---|---|---|
| `Session_types` | type invariant, `RecentBoards`, `LatestKept` | hold |
| `Session_scene` | `SceneOfOneBoard` (SceneStore.ts:4-5), without input or lost connections | *violated*: after the view has changed its board the strokes of the one before are still there |
| `Session_failed` | `JoinedIsServed` (joinRoom.ts:106-108), every join answered | *violated*: a join that failed is not tried again while the connection lasts |
| `Pointer_input` | the input alone: interval 2, 4 moves, 3 presses | holds |
| `Presence_safety` | 3 sockets, 2 colors: type invariant, the safety properties, the inductive invariant and what it implies when the pool is exhausted | hold |
| `Compaction_baseline` | `PrunedBelowBaseline` (strokeService.ts:342) | *violated*: the baseline falls back below pruned strokes when the older of two compactions writes last |
| `JoinHistory_inflight` | `DrawnServed` (strokeService.ts:289-291) | *violated*: a joiner misses the batch being written |
| `JoinHistory_pruned` | `NoHalfPrunedPrefix` (strokeService.ts:380-381) | *violated*: a joiner sees a half-deleted prefix |
| `StrokeService_degraded` | `DegradedClearedByWrite` (strokeService.ts:107, 521) | *violated*: an interval flush that finds the buffer empty clears the flag while a retry is writing |
| `Presence_nosweep` | `GhostsReaped` (presenceService.ts:376-377, disconnecting.ts:14, requirement 5.4), 1 death | *violated*: nothing in the server calls `sweep`, and a user whose socket is gone stays |
| `Presence_colors` | `DistinctWithinPool`, 4 sockets, 2 colors | *violated*: a joiner gets the color of a present user although fewer users than colors are present |
| `Presence_list` | `AnnouncesCurrent` (joinRoom.ts:98) | *violated*: a stale member list is announced |
| `Shutdown_lost` | `NothingLostOnExit` (index.ts:177-178, 206-207) | *violated*: the forced exit loses the buffer, which is in memory only |
| `Gateway_author` | `AuthorOfRoom` | *violated*: a stroke is signed with the identity of the next packet's token |
| `Pointer_touch` | `OnePress` with two pointers | *violated*: two fingers share one anchor, and a segment joins their strokes |

The modules state further properties that TLC refutes in seconds when one of these
configurations names them instead: `OneCompaction` (two compactions at once, strokeService.ts:330;
`Compaction_baseline`), `BufferedAboveCut` (strokeService.ts:325-326; the same with 3 strokes and 1
failure), `BufferAscending` (strokeService.ts:78; `StrokeService_degraded` with batches of 1 and 2
failures), `ReloadedOnlyAhead` (resync.ts:41; `JoinHistory_inflight`), `NoGhost`
(disconnecting.ts:36), `MembersNotReclaimed` (presenceService.ts:400-401; both `Presence_list`),
`RoomReclaimedAnyway` (presenceService.ts:396-398; `Presence_nosweep`), and
`AppliedOnce` (resync.ts:34-35; `Whiteboard_safety` with 1 stroke).

### Why the bounds are enough

* *Write path.* Two batches must be in flight together with a third stroke arriving, and a
  fourth must meet the re-buffered ones: four strokes in batches of two reach it, with failures of
  both INSERT and touch, of a retry, and, with 3 failures over 2 retries, beyond the budget. The delay
  doubles to the ceiling of 4 on the way; a base of 5 is above the ceiling. A second crash
  starts from a store like the first one's.
* *Compaction, history.* Every stroke is a batch of its own, cap 1 makes each count above one
  compact, and deletes of 2 need more than one statement. A baseline of 1 with a stored stroke
  above it stands for every board that was compacted before. `KeepTail` of the smallest cap is
  where its lower bound of 1 matters. One request suffices for a history because requests do not
  change what another sees.
* *Presence.* Two sockets over two colors reach a join that races a disconnect and a sweep and a
  color leaked by a failed join; three (`Presence_safety`) an exhausted pool and a color two
  users hold. A socket joins once, as the client opens a new one to reconnect.
* *Whiteboard.* Two strokes make a gap (one's own, then another's), and two troubles
  combine, for instance, a failed load with a lost connection, or a compaction with a crash.
  `MaxTrouble` bounds all of them together. Clients are interchangeable.
* *Shutdown.* A full batch in flight, a stroke in the buffer, and two failures of either; one
  client that leaves or stays, and an append that waits for the restore after its client has left.
* *Meters.* The window of 2 s is passed several times by a clock of 6 ticks of half a second, so
  that slots are reused; the slow bucket fills from a partial token; one setback reaches both.
* *Gateway.* Tokens for two rooms, one that expires while the other stays good, and one with a bad
  signature; two packets of one read are enough for a guard that runs before the other's
  handler; two draws exceed the capacity of 1 before a refill.
* *HttpApp.* A budget of one tick expires before, while and after a store that hangs comes back;
  the password is set between any two steps of one join and before the other. The addresses are the last
  one outside and the first one inside of each private block, at both ends, in IPv4, mapped and IPv6 form.
* *Canvas.* Three segments reach one painted, one appended and one loaded in bulk or after a clear;
  two views a resize and a pan in one frame.
* *Session.* Two navigations go away and back, or to another board, with the timer of the home page pending
  through both, and three moves send one frame, hold one back and meet its late timer; `Pointer_input` has the longer
  gestures, and attaches and detaches the input at any time.

In `StrokeService` and the modules on it, `Idle` lets the system stop when the bound on strokes
is reached and nothing is left to do; deadlock checking stays on, so any other state without a step is
an error. The models of a client, a connection or a request end when their bounds are used up: deadlock
checking is off there (`CHECK_DEADLOCK FALSE`), and the liveness properties say what must happen.

### Fairness

* *Write path*: a set timer fires, a settled promise resumes its awaiters, every query is answered
  (done or failed), and a restore ends. Node's event loop and the client library's timeouts give
  that. Nothing forces draws or crashes. Outages end because `MaxFailures` bounds failed
  statements: the properties say what happens once the store is back.
* *Presence*: Redis calls are answered, time passes and keys expire. Nothing in the server schedules a sweep, so none is
  assumed; no join, cursor move or disconnect is forced.
* *Shutdown*: only that the armed timer fires (`ForceExit`). Nothing is assumed of clients or stores.
* *HttpApp*: time passes, and a handler whose probes have all settled answers; a store may hang for good.
* *Canvas*: a requested animation frame runs. *Pointer*: time passes and timers fire.
* *Session*: the event loop goes on: pages render, timers fire, connections are made. Nothing is assumed of what the
  server sends, but in `Session_failed`, where every join is answered, with a history or an error.
  The number of lost connections is bounded.

## 4. Proofs

Theorems are in modules of their own, next to the component they are about or on top of it. All have one shape: an inductive
invariant, which contains the type invariant and the properties to prove, holds initially and is
kept by every step (one lemma per action, or per group of actions that act alike), and the theorems
`Spec => []P` follow from it by temporal logic. TLC confirmed each inductive invariant on the
instance of its run before it was proved: to repeat that, name it (`Inv`, `BInv`, `CInv`, `HInv`, `WInv`,
`GInv`, `KInv`, `SInv`, `AInv`, `PInv`, `TabInv`, `MInv`) under `INVARIANTS` of the configuration. The theorems hold for every value of the
constants that the assumptions named below allow.

| Module | Theorems |
|---|---|
| `StrokeService_proofs` | write path: `Invariance`, `TypeCorrect`, `NothingLost`, `NothingTwice`, `NothingStranded`, `NumbersUnique`, `DegradedExact`, `Refinement`; retries: `DelaysDouble`; shutdown: `ShutdownInvariance`, `ShutdownTypes`, `ShutdownKeepsWritePath`, `CleanExitSafe`, `FlushedLast` |
| `Compaction_proofs` | `CompactionInvariance`, `CompactionTypes`, `PruningSafe`, `PruningFreesNoNumber`, `FlagIsCleared`, `CompactionRefinement`; histories: `HistoryInvariance`, `HistoryTypes`, `DurableIsServed`, `HistoriesAscend` |
| `Whiteboard_proofs` | `WhiteboardInvariance`, `WhiteboardTypes`, `NoStrokeSkipped`, `QuietMembersConverged`; canvas: `CanvasInvariance`, `CanvasTypes`, `SceneOnceShown`, `CursorsInPlace` |
| `Presence_proofs` | `PresenceInvariant`, `PresenceTypes`, `ColorsStayDistinct`, `EveryUserIsReachable`, `KeysGetTtl` |
| `Gateway_proofs` | `GatewayInvariance`, `GatewayTypes`, `EffectsAuthorized`, `MembershipRespected`, `AuthorsResolved`, `DrawsBounded` |
| `HttpApp_proofs` | `HttpInvariance`, `HttpTypes`, `BudgetHeld`, `ReadySound`, `TokensWarranted`, `MetricsInside` |
| `Session_proofs` | input alone: `PointerInvariance`, `PointerTypes`, `LatestPosition`, `StrokesOfOnePress`, `FramesPaced`; in the tab: `SessionInvariance`, `ConnectionFollows`, `MembersFollow`, `GatePassedByName`, `TabFramesPaced`, `TabStrokesOfOnePress` |
| `Meters_proofs` | `MetersInvariance`, `MetersTypes`, `BucketGrantsTheWindow`, `RingTotalsTheWindow` |

Every safety property that a passing run checks, invariant or action property, is the statement of one of these
theorems, and so is the refinement.

### The inductive invariants

**Write path** (`Inv`). Until the baseline is restored nothing is numbered, buffered or in flight
(`EmptyUntilRestored`); every stored or accepted stroke and the baseline are numbered below
`nextSeq` (`NumberedBelowNext`), so a new number is fresh and ON CONFLICT DO NOTHING discards
only a stroke that is already stored; buffered and in-flight strokes were accepted
(`HeldIsAccepted`); a drain that is touching the board has stored its batch
(`TouchedIsStored`), so that completing it loses nothing; `flushAttempts` is bounded
by the failures. Refinement: the mapping makes `accepted \ rows` pending and `rows` durable; an
append is `Accept`, an INSERT (answered or not) `Persist`, a crash `Lose`, all else a stutter.

**Retries** (`BInv`). A retry is scheduled with the delay of the attempts there are, at the ceiling once the budget is
exhausted, so `DelaysDouble` needs the write path's `Inv` (`DegradedIffExhausted`) and what the constructor clamps (`PaceOK`).
`RetryDelayFollows` relates the code's formula, which doubles from the base and cuts at the ceiling, to the
property's.

**Compaction** (`CInv`). Pruning breaks the parts of `Inv` that speak of rows, so `CInv` says them of
`Stored`, what was ever in the store (`StoredBelowNext`, `TouchedWasStored`). That numbers survive
pruning rests on `TopSurvives`: above every baseline, highest cut, and cut or baseline that a compaction
under way holds there is a row, so no overlap of compactions deletes the highest row, from
which a restart takes its next number. `CutsRecorded` bounds what is deleted by what was
recorded as a baseline. Refinement: with the mapping of the write path a pruned stroke would fall out of the
log, and a batch whose answer was lost can be inserted again after it was pruned;
`CompactionImplementsLog` makes durable what was ever stored, and then a prune or a second INSERT is a
stutter.

**Histories** (`HInv`, on `CInv`). `OwedIsStored`: what was durable when the client asked was stored, so it is
missing from the table only because it was pruned. `LoadsComplete`: from the query of the tail on, the rows
in hand already are ascending and hold all that is owed, whatever is flushed, pruned or restored until the answer; merging the
buffer only adds to them. `BatchesDisjoint` keeps a stroke from being merged twice. That a sorted sequence of a finite set exists
(`OrderExists`) is proved by a smallest set without one, because induction is out of the prover's
reach. `Sorted` is what sorting means, an ordered bijection: of the operators of the libraries for it
the prover knows nothing.

**Shutdown** (`SInv`). The write path's `Inv` is kept by every step of the shutdown, which acts on it
only through `Flush` and the end of the pool. `ClosedOnce`: one shutdown runs, whatever signals follow, and
`flushAll` comes after the last connection has gone. `NothingHeldBack`: unless a statement fails or an append was
awaiting the restore, the buffer stays empty from then on, and a batch that is not stored when the pool
ends was sent before; `NotedByFlush` relates these two exceptions to what `flushAll` found.

**Whiteboard** (`WInv`). `MarkCovered` and `Converged` are about clients, but hold because of what is on
its way to them:
* `NumbersBelowNext`: every number of the board, the baseline, and every mark that did not outlive a crash
  are below the next number, and a number names one stroke;
* `EventsTrue`: an event shows the stroke the board has under its number, and a history has no gap below
  its last stroke that its client does not cover or has not passed. The latter is what lets the mark jump
  to the end of a history, and survives strokes drawn, pruned and stored while the history is under way,
  also when several histories and broadcasts arrive in the wrong order;
* `RequestsTrue`: a history is asked for from a mark the client has already reached, so nothing between is left
  out; the author of a draw that is on its way has the stroke, for it will never be sent it;
* `EachAskedOnce`: the draws that wait are of different strokes, and their count and the next number stay
  within the strokes drawn; `TypeOK` needs it, for numbers are bounded only by the strokes there are;
* `StrokesComing`: what a member lacks is in an event for it, or a load or a request of its own is under way.
  `Converged` is this invariant for a member that nothing is on its way to.

`Highest` is a `CHOOSE`: that the maximum exists is `Greatest`, from the well-foundedness of the naturals.

**Presence** (`Inv`). Distinct colors are not inductive over users alone: between
the allocation and the registration a color belongs to a join under way. `HeldReserved` says that
the colors of all holders, users and such joins, are in the color set and differ;
`NotYetRegistered` that a socket is not a user while it joins, so that a leave or a sweep frees
only colors of users. `KeysExpirable` is kept because a step that empties no key takes no time to live, and no
join that owes the EXPIRE commands ends without them (`StepsKeepKeys`).

**Meters** (`MInv`). `BucketIsWindow`: the tokens of a bucket are what the tightest of all intervals since its
granted events leaves, or the capacity. A refill raises all intervals alike (`RefillIsWindow`), a grant lowers them and
opens a new one (`GrantIsWindow`), so a token is there exactly if every interval has room. `SlotsCount`: a used slot counts a
second of its own remainder, no more than was recorded, and all of it as long as time only went forwards; two seconds of a
window never share a slot (`SlotOfOne`). The totals are sums over sets: `TotalDominated` compares two by an
injection of one set into the other, from the slots to their seconds and back. The sums of the community modules
are recursive functions; that such a function exists, is unique, and does not depend on the order (`TotalExists`, `TotalUnique`,
`TotalOfAny`) is proved by smallest counterexamples.

**Pointer** (`PInv`) **and session** (`TabInv`). `FramesInOrder` ties the throttle's timer to the last call and the
pending arguments to the last move, so a trailing frame is the latest and an interval after the one before. `AnchorIsPress`, for one
pointer, makes an anchor that of the press that is down. In the tab `EffectsFollowRender` says that connection, input, and
the member list received are those of the render whose effects ran last, not of the one on the page; `JoinedIsNamed` that the
joined flag is of the address, although a navigation renders before its effects reset it; `NamesKnown` that no
address or store holds a name before the visitor gave one, so nothing passes the gate without.

**Gateway** (`GInv`). The guard runs for all packets of a read before the first handler.
`InboxWarranted` carries its verdict over: every guarded packet that waits has a genuine, unexpired token among
those presented (`Warrant`), because no time passes and no token is withdrawn between;
`RoomsByPhase` ties the rooms of the socket to those entered and left in each phase of the connection;
`DrawsTried` with the bucket's arithmetic (`ConsumeBucket`, `QuotientBound`) gives `DrawsLimited`.

**HttpApp** (`AInv`). `ChecksNoted`: what works while a probe waits counts as reached, and its status is ok
only of what was; `RequestsByPhase`: a board keeps the password it was given, so a join that begins later gets to
the insert only past the comparison, and only callers inside get to the metrics. That the metrics guard is exact compares the source's tests on octets and prefixes with
the blocks of the registries by arithmetic (`Blocks4`, `Blocks6`, `GuardExact`), for all addresses.

**Canvas** (`KInv`). `PrefixPainted`: while only appends are pending, what is painted is a prefix of the
scene, `paintedCount` long and under the current view, so painting the rest completes it; `EngineAlive`: input
and frames reach a mounted canvas only; `NodesInPlace`: the cursor nodes are those of listed members, and
stale only while the overlay is dirty.

### Assumptions

* write path, compaction, shutdown: batch size, cap and deletes per statement are positive; retry budget and
  bounds are natural numbers;
* presence: the pool is not empty;
* gateway: capacities, refills and the ticks of a second are positive; the placeholders (`NoRoom`, `NoUser`, the
  socket's own room) are no rooms or identities of the tokens;
* HTTP: the budget is positive, the database is one of the stores, and the peers are addresses from which a
  connection can come;
* canvas and whiteboard: bounds are natural numbers, `NoColor` is no color;
* meters: the window and the ticks of a second are positive, every key has a configuration;
* pointer and session: the interval and bounds are natural numbers, placeholders are no boards, names or presses. `OnePress`
  is proved for one pointer, as a hypothesis of its theorems; `Pointer_touch` shows it fails with two;
* retries: a power of two is a positive number up to the bound on failures (`PowersAssumption`); the prover knows
  nothing of exponents, and TLC evaluates it.

Nothing is assumed of the sets of clients, sockets, rooms or tokens: they may be infinite.

### What only TLC checks

* Liveness: it needs fairness and ENABLED, which the prover does not handle. That covers the write path's
  recovery, the reclaim of a room, the end of a shutdown, answers to readiness, repaints, the request for a joined board
  and the last cursor frame.
* `RecentBoards` and the type of the recent boards in `Session`: they are filtered by `SelectSeq`, which the
  prover knows nothing of.
* `Cluster`, where the property fails, as do those of the configurations that are expected to.

## 5. Plan

The model is complete as far as section 6 leaves it, and the safety properties of its passing runs are proved. What
would come next:

1. `Cluster`: which part of the write path's promise one process still keeps when others number the same board, and
   the invariant for it.
2. Proofs of liveness, when a prover for ENABLED is at hand: `AcceptedBecomesDurable` and `RoomReclaimed` first.

## 6. Not modelled

* Configuration, logging, types, schemas and datastore clients: parsing at start-up and I/O.
  Their defaults are constants of the modules. `STROKE_CAP` is parsed from the environment and not
  passed to the service (index.ts:127), so the cap is always the default.
* CORS, body parsing, static files and the SPA fallback: express configuration without state. In
  production plain-HTTP requests are refused before any route (app.ts:142), `/healthz` included.
* The prom-client registry: an external library, and nothing in the server records into it, although
  index.ts:73-75 says so. Credentials for `/metrics` exist in the code and are not configured
  (index.ts:90), so only the address decides.
* The legacy in-memory rooms: no handler registered by the gateway uses them.
* UI components, visual stores, focus handling, export: presentation.
* Canvas geometry: floating point. The viewport is a version number.
* PostgreSQL and Redis are external: a statement or a script is atomic, as the code relies on.
  `insertBatch`'s chunks are one transaction, and one atomic statement here.

Things met while modelling that no property is about: a clear is broadcast and not persisted
(clear.ts:20-28), so a later joiner is served the cleared strokes; the client takes a history
without its snapshot; it does not reconnect after the server's `disconnect(true)` (gateway.ts:275),
and it sends no token of its own, so it relies on OPEN_MODE; a wheel event during a
pan moves the viewport under a pan origin that is not updated (PointerSampler.ts:107); a second click on the
home page within 300 ms leaves a timer that navigates a mounted view, and a `joined` flag of the view
before records a visit when the next one mounts (BoardRoute.tsx:65), which the gate then asks
about; the error boundary says that the connection is still active (ErrorBoundary.tsx:92-93),
when the view that owns it has been unmounted.
