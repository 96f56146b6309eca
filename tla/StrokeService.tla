--------------------------- MODULE StrokeService ---------------------------
(***************************************************************************)
(* The write path of server/src/services/strokeService.ts for one board in *)
(* one server process: restoring the sequence baseline, append, the        *)
(* write-behind buffer, size-, interval- and retry-triggered flushes, the  *)
(* degraded flag, and a crash and restart of the process.                  *)
(*                                                                         *)
(* An action is what Node runs between two I/O completions: a handler or a *)
(* timer callback up to its first pending query, or the continuation of a  *)
(* query that has just been answered.  An `await` on a query is therefore  *)
(* a boundary between actions, an `await` on a settled promise is not.     *)
(*                                                                         *)
(* Abstractions: a stroke is its sequence number and its nanoid; timers    *)
(* may fire whenever they are set (delays are not modelled); boards do not *)
(* interact, so one is enough; a statement is executed and answered in one *)
(* step, except that a failed INSERT may have been committed.              *)
(*                                                                         *)
(* An operator X_Y that stands before an operator X is X with a plausible  *)
(* bug Y; the specification does not use it (see README, "Mutants").       *)
(***************************************************************************)
EXTENDS Integers, Sequences, Functions

CONSTANTS
  FlushBatchSize,   \* buffer length that triggers an immediate flush
  MaxFlushRetries,  \* failed attempts tolerated before the board is degraded
  MaxBaseline,      \* bound: compaction baselines the process may start from
  MaxStrokes,       \* bound: strokes ever accepted
  MaxFailures,      \* bound: statements the Persistence_Store ever fails
  MaxCrashes        \* bound: ungraceful process exits

ASSUME BatchSizeAssumption == FlushBatchSize \in Nat \ {0}
ASSUME RetriesAssumption   == MaxFlushRetries \in Nat
ASSUME BoundsAssumption    ==
  /\ MaxBaseline \in Nat
  /\ MaxStrokes \in Nat
  /\ MaxFailures \in Nat
  /\ MaxCrashes \in Nat

VARIABLES
  \* BoardState, lost in a crash
  initPhase,            \* initPromise: "none", pending ("restoring"), or settled ("ready")
  waiting,              \* appends awaiting a pending initPromise
  nextSeq,
  buffer,
  timer,                \* an interval flush is scheduled
  retryTimer,           \* a backoff retry is scheduled
  flushAttempts,
  persistenceDegraded,
  drains,               \* the drainOnce calls awaiting the store: their batch, their query
  \* the Persistence_Store
  rows,                 \* the board's rows of the strokes table
  snapshotSeq,          \* boards.snapshot_seq
  \* history and bounds
  accepted,             \* strokes this process has returned from append
  nextId,               \* the nanoid of the next stroke
  failures,
  crashes

initVars   == <<initPhase, waiting, nextSeq>>
timerVars  == <<timer, retryTimer>>
healthVars == <<flushAttempts, persistenceDegraded>>
storeVars  == <<rows, snapshotSeq>>
historyVars == <<accepted, nextId>>
boundVars  == <<failures, crashes>>
vars == <<initVars, buffer, timerVars, healthVars, drains, storeVars,
          historyVars, boundVars>>

MaxSeq == MaxBaseline + 1 + MaxStrokes
Stroke == [seq : 1..MaxSeq, id : 0..MaxStrokes]
Drain  == [batch : Seq(Stroke), query : {"insert", "touch"}]

InFlight == UNION {Range(d.batch) : d \in drains}

TypeOK ==
  /\ initPhase \in {"none", "restoring", "ready"}
  /\ waiting \in 0..MaxStrokes
  /\ nextSeq \in 0..MaxSeq + 1
  /\ buffer \in Seq(Stroke)
  /\ timer \in BOOLEAN
  /\ retryTimer \in BOOLEAN
  /\ flushAttempts \in 0..MaxFailures
  /\ persistenceDegraded \in BOOLEAN
  /\ drains \subseteq Drain
  /\ rows \subseteq Stroke
  /\ snapshotSeq \in 0..MaxSeq
  /\ accepted \subseteq Stroke
  /\ nextId \in 1..MaxStrokes + 1
  /\ failures \in 0..MaxFailures
  /\ crashes \in 0..MaxCrashes

(***************************************************************************)
(* The process starts on a fresh board, or on one that was compacted: its  *)
(* baseline, and one retained stroke above it.                             *)
(***************************************************************************)
Init ==
  /\ initPhase = "none" /\ waiting = 0 /\ nextSeq = 0
  /\ buffer = <<>>
  /\ timer = FALSE /\ retryTimer = FALSE
  /\ flushAttempts = 0 /\ persistenceDegraded = FALSE
  /\ drains = {}
  /\ snapshotSeq \in 0..MaxBaseline
  /\ rows = IF snapshotSeq = 0 THEN {} ELSE {[seq |-> snapshotSeq + 1, id |-> 0]}
  /\ accepted = {} /\ nextId = 1
  /\ failures = 0 /\ crashes = 0

\* What the readiness endpoint reads.
IsPersistenceHealthy == ~persistenceDegraded

-----------------------------------------------------------------------------
(* The Persistence_Store *)

\* INSERT ... ON CONFLICT (board_id, seq) DO NOTHING: a stroke whose sequence
\* number is taken is dropped without an error.
AfterInsert(strokes) ==
  rows \union {s \in strokes : \A r \in rows : r.seq # s.seq}

LoadSince(seq) == {s \in rows : s.seq > seq}

-----------------------------------------------------------------------------
(* Restoring the sequence baseline *)

\* A draw reaches append before the board is restored: it starts initBoard, or
\* joins the pending one, and waits for it.
AwaitInit ==
  /\ initPhase # "ready"
  /\ nextId + waiting <= MaxStrokes
  /\ initPhase' = "restoring"
  /\ waiting' = waiting + 1
  /\ UNCHANGED <<nextSeq, buffer, timerVars, healthVars, drains, storeVars,
                 historyVars, boundVars>>

\* The numbers initBoard chooses its highest from: the persisted tail's, or the
\* compaction baseline's if there is no tail.
Restorable_BaselineOnly == {snapshotSeq}
Restorable == {snapshotSeq} \union {s.seq : s \in LoadSince(snapshotSeq)}

\* The first number assigned is one past the highest.
FirstSeq(highest) == highest + 1

InitDone ==
  /\ initPhase = "restoring"
  /\ initPhase' = "ready"
  /\ \E highest \in Restorable :
        /\ \A seq \in Restorable : seq <= highest
        /\ nextSeq' = FirstSeq(highest)
  /\ UNCHANGED <<waiting, buffer, timerVars, healthVars, drains, storeVars,
                 historyVars, boundVars>>

\* The appends that awaited the restore have all resumed: their continuations run
\* before Node takes the next event.
Resumed == initPhase = "ready" => waiting = 0

\* A failed restore is forgotten and rejects the appends that awaited it.
InitFails ==
  /\ initPhase = "restoring"
  /\ failures < MaxFailures
  /\ failures' = failures + 1
  /\ initPhase' = "none"
  /\ waiting' = 0
  /\ UNCHANGED <<nextSeq, buffer, timerVars, healthVars, drains, storeVars,
                 historyVars, crashes>>

-----------------------------------------------------------------------------
(* Flushing *)

MarkPersisted_AttemptsOnly ==
  /\ flushAttempts' = 0
  /\ UNCHANGED persistenceDegraded
MarkPersisted ==
  /\ flushAttempts' = 0
  /\ persistenceDegraded' = FALSE

\* What is left in the buffer once a drain has captured it.
Captured_NotCleared(buf) == buf
Captured(buf) == <<>>

\* drainOnce and the markPersisted that follows it.  With nothing to write there
\* is nothing to await, and the board counts as persisted at once.
DrainOnce(buf) ==
  \/ /\ buf = <<>>
     /\ buffer' = <<>>
     /\ MarkPersisted
     /\ UNCHANGED drains
  \/ /\ buf # <<>>
     /\ buffer' = Captured(buf)
     /\ drains' = drains \union {[batch |-> buf, query |-> "insert"]}
     /\ UNCHANGED healthVars

\* flush supersedes the scheduled interval flush and the scheduled retry.
Flush(buf) ==
  /\ timer' = FALSE
  /\ retryTimer' = FALSE
  /\ DrainOnce(buf)

\* A failed batch goes back in front of what was buffered meanwhile.
Rebuffered_Dropped(batch) == buffer
Rebuffered(batch) == batch \o buffer

\* The retry budget is exhausted by this many failed attempts.
Exhausted_OneEarly(attempts) == attempts >= MaxFlushRetries
Exhausted(attempts) == attempts > MaxFlushRetries

\* A retry is scheduled whether or not the budget is exhausted.
RetryScheduled(attempts) == TRUE

HandleFlushFailure ==
  /\ flushAttempts' = flushAttempts + 1
  /\ persistenceDegraded' = (persistenceDegraded \/ Exhausted(flushAttempts + 1))
  /\ retryTimer' = RetryScheduled(flushAttempts + 1)

-----------------------------------------------------------------------------
(* append *)

\* The stroke takes the next number and is pushed; a full buffer is flushed at
\* once, any other waits for the interval flush.
Enqueue ==
  LET stroke == [seq |-> nextSeq, id |-> nextId]
      pushed == Append(buffer, stroke)
  IN
  /\ nextSeq' = nextSeq + 1
  /\ nextId' = nextId + 1
  /\ accepted' = accepted \union {stroke}
  /\ \/ /\ Len(pushed) >= FlushBatchSize
        /\ Flush(pushed)
     \/ /\ Len(pushed) < FlushBatchSize
        /\ buffer' = pushed
        /\ timer' = TRUE
        /\ UNCHANGED <<retryTimer, healthVars, drains>>

\* A draw on a restored board.
AppendStroke ==
  /\ initPhase = "ready" /\ Resumed
  /\ nextId <= MaxStrokes
  /\ Enqueue
  /\ UNCHANGED <<initPhase, waiting, storeVars, boundVars>>

\* A draw that awaited the restore goes on.
ResumeAppend ==
  /\ initPhase = "ready"
  /\ waiting > 0
  /\ waiting' = waiting - 1
  /\ Enqueue
  /\ UNCHANGED <<initPhase, storeVars, boundVars>>

-----------------------------------------------------------------------------
(* Timers, and the answers of the Persistence_Store *)

\* The interval timer: flush.
TimerFires ==
  /\ timer /\ Resumed
  /\ Flush(buffer)
  /\ UNCHANGED <<initVars, storeVars, historyVars, boundVars>>

\* The retry timer: drainOnce, with the interval flush left as it is.
RetryFires ==
  /\ retryTimer /\ Resumed
  /\ retryTimer' = FALSE
  /\ DrainOnce(buffer)
  /\ UNCHANGED <<initVars, timer, storeVars, historyVars, boundVars>>

\* insertBatch is done; drainOnce goes on to touch the board.
InsertDone(d) ==
  /\ d.query = "insert" /\ Resumed
  /\ rows' = AfterInsert(Range(d.batch))
  /\ drains' = (drains \ {d}) \union {[d EXCEPT !.query = "touch"]}
  /\ UNCHANGED <<initVars, buffer, timerVars, healthVars, snapshotSeq,
                 historyVars, boundVars>>

TouchDone(d) ==
  /\ d.query = "touch" /\ Resumed
  /\ drains' = drains \ {d}
  /\ MarkPersisted
  /\ UNCHANGED <<initVars, buffer, timerVars, storeVars, historyVars, boundVars>>

\* A query of drainOnce fails.  An INSERT reported as failed may have been
\* committed: only its answer was lost.
DrainFails(d) ==
  /\ failures < MaxFailures /\ Resumed
  /\ failures' = failures + 1
  /\ drains' = drains \ {d}
  /\ buffer' = Rebuffered(d.batch)
  /\ HandleFlushFailure
  /\ \/ rows' = rows
     \/ d.query = "insert" /\ rows' = AfterInsert(Range(d.batch))
  /\ UNCHANGED <<initVars, timer, snapshotSeq, historyVars, crashes>>

\* The process exits and is started again.  Each INSERT that was under way is
\* committed or rolled back by then; everything in memory is gone.
Crash ==
  /\ crashes < MaxCrashes /\ Resumed
  /\ crashes' = crashes + 1
  /\ \E committed \in SUBSET {d \in drains : d.query = "insert"} :
        rows' = AfterInsert(UNION {Range(d.batch) : d \in committed})
  /\ initPhase' = "none" /\ waiting' = 0 /\ nextSeq' = 0
  /\ buffer' = <<>>
  /\ timer' = FALSE /\ retryTimer' = FALSE
  /\ flushAttempts' = 0 /\ persistenceDegraded' = FALSE
  /\ drains' = {}
  /\ accepted' = {}
  /\ UNCHANGED <<snapshotSeq, nextId, failures>>

\* Nobody draws any more and everything is written: the process idles.
Idle ==
  /\ nextId > MaxStrokes
  /\ waiting = 0 /\ buffer = <<>> /\ drains = {}
  /\ ~timer /\ ~retryTimer
  /\ UNCHANGED vars

StoreAnswers == \E d \in drains : InsertDone(d) \/ TouchDone(d) \/ DrainFails(d)

Next ==
  \/ AwaitInit
  \/ InitDone
  \/ InitFails
  \/ AppendStroke
  \/ ResumeAppend
  \/ TimerFires
  \/ RetryFires
  \/ StoreAnswers
  \/ Crash
  \/ Idle

Spec == Init /\ [][Next]_vars

(***************************************************************************)
(* Fairness: a scheduled timer fires, a promise that settled resumes its   *)
(* awaiters, and every query is answered, one way or the other.  That the  *)
(* store does not fail for ever is the bound MaxFailures.                  *)
(***************************************************************************)
Fairness ==
  /\ WF_vars(InitDone \/ InitFails)
  /\ WF_vars(ResumeAppend)
  /\ WF_vars(TimerFires)
  /\ WF_vars(RetryFires)
  /\ \A n \in 1..MaxStrokes :
        WF_vars(\E d \in drains : /\ Head(d.batch).id = n
                                  /\ InsertDone(d) \/ TouchDone(d) \/ DrainFails(d))

FairSpec == Spec /\ Fairness

-----------------------------------------------------------------------------
(* Correctness *)

\* What append accepted is durable, buffered, or being written: no order of
\* flushes, failures, retries and answers drops an accepted stroke
\* (drainOnce: "so no accepted stroke is lost").
NoAcceptedStrokeLost == accepted \subseteq rows \union Range(buffer) \union InFlight

\* No stroke is in two places at once: two batches in flight, or a batch and the
\* buffer, or the buffer twice (drainOnce: "a racing flush observes an empty
\* buffer and writes nothing twice").
BatchesDisjoint ==
  /\ IsInjective(buffer)
  /\ \A d \in drains :
       /\ IsInjective(d.batch)
       /\ Range(d.batch) \intersect Range(buffer) = {}
       /\ \A e \in drains : d = e \/ Range(d.batch) \intersect Range(e.batch) = {}

\* Buffered strokes always have a flush coming: although a flush cancels both
\* timers, and a failure schedules only one, strokes never stay in the buffer
\* with neither timer set.
NoStrandedBuffer == buffer # <<>> => timer \/ retryTimer

\* A sequence number names one stroke, across flushes that overtake one another,
\* failed answers of committed writes, crashes and restores: ON CONFLICT DO
\* NOTHING never discards a stroke other than one already stored.
SeqNamesOneStroke ==
  \A s, t \in rows \union accepted : s.seq = t.seq => s = t

\* The board is degraded exactly when more than MaxFlushRetries attempts have
\* failed since the counter was last reset, however many drains fail or succeed
\* side by side.
DegradedIffExhausted == persistenceDegraded <=> flushAttempts > MaxFlushRetries

(***************************************************************************)
(* The inductive invariant behind the safety properties.                   *)
(***************************************************************************)

\* Until the baseline is restored nothing is numbered, buffered or in flight.
EmptyUntilRestored ==
  initPhase # "ready" =>
    /\ nextSeq = 0 /\ buffer = <<>> /\ drains = {} /\ accepted = {}
    /\ ~timer /\ ~retryTimer

\* Every stroke, and the baseline, is numbered below what comes next; the bounds
\* on ids bound the numbers.
NumberedBelowNext ==
  /\ nextId + waiting <= MaxStrokes + 1
  /\ nextSeq <= MaxBaseline + nextId + 1
  /\ snapshotSeq <= MaxBaseline + nextId
  /\ initPhase = "ready" => snapshotSeq < nextSeq
  /\ \A s \in rows \union accepted :
        /\ s.seq <= MaxBaseline + nextId
        /\ initPhase = "ready" => s.seq < nextSeq

\* What is buffered or in flight was accepted by this process.
HeldIsAccepted == Range(buffer) \union InFlight \subseteq accepted

\* A drain that touches the board has stored its batch.
TouchedIsStored ==
  \A d \in drains : d.query = "touch" => Range(d.batch) \subseteq rows

AttemptsAreFailures == flushAttempts <= failures

Inv ==
  /\ TypeOK
  /\ EmptyUntilRestored
  /\ NumberedBelowNext
  /\ HeldIsAccepted
  /\ TouchedIsStored
  /\ AttemptsAreFailures
  /\ NoAcceptedStrokeLost
  /\ BatchesDisjoint
  /\ NoStrandedBuffer
  /\ SeqNamesOneStroke
  /\ DegradedIffExhausted

\* An accepted stroke eventually reaches the store, unless the process crashes
\* before: append promises that it "will be durably persisted ... unless the
\* process is killed non-gracefully".
AcceptedBecomesDurable ==
  \A n \in 1..MaxStrokes :
     (\E s \in accepted : s.id = n) ~>
        \/ \E s \in rows : s.id = n
        \/ \A s \in accepted : s.id # n

\* A degraded board recovers once the store does: the background retries go on
\* after the retry budget is exhausted.
DegradedRecovers == ~IsPersistenceHealthy ~> IsPersistenceHealthy

\* The service implements the durable log: an accepted stroke that is not in the
\* store is pending, a row is durable.
Log == INSTANCE DurableLog WITH
         LogStroke <- Stroke,
         pending   <- accepted \ rows,
         durable   <- rows

ImplementsDurableLog == Log!LogSpec

(***************************************************************************)
(* Statements of comments in the code that do not hold.                    *)
(***************************************************************************)

\* BoardState.buffer (line 78) holds strokes "in ascending seq order"; drainOnce
\* puts a failed batch first "to preserve ascending seq order" (line 513).
BufferAscending ==
  \A i, j \in DOMAIN buffer : i < j => buffer[i].seq < buffer[j].seq

\* persistenceDegraded (line 107) is "Cleared on the next successful flush":
\* short of a restart, the flag falls only when a drain has just been completed.
DegradedClearedByWrite ==
  [][persistenceDegraded /\ ~persistenceDegraded' =>
        crashes' # crashes \/ \E d \in drains : d \notin drains']_vars

=============================================================================
