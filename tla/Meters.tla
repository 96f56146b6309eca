------------------------------- MODULE Meters -------------------------------
(***************************************************************************)
(* What the server measures by the wall clock: the per-key token buckets   *)
(* of TokenBucketRateLimiter (server/src/middleware/rateLimiter.ts, and    *)
(* httpRateLimiter.ts, which keeps the same map of buckets), and the       *)
(* rolling stroke rate of server/src/observability/metrics.ts.             *)
(*                                                                         *)
(* The clock is Date.now: it advances, and may be set back.                *)
(***************************************************************************)
EXTENDS TokenBucket, Sequences, FiniteSets, FiniteSetsExt

CONSTANTS
  Keys,            \* "draw:<id>", "cursor-move:<id>", or client addresses
  ConfigOf,        \* the bucket configuration of each key
  WindowSeconds,   \* length of the rolling window
  MaxClock,        \* bound: time
  MaxBack,         \* bound: how often the clock is set back
  MaxGranted,      \* bound: events granted of a key
  MaxRecorded      \* bound: events recorded in a second

ASSUME MetersAssumption ==
  /\ ConfigOf \in [Keys -> Config]
  /\ WindowSeconds \in Nat \ {0}
  /\ MaxClock \in Nat /\ MaxBack \in Nat /\ MaxGranted \in Nat /\ MaxRecorded \in Nat

VARIABLES
  clock,
  buckets,    \* the buckets created so far
  ring,       \* the one-second buckets of RollingRate
  \* history
  backs,      \* how often the clock was set back
  seen,       \* the clock at the last event of a key
  travel,     \* time that has passed forwards between the events of a key
  granted,    \* the travel at each event granted
  exact,      \* the last event was granted exactly if the window reference grants it
  recorded    \* the events of each second

limiterVars == <<buckets, seen, travel, granted, exact>>
rateVars    == <<ring, recorded>>
mvars == <<clock, backs, limiterVars, rateVars>>

Seconds == 0..MaxClock \div TicksPerSec
EpochSecond == clock \div TicksPerSec

MTypeOK ==
  /\ clock \in 0..MaxClock
  /\ DOMAIN buckets \subseteq Keys
  /\ \A k \in DOMAIN buckets :
        /\ buckets[k].tokens \in 0..ConfigOf[k].capacity * TicksPerSec
        /\ buckets[k].lastRefill \in 0..MaxClock
  /\ ring \in [0..WindowSeconds - 1 -> [second : Seconds \union {-1}, count : Nat]]
  /\ backs \in 0..MaxBack
  /\ seen \in [Keys -> 0..MaxClock]
  /\ travel \in [Keys -> Nat]
  /\ granted \in [Keys -> Seq(Nat)]
  /\ exact \in BOOLEAN
  /\ recorded \in [Seconds -> Nat]

MInit ==
  /\ clock = 0 /\ backs = 0
  /\ buckets = [k \in {} |-> 0]
  /\ ring = [slot \in 0..WindowSeconds - 1 |-> [second |-> -1, count |-> 0]]
  /\ seen = [k \in Keys |-> 0] /\ travel = [k \in Keys |-> 0]
  /\ granted = [k \in Keys |-> <<>>] /\ exact = TRUE
  /\ recorded = [s \in Seconds |-> 0]

Advance ==
  /\ clock < MaxClock
  /\ clock' = clock + 1
  /\ UNCHANGED <<backs, limiterVars, rateVars>>

SetBack ==
  /\ backs < MaxBack
  /\ backs' = backs + 1
  /\ clock' \in 0..clock - 1
  /\ UNCHANGED <<limiterVars, rateVars>>

-----------------------------------------------------------------------------
(* TokenBucketRateLimiter *)

\* The bucket of a key is created, full, on its first event.
BucketFor(k) ==
  IF k \in DOMAIN buckets THEN buckets[k] ELSE CreateBucket(ConfigOf[k], clock)

\* The reference: an event is granted if no interval that ends with it holds more
\* granted events than the capacity and what is refilled in the interval.
WindowsAllow(k, now) ==
  \A i \in 1..Len(granted[k]) + 1 :
     LET events == Len(granted[k]) + 2 - i
         since  == IF i > Len(granted[k]) THEN now ELSE granted[k][i]
     IN  events * TicksPerSec
           <= ConfigOf[k].capacity * TicksPerSec + ConfigOf[k].refillPerSec * (now - since)

TryConsume(k) ==
  LET ok     == Granted(ConfigOf[k], BucketFor(k), clock)
      passed == IF k \in DOMAIN buckets /\ clock > seen[k] THEN clock - seen[k] ELSE 0
  IN
  /\ Len(granted[k]) < MaxGranted
  /\ buckets' = [j \in DOMAIN buckets \union {k} |->
                   IF j = k THEN Consume(ConfigOf[k], BucketFor(k), clock) ELSE buckets[j]]
  /\ seen' = [seen EXCEPT ![k] = clock]
  /\ travel' = [travel EXCEPT ![k] = @ + passed]
  /\ granted' = IF ok THEN [granted EXCEPT ![k] = Append(@, travel'[k])] ELSE granted
  /\ exact' = (ok <=> WindowsAllow(k, travel'[k]))
  /\ UNCHANGED <<clock, backs, rateVars>>

-----------------------------------------------------------------------------
(* RollingRate *)

\* A slot that holds another second starts again from zero.
Reused_NotReset(slot) == [slot EXCEPT !.second = EpochSecond]
Reused(slot) ==
  IF slot.second = EpochSecond THEN slot ELSE [second |-> EpochSecond, count |-> 0]

\* The slot with one more event of the second.
Counted(slot) == [Reused(slot) EXCEPT !.count = @ + 1]

Record ==
  LET slot == EpochSecond % WindowSeconds IN
  /\ recorded[EpochSecond] < MaxRecorded
  /\ ring' = [ring EXCEPT ![slot] = Counted(@)]
  /\ recorded' = [recorded EXCEPT ![EpochSecond] = @ + 1]
  /\ UNCHANGED <<clock, backs, limiterVars>>

OldestInWindow == EpochSecond - WindowSeconds + 1

InWindow(second) == second >= OldestInWindow /\ second <= EpochSecond

WindowTotal ==
  MapThenSumSet(LAMBDA slot : ring[slot].count,
                {slot \in DOMAIN ring : InWindow(ring[slot].second)})

\* The time the model looks at is over.
Over == clock = MaxClock /\ UNCHANGED mvars

MNext ==
  \/ Advance
  \/ SetBack
  \/ \E k \in Keys : TryConsume(k)
  \/ Record
  \/ Over

MSpec == MInit /\ [][MNext]_mvars

-----------------------------------------------------------------------------
(* Correctness *)

\* The bucket is the sliding window: an event is granted exactly if every interval
\* that ends with it stays within the capacity plus its refill, however the events
\* of the keys, the steps of the clock and the refusals alternate; a clock that is
\* set back refills nothing twice beyond the time that passed forwards.
LimitExact == exact

Recorded(seconds) == MapThenSumSet(LAMBDA s : recorded[s], seconds)

\* The total is the number of events of the last WindowSeconds seconds, although one slot
\* serves many seconds (RollingRate: "a bucket only contributes while it is still inside
\* the window"); a clock that is set back loses events from it, and never invents any.
WindowTotalExact ==
  LET inWindow == Recorded({s \in Seconds : s >= OldestInWindow /\ s <= EpochSecond})
  IN  WindowTotal <= inWindow /\ (backs = 0 => WindowTotal = inWindow)

(***************************************************************************)
(* The inductive invariants behind the two.                                *)
(***************************************************************************)

\* What the interval since the i-th event granted of a key leaves of its capacity and
\* its refill, at the last event of the key.
Level(k, i) ==
  ConfigOf[k].capacity * TicksPerSec
    + ConfigOf[k].refillPerSec * (travel[k] - granted[k][i])
    - (Len(granted[k]) + 1 - i) * TicksPerSec

\* The bucket of a key holds what the tightest of these intervals leaves, or is full.
BucketIsWindow ==
  \A k \in Keys :
     /\ k \notin DOMAIN buckets => granted[k] = <<>>
     /\ k \in DOMAIN buckets =>
          /\ buckets[k].lastRefill = seen[k]
          /\ \A i \in 1..Len(granted[k]) : buckets[k].tokens <= Level(k, i)
          /\ \/ buckets[k].tokens = ConfigOf[k].capacity * TicksPerSec
             \/ \E i \in 1..Len(granted[k]) : buckets[k].tokens = Level(k, i)

\* A slot that has been used counts a second of its own, no more than was recorded then;
\* while the clock was never set back it counts all, of every second in the window.
SlotsCount ==
  /\ \A slot \in DOMAIN ring :
       IF ring[slot].second = -1 THEN ring[slot].count = 0
       ELSE /\ ring[slot].second % WindowSeconds = slot
            /\ ring[slot].count <= recorded[ring[slot].second]
  /\ backs = 0 =>
       /\ \A s \in Seconds : s > EpochSecond => recorded[s] = 0
       /\ \A slot \in DOMAIN ring :
            ring[slot].second # -1 => /\ ring[slot].second <= EpochSecond
                                      /\ ring[slot].count = recorded[ring[slot].second]
       /\ \A s \in Seconds :
            InWindow(s) /\ recorded[s] > 0 => ring[s % WindowSeconds].second = s

MInv == MTypeOK /\ BucketIsWindow /\ SlotsCount /\ LimitExact

=============================================================================
