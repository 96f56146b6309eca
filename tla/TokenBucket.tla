----------------------------- MODULE TokenBucket -----------------------------
(***************************************************************************)
(* The token bucket of server/src/middleware/rateLimiter.ts, shared by the *)
(* limits on socket events and by the limit on the join endpoint.          *)
(*                                                                         *)
(* Time is in ticks, TicksPerSec to the second (the code: milliseconds),   *)
(* and tokens are counted in units of 1/TicksPerSec, so that a refill is   *)
(* exact; the code adds the same amounts in floating point.                *)
(***************************************************************************)
EXTENDS Integers

CONSTANT TicksPerSec

ASSUME TicksAssumption == TicksPerSec \in Nat \ {0}

Config == [capacity : Nat \ {0}, refillPerSec : Nat \ {0}]
Bucket == [tokens : Nat, lastRefill : Nat]

\* A new bucket is full.
CreateBucket(config, now) ==
  [tokens |-> config.capacity * TicksPerSec, lastRefill |-> now]

\* No time passes on a clock that was set back.
Elapsed(bucket, now) ==
  IF now >= bucket.lastRefill THEN now - bucket.lastRefill ELSE 0

Capped(config, tokens) ==
  IF tokens <= config.capacity * TicksPerSec THEN tokens ELSE config.capacity * TicksPerSec

Refill_Undated(config, bucket, now) ==
  [tokens |-> Capped(config, bucket.tokens + Elapsed(bucket, now) * config.refillPerSec),
   lastRefill |-> bucket.lastRefill]
Refill(config, bucket, now) ==
  [tokens |-> Capped(config, bucket.tokens + Elapsed(bucket, now) * config.refillPerSec),
   lastRefill |-> now]

\* Is there a token for one event?
Granted(config, bucket, now) == Refill(config, bucket, now).tokens >= TicksPerSec

\* A refused event leaves the bucket refilled.
Consume(config, bucket, now) ==
  IF Granted(config, bucket, now)
  THEN [Refill(config, bucket, now) EXCEPT !.tokens = @ - TicksPerSec]
  ELSE Refill(config, bucket, now)

=============================================================================
