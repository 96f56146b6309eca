------------------------------ MODULE Backoff ------------------------------
(***************************************************************************)
(* The delay of the retry that the write path schedules after a failed     *)
(* flush: exponential backoff within the bounds the constructor of         *)
(* StrokeService takes from its options (strokeService.ts).                *)
(*                                                                         *)
(* A number of milliseconds is a number of ticks, and Infinite once it has *)
(* left the range of a double.                                             *)
(***************************************************************************)
EXTENDS StrokeService, FiniteSetsExt

CONSTANTS
  BaseOptions, CeilingOptions,  \* values of the options retryBaseDelayMs, retryMaxDelayMs
  DefaultBase, DefaultCeiling,
  Infinite                      \* Number.MAX_VALUE

Unset == -1

ASSUME BackoffAssumption ==
  /\ BaseOptions \union CeilingOptions \subseteq Nat \union {Unset}
  /\ DefaultBase \in Nat \ {0} /\ DefaultCeiling \in Nat \ {0}
  /\ Infinite \in Nat /\ \A o \in BaseOptions \union CeilingOptions : o < Infinite

\* The powers of two that a delay is computed from are positive: evaluated by TLC, and a
\* fact that the provers do not know of exponentiation.
ASSUME PowersAssumption == \A n \in 0..MaxFailures : 2^n \in Nat \ {0}

VARIABLES
  pace,     \* retryBaseDelayMs and retryMaxDelayMs
  delay     \* the delay of the scheduled retry

bvars == <<vars, pace, delay>>

NoRetry == 0

\* An option that is not positive is ignored, and the ceiling is never below the base.
Ceiling(base, ceiling) == Max({base, ceiling})

Pace(baseOption, ceilingOption) ==
  LET base    == IF baseOption > 0 THEN baseOption ELSE DefaultBase
      ceiling == IF ceilingOption > 0 THEN ceilingOption ELSE DefaultCeiling
  IN  [base |-> base, ceiling |-> Ceiling(base, ceiling)]

BInit ==
  /\ Init
  /\ pace \in {Pace(b, c) : b \in BaseOptions, c \in CeilingOptions}
  /\ delay = NoRetry

Exponential(attempt) == pace.base * 2^(attempt - 1)

ComputeBackoffDelay_FromOne(attempt) == Min({pace.ceiling, Exponential(attempt + 1)})
ComputeBackoffDelay(attempt) ==
  IF Exponential(attempt) > Infinite THEN pace.ceiling
  ELSE Min({pace.ceiling, Max({pace.base, Exponential(attempt)})})

\* handleFlushFailure: a board that is degraded is retried at the ceiling.
RetryDelay(attempts) ==
  IF Exhausted(attempts) THEN pace.ceiling ELSE ComputeBackoffDelay(attempts)

\* A failed attempt schedules the retry anew; a flush, or the retry itself, ends it.
BNext ==
  /\ Next
  /\ delay' = CASE ~retryTimer' -> NoRetry
                [] retryTimer' /\ flushAttempts' > flushAttempts -> RetryDelay(flushAttempts')
                [] OTHER -> delay
  /\ UNCHANGED pace

BFairSpec == BInit /\ [][BNext]_bvars /\ Fairness

-----------------------------------------------------------------------------
(* Correctness *)

\* However the drains of the board fail and succeed side by side, a scheduled retry
\* waits no less than the base, no more than the ceiling, and twice as long as the one
\* before it until there: the count of attempts and the timer never get out of step,
\* but for a success that leaves the retry of an earlier failure scheduled.
DelayFollowsAttempts ==
  retryTimer =>
    /\ delay \in pace.base..pace.ceiling
    /\ \/ flushAttempts = 0
       \/ delay = pace.ceiling
       \/ delay = Exponential(flushAttempts) /\ ~persistenceDegraded

\* The inductive invariant: with that of the write path, the bounds on the delay are
\* what Pace makes of any options.
PaceOK ==
  /\ pace \in [base : Nat \ {0}, ceiling : Nat \ {0}]
  /\ pace.base <= pace.ceiling

BInv == Inv /\ PaceOK /\ DelayFollowsAttempts

=============================================================================
