----------------------------- MODULE DurableLog -----------------------------
(***************************************************************************)
(* What the stroke service promises about one board, whatever batching,    *)
(* timers and retries it uses: an accepted stroke is pending until the     *)
(* Persistence_Store has it, is durable from then on, and no other way out *)
(* of pending exists but an ungraceful exit.  A new stroke is numbered     *)
(* above every stroke the board has, so none ever takes another's place.   *)
(***************************************************************************)
EXTENDS Integers

CONSTANT LogStroke   \* records with a field seq

VARIABLES
  pending,   \* accepted, not in the store
  durable    \* in the store

logVars == <<pending, durable>>

LogInit ==
  /\ pending = {}
  /\ durable \in SUBSET LogStroke

Accept(s) ==
  /\ \A t \in pending \union durable : t.seq < s.seq
  /\ pending' = pending \union {s}
  /\ UNCHANGED durable

\* A batch reaches the store, whole.
Persist(batch) ==
  /\ durable' = durable \union batch
  /\ pending' = pending \ batch

\* An ungraceful exit: what had reached the store stays, the rest is forgotten.
Lose(survivors) ==
  /\ durable' = durable \union survivors
  /\ pending' = {}

LogNext ==
  \/ \E s \in LogStroke : Accept(s)
  \/ \E batch \in SUBSET pending : Persist(batch) \/ Lose(batch)

LogSpec == LogInit /\ [][LogNext]_logVars

=============================================================================
