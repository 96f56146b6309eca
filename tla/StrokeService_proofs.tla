------------------------ MODULE StrokeService_proofs ------------------------
(***************************************************************************)
(* Proofs about the write path of the stroke service, about the delay of   *)
(* its retries (Backoff), and about the shutdown that drains it: a clean   *)
(* exit leaves no accepted stroke behind, and nothing is accepted after    *)
(* flushAll but what was awaiting the restore.  They hold for every batch  *)
(* size, retry budget, option of the delay and bound.                      *)
(***************************************************************************)
EXTENDS Shutdown, Backoff, SequenceTheorems, TLAPS

-----------------------------------------------------------------------------
(* Sequences of strokes *)

\* Nothing is in an empty batch.
LEMMA RangeEmpty == Range(<<>>) = {} /\ IsInjective(<<>>)
BY DEF Range, IsInjective

\* Re-buffering puts the batch's strokes and the buffer's together, each once.
LEMMA RangeConcat ==
  ASSUME NEW S, NEW a \in Seq(S), NEW b \in Seq(S)
  PROVE  /\ a \o b \in Seq(S)
         /\ Range(a \o b) = Range(a) \union Range(b)
         /\ IsInjective(a) /\ IsInjective(b) /\ Range(a) \intersect Range(b) = {}
              => IsInjective(a \o b)
<1> DEFINE c == a \o b
<1>1. /\ c \in Seq(S)
      /\ Len(c) = Len(a) + Len(b)
      /\ \A i \in 1..Len(a) : c[i] = a[i]
      /\ \A i \in 1..Len(b) : c[Len(a) + i] = b[i]
  OBVIOUS
<1>2. /\ DOMAIN a = 1..Len(a) /\ DOMAIN b = 1..Len(b) /\ DOMAIN c = 1..Len(c)
      /\ Len(a) \in Nat /\ Len(b) \in Nat
  BY <1>1
<1> HIDE DEF c
<1>3. \A i \in DOMAIN c : \/ i \in DOMAIN a /\ c[i] = a[i]
                          \/ i - Len(a) \in DOMAIN b /\ c[i] = b[i - Len(a)]
  <2> TAKE i \in DOMAIN c
  <2>1. CASE i <= Len(a)
    BY <2>1, <1>1, <1>2
  <2>2. CASE i > Len(a)
    <3>1. i - Len(a) \in 1..Len(b) /\ Len(a) + (i - Len(a)) = i
      BY <2>2, <1>1, <1>2
    <3> QED BY <3>1, <1>1, <1>2
  <2> QED BY <2>1, <2>2, <1>1, <1>2
<1>4. Range(c) = Range(a) \union Range(b)
  <2>1. \A i \in DOMAIN a : i \in DOMAIN c /\ c[i] = a[i]
    BY <1>1, <1>2
  <2>2. \A i \in DOMAIN b : Len(a) + i \in DOMAIN c /\ c[Len(a) + i] = b[i]
    BY <1>1, <1>2
  <2> QED BY <2>1, <2>2, <1>3 DEF Range
<1>5. ASSUME IsInjective(a), IsInjective(b), Range(a) \intersect Range(b) = {}
      PROVE  IsInjective(c)
  <2> SUFFICES ASSUME NEW i \in DOMAIN c, NEW j \in DOMAIN c, c[i] = c[j]
               PROVE  i = j
    BY DEF IsInjective
  <2>1. CASE i \in DOMAIN a /\ c[i] = a[i] /\ j \in DOMAIN a /\ c[j] = a[j]
    BY <2>1, <1>5 DEF IsInjective
  <2>2. CASE /\ i - Len(a) \in DOMAIN b /\ c[i] = b[i - Len(a)]
             /\ j - Len(a) \in DOMAIN b /\ c[j] = b[j - Len(a)]
    <3>1. i - Len(a) = j - Len(a)
      BY <2>2, <1>5 DEF IsInjective
    <3> QED BY <3>1, <1>2
  <2>3. CASE i \in DOMAIN a /\ c[i] = a[i] /\ j - Len(a) \in DOMAIN b /\ c[j] = b[j - Len(a)]
    BY <2>3, <1>5 DEF Range
  <2>4. CASE j \in DOMAIN a /\ c[j] = a[j] /\ i - Len(a) \in DOMAIN b /\ c[i] = b[i - Len(a)]
    BY <2>4, <1>5 DEF Range
  <2> QED BY <1>3, <2>1, <2>2, <2>3, <2>4
<1> QED BY <1>1, <1>4, <1>5 DEF c

\* Pushing a stroke that is not yet buffered.
LEMMA RangeAppend ==
  ASSUME NEW S, NEW a \in Seq(S), NEW x \in S
  PROVE  /\ Append(a, x) \in Seq(S)
         /\ Append(a, x) # <<>>
         /\ Range(Append(a, x)) = Range(a) \union {x}
         /\ IsInjective(a) /\ x \notin Range(a) => IsInjective(Append(a, x))
<1> DEFINE b == <<x>>
<1>1. b \in Seq(S) /\ Append(a, x) = a \o b /\ Append(a, x) # <<>>
  OBVIOUS
<1>2. Range(b) = {x} /\ IsInjective(b)
  BY DEF Range, IsInjective
<1> HIDE DEF b
<1>3. /\ Range(a \o b) = Range(a) \union Range(b)
      /\ IsInjective(a) /\ x \notin Range(a) => IsInjective(a \o b)
  BY <1>1, <1>2, RangeConcat
<1>4. Append(a, x) \in Seq(S)
  OBVIOUS
<1> QED BY <1>1, <1>2, <1>3, <1>4

-----------------------------------------------------------------------------
(* drainOnce and flush *)

USE BatchSizeAssumption, RetriesAssumption, BoundsAssumption

\* BatchesDisjoint of a buffer whose contents are buf.
HeldOnce(buf) ==
  /\ IsInjective(buf)
  /\ \A d \in drains :
       /\ IsInjective(d.batch)
       /\ Range(d.batch) \intersect Range(buf) = {}
       /\ \A e \in drains : d = e \/ Range(d.batch) \intersect Range(e.batch) = {}

\* What an InFlight stroke is.
LEMMA InFlightDef ==
  ASSUME NEW s
  PROVE  /\ s \in InFlight <=> \E d \in drains : s \in Range(d.batch)
         /\ s \in InFlight' <=> \E d \in drains' : s \in Range(d.batch)
BY DEF InFlight

\* A drain moves the whole buffer in flight, whatever it was, and leaves the
\* health of the board alone unless there was nothing to write.
LEMMA DrainOnceMoves ==
  ASSUME drains \subseteq Drain, NEW buf \in Seq(Stroke), DrainOnce(buf)
  PROVE  /\ buffer' = <<>>
         /\ drains' \subseteq Drain
         /\ \A d \in drains' : d \in drains \/ d = [batch |-> buf, query |-> "insert"]
         /\ InFlight' = InFlight \union Range(buf)
         /\ HeldOnce(buf) => BatchesDisjoint'
         /\ \/ UNCHANGED healthVars
            \/ flushAttempts' = 0 /\ persistenceDegraded' = FALSE
<1> DEFINE new == [batch |-> buf, query |-> "insert"]
<1>1. CASE buf = <<>> /\ buffer' = <<>> /\ MarkPersisted /\ UNCHANGED drains
  <2>1. Range(buf) = {} /\ InFlight' = InFlight
    BY <1>1, RangeEmpty DEF InFlight
  <2>2. HeldOnce(buf) => BatchesDisjoint'
    BY <1>1 DEF HeldOnce, BatchesDisjoint
  <2> QED BY <1>1, <2>1, <2>2 DEF MarkPersisted
<1>2. CASE buffer' = <<>> /\ drains' = drains \union {new} /\ UNCHANGED healthVars
  <2>1. new \in Drain /\ new.batch = buf
    BY DEF Drain
  <2>2. InFlight' = InFlight \union Range(buf)
    <3>1. \A s : s \in InFlight' <=> s \in InFlight \union Range(buf)
      BY <1>2, <2>1, InFlightDef
    <3> QED BY <3>1
  <2>3. ASSUME HeldOnce(buf) PROVE BatchesDisjoint'
    <3>1. \A d \in drains' : IsInjective(d.batch) /\ Range(d.batch) \intersect Range(buffer') = {}
      BY <1>2, <2>1, <2>3, RangeEmpty DEF HeldOnce
    <3>2. \A d, e \in drains' : d = e \/ Range(d.batch) \intersect Range(e.batch) = {}
      BY <1>2, <2>1, <2>3 DEF HeldOnce
    <3> QED BY <1>2, <3>1, <3>2, RangeEmpty DEF BatchesDisjoint
  <2> QED BY <1>2, <2>1, <2>2, <2>3
<1> QED BY <1>1, <1>2 DEF DrainOnce, Captured

\* Leaving the health of a board alone, and marking it persisted, keep what the
\* invariant says of it.
LEMMA HealthKept ==
  ASSUME Inv, failures' = failures,
         UNCHANGED healthVars \/ (flushAttempts' = 0 /\ persistenceDegraded' = FALSE)
  PROVE  /\ flushAttempts' \in 0..MaxFailures
         /\ persistenceDegraded' \in BOOLEAN
         /\ AttemptsAreFailures'
         /\ DegradedIffExhausted'
<1> USE DEF Inv, TypeOK, healthVars
<1>1. flushAttempts' \in 0..MaxFailures
  OBVIOUS
<1>2. persistenceDegraded' \in BOOLEAN
  BY Zenon
<1>3. AttemptsAreFailures' /\ DegradedIffExhausted'
  BY DEF AttemptsAreFailures, DegradedIffExhausted
<1> QED BY <1>1, <1>2, <1>3

\* A timer callback: whatever becomes of the timers, the whole buffer is drained.
LEMMA DrainKeepsInv ==
  ASSUME Inv, DrainOnce(buffer), timer' \in BOOLEAN, retryTimer' \in BOOLEAN,
         initPhase = "ready",
         UNCHANGED <<initVars, storeVars, historyVars, boundVars>>
  PROVE  Inv'
<1> USE DEF Inv, TypeOK, initVars, storeVars, historyVars, boundVars, healthVars
<1>1. /\ buffer' = <<>>
      /\ drains' \subseteq Drain
      /\ \A d \in drains' : d \in drains \/ d = [batch |-> buffer, query |-> "insert"]
      /\ InFlight' = InFlight \union Range(buffer)
      /\ BatchesDisjoint'
      /\ UNCHANGED healthVars \/ (flushAttempts' = 0 /\ persistenceDegraded' = FALSE)
  BY DrainOnceMoves DEF BatchesDisjoint, HeldOnce
<1>2. TypeOK'
  <2>1. flushAttempts' \in 0..MaxFailures /\ persistenceDegraded' \in BOOLEAN
    BY <1>1, HealthKept
  <2>2. buffer' \in Seq(Stroke)
    BY <1>1
  <2> QED BY <1>1, <2>1, <2>2
<1>3. EmptyUntilRestored' /\ NumberedBelowNext'
  BY DEF EmptyUntilRestored, NumberedBelowNext
<1>4. HeldIsAccepted' /\ NoAcceptedStrokeLost'
  BY <1>1, RangeEmpty DEF HeldIsAccepted, NoAcceptedStrokeLost
<1>5. TouchedIsStored'
  BY <1>1 DEF TouchedIsStored
<1>6. AttemptsAreFailures' /\ DegradedIffExhausted'
  BY <1>1, HealthKept
<1>7. NoStrandedBuffer'
  BY <1>1 DEF NoStrandedBuffer
<1>8. SeqNamesOneStroke'
  BY DEF SeqNamesOneStroke
<1> QED BY <1>1, <1>2, <1>3, <1>4, <1>5, <1>6, <1>7, <1>8

-----------------------------------------------------------------------------
(* append *)

\* The numbered stroke is new, so pushing it keeps every stroke in one place.
LEMMA EnqueueKeepsInv ==
  ASSUME Inv, Enqueue, initPhase = "ready", nextId <= MaxStrokes,
         waiting' \in 0..MaxStrokes, nextId' + waiting' <= MaxStrokes + 1,
         UNCHANGED <<initPhase, storeVars, boundVars>>
  PROVE  Inv'
<1> DEFINE stroke == [seq |-> nextSeq, id |-> nextId]
           pushed == Append(buffer, stroke)
<1> USE DEF Inv, TypeOK, storeVars, boundVars
<1>1. /\ nextSeq' = nextSeq + 1 /\ nextId' = nextId + 1
      /\ accepted' = accepted \union {stroke}
      /\ stroke.seq = nextSeq /\ stroke.id = nextId
  BY DEF Enqueue
<1>2. stroke \in Stroke
  BY DEF Stroke, MaxSeq, NumberedBelowNext
<1>3. \A s \in rows \union accepted : s.seq < nextSeq
  BY DEF NumberedBelowNext
<1>4. stroke \notin rows \union accepted
  <2> QED BY <1>1, <1>2, <1>3 DEF Stroke
<1>5. stroke \notin Range(buffer) /\ stroke \notin InFlight
  BY <1>4 DEF HeldIsAccepted
<1> HIDE DEF stroke
<1>6. /\ pushed \in Seq(Stroke) /\ pushed # <<>>
      /\ Range(pushed) = Range(buffer) \union {stroke}
      /\ IsInjective(buffer) => IsInjective(pushed)
  BY <1>2, <1>5, RangeAppend
<1>7. HeldOnce(pushed)
  <2>1. \A d \in drains : Range(d.batch) \intersect Range(pushed) = {}
    BY <1>5, <1>6, InFlightDef DEF BatchesDisjoint
  <2> QED BY <1>6, <2>1 DEF HeldOnce, BatchesDisjoint
<1>8. \/ Flush(pushed)
      \/ buffer' = pushed /\ timer' = TRUE /\ UNCHANGED <<retryTimer, healthVars, drains>>
  BY DEF Enqueue, stroke
<1> HIDE DEF pushed
<1>9. /\ buffer' \in Seq(Stroke) /\ drains' \subseteq Drain
      /\ timer' \in BOOLEAN /\ retryTimer' \in BOOLEAN
      /\ Range(buffer') \union InFlight' = Range(buffer) \union InFlight \union {stroke}
      /\ BatchesDisjoint'
      /\ buffer' = <<>> \/ timer'
      /\ \A d \in drains' : d \in drains \/ d.query = "insert"
      /\ UNCHANGED healthVars \/ (flushAttempts' = 0 /\ persistenceDegraded' = FALSE)
  <2>1. CASE Flush(pushed)
    <3>1. DrainOnce(pushed) /\ timer' = FALSE /\ retryTimer' = FALSE
      BY <2>1 DEF Flush
    <3>2. /\ buffer' = <<>> /\ drains' \subseteq Drain
          /\ \A d \in drains' : d \in drains \/ d = [batch |-> pushed, query |-> "insert"]
          /\ InFlight' = InFlight \union Range(pushed)
          /\ BatchesDisjoint'
          /\ UNCHANGED healthVars \/ (flushAttempts' = 0 /\ persistenceDegraded' = FALSE)
      BY <1>6, <1>7, <3>1, DrainOnceMoves
    <3>3. <<>> \in Seq(Stroke)
      OBVIOUS
    <3>4. Range(buffer') \union InFlight' = Range(buffer) \union InFlight \union {stroke}
      BY <1>6, <3>2, RangeEmpty
    <3>5. timer' \in BOOLEAN /\ retryTimer' \in BOOLEAN
      BY <3>1
    <3>6. \A d \in drains' : d \in drains \/ d.query = "insert"
      BY <3>2
    <3>7. buffer' \in Seq(Stroke)
      BY <3>2, <3>3
    <3> QED BY <3>2, <3>4, <3>5, <3>6, <3>7, Zenon
  <2>2. CASE buffer' = pushed /\ timer' = TRUE /\ UNCHANGED <<retryTimer, healthVars, drains>>
    <3>1. InFlight' = InFlight
      BY <2>2 DEF InFlight
    <3>2. BatchesDisjoint'
      BY <1>7, <2>2 DEF HeldOnce, BatchesDisjoint
    <3>3. Range(buffer') \union InFlight' = Range(buffer) \union InFlight \union {stroke}
      BY <1>6, <2>2, <3>1
    <3>4. /\ buffer' \in Seq(Stroke) /\ drains' = drains /\ timer' = TRUE
          /\ retryTimer' = retryTimer /\ UNCHANGED healthVars
      BY <1>6, <2>2
    <3> QED BY <3>2, <3>3, <3>4
  <2> QED BY <1>8, <2>1, <2>2
<1>10. TypeOK'
  <2>1. nextSeq' \in 0..MaxSeq + 1 /\ nextId' \in 1..MaxStrokes + 1
    BY <1>1, <1>2 DEF Stroke, MaxSeq, NumberedBelowNext
  <2>2. flushAttempts' \in 0..MaxFailures /\ persistenceDegraded' \in BOOLEAN
    BY <1>9, HealthKept
  <2> QED BY <1>1, <1>2, <1>9, <2>1, <2>2
<1>11. EmptyUntilRestored'
  BY DEF EmptyUntilRestored
<1>12. NumberedBelowNext'
  <2>1. \A s \in rows' \union accepted' : s.seq <= MaxBaseline + nextId' /\ s.seq < nextSeq'
    <3> TAKE s \in rows' \union accepted'
    <3>1. s.seq \in Nat /\ nextSeq \in Nat /\ nextId \in Nat
      BY <1>1, <1>2 DEF Stroke, MaxSeq
    <3>2. CASE s = stroke
      BY <1>1, <3>1, <3>2 DEF NumberedBelowNext
    <3>3. CASE s \in rows \union accepted
      BY <1>1, <3>1, <3>3 DEF NumberedBelowNext
    <3> QED BY <1>1, <3>2, <3>3
  <2>2. /\ nextSeq' <= MaxBaseline + nextId' + 1
        /\ snapshotSeq' <= MaxBaseline + nextId'
        /\ snapshotSeq' < nextSeq'
    BY <1>1 DEF NumberedBelowNext, MaxSeq
  <2> QED BY <2>1, <2>2 DEF NumberedBelowNext
<1>13. HeldIsAccepted' /\ NoAcceptedStrokeLost'
  BY <1>1, <1>9 DEF HeldIsAccepted, NoAcceptedStrokeLost
<1>14. TouchedIsStored'
  BY <1>9 DEF TouchedIsStored
<1>15. AttemptsAreFailures' /\ DegradedIffExhausted'
  BY <1>9, HealthKept
<1>16. NoStrandedBuffer'
  BY <1>9 DEF NoStrandedBuffer
<1>17. SeqNamesOneStroke'
  BY <1>1, <1>2, <1>3 DEF SeqNamesOneStroke, Stroke
<1> QED BY <1>9, <1>10, <1>11, <1>12, <1>13, <1>14, <1>15, <1>16, <1>17

-----------------------------------------------------------------------------
(* The answers of the Persistence_Store *)

\* What an INSERT of accepted strokes leaves in the store: nothing is discarded,
\* since no other stroke has their numbers.
LEMMA InsertKeepsAll ==
  ASSUME Inv, NEW strokes, strokes \subseteq accepted
  PROVE  AfterInsert(strokes) = rows \union strokes
BY DEF AfterInsert, Inv, SeqNamesOneStroke

\* A stored batch stays accepted and in flight until the board is touched.
LEMMA InsertDoneKeepsInv ==
  ASSUME Inv, NEW d \in drains, InsertDone(d)
  PROVE  Inv'
<1> DEFINE touching == [d EXCEPT !.query = "touch"]
<1> USE DEF Inv, TypeOK, initVars, timerVars, healthVars, historyVars, boundVars
<1>1. /\ drains' = (drains \ {d}) \union {touching}
      /\ rows' = AfterInsert(Range(d.batch))
      /\ UNCHANGED <<initPhase, waiting, nextSeq, buffer, timer, retryTimer, flushAttempts,
                     persistenceDegraded, snapshotSeq, accepted, nextId, failures, crashes>>
  BY DEF InsertDone
<1>2. touching \in Drain /\ touching.batch = d.batch /\ touching.query = "touch"
  BY DEF Drain
<1>3. rows' = rows \union Range(d.batch) /\ Range(d.batch) \subseteq accepted
  <2>1. Range(d.batch) \subseteq accepted
    BY InFlightDef DEF HeldIsAccepted
  <2> QED BY <1>1, <2>1, InsertKeepsAll
<1> HIDE DEF touching
<1>4. InFlight' = InFlight
  <2>1. \A s : s \in InFlight' <=> s \in InFlight
    BY <1>1, <1>2, InFlightDef
  <2> QED BY <2>1
<1>5. TypeOK'
  <2>1. rows' \subseteq Stroke /\ drains' \subseteq Drain
    BY <1>1, <1>2, <1>3
  <2> QED BY <1>1, <2>1
<1>6. EmptyUntilRestored'
  BY <1>1 DEF EmptyUntilRestored
<1>7. NumberedBelowNext'
  BY <1>1, <1>3 DEF NumberedBelowNext
<1>8. HeldIsAccepted' /\ NoAcceptedStrokeLost'
  BY <1>1, <1>3, <1>4 DEF HeldIsAccepted, NoAcceptedStrokeLost
<1>9. TouchedIsStored'
  BY <1>1, <1>2, <1>3 DEF TouchedIsStored
<1>10. AttemptsAreFailures' /\ DegradedIffExhausted' /\ NoStrandedBuffer'
  BY <1>1 DEF AttemptsAreFailures, DegradedIffExhausted, NoStrandedBuffer
<1>11. BatchesDisjoint'
  <2>1. \A e \in drains' : /\ IsInjective(e.batch)
                           /\ Range(e.batch) \intersect Range(buffer') = {}
    BY <1>1, <1>2 DEF BatchesDisjoint
  <2>2. \A e, f \in drains' : e = f \/ Range(e.batch) \intersect Range(f.batch) = {}
    BY <1>1, <1>2 DEF BatchesDisjoint
  <2> QED BY <1>1, <2>1, <2>2 DEF BatchesDisjoint
<1>12. SeqNamesOneStroke'
  BY <1>1, <1>3 DEF SeqNamesOneStroke
<1> QED BY <1>5, <1>6, <1>7, <1>8, <1>9, <1>10, <1>11, <1>12

\* A completed drain drops a batch that the store has, and resets the health.
LEMMA TouchDoneKeepsInv ==
  ASSUME Inv, NEW d \in drains, TouchDone(d)
  PROVE  Inv'
<1> USE DEF Inv, TypeOK, initVars, timerVars, storeVars, historyVars, boundVars
<1>1. /\ d.query = "touch" /\ drains' = drains \ {d}
      /\ flushAttempts' = 0 /\ persistenceDegraded' = FALSE
      /\ UNCHANGED <<initPhase, waiting, nextSeq, buffer, timer, retryTimer, rows,
                     snapshotSeq, accepted, nextId, failures, crashes>>
  BY DEF TouchDone, MarkPersisted
<1>2. /\ InFlight' \subseteq InFlight
      /\ InFlight \subseteq InFlight' \union rows
  <2>1. Range(d.batch) \subseteq rows
    BY <1>1 DEF TouchedIsStored
  <2>2. \A s : s \in InFlight' => s \in InFlight
    BY <1>1, InFlightDef
  <2>3. \A s : s \in InFlight => s \in InFlight' \/ s \in rows
    BY <1>1, <2>1, InFlightDef
  <2> QED BY <2>2, <2>3
<1>3. TypeOK'
  <2>1. flushAttempts' \in 0..MaxFailures /\ persistenceDegraded' \in BOOLEAN
    BY <1>1, HealthKept
  <2> QED BY <1>1, <2>1
<1>4. EmptyUntilRestored' /\ NumberedBelowNext'
  BY <1>1 DEF EmptyUntilRestored, NumberedBelowNext
<1>5. HeldIsAccepted' /\ NoAcceptedStrokeLost'
  BY <1>1, <1>2 DEF HeldIsAccepted, NoAcceptedStrokeLost
<1>6. TouchedIsStored'
  BY <1>1 DEF TouchedIsStored
<1>7. AttemptsAreFailures' /\ DegradedIffExhausted'
  BY <1>1, HealthKept
<1>8. NoStrandedBuffer' /\ BatchesDisjoint' /\ SeqNamesOneStroke'
  BY <1>1 DEF NoStrandedBuffer, BatchesDisjoint, SeqNamesOneStroke
<1> QED BY <1>3, <1>4, <1>5, <1>6, <1>7, <1>8

\* The failed batch is back in the buffer before anything else can happen, and a
\* retry is scheduled for it even when the budget is exhausted.
LEMMA DrainFailsKeepsInv ==
  ASSUME Inv, NEW d \in drains, DrainFails(d)
  PROVE  Inv'
<1> USE DEF Inv, TypeOK, initVars, historyVars
<1>1. /\ failures < MaxFailures /\ failures' = failures + 1
      /\ drains' = drains \ {d}
      /\ buffer' = d.batch \o buffer
      /\ UNCHANGED <<initPhase, waiting, nextSeq, timer, snapshotSeq, accepted, nextId, crashes>>
  BY DEF DrainFails, Rebuffered
<1>2. /\ flushAttempts' = flushAttempts + 1
      /\ persistenceDegraded' = (persistenceDegraded \/ flushAttempts + 1 > MaxFlushRetries)
      /\ retryTimer' = TRUE
  BY DEF DrainFails, HandleFlushFailure, Exhausted, RetryScheduled
<1>3. d.batch \in Seq(Stroke) /\ Range(d.batch) \subseteq accepted
  BY InFlightDef DEF HeldIsAccepted, Drain
<1>4. rows \subseteq rows' /\ rows' \subseteq rows \union Range(d.batch)
  <2>1. rows' = rows \/ rows' = AfterInsert(Range(d.batch))
    BY DEF DrainFails
  <2>2. AfterInsert(Range(d.batch)) = rows \union Range(d.batch)
    BY <1>3, InsertKeepsAll
  <2> QED BY <2>1, <2>2
<1>5. /\ buffer' \in Seq(Stroke)
      /\ Range(buffer') = Range(d.batch) \union Range(buffer)
      /\ IsInjective(buffer')
  BY <1>1, <1>3, RangeConcat DEF BatchesDisjoint
<1>6. Range(buffer') \union InFlight' = Range(buffer) \union InFlight
  <2>1. \A s : s \in Range(d.batch) \union InFlight' <=> s \in InFlight
    BY <1>1, InFlightDef
  <2> QED BY <1>5, <2>1
<1>7. TypeOK'
  <2>1. rows' \subseteq Stroke /\ drains' \subseteq Drain
    BY <1>1, <1>3, <1>4
  <2>2. persistenceDegraded' \in BOOLEAN /\ retryTimer' \in BOOLEAN
    BY <1>2, Zenon
  <2>3. flushAttempts' \in 0..MaxFailures /\ failures' \in 0..MaxFailures
    BY <1>1, <1>2 DEF AttemptsAreFailures
  <2> QED BY <1>1, <1>5, <2>1, <2>2, <2>3
<1>8. EmptyUntilRestored' /\ NumberedBelowNext'
  <2>1. initPhase = "ready"
    BY DEF EmptyUntilRestored
  <2> QED BY <1>1, <1>3, <1>4, <2>1 DEF EmptyUntilRestored, NumberedBelowNext
<1>9. HeldIsAccepted' /\ NoAcceptedStrokeLost'
  BY <1>1, <1>4, <1>6 DEF HeldIsAccepted, NoAcceptedStrokeLost
<1>10. TouchedIsStored'
  BY <1>1, <1>4 DEF TouchedIsStored
<1>11. AttemptsAreFailures' /\ DegradedIffExhausted' /\ NoStrandedBuffer'
  <2>1. AttemptsAreFailures' /\ NoStrandedBuffer'
    BY <1>1, <1>2 DEF AttemptsAreFailures, NoStrandedBuffer
  <2>2. DegradedIffExhausted'
    <3>1. flushAttempts > MaxFlushRetries => flushAttempts + 1 > MaxFlushRetries
      OBVIOUS
    <3>2. persistenceDegraded' <=> flushAttempts + 1 > MaxFlushRetries
      BY <3>1, <1>2, Zenon DEF DegradedIffExhausted
    <3> QED BY <3>2, <1>2, Zenon DEF DegradedIffExhausted
  <2> QED BY <2>1, <2>2
<1>12. BatchesDisjoint'
  <2>1. \A e \in drains' : /\ IsInjective(e.batch)
                           /\ Range(e.batch) \intersect Range(buffer') = {}
    BY <1>1, <1>5 DEF BatchesDisjoint
  <2>2. \A e, f \in drains' : e = f \/ Range(e.batch) \intersect Range(f.batch) = {}
    BY <1>1 DEF BatchesDisjoint
  <2> QED BY <1>5, <2>1, <2>2 DEF BatchesDisjoint
<1>13. SeqNamesOneStroke'
  BY <1>1, <1>3, <1>4 DEF SeqNamesOneStroke
<1> QED BY <1>7, <1>8, <1>9, <1>10, <1>11, <1>12, <1>13

-----------------------------------------------------------------------------
(* The restore, and the crash *)

\* The first number assigned is above every stroke: the highest of the restorable
\* numbers is above the tail's, and the tail's are above the others.
LEMMA InitDoneKeepsInv ==
  ASSUME Inv, InitDone
  PROVE  Inv'
<1> USE DEF Inv, TypeOK, timerVars, healthVars, storeVars, historyVars, boundVars
<1>1. /\ initPhase = "restoring" /\ initPhase' = "ready"
      /\ UNCHANGED <<waiting, buffer, timer, retryTimer, flushAttempts, persistenceDegraded,
                     drains, rows, snapshotSeq, accepted, nextId, failures, crashes>>
  BY DEF InitDone
<1>2. accepted = {} /\ buffer = <<>> /\ drains = {}
  BY <1>1 DEF EmptyUntilRestored
<1>3. PICK highest \in Restorable :
        /\ \A seq \in Restorable : seq <= highest
        /\ nextSeq' = highest + 1
  BY DEF InitDone, FirstSeq
<1>4. /\ highest \in 0..MaxSeq /\ highest <= MaxBaseline + nextId
      /\ snapshotSeq <= highest
  BY <1>3 DEF Restorable, LoadSince, NumberedBelowNext, Stroke, MaxSeq
<1>5. \A s \in rows : s.seq <= highest
  <2> TAKE s \in rows
  <2>1. s.seq \in Nat
    BY DEF Stroke
  <2>2. CASE s.seq > snapshotSeq
    BY <1>3, <2>2 DEF Restorable, LoadSince
  <2>3. CASE s.seq <= snapshotSeq
    BY <1>4, <2>1, <2>3 DEF MaxSeq
  <2> QED BY <2>1, <2>2, <2>3 DEF MaxSeq
<1>6. TypeOK'
  <2>1. nextSeq' \in 0..MaxSeq + 1
    BY <1>3, <1>4 DEF MaxSeq
  <2> QED BY <1>1, <2>1
<1>7. NumberedBelowNext'
  <2>1. \A s \in rows : s.seq < highest + 1
    BY <1>4, <1>5 DEF Stroke, MaxSeq
  <2> QED BY <1>1, <1>2, <1>3, <1>4, <2>1 DEF NumberedBelowNext, MaxSeq
<1>8. EmptyUntilRestored'
  BY <1>1 DEF EmptyUntilRestored
<1>9. /\ HeldIsAccepted' /\ NoAcceptedStrokeLost' /\ TouchedIsStored' /\ BatchesDisjoint'
      /\ AttemptsAreFailures' /\ DegradedIffExhausted' /\ NoStrandedBuffer' /\ SeqNamesOneStroke'
  BY <1>1 DEF HeldIsAccepted, NoAcceptedStrokeLost, TouchedIsStored, BatchesDisjoint,
              AttemptsAreFailures, DegradedIffExhausted, NoStrandedBuffer, SeqNamesOneStroke, InFlight
<1> QED BY <1>6, <1>7, <1>8, <1>9

\* Draws that await the restore, and a failed restore, number nothing.
LEMMA AwaitingKeepsInv ==
  ASSUME Inv, AwaitInit \/ InitFails
  PROVE  Inv'
<1> USE DEF Inv, TypeOK, timerVars, healthVars, storeVars, historyVars, boundVars
<1>1. /\ initPhase # "ready" /\ initPhase' \in {"none", "restoring"}
      /\ waiting' \in 0..MaxStrokes /\ nextId + waiting' <= MaxStrokes + 1
      /\ failures' \in 0..MaxFailures /\ failures <= failures'
      /\ UNCHANGED <<nextSeq, buffer, timer, retryTimer, flushAttempts, persistenceDegraded,
                     drains, rows, snapshotSeq, accepted, nextId, crashes>>
  BY DEF AwaitInit, InitFails
<1>2. TypeOK' /\ EmptyUntilRestored' /\ NumberedBelowNext' /\ AttemptsAreFailures'
  <2>1. initPhase' # "ready"
    BY <1>1
  <2>2. TypeOK'
    BY <1>1
  <2>3. EmptyUntilRestored'
    BY <1>1 DEF EmptyUntilRestored
  <2>4. NumberedBelowNext'
    BY <1>1, <2>1 DEF NumberedBelowNext
  <2>5. AttemptsAreFailures'
    BY <1>1 DEF AttemptsAreFailures
  <2> QED BY <2>2, <2>3, <2>4, <2>5
<1>3. /\ HeldIsAccepted' /\ NoAcceptedStrokeLost' /\ TouchedIsStored' /\ BatchesDisjoint'
      /\ DegradedIffExhausted' /\ NoStrandedBuffer' /\ SeqNamesOneStroke'
  BY <1>1 DEF HeldIsAccepted, NoAcceptedStrokeLost, TouchedIsStored, BatchesDisjoint,
              DegradedIffExhausted, NoStrandedBuffer, SeqNamesOneStroke, InFlight
<1> QED BY <1>2, <1>3

\* What the store has after a crash was accepted, so no two strokes of it share a
\* number; nothing else is left.
LEMMA CrashKeepsInv ==
  ASSUME Inv, Crash
  PROVE  Inv'
<1> USE DEF Inv, TypeOK
<1>1. PICK committed \in SUBSET {d \in drains : d.query = "insert"} :
        rows' = AfterInsert(UNION {Range(d.batch) : d \in committed})
  BY DEF Crash
<1>2. /\ initPhase' = "none" /\ waiting' = 0 /\ nextSeq' = 0 /\ buffer' = <<>>
      /\ timer' = FALSE /\ retryTimer' = FALSE
      /\ flushAttempts' = 0 /\ persistenceDegraded' = FALSE
      /\ drains' = {} /\ accepted' = {} /\ crashes' \in 0..MaxCrashes
      /\ UNCHANGED <<snapshotSeq, nextId, failures>>
  BY DEF Crash
<1>3. rows' \subseteq rows \union accepted
  <2>1. UNION {Range(d.batch) : d \in committed} \subseteq accepted
    BY DEF HeldIsAccepted, InFlight
  <2> QED BY <1>1, <2>1, InsertKeepsAll
<1>4. InFlight' = {}
  BY <1>2 DEF InFlight
<1>5. TypeOK'
  <2>1. buffer' \in Seq(Stroke) /\ drains' \subseteq Drain
    BY <1>2
  <2>2. timer' \in BOOLEAN /\ retryTimer' \in BOOLEAN /\ persistenceDegraded' \in BOOLEAN
    BY <1>2
  <2>3. nextSeq' \in 0..MaxSeq + 1 /\ waiting' \in 0..MaxStrokes /\ flushAttempts' \in 0..MaxFailures
    BY <1>2 DEF MaxSeq
  <2>4. rows' \subseteq Stroke /\ accepted' \subseteq Stroke
    BY <1>2, <1>3
  <2> QED BY <1>2, <2>1, <2>2, <2>3, <2>4
<1>6. EmptyUntilRestored'
  BY <1>2 DEF EmptyUntilRestored
<1>7. NumberedBelowNext'
  BY <1>2, <1>3 DEF NumberedBelowNext
<1>8. HeldIsAccepted' /\ NoAcceptedStrokeLost' /\ TouchedIsStored'
  BY <1>2, <1>4, RangeEmpty DEF HeldIsAccepted, NoAcceptedStrokeLost, TouchedIsStored
<1>9. BatchesDisjoint' /\ NoStrandedBuffer' /\ AttemptsAreFailures' /\ DegradedIffExhausted'
  BY <1>2, RangeEmpty DEF BatchesDisjoint, NoStrandedBuffer, AttemptsAreFailures, DegradedIffExhausted
<1>10. SeqNamesOneStroke'
  BY <1>2, <1>3 DEF SeqNamesOneStroke
<1> QED BY <1>5, <1>6, <1>7, <1>8, <1>9, <1>10

-----------------------------------------------------------------------------
(* The inductive invariant, and the safety properties *)

\* A fresh board, or a compacted one with a stroke above its baseline.
LEMMA InitInv == Init => Inv
<1> SUFFICES ASSUME Init PROVE Inv
  OBVIOUS
<1> USE DEF Init
<1>1. InFlight = {}
  BY DEF InFlight
<1>2. TypeOK
  <2>1. rows \subseteq Stroke
    BY DEF Stroke, MaxSeq
  <2>2. /\ buffer \in Seq(Stroke) /\ drains \subseteq Drain /\ accepted \subseteq Stroke
    OBVIOUS
  <2>3. /\ nextSeq \in 0..MaxSeq + 1 /\ snapshotSeq \in 0..MaxSeq
        /\ waiting \in 0..MaxStrokes /\ nextId \in 1..MaxStrokes + 1
        /\ flushAttempts \in 0..MaxFailures /\ failures \in 0..MaxFailures
        /\ crashes \in 0..MaxCrashes
    BY DEF MaxSeq
  <2>4. timer \in BOOLEAN /\ retryTimer \in BOOLEAN /\ persistenceDegraded \in BOOLEAN
    OBVIOUS
  <2> QED BY <2>1, <2>2, <2>3, <2>4 DEF TypeOK
<1>3. EmptyUntilRestored /\ NumberedBelowNext
  BY DEF EmptyUntilRestored, NumberedBelowNext
<1>4. HeldIsAccepted /\ NoAcceptedStrokeLost /\ TouchedIsStored /\ BatchesDisjoint
  BY <1>1, RangeEmpty DEF HeldIsAccepted, NoAcceptedStrokeLost, TouchedIsStored, BatchesDisjoint
<1>5. AttemptsAreFailures /\ DegradedIffExhausted /\ NoStrandedBuffer /\ SeqNamesOneStroke
  BY DEF AttemptsAreFailures, DegradedIffExhausted, NoStrandedBuffer, SeqNamesOneStroke
<1> QED BY <1>2, <1>3, <1>4, <1>5 DEF Inv

\* A step that changes nothing.
LEMMA StutterKeepsInv ==
  ASSUME Inv, UNCHANGED vars
  PROVE  Inv'
<1>1. UNCHANGED <<initPhase, waiting, nextSeq, buffer, timer, retryTimer, flushAttempts,
                  persistenceDegraded, drains, rows, snapshotSeq, accepted, nextId,
                  failures, crashes>>
  BY DEF vars, initVars, timerVars, healthVars, storeVars, historyVars, boundVars
<1>2. TypeOK'
  BY <1>1 DEF Inv, TypeOK
<1>3. EmptyUntilRestored' /\ NumberedBelowNext' /\ AttemptsAreFailures'
  BY <1>1 DEF Inv, EmptyUntilRestored, NumberedBelowNext, AttemptsAreFailures
<1>4. HeldIsAccepted' /\ TouchedIsStored' /\ NoAcceptedStrokeLost' /\ BatchesDisjoint'
  BY <1>1 DEF Inv, HeldIsAccepted, TouchedIsStored, NoAcceptedStrokeLost, BatchesDisjoint, InFlight
<1>5. NoStrandedBuffer' /\ SeqNamesOneStroke' /\ DegradedIffExhausted'
  BY <1>1 DEF Inv, NoStrandedBuffer, SeqNamesOneStroke, DegradedIffExhausted
<1> QED BY <1>2, <1>3, <1>4, <1>5 DEF Inv

\* Every step of the service keeps the invariant.
LEMMA NextKeepsInv == Inv /\ [Next]_vars => Inv'
<1> SUFFICES ASSUME Inv, [Next]_vars PROVE Inv'
  OBVIOUS
<1>1. CASE AwaitInit \/ InitFails
  BY <1>1, AwaitingKeepsInv
<1>2. CASE InitDone
  BY <1>2, InitDoneKeepsInv
<1>3. CASE AppendStroke
  <2>1. Enqueue /\ nextId' = nextId + 1 /\ nextId \in 1..MaxStrokes + 1
    BY <1>3 DEF AppendStroke, Enqueue, Inv, TypeOK
  <2>2. waiting' \in 0..MaxStrokes /\ nextId' + waiting' <= MaxStrokes + 1 /\ nextId <= MaxStrokes
    BY <1>3, <2>1 DEF AppendStroke, Resumed, Inv, TypeOK
  <2> QED BY <1>3, <2>1, <2>2, EnqueueKeepsInv DEF AppendStroke
<1>4. CASE ResumeAppend
  <2>1. Enqueue /\ nextId' = nextId + 1 /\ nextId \in 1..MaxStrokes + 1
    BY <1>4 DEF ResumeAppend, Enqueue, Inv, TypeOK
  <2>2. waiting' \in 0..MaxStrokes /\ nextId' + waiting' <= MaxStrokes + 1 /\ nextId <= MaxStrokes
    BY <1>4, <2>1 DEF ResumeAppend, Inv, TypeOK, NumberedBelowNext
  <2> QED BY <1>4, <2>1, <2>2, EnqueueKeepsInv DEF ResumeAppend
<1>5. CASE TimerFires
  <2>1. initPhase = "ready"
    BY <1>5 DEF TimerFires, Inv, EmptyUntilRestored
  <2> QED BY <1>5, <2>1, DrainKeepsInv DEF TimerFires, Flush
<1>6. CASE RetryFires
  <2>1. initPhase = "ready" /\ timer \in BOOLEAN
    BY <1>6 DEF RetryFires, Inv, EmptyUntilRestored, TypeOK
  <2> QED BY <1>6, <2>1, DrainKeepsInv DEF RetryFires
<1>7. CASE StoreAnswers
  BY <1>7, InsertDoneKeepsInv, TouchDoneKeepsInv, DrainFailsKeepsInv DEF StoreAnswers
<1>8. CASE Crash
  BY <1>8, CrashKeepsInv
<1>9. CASE Idle \/ UNCHANGED vars
  BY <1>9, StutterKeepsInv DEF Idle
<1> QED BY <1>1, <1>2, <1>3, <1>4, <1>5, <1>6, <1>7, <1>8, <1>9 DEF Next

\* The inductive invariant holds in every reachable state.
THEOREM Invariance == Spec => []Inv
BY InitInv, NextKeepsInv, PTL DEF Spec

\* Type correctness: numbers, ids and counters stay within their bounds.
THEOREM TypeCorrect == Spec => []TypeOK
<1>1. Inv => TypeOK
  BY DEF Inv
<1> QED BY <1>1, Invariance, PTL

\* No order of flushes, failures, retries and answers drops an accepted stroke.
THEOREM NothingLost == Spec => []NoAcceptedStrokeLost
<1>1. Inv => NoAcceptedStrokeLost
  BY DEF Inv
<1> QED BY <1>1, Invariance, PTL

\* Concurrent flushes never hold the same stroke.
THEOREM NothingTwice == Spec => []BatchesDisjoint
<1>1. Inv => BatchesDisjoint
  BY DEF Inv
<1> QED BY <1>1, Invariance, PTL

\* Buffered strokes always have a timer that will flush them.
THEOREM NothingStranded == Spec => []NoStrandedBuffer
<1>1. Inv => NoStrandedBuffer
  BY DEF Inv
<1> QED BY <1>1, Invariance, PTL

\* A sequence number names one stroke, across crashes and restores.
THEOREM NumbersUnique == Spec => []SeqNamesOneStroke
<1>1. Inv => SeqNamesOneStroke
  BY DEF Inv
<1> QED BY <1>1, Invariance, PTL

\* The degraded flag is the exhaustion of the retry budget.
THEOREM DegradedExact == Spec => []DegradedIffExhausted
<1>1. Inv => DegradedIffExhausted
  BY DEF Inv
<1> QED BY <1>1, Invariance, PTL

-----------------------------------------------------------------------------
(* The service implements the durable log *)

\* A step that keeps the accepted strokes and the rows is a stutter of the log.
LEMMA QuietStep ==
  ASSUME UNCHANGED <<accepted, rows>>
  PROVE  [Log!LogNext]_(Log!logVars)
BY DEF Log!logVars

\* append: the new stroke is numbered above all others.
LEMMA EnqueueAccepts ==
  ASSUME Inv, Enqueue, initPhase = "ready", nextId <= MaxStrokes, UNCHANGED rows
  PROVE  Log!LogNext
<1> DEFINE stroke == [seq |-> nextSeq, id |-> nextId]
<1>1. accepted' = accepted \union {stroke}
  BY DEF Enqueue
<1>2. stroke \in Stroke /\ stroke.seq = nextSeq
  BY DEF Stroke, MaxSeq, NumberedBelowNext, Inv, TypeOK
<1>3. \A s \in rows \union accepted : s.seq < nextSeq
  BY DEF Inv, NumberedBelowNext
<1>4. stroke \notin rows
  BY <1>2, <1>3 DEF Inv, TypeOK
<1> HIDE DEF stroke
<1>5. Log!Accept(stroke)
  BY <1>1, <1>2, <1>3, <1>4 DEF Log!Accept
<1> QED BY <1>2, <1>5 DEF Log!LogNext

\* A committed INSERT of accepted strokes: those it adds leave pending.
LEMMA InsertPersists ==
  ASSUME Inv, NEW strokes, strokes \subseteq accepted,
         rows' = AfterInsert(strokes), UNCHANGED accepted
  PROVE  Log!LogNext
<1> DEFINE batch == strokes \ rows
<1>1. rows' = rows \union batch
  BY InsertKeepsAll
<1>2. batch \subseteq accepted \ rows
  OBVIOUS
<1> HIDE DEF batch
<1>3. Log!Persist(batch)
  BY <1>1, <1>2 DEF Log!Persist
<1> QED BY <1>2, <1>3 DEF Log!LogNext

\* A crash: the strokes of the INSERTs that were committed become durable, the
\* others are forgotten.
LEMMA CrashLoses ==
  ASSUME Inv, Crash
  PROVE  Log!LogNext
<1>1. PICK committed \in SUBSET {d \in drains : d.query = "insert"} :
        rows' = AfterInsert(UNION {Range(d.batch) : d \in committed})
  BY DEF Crash
<1> DEFINE strokes == UNION {Range(d.batch) : d \in committed}
           survivors == strokes \ rows
<1>2. strokes \subseteq accepted
  BY DEF Inv, HeldIsAccepted, InFlight
<1>3. rows' = rows \union survivors
  BY <1>1, <1>2, InsertKeepsAll
<1>4. survivors \subseteq accepted \ rows
  BY <1>2
<1> HIDE DEF survivors
<1>5. Log!Lose(survivors)
  BY <1>3 DEF Log!Lose, Crash
<1> QED BY <1>4, <1>5 DEF Log!LogNext

\* Every step of the service is a step of the log or changes nothing of it.
LEMMA StepImplementsLog == Inv /\ [Next]_vars => [Log!LogNext]_(Log!logVars)
<1> SUFFICES ASSUME Inv, [Next]_vars PROVE [Log!LogNext]_(Log!logVars)
  OBVIOUS
<1>1. CASE AwaitInit \/ InitFails \/ InitDone \/ TimerFires \/ RetryFires \/ Idle \/ UNCHANGED vars
  <2>1. UNCHANGED <<accepted, rows>>
    BY <1>1 DEF AwaitInit, InitFails, InitDone, TimerFires, RetryFires, Idle, vars, storeVars, historyVars
  <2> QED BY <2>1, QuietStep
<1>2. CASE AppendStroke \/ ResumeAppend
  <2>1. Enqueue /\ initPhase = "ready" /\ nextId <= MaxStrokes /\ UNCHANGED rows
    BY <1>2 DEF AppendStroke, ResumeAppend, storeVars, Inv, TypeOK, NumberedBelowNext
  <2> QED BY <2>1, EnqueueAccepts
<1>3. CASE StoreAnswers
  <2>1. PICK d \in drains : InsertDone(d) \/ TouchDone(d) \/ DrainFails(d)
    BY <1>3 DEF StoreAnswers
  <2>2. Range(d.batch) \subseteq accepted
    BY InFlightDef DEF Inv, HeldIsAccepted
  <2>3. CASE rows' = AfterInsert(Range(d.batch)) /\ UNCHANGED accepted
    BY <2>2, <2>3, InsertPersists
  <2>4. CASE UNCHANGED <<accepted, rows>>
    BY <2>4, QuietStep
  <2> QED BY <2>1, <2>3, <2>4 DEF InsertDone, TouchDone, DrainFails, storeVars, historyVars
<1>4. CASE Crash
  BY <1>4, CrashLoses
<1> QED BY <1>1, <1>2, <1>3, <1>4 DEF Next

\* Batching, timers, retries and lost answers implement the durable log.
THEOREM Refinement == Spec => ImplementsDurableLog
<1>1. Init => Log!LogInit
  <2>1. Init => Inv
    BY InitInv
  <2> QED BY <2>1 DEF Init, Log!LogInit, Inv, TypeOK
<1> QED BY <1>1, StepImplementsLog, Invariance, PTL DEF ImplementsDurableLog, Spec, Log!LogSpec

-----------------------------------------------------------------------------
(* The delay of the retries *)

\* What Max and Min choose from two numbers.
LEMMA MaxMinOfTwo ==
  ASSUME NEW a \in Int, NEW b \in Int
  PROVE  /\ Max({a, b}) = IF a >= b THEN a ELSE b
         /\ Min({a, b}) = IF a <= b THEN a ELSE b
BY DEF Max, Min

\* Whatever the options are, the base is positive and the ceiling not below it.
LEMMA InitPaceOK == BInit => PaceOK
<1> SUFFICES ASSUME BInit PROVE PaceOK
  OBVIOUS
<1>1. PICK b \in BaseOptions, c \in CeilingOptions : pace = Pace(b, c)
  BY DEF BInit
<1>2. b \in Int /\ c \in Int
  BY BackoffAssumption DEF Unset
<1> DEFINE base == IF b > 0 THEN b ELSE DefaultBase
           ceiling == IF c > 0 THEN c ELSE DefaultCeiling
<1>3. base \in Nat \ {0} /\ ceiling \in Nat \ {0}
  BY <1>2, BackoffAssumption
<1>4. pace = [base |-> base, ceiling |-> Max({base, ceiling})]
  BY <1>1 DEF Pace, Ceiling
<1> HIDE DEF base, ceiling
<1>5. Max({base, ceiling}) = IF base >= ceiling THEN base ELSE ceiling
  BY <1>3, MaxMinOfTwo
<1> QED BY <1>3, <1>4, <1>5 DEF PaceOK

\* The delay after a failure: the exponential of the count of attempts, the ceiling where
\* that exceeds it or the budget is exhausted, and never less than the base.
LEMMA RetryDelayFollows ==
  ASSUME PaceOK, NEW n \in 1..MaxFailures
  PROVE  /\ RetryDelay(n) \in pace.base..pace.ceiling
         /\ \/ RetryDelay(n) = pace.ceiling
            \/ RetryDelay(n) = Exponential(n) /\ ~Exhausted(n)
<1>1. pace.base \in Nat \ {0} /\ pace.ceiling \in Nat /\ pace.base <= pace.ceiling
  BY DEF PaceOK
<1>2. PICK power \in Nat \ {0} : power = 2^(n - 1)
  <2>1. n - 1 \in 0..MaxFailures
    BY BoundsAssumption
  <2> QED BY <2>1, PowersAssumption
<1>3. Exponential(n) = pace.base * power
  BY <1>2 DEF Exponential
<1>4. PICK e \in Nat : e = pace.base * power /\ e >= pace.base
  BY <1>1, <1>2
<1>5. Max({pace.base, e}) = e
  BY <1>1, <1>4, MaxMinOfTwo
<1>6. Min({pace.ceiling, e}) = IF pace.ceiling <= e THEN pace.ceiling ELSE e
  <2>1. pace.ceiling \in Int /\ e \in Int
    BY <1>1
  <2> QED BY <2>1, MaxMinOfTwo
<1>7. \/ ComputeBackoffDelay(n) = pace.ceiling
      \/ ComputeBackoffDelay(n) = e /\ e <= pace.ceiling
  <2>1. ComputeBackoffDelay(n) =
          IF e > Infinite THEN pace.ceiling ELSE Min({pace.ceiling, Max({pace.base, e})})
    BY <1>3, <1>4 DEF ComputeBackoffDelay
  <2>2. ComputeBackoffDelay(n) \in {pace.ceiling, Min({pace.ceiling, e})}
    BY <2>1, <1>5
  <2> QED BY <2>2, <1>1, <1>4, <1>6
<1>8. CASE Exhausted(n)
  <2>1. RetryDelay(n) = pace.ceiling
    BY <1>8 DEF RetryDelay
  <2> QED BY <2>1, <1>1
<1>9. CASE ~Exhausted(n)
  <2>1. RetryDelay(n) = ComputeBackoffDelay(n)
    BY <1>9 DEF RetryDelay
  <2> QED BY <2>1, <1>1, <1>3, <1>4, <1>7, <1>9
<1> QED BY <1>8, <1>9

\* The only step that schedules a retry is one that counts a failure; every other cancels
\* it, or leaves it with the count it was scheduled for or with none.
LEMMA RetryOfFailure ==
  ASSUME Inv, Next, retryTimer'
  PROVE  \/ /\ flushAttempts' = flushAttempts + 1
            /\ persistenceDegraded' = (persistenceDegraded \/ Exhausted(flushAttempts + 1))
         \/ /\ retryTimer
            /\ \/ flushAttempts' = 0
               \/ UNCHANGED healthVars
<1>1. CASE AwaitInit \/ InitDone \/ InitFails \/ Idle
  BY <1>1 DEF AwaitInit, InitDone, InitFails, Idle, vars, timerVars, healthVars
<1>2. CASE AppendStroke \/ ResumeAppend
  BY <1>2 DEF AppendStroke, ResumeAppend, Enqueue, Flush, timerVars, healthVars
<1>3. CASE TimerFires \/ RetryFires \/ Crash
  BY <1>3 DEF TimerFires, RetryFires, Flush, Crash
<1>4. CASE StoreAnswers
  <2>1. PICK d \in drains : InsertDone(d) \/ TouchDone(d) \/ DrainFails(d)
    BY <1>4 DEF StoreAnswers
  <2> QED
    BY <2>1 DEF InsertDone, TouchDone, DrainFails, HandleFlushFailure, MarkPersisted,
                timerVars, healthVars
<1> QED BY <1>1, <1>2, <1>3, <1>4 DEF Next

\* A step of the write path, with the delay it sets.
LEMMA BNextKeepsInv == BInv /\ [BNext]_bvars => BInv'
<1> SUFFICES ASSUME BInv, [BNext]_bvars PROVE BInv'
  OBVIOUS
<1>1. Inv'
  <2>1. [Next]_vars
    BY DEF BNext, bvars
  <2> QED BY <2>1, NextKeepsInv DEF BInv
<1>2. pace' = pace /\ PaceOK /\ PaceOK'
  BY DEF BInv, BNext, bvars, PaceOK
<1>3. /\ flushAttempts \in Nat /\ flushAttempts' \in 0..MaxFailures
      /\ persistenceDegraded <=> flushAttempts > MaxFlushRetries
      /\ pace.base \in Nat \ {0} /\ pace.ceiling \in Nat
  BY <1>1, <1>2 DEF BInv, Inv, TypeOK, DegradedIffExhausted, PaceOK
<1>4. CASE UNCHANGED bvars
  BY <1>1, <1>2, <1>4 DEF BInv, DelayFollowsAttempts, Exponential, bvars, vars, timerVars, healthVars
<1>5. CASE BNext /\ ~retryTimer'
  BY <1>1, <1>2, <1>5 DEF BInv, DelayFollowsAttempts
<1>6. CASE BNext /\ retryTimer' /\ flushAttempts' > flushAttempts
  <2>1. /\ flushAttempts' = flushAttempts + 1
        /\ persistenceDegraded' = (persistenceDegraded \/ Exhausted(flushAttempts + 1))
    <3>1. Inv /\ Next
      BY <1>6 DEF BNext, BInv
    <3> QED BY <3>1, <1>3, <1>6, RetryOfFailure DEF healthVars
  <2>2. delay' = RetryDelay(flushAttempts')
    BY <1>6 DEF BNext
  <2>3. flushAttempts' \in 1..MaxFailures
    BY <1>3, <1>6
  <2>4. /\ delay' \in pace.base..pace.ceiling
        /\ \/ delay' = pace.ceiling
           \/ delay' = Exponential(flushAttempts') /\ ~Exhausted(flushAttempts')
    BY <1>2, <2>2, <2>3, RetryDelayFollows
  <2>5. ~Exhausted(flushAttempts') => ~persistenceDegraded'
    <3>1. ~Exhausted(flushAttempts + 1) => ~(flushAttempts > MaxFlushRetries)
      BY <1>3, RetriesAssumption DEF Exhausted
    <3> QED BY <1>3, <2>1, <3>1, Zenon
  <2> QED BY <1>1, <1>2, <2>4, <2>5 DEF BInv, DelayFollowsAttempts, Exponential
<1>7. CASE BNext /\ retryTimer' /\ ~(flushAttempts' > flushAttempts)
  <2>1. retryTimer /\ (flushAttempts' = 0 \/ UNCHANGED healthVars)
    <3>1. Inv /\ Next
      BY <1>7 DEF BNext, BInv
    <3> QED BY <3>1, <1>3, <1>7, RetryOfFailure
  <2>2. delay' = delay
    BY <1>7 DEF BNext
  <2> QED BY <1>1, <1>2, <2>1, <2>2 DEF BInv, DelayFollowsAttempts, Exponential, healthVars
<1> QED BY <1>4, <1>5, <1>6, <1>7

\* A scheduled retry waits between the base and the ceiling, and doubles with every
\* failure until there (computeBackoffDelay and handleFlushFailure).
THEOREM DelaysDouble == BFairSpec => []DelayFollowsAttempts
<1>1. BInit => BInv
  <2>1. BInit => Inv /\ ~retryTimer
    BY InitInv DEF BInit, Init
  <2> QED BY <2>1, InitPaceOK DEF BInv, DelayFollowsAttempts
<1>2. BInv => DelayFollowsAttempts
  BY DEF BInv
<1> QED BY <1>1, <1>2, BNextKeepsInv, PTL DEF BFairSpec

-----------------------------------------------------------------------------
(* The shutdown *)

USE BatchSizeAssumption, RetriesAssumption, BoundsAssumption, ShutdownBounds

-----------------------------------------------------------------------------
(* The write path under the shutdown *)

\* What the process does between signals are steps of the write path.
LEMMA WorkKeepsInv ==
  ASSUME Inv,
         \/ AwaitInit \/ InitDone \/ InitFails \/ AppendStroke \/ ResumeAppend
         \/ TimerFires \/ RetryFires
         \/ \E d \in drains : InsertDone(d) \/ TouchDone(d) \/ DrainFails(d)
  PROVE  Inv'
BY NextKeepsInv DEF Next, StoreAnswers

\* flushAll drains the buffer of a restored board, and has nothing to drain before.
LEMMA FlushAllKeepsInv ==
  ASSUME Inv, FlushAll(buffer), UNCHANGED <<initVars, storeVars, historyVars, boundVars>>
  PROVE  Inv' /\ buffer' = <<>>
<1>1. DrainOnce(buffer) /\ timer' = FALSE /\ retryTimer' = FALSE
  BY DEF FlushAll, Flush
<1>2. buffer' = <<>>
  BY <1>1, DrainOnceMoves DEF Inv, TypeOK
<1>3. CASE initPhase = "ready"
  <2>1. timer' \in BOOLEAN /\ retryTimer' \in BOOLEAN
    BY <1>1
  <2> QED BY <1>1, <1>2, <1>3, <2>1, DrainKeepsInv
<1>4. CASE initPhase # "ready"
  <2>1. buffer = <<>> /\ drains = {} /\ accepted = {}
    BY <1>4 DEF Inv, EmptyUntilRestored
  <2>2. drains' = drains /\ flushAttempts' = 0 /\ persistenceDegraded' = FALSE
    BY <1>1, <2>1 DEF DrainOnce, MarkPersisted
  <2>3. UNCHANGED <<initPhase, waiting, nextSeq, rows, snapshotSeq, accepted, nextId, failures,
                    crashes>>
    BY DEF initVars, storeVars, historyVars, boundVars
  <2>4. TypeOK'
    <3>1. timer' \in BOOLEAN /\ retryTimer' \in BOOLEAN /\ persistenceDegraded' \in BOOLEAN
      BY <1>1, <2>2
    <3>2. buffer' \in Seq(Stroke) /\ flushAttempts' \in 0..MaxFailures
      BY <1>2, <2>2
    <3> QED BY <2>2, <2>3, <3>1, <3>2 DEF Inv, TypeOK
  <2>5. EmptyUntilRestored' /\ NumberedBelowNext' /\ AttemptsAreFailures'
    <3>1. EmptyUntilRestored'
      BY <1>1, <1>2, <2>1, <2>2, <2>3 DEF Inv, EmptyUntilRestored
    <3>2. NumberedBelowNext'
      BY <2>3 DEF Inv, NumberedBelowNext
    <3>3. AttemptsAreFailures'
      BY <2>2, <2>3 DEF Inv, TypeOK, AttemptsAreFailures
    <3> QED BY <3>1, <3>2, <3>3
  <2>6. HeldIsAccepted' /\ NoAcceptedStrokeLost' /\ TouchedIsStored' /\ BatchesDisjoint'
    BY <1>2, <2>1, <2>2, <2>3, RangeEmpty
       DEF HeldIsAccepted, NoAcceptedStrokeLost, TouchedIsStored, BatchesDisjoint, InFlight
  <2>7. NoStrandedBuffer' /\ SeqNamesOneStroke' /\ DegradedIffExhausted'
    BY <1>2, <2>2, <2>3 DEF Inv, NoStrandedBuffer, SeqNamesOneStroke, DegradedIffExhausted
  <2> QED BY <1>2, <2>4, <2>5, <2>6, <2>7 DEF Inv
<1> QED BY <1>3, <1>4

\* An empty buffer stays empty, and nothing new is in flight, unless a statement fails or
\* a stroke is numbered.
LEMMA NothingToDrain ==
  ASSUME buffer = <<>>, DrainOnce(buffer)
  PROVE  buffer' = <<>> /\ drains' = drains
BY DEF DrainOnce

-----------------------------------------------------------------------------
(* The invariant *)

\* A process that was just started.
LEMMA SInitInv == SInit => SInv
<1> SUFFICES ASSUME SInit PROVE SInv
  OBVIOUS
<1>1. Inv /\ TypeOK
  BY InitInv DEF SInit, Inv
<1>2. STypeOK
  BY <1>1 DEF SInit, STypeOK, Phases
<1>3. ClosedOnce /\ NotedByFlush /\ NothingHeldBack
  BY <1>1 DEF SInit, ClosedOnce, Flushed, Alive, NotedByFlush, NothingHeldBack, TypeOK
<1>4. CleanExitLosesNothing
  BY DEF SInit, CleanExitLosesNothing
<1> QED BY <1>1, <1>2, <1>3, <1>4 DEF SInv

\* A connection comes or goes.
LEMMA ConnectionKeepsSInv == SInv /\ (Connect \/ Leave) => SInv'
<1> SUFFICES ASSUME SInv, Connect \/ Leave PROVE SInv'
  OBVIOUS
<1>1. UNCHANGED vars /\ UNCHANGED <<phase, closes, awaited, served, exitCode, signals,
                                    failedBefore, waitedThen>>
  BY DEF Connect, Leave, shutdownVars
<1>2. /\ clients' \in 0..MaxClients /\ clients \in 0..MaxClients
      /\ phase = "running" \/ clients > 0
  BY DEF Connect, Leave, SInv, STypeOK
<1>3. Inv' /\ TypeOK'
  BY <1>1, StutterKeepsInv DEF SInv, Inv
<1>4. UNCHANGED <<buffer, drains, rows, accepted, failures, waiting>>
  BY <1>1 DEF vars, initVars, storeVars, historyVars, boundVars
<1>5. STypeOK'
  BY <1>1, <1>2, <1>3 DEF SInv, STypeOK
<1>6. ClosedOnce'
  BY <1>1, <1>2 DEF SInv, ClosedOnce, Flushed, Alive
<1>7. NotedByFlush' /\ NothingHeldBack' /\ CleanExitLosesNothing'
  BY <1>1, <1>4 DEF SInv, NotedByFlush, NothingHeldBack, CleanExitLosesNothing
<1> QED BY <1>3, <1>5, <1>6, <1>7 DEF SInv

\* A connected member draws: flushAll was not called yet.
LEMMA MemberDrawsKeepsSInv == SInv /\ MemberDraws => SInv'
<1> SUFFICES ASSUME SInv, MemberDraws PROVE SInv'
  OBVIOUS
<1>1. UNCHANGED <<phase, closes, awaited, served, exitCode, signals, failedBefore, waitedThen,
                  clients>>
  BY DEF MemberDraws, shutdownVars
<1>2. Alive /\ clients > 0 /\ phase \notin Flushed /\ exitCode = -1
  BY DEF MemberDraws, SInv, STypeOK, ClosedOnce
<1>3. Inv' /\ TypeOK'
  BY WorkKeepsInv DEF MemberDraws, SInv, Inv
<1>4. failures' = failures
  BY DEF MemberDraws, AwaitInit, AppendStroke, boundVars
<1>5. STypeOK' /\ ClosedOnce'
  BY <1>1, <1>3 DEF SInv, STypeOK, ClosedOnce, Flushed, Alive
<1>6. NotedByFlush' /\ NothingHeldBack' /\ CleanExitLosesNothing'
  BY <1>1, <1>2, <1>4 DEF SInv, NotedByFlush, NothingHeldBack, CleanExitLosesNothing, Flushed
<1> QED BY <1>3, <1>5, <1>6 DEF SInv

\* Timers and continuations: after flushAll they number a stroke only of an append that
\* was waiting then.
LEMMA BackgroundKeepsSInv == SInv /\ Background => SInv'
<1> SUFFICES ASSUME SInv, Background PROVE SInv'
  OBVIOUS
<1>1. UNCHANGED <<phase, closes, awaited, served, exitCode, signals, failedBefore, waitedThen,
                  clients>>
  BY DEF Background, shutdownVars
<1>2. Inv' /\ TypeOK'
  BY WorkKeepsInv DEF Background, SInv, Inv
<1>3. /\ waiting \in Nat /\ failures \in Nat /\ failedBefore \in Nat /\ waitedThen \in Nat
      /\ exitCode = -1 /\ failedBefore <= failures
  BY DEF SInv, STypeOK, TypeOK, ClosedOnce, NotedByFlush, Background
<1>4. /\ waiting' <= waiting /\ waiting' \in Nat /\ failures' \in {failures, failures + 1}
      /\ \/ failures' = failures + 1
         \/ waiting > 0
         \/ UNCHANGED <<buffer, drains>>
         \/ DrainOnce(buffer)
  <2>1. CASE InitDone
    BY <1>3, <2>1 DEF InitDone, boundVars
  <2>2. CASE InitFails
    BY <1>3, <2>2 DEF InitFails
  <2>3. CASE ResumeAppend
    BY <1>3, <2>3 DEF ResumeAppend, boundVars
  <2>4. CASE TimerFires \/ RetryFires
    BY <1>3, <2>4 DEF TimerFires, RetryFires, Flush, initVars, boundVars
  <2> QED BY <2>1, <2>2, <2>3, <2>4 DEF Background
<1>5. STypeOK' /\ ClosedOnce'
  BY <1>1, <1>2 DEF SInv, STypeOK, ClosedOnce, Flushed, Alive
<1>6. NotedByFlush'
  BY <1>1, <1>3, <1>4 DEF SInv, NotedByFlush
<1>7. NothingHeldBack'
  <2>1. SUFFICES ASSUME phase \in Flushed, failures' = failedBefore, waitedThen = 0
                 PROVE  /\ buffer' = <<>>
                        /\ phase = "releasing" => \A d \in drains' : d \in served \/ d.query = "touch"
    BY <1>1 DEF NothingHeldBack
  <2>2. failures = failedBefore /\ failures' = failures /\ ~(waiting > 0)
    BY <1>3, <1>4, <2>1 DEF SInv, NotedByFlush
  <2>3. /\ buffer = <<>>
        /\ phase = "releasing" => \A d \in drains : d \in served \/ d.query = "touch"
    BY <2>1, <2>2 DEF SInv, NothingHeldBack
  <2>4. UNCHANGED <<buffer, drains>> \/ DrainOnce(buffer)
    BY <1>3, <1>4, <2>2
  <2>5. buffer' = <<>> /\ drains' = drains
    BY <2>3, <2>4, NothingToDrain
  <2> QED BY <2>3, <2>5
<1>8. CleanExitLosesNothing'
  BY <1>1, <1>3 DEF CleanExitLosesNothing
<1> QED BY <1>2, <1>5, <1>6, <1>7, <1>8 DEF SInv

\* An answered statement stores its batch, or counts as a failure.
LEMMA AnsweredKeepsSInv == SInv /\ (\E d \in drains : Answered(d)) => SInv'
<1> SUFFICES ASSUME SInv, NEW d \in drains, Answered(d) PROVE SInv'
  OBVIOUS
<1>1. /\ UNCHANGED <<closes, awaited, served, exitCode, signals, failedBefore, waitedThen, clients>>
      /\ Alive /\ exitCode = -1
      /\ phase' = phase \/ (phase = "flushing" /\ phase' = "disconnecting")
  BY DEF Answered, SInv, ClosedOnce
<1>2. InsertDone(d) \/ TouchDone(d) \/ DrainFails(d)
  BY DEF Answered
<1>3. Inv' /\ TypeOK'
  BY <1>2, WorkKeepsInv DEF SInv, Inv
<1>4. /\ waiting \in Nat /\ failures \in Nat /\ failedBefore \in Nat /\ failedBefore <= failures
  BY DEF SInv, STypeOK, TypeOK, NotedByFlush
<1>5. /\ waiting' = waiting
      /\ \/ failures' = failures + 1
         \/ /\ failures' = failures /\ buffer' = buffer
            /\ \A e \in drains' : e \in drains \/ e.query = "touch"
  <2>1. CASE InsertDone(d)
    <3> DEFINE touching == [d EXCEPT !.query = "touch"]
    <3>1. touching.query = "touch"
      BY DEF SInv, Inv, TypeOK, Drain
    <3>2. drains' = (drains \ {d}) \union {touching} /\ UNCHANGED <<waiting, failures, buffer>>
      BY <2>1 DEF InsertDone, initVars, boundVars
    <3> HIDE DEF touching
    <3> QED BY <3>1, <3>2
  <2>2. CASE TouchDone(d)
    BY <2>2 DEF TouchDone, initVars, boundVars
  <2>3. CASE DrainFails(d)
    BY <2>3 DEF DrainFails, initVars
  <2> QED BY <1>2, <2>1, <2>2, <2>3
<1>6. STypeOK'
  BY <1>1, <1>3 DEF SInv, STypeOK, Phases
<1>7. ClosedOnce'
  BY <1>1 DEF SInv, ClosedOnce, Flushed, Alive
<1>8. NotedByFlush'
  BY <1>1, <1>4, <1>5 DEF SInv, NotedByFlush, Flushed
<1>9. NothingHeldBack'
  <2>1. SUFFICES ASSUME phase' \in Flushed, failures' = failedBefore, waitedThen = 0
                 PROVE  /\ buffer' = <<>>
                        /\ phase' = "releasing" => \A e \in drains' : e \in served \/ e.query = "touch"
    BY <1>1 DEF NothingHeldBack
  <2>2. /\ failures' = failures /\ buffer' = buffer /\ failures = failedBefore
        /\ \A e \in drains' : e \in drains \/ e.query = "touch"
    BY <1>4, <1>5, <2>1
  <2>3. phase \in Flushed /\ (phase' = "releasing" => phase = "releasing")
    BY <1>1, <2>1 DEF Flushed
  <2> QED BY <2>1, <2>2, <2>3 DEF SInv, NothingHeldBack
<1>10. CleanExitLosesNothing'
  BY <1>1 DEF CleanExitLosesNothing
<1> QED BY <1>3, <1>6, <1>7, <1>8, <1>9, <1>10 DEF SInv

\* The first signal closes the server; a later one changes nothing.
LEMMA SignalKeepsSInv == SInv /\ Signal => SInv'
<1> SUFFICES ASSUME SInv, Signal PROVE SInv'
  OBVIOUS
<1>1. UNCHANGED vars /\ UNCHANGED <<awaited, served, exitCode, failedBefore, waitedThen, clients>>
  BY DEF Signal
<1>2. UNCHANGED <<buffer, drains, rows, accepted, failures, waiting>>
  BY <1>1 DEF vars, initVars, storeVars, historyVars, boundVars
<1>3. Inv' /\ TypeOK'
  BY <1>1, StutterKeepsInv DEF SInv, Inv
<1>4. /\ signals' = signals + 1 /\ signals' \in 0..MaxSignals /\ Alive
      /\ \/ phase # "running" /\ UNCHANGED <<phase, closes>>
         \/ phase = "running" /\ phase' = "closing" /\ closes' = closes + 1
  BY DEF Signal, ShuttingDown, SInv, STypeOK
<1>5. ClosedOnce' /\ closes' \in 0..MaxSignals
  BY <1>1, <1>4 DEF SInv, STypeOK, ClosedOnce, Flushed, Alive
<1>6. phase' \in Phases
  BY <1>4 DEF SInv, STypeOK, Phases
<1>7. STypeOK'
  BY <1>1, <1>3, <1>4, <1>5, <1>6 DEF SInv, STypeOK
<1>8. phase' \in Flushed => phase \in Flushed /\ phase' = phase
  BY <1>4 DEF Flushed
<1>9. NotedByFlush' /\ NothingHeldBack' /\ CleanExitLosesNothing'
  BY <1>1, <1>2, <1>8 DEF SInv, NotedByFlush, NothingHeldBack, CleanExitLosesNothing
<1> QED BY <1>3, <1>5, <1>7, <1>9 DEF SInv

\* flushAll is called once no connection is left.
LEMMA ServerClosedKeepsSInv == SInv /\ ServerClosed => SInv'
<1> SUFFICES ASSUME SInv, ServerClosed PROVE SInv'
  OBVIOUS
<1>1. /\ phase = "closing" /\ phase' \in {"flushing", "disconnecting"}
      /\ awaited' = buffer /\ failedBefore' = failures /\ waitedThen' = waiting
      /\ UNCHANGED <<closes, clients, served, exitCode, signals>>
  BY DEF ServerClosed
<1>2. Inv' /\ TypeOK' /\ buffer' = <<>>
  BY FlushAllKeepsInv DEF ServerClosed, SInv, Inv
<1>3. UNCHANGED <<waiting, failures>>
  BY DEF ServerClosed, initVars, boundVars
<1>4. closes = 1 /\ clients = 0 /\ exitCode = -1
  BY <1>1 DEF ServerClosed, SInv, ClosedOnce, Alive
<1>5. STypeOK'
  BY <1>1, <1>2 DEF SInv, STypeOK, TypeOK, Phases
<1>6. ClosedOnce'
  BY <1>1, <1>4 DEF SInv, ClosedOnce, Alive
<1>7. NotedByFlush' /\ NothingHeldBack' /\ CleanExitLosesNothing'
  <2>1. waiting \in Nat /\ failures \in Nat
    BY DEF SInv, STypeOK, TypeOK
  <2> QED BY <1>1, <1>2, <1>3, <1>4, <2>1 DEF NotedByFlush, NothingHeldBack, CleanExitLosesNothing
<1> QED BY <1>2, <1>5, <1>6, <1>7 DEF SInv

\* The pool and the clients are closed: the statements under way were sent before.
LEMMA IoClosedKeepsSInv == SInv /\ IoClosed => SInv'
<1> SUFFICES ASSUME SInv, IoClosed PROVE SInv'
  OBVIOUS
<1>1. /\ phase = "disconnecting" /\ phase' = "releasing" /\ clients' = 0 /\ served' = drains
      /\ UNCHANGED <<closes, awaited, exitCode, signals, failedBefore, waitedThen>>
      /\ UNCHANGED vars
  BY DEF IoClosed
<1>2. UNCHANGED <<buffer, drains, rows, accepted, failures, waiting>>
  BY <1>1 DEF vars, initVars, storeVars, historyVars, boundVars
<1>3. Inv' /\ TypeOK'
  BY <1>1, StutterKeepsInv DEF SInv, Inv
<1>4. STypeOK'
  BY <1>1, <1>3 DEF SInv, STypeOK, TypeOK, Phases
<1>5. ClosedOnce'
  BY <1>1 DEF SInv, ClosedOnce, Alive
<1>6. NotedByFlush' /\ NothingHeldBack' /\ CleanExitLosesNothing'
  BY <1>1, <1>2 DEF SInv, NotedByFlush, NothingHeldBack, CleanExitLosesNothing, Flushed
<1> QED BY <1>3, <1>4, <1>5, <1>6 DEF SInv

\* The process ends; with code 0 only once the pool has ended, and then every stroke
\* that was in flight is stored.
LEMMA ExitKeepsSInv == SInv /\ (ShutdownFails \/ Released \/ ForceExit) => SInv'
<1> SUFFICES ASSUME SInv, ShutdownFails \/ Released \/ ForceExit PROVE SInv'
  OBVIOUS
<1>1. /\ phase' = "exited" /\ exitCode' \in {0, 1} /\ clients' = 0
      /\ UNCHANGED <<closes, awaited, served, signals, failedBefore, waitedThen>>
      /\ UNCHANGED vars
      /\ phase # "running"
      /\ exitCode' = 0 => Released
  BY DEF ShutdownFails, Released, ForceExit, Exit, ForceArmed, ShuttingDown
<1>2. UNCHANGED <<buffer, drains, rows, accepted, failures, waiting>>
  BY <1>1 DEF vars, initVars, storeVars, historyVars, boundVars
<1>3. Inv' /\ TypeOK'
  BY <1>1, StutterKeepsInv DEF SInv, Inv
<1>4. STypeOK'
  BY <1>1, <1>3 DEF SInv, STypeOK, TypeOK, Phases
<1>5. ClosedOnce'
  BY <1>1 DEF SInv, ClosedOnce, Alive, Flushed
<1>6. NotedByFlush' /\ NothingHeldBack'
  BY <1>1, <1>2 DEF SInv, NotedByFlush, NothingHeldBack, Flushed
<1>7. CleanExitLosesNothing'
  <2>1. SUFFICES ASSUME Released, failures = failedBefore, waitedThen = 0
                 PROVE  accepted \subseteq rows
    BY <1>1, <1>2 DEF CleanExitLosesNothing
  <2>2. phase = "releasing" /\ drains \intersect served = {}
    BY <2>1 DEF Released, PoolEnded
  <2>3. /\ buffer = <<>>
        /\ \A d \in drains : d.query = "touch"
    BY <2>1, <2>2 DEF SInv, NothingHeldBack, Flushed
  <2>4. InFlight \subseteq rows
    BY <2>3, InFlightDef DEF SInv, Inv, TouchedIsStored
  <2> QED BY <2>3, <2>4, RangeEmpty DEF SInv, Inv, NoAcceptedStrokeLost
<1> QED BY <1>3, <1>4, <1>5, <1>6, <1>7 DEF SInv

\* Every step of the process keeps the invariant, and so does stuttering.
LEMMA SNextKeepsSInv == SInv /\ [SNext]_svars => SInv'
<1> SUFFICES ASSUME SInv, [SNext]_svars PROVE SInv'
  OBVIOUS
<1>1. CASE UNCHANGED svars
  <2>1. UNCHANGED vars /\ UNCHANGED <<phase, closes, awaited, served, exitCode, signals,
                                      failedBefore, waitedThen, clients>>
    BY <1>1 DEF svars, shutdownVars
  <2>2. UNCHANGED <<buffer, drains, rows, accepted, failures, waiting>>
    BY <2>1 DEF vars, initVars, storeVars, historyVars, boundVars
  <2>3. Inv' /\ TypeOK'
    BY <2>1, StutterKeepsInv DEF SInv, Inv
  <2>4. STypeOK' /\ ClosedOnce'
    BY <2>1, <2>3 DEF SInv, STypeOK, ClosedOnce, Alive
  <2>5. NotedByFlush' /\ NothingHeldBack' /\ CleanExitLosesNothing'
    BY <2>1, <2>2 DEF SInv, NotedByFlush, NothingHeldBack, CleanExitLosesNothing
  <2> QED BY <2>3, <2>4, <2>5 DEF SInv
<1>2. CASE SNext
  BY <1>1, <1>2, ConnectionKeepsSInv, MemberDrawsKeepsSInv, BackgroundKeepsSInv,
     AnsweredKeepsSInv, SignalKeepsSInv, ServerClosedKeepsSInv, IoClosedKeepsSInv,
     ExitKeepsSInv DEF SNext, Exited
<1> QED BY <1>1, <1>2

-----------------------------------------------------------------------------
(* What it gives *)

\* The shutdown sequence, and the write path under it, keep the inductive invariant.
THEOREM ShutdownInvariance == SSpec => []SInv
BY SInitInv, SNextKeepsSInv, PTL DEF SSpec

\* The state of the shutdown keeps its types and bounds.
THEOREM ShutdownTypes == SSpec => []STypeOK
<1>1. SInv => STypeOK
  BY DEF SInv
<1> QED BY <1>1, ShutdownInvariance, PTL

\* The write path keeps its safety properties while the process shuts down.
THEOREM ShutdownKeepsWritePath == SSpec => []Inv
<1>1. SInv => Inv
  BY DEF SInv
<1> QED BY <1>1, ShutdownInvariance, PTL

\* An exit with code 0 leaves every accepted stroke in the store, unless a statement
\* failed after flushAll had been called or an append awaited the restore then
\* (gracefulShutdown of index.ts).
THEOREM CleanExitSafe == SSpec => []CleanExitLosesNothing
<1>1. SInv => CleanExitLosesNothing
  BY DEF SInv
<1> QED BY <1>1, ShutdownInvariance, PTL

\* After flushAll nothing is accepted but of an append that was awaiting the restore:
\* server.close has let the last client go before (gracefulShutdown of index.ts).
THEOREM FlushedLast == SSpec => NoDrawAfterFlush
<1>1. ASSUME SInv, [SNext]_svars, accepted' # accepted, phase \in Flushed
      PROVE  waiting > 0
  <2>1. clients = 0 /\ waiting \in Nat
    BY <1>1 DEF SInv, STypeOK, TypeOK, ClosedOnce
  <2>2. ~MemberDraws
    BY <2>1 DEF MemberDraws
  <2>3. ~(Connect \/ Leave \/ Signal \/ IoClosed \/ ShutdownFails \/ Released \/ ForceExit
           \/ UNCHANGED svars)
    BY <1>1 DEF Connect, Leave, Signal, IoClosed, ShutdownFails, Released, ForceExit, Exit,
                svars, vars, historyVars
  <2>4. ~ServerClosed
    BY <1>1 DEF ServerClosed, historyVars
  <2>5. ~(\E d \in drains : Answered(d))
    BY <1>1 DEF Answered, InsertDone, TouchDone, DrainFails, historyVars
  <2>6. Background
    BY <1>1, <2>2, <2>3, <2>4, <2>5 DEF SNext, Exited
  <2>7. ResumeAppend
    BY <1>1, <2>6 DEF Background, InitDone, InitFails, TimerFires, RetryFires, historyVars
  <2> QED BY <2>7 DEF ResumeAppend
<1>2. SInv /\ [SNext]_svars =>
        [accepted' # accepted /\ phase \in Flushed => waiting > 0]_svars
  BY <1>1
<1> QED BY <1>2, ShutdownInvariance, PTL DEF SSpec, NoDrawAfterFlush

=============================================================================
