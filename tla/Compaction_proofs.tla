--------------------------- MODULE Compaction_proofs ---------------------------
(***************************************************************************)
(* That compactions lose no stroke and free no number, however many run at *)
(* once and wherever they fail, for every cap, batch size and bound; that  *)
(* the service with its compactions still implements the durable log; and  *)
(* that the histories loaded meanwhile (JoinHistory) are in order and skip *)
(* nothing durable, for any number of requests.                            *)
(***************************************************************************)
EXTENDS JoinHistory, StrokeService_proofs, FiniteSetTheorems, FunctionTheorems,
        WellFoundedInduction

USE BatchSizeAssumption, RetriesAssumption, BoundsAssumption

-----------------------------------------------------------------------------
(* What steps of the write path, and steps of compactions, leave alone *)

\* A step of the write path keeps what is said of compactions: it deletes no row, moves
\* no baseline and starts no compaction.
LEMMA WritePathKeepsRest ==
  ASSUME CInv, TypeOK', rows \subseteq rows', nextId <= nextId',
         counting' \in 0..MaxStrokes, counting' < nextId',
         UNCHANGED <<snapshotSeq, compacting, compactions, highCut, pruned>>
  PROVE  /\ CTypeOK' /\ TopSurvives' /\ CutsRecorded' /\ CountsAreDraws' /\ FlagHasCompaction'
         /\ \A s \in pruned' : s.seq <= highCut'
<1> USE DEF CInv
<1>1. CTypeOK'
  <2>1. compacting' \in BOOLEAN
    BY Zenon DEF CTypeOK
  <2> QED BY <2>1 DEF CTypeOK
<1>2. TopSurvives'
  BY DEF TopSurvives, RowAbove
<1>3. CutsRecorded' /\ CountsAreDraws'
  BY DEF CutsRecorded, CountsAreDraws
<1>4. FlagHasCompaction'
  BY DEF FlagHasCompaction, Running
<1>5. \A s \in pruned' : s.seq <= highCut'
  BY DEF OnlyBaselinePruned
<1> QED BY <1>1, <1>2, <1>3, <1>4, <1>5

\* A step of a compaction that deletes nothing keeps what is said of strokes.
LEMMA CompactionKeepsRest ==
  ASSUME CInv,
         UNCHANGED <<initVars, buffer, timerVars, healthVars, drains, rows, historyVars, crashes,
                     pruned>>,
         failures' \in 0..MaxFailures, failures <= failures',
         snapshotSeq' \in 0..MaxSeq, highCut' \in 0..MaxSeq, highCut <= highCut',
         compacting' \in BOOLEAN, counting' \in 0..MaxStrokes, counting' < nextId,
         compactions' \in [Compactors -> [awaits : {"nothing", "flag", "baseline", "tail", "set", "delete"},
                                          base : 0..MaxSeq, cut : 0..MaxSeq]],
         TopSurvives', CutsRecorded', FlagHasCompaction'
  PROVE  CInv'
<1> USE DEF CInv, CTypeOK, TypeOK, initVars, timerVars, healthVars, historyVars
<1>1. TypeOK'
  <2>1. timer' \in BOOLEAN /\ retryTimer' \in BOOLEAN /\ persistenceDegraded' \in BOOLEAN
    BY Zenon
  <2> QED BY <2>1
<1>2. CTypeOK'
  BY <1>1
<1>3. EmptyUntilRestored' /\ HeldIsAccepted' /\ InFlight' = InFlight
  BY DEF EmptyUntilRestored, HeldIsAccepted, InFlight
<1>4. StoredBelowNext' /\ TouchedWasStored'
  <2>1. initPhase = "ready" => snapshotSeq' < nextSeq
    BY DEF TopSurvives, RowAbove, StoredBelowNext, Stored, Stroke, MaxSeq
  <2> QED BY <2>1 DEF StoredBelowNext, TouchedWasStored, Stored
<1>5. AttemptsAreFailures'
  BY DEF AttemptsAreFailures
<1>6. CountsAreDraws'
  BY DEF CountsAreDraws
<1>7. OnlyBaselinePruned'
  <2>1. \A s \in pruned : s.seq \in Nat /\ s.seq <= highCut
    BY DEF OnlyBaselinePruned, Stroke
  <2>2. \A s \in pruned : s.seq <= highCut'
    BY <2>1 DEF MaxSeq
  <2> QED BY <1>3, <2>2 DEF OnlyBaselinePruned
<1>8. NumbersOutlivePruning'
  BY DEF NumbersOutlivePruning
<1> QED BY <1>2, <1>3, <1>4, <1>5, <1>6, <1>7, <1>8

-----------------------------------------------------------------------------
(* The write path *)

\* An INSERT of accepted strokes discards none of them, pruned ones included: no other
\* stroke has their numbers.
LEMMA InsertStoresAll ==
  ASSUME CInv, NEW strokes, strokes \subseteq accepted
  PROVE  AfterInsert(strokes) = rows \union strokes
BY DEF AfterInsert, CInv, NumbersOutlivePruning

\* A drained buffer is in flight.
LEMMA CDrainKeepsInv ==
  ASSUME CInv, DrainOnce(buffer), timer' \in BOOLEAN, retryTimer' \in BOOLEAN,
         initPhase = "ready",
         UNCHANGED <<initVars, storeVars, historyVars, boundVars, compactVars>>
  PROVE  CInv'
<1> USE DEF CInv, CTypeOK, TypeOK, initVars, storeVars, historyVars, boundVars, healthVars
<1>1. /\ buffer' = <<>> /\ drains' \subseteq Drain
      /\ \A d \in drains' : d \in drains \/ d = [batch |-> buffer, query |-> "insert"]
      /\ InFlight' = InFlight \union Range(buffer)
      /\ UNCHANGED healthVars \/ (flushAttempts' = 0 /\ persistenceDegraded' = FALSE)
  BY DrainOnceMoves
<1>2. TypeOK'
  <2>1. flushAttempts' \in 0..MaxFailures
    BY <1>1
  <2>2. persistenceDegraded' \in BOOLEAN
    BY <1>1, Zenon
  <2>3. buffer' \in Seq(Stroke)
    BY <1>1
  <2> QED BY <1>1, <2>1, <2>2, <2>3
<1>3. EmptyUntilRestored' /\ StoredBelowNext'
  BY DEF EmptyUntilRestored, StoredBelowNext, Stored, compactVars
<1>4. HeldIsAccepted' /\ accepted' \subseteq rows' \union Range(buffer') \union InFlight' \union pruned'
  BY <1>1, RangeEmpty DEF HeldIsAccepted, OnlyBaselinePruned, compactVars
<1>5. TouchedWasStored'
  BY <1>1 DEF TouchedWasStored, Stored, compactVars
<1>6. AttemptsAreFailures'
  BY <1>1 DEF AttemptsAreFailures
<1>7. NumbersOutlivePruning'
  BY DEF NumbersOutlivePruning, compactVars
<1>8. counting < nextId
  BY DEF CountsAreDraws
<1>9. /\ CTypeOK' /\ TopSurvives' /\ CutsRecorded' /\ CountsAreDraws' /\ FlagHasCompaction'
      /\ \A s \in pruned' : s.seq <= highCut'
  BY <1>2, <1>8, WritePathKeepsRest DEF compactVars
<1> QED BY <1>3, <1>4, <1>5, <1>6, <1>7, <1>9 DEF OnlyBaselinePruned

\* The stroke of a draw is numbered above all that was ever stored.
LEMMA CEnqueueKeepsInv ==
  ASSUME CInv, Enqueue, initPhase = "ready", nextId <= MaxStrokes,
         waiting' \in 0..MaxStrokes, nextId' + waiting' <= MaxStrokes + 1,
         counting' \in {counting, counting + 1},
         UNCHANGED <<initPhase, storeVars, boundVars, compacting, compactions, highCut, pruned>>
  PROVE  CInv'
<1> DEFINE stroke == [seq |-> nextSeq, id |-> nextId]
           pushed == Append(buffer, stroke)
<1> USE DEF CInv, CTypeOK, TypeOK, storeVars, boundVars
<1>1. /\ nextSeq' = nextSeq + 1 /\ nextId' = nextId + 1
      /\ accepted' = accepted \union {stroke}
      /\ stroke.seq = nextSeq /\ stroke.id = nextId
  BY DEF Enqueue
<1>2. \A s \in Stored \union accepted : s.seq < nextSeq /\ s \in Stroke
  BY DEF StoredBelowNext, Stored
<1>3. stroke \in Stroke
  <2>1. nextSeq \in 1..MaxSeq /\ nextId \in 0..MaxStrokes
    BY DEF StoredBelowNext, MaxSeq
  <2> QED BY <2>1 DEF Stroke
<1> HIDE DEF stroke
<1>4. /\ pushed \in Seq(Stroke) /\ pushed # <<>>
      /\ Range(pushed) = Range(buffer) \union {stroke}
  BY <1>3, RangeAppend
<1>5. \/ Flush(pushed)
      \/ buffer' = pushed /\ timer' = TRUE /\ UNCHANGED <<retryTimer, healthVars, drains>>
  BY DEF Enqueue, stroke
<1> HIDE DEF pushed
<1>6. /\ buffer' \in Seq(Stroke) /\ drains' \subseteq Drain
      /\ timer' \in BOOLEAN /\ retryTimer' \in BOOLEAN
      /\ Range(buffer') \union InFlight' = Range(buffer) \union InFlight \union {stroke}
      /\ \A d \in drains' : d \in drains \/ d.query = "insert"
      /\ UNCHANGED healthVars \/ (flushAttempts' = 0 /\ persistenceDegraded' = FALSE)
  <2>1. CASE Flush(pushed)
    <3>1. DrainOnce(pushed) /\ timer' = FALSE /\ retryTimer' = FALSE
      BY <2>1 DEF Flush
    <3>2. /\ buffer' = <<>> /\ drains' \subseteq Drain
          /\ \A d \in drains' : d \in drains \/ d = [batch |-> pushed, query |-> "insert"]
          /\ InFlight' = InFlight \union Range(pushed)
          /\ UNCHANGED healthVars \/ (flushAttempts' = 0 /\ persistenceDegraded' = FALSE)
      BY <1>4, <3>1, DrainOnceMoves
    <3>3. Range(buffer') \union InFlight' = Range(buffer) \union InFlight \union {stroke}
      BY <1>4, <3>2, RangeEmpty
    <3>4. timer' \in BOOLEAN /\ retryTimer' \in BOOLEAN
      BY <3>1
    <3>5. \A d \in drains' : d \in drains \/ d.query = "insert"
      BY <3>2
    <3>6. buffer' \in Seq(Stroke)
      BY <3>2
    <3> QED BY <3>2, <3>3, <3>4, <3>5, <3>6, Zenon
  <2>2. CASE buffer' = pushed /\ timer' = TRUE /\ UNCHANGED <<retryTimer, healthVars, drains>>
    <3>1. InFlight' = InFlight
      BY <2>2 DEF InFlight
    <3>2. Range(buffer') \union InFlight' = Range(buffer) \union InFlight \union {stroke}
      BY <1>4, <2>2, <3>1
    <3>3. /\ buffer' \in Seq(Stroke) /\ drains' = drains /\ timer' = TRUE
          /\ retryTimer' = retryTimer /\ UNCHANGED healthVars
      BY <1>4, <2>2
    <3> QED BY <3>2, <3>3
  <2> QED BY <1>5, <2>1, <2>2
<1>7. TypeOK'
  <2>1. nextSeq' \in 0..MaxSeq + 1 /\ nextId' \in 1..MaxStrokes + 1
    BY <1>1, <1>3 DEF Stroke, MaxSeq
  <2>2. flushAttempts' \in 0..MaxFailures
    BY <1>6 DEF healthVars
  <2>3. persistenceDegraded' \in BOOLEAN
    BY <1>6, Zenon DEF healthVars
  <2> QED BY <1>1, <1>3, <1>6, <2>1, <2>2, <2>3
<1>8. EmptyUntilRestored'
  BY DEF EmptyUntilRestored
<1>9. StoredBelowNext'
  <2>1. \A s \in Stored \union accepted' : s.seq <= MaxBaseline + nextId' /\ s.seq < nextSeq'
    <3> TAKE s \in Stored \union accepted'
    <3>1. s.seq \in Nat /\ nextSeq \in Nat /\ nextId \in Nat
      BY <1>1, <1>2, <1>3 DEF Stroke, MaxSeq
    <3>2. CASE s = stroke
      BY <1>1, <3>1, <3>2 DEF StoredBelowNext
    <3>3. CASE s \in Stored \union accepted
      BY <1>1, <3>1, <3>3 DEF StoredBelowNext
    <3> QED BY <1>1, <3>2, <3>3
  <2>2. nextSeq' <= MaxBaseline + nextId' + 1 /\ snapshotSeq' < nextSeq'
    BY <1>1 DEF StoredBelowNext, MaxSeq
  <2> QED BY <2>1, <2>2 DEF StoredBelowNext, Stored
<1>10. HeldIsAccepted' /\ accepted' \subseteq rows' \union Range(buffer') \union InFlight' \union pruned'
  BY <1>1, <1>6 DEF HeldIsAccepted, OnlyBaselinePruned
<1>11. TouchedWasStored'
  BY <1>6 DEF TouchedWasStored, Stored
<1>12. AttemptsAreFailures'
  BY <1>6 DEF AttemptsAreFailures, healthVars
<1>13. NumbersOutlivePruning'
  <2>1. rows' \union accepted' \union pruned' = (Stored \union accepted) \union {stroke}
    BY <1>1 DEF Stored
  <2>2. \A s \in Stored \union accepted : s.seq # stroke.seq
    BY <1>1, <1>2, <1>3 DEF Stroke, MaxSeq
  <2> QED BY <2>1, <2>2 DEF NumbersOutlivePruning, Stored
<1>14. counting' \in 0..MaxStrokes /\ counting' < nextId'
  BY <1>1 DEF CountsAreDraws
<1>15. /\ CTypeOK' /\ TopSurvives' /\ CutsRecorded' /\ CountsAreDraws' /\ FlagHasCompaction'
       /\ \A s \in pruned' : s.seq <= highCut'
  BY <1>1, <1>7, <1>14, WritePathKeepsRest
<1> QED BY <1>8, <1>9, <1>10, <1>11, <1>12, <1>13, <1>15 DEF OnlyBaselinePruned

-----------------------------------------------------------------------------
(* The answers of the Persistence_Store *)

\* What the answer to an INSERT or a touch keeps, whatever becomes of the batch, as long
\* as its strokes are stored, buffered or in flight.
LEMMA CAnswerKeepsInv ==
  ASSUME CInv, NEW strokes, strokes \subseteq accepted, rows' = rows \union strokes,
         TypeOK', initPhase = "ready",
         Range(buffer') \union InFlight' \subseteq accepted,
         accepted \subseteq rows' \union Range(buffer') \union InFlight' \union pruned,
         \A d \in drains' : d.query = "touch" => Range(d.batch) \subseteq rows' \union pruned,
         flushAttempts' <= failures',
         UNCHANGED <<initVars, snapshotSeq, historyVars, compactVars>>
  PROVE  CInv'
<1> USE DEF CInv, CTypeOK, TypeOK, initVars, historyVars, compactVars
<1>1. EmptyUntilRestored' /\ HeldIsAccepted' /\ AttemptsAreFailures'
  BY DEF EmptyUntilRestored, HeldIsAccepted, AttemptsAreFailures
<1>2. StoredBelowNext'
  BY DEF StoredBelowNext, Stored
<1>3. TouchedWasStored'
  BY DEF TouchedWasStored, Stored
<1>4. NumbersOutlivePruning'
  BY DEF NumbersOutlivePruning
<1>5. counting < nextId
  BY DEF CountsAreDraws
<1>6. /\ CTypeOK' /\ TopSurvives' /\ CutsRecorded' /\ CountsAreDraws' /\ FlagHasCompaction'
      /\ \A s \in pruned' : s.seq <= highCut'
  BY <1>5, WritePathKeepsRest
<1> QED BY <1>1, <1>2, <1>3, <1>4, <1>6 DEF OnlyBaselinePruned

\* A drain in flight belongs to a restored board, and its strokes were accepted.
LEMMA CDrainAccepted ==
  ASSUME CInv, NEW d \in drains
  PROVE  /\ initPhase = "ready" /\ d \in Drain /\ Range(d.batch) \subseteq accepted
         /\ Range(d.batch) \subseteq InFlight
         /\ AfterInsert(Range(d.batch)) = rows \union Range(d.batch)
<1>1. initPhase = "ready" /\ d \in Drain
  BY DEF CInv, EmptyUntilRestored, CTypeOK, TypeOK
<1>2. Range(d.batch) \subseteq InFlight
  BY InFlightDef
<1>3. Range(d.batch) \subseteq accepted
  BY <1>2 DEF CInv, HeldIsAccepted
<1> QED BY <1>1, <1>2, <1>3, InsertStoresAll

\* The batch is stored, and stays in flight until the board is touched.
LEMMA CInsertDoneKeepsInv ==
  ASSUME CInv, NEW d \in drains, InsertDone(d), UNCHANGED compactVars
  PROVE  CInv'
<1> DEFINE touching == [d EXCEPT !.query = "touch"]
<1> USE DEF initVars, timerVars, healthVars, historyVars, boundVars
<1>1. /\ drains' = (drains \ {d}) \union {touching}
      /\ rows' = rows \union Range(d.batch) /\ Range(d.batch) \subseteq accepted
      /\ initPhase = "ready"
      /\ UNCHANGED <<initPhase, waiting, nextSeq, buffer, timer, retryTimer, flushAttempts,
                     persistenceDegraded, snapshotSeq, accepted, nextId, failures, crashes>>
  BY CDrainAccepted DEF InsertDone
<1>2. touching \in Drain /\ touching.batch = d.batch /\ touching.query = "touch"
  BY CDrainAccepted DEF Drain
<1> HIDE DEF touching
<1>3. InFlight' = InFlight
  <2>1. \A s : s \in InFlight' <=> s \in InFlight
    BY <1>1, <1>2, InFlightDef
  <2> QED BY <2>1
<1>4. TypeOK'
  <2>1. rows' \subseteq Stroke /\ drains' \subseteq Drain
    BY <1>1, <1>2 DEF CInv, CTypeOK, TypeOK
  <2> QED BY <1>1, <2>1 DEF CInv, CTypeOK, TypeOK
<1>5. /\ Range(buffer') \union InFlight' \subseteq accepted
      /\ accepted \subseteq rows' \union Range(buffer') \union InFlight' \union pruned
  BY <1>1, <1>3 DEF CInv, HeldIsAccepted, OnlyBaselinePruned
<1>6. \A e \in drains' : e.query = "touch" => Range(e.batch) \subseteq rows' \union pruned
  BY <1>1, <1>2 DEF CInv, TouchedWasStored, Stored
<1>7. flushAttempts' <= failures'
  BY <1>1 DEF CInv, AttemptsAreFailures
<1> QED BY <1>1, <1>4, <1>5, <1>6, <1>7, CAnswerKeepsInv

\* A stored batch leaves the service; by then a compaction may have pruned it.
LEMMA CTouchDoneKeepsInv ==
  ASSUME CInv, NEW d \in drains, TouchDone(d), UNCHANGED compactVars
  PROVE  CInv'
<1> USE DEF initVars, timerVars, storeVars, historyVars, boundVars
<1>1. /\ d.query = "touch" /\ drains' = drains \ {d} /\ initPhase = "ready"
      /\ flushAttempts' = 0 /\ persistenceDegraded' = FALSE
      /\ UNCHANGED <<initPhase, waiting, nextSeq, buffer, timer, retryTimer, rows, snapshotSeq,
                     accepted, nextId, failures, crashes>>
  BY CDrainAccepted DEF TouchDone, MarkPersisted
<1>2. /\ InFlight \subseteq InFlight' \union Range(d.batch)
      /\ InFlight' \subseteq InFlight
  BY <1>1, InFlightDef
<1>3. Range(d.batch) \subseteq rows \union pruned
  BY <1>1 DEF CInv, TouchedWasStored, Stored
<1>4. TypeOK'
  <2>1. drains' \subseteq Drain /\ flushAttempts' \in 0..MaxFailures
    BY <1>1 DEF CInv, CTypeOK, TypeOK
  <2>2. timer' = timer /\ retryTimer' = retryTimer /\ persistenceDegraded' = FALSE
    BY <1>1
  <2>3. timer' \in BOOLEAN /\ retryTimer' \in BOOLEAN
    BY <2>2, Zenon DEF CInv, CTypeOK, TypeOK
  <2>4. persistenceDegraded' \in BOOLEAN
    BY <2>2
  <2> QED BY <1>1, <2>1, <2>3, <2>4 DEF CInv, CTypeOK, TypeOK
<1>5. /\ Range(buffer') \union InFlight' \subseteq accepted
      /\ accepted \subseteq rows' \union Range(buffer') \union InFlight' \union pruned
  BY <1>1, <1>2, <1>3 DEF CInv, HeldIsAccepted, OnlyBaselinePruned
<1>6. \A e \in drains' : e.query = "touch" => Range(e.batch) \subseteq rows' \union pruned
  BY <1>1 DEF CInv, TouchedWasStored, Stored
<1>7. flushAttempts' <= failures'
  BY <1>1 DEF CInv, CTypeOK, TypeOK
<1>8. PICK strokes \in SUBSET accepted : rows' = rows \union strokes
  <2>1. rows' = rows \union {} /\ {} \in SUBSET accepted
    BY <1>1
  <2> QED BY <2>1
<1> QED BY <1>1, <1>4, <1>5, <1>6, <1>7, <1>8, CAnswerKeepsInv

\* A failed batch is buffered again, stored or not, pruned or not.
LEMMA CDrainFailsKeepsInv ==
  ASSUME CInv, NEW d \in drains, DrainFails(d), UNCHANGED compactVars
  PROVE  CInv'
<1> USE DEF initVars, historyVars
<1>1. /\ drains' = drains \ {d} /\ buffer' = d.batch \o buffer /\ initPhase = "ready"
      /\ failures < MaxFailures /\ failures' = failures + 1
      /\ flushAttempts' = flushAttempts + 1
      /\ UNCHANGED <<initPhase, waiting, nextSeq, timer, snapshotSeq, accepted, nextId, crashes>>
  BY CDrainAccepted DEF DrainFails, HandleFlushFailure, Rebuffered
<1>2. persistenceDegraded' \in BOOLEAN /\ retryTimer' \in BOOLEAN /\ timer' \in BOOLEAN
  BY Zenon DEF DrainFails, HandleFlushFailure, RetryScheduled, CInv, CTypeOK, TypeOK
<1>3. PICK strokes \in {{}, Range(d.batch)} : rows' = rows \union strokes
  BY CDrainAccepted DEF DrainFails
<1>4. buffer' \in Seq(Stroke) /\ Range(buffer') = Range(d.batch) \union Range(buffer)
  BY <1>1, CDrainAccepted, RangeConcat DEF CInv, CTypeOK, TypeOK, Drain
<1>5. /\ InFlight \subseteq InFlight' \union Range(d.batch)
      /\ InFlight' \subseteq InFlight
  BY <1>1, InFlightDef
<1>6. strokes \subseteq accepted /\ Range(d.batch) \subseteq accepted
  BY CDrainAccepted
<1>7. TypeOK'
  <2>1. /\ drains' \subseteq Drain /\ failures' \in 0..MaxFailures
        /\ flushAttempts' \in 0..MaxFailures
    BY <1>1 DEF CInv, CTypeOK, TypeOK, AttemptsAreFailures
  <2>2. rows' \subseteq Stroke
    BY <1>3, <1>6 DEF CInv, CTypeOK, TypeOK
  <2> QED BY <1>1, <1>2, <1>4, <2>1, <2>2 DEF CInv, CTypeOK, TypeOK
<1>8. /\ Range(buffer') \union InFlight' \subseteq accepted
      /\ accepted \subseteq rows' \union Range(buffer') \union InFlight' \union pruned
  BY <1>3, <1>4, <1>5, <1>6 DEF CInv, HeldIsAccepted, OnlyBaselinePruned
<1>9. \A e \in drains' : e.query = "touch" => Range(e.batch) \subseteq rows' \union pruned
  BY <1>1, <1>3 DEF CInv, TouchedWasStored, Stored
<1>10. flushAttempts' <= failures'
  BY <1>1 DEF CInv, CTypeOK, TypeOK, AttemptsAreFailures
<1> QED BY <1>1, <1>3, <1>6, <1>7, <1>8, <1>9, <1>10, CAnswerKeepsInv

-----------------------------------------------------------------------------
(* The restore, and the crash *)

\* The numbers restart above the highest row, hence above every cut, and so above all that
\* was ever pruned.
LEMMA CInitDoneKeepsInv ==
  ASSUME CInv, InitDone, UNCHANGED compactVars
  PROVE  CInv'
<1> USE DEF CInv, CTypeOK, TypeOK, timerVars, healthVars, storeVars, historyVars, boundVars
<1>1. /\ initPhase = "restoring" /\ initPhase' = "ready"
      /\ UNCHANGED <<waiting, buffer, timer, retryTimer, flushAttempts, persistenceDegraded,
                     drains, rows, snapshotSeq, accepted, nextId, failures, crashes>>
      /\ UNCHANGED <<compacting, counting, compactions, highCut, pruned>>
  BY DEF InitDone, compactVars
<1>2. accepted = {} /\ buffer = <<>> /\ drains = {}
  BY <1>1 DEF EmptyUntilRestored
<1>3. PICK highest \in Restorable :
        /\ \A seq \in Restorable : seq <= highest
        /\ nextSeq' = highest + 1
  BY DEF InitDone, FirstSeq
<1>4. highest \in 0..MaxSeq /\ highest <= MaxBaseline + nextId /\ snapshotSeq <= highest
  <2>1. snapshotSeq <= MaxBaseline + nextId
    BY DEF TopSurvives, RowAbove, StoredBelowNext, Stored, Stroke, MaxSeq
  <2>2. \A s \in rows : s.seq \in 0..MaxSeq /\ s.seq <= MaxBaseline + nextId
    BY DEF StoredBelowNext, Stored, Stroke, MaxSeq
  <2> QED BY <1>3, <2>1, <2>2 DEF Restorable, LoadSince
<1>5. \A s \in rows : s.seq <= highest
  <2> TAKE s \in rows
  <2>1. s.seq \in Nat
    BY DEF Stroke
  <2>2. CASE s.seq > snapshotSeq
    BY <1>3, <2>2 DEF Restorable, LoadSince
  <2>3. CASE s.seq <= snapshotSeq
    BY <1>4, <2>1, <2>3 DEF MaxSeq
  <2> QED BY <2>1, <2>2, <2>3 DEF MaxSeq
<1>6. \A s \in pruned : s.seq <= highest
  <2> TAKE s \in pruned
  <2>1. s.seq \in 1..MaxSeq /\ s.seq <= highCut
    BY DEF OnlyBaselinePruned, Stroke
  <2>2. PICK r \in rows : r.seq > highCut
    BY <2>1 DEF TopSurvives, RowAbove, MaxSeq
  <2> QED BY <1>4, <1>5, <2>1, <2>2 DEF Stroke, MaxSeq
<1>7. TypeOK'
  <2>1. nextSeq' \in 0..MaxSeq + 1
    BY <1>3, <1>4 DEF MaxSeq
  <2> QED BY <1>1, <2>1
<1>8. StoredBelowNext'
  <2>1. \A s \in rows \union pruned : s.seq < highest + 1
    BY <1>4, <1>5, <1>6 DEF Stroke, MaxSeq
  <2>2. snapshotSeq < highest + 1 /\ nextSeq' <= MaxBaseline + nextId + 1
    BY <1>3, <1>4 DEF MaxSeq
  <2> QED BY <1>1, <1>2, <1>3, <2>1, <2>2 DEF StoredBelowNext, Stored
<1>9. /\ EmptyUntilRestored' /\ HeldIsAccepted' /\ AttemptsAreFailures' /\ TouchedWasStored'
      /\ NumbersOutlivePruning'
      /\ accepted' \subseteq rows' \union Range(buffer') \union InFlight' \union pruned'
  BY <1>1, <1>2 DEF EmptyUntilRestored, HeldIsAccepted, AttemptsAreFailures, TouchedWasStored,
                    Stored, NumbersOutlivePruning, InFlight
<1>10. counting < nextId
  BY DEF CountsAreDraws
<1>11. /\ CTypeOK' /\ TopSurvives' /\ CutsRecorded' /\ CountsAreDraws' /\ FlagHasCompaction'
       /\ \A s \in pruned' : s.seq <= highCut'
  BY <1>1, <1>7, <1>10, WritePathKeepsRest
<1> QED BY <1>8, <1>9, <1>11 DEF OnlyBaselinePruned

\* Draws that await the restore, and a failed restore, number nothing.
LEMMA CAwaitingKeepsInv ==
  ASSUME CInv, AwaitInit \/ InitFails, UNCHANGED compactVars
  PROVE  CInv'
<1> USE DEF CInv, CTypeOK, TypeOK, timerVars, healthVars, storeVars, historyVars, boundVars
<1>1. /\ initPhase # "ready" /\ initPhase' \in {"none", "restoring"}
      /\ waiting' \in 0..MaxStrokes /\ nextId + waiting' <= MaxStrokes + 1
      /\ failures' \in 0..MaxFailures /\ failures <= failures'
      /\ UNCHANGED <<nextSeq, buffer, timer, retryTimer, flushAttempts, persistenceDegraded,
                     drains, rows, snapshotSeq, accepted, nextId, crashes>>
      /\ UNCHANGED <<compacting, counting, compactions, highCut, pruned>>
  BY DEF AwaitInit, InitFails, compactVars
<1>2. TypeOK'
  BY <1>1
<1>3. initPhase' # "ready"
  BY <1>1
<1>4. EmptyUntilRestored' /\ StoredBelowNext' /\ AttemptsAreFailures'
  <2>1. EmptyUntilRestored'
    BY <1>1 DEF EmptyUntilRestored
  <2>2. StoredBelowNext'
    BY <1>1, <1>3 DEF StoredBelowNext, Stored
  <2>3. AttemptsAreFailures'
    BY <1>1 DEF AttemptsAreFailures
  <2> QED BY <2>1, <2>2, <2>3
<1>5. /\ HeldIsAccepted' /\ TouchedWasStored' /\ NumbersOutlivePruning'
      /\ accepted' \subseteq rows' \union Range(buffer') \union InFlight' \union pruned'
  BY <1>1 DEF HeldIsAccepted, TouchedWasStored, Stored, NumbersOutlivePruning, InFlight,
              OnlyBaselinePruned
<1>6. counting < nextId
  BY DEF CountsAreDraws
<1>7. /\ CTypeOK' /\ TopSurvives' /\ CutsRecorded' /\ CountsAreDraws' /\ FlagHasCompaction'
      /\ \A s \in pruned' : s.seq <= highCut'
  BY <1>1, <1>2, <1>6, WritePathKeepsRest
<1> QED BY <1>4, <1>5, <1>7 DEF OnlyBaselinePruned

\* A crash forgets the compactions; the rows, the baseline and what was pruned stay.
LEMMA CCrashKeepsInv ==
  ASSUME CInv, CCrash
  PROVE  CInv'
<1> USE DEF CInv, CTypeOK, TypeOK
<1>1. PICK committed \in SUBSET {d \in drains : d.query = "insert"} :
        rows' = AfterInsert(UNION {Range(d.batch) : d \in committed})
  BY DEF CCrash, Crash
<1>2. /\ initPhase' = "none" /\ waiting' = 0 /\ nextSeq' = 0 /\ buffer' = <<>>
      /\ timer' = FALSE /\ retryTimer' = FALSE
      /\ flushAttempts' = 0 /\ persistenceDegraded' = FALSE
      /\ drains' = {} /\ accepted' = {} /\ crashes' \in 0..MaxCrashes
      /\ compacting' = FALSE /\ counting' = 0
      /\ compactions' = [c \in Compactors |-> NoCompaction]
      /\ UNCHANGED <<snapshotSeq, nextId, failures, highCut, pruned>>
  BY DEF CCrash, Crash
<1>3. rows \subseteq rows' /\ rows' \subseteq rows \union accepted
  <2>1. UNION {Range(d.batch) : d \in committed} \subseteq accepted
    BY DEF HeldIsAccepted, InFlight
  <2> QED BY <1>1, <2>1, InsertStoresAll
<1>4. InFlight' = {}
  BY <1>2 DEF InFlight
<1>5. CTypeOK'
  <2>1. buffer' \in Seq(Stroke) /\ drains' \subseteq Drain
    BY <1>2
  <2>2. /\ timer' \in BOOLEAN /\ retryTimer' \in BOOLEAN /\ persistenceDegraded' \in BOOLEAN
        /\ compacting' \in BOOLEAN
    BY <1>2
  <2>3. /\ nextSeq' \in 0..MaxSeq + 1 /\ waiting' \in 0..MaxStrokes
        /\ flushAttempts' \in 0..MaxFailures /\ counting' \in 0..MaxStrokes
    BY <1>2 DEF MaxSeq
  <2>4. rows' \subseteq Stroke /\ accepted' \subseteq Stroke
    BY <1>2, <1>3
  <2>5. compactions' \in [Compactors -> [awaits : {"nothing", "flag", "baseline", "tail", "set", "delete"},
                                          base : 0..MaxSeq, cut : 0..MaxSeq]]
    BY <1>2 DEF NoCompaction, MaxSeq
  <2>6. TypeOK'
    BY <1>2, <2>1, <2>2, <2>3, <2>4
  <2> QED BY <1>2, <2>2, <2>3, <2>5, <2>6
<1>6. EmptyUntilRestored' /\ StoredBelowNext' /\ AttemptsAreFailures' /\ CountsAreDraws'
  BY <1>2, <1>3 DEF EmptyUntilRestored, StoredBelowNext, Stored, AttemptsAreFailures, CountsAreDraws
<1>7. HeldIsAccepted' /\ TouchedWasStored' /\ OnlyBaselinePruned'
  BY <1>2, <1>4, RangeEmpty DEF HeldIsAccepted, TouchedWasStored, OnlyBaselinePruned
<1>8. \A c \in Compactors : compactions'[c].base = 0 /\ compactions'[c].cut = 0
                             /\ compactions'[c].awaits = "nothing"
  BY <1>2 DEF NoCompaction
<1>9. TopSurvives'
  BY <1>2, <1>3, <1>8 DEF TopSurvives, RowAbove
<1>10. CutsRecorded'
  BY <1>2, <1>8 DEF CutsRecorded
<1>11. NumbersOutlivePruning' /\ FlagHasCompaction'
  BY <1>2, <1>3 DEF NumbersOutlivePruning, FlagHasCompaction
<1> QED BY <1>5, <1>6, <1>7, <1>9, <1>10, <1>11

-----------------------------------------------------------------------------
(* The compactions *)

\* What a step of compaction c does to the others, and to the flag's promise.
LEMMA OneCompactionMoves ==
  ASSUME CInv, NEW c \in Compactors, NEW new \in [awaits : {"nothing", "flag", "baseline", "tail",
                                                           "set", "delete"},
                                                 base : 0..MaxSeq, cut : 0..MaxSeq],
         compactions' = [compactions EXCEPT ![c] = new],
         UNCHANGED <<rows, snapshotSeq, highCut>>,
         RowAbove(new.base), RowAbove(new.cut), new.base <= highCut,
         new.awaits = "delete" => new.cut <= highCut,
         \/ new.awaits \notin {"nothing", "flag"}
         \/ c \notin Running /\ compacting' = compacting
         \/ compacting' = FALSE
  PROVE  /\ compactions' \in [Compactors -> [awaits : {"nothing", "flag", "baseline", "tail", "set", "delete"},
                                             base : 0..MaxSeq, cut : 0..MaxSeq]]
         /\ TopSurvives' /\ CutsRecorded' /\ FlagHasCompaction'
<1>1. compactions \in [Compactors -> [awaits : {"nothing", "flag", "baseline", "tail", "set", "delete"},
                                      base : 0..MaxSeq, cut : 0..MaxSeq]]
  BY DEF CInv, CTypeOK
<1>2. compactions'[c] = new /\ \A e \in Compactors \ {c} : compactions'[e] = compactions[e]
  BY <1>1
<1>3. TopSurvives' /\ CutsRecorded'
  BY <1>2 DEF CInv, TopSurvives, RowAbove, CutsRecorded
<1>4. FlagHasCompaction'
  BY <1>2 DEF CInv, FlagHasCompaction, Running
<1> QED BY <1>1, <1>3, <1>4

\* The cut has a row above it, for the tail it leaves is not empty.
LEMMA CutHasTail ==
  ASSUME CInv, NEW base \in 0..MaxSeq, RowAbove(base), NEW cut \in {base} \union {s.seq : s \in rows},
         IsCut(cut, base)
  PROVE  cut \in 0..MaxSeq /\ RowAbove(cut)
<1>1. cut \in 0..MaxSeq
  BY DEF CInv, CTypeOK, TypeOK, Stroke
<1>2. CASE cut = base
  BY <1>1, <1>2
<1>3. CASE Cardinality({s \in LoadSince(base) : s.seq > cut}) = KeepTail
  <2>1. KeepTail # 0
    BY DEF KeepTail
  <2>2. {s \in LoadSince(base) : s.seq > cut} # {}
    BY <1>3, <2>1, FS_EmptySet
  <2> QED BY <1>1, <2>2 DEF LoadSince, RowAbove
<1> QED BY <1>2, <1>3 DEF IsCut

\* The steps that ask for a count, set the flag, and read the baseline and the tail.
LEMMA CompactionReadsKeepInv ==
  ASSUME CInv, NEW c \in Compactors,
         CountAboveCap(c) \/ SetFlag(c) \/ ReadBaseline(c) \/ LoadTail(c)
  PROVE  CInv'
<1> DEFINE old == compactions[c]
           Slot == [awaits : {"nothing", "flag", "baseline", "tail", "set", "delete"},
                    base : 0..MaxSeq, cut : 0..MaxSeq]
<1>1. /\ old \in Slot /\ RowAbove(old.base) /\ RowAbove(old.cut) /\ old.base <= highCut
      /\ RowAbove(snapshotSeq) /\ snapshotSeq \in 0..MaxSeq /\ snapshotSeq <= highCut
      /\ highCut \in 0..MaxSeq /\ compactions \in [Compactors -> Slot]
  BY DEF CInv, CTypeOK, TypeOK, TopSurvives, CutsRecorded
<1>2. /\ UNCHANGED vars /\ UNCHANGED <<highCut, pruned>>
      /\ counting' \in 0..MaxStrokes /\ counting' < nextId
  <2>1. UNCHANGED vars /\ UNCHANGED <<highCut, pruned>>
    BY Zenon DEF CountAboveCap, SetFlag, ReadBaseline, LoadTail
  <2>2. counting' = counting \/ (counting > 0 /\ counting' = counting - 1)
    BY Zenon DEF CountAboveCap, SetFlag, ReadBaseline, LoadTail
  <2> QED BY <2>1, <2>2 DEF CInv, CTypeOK, TypeOK, CountsAreDraws
<1>3. compacting' \in BOOLEAN
  BY Zenon DEF CountAboveCap, SetFlag, ReadBaseline, LoadTail, CInv, CTypeOK
<1>4. \E new \in Slot :
        /\ compactions' = [compactions EXCEPT ![c] = new]
        /\ RowAbove(new.base) /\ RowAbove(new.cut) /\ new.base <= highCut
        /\ new.awaits = "delete" => new.cut <= highCut
        /\ \/ new.awaits \notin {"nothing", "flag"}
           \/ c \notin Running /\ compacting' = compacting
  <2>1. CASE CountAboveCap(c)
    <3>1. /\ compactions' = [compactions EXCEPT ![c] = [old EXCEPT !.awaits = "flag"]]
          /\ c \notin Running /\ compacting' = compacting
      BY <1>1, <2>1 DEF CountAboveCap, Running
    <3>2. /\ [old EXCEPT !.awaits = "flag"] \in Slot
          /\ [old EXCEPT !.awaits = "flag"].base = old.base
          /\ [old EXCEPT !.awaits = "flag"].cut = old.cut
          /\ [old EXCEPT !.awaits = "flag"].awaits = "flag"
      BY <1>1
    <3> QED BY <1>1, <3>1, <3>2
  <2>2. CASE SetFlag(c)
    <3>1. compactions' = [compactions EXCEPT ![c] = [old EXCEPT !.awaits = "baseline"]]
      BY <1>1, <2>2 DEF SetFlag
    <3>2. /\ [old EXCEPT !.awaits = "baseline"] \in Slot
          /\ [old EXCEPT !.awaits = "baseline"].base = old.base
          /\ [old EXCEPT !.awaits = "baseline"].cut = old.cut
          /\ [old EXCEPT !.awaits = "baseline"].awaits = "baseline"
      BY <1>1
    <3> QED BY <1>1, <3>1, <3>2
  <2>3. CASE ReadBaseline(c)
    <3> DEFINE new == [old EXCEPT !.awaits = "tail", !.base = snapshotSeq]
    <3>1. compactions' = [compactions EXCEPT ![c] = new]
      BY <1>1, <2>3 DEF ReadBaseline
    <3>2. new \in Slot /\ new.base = snapshotSeq /\ new.cut = old.cut /\ new.awaits = "tail"
      BY <1>1
    <3> HIDE DEF new
    <3> QED BY <1>1, <3>1, <3>2
  <2>4. CASE LoadTail(c)
    <3>1. PICK cut \in {old.base} \union {s.seq : s \in rows} :
            /\ IsCut(cut, old.base)
            /\ compactions' = [compactions EXCEPT ![c].awaits = IF cut > old.base THEN "set" ELSE "delete",
                                                  ![c].cut = cut]
      BY <2>4 DEF LoadTail
    <3>2. cut \in 0..MaxSeq /\ RowAbove(cut)
      BY <1>1, <3>1, CutHasTail
    <3> DEFINE next == IF cut > old.base THEN "set" ELSE "delete"
               new  == [old EXCEPT !.awaits = next, !.cut = cut]
    <3>3. compactions' = [compactions EXCEPT ![c] = new]
      BY <1>1, <3>1
    <3>4. next \in {"set", "delete"} /\ (next = "delete" => cut <= old.base)
      BY <1>1, <3>2 DEF MaxSeq
    <3> HIDE DEF next
    <3>6. /\ new \in Slot /\ new.base = old.base /\ new.cut = cut /\ new.awaits = next
      BY <1>1, <3>2, <3>4
    <3>5. new.awaits = "delete" => new.cut <= highCut
      BY <1>1, <3>2, <3>4, <3>6 DEF MaxSeq
    <3> HIDE DEF new
    <3> QED BY <1>1, <3>2, <3>3, <3>4, <3>5, <3>6
  <2> QED BY <2>1, <2>2, <2>3, <2>4
<1>5. UNCHANGED <<rows, snapshotSeq, highCut>>
  BY <1>2 DEF vars, storeVars
<1>6. compactions' \in [Compactors -> Slot] /\ TopSurvives' /\ CutsRecorded' /\ FlagHasCompaction'
  BY <1>4, <1>5, OneCompactionMoves
<1>7. failures' \in 0..MaxFailures /\ failures <= failures'
  BY <1>2 DEF vars, boundVars, CInv, CTypeOK, TypeOK
<1> QED BY <1>1, <1>2, <1>3, <1>6, <1>7, CompactionKeepsRest DEF vars, boundVars, storeVars, MaxSeq

\* A count that stays within the cap, or fails.
LEMMA CountEndsKeepInv ==
  ASSUME CInv, CountWithinCap \/ CountFails
  PROVE  CInv'
<1>1. /\ UNCHANGED <<initVars, buffer, timerVars, healthVars, drains, rows, snapshotSeq,
                     historyVars, crashes, compacting, compactions, highCut, pruned>>
      /\ counting' \in 0..MaxStrokes /\ counting' < nextId
      /\ failures' \in 0..MaxFailures /\ failures <= failures'
  BY DEF CountWithinCap, CountFails, vars, boundVars, storeVars, CInv, CTypeOK, TypeOK, CountsAreDraws
<1>2. TopSurvives' /\ CutsRecorded' /\ FlagHasCompaction'
  BY <1>1 DEF CInv, TopSurvives, RowAbove, CutsRecorded, FlagHasCompaction, Running
<1>3. /\ snapshotSeq' \in 0..MaxSeq /\ highCut' \in 0..MaxSeq /\ highCut <= highCut'
      /\ compactions' \in [Compactors -> [awaits : {"nothing", "flag", "baseline", "tail", "set", "delete"},
                                          base : 0..MaxSeq, cut : 0..MaxSeq]]
  BY <1>1 DEF CInv, CTypeOK, TypeOK, MaxSeq
<1>4. compacting' \in BOOLEAN
  BY <1>1, Zenon DEF CInv, CTypeOK
<1> QED BY <1>1, <1>2, <1>3, <1>4, CompactionKeepsRest

\* A baseline is recorded: the cut of a compaction, above which a row is left.
LEMMA StoreBaselineKeeps ==
  ASSUME CInv, NEW c \in Compactors, StoreBaseline(compactions[c].cut)
  PROVE  /\ snapshotSeq' \in 0..MaxSeq /\ highCut' \in 0..MaxSeq /\ highCut <= highCut'
         /\ snapshotSeq' <= highCut' /\ compactions[c].cut <= highCut'
         /\ rows' = rows => RowAbove(snapshotSeq)' /\ RowAbove(highCut)'
<1>1. compactions[c].cut \in 0..MaxSeq /\ highCut \in 0..MaxSeq
  BY DEF CInv, CTypeOK
<1>2. RowAbove(compactions[c].cut) /\ RowAbove(highCut)
  BY DEF CInv, TopSurvives
<1>3. snapshotSeq' = compactions[c].cut /\ highCut' \in {highCut, compactions[c].cut}
  BY DEF StoreBaseline
<1>4. rows' = rows => RowAbove(snapshotSeq)' /\ RowAbove(highCut)'
  BY <1>2, <1>3 DEF RowAbove
<1>5. /\ snapshotSeq' \in 0..MaxSeq /\ highCut' \in 0..MaxSeq /\ highCut <= highCut'
      /\ snapshotSeq' <= highCut' /\ compactions[c].cut <= highCut'
  BY <1>1 DEF StoreBaseline, MaxSeq
<1> QED BY <1>4, <1>5

\* setSnapshot is done.
LEMMA SetSnapshotKeepsInv ==
  ASSUME CInv, NEW c \in Compactors, SetSnapshot(c)
  PROVE  CInv'
<1> DEFINE Slot == [awaits : {"nothing", "flag", "baseline", "tail", "set", "delete"},
                    base : 0..MaxSeq, cut : 0..MaxSeq]
<1>1. /\ StoreBaseline(compactions[c].cut) /\ compactions[c].awaits = "set"
      /\ compactions' = [compactions EXCEPT ![c].awaits = "delete"]
      /\ UNCHANGED <<initVars, buffer, timerVars, healthVars, drains, rows, historyVars,
                     boundVars, compacting, counting, pruned>>
  BY DEF SetSnapshot
<1>2. /\ snapshotSeq' \in 0..MaxSeq /\ highCut' \in 0..MaxSeq /\ highCut <= highCut'
      /\ snapshotSeq' <= highCut' /\ compactions[c].cut <= highCut'
      /\ RowAbove(snapshotSeq)' /\ RowAbove(highCut)'
  BY <1>1, StoreBaselineKeeps
<1>3. compactions \in [Compactors -> Slot] /\ highCut \in 0..MaxSeq
  BY DEF CInv, CTypeOK
<1>4. /\ compactions' \in [Compactors -> Slot]
      /\ \A e \in Compactors : /\ compactions'[e].base = compactions[e].base
                                /\ compactions'[e].cut = compactions[e].cut
      /\ \A e \in Compactors \ {c} : compactions'[e].awaits = compactions[e].awaits
      /\ compactions'[c].awaits = "delete"
  BY <1>1, <1>3
<1>5. TopSurvives'
  BY <1>1, <1>2, <1>4 DEF CInv, TopSurvives, RowAbove
<1>6. CutsRecorded'
  <2>1. ASSUME NEW e \in Compactors
        PROVE  /\ compactions'[e].base <= highCut'
               /\ compactions'[e].awaits = "delete" => compactions'[e].cut <= highCut'
    <3>1. compactions[e] \in Slot
      BY <1>3
    <3>2. /\ compactions[e].base <= highCut
          /\ compactions[e].awaits = "delete" => compactions[e].cut <= highCut
      BY DEF CInv, CutsRecorded
    <3> QED BY <1>2, <1>3, <1>4, <3>1, <3>2 DEF MaxSeq
  <2> QED BY <1>2, <2>1 DEF CutsRecorded
<1>7. FlagHasCompaction'
  BY <1>1, <1>4 DEF CInv, FlagHasCompaction, Running
<1>8. /\ failures' \in 0..MaxFailures /\ failures <= failures'
      /\ counting' \in 0..MaxStrokes /\ counting' < nextId
  BY <1>1 DEF boundVars, CInv, CTypeOK, TypeOK, CountsAreDraws
<1>9. compacting' \in BOOLEAN
  BY <1>1, Zenon DEF CInv, CTypeOK
<1> QED BY <1>1, <1>2, <1>4, <1>5, <1>6, <1>7, <1>8, <1>9, CompactionKeepsRest DEF boundVars

\* A compaction is given up, its baseline recorded or not.
LEMMA CompactionFailsKeepsInv ==
  ASSUME CInv, NEW c \in Compactors, CompactionFails(c)
  PROVE  CInv'
<1> DEFINE Slot == [awaits : {"nothing", "flag", "baseline", "tail", "set", "delete"},
                    base : 0..MaxSeq, cut : 0..MaxSeq]
<1>1. /\ UNCHANGED <<snapshotSeq, highCut>> \/ StoreBaseline(compactions[c].cut)
      /\ compactions' = [compactions EXCEPT ![c] = NoCompaction]
      /\ compacting' = FALSE /\ failures < MaxFailures /\ failures' = failures + 1
      /\ UNCHANGED <<initVars, buffer, timerVars, healthVars, drains, rows, historyVars,
                     crashes, counting, pruned>>
  BY DEF CompactionFails, Finished, FlagAfterFailure
<1>2. compactions \in [Compactors -> Slot] /\ highCut \in 0..MaxSeq /\ snapshotSeq \in 0..MaxSeq
  BY DEF CInv, CTypeOK, TypeOK
<1>3. /\ snapshotSeq' \in 0..MaxSeq /\ highCut' \in 0..MaxSeq /\ highCut <= highCut'
      /\ snapshotSeq' <= highCut' /\ RowAbove(snapshotSeq)' /\ RowAbove(highCut)'
  <2>1. CASE UNCHANGED <<snapshotSeq, highCut>>
    BY <1>1, <1>2, <2>1 DEF CInv, TopSurvives, CutsRecorded, RowAbove, MaxSeq
  <2>2. CASE StoreBaseline(compactions[c].cut)
    BY <1>1, <2>2, StoreBaselineKeeps
  <2> QED BY <1>1, <2>1, <2>2
<1>4. /\ compactions' \in [Compactors -> Slot]
      /\ \A e \in Compactors \ {c} : compactions'[e] = compactions[e]
      /\ compactions'[c].awaits = "nothing" /\ compactions'[c].base = 0 /\ compactions'[c].cut = 0
  BY <1>1, <1>2 DEF NoCompaction, MaxSeq
<1>5. TopSurvives'
  BY <1>1, <1>3, <1>4 DEF CInv, TopSurvives, RowAbove
<1>6. CutsRecorded'
  <2>1. ASSUME NEW e \in Compactors
        PROVE  /\ compactions'[e].base <= highCut'
               /\ compactions'[e].awaits = "delete" => compactions'[e].cut <= highCut'
    <3>1. compactions[e] \in Slot
      BY <1>2
    <3>2. /\ compactions[e].base <= highCut
          /\ compactions[e].awaits = "delete" => compactions[e].cut <= highCut
      BY DEF CInv, CutsRecorded
    <3> QED BY <1>2, <1>3, <1>4, <3>1, <3>2 DEF MaxSeq
  <2> QED BY <1>3, <2>1 DEF CutsRecorded
<1>7. FlagHasCompaction'
  BY <1>1 DEF FlagHasCompaction
<1>8. /\ failures' \in 0..MaxFailures /\ failures <= failures'
      /\ counting' \in 0..MaxStrokes /\ counting' < nextId
  BY <1>1 DEF CInv, CTypeOK, TypeOK, CountsAreDraws
<1>9. compacting' \in BOOLEAN
  BY <1>1
<1> QED BY <1>1, <1>3, <1>4, <1>5, <1>6, <1>7, <1>8, <1>9, CompactionKeepsRest

\* Deleting up to a cut takes no row from above a baseline or a cut: where one of those
\* that are left above it is deleted, the row above the deleted cut is higher still.
LEMMA DeleteBatchKeepsInv ==
  ASSUME CInv, NEW c \in Compactors, DeleteBatch(c)
  PROVE  CInv'
<1> DEFINE cut == compactions[c].cut
           Slot == [awaits : {"nothing", "flag", "baseline", "tail", "set", "delete"},
                    base : 0..MaxSeq, cut : 0..MaxSeq]
<1>1. PICK batch \in SUBSET Prunable(cut) :
        /\ rows' = rows \ batch
        /\ pruned' = pruned \union batch
        /\ \/ UNCHANGED <<compacting, compactions>>
           \/ compacting' = FALSE /\ Finished(c)
  BY DEF DeleteBatch
<1>2. /\ compactions[c].awaits = "delete"
      /\ UNCHANGED <<initVars, buffer, timerVars, healthVars, drains, snapshotSeq, historyVars,
                     boundVars, counting, highCut>>
  BY DEF DeleteBatch
<1>3. /\ compactions \in [Compactors -> Slot] /\ cut \in 0..MaxSeq /\ cut <= highCut
      /\ RowAbove(cut) /\ rows \subseteq Stroke /\ highCut \in 0..MaxSeq
  BY <1>2 DEF CInv, CTypeOK, TypeOK, CutsRecorded, TopSurvives
<1>4. batch \subseteq rows /\ \A s \in batch : s.seq \in 1..MaxSeq /\ s.seq <= cut
  BY <1>3 DEF Prunable, Stroke
<1>5. Stored' = Stored
  BY <1>1, <1>4 DEF Stored
<1>6. ASSUME NEW x \in 0..MaxSeq, RowAbove(x)
      PROVE  x = 0 \/ \E r \in rows' : r.seq > x
  <2> SUFFICES ASSUME x # 0 PROVE \E r \in rows' : r.seq > x
    OBVIOUS
  <2>1. PICK r \in rows : r.seq > x
    BY <1>6 DEF RowAbove
  <2>2. CASE r \notin batch
    BY <1>1, <2>1, <2>2
  <2>3. CASE r \in batch
    <3>1. cut # 0
      BY <1>3, <1>4, <2>3
    <3>2. PICK top \in rows : top.seq > cut
      BY <1>3, <3>1 DEF RowAbove
    <3>3. top \notin batch /\ top.seq > x
      BY <1>3, <1>4, <2>1, <2>3, <3>2 DEF Stroke, MaxSeq
    <3> QED BY <1>1, <3>2, <3>3
  <2> QED BY <2>2, <2>3
<1>7. /\ compactions' \in [Compactors -> Slot]
      /\ \A e \in Compactors : compactions'[e] = compactions[e] \/ compactions'[e] = NoCompaction
      /\ \/ compacting' = compacting /\ compactions' = compactions
         \/ compacting' = FALSE
  <2>1. NoCompaction \in Slot
    BY DEF NoCompaction, MaxSeq
  <2>2. CASE UNCHANGED <<compacting, compactions>>
    BY <1>3, <2>2
  <2>3. CASE compacting' = FALSE /\ Finished(c)
    BY <1>3, <2>1, <2>3 DEF Finished
  <2> QED BY <1>1, <2>2, <2>3
<1>8. CTypeOK'
  <2>1. timer' \in BOOLEAN /\ retryTimer' \in BOOLEAN /\ persistenceDegraded' \in BOOLEAN
    BY <1>2, Zenon DEF CInv, CTypeOK, TypeOK, timerVars, healthVars
  <2>2. compacting' \in BOOLEAN
    BY <1>7, Zenon DEF CInv, CTypeOK
  <2>3. TypeOK'
    BY <1>1, <1>2, <2>1 DEF CInv, CTypeOK, TypeOK, initVars, healthVars, historyVars, boundVars
  <2>4. pruned' \subseteq Stroke /\ counting' \in 0..MaxStrokes /\ highCut' \in 0..MaxSeq
    BY <1>1, <1>2, <1>3, <1>4 DEF CInv, CTypeOK
  <2> QED BY <1>7, <2>2, <2>3, <2>4 DEF CTypeOK
<1>9. /\ EmptyUntilRestored' /\ StoredBelowNext' /\ HeldIsAccepted' /\ TouchedWasStored'
      /\ AttemptsAreFailures' /\ CountsAreDraws'
  BY <1>2, <1>5 DEF CInv, EmptyUntilRestored, StoredBelowNext, HeldIsAccepted, TouchedWasStored,
                    AttemptsAreFailures, CountsAreDraws, InFlight, initVars, timerVars, healthVars,
                    historyVars, boundVars
<1>10. TopSurvives'
  <2>1. /\ snapshotSeq \in 0..MaxSeq /\ RowAbove(snapshotSeq) /\ RowAbove(highCut)
    BY DEF CInv, CTypeOK, TypeOK, TopSurvives
  <2>2. RowAbove(snapshotSeq)' /\ RowAbove(highCut)'
    BY <1>2, <1>3, <1>6, <2>1 DEF RowAbove
  <2>3. ASSUME NEW e \in Compactors
        PROVE  RowAbove(compactions[e].base)' /\ RowAbove(compactions[e].cut)'
    <3>1. CASE compactions'[e] = NoCompaction
      BY <3>1 DEF NoCompaction, RowAbove
    <3>2. CASE compactions'[e] = compactions[e]
      <4>1. /\ RowAbove(compactions[e].base) /\ RowAbove(compactions[e].cut)
            /\ compactions[e].base \in 0..MaxSeq /\ compactions[e].cut \in 0..MaxSeq
        BY <1>3 DEF CInv, TopSurvives
      <4>2. /\ compactions[e].base = 0 \/ \E r \in rows' : r.seq > compactions[e].base
            /\ compactions[e].cut = 0 \/ \E r \in rows' : r.seq > compactions[e].cut
        BY <1>6, <4>1
      <4> QED BY <3>2, <4>2 DEF RowAbove
    <3> QED BY <1>7, <3>1, <3>2
  <2> QED BY <2>2, <2>3 DEF TopSurvives
<1>11. CutsRecorded'
  <2>1. \A e \in Compactors : compactions'[e].base <= highCut'
                              /\ (compactions'[e].awaits = "delete" => compactions'[e].cut <= highCut')
    BY <1>2, <1>3, <1>7 DEF CInv, CutsRecorded, NoCompaction, MaxSeq
  <2> QED BY <1>2, <2>1 DEF CInv, CutsRecorded
<1>12. OnlyBaselinePruned'
  <2>1. accepted \subseteq rows' \union Range(buffer) \union InFlight \union pruned'
    BY <1>1 DEF CInv, OnlyBaselinePruned
  <2>2. \A s \in pruned' : s.seq <= highCut
    <3>1. \A s \in batch : s.seq <= highCut
      BY <1>3, <1>4 DEF MaxSeq
    <3> QED BY <1>1, <3>1 DEF CInv, OnlyBaselinePruned
  <2> QED BY <1>2, <2>1, <2>2 DEF OnlyBaselinePruned, InFlight, historyVars
<1>13. NumbersOutlivePruning'
  <2>1. rows' \union accepted' \union pruned' = rows \union accepted \union pruned
    BY <1>1, <1>2, <1>4 DEF historyVars
  <2> QED BY <2>1 DEF CInv, NumbersOutlivePruning
<1>14. FlagHasCompaction'
  BY <1>7 DEF CInv, FlagHasCompaction, Running
<1> QED BY <1>8, <1>9, <1>10, <1>11, <1>12, <1>13, <1>14 DEF CInv

-----------------------------------------------------------------------------
(* The inductive invariant, and the safety properties *)

\* A board that was compacted before has a row above its baseline.
LEMMA CInitInv == CInit => CInv
<1> SUFFICES ASSUME CInit PROVE CInv
  OBVIOUS
<1>1. Inv
  BY InitInv DEF CInit
<1>2. /\ compacting = FALSE /\ counting = 0 /\ highCut = snapshotSeq /\ pruned = {}
      /\ compactions = [c \in Compactors |-> NoCompaction]
      /\ accepted = {} /\ drains = {} /\ flushAttempts = 0 /\ nextId = 1
  BY DEF CInit, Init
<1>3. snapshotSeq \in 0..MaxSeq /\ (snapshotSeq = 0 \/ \E r \in rows : r.seq > snapshotSeq)
  <2>1. snapshotSeq \in 0..MaxSeq
    BY <1>1 DEF Inv, TypeOK
  <2>2. snapshotSeq # 0 => [seq |-> snapshotSeq + 1, id |-> 0] \in rows
    BY DEF CInit, Init
  <2> QED BY <2>1, <2>2 DEF MaxSeq
<1>4. NoCompaction \in [awaits : {"nothing", "flag", "baseline", "tail", "set", "delete"},
                        base : 0..MaxSeq, cut : 0..MaxSeq]
  BY DEF NoCompaction, MaxSeq
<1>5. CTypeOK
  <2>1. compacting \in BOOLEAN
    BY <1>2, Zenon
  <2>2. counting \in 0..MaxStrokes
    BY <1>2
  <2>3. TypeOK
    BY <1>1 DEF Inv
  <2>4. highCut \in 0..MaxSeq /\ pruned \subseteq Stroke
    BY <1>2, <1>3
  <2>5. compactions \in [Compactors -> [awaits : {"nothing", "flag", "baseline", "tail", "set", "delete"},
                                         base : 0..MaxSeq, cut : 0..MaxSeq]]
    BY <1>2, <1>4
  <2> QED BY <2>1, <2>2, <2>3, <2>4, <2>5 DEF CTypeOK
<1>6. EmptyUntilRestored /\ HeldIsAccepted /\ AttemptsAreFailures /\ TouchedWasStored
  BY <1>1, <1>2 DEF Inv, TouchedWasStored
<1>7. StoredBelowNext /\ CountsAreDraws /\ NumbersOutlivePruning
  BY <1>1, <1>2 DEF Inv, NumberedBelowNext, StoredBelowNext, Stored, CountsAreDraws,
                    SeqNamesOneStroke, NumbersOutlivePruning
<1>8. TopSurvives /\ CutsRecorded
  BY <1>2, <1>3 DEF TopSurvives, RowAbove, CutsRecorded, NoCompaction, MaxSeq
<1>9. OnlyBaselinePruned /\ FlagHasCompaction
  BY <1>2 DEF OnlyBaselinePruned, FlagHasCompaction
<1> QED BY <1>5, <1>6, <1>7, <1>8, <1>9 DEF CInv

\* A step that changes nothing.
LEMMA CStutterKeepsInv ==
  ASSUME CInv, UNCHANGED cvars
  PROVE  CInv'
<1>1. /\ UNCHANGED <<initPhase, waiting, nextSeq, buffer, timer, retryTimer, flushAttempts,
                     persistenceDegraded, drains, rows, snapshotSeq, accepted, nextId,
                     failures, crashes>>
      /\ UNCHANGED <<compacting, counting, compactions, highCut, pruned>>
  BY DEF cvars, compactVars, vars, initVars, timerVars, healthVars, storeVars, historyVars, boundVars
<1>2. /\ compacting' \in BOOLEAN /\ counting' \in 0..MaxStrokes /\ counting' < nextId
  BY <1>1 DEF CInv, CTypeOK, CountsAreDraws
<1>3. TopSurvives' /\ CutsRecorded' /\ FlagHasCompaction'
  BY <1>1 DEF CInv, TopSurvives, RowAbove, CutsRecorded, FlagHasCompaction, Running
<1>4. /\ failures' \in 0..MaxFailures /\ failures <= failures'
      /\ snapshotSeq' \in 0..MaxSeq /\ highCut' \in 0..MaxSeq /\ highCut <= highCut'
      /\ compactions' \in [Compactors -> [awaits : {"nothing", "flag", "baseline", "tail", "set", "delete"},
                                          base : 0..MaxSeq, cut : 0..MaxSeq]]
  BY <1>1 DEF CInv, CTypeOK, TypeOK, MaxSeq
<1> QED BY <1>1, <1>2, <1>3, <1>4, CompactionKeepsRest
    DEF initVars, timerVars, healthVars, historyVars

\* Every step of the service and of its compactions keeps the invariant.
LEMMA CNextKeepsInv == CInv /\ [CNext]_cvars => CInv'
<1> SUFFICES ASSUME CInv, [CNext]_cvars PROVE CInv'
  OBVIOUS
<1>1. CASE WritePath
  <2>1. UNCHANGED compactVars
    BY <1>1 DEF WritePath
  <2>2. CASE AwaitInit \/ InitFails
    BY <2>1, <2>2, CAwaitingKeepsInv
  <2>3. CASE InitDone
    BY <2>1, <2>3, CInitDoneKeepsInv
  <2>4. CASE TimerFires
    <3>1. initPhase = "ready"
      BY <2>4 DEF TimerFires, CInv, EmptyUntilRestored
    <3> QED BY <2>1, <2>4, <3>1, CDrainKeepsInv DEF TimerFires, Flush
  <2>5. CASE RetryFires
    <3>1. initPhase = "ready" /\ timer \in BOOLEAN
      BY <2>5 DEF RetryFires, CInv, EmptyUntilRestored, CTypeOK, TypeOK
    <3> QED BY <2>1, <2>5, <3>1, CDrainKeepsInv DEF RetryFires
  <2>6. CASE StoreAnswers
    BY <2>1, <2>6, CInsertDoneKeepsInv, CTouchDoneKeepsInv, CDrainFailsKeepsInv DEF StoreAnswers
  <2> QED BY <1>1, <2>2, <2>3, <2>4, <2>5, <2>6 DEF WritePath
<1>2. CASE Draw
  <2>1. /\ Enqueue /\ initPhase = "ready"
        /\ nextId' = nextId + 1 /\ nextId \in 1..MaxStrokes + 1
        /\ UNCHANGED <<initPhase, storeVars, boundVars, compacting, compactions, highCut, pruned>>
        /\ counting' \in {counting, counting + 1}
    BY <1>2 DEF Draw, AppendStroke, ResumeAppend, Enqueue, CInv, CTypeOK, TypeOK
  <2>2. waiting' \in 0..MaxStrokes /\ nextId' + waiting' <= MaxStrokes + 1 /\ nextId <= MaxStrokes
    <3>1. CASE AppendStroke
      BY <2>1, <3>1 DEF AppendStroke, Resumed, CInv, CTypeOK, TypeOK
    <3>2. CASE ResumeAppend
      BY <2>1, <3>2 DEF ResumeAppend, CInv, CTypeOK, TypeOK, StoredBelowNext
    <3> QED BY <1>2, <3>1, <3>2 DEF Draw
  <2> QED BY <2>1, <2>2, CEnqueueKeepsInv
<1>3. CASE CountWithinCap \/ CountFails
  BY <1>3, CountEndsKeepInv
<1>4. CASE \E c \in Compactors : CompactionStep(c)
  BY <1>4, CompactionReadsKeepInv, SetSnapshotKeepsInv, DeleteBatchKeepsInv,
     CompactionFailsKeepsInv DEF CompactionStep
<1>5. CASE CCrash
  BY <1>5, CCrashKeepsInv
<1>6. CASE CIdle \/ UNCHANGED cvars
  BY <1>6, CStutterKeepsInv DEF CIdle, Idle, cvars
<1> QED BY <1>1, <1>2, <1>3, <1>4, <1>5, <1>6 DEF CNext

\* The inductive invariant holds in every reachable state.
THEOREM CompactionInvariance == CSpec => []CInv
<1>1. CInit => CInv
  BY CInitInv
<1>2. CInv /\ [CNext]_cvars => CInv'
  BY CNextKeepsInv
<1> QED BY <1>1, <1>2, PTL DEF CSpec

\* The types of the state of the service and of its compactions.
THEOREM CompactionTypes == CSpec => []CTypeOK
<1>1. CInv => CTypeOK
  BY DEF CInv
<1> QED BY <1>1, CompactionInvariance, PTL

\* Compactions drop no accepted stroke that was not part of a recorded baseline
\* (strokeService.ts: "no accepted stroke is lost").
THEOREM PruningSafe == CSpec => []OnlyBaselinePruned
<1>1. CInv => OnlyBaselinePruned
  BY DEF CInv
<1> QED BY <1>1, CompactionInvariance, PTL

\* A restarted process never gives a stroke the number of a stroke that was stored, pruned
\* or not (initBoard and loadSince after compactions that overlapped).
THEOREM PruningFreesNoNumber == CSpec => []NumbersOutlivePruning
<1>1. CInv => NumbersOutlivePruning
  BY DEF CInv
<1> QED BY <1>1, CompactionInvariance, PTL

\* The compacting flag is cleared with the compactions it stands for (the finally of
\* maybeCompact).
THEOREM FlagIsCleared == CSpec => []FlagHasCompaction
<1>1. CInv => FlagHasCompaction
  BY DEF CInv
<1> QED BY <1>1, CompactionInvariance, PTL

-----------------------------------------------------------------------------
(* The service with its compactions implements the durable log *)

\* A step that keeps the accepted strokes and all that was ever stored is a stutter.
LEMMA CQuietStep ==
  ASSUME UNCHANGED <<accepted, Stored>>
  PROVE  [StoredLog!LogNext]_(StoredLog!logVars)
BY DEF StoredLog!logVars

\* The new stroke of a draw is numbered above all that was ever stored.
LEMMA DrawAccepts ==
  ASSUME CInv, Enqueue, initPhase = "ready", UNCHANGED <<rows, pruned>>, CInv'
  PROVE  StoredLog!LogNext
<1> DEFINE stroke == [seq |-> nextSeq, id |-> nextId]
<1>1. accepted' = accepted \union {stroke} /\ stroke.seq = nextSeq /\ Stored' = Stored
  BY DEF Enqueue, Stored
<1>2. \A s \in Stored \union accepted : s.seq < nextSeq
  BY DEF CInv, StoredBelowNext
<1>3. stroke \in Stroke
  BY <1>1 DEF CInv, CTypeOK, TypeOK
<1> HIDE DEF stroke
<1>4. stroke \notin Stored
  BY <1>1, <1>2, <1>3 DEF Stroke, MaxSeq
<1>5. StoredLog!Accept(stroke)
  BY <1>1, <1>2, <1>4 DEF StoredLog!Accept
<1> QED BY <1>3, <1>5 DEF StoredLog!LogNext

\* A committed INSERT: the strokes it adds leave pending.
LEMMA CInsertPersists ==
  ASSUME CInv, NEW strokes, strokes \subseteq accepted,
         rows' = rows \union strokes, UNCHANGED <<accepted, pruned>>
  PROVE  StoredLog!LogNext
<1> DEFINE batch == strokes \ Stored
<1>1. Stored' = Stored \union batch
  BY DEF Stored
<1>2. batch \in SUBSET (accepted \ Stored)
  OBVIOUS
<1> HIDE DEF batch
<1>3. StoredLog!Persist(batch)
  BY <1>1, <1>2 DEF StoredLog!Persist
<1> QED BY <1>2, <1>3 DEF StoredLog!LogNext

\* A crash: the INSERTs under way are committed or not, the rest is forgotten.
LEMMA CCrashLoses ==
  ASSUME CInv, CCrash
  PROVE  StoredLog!LogNext
<1>1. PICK committed \in SUBSET {d \in drains : d.query = "insert"} :
        rows' = AfterInsert(UNION {Range(d.batch) : d \in committed})
  BY DEF CCrash, Crash
<1> DEFINE strokes == UNION {Range(d.batch) : d \in committed}
           survivors == strokes \ Stored
<1>2. strokes \subseteq accepted
  BY DEF CInv, HeldIsAccepted, InFlight
<1>3. rows' = rows \union strokes /\ accepted' = {} /\ pruned' = pruned
  BY <1>1, <1>2, InsertStoresAll DEF CCrash, Crash
<1>4. Stored' = Stored \union survivors /\ survivors \in SUBSET (accepted \ Stored)
  BY <1>2, <1>3 DEF Stored
<1> HIDE DEF survivors
<1>5. StoredLog!Lose(survivors)
  BY <1>3, <1>4 DEF StoredLog!Lose
<1> QED BY <1>4, <1>5 DEF StoredLog!LogNext

\* Every step is a step of the log, or changes nothing of it: a DELETE moves rows to the
\* strokes that were pruned.
LEMMA CStepImplementsLog ==
  CInv /\ CInv' /\ [CNext]_cvars => [StoredLog!LogNext]_(StoredLog!logVars)
<1> SUFFICES ASSUME CInv, CInv', [CNext]_cvars
             PROVE  [StoredLog!LogNext]_(StoredLog!logVars)
  OBVIOUS
<1>1. CASE WritePath
  <2>1. UNCHANGED pruned
    BY <1>1 DEF WritePath, compactVars
  <2>2. CASE AwaitInit \/ InitFails \/ InitDone \/ TimerFires \/ RetryFires
    <3>1. UNCHANGED <<accepted, rows>>
      BY <2>2 DEF AwaitInit, InitFails, InitDone, TimerFires, RetryFires, storeVars, historyVars
    <3> QED BY <2>1, <3>1, CQuietStep DEF Stored
  <2>3. CASE StoreAnswers
    <3>1. PICK d \in drains : InsertDone(d) \/ TouchDone(d) \/ DrainFails(d)
      BY <2>3 DEF StoreAnswers
    <3>2. /\ UNCHANGED accepted
          /\ rows' = rows \/ rows' = rows \union Range(d.batch)
      BY <3>1, CDrainAccepted DEF InsertDone, TouchDone, DrainFails, storeVars, historyVars
    <3>3. CASE rows' = rows
      BY <2>1, <3>2, <3>3, CQuietStep DEF Stored
    <3>4. CASE rows' = rows \union Range(d.batch)
      BY <2>1, <3>2, <3>4, CDrainAccepted, CInsertPersists
    <3> QED BY <3>2, <3>3, <3>4
  <2> QED BY <1>1, <2>2, <2>3 DEF WritePath
<1>2. CASE Draw
  <2>1. Enqueue /\ initPhase = "ready" /\ UNCHANGED <<rows, pruned>>
    BY <1>2 DEF Draw, AppendStroke, ResumeAppend, storeVars
  <2> QED BY <2>1, DrawAccepts
<1>3. CASE CountWithinCap \/ CountFails
  <2>1. UNCHANGED <<accepted, rows, pruned>>
    BY <1>3 DEF CountWithinCap, CountFails, vars, storeVars, historyVars
  <2> QED BY <2>1, CQuietStep DEF Stored
<1>4. ASSUME NEW c \in Compactors, CompactionStep(c)
      PROVE  UNCHANGED <<accepted, Stored>>
  <2>1. CASE DeleteBatch(c)
    BY <2>1 DEF DeleteBatch, Prunable, Stored, historyVars
  <2>2. CASE CountAboveCap(c) \/ SetFlag(c) \/ ReadBaseline(c) \/ LoadTail(c)
    <3>1. UNCHANGED <<accepted, rows, pruned>>
      BY <2>2 DEF CountAboveCap, SetFlag, ReadBaseline, LoadTail, vars, storeVars, historyVars
    <3> QED BY <3>1 DEF Stored
  <2>3. CASE SetSnapshot(c) \/ CompactionFails(c)
    <3>1. UNCHANGED <<accepted, rows, pruned>>
      BY <2>3 DEF SetSnapshot, CompactionFails, historyVars
    <3> QED BY <3>1 DEF Stored
  <2> QED BY <1>4, <2>1, <2>2, <2>3 DEF CompactionStep
<1>5. CASE CCrash
  BY <1>5, CCrashLoses
<1>6. CASE CIdle \/ UNCHANGED cvars
  <2>1. UNCHANGED <<accepted, rows, pruned>>
    BY <1>6 DEF CIdle, Idle, cvars, vars, storeVars, historyVars, compactVars
  <2> QED BY <2>1, CQuietStep DEF Stored
<1> QED BY <1>1, <1>2, <1>3, <1>4, <1>5, <1>6, CQuietStep DEF CNext

\* Compactions change nothing of what the service promises: with what they prune counted
\* as durable, the service still implements the durable log.
THEOREM CompactionRefinement == CSpec => CompactionImplementsLog
<1>1. CInit => StoredLog!LogInit
  <2> SUFFICES ASSUME CInit PROVE StoredLog!LogInit
    OBVIOUS
  <2>1. CInv /\ accepted = {}
    BY CInitInv DEF CInit, Init
  <2> QED BY <2>1 DEF StoredLog!LogInit, Stored, CInv, CTypeOK, TypeOK
<1>2. CInv /\ CInv' /\ [CNext]_cvars => [StoredLog!LogNext]_(StoredLog!logVars)
  BY CStepImplementsLog
<1> QED BY <1>1, <1>2, CompactionInvariance, PTL
    DEF CompactionImplementsLog, CSpec, StoredLog!LogSpec

-----------------------------------------------------------------------------
(* Sorting *)

\* Some element of a set has the lowest number.
LEMMA Lowest ==
  ASSUME NEW S, S # {}, NEW number, \A x \in S : number[x] \in Nat
  PROVE  \E m \in S : \A x \in S : number[m] <= number[x]
<1> DEFINE T == {number[x] : x \in S}
<1>1. T \subseteq Nat /\ T # {}
  OBVIOUS
<1>2. PICK n \in T : \A k \in T : ~(<<k, n>> \in OpToRel(<, Nat))
  BY <1>1, NatLessThanWellFounded, WFMin
<1>3. n \in Nat /\ \A k \in T : ~(k < n)
  BY <1>1, <1>2 DEF OpToRel
<1>4. PICK m \in S : n = number[m]
  BY <1>2
<1>5. \A x \in S : number[m] <= number[x]
  BY <1>1, <1>3, <1>4
<1> QED BY <1>5

\* An order of a set: what Sorted chooses.
IsOrder(order, S, number) ==
  /\ order \in Bijection(1..Cardinality(S), S)
  /\ \A i, j \in 1..Cardinality(S) : i < j => number[order[i]] <= number[order[j]]

\* The lowest element goes in front of an order of the others.
LEMMA OrderExtends ==
  ASSUME NEW S, IsFiniteSet(S), NEW number, \A x \in S : number[x] \in Nat,
         NEW m \in S, \A x \in S : number[m] <= number[x],
         NEW rest, IsOrder(rest, S \ {m}, number)
  PROVE  \E order : IsOrder(order, S, number)
<1> DEFINE n == Cardinality(S)
           order == [i \in 1..n |-> IF i = 1 THEN m ELSE rest[i - 1]]
<1>1. n \in Nat /\ n >= 1 /\ Cardinality(S \ {m}) = n - 1
  <2>1. n \in Nat
    BY FS_CardinalityType
  <2>2. n # 0
    BY FS_EmptySet
  <2>3. Cardinality(S \ {m}) = n - 1
    BY FS_RemoveElement
  <2> HIDE DEF n
  <2> QED BY <2>1, <2>2, <2>3
<1> HIDE DEF n
<1>2. /\ rest \in [1..(n - 1) -> S \ {m}]
      /\ \A i, j \in 1..(n - 1) : rest[i] = rest[j] => i = j
      /\ \A x \in S \ {m} : \E i \in 1..(n - 1) : rest[i] = x
      /\ \A i, j \in 1..(n - 1) : i < j => number[rest[i]] <= number[rest[j]]
  BY <1>1 DEF IsOrder, Bijection, Injection, Surjection, IsInjective
<1>3. /\ order \in [1..n -> S] /\ order[1] = m
      /\ \A i \in 2..n : i - 1 \in 1..(n - 1) /\ order[i] = rest[i - 1] /\ order[i] # m
  BY <1>1, <1>2
<1> HIDE DEF order
<1>4. \A i \in 1..n : i = 1 \/ i \in 2..n
  BY <1>1
<1>5. \A i, j \in 1..n : order[i] = order[j] => i = j
  <2> TAKE i, j \in 1..n
  <2> HAVE order[i] = order[j]
  <2>1. CASE i \in 2..n /\ j \in 2..n
    <3>1. i - 1 = j - 1
      BY <1>2, <1>3, <2>1
    <3> QED BY <3>1
  <2> QED BY <1>3, <1>4, <2>1
<1>6. \A x \in S : \E i \in 1..n : order[i] = x
  <2> TAKE x \in S
  <2>1. CASE x = m
    BY <1>1, <1>3, <2>1
  <2>2. CASE x # m
    <3>1. PICK i \in 1..(n - 1) : rest[i] = x
      BY <1>2, <2>2
    <3>2. i + 1 \in 2..n /\ (i + 1) - 1 = i
      BY <1>1
    <3>3. order[i + 1] = x /\ i + 1 \in 1..n
      BY <1>3, <3>1, <3>2
    <3> QED BY <3>3
  <2> QED BY <2>1, <2>2
<1>7. order \in Bijection(1..n, S)
  BY <1>3, <1>5, <1>6 DEF Bijection, Injection, Surjection, IsInjective
<1>8. \A i, j \in 1..n : i < j => number[order[i]] <= number[order[j]]
  <2> TAKE i, j \in 1..n
  <2> HAVE i < j
  <2>1. CASE i = 1
    BY <1>3, <2>1
  <2>2. CASE i \in 2..n
    <3>1. j \in 2..n /\ i - 1 < j - 1
      BY <2>2
    <3> QED BY <1>2, <1>3, <2>2, <3>1
  <2> QED BY <1>4, <2>1, <2>2
<1> QED BY <1>7, <1>8 DEF IsOrder, n

\* Every finite set of numbered things has an order.
LEMMA OrderExists ==
  ASSUME NEW S, IsFiniteSet(S), NEW number, \A x \in S : number[x] \in Nat
  PROVE  \E order : IsOrder(order, S, number)
<1> DEFINE Bad(T) == ~ \E order : IsOrder(order, T, number)
           sizes == {Cardinality(T) : T \in {R \in SUBSET S : Bad(R)}}
<1> SUFFICES ASSUME Bad(S) PROVE FALSE
  OBVIOUS
<1>1. \A T \in SUBSET S : IsFiniteSet(T) /\ Cardinality(T) \in Nat
  BY FS_Subset, FS_CardinalityType
<1>2. sizes \subseteq Nat /\ sizes # {}
  BY <1>1
<1>3. PICK n \in sizes : \A k \in sizes : ~(<<k, n>> \in OpToRel(<, Nat))
  BY <1>2, NatLessThanWellFounded, WFMin
<1>4. n \in Nat /\ \A k \in sizes : ~(k < n)
  BY <1>2, <1>3 DEF OpToRel
<1>5. PICK T \in SUBSET S : Bad(T) /\ n = Cardinality(T)
  BY <1>3
<1>6. T # {}
  <2> SUFFICES ASSUME T = {} PROVE FALSE
    OBVIOUS
  <2>1. Cardinality(T) = 0
    BY FS_EmptySet
  <2> DEFINE empty == [i \in 1..0 |-> 0]
  <2>2. 1..0 = {}
    OBVIOUS
  <2>3. empty \in [1..0 -> T]
    BY <2>2
  <2>4. empty \in Bijection(1..0, T)
    BY <2>2, <2>3 DEF Bijection, Injection, Surjection, IsInjective
  <2>5. IsOrder(empty, T, number)
    BY <2>1, <2>2, <2>4 DEF IsOrder
  <2> QED BY <1>5, <2>5
<1>7. PICK m \in T : \A x \in T : number[m] <= number[x]
  BY <1>6, Lowest
<1>8. IsFiniteSet(T) /\ Cardinality(T \ {m}) = Cardinality(T) - 1
  BY <1>1, FS_RemoveElement
<1>9. Cardinality(T \ {m}) < n
  BY <1>4, <1>5, <1>8
<1>10. ~Bad(T \ {m})
  BY <1>4, <1>9
<1>11. PICK rest : IsOrder(rest, T \ {m}, number)
  BY <1>10
<1>12. \E order : IsOrder(order, T, number)
  BY <1>7, <1>8, <1>11, OrderExtends
<1> QED BY <1>5, <1>12

\* What is sorted is there, once, and in order.
LEMMA SortedFacts ==
  ASSUME NEW S, IsFiniteSet(S), NEW number, \A x \in S : number[x] \in Nat,
         \A x, y \in S : number[x] = number[y] => x = y
  PROVE  LET order == Sorted(S, number) IN
         /\ order \in Seq(S) /\ Range(order) = S
         /\ \A i, j \in DOMAIN order : i < j => number[order[i]] < number[order[j]]
<1> DEFINE order == Sorted(S, number)
           n == Cardinality(S)
<1>1. \E o : IsOrder(o, S, number)
  BY OrderExists
<1>2. IsOrder(order, S, number)
  BY <1>1 DEF IsOrder, Sorted
<1> HIDE DEF order
<1>3. n \in Nat
  BY FS_CardinalityType
<1>4. /\ order \in [1..n -> S]
      /\ \A i, j \in 1..n : order[i] = order[j] => i = j
      /\ \A x \in S : \E i \in 1..n : order[i] = x
      /\ \A i, j \in 1..n : i < j => number[order[i]] <= number[order[j]]
  BY <1>2 DEF IsOrder, Bijection, Injection, Surjection, IsInjective
<1> HIDE DEF n
<1>5. order \in Seq(S) /\ DOMAIN order = 1..n
  BY <1>3, <1>4
<1>6. Range(order) = S
  BY <1>4, <1>5 DEF Range
<1>7. \A i, j \in DOMAIN order : i < j => number[order[i]] < number[order[j]]
  <2> TAKE i, j \in DOMAIN order
  <2> HAVE i < j
  <2>1. order[i] \in S /\ order[j] \in S /\ order[i] # order[j]
    BY <1>4, <1>5
  <2>2. number[order[i]] # number[order[j]] /\ number[order[i]] <= number[order[j]]
    BY <1>4, <1>5, <2>1
  <2> QED BY <2>1, <2>2
<1> QED BY <1>5, <1>6, <1>7 DEF order


-----------------------------------------------------------------------------
(* What a load holds *)

\* There are finitely many strokes within the bounds.
LEMMA StrokesFinite == IsFiniteSet(Stroke)
<1> DEFINE pairs == (1..MaxSeq) \X (0..MaxStrokes)
           f == [p \in pairs |-> [seq |-> p[1], id |-> p[2]]]
<1>1. IsFiniteSet(1..MaxSeq) /\ IsFiniteSet(0..MaxStrokes)
  <2>1. MaxSeq \in Nat
    BY DEF MaxSeq
  <2> QED BY <2>1, FS_Interval
<1>2. IsFiniteSet(pairs)
  BY <1>1, FS_Product
<1>3. f \in Surjection(pairs, Stroke)
  <2>1. f \in [pairs -> Stroke]
    BY DEF Stroke
  <2>2. ASSUME NEW s \in Stroke PROVE \E p \in pairs : f[p] = s
    <3>1. <<s.seq, s.id>> \in pairs /\ f[<<s.seq, s.id>>] = s
      BY DEF Stroke
    <3> QED BY <3>1
  <2> QED BY <2>1, <2>2 DEF Surjection
<1> QED BY <1>2, <1>3, FS_Surjection

\* loadSince answers with the rows above a number, each once, in order.
LEMMA LoadedFacts ==
  ASSUME CInv, NEW from
  PROVE  LET strokes == Sorted(LoadSince(from), [s \in rows |-> s.seq]) IN
         /\ strokes \in Seq(Stroke) /\ Range(strokes) = LoadSince(from)
         /\ Ascending(strokes)
<1> DEFINE S == LoadSince(from)
           number == [s \in rows |-> s.seq]
           strokes == Sorted(S, number)
<1>1. S \subseteq rows /\ rows \subseteq Stroke
  BY DEF LoadSince, CInv, CTypeOK, TypeOK
<1>2. IsFiniteSet(S)
  BY <1>1, StrokesFinite, FS_Subset
<1>3. \A x \in S : number[x] = x.seq /\ number[x] \in Nat
  BY <1>1 DEF Stroke
<1>4. \A x, y \in S : number[x] = number[y] => x = y
  BY <1>1, <1>3 DEF CInv, NumbersOutlivePruning
<1> HIDE DEF S, number
<1>5. /\ strokes \in Seq(S) /\ Range(strokes) = S
      /\ \A i, j \in DOMAIN strokes : i < j => number[strokes[i]] < number[strokes[j]]
  BY <1>2, <1>3, <1>4, SortedFacts
<1> HIDE DEF strokes
<1>6. strokes \in Seq(Stroke)
  BY <1>1, <1>5
<1>7. \A i \in DOMAIN strokes : strokes[i] \in S
  BY <1>5
<1>8. Ascending(strokes)
  BY <1>3, <1>5, <1>7 DEF Ascending
<1> QED BY <1>5, <1>6, <1>8 DEF strokes, S, number

\* The rows and what is buffered of higher numbers: no row is lost, and no number twice.
LEMMA MergedFacts ==
  ASSUME buffer \in Seq(Stroke), IsInjective(buffer),
         \A s, t \in Range(buffer) : s.seq = t.seq => s = t,
         NEW read \in Seq(Stroke), Ascending(read), NEW from
  PROVE  /\ Merged(read, from) \in Seq(Stroke) /\ Ascending(Merged(read, from))
         /\ Range(read) \subseteq Range(Merged(read, from))
<1> DEFINE all    == read \o buffer
           fresh  == Fresh(read, from)
           kept   == DOMAIN read \union {Len(read) + i : i \in fresh}
           number == [i \in kept |-> all[i].seq]
           order  == Sorted(kept, number)
           merged == [i \in DOMAIN order |-> all[order[i]]]
<1>1. CASE fresh = {}
  BY <1>1 DEF Merged
<1>2. CASE fresh # {}
  <2>1. Merged(read, from) = merged
    BY <1>2 DEF Merged
  <2>2. /\ Len(read) \in Nat /\ Len(buffer) \in Nat
        /\ DOMAIN read = 1..Len(read) /\ DOMAIN buffer = 1..Len(buffer)
        /\ \A i \in DOMAIN read : read[i] \in Stroke /\ all[i] = read[i]
        /\ \A i \in DOMAIN buffer : buffer[i] \in Stroke /\ all[Len(read) + i] = buffer[i]
    OBVIOUS
  <2>3. /\ fresh \subseteq DOMAIN buffer
        /\ \A i \in fresh, j \in DOMAIN read : read[j].seq # buffer[i].seq
    BY DEF Fresh, Range
  <2>4. \A i, j \in DOMAIN buffer : buffer[i].seq = buffer[j].seq => i = j
    BY DEF Range, IsInjective
  <2> HIDE DEF all, fresh
  <2>5. \A i \in kept : \/ i \in DOMAIN read /\ all[i] = read[i]
                       \/ \E k \in fresh : i = Len(read) + k /\ all[i] = buffer[k]
    BY <2>2, <2>3
  <2>6. kept \subseteq 1..(Len(read) + Len(buffer))
    BY <2>2, <2>3
  <2>7. IsFiniteSet(kept)
    <3>1. IsFiniteSet(1..(Len(read) + Len(buffer)))
      BY <2>2, FS_Interval
    <3> QED BY <2>6, <3>1, FS_Subset
  <2>8. \A i \in kept : all[i] \in Stroke /\ number[i] = all[i].seq /\ number[i] \in Nat
    <3>1. \A i \in kept : all[i] \in Stroke
      BY <2>2, <2>3, <2>5
    <3> QED BY <3>1 DEF Stroke
  <2>9. \A i, j \in DOMAIN read : read[i].seq = read[j].seq => i = j
    <3> TAKE i, j \in DOMAIN read
    <3>1. read[i].seq \in Nat /\ read[j].seq \in Nat
      BY <2>2 DEF Stroke
    <3>2. i < j \/ j < i \/ i = j
      BY <2>2
    <3> QED BY <3>1, <3>2 DEF Ascending
  <2>10. \A i, j \in kept : number[i] = number[j] => i = j
    <3> TAKE i, j \in kept
    <3> HAVE number[i] = number[j]
    <3>1. all[i].seq = all[j].seq
      BY <2>8
    <3>2. CASE i \in DOMAIN read /\ all[i] = read[i] /\ j \in DOMAIN read /\ all[j] = read[j]
      BY <2>9, <3>1, <3>2
    <3>3. ASSUME NEW k \in fresh, i = Len(read) + k, all[i] = buffer[k]
          PROVE  i = j
      <4>1. CASE j \in DOMAIN read /\ all[j] = read[j]
        BY <2>3, <3>1, <3>3, <4>1
      <4>2. CASE \E m \in fresh : j = Len(read) + m /\ all[j] = buffer[m]
        BY <2>3, <2>4, <3>1, <3>3, <4>2
      <4> QED BY <2>5, <4>1, <4>2
    <3>4. ASSUME NEW k \in fresh, j = Len(read) + k, all[j] = buffer[k],
                 i \in DOMAIN read, all[i] = read[i]
          PROVE  i = j
      BY <2>3, <3>1, <3>4
    <3> QED BY <2>5, <3>2, <3>3, <3>4
  <2> HIDE DEF number
  <2>11. /\ order \in Seq(kept) /\ Range(order) = kept
         /\ \A i, j \in DOMAIN order : i < j => number[order[i]] < number[order[j]]
    <3> HIDE DEF kept
    <3> QED BY <2>7, <2>8, <2>10, SortedFacts
  <2> HIDE DEF order
  <2>12. /\ DOMAIN order = 1..Len(order) /\ Len(order) \in Nat
         /\ \A i \in DOMAIN order : order[i] \in kept
    <3> HIDE DEF kept
    <3> QED BY <2>11
  <2>13. merged \in Seq(Stroke) /\ DOMAIN merged = DOMAIN order
    <3> HIDE DEF kept
    <3> QED BY <2>8, <2>12
  <2>14. Ascending(merged)
    <3> HIDE DEF kept
    <3> QED BY <2>8, <2>11, <2>12 DEF Ascending
  <2>15. Range(read) \subseteq Range(merged)
    <3> SUFFICES ASSUME NEW i \in DOMAIN read PROVE read[i] \in Range(merged)
      BY DEF Range
    <3>1. i \in kept /\ all[i] = read[i]
      BY <2>2
    <3>2. PICK k \in DOMAIN order : order[k] = i
      BY <2>11, <3>1 DEF Range
    <3>3. merged[k] = read[i]
      BY <3>1, <3>2
    <3> HIDE DEF merged
    <3> QED BY <2>13, <3>2, <3>3 DEF Range
  <2> HIDE DEF merged
  <2> QED BY <2>1, <2>13, <2>14, <2>15
<1> QED BY <1>1, <1>2

-----------------------------------------------------------------------------
(* What happens under the loads *)

\* No stroke is in two places at once, with compactions as without.
LEMMA CKeepsBatches ==
  ASSUME CInv, BatchesDisjoint, [CNext]_cvars
  PROVE  BatchesDisjoint'
<1>1. HeldOnce(buffer)
  BY DEF HeldOnce, BatchesDisjoint
<1>2. buffer \in Seq(Stroke) /\ drains \subseteq Drain /\ Range(buffer) \union InFlight \subseteq accepted
  BY DEF CInv, CTypeOK, TypeOK, HeldIsAccepted
<1>3. ASSUME UNCHANGED <<buffer, drains>> PROVE BatchesDisjoint'
  BY <1>3 DEF BatchesDisjoint
<1>4. CASE DrainOnce(buffer)
  BY <1>1, <1>2, <1>4, DrainOnceMoves
<1>5. CASE WritePath
  <2>1. CASE AwaitInit \/ InitDone \/ InitFails
    BY <1>3, <2>1 DEF AwaitInit, InitDone, InitFails
  <2>2. CASE TimerFires \/ RetryFires
    BY <1>4, <2>2 DEF TimerFires, RetryFires, Flush
  <2>3. ASSUME NEW d \in drains, InsertDone(d) PROVE BatchesDisjoint'
    <3> DEFINE touching == [d EXCEPT !.query = "touch"]
    <3>1. drains' = (drains \ {d}) \union {touching} /\ buffer' = buffer
      BY <2>3 DEF InsertDone
    <3>2. touching.batch = d.batch
      BY <1>2 DEF Drain
    <3> HIDE DEF touching
    <3>3. \A e \in drains' : /\ IsInjective(e.batch)
                             /\ Range(e.batch) \intersect Range(buffer') = {}
      BY <3>1, <3>2 DEF BatchesDisjoint
    <3>4. \A e, f \in drains' : e = f \/ Range(e.batch) \intersect Range(f.batch) = {}
      BY <3>1, <3>2 DEF BatchesDisjoint
    <3> QED BY <3>1, <3>3, <3>4 DEF BatchesDisjoint
  <2>4. ASSUME NEW d \in drains, TouchDone(d) PROVE BatchesDisjoint'
    <3>1. drains' = drains \ {d} /\ buffer' = buffer
      BY <2>4 DEF TouchDone
    <3> QED BY <3>1 DEF BatchesDisjoint
  <2>5. ASSUME NEW d \in drains, DrainFails(d) PROVE BatchesDisjoint'
    <3>1. drains' = drains \ {d} /\ buffer' = d.batch \o buffer /\ d.batch \in Seq(Stroke)
      BY <1>2, <2>5 DEF DrainFails, Rebuffered, Drain
    <3>2. Range(buffer') = Range(d.batch) \union Range(buffer) /\ IsInjective(buffer')
      BY <1>2, <3>1, RangeConcat DEF BatchesDisjoint
    <3>3. \A e \in drains' : /\ IsInjective(e.batch)
                             /\ Range(e.batch) \intersect Range(buffer') = {}
      BY <3>1, <3>2 DEF BatchesDisjoint
    <3>4. \A e, f \in drains' : e = f \/ Range(e.batch) \intersect Range(f.batch) = {}
      BY <3>1 DEF BatchesDisjoint
    <3> QED BY <3>2, <3>3, <3>4 DEF BatchesDisjoint
  <2> QED BY <1>5, <2>1, <2>2, <2>3, <2>4, <2>5 DEF WritePath, StoreAnswers
<1>6. CASE Draw
  <2> DEFINE stroke == [seq |-> nextSeq, id |-> nextId]
             pushed == Append(buffer, stroke)
  <2>1. Enqueue /\ initPhase = "ready"
    BY <1>6 DEF Draw, AppendStroke, ResumeAppend
  <2>2. stroke \in accepted'  /\ accepted' \subseteq Stroke
    <3>1. CInv'
      BY <1>6, CNextKeepsInv DEF CNext
    <3>2. accepted' \subseteq Stroke
      BY <3>1 DEF CInv, CTypeOK, TypeOK
    <3> QED BY <2>1, <3>2 DEF Enqueue
  <2>3. \A s \in accepted : s.seq < nextSeq
    BY <2>1 DEF CInv, StoredBelowNext
  <2>4. stroke \notin accepted
    <3>1. stroke.seq = nextSeq /\ stroke.seq \in Nat
      BY <2>2 DEF Stroke
    <3> HIDE DEF stroke
    <3> QED BY <2>3, <3>1
  <2>5. \/ Flush(pushed)
        \/ buffer' = pushed /\ UNCHANGED drains
    BY <2>1 DEF Enqueue
  <2>6. stroke \notin Range(buffer) /\ stroke \notin InFlight /\ stroke \in Stroke
    BY <1>2, <2>2, <2>4
  <2> HIDE DEF stroke
  <2>7. /\ pushed \in Seq(Stroke) /\ Range(pushed) = Range(buffer) \union {stroke}
        /\ IsInjective(buffer) => IsInjective(pushed)
    BY <1>2, <2>6, RangeAppend
  <2>8. HeldOnce(pushed)
    <3>1. \A d \in drains : Range(d.batch) \intersect Range(pushed) = {}
      BY <2>6, <2>7, InFlightDef DEF BatchesDisjoint
    <3> QED BY <2>7, <3>1 DEF HeldOnce, BatchesDisjoint
  <2>9. CASE Flush(pushed)
    <3> HIDE DEF pushed
    <3>1. DrainOnce(pushed)
      BY <2>9 DEF Flush
    <3> QED BY <1>2, <2>7, <2>8, <3>1, DrainOnceMoves
  <2>10. CASE buffer' = pushed /\ UNCHANGED drains
    <3> HIDE DEF pushed
    <3> QED BY <2>8, <2>10 DEF HeldOnce, BatchesDisjoint
  <2> QED BY <2>5, <2>9, <2>10
<1>7. CASE CCrash
  <2>1. buffer' = <<>> /\ drains' = {}
    BY <1>7 DEF CCrash, Crash
  <2> QED BY <2>1, RangeEmpty DEF BatchesDisjoint
<1>8. CASE CountWithinCap \/ CountFails \/ CIdle \/ UNCHANGED cvars
  BY <1>3, <1>8 DEF CountWithinCap, CountFails, CIdle, Idle, cvars, vars
<1>9. CASE \E c \in Compactors : CompactionStep(c)
  <2> SUFFICES ASSUME NEW c \in Compactors, CompactionStep(c)
               PROVE  UNCHANGED <<buffer, drains>>
    BY <1>3, <1>9
  <2>1. CASE CountAboveCap(c) \/ SetFlag(c) \/ ReadBaseline(c) \/ LoadTail(c)
    BY <2>1 DEF CountAboveCap, SetFlag, ReadBaseline, LoadTail, vars
  <2>2. CASE SetSnapshot(c) \/ DeleteBatch(c) \/ CompactionFails(c)
    BY <2>2 DEF SetSnapshot, DeleteBatch, CompactionFails
  <2> QED BY <2>1, <2>2 DEF CompactionStep
<1> QED BY <1>3, <1>5, <1>6, <1>7, <1>8, <1>9 DEF CNext

\* What was stored stays stored or pruned, and what was pruned is not forgotten.
LEMMA CKeepsStored ==
  ASSUME CInv, [CNext]_cvars
  PROVE  Stored \subseteq Stored' /\ pruned \subseteq pruned'
<1>1. CASE WritePath
  <2>1. UNCHANGED pruned
    BY <1>1 DEF WritePath, compactVars
  <2>2. CASE AwaitInit \/ InitFails \/ InitDone \/ TimerFires \/ RetryFires
    BY <2>1, <2>2 DEF AwaitInit, InitFails, InitDone, TimerFires, RetryFires, storeVars, Stored
  <2>3. CASE StoreAnswers
    <3>1. rows \subseteq rows'
      BY <2>3 DEF StoreAnswers, InsertDone, TouchDone, DrainFails, AfterInsert, storeVars
    <3> QED BY <2>1, <3>1 DEF Stored
  <2> QED BY <1>1, <2>2, <2>3 DEF WritePath
<1>2. CASE Draw
  BY <1>2 DEF Draw, AppendStroke, ResumeAppend, storeVars, Stored
<1>3. CASE CCrash
  BY <1>3 DEF CCrash, Crash, AfterInsert, Stored
<1>4. CASE CountWithinCap \/ CountFails \/ CIdle \/ UNCHANGED cvars
  BY <1>4 DEF CountWithinCap, CountFails, CIdle, Idle, cvars, compactVars, vars, storeVars, Stored
<1>5. CASE \E c \in Compactors : CompactionStep(c)
  <2> SUFFICES ASSUME NEW c \in Compactors, CompactionStep(c)
               PROVE  Stored \subseteq Stored' /\ pruned \subseteq pruned'
    BY <1>5
  <2>1. CASE CountAboveCap(c) \/ SetFlag(c) \/ ReadBaseline(c) \/ LoadTail(c)
    BY <2>1 DEF CountAboveCap, SetFlag, ReadBaseline, LoadTail, vars, storeVars, Stored
  <2>2. CASE SetSnapshot(c) \/ CompactionFails(c)
    BY <2>2 DEF SetSnapshot, CompactionFails, Stored
  <2>3. CASE DeleteBatch(c)
    BY <2>3 DEF DeleteBatch, Prunable, Stored
  <2> QED BY <2>1, <2>2, <2>3 DEF CompactionStep
<1> QED BY <1>1, <1>2, <1>3, <1>4, <1>5 DEF CNext

-----------------------------------------------------------------------------
(* The requests *)

\* What the inductive invariant says of one request.
RequestInv(r) ==
  /\ r \in Request
  /\ r.outcome = "pending" <=> r.awaits # "nothing"
  /\ r.awaits = "tail" => r.history.from = From(r.arg, r.history.base)
  /\ r.owed \subseteq Stored
  /\ r.awaits = "answer" \/ r.outcome \in {"full", "delta"} =>
       /\ Ascending(r.history.strokes)
       /\ \A s \in r.owed : \/ s \in Range(r.history.strokes) \/ s.seq <= r.history.base
                            \/ s.seq <= r.arg \/ s \in pruned

\* The inductive invariant, said of one request at a time.
LEMMA HInvByRequest ==
  /\ HInv <=> /\ CInv /\ BatchesDisjoint /\ sent \subseteq Stroke
              /\ requests \in [Requests -> Request]
              /\ \A q \in Requests : RequestInv(requests[q])
  /\ HInv' <=> /\ CInv' /\ BatchesDisjoint' /\ sent' \subseteq Stroke
               /\ requests' \in [Requests -> Request]
               /\ (\A q \in Requests : RequestInv(requests[q]))'
<1> USE DEF HInv, HTypeOK, RequestsInPhase, OwedIsStored, LoadsComplete, Served, Accounted,
            Delivered, RequestInv
<1>1. CInv => CTypeOK
  BY DEF CInv
<1>2. CInv' => CTypeOK'
  BY DEF CInv
<1>3. HInv <=> /\ CInv /\ BatchesDisjoint /\ sent \subseteq Stroke
               /\ requests \in [Requests -> Request]
               /\ \A q \in Requests : RequestInv(requests[q])
  BY <1>1
<1>4. HInv' <=> /\ CInv' /\ BatchesDisjoint' /\ sent' \subseteq Stroke
                /\ requests' \in [Requests -> Request]
                /\ (\A q \in Requests : RequestInv(requests[q]))'
  BY <1>2
<1> QED BY <1>3, <1>4

\* A request that nothing happens to keeps its part: what it is owed stays stored.
LEMMA RequestKept ==
  ASSUME Stored \subseteq Stored', pruned \subseteq pruned', NEW r, RequestInv(r)
  PROVE  RequestInv(r)'
BY DEF RequestInv

\* A request is asked.
LEMMA AskKeepsRequest ==
  ASSUME HInv, NEW q \in Requests, NEW handler \in {"join", "resync"},
         NEW since \in {0} \union {s.seq : s \in sent}, Ask(q, handler, since)
  PROVE  \E r : RequestInv(r) /\ requests' = [requests EXCEPT ![q] = r]
<1> DEFINE r == [Unsent EXCEPT !.handler = handler, !.awaits = "baseline", !.since = since,
                               !.arg = IF handler = "join" THEN since ELSE 0,
                               !.owed = rows, !.drawn = accepted]
<1>1. requests' = [requests EXCEPT ![q] = r]
  BY DEF Ask
<1>2. sent \subseteq Stroke /\ rows \subseteq Stroke /\ accepted \subseteq Stroke /\ rows \subseteq Stored
  BY DEF HInv, HTypeOK, CTypeOK, TypeOK, Stored
<1>3. since \in 0..MaxSeq
  BY <1>2 DEF Stroke, MaxSeq
<1>4. NoHistory \in History
  BY DEF NoHistory, History, MaxSeq
<1>5. r \in Request
  <2>1. Unsent \in Request
    BY <1>4 DEF Unsent, Request, MaxSeq
  <2> QED BY <1>2, <1>3, <2>1 DEF Request, Unsent, MaxSeq
<1>6. /\ r.outcome = "pending" /\ r.awaits = "baseline" /\ r.owed = rows
  BY DEF Unsent
<1> HIDE DEF r
<1>7. RequestInv(r)
  BY <1>2, <1>5, <1>6 DEF RequestInv
<1> QED BY <1>1, <1>7

\* The baseline is read: the load starts from there, or from what the client has.
LEMMA BaselineKeepsRequest ==
  ASSUME HInv, NEW q \in Requests, LoadBaseline(q)
  PROVE  \E r : RequestInv(r) /\ requests' = [requests EXCEPT ![q] = r]
<1> DEFINE old == requests[q]
           history == [base |-> snapshotSeq, from |-> From(old.arg, snapshotSeq), strokes |-> <<>>]
           r == [old EXCEPT !.awaits = "tail", !.history = history]
<1>1. requests' = [requests EXCEPT ![q] = r] /\ old.awaits = "baseline"
  BY DEF LoadBaseline
<1>2. RequestInv(old)
  BY HInvByRequest
<1>3. snapshotSeq \in 0..MaxSeq
  BY DEF HInv, HTypeOK, CTypeOK, TypeOK
<1>4. old \in Request /\ old.outcome = "pending" /\ old.owed \subseteq Stored
  BY <1>1, <1>2 DEF RequestInv
<1> HIDE DEF old
<1>5. history \in History
  BY <1>3, <1>4 DEF Request, History, From
<1>6. /\ r \in Request /\ r.outcome = "pending" /\ r.awaits = "tail"
      /\ r.owed = old.owed /\ r.arg = old.arg /\ r.history = history
  BY <1>4, <1>5 DEF Request
<1>7. r.history.from = From(r.arg, r.history.base)
  BY <1>6
<1> HIDE DEF r
<1>8. RequestInv(r)
  BY <1>4, <1>6, <1>7 DEF RequestInv
<1> QED BY <1>1, <1>8

\* What is owed is above the number the rows are read from, or the client has it, or the
\* baseline has it; the rows that are above are read, unless they are pruned by now.
LEMMA RowsKeepRequest ==
  ASSUME HInv, NEW q \in Requests, LoadRows(q)
  PROVE  \E r : RequestInv(r) /\ requests' = [requests EXCEPT ![q] = r]
<1> DEFINE old == requests[q]
           strokes == Sorted(LoadSince(old.history.from), [s \in rows |-> s.seq])
           r == [old EXCEPT !.awaits = "answer", !.history.strokes = strokes]
<1>1. requests' = [requests EXCEPT ![q] = r] /\ old.awaits = "tail"
  BY DEF LoadRows
<1>2. RequestInv(old)
  BY HInvByRequest
<1>3. /\ old \in Request /\ old.outcome = "pending" /\ old.owed \subseteq Stored
      /\ old.history.from = From(old.arg, old.history.base)
  BY <1>1, <1>2 DEF RequestInv
<1>4. /\ strokes \in Seq(Stroke) /\ Ascending(strokes)
      /\ Range(strokes) = LoadSince(old.history.from)
  BY LoadedFacts DEF HInv
<1> HIDE DEF old, strokes
<1>5. old.history \in History /\ old.arg \in 0..MaxSeq
  BY <1>3 DEF Request
<1>6. /\ r \in Request /\ r.outcome = "pending" /\ r.awaits = "answer"
      /\ r.owed = old.owed /\ r.arg = old.arg
      /\ r.history.strokes = strokes /\ r.history.base = old.history.base
  BY <1>3, <1>4, <1>5 DEF Request, History
<1>7. ASSUME NEW s \in old.owed
      PROVE  \/ s \in Range(strokes) \/ s.seq <= old.history.base
             \/ s.seq <= old.arg \/ s \in pruned
  <2>1. s \in Stroke /\ (s \in rows \/ s \in pruned)
    BY <1>3 DEF Stored, Request
  <2>2. s.seq \in Nat /\ old.history.base \in Nat /\ old.arg \in Nat
    BY <1>5, <2>1 DEF Stroke, History, MaxSeq
  <2>3. s \in rows => s \in Range(strokes) \/ ~(s.seq > old.history.from)
    BY <1>4 DEF LoadSince
  <2>4. ~(s.seq > old.history.from) => s.seq <= old.history.base \/ s.seq <= old.arg
    BY <1>3, <2>2 DEF From
  <2> QED BY <2>1, <2>3, <2>4
<1> HIDE DEF r
<1>8. RequestInv(r)
  BY <1>3, <1>4, <1>6, <1>7 DEF RequestInv
<1> QED BY <1>1, <1>8

\* The strokes that are merged in take nothing from the rows that were read.
LEMMA AnswerKeepsRequest ==
  ASSUME HInv, NEW q \in Requests, HistoryLoaded(q)
  PROVE  \E r : RequestInv(r) /\ requests' = [requests EXCEPT ![q] = r]
<1> DEFINE old == requests[q]
           strokes == Merged(old.history.strokes, old.history.from)
           loaded == [old.history EXCEPT !.strokes = strokes]
           r == [old EXCEPT !.awaits = "nothing", !.history = loaded,
                            !.outcome = IF old.arg = 0 THEN "full" ELSE "delta"]
           d == [old EXCEPT !.awaits = "baseline", !.history = NoHistory, !.arg = old.since]
<1>1. /\ old.awaits = "answer"
      /\ \/ requests' = [requests EXCEPT ![q] = r]
         \/ requests' = [requests EXCEPT ![q] = d]
  BY DEF HistoryLoaded
<1>2. RequestInv(old)
  BY HInvByRequest
<1>3. /\ old \in Request /\ old.outcome = "pending" /\ old.owed \subseteq Stored
      /\ Ascending(old.history.strokes)
      /\ \A s \in old.owed : \/ s \in Range(old.history.strokes) \/ s.seq <= old.history.base
                             \/ s.seq <= old.arg \/ s \in pruned
  BY <1>1, <1>2 DEF RequestInv
<1>4. old.history \in History /\ old.history.strokes \in Seq(Stroke)
  BY <1>3 DEF Request, History
<1>5. /\ buffer \in Seq(Stroke) /\ IsInjective(buffer)
      /\ \A s, t \in Range(buffer) : s.seq = t.seq => s = t
  BY DEF HInv, CInv, CTypeOK, TypeOK, BatchesDisjoint, HeldIsAccepted, NumbersOutlivePruning
<1> HIDE DEF old
<1>6. /\ strokes \in Seq(Stroke) /\ Ascending(strokes)
      /\ Range(old.history.strokes) \subseteq Range(strokes)
  BY <1>3, <1>4, <1>5, MergedFacts
<1> HIDE DEF strokes
<1>7. loaded \in History /\ loaded.strokes = strokes /\ loaded.base = old.history.base
  BY <1>4, <1>6 DEF History
<1> HIDE DEF loaded
<1>8. RequestInv(r)
  <2>1. /\ r \in Request /\ r.outcome \in {"full", "delta"} /\ r.awaits = "nothing"
        /\ r.owed = old.owed /\ r.arg = old.arg /\ r.history = loaded
    BY <1>3, <1>7 DEF Request
  <2> HIDE DEF r
  <2> QED BY <1>3, <1>6, <1>7, <2>1 DEF RequestInv
<1>9. RequestInv(d)
  <2>1. NoHistory \in History
    BY DEF NoHistory, History, MaxSeq
  <2>2. /\ d \in Request /\ d.outcome = "pending" /\ d.awaits = "baseline"
        /\ d.owed = old.owed
    BY <1>3, <2>1 DEF Request
  <2> HIDE DEF d
  <2> QED BY <1>3, <2>2 DEF RequestInv
<1> QED BY <1>1, <1>8, <1>9

\* A request that is given up, by a failed query or with its connection.
LEMMA GivenUpKeepsRequest ==
  ASSUME NEW old, RequestInv(old)
  PROVE  RequestInv([old EXCEPT !.awaits = "nothing", !.outcome = "error", !.history = NoHistory])
<1> DEFINE r == [old EXCEPT !.awaits = "nothing", !.outcome = "error", !.history = NoHistory]
<1>1. NoHistory \in History
  BY DEF NoHistory, History, MaxSeq
<1>2. old \in Request /\ old.owed \subseteq Stored
  BY DEF RequestInv
<1>3. r \in Request /\ r.outcome = "error" /\ r.awaits = "nothing" /\ r.owed = old.owed
  BY <1>1, <1>2 DEF Request
<1> HIDE DEF r
<1>4. RequestInv(r)
  BY <1>2, <1>3 DEF RequestInv
<1> QED BY <1>4 DEF r

-----------------------------------------------------------------------------
(* The inductive invariant of the loads *)

\* Every step of the requests is, for the strokes, a step of the service and of its
\* compactions, or a query that fails.
LEMMA HKeepsStrokes ==
  ASSUME HInv, [HNext]_hvars
  PROVE  /\ CInv' /\ BatchesDisjoint'
         /\ Stored \subseteq Stored' /\ pruned \subseteq pruned'
<1>1. CInv /\ BatchesDisjoint
  BY DEF HInv
<1>2. CASE [CNext]_cvars
  BY <1>1, <1>2, CNextKeepsInv, CKeepsBatches, CKeepsStored
<1>3. ASSUME NEW q \in Requests, RequestFails(q)
      PROVE  /\ CInv' /\ BatchesDisjoint'
             /\ Stored \subseteq Stored' /\ pruned \subseteq pruned'
  <2>1. /\ failures < MaxFailures /\ failures' = failures + 1
        /\ UNCHANGED <<initVars, buffer, timerVars, healthVars, drains, rows, historyVars, crashes,
                       pruned>>
        /\ UNCHANGED <<snapshotSeq, compacting, counting, compactions, highCut>>
    BY <1>3 DEF RequestFails, storeVars, compactVars
  <2>2. /\ failures' \in 0..MaxFailures /\ failures <= failures'
        /\ snapshotSeq' \in 0..MaxSeq /\ highCut' \in 0..MaxSeq /\ highCut <= highCut'
        /\ counting' \in 0..MaxStrokes /\ counting' < nextId
        /\ compactions' \in [Compactors -> [awaits : {"nothing", "flag", "baseline", "tail", "set", "delete"},
                                            base : 0..MaxSeq, cut : 0..MaxSeq]]
    BY <1>1, <2>1 DEF CInv, CTypeOK, TypeOK, CountsAreDraws, MaxSeq
  <2>3. compacting' \in BOOLEAN
    BY <1>1, <2>1 DEF CInv, CTypeOK
  <2>4. TopSurvives' /\ CutsRecorded' /\ FlagHasCompaction'
    BY <1>1, <2>1 DEF CInv, TopSurvives, RowAbove, CutsRecorded, FlagHasCompaction, Running
  <2>5. CInv'
    BY <1>1, <2>1, <2>2, <2>3, <2>4, CompactionKeepsRest
  <2> QED BY <1>1, <2>1, <2>5 DEF BatchesDisjoint, Stored
<1>4. CASE HDraw \/ Underneath \/ HCrash
  BY <1>2, <1>4 DEF HDraw, Underneath, HCrash, CNext
<1>5. CASE \E q \in Requests : RequestStep(q)
  <2>1. PICK q \in Requests : RequestStep(q)
    BY <1>5
  <2>2. RequestFails(q) \/ UNCHANGED cvars
    BY <2>1 DEF RequestStep, Ask, LoadBaseline, LoadRows, HistoryLoaded
  <2> QED BY <1>2, <1>3, <2>2
<1>6. CASE UNCHANGED hvars
  BY <1>2, <1>6 DEF hvars
<1> QED BY <1>4, <1>5, <1>6 DEF HNext

\* Every step keeps the invariant.
LEMMA HNextKeepsInv == HInv /\ [HNext]_hvars => HInv'
<1> SUFFICES ASSUME HInv, [HNext]_hvars PROVE HInv'
  OBVIOUS
<1>1. /\ CInv' /\ BatchesDisjoint'
      /\ Stored \subseteq Stored' /\ pruned \subseteq pruned'
  BY HKeepsStrokes
<1>2. /\ sent \subseteq Stroke /\ requests \in [Requests -> Request]
      /\ \A q \in Requests : RequestInv(requests[q])
  BY HInvByRequest
<1>3. sent' \subseteq Stroke
  <2>1. accepted' \subseteq Stroke
    BY <1>1 DEF CInv, CTypeOK, TypeOK
  <2>2. UNCHANGED sent \/ sent' = sent \union accepted'
    BY DEF HNext, HDraw, Underneath, HCrash, RequestStep, Ask, LoadBaseline, LoadRows,
           HistoryLoaded, RequestFails, hvars
  <2> QED BY <1>2, <2>1, <2>2
<1>4. ASSUME NEW r, RequestInv(r) PROVE r \in Request /\ RequestInv(r)'
  BY <1>1, <1>4, RequestKept DEF RequestInv
<1>5. ASSUME NEW f, f \in [Requests -> {r \in Request : RequestInv(r)}], requests' = f
      PROVE  HInv'
  <2>1. \A q \in Requests : f[q] \in Request /\ RequestInv(f[q])'
    BY <1>4, <1>5
  <2>2. (\A q \in Requests : RequestInv(requests[q]))'
    BY <1>5, <2>1
  <2>3. requests' \in [Requests -> Request]
    BY <1>5, <2>1
  <2> QED BY <1>1, <1>3, <2>2, <2>3, HInvByRequest
<1>6. requests \in [Requests -> {r \in Request : RequestInv(r)}]
  BY <1>2
<1>7. ASSUME NEW q \in Requests, NEW r, RequestInv(r), requests' = [requests EXCEPT ![q] = r]
      PROVE  HInv'
  <2>1. r \in Request
    BY <1>7 DEF RequestInv
  <2>2. [requests EXCEPT ![q] = r] \in [Requests -> {s \in Request : RequestInv(s)}]
    BY <1>6, <1>7, <2>1
  <2>3. PICK f : f = [requests EXCEPT ![q] = r]
    OBVIOUS
  <2> QED BY <1>5, <1>7, <2>2, <2>3
<1>8. CASE UNCHANGED requests
  <2>1. PICK f : f = requests
    OBVIOUS
  <2> QED BY <1>5, <1>6, <1>8, <2>1
<1>9. CASE \E q \in Requests : RequestStep(q)
  <2>1. PICK q \in Requests : RequestStep(q)
    BY <1>9
  <2>2. CASE \E since \in {0} \union {s.seq : s \in sent} : Ask(q, "join", since) \/ Ask(q, "resync", since)
    BY <1>7, <2>2, AskKeepsRequest
  <2>3. CASE LoadBaseline(q) \/ LoadRows(q) \/ HistoryLoaded(q)
    BY <1>7, <2>3, BaselineKeepsRequest, RowsKeepRequest, AnswerKeepsRequest
  <2>4. CASE RequestFails(q)
    <3>1. PICK old : old = requests[q]
      OBVIOUS
    <3>2. requests' = [requests EXCEPT ![q] =
                         [old EXCEPT !.awaits = "nothing", !.outcome = "error", !.history = NoHistory]]
      BY <2>4, <3>1 DEF RequestFails
    <3>3. RequestInv(old)
      BY <1>2, <3>1
    <3> QED BY <1>7, <3>2, <3>3, GivenUpKeepsRequest
  <2> QED BY <2>1, <2>2, <2>3, <2>4 DEF RequestStep
<1>10. CASE HCrash
  <2> DEFINE g == [q \in Requests |->
                    IF requests[q].awaits \in {"message", "nothing"} THEN requests[q]
                    ELSE [requests[q] EXCEPT !.awaits = "nothing", !.outcome = "error",
                                             !.history = NoHistory]]
  <2>1. requests' = g
    BY <1>10 DEF HCrash
  <2>2. \A q \in Requests :
          RequestInv([requests[q] EXCEPT !.awaits = "nothing", !.outcome = "error",
                                         !.history = NoHistory])
    BY <1>2, GivenUpKeepsRequest
  <2>3. \A q \in Requests : RequestInv(g[q]) /\ g[q] \in Request
    <3>1. \A r : RequestInv(r) => r \in Request
      BY DEF RequestInv
    <3> QED BY <1>2, <2>2, <3>1
  <2>4. g \in [Requests -> {r \in Request : RequestInv(r)}]
    BY <2>3
  <2>5. PICK f : f = g
    OBVIOUS
  <2> QED BY <1>5, <2>1, <2>4, <2>5
<1> QED BY <1>8, <1>9, <1>10 DEF HNext, HDraw, Underneath, hvars

\* Nothing is asked, and nothing buffered, when the process starts.
LEMMA HInitInv == HInit => HInv
<1> SUFFICES ASSUME HInit PROVE HInv
  OBVIOUS
<1>1. CInv /\ buffer = <<>> /\ drains = {}
  BY CInitInv DEF HInit, CInit, Init
<1>2. BatchesDisjoint
  BY <1>1, RangeEmpty DEF BatchesDisjoint
<1>3. RequestInv(Unsent)
  <2>1. NoHistory \in History
    BY DEF NoHistory, History, MaxSeq
  <2>2. Unsent \in Request
    BY <2>1 DEF Unsent, Request, MaxSeq
  <2> QED BY <2>2 DEF RequestInv, Unsent
<1>4. requests \in [Requests -> Request] /\ \A q \in Requests : RequestInv(requests[q])
  BY <1>3 DEF HInit, RequestInv
<1> QED BY <1>1, <1>2, <1>4, HInvByRequest DEF HInit

\* The inductive invariant holds in every reachable state.
THEOREM HistoryInvariance == HSpec => []HInv
BY HInitInv, HNextKeepsInv, PTL DEF HSpec

\* The types of the state of the requests.
THEOREM HistoryTypes == HSpec => []HTypeOK
<1>1. HInv => HTypeOK
  BY DEF HInv
<1> QED BY <1>1, HistoryInvariance, PTL

\* Every history that loadForJoin returns is in strictly ascending order, each number once.
THEOREM HistoriesAscend == HSpec => []HistoryAscending
<1>1. HInv => HistoryAscending
  BY DEF HInv, LoadsComplete, HistoryAscending
<1> QED BY <1>1, HistoryInvariance, PTL

\* No interleaving of the queries of a load with draws, flushes, compactions, failures and
\* crashes skips a stroke that was durable when the client asked.
THEOREM DurableIsServed == HSpec => []DurableServed
<1>1. HInv => DurableServed
  BY DEF HInv, LoadsComplete, DurableServed
<1> QED BY <1>1, HistoryInvariance, PTL

=============================================================================
