----------------------------- MODULE Compaction -----------------------------
(***************************************************************************)
(* maybeCompact of server/src/services/strokeService.ts on top of the      *)
(* write path: the draw handler calls it after every accepted draw, and    *)
(* each call goes through the queries count, getSnapshotSeq, loadSince,    *)
(* setSnapshot and the DELETE statements of deleteThrough, with draws,     *)
(* flushes and other compactions between any two of them.                  *)
(*                                                                         *)
(* Abstractions: calls that await their count are alike and are only       *)
(* counted; those above the cap run in the slots of Compactors.            *)
(***************************************************************************)
EXTENDS StrokeService, FiniteSets

CONSTANTS
  StrokeCap,        \* retained strokes that trigger a compaction
  DeleteBatchSize,  \* rows removed by one DELETE statement
  Compactors        \* bound: slots for the calls with a count above the cap

ASSUME CapAssumption == StrokeCap \in Nat \ {0}
ASSUME DeleteBatchAssumption == DeleteBatchSize \in Nat \ {0}

VARIABLES
  compacting,   \* BoardState.compacting
  counting,     \* maybeCompact calls awaiting their count
  compactions,  \* the calls with a count above the cap: what each awaits, and its locals
  \* history
  highCut,      \* the highest baseline the store ever had
  pruned        \* the strokes deleted from the store

compactVars == <<compacting, counting, compactions, highCut, pruned>>
cvars == <<vars, compactVars>>

NoCompaction == [awaits |-> "nothing", base |-> 0, cut |-> 0]
Running == {c \in Compactors : compactions[c].awaits \notin {"nothing", "flag"}}

CTypeOK ==
  /\ TypeOK
  /\ compacting \in BOOLEAN
  /\ counting \in 0..MaxStrokes
  /\ compactions \in [Compactors -> [awaits : {"nothing", "flag", "baseline", "tail", "set", "delete"},
                                     base : 0..MaxSeq, cut : 0..MaxSeq]]
  /\ highCut \in 0..MaxSeq
  /\ pruned \subseteq Stroke

CInit ==
  /\ Init
  /\ compacting = FALSE
  /\ counting = 0
  /\ compactions = [c \in Compactors |-> NoCompaction]
  /\ highCut = snapshotSeq
  /\ pruned = {}

-----------------------------------------------------------------------------
(* The draw handler *)

\* append, then maybeCompact, which returns at once while the flag is set.
Draw ==
  /\ AppendStroke \/ ResumeAppend
  /\ \/ compacting /\ UNCHANGED counting
     \/ ~compacting /\ counting' = counting + 1
  /\ UNCHANGED <<compacting, compactions, highCut, pruned>>

-----------------------------------------------------------------------------
(* maybeCompact *)

\* The count is within the cap.
CountWithinCap ==
  /\ counting > 0 /\ Resumed
  /\ Cardinality(rows) <= StrokeCap
  /\ counting' = counting - 1
  /\ UNCHANGED <<vars, compacting, compactions, highCut, pruned>>

\* The store counts more strokes than the cap; its answer is on the way.
CountAboveCap(c) ==
  /\ counting > 0 /\ Resumed
  /\ Cardinality(rows) > StrokeCap
  /\ counting' = counting - 1
  /\ compactions[c].awaits = "nothing"
  /\ compactions' = [compactions EXCEPT ![c].awaits = "flag"]
  /\ UNCHANGED <<vars, compacting, highCut, pruned>>

\* The flag, tested before the count, is set once it is answered.
SetFlag(c) ==
  /\ compactions[c].awaits = "flag" /\ Resumed
  /\ compacting' = TRUE
  /\ compactions' = [compactions EXCEPT ![c].awaits = "baseline"]
  /\ UNCHANGED <<vars, counting, highCut, pruned>>

\* The count fails, outside the try: the call is rejected, the flag untouched.
CountFails ==
  /\ counting > 0 /\ Resumed
  /\ failures < MaxFailures
  /\ failures' = failures + 1
  /\ counting' = counting - 1
  /\ UNCHANGED <<initVars, buffer, timerVars, healthVars, drains, storeVars, historyVars,
                 crashes, compacting, compactions, highCut, pruned>>

ReadBaseline(c) ==
  /\ compactions[c].awaits = "baseline" /\ Resumed
  /\ compactions' = [compactions EXCEPT ![c].awaits = "tail", ![c].base = snapshotSeq]
  /\ UNCHANGED <<vars, compacting, counting, highCut, pruned>>

\* The strokes a compaction leaves live: half the cap, and at least one.
KeepTail_MaybeNone == StrokeCap \div 2
KeepTail == IF StrokeCap \div 2 > 1 THEN StrokeCap \div 2 ELSE 1

\* The last stroke of the tail that has KeepTail strokes after it; the baseline
\* if there is none.
IsCut(cut, base) ==
  LET tail == LoadSince(base)
      after(seq) == Cardinality({s \in tail : s.seq > seq})
  IN  \/ Cardinality(tail) <= KeepTail /\ cut = base
      \/ \E s \in tail : cut = s.seq /\ after(cut) = KeepTail

LoadTail(c) ==
  LET base == compactions[c].base IN
  /\ compactions[c].awaits = "tail" /\ Resumed
  /\ \E cut \in {base} \union {s.seq : s \in rows} :
        /\ IsCut(cut, base)
        /\ compactions' = [compactions EXCEPT
              ![c].awaits = IF cut > base THEN "set" ELSE "delete",
              ![c].cut = cut]
  /\ UNCHANGED <<vars, compacting, counting, highCut, pruned>>

\* The store's side of setSnapshot: the baseline is overwritten, whatever it is.
StoreBaseline(cut) ==
  /\ snapshotSeq' = cut
  /\ highCut' = IF cut > highCut THEN cut ELSE highCut

SetSnapshot(c) ==
  /\ compactions[c].awaits = "set" /\ Resumed
  /\ StoreBaseline(compactions[c].cut)
  /\ compactions' = [compactions EXCEPT ![c].awaits = "delete"]
  /\ UNCHANGED <<initVars, buffer, timerVars, healthVars, drains, rows, historyVars,
                 boundVars, compacting, counting, pruned>>

\* The rows the DELETE statements of a compaction select from.
Prunable_OneMore(cut) == {s \in rows : s.seq <= cut + 1}
Prunable(cut) == {s \in rows : s.seq <= cut}

Finished(c) == compactions' = [compactions EXCEPT ![c] = NoCompaction]

\* One DELETE: a full batch calls for another, a smaller one ends the compaction.
DeleteBatch(c) ==
  LET prunable == Prunable(compactions[c].cut) IN
  /\ compactions[c].awaits = "delete" /\ Resumed
  /\ \E batch \in SUBSET prunable :
        /\ rows' = rows \ batch
        /\ pruned' = pruned \union batch
        /\ \/ /\ Cardinality(batch) = DeleteBatchSize
              /\ UNCHANGED <<compacting, compactions>>
           \/ /\ batch = prunable
              /\ Cardinality(batch) < DeleteBatchSize
              /\ compacting' = FALSE
              /\ Finished(c)
  /\ UNCHANGED <<initVars, buffer, timerVars, healthVars, drains, snapshotSeq, historyVars,
                 boundVars, counting, highCut>>

\* What a failed compaction leaves in the flag.
FlagAfterFailure_Kept == compacting
FlagAfterFailure == FALSE

\* A query past the count fails: the compaction is given up.  A setSnapshot
\* reported as failed may have been committed.
CompactionFails(c) ==
  /\ c \in Running /\ Resumed
  /\ failures < MaxFailures
  /\ failures' = failures + 1
  /\ compacting' = FlagAfterFailure
  /\ Finished(c)
  /\ \/ UNCHANGED <<snapshotSeq, highCut>>
     \/ compactions[c].awaits = "set" /\ StoreBaseline(compactions[c].cut)
  /\ UNCHANGED <<initVars, buffer, timerVars, healthVars, drains, rows, historyVars,
                 crashes, counting, pruned>>

-----------------------------------------------------------------------------

CCrash ==
  /\ Crash
  /\ compacting' = FALSE
  /\ counting' = 0
  /\ compactions' = [c \in Compactors |-> NoCompaction]
  /\ UNCHANGED <<highCut, pruned>>

\* The rest of the write path does not know of compactions.
WritePath ==
  /\ AwaitInit \/ InitDone \/ InitFails \/ TimerFires \/ RetryFires \/ StoreAnswers
  /\ UNCHANGED compactVars

CIdle ==
  /\ Idle
  /\ counting = 0 /\ \A c \in Compactors : compactions[c] = NoCompaction
  /\ UNCHANGED compactVars

CompactionStep(c) ==
  \/ CountAboveCap(c)
  \/ SetFlag(c)
  \/ ReadBaseline(c)
  \/ LoadTail(c)
  \/ SetSnapshot(c)
  \/ DeleteBatch(c)
  \/ CompactionFails(c)

CNext ==
  \/ WritePath
  \/ Draw
  \/ CountWithinCap
  \/ CountFails
  \/ \E c \in Compactors : CompactionStep(c)
  \/ CCrash
  \/ CIdle

CSpec == CInit /\ [][CNext]_cvars

-----------------------------------------------------------------------------
(* The inductive invariant *)

\* What was ever in the store.
Stored == rows \union pruned

\* NumberedBelowNext and TouchedIsStored of the write path, of all that was ever stored.
StoredBelowNext ==
  /\ nextId + waiting <= MaxStrokes + 1
  /\ nextSeq <= MaxBaseline + nextId + 1
  /\ initPhase = "ready" => snapshotSeq < nextSeq
  /\ \A s \in Stored \union accepted :
        /\ s.seq <= MaxBaseline + nextId
        /\ initPhase = "ready" => s.seq < nextSeq

TouchedWasStored ==
  \A d \in drains : d.query = "touch" => Range(d.batch) \subseteq Stored

\* A row is left above every baseline, and above every cut a compaction may delete up to.
RowAbove(seq) == seq = 0 \/ \E r \in rows : r.seq > seq

TopSurvives ==
  /\ RowAbove(snapshotSeq) /\ RowAbove(highCut)
  /\ \A c \in Compactors : RowAbove(compactions[c].base) /\ RowAbove(compactions[c].cut)

\* A compaction deletes up to a cut that was, at some time, the baseline.
CutsRecorded ==
  /\ snapshotSeq <= highCut
  /\ \A c \in Compactors :
       /\ compactions[c].base <= highCut
       /\ compactions[c].awaits = "delete" => compactions[c].cut <= highCut

\* Every count that is awaited is that of a draw.
CountsAreDraws == counting < nextId

-----------------------------------------------------------------------------
(* Correctness *)

\* Compactions, however many run at once and wherever they fail, drop no accepted
\* stroke that was not part of a recorded baseline ("they are ... never pruned -
\* no accepted stroke is lost").
OnlyBaselinePruned ==
  /\ accepted \subseteq rows \union Range(buffer) \union InFlight \union pruned
  /\ \A s \in pruned : s.seq <= highCut

\* The newest durable stroke always survives, although compactions overlap and
\* the baseline may fall back: a restarted process never gives a stroke the
\* number of a stroke that was stored, pruned or not.
NumbersOutlivePruning ==
  \A s, t \in rows \union accepted \union pruned : s.seq = t.seq => s = t

\* The compacting flag never outlives the compactions, which would end
\* compaction on the board for good.
FlagHasCompaction == compacting => Running # {}

\* What the proof of these carries from step to step.
CInv ==
  /\ CTypeOK /\ EmptyUntilRestored /\ StoredBelowNext /\ HeldIsAccepted /\ TouchedWasStored
  /\ AttemptsAreFailures /\ TopSurvives /\ CutsRecorded /\ CountsAreDraws
  /\ OnlyBaselinePruned /\ NumbersOutlivePruning /\ FlagHasCompaction

\* The service with its compactions still implements the durable log: what a compaction
\* prunes was durable, and is never accepted again under another number.
StoredLog == INSTANCE DurableLog WITH
               LogStroke <- Stroke,
               pending   <- accepted \ Stored,
               durable   <- Stored

CompactionImplementsLog == StoredLog!LogSpec

(***************************************************************************)
(* Statements of comments in the code that do not hold.                    *)
(***************************************************************************)

\* "A per-board `compacting` guard ensures only one compaction runs at a time"
\* (line 330): the guard is tested before the count and set after it.
OneCompaction == Cardinality(Running) <= 1

\* "Unflushed buffered strokes ... are strictly greater than any computed cut
\* point" (lines 325-326): a batch that fails while a later one is stored is not.
BufferedAboveCut ==
  \A s \in Range(buffer), c \in Running :
     compactions[c].awaits \in {"set", "delete"} => s.seq > compactions[c].cut

\* "strokes with `seq > cutSeq` remain present" (line 342): what was pruned is at
\* or below the baseline a joiner is given, unless an older compaction has set
\* the baseline back.
PrunedBelowBaseline == \A s \in pruned : s.seq <= snapshotSeq

=============================================================================
