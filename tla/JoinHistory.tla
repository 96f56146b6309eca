----------------------------- MODULE JoinHistory -----------------------------
(***************************************************************************)
(* What the join-room and request-resync handlers (server/src/handlers)    *)
(* send of a board's history: loadForJoin of services/strokeService.ts on  *)
(* top of the write path and of compaction, with draws, flushes and        *)
(* compactions between its queries.                                        *)
(*                                                                         *)
(* Abstractions: a request is served once and remembers its reply; the     *)
(* presence half of join-room, which changes no stroke, is left out; a     *)
(* reported sequence number is 0 when it is missing or not a positive      *)
(* integer.                                                                *)
(***************************************************************************)
EXTENDS Compaction, SequencesExt

CONSTANT Requests   \* bound: the join-room and request-resync messages

VARIABLES
  requests,   \* the handlers' progress and local variables
  sent        \* history: the strokes ever broadcast to the clients

hvars == <<cvars, requests, sent>>

History == [base : 0..MaxSeq, from : 0..MaxSeq, strokes : Seq(Stroke)]
NoHistory == [base |-> 0, from |-> 0, strokes |-> <<>>]

Request == [handler : {"join", "resync"},
            awaits  : {"message", "baseline", "tail", "answer", "nothing"},
            outcome : {"pending", "full", "delta", "error"},
            since   : 0..MaxSeq,      \* the sequence number the client reports
            arg     : 0..MaxSeq,      \* sinceSeq of the loadForJoin under way, 0 if undefined
            history : History,        \* what the load under way, or the reply, holds
            owed    : SUBSET Stroke,  \* durable when the message came
            drawn   : SUBSET Stroke]  \* accepted when the message came

Unsent == [handler |-> "join", awaits |-> "message", outcome |-> "pending", since |-> 0,
           arg |-> 0, history |-> NoHistory, owed |-> {}, drawn |-> {}]

HTypeOK ==
  /\ CTypeOK
  /\ requests \in [Requests -> Request]
  /\ sent \subseteq Stroke

HInit ==
  /\ CInit
  /\ requests = [q \in Requests |-> Unsent]
  /\ sent = {}

-----------------------------------------------------------------------------
(* loadForJoin *)

\* Never below the baseline, and only past what the client has.
From_Inclusive(since, base) == IF since > base THEN since ELSE base + 1
From(since, base) == IF since > base THEN since ELSE base

\* The elements of S from the lowest to the highest number, as ORDER BY and sort leave them.
Sorted(S, number) ==
  CHOOSE order \in Bijection(1..Cardinality(S), S) :
     \A i, j \in 1..Cardinality(S) : i < j => number[order[i]] <= number[order[j]]

\* mergeBufferedStrokes: the rows read, and what is still buffered above them;
\* with nothing to add the rows are returned as they are.
Fresh_NotDeduplicated(read, from) == {i \in DOMAIN buffer : buffer[i].seq > from}
Fresh(read, from) ==
  {i \in DOMAIN buffer : buffer[i].seq > from /\ \A r \in Range(read) : r.seq # buffer[i].seq}

Merged(read, from) ==
  LET all   == read \o buffer
      kept  == DOMAIN read \union {Len(read) + i : i \in Fresh(read, from)}
      order == Sorted(kept, [i \in kept |-> all[i].seq])
  IN  IF Fresh(read, from) = {} THEN read ELSE [i \in DOMAIN order |-> all[order[i]]]

\* getSnapshotSeq is answered.
LoadBaseline(q) ==
  /\ requests[q].awaits = "baseline" /\ Resumed
  /\ requests' = [requests EXCEPT
        ![q].awaits = "tail",
        ![q].history = [base |-> snapshotSeq, from |-> From(requests[q].arg, snapshotSeq),
                        strokes |-> <<>>]]
  /\ UNCHANGED <<cvars, sent>>

\* The store executes loadSince; its answer is on the way.
LoadRows(q) ==
  /\ requests[q].awaits = "tail" /\ Resumed
  /\ requests' = [requests EXCEPT
        ![q].awaits = "answer",
        ![q].history.strokes =
            Sorted(LoadSince(requests[q].history.from), [s \in rows |-> s.seq])]
  /\ UNCHANGED <<cvars, sent>>

-----------------------------------------------------------------------------
(* The handlers *)

\* A client joins, or asks for a resync, with a number it has seen: its history
\* is loaded from there, and for a resync the whole baseline is probed first.
Ask(q, handler, since) ==
  /\ requests[q] = Unsent /\ Resumed
  /\ requests' = [requests EXCEPT ![q] =
        [Unsent EXCEPT !.handler = handler, !.awaits = "baseline", !.since = since,
                       !.arg = IF handler = "join" THEN since ELSE 0,
                       !.owed = rows, !.drawn = accepted]]
  /\ UNCHANGED <<cvars, sent>>

\* serverHighestSeq, as the resync handler derives it from its probe.
ServerHighest(history) ==
  IF history.strokes # <<>> THEN Last(history.strokes).seq ELSE history.base

\* The resync handler reloads the client unless it only missed a recent tail.
ReloadFromBaseline(since, history) ==
  \/ since = 0
  \/ since < history.base
  \/ since > ServerHighest(history)

\* loadSince is answered: the rows are merged with what is buffered by now.  A join
\* is replied to; a resync is, or goes on to load the delta.
HistoryLoaded(q) ==
  LET request == requests[q]
      loaded  == [request.history EXCEPT !.strokes = Merged(@, request.history.from)]
      probe   == request.handler = "resync" /\ request.arg = 0
      reload  == ReloadFromBaseline(request.since, loaded)
  IN
  /\ request.awaits = "answer" /\ Resumed
  /\ \/ /\ probe => reload
        /\ requests' = [requests EXCEPT
              ![q].awaits = "nothing", ![q].history = loaded,
              ![q].outcome = IF request.arg = 0 THEN "full" ELSE "delta"]
     \/ /\ probe /\ ~reload
        /\ requests' = [requests EXCEPT
              ![q].awaits = "baseline", ![q].history = NoHistory, ![q].arg = request.since]
  /\ UNCHANGED <<cvars, sent>>

\* A query fails: the client is told to retry.
RequestFails(q) ==
  /\ requests[q].awaits \in {"baseline", "tail"} /\ Resumed
  /\ failures < MaxFailures
  /\ failures' = failures + 1
  /\ requests' = [requests EXCEPT ![q].awaits = "nothing", ![q].outcome = "error",
                                  ![q].history = NoHistory]
  /\ UNCHANGED <<initVars, buffer, timerVars, healthVars, drains, storeVars, historyVars,
                 crashes, compactVars, sent>>

\* Connections, and the requests on them, do not survive the process.
HCrash ==
  /\ CCrash
  /\ requests' = [q \in Requests |->
        IF requests[q].awaits \in {"message", "nothing"} THEN requests[q]
        ELSE [requests[q] EXCEPT !.awaits = "nothing", !.outcome = "error",
                                 !.history = NoHistory]]
  /\ UNCHANGED sent

-----------------------------------------------------------------------------

HDraw ==
  /\ Draw
  /\ sent' = sent \union accepted'
  /\ UNCHANGED requests

Underneath ==
  /\ \/ WritePath
     \/ CountWithinCap
     \/ CountFails
     \/ \E c \in Compactors : CompactionStep(c)
     \/ CIdle
  /\ UNCHANGED <<requests, sent>>

RequestStep(q) ==
  \/ \E since \in {0} \union {s.seq : s \in sent} :
        Ask(q, "join", since) \/ Ask(q, "resync", since)
  \/ LoadBaseline(q)
  \/ LoadRows(q)
  \/ HistoryLoaded(q)
  \/ RequestFails(q)

HNext ==
  \/ HDraw
  \/ Underneath
  \/ \E q \in Requests : RequestStep(q)
  \/ HCrash

HSpec == HInit /\ [][HNext]_hvars

-----------------------------------------------------------------------------
(* Correctness *)

Served(q) == requests[q].outcome \in {"full", "delta"}
Delivered(q) == Range(requests[q].history.strokes)

Ascending(strokes) == \A i, j \in DOMAIN strokes : i < j => strokes[i].seq < strokes[j].seq

\* A history is in strictly ascending order, each number once, although the buffer
\* need not be ordered and may hold strokes whose INSERT was committed and
\* reported as failed (Requirements 3.4 and 3.5 of the handlers).
HistoryAscending ==
  \A q \in Requests : Served(q) => Ascending(requests[q].history.strokes)

\* Nothing a request is owed is skipped by what it holds.
Accounted(q) ==
  \A s \in requests[q].owed :
     \/ s \in Delivered(q)
     \/ s.seq <= requests[q].history.base
     \/ s.seq <= requests[q].arg
     \/ s \in pruned

\* What was durable when the client asked is delivered, or is represented by the
\* baseline, or was applied by the client, or was pruned by a compaction: no
\* interleaving of the queries of a load, or of a probe and the delta after it,
\* skips a durable stroke.
DurableServed == \A q \in Requests : Served(q) => Accounted(q)

-----------------------------------------------------------------------------
(* The inductive invariant *)

\* A request that is not over has no outcome, and loads from where its number and its
\* baseline tell.
RequestsInPhase ==
  \A q \in Requests :
     /\ requests[q].outcome = "pending" <=> requests[q].awaits # "nothing"
     /\ requests[q].awaits = "tail" =>
          requests[q].history.from = From(requests[q].arg, requests[q].history.base)

\* What is durable stays stored until it is pruned.
OwedIsStored == \A q \in Requests : requests[q].owed \subseteq Stored

\* What the store has answered already has all that the reply must have.
LoadsComplete ==
  \A q \in Requests : requests[q].awaits = "answer" \/ Served(q) =>
     Ascending(requests[q].history.strokes) /\ Accounted(q)

\* A buffered stroke is merged once because it is buffered once.
HInv ==
  CInv /\ HTypeOK /\ BatchesDisjoint /\ RequestsInPhase /\ OwedIsStored /\ LoadsComplete

(***************************************************************************)
(* Statements of comments in the code that do not hold.                    *)
(***************************************************************************)

\* loadForJoin: "Unflushed strokes still in the write buffer are merged in ... so
\* a just-drawn stroke is visible to a joiner before it has been persisted" (lines
\* 289-291).  A batch being written is neither in the buffer nor in the store.
DrawnServed ==
  \A q \in Requests : Served(q) =>
     \A s \in requests[q].drawn :
        s.seq > requests[q].history.from => s \in Delivered(q) \/ s \in pruned

\* resync.ts, Requirement 3.8 (lines 41-42): the reported number is discarded if it
\* is "greater than the server's highest seq".  A client that has every stroke is
\* reloaded when the last of them is being written.
ReloadedOnlyAhead ==
  [][\A q \in Requests :
        /\ requests[q].handler = "resync" /\ requests[q].since > 0
        /\ requests[q].outcome = "pending" /\ requests'[q].outcome = "full"
        => \/ requests[q].since < requests'[q].history.base
           \/ requests[q].since >= nextSeq]_hvars

\* maybeCompact records the baseline first, so that joiners "never see a half-pruned
\* prefix" (lines 380-381).  A joiner that read the baseline before sees one.
NoHalfPrunedPrefix ==
  \A q \in Requests : Served(q) =>
     \A s \in pruned, t \in Delivered(q) :
        s.seq > requests[q].history.from /\ t.seq <= highCut => s \in Delivered(q)

=============================================================================
