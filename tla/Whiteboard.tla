----------------------------- MODULE Whiteboard -----------------------------
(***************************************************************************)
(* The clients of one board and the server process they are connected to:  *)
(* the high-water mark and the canvas that useCollaboration keeps in each  *)
(* browser (client/src/features/collaboration), against the handlers that  *)
(* number, broadcast and replay strokes (server/src/handlers).             *)
(*                                                                         *)
(* A connection is two FIFO queues, lost with it.  An action is the        *)
(* handling of one message, one answer of the store, or one deed of a user.*)
(*                                                                         *)
(* Abstractions: how a stroke gets from the buffer to the store, and a     *)
(* history from both, is JoinHistory's subject; here a load is one step    *)
(* that finds all that is stored and any part of the rest.  A draw is      *)
(* numbered and broadcast when it arrives: the restore of the counter that *)
(* the first one may await is StrokeService's subject.  A canvas is the    *)
(* set of strokes on it.  A stroke drawn, or a board cleared, without a    *)
(* connection is emitted before join-room on the next one, and dropped     *)
(* there because its socket is bound to no room.                           *)
(***************************************************************************)
EXTENDS Integers, Sequences, FiniteSets, SequencesExt

CONSTANTS
  Clients,
  MaxStrokes,  \* bound: strokes ever drawn
  MaxTrouble   \* bound: clears, lost connections, refused draws, failed loads,
               \* compactions and crashes of the server, together

ASSUME WhiteboardBoundsAssumption == MaxStrokes \in Nat /\ MaxTrouble \in Nat

VARIABLES
  \* the clients
  up,          \* the clients that are connected
  mark,        \* lastAppliedSeq of each ResyncController
  canvas,      \* the strokes of each SceneStore
  \* the connections
  toServer,
  toClient,
  \* the server
  room,        \* the sockets bound to the room
  loads,       \* the join-room and request-resync handlers under way
  nextSeq,
  buffered,    \* strokes accepted and not stored
  stored,
  base,        \* snapshot_seq
  \* history and bounds
  excused,     \* what a clear took off each canvas, or its histories could not hold
  behind,      \* the clients whose last load failed
  ahead,       \* the clients whose mark outlived the strokes of a crashed server
  nextId, trouble

clientVars == <<up, mark, canvas>>
linkVars   == <<toServer, toClient>>
boardVars  == <<nextSeq, buffered, stored, base>>
pastVars   == <<excused, behind, ahead>>
vars == <<clientVars, linkVars, room, loads, boardVars, pastVars, nextId, trouble>>

Ids    == 1..MaxStrokes
Seqs   == 0..MaxStrokes
Stroke == [seq : 1..MaxStrokes, id : Ids]
Load   == [handler : {"join", "resync"}, since : Seqs]

Request == [event : {"join-room", "request-resync"}, since : Seqs]
           \union [event : {"draw"}, id : Ids]
           \union [event : {"clear"}]
Event == [event : {"room-history", "draw", "clear"}, strokes : SUBSET Stroke]

TypeOK ==
  /\ up \subseteq Clients /\ room \subseteq up
  /\ mark \in [Clients -> Seqs]
  /\ canvas \in [Clients -> SUBSET Ids]
  /\ toServer \in [Clients -> Seq(Request)]
  /\ toClient \in [Clients -> Seq(Event)]
  /\ loads \in [Clients -> Seq(Load)]
  /\ nextSeq \in 1..MaxStrokes + 1
  /\ buffered \subseteq Stroke /\ stored \subseteq Stroke
  /\ base \in Seqs
  /\ excused \in [Clients -> SUBSET Ids]
  /\ behind \subseteq Clients /\ ahead \subseteq Clients
  /\ nextId \in 1..MaxStrokes + 1 /\ trouble \in 0..MaxTrouble

Nothing == [c \in Clients |-> {}]
Silence == [c \in Clients |-> <<>>]

Init ==
  /\ up = {} /\ room = {}
  /\ mark = [c \in Clients |-> 0] /\ canvas = Nothing
  /\ toServer = Silence /\ toClient = Silence /\ loads = Silence
  /\ nextSeq = 1 /\ buffered = {} /\ stored = {} /\ base = 0
  /\ excused = Nothing /\ behind = {} /\ ahead = {}
  /\ nextId = 1 /\ trouble = 0

Trouble == trouble < MaxTrouble /\ trouble' = trouble + 1

Board == stored \union buffered
IdsOf(strokes) == {s.id : s \in strokes}
Highest(strokes, floor) ==
  CHOOSE n \in {floor} \union {s.seq : s \in strokes} :
     \A s \in strokes : n >= floor /\ n >= s.seq

-----------------------------------------------------------------------------
(* The user and the connection of a client *)

Emit(c, request) ==
  toServer' = IF c \in up THEN [toServer EXCEPT ![c] = Append(@, request)] ELSE toServer

\* The client reports its mark when it (re)joins.
Connect(c) ==
  /\ c \notin up
  /\ up' = up \union {c}
  /\ toServer' = [toServer EXCEPT ![c] = <<[event |-> "join-room", since |-> mark[c]]>>]
  /\ UNCHANGED <<mark, canvas, toClient, room, loads, boardVars, pastVars, nextId, trouble>>

\* A segment is committed locally, and emitted; the server will not send it back.
DrawLocal(c) ==
  /\ nextId <= MaxStrokes
  /\ nextId' = nextId + 1
  /\ canvas' = [canvas EXCEPT ![c] = @ \union {nextId}]
  /\ Emit(c, [event |-> "draw", id |-> nextId])
  /\ UNCHANGED <<up, mark, toClient, room, loads, boardVars, pastVars, trouble>>

\* A canvas is cleared; the mark stays.
Clear(c) ==
  /\ canvas' = [canvas EXCEPT ![c] = {}]
  /\ excused' = [excused EXCEPT ![c] = @ \union canvas[c]]

HandleClear(c) ==
  /\ Trouble
  /\ Clear(c)
  /\ Emit(c, [event |-> "clear"])
  /\ UNCHANGED <<up, mark, toClient, room, loads, boardVars, behind, ahead, nextId>>

\* The messages of a connection and the replies of its handlers are lost with it.
Disconnect(c) ==
  /\ c \in up
  /\ Trouble
  /\ up' = up \ {c} /\ room' = room \ {c}
  /\ toServer' = [toServer EXCEPT ![c] = <<>>]
  /\ toClient' = [toClient EXCEPT ![c] = <<>>]
  /\ loads' = [loads EXCEPT ![c] = <<>>]
  /\ UNCHANGED <<mark, canvas, boardVars, pastVars, nextId>>

-----------------------------------------------------------------------------
(* The handlers of the server *)

Heard(c, event) ==
  /\ toServer[c] # <<>>
  /\ Head(toServer[c]).event = event
  /\ toServer' = [toServer EXCEPT ![c] = Tail(@)]

Broadcast(members, event) ==
  toClient' = [d \in Clients |-> IF d \in members THEN Append(toClient[d], event)
                                                  ELSE toClient[d]]

\* The socket is bound to the room before the history is loaded.
JoinRoom(c) ==
  /\ Heard(c, "join-room")
  /\ room' = room \union {c}
  /\ loads' = [loads EXCEPT ![c] =
        Append(@, [handler |-> "join", since |-> Head(toServer[c]).since])]
  /\ UNCHANGED <<clientVars, toClient, boardVars, pastVars, nextId, trouble>>

RequestResync(c) ==
  /\ Heard(c, "request-resync")
  /\ loads' = [loads EXCEPT ![c] =
        Append(@, [handler |-> "resync", since |-> Head(toServer[c]).since])]
  /\ UNCHANGED <<clientVars, toClient, room, boardVars, pastVars, nextId, trouble>>

Draw(c) ==
  /\ Heard(c, "draw")
  /\ LET stroke == [seq |-> nextSeq, id |-> Head(toServer[c]).id] IN
     /\ buffered' = buffered \union {stroke}
     /\ Broadcast(room \ {c}, [event |-> "draw", strokes |-> {stroke}])
  /\ nextSeq' = nextSeq + 1
  /\ UNCHANGED <<clientVars, room, loads, stored, base, pastVars, nextId, trouble>>

\* The rate limiter refuses a draw, or its append fails: nobody is told but its author.
DrawRefused(c) ==
  /\ Heard(c, "draw")
  /\ Trouble
  /\ UNCHANGED <<clientVars, toClient, room, loads, boardVars, pastVars, nextId>>

RelayClear(c) ==
  /\ Heard(c, "clear")
  /\ Broadcast(room \ {c}, [event |-> "clear", strokes |-> {}])
  /\ UNCHANGED <<clientVars, room, loads, boardVars, pastVars, nextId, trouble>>

\* Where a history starts: past what the client reports, never below the baseline; a
\* resync that reports more than there is, or less than the baseline, reloads.
From(load, found) ==
  IF (load.handler = "resync" /\ load.since > Highest(found, base)) \/ load.since < base
  THEN base ELSE load.since

\* loadForJoin finds what is stored and what is buffered, but for strokes being
\* written; strokes up to the baseline are not sent.
LoadForJoin(c, i) ==
  \E part \in SUBSET buffered :
     LET found == stored \union part
         from  == From(loads[c][i], found) IN
     /\ Broadcast({c}, [event |-> "room-history", strokes |-> {s \in found : s.seq > from}])
     /\ excused' = [excused EXCEPT ![c] = @ \union
           IdsOf({s \in Board : s \in buffered \ part \/ s.seq <= base})]
     /\ loads' = [loads EXCEPT ![c] = RemoveAt(@, i)]
     /\ behind' = behind \ {c}
     /\ UNCHANGED <<clientVars, toServer, room, boardVars, ahead, nextId, trouble>>

\* JOIN_FAILED, RESYNC_FAILED: a toast tells the user to retry.
LoadFails(c, i) ==
  /\ Trouble
  /\ loads' = [loads EXCEPT ![c] = RemoveAt(@, i)]
  /\ behind' = behind \union {c}
  /\ UNCHANGED <<clientVars, linkVars, room, boardVars, excused, ahead, nextId>>

-----------------------------------------------------------------------------
(* What a client does with an event *)

Received(c, event) ==
  /\ toClient[c] # <<>>
  /\ Head(toClient[c]).event = event
  /\ toClient' = [toClient EXCEPT ![c] = Tail(@)]

Paint(c, strokes) == canvas' = [canvas EXCEPT ![c] = @ \union IdsOf(strokes)]

\* adoptBatch
Adopted(last, strokes) == Highest(strokes, last)

OnHistory(c) ==
  /\ Received(c, "room-history")
  /\ Paint(c, Head(toClient[c]).strokes)
  /\ mark' = [mark EXCEPT ![c] = Adopted(@, Head(toClient[c]).strokes)]
  /\ UNCHANGED <<up, toServer, room, loads, boardVars, pastVars, nextId, trouble>>

\* decideStrokeAction
StrokeAction_Lenient(last, seq) == IF seq <= last THEN "ignore" ELSE "apply"
StrokeAction_Drops(last, seq) == IF seq = last + 1 THEN "apply" ELSE "ignore"
StrokeAction(last, seq) ==
  IF seq <= last THEN "ignore" ELSE IF seq = last + 1 THEN "apply" ELSE "resync"

Ingest(c) ==
  /\ Received(c, "draw")
  /\ \E s \in Head(toClient[c]).strokes :
        LET action == StrokeAction(mark[c], s.seq) IN
        \/ /\ action = "apply"
           /\ Paint(c, {s})
           /\ mark' = [mark EXCEPT ![c] = s.seq]
           /\ UNCHANGED toServer
        \/ /\ action = "ignore"
           /\ UNCHANGED <<canvas, mark, toServer>>
        \/ /\ action = "resync"
           /\ Emit(c, [event |-> "request-resync", since |-> mark[c]])
           /\ UNCHANGED <<canvas, mark>>
  /\ UNCHANGED <<up, room, loads, boardVars, pastVars, nextId, trouble>>

OnClear(c) ==
  /\ Received(c, "clear")
  /\ Clear(c)
  /\ UNCHANGED <<up, mark, toServer, room, loads, boardVars, behind, ahead, nextId,
                 trouble>>

-----------------------------------------------------------------------------
(* The store *)

Persist ==
  /\ \E s \in buffered :
        /\ buffered' = buffered \ {s}
        /\ stored' = stored \union {s}
  /\ UNCHANGED <<clientVars, linkVars, room, loads, nextSeq, base, pastVars, nextId, trouble>>

\* A compaction advances the baseline, short of the last stored stroke, and deletes
\* what it covers.
Compact ==
  /\ Trouble
  /\ \E cut, kept \in stored :
        /\ base < cut.seq /\ cut.seq < kept.seq
        /\ base' = cut.seq
        /\ stored' = {s \in stored : s.seq > cut.seq}
  /\ UNCHANGED <<clientVars, linkVars, room, loads, nextSeq, buffered, pastVars, nextId>>

\* The buffer is lost, numbers go on from what is stored, every connection drops.
Crash ==
  /\ Trouble
  /\ nextSeq' = Highest(stored, base) + 1
  /\ buffered' = {}
  /\ up' = {} /\ room' = {}
  /\ toServer' = Silence /\ toClient' = Silence /\ loads' = Silence
  /\ ahead' = ahead \union {c \in Clients : mark[c] >= nextSeq'}
  /\ UNCHANGED <<mark, canvas, stored, base, excused, behind, nextId>>

Quiet(c) == c \in room /\ toServer[c] = <<>> /\ toClient[c] = <<>> /\ loads[c] = <<>>

\* Nobody draws any more, and everything has arrived.
Idle ==
  /\ nextId > MaxStrokes /\ buffered = {}
  /\ \A c \in Clients : Quiet(c)
  /\ UNCHANGED vars

Step(c) ==
  \/ Connect(c) \/ DrawLocal(c) \/ HandleClear(c) \/ Disconnect(c)
  \/ JoinRoom(c) \/ RequestResync(c) \/ Draw(c) \/ DrawRefused(c) \/ RelayClear(c)
  \/ \E i \in DOMAIN loads[c] : LoadForJoin(c, i) \/ LoadFails(c, i)
  \/ OnHistory(c) \/ Ingest(c) \/ OnClear(c)

Next ==
  \/ \E c \in Clients : Step(c)
  \/ Persist \/ Compact \/ Crash \/ Idle

Spec == Init /\ [][Next]_vars

-----------------------------------------------------------------------------
(* Correctness *)

\* A stroke is on a client's canvas, or was, or is one that a history could not hold.
Covered(c, s) == s.id \in canvas[c] \union excused[c]

\* No stroke up to a client's mark was skipped, in whatever order broadcasts,
\* histories of joins and of concurrent resyncs, clears, reconnections and crashes
\* came: what the client will ignore from now on (strokeSync.ts, Requirement 4.6) it
\* has.  It can fail for a client whose mark outlived the strokes of a crash.
MarkCovered ==
  \A c \in Clients \ ahead : \A s \in Board : s.seq <= mark[c] => Covered(c, s)

\* A client in the room to which nothing is on its way has every stroke of the board,
\* its own, which it is never sent, included; unless its last load failed, which it
\* does not retry by itself.
Converged ==
  \A c \in Clients \ (ahead \union behind) :
     Quiet(c) => \A s \in Board : Covered(c, s)

-----------------------------------------------------------------------------
(* The inductive invariant *)

\* Every number ever given lies below the next one, but on clients ahead of a crash.
NumbersBelowNext ==
  /\ base < nextSeq
  /\ \A s \in Board : s.seq < nextSeq
  /\ \A s, t \in Board : s.seq = t.seq => s = t
  /\ \A c \in Clients \ ahead : mark[c] < nextSeq

\* A stroke is numbered at most once: the requests that wait for a number are about
\* different strokes, and numbers and requests together are no more than the strokes.
IsDraw(request) == request.event = "draw"
AskedOnce(queues) ==
  \A c, d \in Clients : \A i \in DOMAIN queues[c], j \in DOMAIN queues[d] :
     IsDraw(queues[c][i]) /\ queues[c][i] = queues[d][j] => c = d /\ i = j
Waiting(queues) ==
  {id \in Ids : \E c \in Clients : [event |-> "draw", id |-> id] \in Range(queues[c])}
EachAskedOnce ==
  /\ AskedOnce(toServer)
  /\ \A id \in Waiting(toServer) : id < nextId
  /\ nextSeq + Cardinality(Waiting(toServer)) <= nextId

\* A history is asked for from a mark of the client, and the author of a stroke on
\* its way has it; nothing comes from a client that is not connected.
IsAsk(request) == request.event \in {"join-room", "request-resync"}
RequestTrue(c, request) ==
  /\ IsAsk(request) => request.since <= mark[c]
  /\ IsDraw(request) => request.id \in canvas[c] \union excused[c]
RequestsTrue ==
  /\ \A c \in Clients : \A request \in Range(toServer[c]) : RequestTrue(c, request)
  /\ \A c \in Clients : \A load \in Range(loads[c]) : load.since <= mark[c]
  /\ \A c \in Clients \ up : toServer[c] = <<>>

\* An event tells no other stroke than the board has under its number, and a history
\* has no gap that its client could not cover.
EventTrue(c, event) ==
  /\ \A m \in event.strokes : m.seq < nextSeq /\ \A s \in Board : s.seq = m.seq => s = m
  /\ event.event = "draw" => \E m \in event.strokes : event.strokes = {m}
  /\ event.event = "clear" => event.strokes = {}
  /\ event.event = "room-history" =>
       \A m \in event.strokes, s \in Board :
          s.seq <= m.seq => s \in event.strokes \/ Covered(c, s) \/ s.seq <= mark[c]
EventsTrue == \A c \in Clients : \A event \in Range(toClient[c]) : EventTrue(c, event)

\* What a member lacks is on its way to it, or will be asked for.
Coming(c, s) ==
  \/ loads[c] # <<>>
  \/ \E r \in Range(toServer[c]) : IsAsk(r)
  \/ \E e \in Range(toClient[c]) : s \in e.strokes
StrokesComing ==
  \A c \in room \ (ahead \union behind) : \A s \in Board : Covered(c, s) \/ Coming(c, s)

\* Converged says that StrokesComing holds of what is no longer on its way.
WInv ==
  /\ TypeOK
  /\ NumbersBelowNext /\ EachAskedOnce /\ RequestsTrue /\ EventsTrue
  /\ MarkCovered /\ StrokesComing

(***************************************************************************)
(* Statements of comments in the code that do not hold.                    *)
(***************************************************************************)

\* resync.ts, Requirement 3.4: after a resync "no stroke is applied more than once"
\* (lines 34-35).  A client's own strokes are, for they never advance its mark, and so
\* is all that it has when a history starts from the baseline.
AppliedOnce ==
  [][\A c \in Clients :
       OnHistory(c) => IdsOf(Head(toClient[c]).strokes) \intersect canvas[c] = {}]_vars

=============================================================================
