------------------------------- MODULE Cluster -------------------------------
(***************************************************************************)
(* Several processes serve one board over one database: each has a         *)
(* StrokeService of its own (server/src/services/strokeService.ts), with   *)
(* its own sequence counter and write buffer; the Redis adapter            *)
(* (socket/redisAdapter.ts) only carries the broadcasts from one to the    *)
(* members of the other.                                                   *)
(*                                                                         *)
(* No process crashes and no statement fails here: see StrokeService.      *)
(***************************************************************************)
EXTENDS Integers, Sequences, FiniteSets, FiniteSetsExt, SequencesExt

CONSTANTS
  Processes,
  MaxStrokes    \* bound: strokes appended

VARIABLES
  nextSeq,   \* of each process; 0 before it serves the board
  buffer,    \* the strokes each has not written yet
  rows,      \* the table: a set of strokes, whose numbers are its key
  shown      \* what the members connected to each process have been sent

cvars == <<nextSeq, buffer, rows, shown>>

ClusterInit ==
  /\ nextSeq = [p \in Processes |-> 0]
  /\ buffer = [p \in Processes |-> <<>>]
  /\ rows = {}
  /\ shown = [p \in Processes |-> {}]

Accepted == UNION {shown[p] : p \in Processes}
HighestSeq == Max({r.seq : r \in rows} \union {0})

\* The first event of the board at a process reads the highest number from the table.
EnsureInitialized(p) ==
  /\ nextSeq[p] = 0
  /\ nextSeq' = [nextSeq EXCEPT ![p] = HighestSeq + 1]
  /\ UNCHANGED <<buffer, rows, shown>>

\* A stroke is accepted, and broadcast to the members of every process.
AppendStroke(p) ==
  LET stroke == [seq |-> nextSeq[p], id |-> Cardinality(Accepted) + 1] IN
  /\ nextSeq[p] # 0 /\ Cardinality(Accepted) < MaxStrokes
  /\ nextSeq' = [nextSeq EXCEPT ![p] = @ + 1]
  /\ buffer' = [buffer EXCEPT ![p] = Append(@, stroke)]
  /\ shown' = [q \in Processes |-> shown[q] \union {stroke}]
  /\ UNCHANGED rows

\* INSERT ... ON CONFLICT DO NOTHING: a number that is taken is skipped.
Inserted(batch) == {s \in batch : \A r \in rows : r.seq # s.seq}

Flush(p) ==
  /\ buffer[p] # <<>>
  /\ rows' = rows \union Inserted(ToSet(buffer[p]))
  /\ buffer' = [buffer EXCEPT ![p] = <<>>]
  /\ UNCHANGED <<nextSeq, shown>>

ClusterNext ==
  \E p \in Processes : EnsureInitialized(p) \/ AppendStroke(p) \/ Flush(p)

ClusterSpec == ClusterInit /\ [][ClusterNext]_cvars

-----------------------------------------------------------------------------

\* A stroke that was accepted and shown to every member is in the log once no process
\* buffers it: any instance can serve any room, with no board state of its own
\* (gateway.ts, redisAdapter.ts; README: "you can run several instances behind a load
\* balancer and it just works").
ShownIsLogged ==
  \A s \in Accepted : s \in rows \/ \E p \in Processes : s \in ToSet(buffer[p])

=============================================================================
