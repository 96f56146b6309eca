------------------------------ MODULE Shutdown ------------------------------
(***************************************************************************)
(* gracefulShutdown of server/src/index.ts on top of the write path: the   *)
(* signal, server.close, flushAll, io.close, the release of the datastores *)
(* and the forced exit, while draws, timers and statements of the process  *)
(* go on.                                                                  *)
(*                                                                         *)
(* What the libraries do, as this code relies on it: server.close calls    *)
(* back when no connection is left (a websocket is one), and at once, with *)
(* an error the code ignores, when it is called again; pool.end waits for  *)
(* the statements that were sent and refuses later ones.                   *)
(*                                                                         *)
(* The 30 s budget is not measured: the forced exit may come at any time   *)
(* after the signal.  There is no other crash here.                        *)
(***************************************************************************)
EXTENDS StrokeService

CONSTANTS
  MaxClients,   \* bound: connections open at a time
  MaxSignals    \* bound: SIGTERM and SIGINT received

ASSUME ShutdownBounds == MaxClients \in Nat /\ MaxSignals \in Nat

VARIABLES
  phase,      \* what the process runs or awaits: see Phases
  closes,     \* calls of server.close
  clients,    \* connections of the HTTP server, websockets included
  awaited,    \* the batch flushAll awaits
  served,     \* the drains whose statement was sent before pool.end
  exitCode,
  \* history and bounds
  signals,
  failedBefore,   \* failed statements when flushAll was called
  waitedThen      \* appends that awaited the restore when flushAll was called

shutdownVars == <<phase, closes, awaited, served, exitCode, signals,
                  failedBefore, waitedThen>>
svars == <<vars, shutdownVars, clients>>

Phases == {"running", "closing", "flushing", "disconnecting", "releasing", "exited"}

STypeOK ==
  /\ TypeOK
  /\ phase \in Phases
  /\ closes \in 0..MaxSignals
  /\ clients \in 0..MaxClients
  /\ awaited \in Seq(Stroke)
  /\ served \subseteq Drain
  /\ exitCode \in {-1, 0, 1}
  /\ signals \in 0..MaxSignals
  /\ failedBefore \in 0..MaxFailures
  /\ waitedThen \in 0..MaxStrokes

SInit ==
  /\ Init
  /\ phase = "running" /\ closes = 0 /\ clients = 0
  /\ awaited = <<>> /\ served = {} /\ exitCode = -1
  /\ signals = 0 /\ failedBefore = 0 /\ waitedThen = 0

Alive == phase # "exited"

-----------------------------------------------------------------------------
(* The process at work *)

\* The listener takes connections until it is closed.
Connect ==
  /\ phase = "running" /\ clients < MaxClients
  /\ clients' = clients + 1
  /\ UNCHANGED <<vars, shutdownVars>>

Leave ==
  /\ Alive /\ clients > 0
  /\ clients' = clients - 1
  /\ UNCHANGED <<vars, shutdownVars>>

\* A member draws; the append may outlive its connection.
MemberDraws ==
  /\ Alive /\ clients > 0
  /\ AwaitInit \/ AppendStroke
  /\ UNCHANGED <<shutdownVars, clients>>

\* Timers, and continuations of the restore.
Background ==
  /\ Alive
  /\ InitDone \/ InitFails \/ ResumeAppend \/ TimerFires \/ RetryFires
  /\ UNCHANGED <<shutdownVars, clients>>

\* A statement of a drain is answered; after pool.end only those sent before are,
\* any other is refused.  flushAll goes on once its own drain has settled.
Answered(d) ==
  /\ Alive
  /\ \/ phase = "releasing" => d \in served
     \/ DrainFails(d) /\ rows' = rows
  /\ InsertDone(d) \/ TouchDone(d) \/ DrainFails(d)
  /\ phase' = IF phase = "flushing" /\ d.batch = awaited /\ \A e \in drains' : e.batch # awaited
              THEN "disconnecting" ELSE phase
  /\ UNCHANGED <<closes, awaited, served, exitCode, signals, failedBefore,
                 waitedThen, clients>>

-----------------------------------------------------------------------------
(* gracefulShutdown *)

ShuttingDown_Forgotten == phase = "exited"
ShuttingDown == phase # "running"

\* SIGTERM or SIGINT.  A second one changes nothing.
Signal ==
  /\ Alive /\ signals < MaxSignals
  /\ signals' = signals + 1
  /\ IF ShuttingDown
     THEN UNCHANGED <<phase, closes>>
     ELSE /\ phase' = IF phase = "running" THEN "closing" ELSE phase
          /\ closes' = closes + 1
  /\ UNCHANGED <<vars, clients, awaited, served, exitCode, failedBefore, waitedThen>>

\* server.close calls back: flushAll flushes the board, and awaits its drain if it
\* has one.
FlushAll_OnlyAwaits(buf) == UNCHANGED <<buffer, timerVars, healthVars, drains>>
FlushAll(buf) == Flush(buf)

ServerClosed ==
  /\ phase = "closing" /\ Resumed
  /\ clients = 0 \/ closes > 1
  /\ FlushAll(buffer)
  /\ awaited' = buffer
  /\ phase' = IF \E d \in drains' : d.batch = buffer THEN "flushing" ELSE "disconnecting"
  /\ failedBefore' = failures /\ waitedThen' = waiting
  /\ UNCHANGED <<initVars, storeVars, historyVars, boundVars, closes, clients,
                 served, exitCode, signals>>

\* io.close has disconnected the sockets that are left; the pool and the Redis
\* clients are closed.
IoClosed ==
  /\ phase = "disconnecting" /\ Resumed
  /\ phase' = "releasing"
  /\ clients' = 0
  /\ served' = drains
  /\ UNCHANGED <<vars, closes, awaited, exitCode, signals, failedBefore, waitedThen>>

Exit(code) ==
  /\ phase' = "exited" /\ exitCode' = code /\ clients' = 0
  /\ UNCHANGED <<vars, closes, awaited, served, signals, failedBefore, waitedThen>>

\* io.close threw.
ShutdownFails == phase = "disconnecting" /\ Exit(1)

\* pool.end has seen every statement it waits for answered.
PoolEnded == drains \intersect served = {}
Released == phase = "releasing" /\ Resumed /\ PoolEnded /\ Exit(0)

\* The budget is over.
ForceArmed_UntilFlushed == phase \in {"closing", "flushing"}
ForceArmed == ShuttingDown /\ Alive
ForceExit == ForceArmed /\ Exit(1)

Exited == phase = "exited" /\ UNCHANGED svars

SNext ==
  \/ Connect \/ Leave \/ MemberDraws \/ Background
  \/ \E d \in drains : Answered(d)
  \/ Signal \/ ServerClosed \/ IoClosed
  \/ ShutdownFails \/ Released \/ ForceExit
  \/ Exited
  \/ phase = "running" /\ Idle /\ UNCHANGED svars

\* A scheduled timer fires.  Nothing is assumed of the clients and the datastores.
SSpec == SInit /\ [][SNext]_svars /\ WF_svars(ForceExit)

-----------------------------------------------------------------------------
(* The inductive invariant *)

\* The phases after flushAll was called, short of the exit.
Flushed == {"flushing", "disconnecting", "releasing"}

\* The first signal closed the server, no later one did, and flushAll was not called
\* before the last connection had gone.
ClosedOnce ==
  /\ closes = IF phase = "running" THEN 0 ELSE 1
  /\ closes <= signals
  /\ phase \in Flushed => clients = 0
  /\ Alive => exitCode = -1

\* What flushAll noted bounds what came of it: statements fail later, and the appends
\* that await the restore become fewer.
NotedByFlush ==
  /\ failedBefore <= failures
  /\ phase \in Flushed => waiting <= waitedThen

\* If none failed and none was waiting, the buffer stays empty after flushAll, and once
\* the pool is ending a drain whose INSERT is not stored was sent before.
NothingHeldBack ==
  phase \in Flushed /\ failures = failedBefore /\ waitedThen = 0 =>
    /\ buffer = <<>>
    /\ phase = "releasing" => \A d \in drains : d \in served \/ d.query = "touch"

-----------------------------------------------------------------------------
(* Correctness *)

\* A process that ends with code 0 leaves no accepted stroke behind, whatever was
\* buffered or in flight when the signal came, unless a statement failed after
\* flushAll had been called or an append was still awaiting the restore then
\* (flushAll: "every accepted-but-unpersisted stroke is durably persisted before
\* the process exits").
CleanExitLosesNothing ==
  exitCode = 0 /\ failures = failedBefore /\ waitedThen = 0 => accepted \subseteq rows

\* The inductive invariant behind the safety properties of the shutdown.
SInv ==
  STypeOK /\ Inv /\ ClosedOnce /\ NotedByFlush /\ NothingHeldBack /\ CleanExitLosesNothing

\* After flushAll was called a stroke is accepted only of an append that was
\* awaiting the restore: the order close, flush, disconnect leaves no client that
\* could draw, even if a second signal comes.
NoDrawAfterFlush ==
  [][accepted' # accepted /\ phase \in Flushed => waiting > 0]_svars

\* A signalled process exits, although connections may stay open and statements may
\* never be answered.
SignalledExits == (signals > 0) ~> (phase = "exited")

\* index.ts says that the shutdown flushes "ALL buffered strokes ... so no accepted
\* stroke is lost on a deploy" (lines 177-178), and of a forced exit that strokes
\* "remain retained for recovery on restart" (206-207).
NothingLostOnExit == phase = "exited" => accepted \subseteq rows

=============================================================================
