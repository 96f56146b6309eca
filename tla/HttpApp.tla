------------------------------- MODULE HttpApp -------------------------------
(***************************************************************************)
(* The requests createApp serves (server/src/app.ts): GET /readyz, which   *)
(* probes every dependency at once under a time budget                     *)
(* (observability/health.ts), POST /api/rooms/:id/join, which issues join  *)
(* tokens for a board, and GET /metrics, while the datastores come and go. *)
(*                                                                         *)
(* Nothing in the repository sets a board's password: its operator may do  *)
(* so at any time.                                                         *)
(***************************************************************************)
EXTENDS Access, FiniteSets

CONSTANTS
  Probes,       \* requests of /readyz
  Requests,     \* other requests: of the join endpoint, for one board, or of the metrics
  RequireSecure,  \* requireSecureTransport
  Peers,        \* the addresses the requests of the metrics come from
  Stores,       \* the dependencies a probe reaches over the network
  Database,     \* the one of them the board is kept in
  Persistence,  \* the check that reads StrokeService's health flag
  Budget,       \* DEFAULT_READINESS_TIMEOUT_MS, in ticks
  MaxClock,     \* bound: time
  MaxChanges    \* bound: changes of the dependencies

ASSUME HttpAppAssumption ==
  /\ RequireSecure \in BOOLEAN
  /\ \A peer \in Peers : peer \in Address /\ MayConnect(peer)
  /\ Database \in Stores /\ Persistence \notin Stores
  /\ Budget \in Nat \ {0} /\ MaxClock \in Nat /\ MaxChanges \in Nat

Checks == Stores \union {Persistence}

VARIABLES
  clock,
  store,     \* each store answers, refuses, or hangs
  healthy,   \* isPersistenceHealthy
  board,     \* the row of the board: absent, open, or protected by a password
  probe,     \* the readiness requests
  request,   \* the requests of the join endpoint and of the metrics
  \* history and bounds
  changes,
  reached,   \* the dependencies that worked at some time since the request began
  locked     \* the board has been given a password

envVars == <<store, healthy, changes>>
avars == <<clock, envVars, board, probe, request, reached, locked>>

Statuses == {"pending", "ok", "failed"}
Codes == {0, 200, 400, 403, 429, 500}

ProbeState ==
  [phase : {"idle", "refused", "waiting", "ready", "not_ready"},
   since : 0..MaxClock, status : [Checks -> Statuses]]

RequestState ==
  [phase : {"idle", "lookup", "compare", "ensure", "scrape", "answered"},
   code : Codes, entitled : BOOLEAN, late : BOOLEAN, route : {"none", "join", "metrics"}]

ATypeOK ==
  /\ clock \in 0..MaxClock
  /\ store \in [Stores -> {"up", "down", "hung"}]
  /\ healthy \in BOOLEAN /\ locked \in BOOLEAN
  /\ board \in {"absent", "open", "protected"}
  /\ probe \in [Probes -> ProbeState]
  /\ request \in [Requests -> RequestState]
  /\ \A r \in Requests : (request[r].phase = "answered") <=> (request[r].code # 0)
  /\ changes \in 0..MaxChanges
  /\ reached \in [Probes -> SUBSET Checks]

Working(d) == IF d = Persistence THEN healthy ELSE store[d] = "up"

AInit ==
  /\ clock = 0 /\ changes = 0
  /\ store \in [Stores -> {"up", "down", "hung"}]
  /\ healthy = TRUE
  /\ board \in {"absent", "open"} /\ locked = FALSE
  /\ probe = [p \in Probes |-> [phase |-> "idle", since |-> 0,
                                status |-> [d \in Checks |-> "pending"]]]
  /\ request = [r \in Requests |-> [phase |-> "idle", code |-> 0, entitled |-> FALSE,
                                    late |-> FALSE, route |-> "none"]]
  /\ reached = [p \in Probes |-> {}]

-----------------------------------------------------------------------------
(* The readiness probe *)

\* In production a request that has not come over TLS is refused, whatever it asks for.
Insecure == {secure \in BOOLEAN : RequireSecure /\ ~secure}

RefuseReadyz(p) ==
  /\ probe[p].phase = "idle" /\ Insecure # {}
  /\ probe' = [probe EXCEPT ![p].phase = "refused"]
  /\ UNCHANGED <<clock, envVars, board, request, reached, locked>>

\* The budget of a check that has not settled is over.
Due_Never(p, d) == FALSE
Due(p, d) ==
  /\ probe[p].phase = "waiting" /\ probe[p].status[d] = "pending"
  /\ clock = probe[p].since + Budget

\* Timers fire before time goes on.
Advance ==
  /\ clock < MaxClock
  /\ \A p \in Probes, d \in Checks : ~Due(p, d)
  /\ \A p \in Probes :
       probe[p].phase = "waiting" => \E d \in Checks : probe[p].status[d] = "pending"
  /\ clock' = clock + 1
  /\ UNCHANGED <<envVars, board, probe, request, reached, locked>>

\* A store, or the health of the write path, changes.
Change ==
  /\ changes < MaxChanges
  /\ changes' = changes + 1
  /\ \/ \E d \in Stores, s \in {"up", "down", "hung"} :
          s # store[d] /\ store' = [store EXCEPT ![d] = s] /\ healthy' = healthy
     \/ healthy' = ~healthy /\ store' = store
  /\ reached' = [p \in Probes |->
                   IF probe[p].phase = "waiting"
                   THEN reached[p] \union {d \in Checks : Working(d)'}
                   ELSE reached[p]]
  /\ UNCHANGED <<clock, board, probe, request, locked>>

\* evaluateReadiness starts every probe; the flag is read at once.
Readyz(p) ==
  /\ probe[p].phase = "idle" /\ clock + Budget <= MaxClock
  /\ probe' = [probe EXCEPT ![p] =
       [phase |-> "waiting", since |-> clock,
        status |-> [d \in Checks |-> IF d # Persistence THEN "pending"
                                     ELSE IF healthy THEN "ok" ELSE "failed"]]]
  /\ reached' = [reached EXCEPT ![p] = {d \in Checks : Working(d)}]
  /\ UNCHANGED <<clock, envVars, board, request, locked>>

\* The first of the store's answer and the timer settles the check; what comes after
\* is ignored.
TimeoutStatus_Passed == "ok"
TimeoutStatus == "failed"

Settle(p, d) ==
  /\ probe[p].phase = "waiting" /\ probe[p].status[d] = "pending"
  /\ \E s \in {"ok", "failed"} :
       /\ \/ s = "ok" /\ store[d] = "up"
          \/ s = "failed" /\ store[d] = "down"
          \/ s = TimeoutStatus /\ Due(p, d)
       /\ probe' = [probe EXCEPT ![p].status[d] = s]
  /\ UNCHANGED <<clock, envVars, board, request, reached, locked>>

Ready(status) == \A d \in Checks : status[d] = "ok"

Respond(p) ==
  /\ probe[p].phase = "waiting" /\ \A d \in Checks : probe[p].status[d] # "pending"
  /\ probe' = [probe EXCEPT ![p].phase = IF Ready(probe[p].status) THEN "ready" ELSE "not_ready"]
  /\ UNCHANGED <<clock, envVars, board, request, reached, locked>>

-----------------------------------------------------------------------------
(* The join endpoint *)

joinFrame == <<clock, envVars, probe, reached, locked>>

Moved(r, phase, code) == [request EXCEPT ![r].phase = phase, ![r].code = code]

Refused(r, code) ==
  request' = [request EXCEPT ![r] = [phase |-> "answered", code |-> code, entitled |-> FALSE,
                                     late |-> FALSE, route |-> "none"]]

\* TLS, the limiter, then the room id and the body, may refuse a request; entitled says
\* whether it has the password of the board, late whether the board had one by then.
PostJoin(r) ==
  /\ request[r].phase = "idle"
  /\ \/ \E code \in {400, 429} \union {403 : secure \in Insecure} : Refused(r, code)
     \/ \E entitled \in BOOLEAN :
          request' = [request EXCEPT ![r] = [phase |-> "lookup", code |-> 0, late |-> locked,
                                             entitled |-> entitled, route |-> "join"]]
  /\ UNCHANGED <<board, joinFrame>>

\* getPasswordHash
LookedUp(r) ==
  /\ request[r].phase = "lookup" /\ store[Database] = "up"
  /\ request' = Moved(r, IF board = "protected" THEN "compare" ELSE "ensure", 0)
  /\ UNCHANGED <<board, joinFrame>>

Matches(r) == request[r].entitled

\* bcrypt.compare
Compared(r) ==
  /\ request[r].phase = "compare"
  /\ request' = IF Matches(r) THEN Moved(r, "ensure", 0) ELSE Moved(r, "answered", 403)
  /\ UNCHANGED <<board, joinFrame>>

\* INSERT ... ON CONFLICT DO NOTHING
Inserted_Replaces == "open"
Inserted == IF board = "absent" THEN "open" ELSE board

Ensured(r) ==
  /\ request[r].phase = "ensure" /\ store[Database] = "up"
  /\ board' = Inserted
  /\ request' = Moved(r, "answered", 200)
  /\ UNCHANGED joinFrame

QueryFails(r) ==
  /\ request[r].phase \in {"lookup", "ensure"} /\ store[Database] = "down"
  /\ request' = Moved(r, "answered", 500)
  /\ UNCHANGED <<board, joinFrame>>

\* The operator gives the board a password.
Protect ==
  /\ board # "protected" /\ ~locked
  /\ board' = "protected" /\ locked' = TRUE
  /\ UNCHANGED <<clock, envVars, probe, request, reached>>

-----------------------------------------------------------------------------
(* The metrics *)

\* TLS, then the guard; entitled says whether the caller is on the private network.
GetMetrics(r) ==
  /\ request[r].phase = "idle"
  /\ \/ Insecure # {} /\ Refused(r, 403)
     \/ \E peer \in Peers :
          request' = [request EXCEPT ![r] =
            IF IsMetricsAccessAllowed(peer)
            THEN [phase |-> "scrape", code |-> 0, late |-> FALSE,
                  entitled |-> FromInside(peer), route |-> "metrics"]
            ELSE [phase |-> "answered", code |-> 403, late |-> FALSE,
                  entitled |-> FromInside(peer), route |-> "metrics"]]
  /\ UNCHANGED <<board, joinFrame>>

\* The registry is serialized, which may fail.
Serialized(r) ==
  /\ request[r].phase = "scrape"
  /\ \E code \in {200, 500} : request' = Moved(r, "answered", code)
  /\ UNCHANGED <<board, joinFrame>>

-----------------------------------------------------------------------------

Serve ==
  \E r \in Requests : LookedUp(r) \/ Compared(r) \/ Ensured(r) \/ QueryFails(r) \/ Serialized(r)

ANext ==
  \/ Advance
  \/ Change
  \/ \E p \in Probes : RefuseReadyz(p) \/ Readyz(p) \/ (\E d \in Stores : Settle(p, d)) \/ Respond(p)
  \/ \E r \in Requests : PostJoin(r) \/ GetMetrics(r)
  \/ Serve
  \/ Protect

\* Time passes, timers fire, and what has settled is answered.
ASpec ==
  /\ AInit /\ [][ANext]_avars
  /\ WF_avars(Advance)
  /\ \A p \in Probes : WF_avars(Respond(p)) /\ \A d \in Stores : WF_avars(Settle(p, d))

-----------------------------------------------------------------------------
(* The inductive invariant *)

\* What works while a request waits is noted as reached, and a check is ok only of what
\* was; a request is answered ready when all its checks are ok.
ChecksNoted ==
  \A p \in Probes :
    /\ probe[p].phase = "waiting" => \A d \in Checks : Working(d) => d \in reached[p]
    /\ probe[p].phase \in {"waiting", "ready"} =>
         \A d \in Checks : probe[p].status[d] = "ok" => d \in reached[p]
    /\ probe[p].phase = "ready" => Ready(probe[p].status)

\* A phase belongs to a route.  A board that was given a password keeps it, so a request
\* that began later passes the comparison before it gets to the insert; only callers
\* inside are served the metrics.
RequestsByPhase ==
  /\ locked => board = "protected"
  /\ \A r \in Requests :
       /\ request[r].phase = "idle" => request[r].route = "none"
       /\ request[r].phase \in {"lookup", "compare", "ensure"} => request[r].route = "join"
       /\ request[r].phase = "scrape" => request[r].route = "metrics" /\ request[r].entitled
       /\ request[r].late => locked
       /\ request[r].phase = "ensure" /\ request[r].late => request[r].entitled

-----------------------------------------------------------------------------
(* Correctness *)

\* No readiness request waits longer than the budget, whichever store hangs and
\* whenever ("a probe that hangs never stalls the readiness route beyond the budget",
\* health.ts).
WithinBudget ==
  \A p \in Probes : probe[p].phase = "waiting" => clock <= probe[p].since + Budget

\* A request that is answered ready has seen every dependency work at some time since
\* it began: neither a timeout nor a late answer passes for one.
ReadyMeansReached == \A p \in Probes : probe[p].phase = "ready" => reached[p] = Checks

\* A token is issued only for a board whose row exists, for strokes refer to it, also
\* when the database fails between the two statements; and once the board has a password
\* no request that begins later is issued one without it, whatever requests that began
\* before still do.
TokenWarranted ==
  \A r \in Requests :
     request[r].route = "join" /\ request[r].code = 200 =>
       /\ board # "absent"
       /\ request[r].late => request[r].entitled

\* The metrics are served to the callers in the private blocks of the registries, loopback
\* and link-local ones included, and to no others, in whichever form their address comes.
ServedInside ==
  \A r \in Requests :
     request[r].route = "metrics" =>
       request[r].entitled <=> request[r].phase = "scrape" \/ request[r].code \in {200, 500}

\* The inductive invariant behind these properties.
AInv ==
  /\ ATypeOK /\ ChecksNoted /\ RequestsByPhase
  /\ WithinBudget /\ ReadyMeansReached /\ TokenWarranted /\ ServedInside

\* Every readiness request is answered, also while a store hangs for good.
ReadyzAnswers == \A p \in Probes : probe[p].phase = "waiting" ~> probe[p].phase # "waiting"

=============================================================================
