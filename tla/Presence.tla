------------------------------ MODULE Presence ------------------------------
(***************************************************************************)
(* Presence in one room: the Redis scripts of                              *)
(* server/src/services/presenceService.ts, and the join-room, cursor-move  *)
(* and disconnecting handlers of the processes that call them.             *)
(*                                                                         *)
(* A script is atomic; an action is the execution of one, with the         *)
(* handler's code up to its next call.  Each socket may be served by a     *)
(* process of its own.                                                     *)
(*                                                                         *)
(* Abstractions: cursor positions and names are left out; times are "fresh"*)
(* or "stale", and the time to live of a key "far" or "near", its end; the *)
(* users and last-seen keys, always refreshed together, expire together;   *)
(* the EXPIRE commands of a cursor update follow its script at once (those *)
(* of a join do not).                                                      *)
(***************************************************************************)
EXTENDS Integers, FiniteSets

CONSTANTS
  Sockets,      \* the connections the room ever has
  PoolSize,     \* number of cursor colors
  Maintained,   \* whether heartbeat and sweep are called; nothing in the server does
  MaxFailures,  \* bound: calls of the Coordination_Store that fail
  MaxDeaths     \* bound: sockets whose process is killed

ASSUME PoolAssumption == PoolSize \in Nat \ {0}
ASSUME MaintainedAssumption == Maintained \in BOOLEAN
ASSUME PresenceBoundsAssumption == MaxFailures \in Nat /\ MaxDeaths \in Nat

VARIABLES
  \* the processes
  conn,         \* the connections
  awaits,       \* what the join-room handler of a socket awaits
  color,        \* its cursorColor, and
  members,      \* its members
  shown,        \* the member list of the last users-update
  \* the Coordination_Store
  users,        \* the color of each registered user
  colors,       \* the colors in use
  seen,         \* the last-seen scores
  registered,   \* the room is in presence:rooms
  usersTtl,
  colorsTtl,
  \* history and bounds
  shared,       \* a color was handed out, or freed, while somebody held it
  failures,
  deaths

processVars == <<conn, awaits, color, members, shown>>
storeVars   == <<users, colors, seen, registered, usersTtl, colorsTtl, shared>>
boundVars   == <<failures, deaths>>
vars == <<processVars, storeVars, boundVars>>

Colors  == 1..PoolSize
NoColor == 0
Ttl     == {"none", "far", "near"}

TypeOK ==
  /\ conn \in [Sockets -> {"new", "open", "closing", "closed", "dead"}]
  /\ awaits \in [Sockets -> {"nothing", "allocate", "register", "refresh", "history"}]
  /\ color \in [Sockets -> Colors \union {NoColor}]
  /\ members \in [Sockets -> SUBSET Sockets]
  /\ shown \subseteq Sockets
  /\ users \in [Sockets -> Colors \union {NoColor}]
  /\ colors \subseteq Colors
  /\ seen \in [Sockets -> {"none", "fresh", "stale"}]
  /\ registered \in BOOLEAN
  /\ usersTtl \in Ttl
  /\ colorsTtl \in Ttl
  /\ shared \in BOOLEAN
  /\ failures \in 0..MaxFailures
  /\ deaths \in 0..MaxDeaths

Init ==
  /\ conn = [s \in Sockets |-> "new"]
  /\ awaits = [s \in Sockets |-> "nothing"]
  /\ color = [s \in Sockets |-> NoColor]
  /\ members = [s \in Sockets |-> {}]
  /\ shown = {}
  /\ users = [s \in Sockets |-> NoColor]
  /\ colors = {}
  /\ seen = [s \in Sockets |-> "none"]
  /\ registered = FALSE
  /\ usersTtl = "none" /\ colorsTtl = "none"
  /\ shared = FALSE
  /\ failures = 0 /\ deaths = 0

-----------------------------------------------------------------------------
(* The scripts *)

\* The members a script returns, when the users are u.
Present(u) == {s \in Sockets : u[s] # NoColor}

FirstFree(c) ==
  /\ c \in Colors \ colors
  /\ \A d \in Colors \ colors : c <= d

\* The first color of the pool not in use, or the pool's first if all are.
Allocated(c) == IF colors = Colors THEN c = 1 ELSE FirstFree(c)

\* What an allocation adds to the colors in use.
Reserved_AtJoin(c) == {}
Reserved(c) == {c}

AllocateScript(c) ==
  /\ Allocated(c)
  /\ colors' = colors \union Reserved(c)
  /\ shared' = (shared \/ colors = Colors)
  /\ UNCHANGED <<users, seen, registered, usersTtl, colorsTtl>>

JoinScript(s) ==
  /\ users' = [users EXCEPT ![s] = color[s]]
  /\ colors' = colors \union {color[s]}
  /\ seen' = [seen EXCEPT ![s] = "fresh"]
  /\ registered' = TRUE
  /\ UNCHANGED <<usersTtl, colorsTtl, shared>>

\* Whether the room stays in presence:rooms when some users are removed.
StillRegistered_Never(left) == FALSE
StillRegistered(left) == registered /\ left # {}

\* Users are removed with their colors and scores; a key that empties is gone,
\* with its time to live.
Remove(gone) ==
  LET left == Present(users) \ gone
      free == {users[s] : s \in gone \intersect Present(users)} IN
  /\ users' = [s \in Sockets |-> IF s \in gone THEN NoColor ELSE users[s]]
  /\ colors' = colors \ free
  /\ seen' = [s \in Sockets |-> IF s \in gone THEN "none" ELSE seen[s]]
  /\ registered' = StillRegistered(left)
  /\ usersTtl' = IF left = {} THEN "none" ELSE usersTtl
  /\ colorsTtl' = IF colors' = {} THEN "none" ELSE colorsTtl
  /\ UNCHANGED shared

LeaveScript(s) == Remove({s})

SweepScript == Remove({s \in Sockets : seen[s] = "stale"})

\* refreshTtl: EXPIRE has no effect on a key that does not exist.
RefreshTtl_UsersOnly ==
  /\ usersTtl' = IF Present(users) = {} THEN "none" ELSE "far"
  /\ UNCHANGED colorsTtl
RefreshTtl ==
  /\ usersTtl' = IF Present(users) = {} THEN "none" ELSE "far"
  /\ colorsTtl' = IF colors = {} THEN "none" ELSE "far"

ExpireCommands ==
  /\ RefreshTtl
  /\ UNCHANGED <<users, colors, seen, registered, shared>>

\* A user that is present has been seen; for anyone else the script does nothing.
Touch(s) ==
  /\ seen' = [seen EXCEPT ![s] = IF users[s] # NoColor THEN "fresh" ELSE @]
  /\ UNCHANGED <<users, colors, registered, shared>>

-----------------------------------------------------------------------------
(* join-room *)

JoinRoom(s) ==
  /\ conn[s] = "new"
  /\ conn' = [conn EXCEPT ![s] = "open"]
  /\ awaits' = [awaits EXCEPT ![s] = "allocate"]
  /\ UNCHANGED <<color, members, shown, storeVars, boundVars>>

AllocateColor(s) ==
  /\ awaits[s] = "allocate"
  /\ \E c \in Colors \union {NoColor} :
        /\ AllocateScript(c)
        /\ color' = [color EXCEPT ![s] = c]
  /\ awaits' = [awaits EXCEPT ![s] = "register"]
  /\ UNCHANGED <<conn, members, shown, boundVars>>

Register(s) ==
  /\ awaits[s] = "register"
  /\ JoinScript(s)
  /\ members' = [members EXCEPT ![s] = Present(users')]
  /\ awaits' = [awaits EXCEPT ![s] = "refresh"]
  /\ UNCHANGED <<conn, color, shown, boundVars>>

RefreshAfterJoin(s) ==
  /\ awaits[s] = "refresh"
  /\ ExpireCommands
  /\ awaits' = [awaits EXCEPT ![s] = "history"]
  /\ UNCHANGED <<conn, color, members, shown, boundVars>>

\* The handler is over, and its locals with it.
HandlerEnds(s) ==
  /\ awaits' = [awaits EXCEPT ![s] = "nothing"]
  /\ color' = [color EXCEPT ![s] = NoColor]
  /\ members' = [members EXCEPT ![s] = {}]

\* The history has been loaded and sent; the members are the ones join returned.
AnnounceJoin(s) ==
  /\ awaits[s] = "history"
  /\ shown' = members[s]
  /\ HandlerEnds(s)
  /\ UNCHANGED <<conn, storeVars, boundVars>>

\* A call fails, before or after it was executed: the handler gives up, and the
\* client is told to retry.
JoinFails(s) ==
  /\ awaits[s] # "nothing"
  /\ failures < MaxFailures
  /\ failures' = failures + 1
  /\ HandlerEnds(s)
  /\ \/ UNCHANGED storeVars
     \/ awaits[s] = "allocate" /\ \E c \in Colors \union {NoColor} : AllocateScript(c)
     \/ awaits[s] = "register" /\ JoinScript(s)
     \/ awaits[s] = "refresh" /\ ExpireCommands
  /\ UNCHANGED <<conn, shown, deaths>>

-----------------------------------------------------------------------------
(* cursor-move, heartbeat, disconnecting, sweep *)

CursorMove(s) ==
  /\ conn[s] = "open"
  /\ Touch(s)
  /\ RefreshTtl
  /\ UNCHANGED <<processVars, boundVars>>

\* A call of a cursor update fails: that is logged, and no more.
CursorMoveFails(s) ==
  /\ conn[s] = "open"
  /\ failures < MaxFailures
  /\ failures' = failures + 1
  /\ Touch(s)
  /\ UNCHANGED <<processVars, usersTtl, colorsTtl, deaths>>

Heartbeat(s) ==
  /\ Maintained
  /\ users[s] # NoColor
  /\ CursorMove(s)

Disconnect(s) ==
  /\ conn[s] = "open"
  /\ conn' = [conn EXCEPT ![s] = "closing"]
  /\ UNCHANGED <<awaits, color, members, shown, storeVars, boundVars>>

\* The disconnecting handler: leave, and the surviving members are announced.
Leave(s) ==
  /\ conn[s] = "closing"
  /\ conn' = [conn EXCEPT ![s] = "closed"]
  /\ LeaveScript(s)
  /\ shown' = Present(users')
  /\ UNCHANGED <<awaits, color, members, boundVars>>

LeaveFails(s) ==
  /\ conn[s] = "closing"
  /\ failures < MaxFailures
  /\ failures' = failures + 1
  /\ conn' = [conn EXCEPT ![s] = "closed"]
  /\ LeaveScript(s) \/ UNCHANGED storeVars
  /\ UNCHANGED <<awaits, color, members, shown, deaths>>

\* The sweep of the rooms that are registered.
Sweep ==
  /\ Maintained /\ registered
  /\ SweepScript
  /\ UNCHANGED <<processVars, boundVars>>

-----------------------------------------------------------------------------
(* Time, and the death of processes *)

Age(s) ==
  /\ seen[s] = "fresh"
  /\ seen' = [seen EXCEPT ![s] = "stale"]
  /\ UNCHANGED <<processVars, users, colors, registered, usersTtl, colorsTtl, shared, boundVars>>

\* The keys near their end when nobody has been seen for as long, unless EXPIRE
\* commands failed.  A join is short: they near it before its scripts, or after.
KeysAge ==
  /\ usersTtl = "far" \/ colorsTtl = "far"
  /\ failures > 0 \/ \A s \in Sockets : seen[s] # "fresh"
  /\ \A s \in Sockets : awaits[s] \notin {"register", "refresh"}
  /\ usersTtl' = IF usersTtl = "far" THEN "near" ELSE usersTtl
  /\ colorsTtl' = IF colorsTtl = "far" THEN "near" ELSE colorsTtl
  /\ UNCHANGED <<processVars, users, colors, seen, registered, shared, boundVars>>

UsersExpire ==
  /\ usersTtl = "near"
  /\ usersTtl' = "none"
  /\ users' = [s \in Sockets |-> NoColor]
  /\ seen' = [s \in Sockets |-> "none"]
  /\ UNCHANGED <<processVars, colors, registered, colorsTtl, shared, boundVars>>

\* The sockets that hold a color: registered, or about to be.
Holders == {s \in Sockets : users[s] # NoColor \/ awaits[s] = "register"}

\* The colors were refreshed after the users, and expire after them.
ColorsExpire ==
  /\ colorsTtl = "near" /\ usersTtl # "near"
  /\ colorsTtl' = "none"
  /\ colors' = {}
  /\ shared' = (shared \/ Holders # {})
  /\ UNCHANGED <<processVars, users, seen, registered, usersTtl, boundVars>>

\* The process of a socket is killed: its handlers stop where they are.
Die(s) ==
  /\ conn[s] \in {"open", "closing"}
  /\ deaths < MaxDeaths
  /\ deaths' = deaths + 1
  /\ conn' = [conn EXCEPT ![s] = "dead"]
  /\ HandlerEnds(s)
  /\ UNCHANGED <<shown, storeVars, failures>>

\* Everybody has left.
Idle ==
  /\ \A s \in Sockets : conn[s] \in {"closed", "dead"} /\ awaits[s] = "nothing"
  /\ UNCHANGED vars

Step(s) ==
  \/ JoinRoom(s) \/ AllocateColor(s) \/ Register(s) \/ RefreshAfterJoin(s)
  \/ AnnounceJoin(s) \/ JoinFails(s)
  \/ CursorMove(s) \/ CursorMoveFails(s) \/ Heartbeat(s)
  \/ Disconnect(s) \/ Leave(s) \/ LeaveFails(s)
  \/ Age(s) \/ Die(s)

Next ==
  \/ \E s \in Sockets : Step(s)
  \/ Sweep
  \/ KeysAge \/ UsersExpire \/ ColorsExpire
  \/ Idle

Spec == Init /\ [][Next]_vars

(***************************************************************************)
(* Fairness: calls are answered, a handler that was called goes on, time   *)
(* passes and keys expire.  Nothing in the server schedules a sweep, and   *)
(* none is assumed.                                                        *)
(***************************************************************************)
Fairness ==
  /\ \A s \in Sockets :
        /\ WF_vars(AllocateColor(s) \/ Register(s) \/ RefreshAfterJoin(s) \/ AnnounceJoin(s)
                   \/ JoinFails(s))
        /\ WF_vars(Leave(s) \/ LeaveFails(s))
        /\ WF_vars(Age(s))
  /\ WF_vars(KeysAge)
  /\ WF_vars(UsersExpire)
  /\ WF_vars(ColorsExpire)

FairSpec == Spec /\ Fairness

-----------------------------------------------------------------------------
(* Correctness *)

Gone(s) == conn[s] \in {"closed", "dead"} /\ awaits[s] = "nothing"
Ghost(s) == Gone(s) /\ users[s] # NoColor

\* Two registered users have different colors, whatever joins, leaves, failures,
\* leaked colors and sweeps happened, as long as the pool was never exhausted and
\* the colors never expired under a holder (Requirement 5.1, the allocation script).
ColorsDistinct ==
  ~shared => \A s, t \in Present(users) : users[s] = users[t] => s = t

\* Every registered user can be reaped: it has a score and its room is swept,
\* although leave and sweep deregister rooms while others join.
SweepReaches ==
  \A s \in Present(users) : registered /\ seen[s] # "none"

\* No key of the room is left without a time to live, but by a call that failed or a
\* process that was killed: a join that has not come to its EXPIRE commands gives it one,
\* whoever leaves, expires or is swept in between (refreshTtl, lines 395-399).
KeysExpirable ==
  failures = 0 /\ deaths = 0 =>
    /\ Present(users) # {} => usersTtl # "none" \/ \E s \in Sockets : awaits[s] = "refresh"
    /\ colors # {} =>
         colorsTtl # "none" \/ \E s \in Sockets : awaits[s] \in {"register", "refresh"}

\* A room everybody has left is reclaimed, its colors too, whatever the order of
\* joins, disconnects, sweeps and expiries; but for joins cut short, whose keys have
\* no time to live (refreshTtl, lines 395-399).
RoomReclaimed ==
  (\A s \in Sockets : Gone(s)) /\ failures = 0 /\ deaths = 0
    ~> Present(users) = {} /\ colors = {}

(***************************************************************************)
(* The inductive invariant behind the safety properties.                   *)
(***************************************************************************)

\* A socket is not registered before its join has called for it.
NotYetRegistered ==
  \A s \in Sockets :
     /\ conn[s] = "new" => awaits[s] = "nothing" /\ users[s] = NoColor
     /\ awaits[s] \in {"allocate", "register"} => users[s] = NoColor
     /\ awaits[s] = "register" => color[s] # NoColor

Held(s) == IF users[s] # NoColor THEN users[s] ELSE color[s]

\* The colors held, by users or by joins under way, are reserved and differ.
HeldReserved ==
  ~shared =>
    /\ \A s \in Holders : Held(s) \in colors
    /\ \A s, t \in Holders : Held(s) = Held(t) => s = t

Inv == TypeOK /\ NotYetRegistered /\ HeldReserved /\ SweepReaches

(***************************************************************************)
(* Statements of comments in the code that do not hold.                    *)
(***************************************************************************)

\* allocateColor: "Distinct from every other present user's color while at most
\* COLOR_POOL_SIZE users are present" (lines 245-246).
DistinctWithinPool ==
  [][\A s \in Sockets :
       /\ awaits[s] = "allocate" /\ awaits'[s] = "register"
       /\ Cardinality(Holders) < PoolSize
       => \A t \in Present(users) : color'[s] # users[t]]_vars

\* refreshTtl: "present members are never reclaimed by this backstop" (lines
\* 400-401).  A member who is connected and moves no cursor is.
MembersNotReclaimed ==
  [][\A s \in Sockets : conn[s] = "open" /\ users[s] # NoColor => users'[s] # NoColor]_vars

\* joinRoom.ts: "Broadcast the updated member list to everyone in the room" (line
\* 98).  The list is the one join returned, before the history was loaded.
AnnouncesCurrent ==
  [][shown' # shown /\ (\E s \in Present(users) : conn[s] = "open")
     => shown' = Present(users')]_vars

\* disconnecting.ts removes the presence of a socket that has left (lines 36-37).
NoGhost == \A s \in Sockets : ~Ghost(s)

\* sweep: "The gateway calls this periodically" (lines 376-377), so that no user outlives
\* its connection (Requirement 5.4).  Nothing calls it: the cursors of one member keep the
\* users who are gone, and a join killed before its EXPIRE commands leaves keys without an end.
GhostsReaped == \A s \in Sockets : Ghost(s) ~> ~Ghost(s)

\* refreshTtl: a silent room "is reclaimed even if no sweep runs (e.g. the last node
\* crashes)" (lines 396-398).
RoomReclaimedAnyway ==
  (\A s \in Sockets : Gone(s)) ~> Present(users) = {}

=============================================================================
