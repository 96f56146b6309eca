------------------------------- MODULE Gateway -------------------------------
(***************************************************************************)
(* One connection at the socket gateway: the handshake (transport.ts), the *)
(* payload guard and the Auth_Guard that run before every event            *)
(* (gateway.ts, context.ts, authGuard.ts), the limits (rateLimiter.ts) and *)
(* what each handler does with the event (handlers/).                      *)
(*                                                                         *)
(* Socket.IO, as this code relies on it: the packets of one read pass the  *)
(* middleware one after the other, and their handlers run after that, in   *)
(* order, unless the connection was closed meanwhile; no time passes in    *)
(* between.  disconnect(true) closes the connection at once.               *)
(*                                                                         *)
(* Durability, presence and histories are the other modules': a handler    *)
(* here ends with the effect it has, recorded in last.                     *)
(***************************************************************************)
EXTENDS TokenBucket, Sequences, FiniteSets

CONSTANTS
  Rooms,        \* room ids
  Tokens,       \* join tokens: see Token
  NoToken,      \* no token is presented
  NoRoom,       \* no room id can be read from the payload
  NoUser,       \* ctx.userId before the first authorization
  Anonymous,    \* the identity OPEN_MODE resolves without a token
  SocketId,     \* the id of the connection, an identity and a room of its own
  OpenMode,     \* env OPEN_MODE
  RequireSecure,\* production: only encrypted transport
  DrawConfig,   \* EVENT_BUCKET_CONFIGS
  CursorConfig,
  MaxClock,     \* bound: time
  MaxChunk,     \* bound: packets of one read
  MaxDraws      \* bound: draw and cursor-move events handled

Token == [room : Rooms, user : STRING, exp : Nat, genuine : BOOLEAN]

\* The identities the guard can resolve, and the name a stroke falls back to.
Identities == {t.user : t \in Tokens} \union {Anonymous, SocketId}

ASSUME GatewayAssumption ==
  /\ Tokens \subseteq Token /\ NoToken \notin Tokens
  /\ NoRoom \notin Rooms /\ SocketId \notin Rooms /\ SocketId # NoRoom
  /\ NoUser \notin Identities
  /\ OpenMode \in BOOLEAN /\ RequireSecure \in BOOLEAN
  /\ DrawConfig \in Config /\ CursorConfig \in Config
  /\ MaxClock \in Nat /\ MaxChunk \in Nat /\ MaxDraws \in Nat

RoomScopedEvents == {"join-room", "draw", "cursor-move", "clear", "request-resync"}

\* A packet: valid says whether the schema of the event accepts its payload; only
\* join-room reads a token from it, and it has, like request-resync, no schema.
Packet ==
  {p \in [event : RoomScopedEvents, room : Rooms \union {NoRoom}, valid : BOOLEAN,
          token : Tokens \union {NoToken}] :
     /\ p.event # "join-room" => p.token = NoToken
     /\ p.event \in {"join-room", "request-resync"} => p.valid
     /\ p.room = NoRoom => p.event \in {"join-room", "request-resync"} \/ ~p.valid}

VARIABLES
  phase,       \* "handshake", "open", "refused" or "closed"
  clock,
  token,       \* ctx.token, of the handshake
  userId,      \* ctx.userId
  currentRoom, \* ctx.currentRoomId
  rooms,       \* socket.rooms
  inbox,       \* packets that passed the middleware and are not yet handled
  reading,     \* the packets of a read are still passing the middleware
  limiter,     \* ctx.rateLimiter: its buckets by key
  last,        \* what the last handler did
  \* history
  presented,   \* the tokens of the handshake and of join payloads
  resolved,    \* the identities the guard resolved
  entered,     \* rooms joined
  left,        \* rooms the disconnecting handler removed the socket from
  tries,       \* draw and cursor-move events handled
  drawn        \* draws that got a token

ctxVars  == <<token, userId, currentRoom, rooms, limiter>>
pastVars == <<presented, resolved, entered, left, tries, drawn>>
gvars == <<phase, clock, ctxVars, inbox, reading, last, pastVars>>

Limited == {"draw", "cursor-move"}
ConfigOf == [event \in Limited |-> IF event = "draw" THEN DrawConfig ELSE CursorConfig]
NoEffect == [kind |-> "none"]

GTypeOK ==
  /\ phase \in {"handshake", "open", "refused", "closed"}
  /\ clock \in 0..MaxClock
  /\ token \in Tokens \union {NoToken}
  /\ userId \in Identities \union {NoUser}
  /\ currentRoom \in Rooms \union {NoRoom}
  /\ rooms \subseteq Rooms \union {SocketId, NoRoom}
  /\ inbox \in Seq(Packet) /\ Len(inbox) <= MaxChunk /\ reading \in BOOLEAN
  /\ DOMAIN limiter \subseteq Limited
  /\ \A k \in DOMAIN limiter : limiter[k] \in Bucket
  /\ presented \subseteq Tokens /\ resolved \subseteq Identities
  /\ entered \subseteq Rooms \union {NoRoom}
  /\ left \subseteq entered
  /\ tries \in [Limited -> 0..MaxDraws]
  /\ drawn \in 0..MaxDraws

GInit ==
  /\ phase = "handshake" /\ clock = 0
  /\ token = NoToken /\ userId = NoUser /\ currentRoom = NoRoom /\ rooms = {}
  /\ inbox = <<>> /\ reading = FALSE /\ limiter = [k \in {} |-> 0] /\ last = NoEffect
  /\ presented = {} /\ resolved = {} /\ entered = {} /\ left = {}
  /\ tries = [e \in Limited |-> 0] /\ drawn = 0

\* Time passes between reads.
Tick ==
  /\ clock < MaxClock /\ inbox = <<>>
  /\ clock' = clock + 1
  /\ last' = NoEffect
  /\ UNCHANGED <<phase, ctxVars, inbox, reading, pastVars>>

-----------------------------------------------------------------------------
(* The handshake *)

\* A request without an origin is not a cross-origin one.
IsOriginAllowed(origin) == origin \in {"absent", "listed"}

\* The transport is encrypted, or the first proxy says that it was.
IsSecureRequest(encrypted, forwarded) == encrypted \/ forwarded = "https"

AllowRequest(origin, encrypted, forwarded) ==
  /\ IsOriginAllowed(origin)
  /\ RequireSecure => IsSecureRequest(encrypted, forwarded)

Handshake ==
  /\ phase = "handshake"
  /\ \E origin \in {"absent", "listed", "unlisted"}, encrypted \in BOOLEAN,
        forwarded \in {"absent", "http", "https"}, t \in Tokens \union {NoToken} :
       IF AllowRequest(origin, encrypted, forwarded)
       THEN /\ phase' = "open"
            /\ token' = t
            /\ presented' = {t} \ {NoToken}
            /\ rooms' = {SocketId}
       ELSE /\ phase' = "refused"
            /\ UNCHANGED <<token, presented, rooms>>
  /\ UNCHANGED <<clock, userId, currentRoom, inbox, reading, limiter, last, resolved,
                 entered, left, tries, drawn>>

-----------------------------------------------------------------------------
(* The middleware *)

\* verifyJoinToken
Verified(t, room) ==
  OpenMode \/ (t # NoToken /\ t.genuine /\ clock < t.exp /\ t.room = room)

\* In OPEN_MODE whatever decodes names the identity.
IdentityOf(t) == IF t = NoToken THEN Anonymous ELSE t.user

\* A join carries its token; every other event uses that of the handshake.
TokenFor(p) == IF p.event = "join-room" /\ p.token # NoToken THEN p.token ELSE token

AuthorizedUser(t) == IdentityOf(t)

\* disconnect(true) runs the disconnecting handler, which removes the socket from
\* every room but its own, and drops the packets that wait for their handlers.
RoomsToLeave_Current == {currentRoom} \intersect rooms
RoomsToLeave == rooms \ {SocketId}

Disconnect ==
  /\ phase' = "closed"
  /\ left' = left \union RoomsToLeave
  /\ rooms' = {}
  /\ inbox' = <<>>
  /\ reading' = FALSE

\* Is the event one the guard looks at?  A packet whose room cannot be read is left to
\* its handler.
Guarded_JoinOnly(p) == p.event = "join-room" /\ p.room # NoRoom
Guarded(p) == p.event \in RoomScopedEvents /\ p.room # NoRoom

\* The next packet of a read; tokens in join payloads count as presented.
Receive(p) ==
  /\ phase = "open" /\ (reading \/ inbox = <<>>) /\ Len(inbox) < MaxChunk
  /\ presented' = presented \union ({TokenFor(p)} \ {NoToken})
  /\ IF ~Guarded(p)
     THEN /\ inbox' = Append(inbox, p) /\ reading' = TRUE
          /\ UNCHANGED <<phase, rooms, left, userId, resolved>>
     ELSE IF Verified(TokenFor(p), p.room)
     THEN /\ inbox' = Append(inbox, p) /\ reading' = TRUE
          /\ userId' = AuthorizedUser(TokenFor(p))
          /\ resolved' = resolved \union {IdentityOf(TokenFor(p))}
          /\ UNCHANGED <<phase, rooms, left>>
     ELSE Disconnect /\ UNCHANGED <<userId, resolved>>
  /\ last' = NoEffect
  /\ UNCHANGED <<clock, token, currentRoom, limiter, entered, tries, drawn>>

\* A payload above the maximum is answered and dropped before the guard sees it.
Oversized ==
  /\ phase = "open" /\ (reading \/ inbox = <<>>)
  /\ last' = [kind |-> "error", code |-> "INVALID_PAYLOAD"]
  /\ UNCHANGED <<phase, clock, ctxVars, inbox, reading, pastVars>>

\* The client, or its network, goes away between two reads.
Leave ==
  /\ phase = "open" /\ inbox = <<>>
  /\ Disconnect
  /\ last' = NoEffect
  /\ UNCHANGED <<clock, token, userId, currentRoom, limiter, presented, resolved,
                 entered, tries, drawn>>

-----------------------------------------------------------------------------
(* The handlers, each on the oldest packet in the inbox *)

NextPacket(event) == inbox # <<>> /\ Head(inbox).event = event

\* What every listener does, wrapped as installErrorIsolation wraps it, and what it
\* leaves alone: whether it throws or not, the connection goes on with its next event.
HandlerFrame ==
  /\ inbox' = Tail(inbox)
  /\ reading' = FALSE
  /\ UNCHANGED <<phase, clock, token, userId, presented, resolved, left>>

\* The event is valid and names the room the connection is in.
OwnRoom(p) == p.valid /\ p.room = currentRoom

\* An earlier room is not left.
JoinRoom ==
  /\ NextPacket("join-room")
  /\ LET p == Head(inbox) IN
       /\ currentRoom' = p.room
       /\ rooms' = rooms \union {p.room}
       /\ entered' = entered \union {p.room}
       /\ last' = [kind |-> "join", room |-> p.room]
  /\ HandlerFrame /\ UNCHANGED <<limiter, tries, drawn>>

BucketFor(event) ==
  IF event \in DOMAIN limiter THEN limiter[event]
  ELSE CreateBucket(ConfigOf[event], clock)

MayConsume(event) == Granted(ConfigOf[event], BucketFor(event), clock)

\* A limited event takes its token before anything else is looked at.
TryConsume(event) ==
  /\ tries[event] < MaxDraws
  /\ tries' = [tries EXCEPT ![event] = @ + 1]
  /\ limiter' = [k \in DOMAIN limiter \union {event} |->
                   IF k = event
                   THEN Consume(ConfigOf[k], BucketFor(event), clock)
                   ELSE limiter[k]]

Draw ==
  /\ NextPacket("draw") /\ TryConsume("draw")
  /\ LET p == Head(inbox) IN
       last' = IF ~MayConsume("draw") THEN [kind |-> "error", code |-> "RATE_LIMITED"]
               ELSE IF ~p.valid THEN [kind |-> "error", code |-> "INVALID_PAYLOAD"]
               ELSE IF ~OwnRoom(p) THEN NoEffect
               ELSE [kind |-> "draw", room |-> p.room,
                     author |-> IF userId = NoUser THEN SocketId ELSE userId]
  /\ drawn' = IF MayConsume("draw") THEN drawn + 1 ELSE drawn
  /\ HandlerFrame /\ UNCHANGED <<currentRoom, rooms, entered>>

\* A refused cursor-move is dropped without a word.
CursorMove ==
  /\ NextPacket("cursor-move") /\ TryConsume("cursor-move")
  /\ LET p == Head(inbox) IN
       last' = IF ~MayConsume("cursor-move") THEN NoEffect
               ELSE IF ~p.valid THEN [kind |-> "error", code |-> "INVALID_PAYLOAD"]
               ELSE IF ~OwnRoom(p) THEN NoEffect
               ELSE [kind |-> "cursor-update", room |-> p.room]
  /\ HandlerFrame /\ UNCHANGED <<currentRoom, rooms, entered, drawn>>

Clear ==
  /\ NextPacket("clear")
  /\ LET p == Head(inbox) IN
       last' = IF ~p.valid THEN [kind |-> "error", code |-> "INVALID_PAYLOAD"]
               ELSE IF ~OwnRoom(p) THEN NoEffect
               ELSE [kind |-> "clear", room |-> p.room]
  /\ HandlerFrame /\ UNCHANGED <<currentRoom, rooms, limiter, entered, tries, drawn>>

\* The room of the payload, else the one the connection is in.
RequestResync ==
  /\ NextPacket("request-resync")
  /\ LET p    == Head(inbox)
         room == IF p.room # NoRoom THEN p.room ELSE currentRoom
     IN  last' = IF room = NoRoom THEN [kind |-> "error", code |-> "RESYNC_FAILED"]
                 ELSE [kind |-> "room-history", room |-> room]
  /\ HandlerFrame /\ UNCHANGED <<currentRoom, rooms, limiter, entered, tries, drawn>>

\* A listener throws, or the promise it returned is rejected, before the event had
\* an effect: the event is discarded.
HandlerThrows ==
  /\ inbox # <<>>
  /\ last' = NoEffect
  /\ HandlerFrame /\ UNCHANGED <<currentRoom, rooms, limiter, entered, tries, drawn>>

Handle == JoinRoom \/ Draw \/ CursorMove \/ Clear \/ RequestResync \/ HandlerThrows

GNext ==
  \/ Tick
  \/ Handshake
  \/ \E p \in Packet : Receive(p)
  \/ Oversized
  \/ Leave
  \/ Handle

GSpec == GInit /\ [][GNext]_gvars

-----------------------------------------------------------------------------
(* The inductive invariant *)

\* The token of the connection, or of a join payload, counts as presented.
TokenPresented == token # NoToken => token \in presented

\* A packet the guard let through still has its authorization when its handler runs: no
\* time passes before that, and the identity it resolved is on the connection.
Warrant(room) == OpenMode \/ \E t \in presented : t.genuine /\ t.room = room /\ clock < t.exp

InboxWarranted ==
  \A i \in DOMAIN inbox : Guarded(inbox[i]) => Warrant(inbox[i].room) /\ userId \in resolved

\* Only an open connection has packets to handle, and only it is in rooms: in all those
\* it joined, until the disconnecting handler has left each of them.
RoomsByPhase ==
  /\ inbox # <<>> => phase = "open"
  /\ phase \in {"handshake", "refused"} => rooms = {} /\ entered = {} /\ left = {}
  /\ phase = "open" => rooms = entered \union {SocketId} /\ left = {}
  /\ phase = "closed" => left = entered
  /\ phase = "open" /\ currentRoom # NoRoom => currentRoom \in rooms
  /\ phase \in {"handshake", "refused"} => currentRoom = NoRoom /\ last = NoEffect

\* A draw that got a token was tried.
DrawsTried == drawn <= tries["draw"]

-----------------------------------------------------------------------------
(* Correctness *)

\* A join, a draw, a cursor update or a clear happens in a room only while a genuine
\* token for that room, presented on this connection, has not expired: authorization
\* is not remembered beyond the packets of one read.  An effect is taken when its handler
\* has checked it: the append that a draw awaits before its broadcast (draw.ts:92-96) is
\* not seen here.  (A room id that is no string names no room.)
EffectsFresh ==
  last.kind \in {"join", "draw", "cursor-update", "clear"} /\ last.room \in Rooms =>
    Warrant(last.room)

\* Strokes, cursor updates and clears go to a room the connection is a member of, also
\* when it has joined several without leaving any.
OwnRoomOnly == last.kind \in {"draw", "cursor-update", "clear"} => last.room \in rooms

\* The author of a stroke is an identity the guard resolved on this connection: the
\* fallback to the socket id (draw.ts) is never taken, for a draw that reaches it has
\* passed the guard.
AuthorResolved == last.kind = "draw" => last.author \in resolved

\* draw and cursor-move have limits of their own: draws stay within the capacity and
\* the refill since the first, and none is refused unless draws alone used it up.
DrawsLimited ==
  /\ drawn <= DrawConfig.capacity + (DrawConfig.refillPerSec * clock) \div TicksPerSec
  /\ last = [kind |-> "error", code |-> "RATE_LIMITED"] =>
       tries["draw"] > DrawConfig.capacity

\* A connection that is closed, by the guard or by its client, has been removed from
\* every room it ever joined.
AllRoomsLeft == phase = "closed" => left = entered

\* Membership is respected from the first join to the end: what is sent goes to rooms the
\* connection is in, whatever it joined since, and none is left behind when it closes.
MembershipKept == OwnRoomOnly /\ AllRoomsLeft

\* What the proof of these carries from step to step.
GInv ==
  /\ GTypeOK /\ TokenPresented /\ InboxWarranted /\ RoomsByPhase /\ DrawsTried
  /\ EffectsFresh /\ MembershipKept /\ AuthorResolved

\* The author of a stroke holds a token for the room of the stroke.
AuthorOfRoom ==
  last.kind = "draw" => \E t \in presented : t.room = last.room /\ t.user = last.author

=============================================================================
