---------------------------- MODULE Gateway_proofs ----------------------------
(***************************************************************************)
(* The inductive invariant of Gateway, and that no handler has an effect   *)
(* without a current authorization, for every set of rooms and tokens, in  *)
(* OPEN_MODE and out of it, and every configuration of the limits.         *)
(***************************************************************************)
EXTENDS Gateway, SequenceTheorems, TLAPS

-----------------------------------------------------------------------------
(* The token bucket *)

\* Consuming keeps a bucket a bucket.
LEMMA ConsumeBucket ==
  ASSUME NEW config \in Config, NEW bucket \in Bucket, NEW now \in Nat
  PROVE  Consume(config, bucket, now) \in Bucket
<1> DEFINE gain == Elapsed(bucket, now) * config.refillPerSec
           full == config.capacity * TicksPerSec
<1>1. bucket.tokens \in Nat /\ bucket.lastRefill \in Nat
  BY DEF Bucket
<1>2. config.capacity \in Nat /\ config.refillPerSec \in Nat /\ TicksPerSec \in Nat
  BY TicksAssumption DEF Config
<1>3. Elapsed(bucket, now) \in Nat
  BY <1>1 DEF Elapsed
<1>4. gain \in Nat /\ full \in Nat
  BY <1>2, <1>3
<1>5. Capped(config, bucket.tokens + gain) \in Nat
  BY <1>1, <1>4 DEF Capped
<1> HIDE DEF gain, full
<1>6. Refill(config, bucket, now) \in Bucket
  BY <1>5 DEF Refill, Bucket, gain
<1>7. Granted(config, bucket, now) => Refill(config, bucket, now).tokens - TicksPerSec \in Nat
  BY <1>2, <1>6 DEF Granted, Bucket
<1> QED BY <1>6, <1>7 DEF Consume, Bucket

\* A new bucket is one.
LEMMA CreateIsBucket ==
  ASSUME NEW config \in Config, NEW now \in Nat
  PROVE  CreateBucket(config, now) \in Bucket
<1>1. config.capacity * TicksPerSec \in Nat
  BY TicksAssumption DEF Config
<1> QED BY <1>1 DEF CreateBucket, Bucket

\* Factors of a product can be compared.
LEMMA ProductOrder ==
  ASSUME NEW a \in Int, NEW b \in Int, NEW n \in Nat \ {0}
  PROVE  a <= b <=> a * n <= b * n
<1>1. a <= b => a * n <= b * n
  OBVIOUS
<1>2. b + 1 <= a => (b + 1) * n <= a * n
  OBVIOUS
<1>3. (b + 1) * n = b * n + n
  OBVIOUS
<1> QED BY <1>1, <1>2, <1>3

\* A bound on a product is one on the quotient.
LEMMA QuotientBound ==
  ASSUME NEW a \in Int, NEW x \in Nat, NEW n \in Nat \ {0}, a * n <= x
  PROVE  a <= x \div n
<1>1. x \div n \in Int /\ x < n * (x \div n) + n
  BY Z3
<1>2. ((x \div n) + 1) * n = n * (x \div n) + n
  BY <1>1
<1>3. ~(((x \div n) + 1) * n <= a * n)
  BY <1>1, <1>2
<1> QED BY <1>1, <1>3, ProductOrder

\* What was granted stays within the capacity and the refill, and a refusal means that
\* the tries alone used up the capacity: used counts the events granted so far and tried
\* all of them.
LEMMA ConsumeBudget ==
  ASSUME NEW config \in Config, NEW bucket \in Bucket, NEW now \in Nat,
         bucket.lastRefill <= now, NEW used \in Nat, NEW tried \in Nat,
         bucket.tokens + used * TicksPerSec
           <= config.capacity * TicksPerSec + config.refillPerSec * bucket.lastRefill,
         bucket.tokens + tried * TicksPerSec >= config.capacity * TicksPerSec
  PROVE  /\ Consume(config, bucket, now).lastRefill = now
         /\ Consume(config, bucket, now).tokens
              + (IF Granted(config, bucket, now) THEN used + 1 ELSE used) * TicksPerSec
              <= config.capacity * TicksPerSec + config.refillPerSec * now
         /\ Consume(config, bucket, now).tokens + (tried + 1) * TicksPerSec
              >= config.capacity * TicksPerSec
         /\ ~Granted(config, bucket, now) => tried >= config.capacity
<1> DEFINE gain == Elapsed(bucket, now) * config.refillPerSec
           full == config.capacity * TicksPerSec
           spent == used * TicksPerSec
           level == Refill(config, bucket, now).tokens
           after == Consume(config, bucket, now).tokens
<1>1. bucket.tokens \in Nat /\ bucket.lastRefill \in Nat
  BY DEF Bucket
<1>2. config.capacity \in Nat \ {0} /\ config.refillPerSec \in Nat /\ TicksPerSec \in Nat \ {0}
  BY TicksAssumption DEF Config
<1>3. gain = config.refillPerSec * now - config.refillPerSec * bucket.lastRefill
  BY <1>1, <1>2 DEF Elapsed
<1>4. gain \in Nat /\ full \in Nat /\ spent \in Nat
  BY <1>1, <1>2 DEF Elapsed
<1>5. config.refillPerSec * now \in Nat /\ config.refillPerSec * bucket.lastRefill \in Nat
  BY <1>1, <1>2
<1>6. /\ (used + 1) * TicksPerSec = spent + TicksPerSec
      /\ (tried + 1) * TicksPerSec = tried * TicksPerSec + TicksPerSec
      /\ tried * TicksPerSec \in Nat
  BY <1>2
<1>7. TicksPerSec <= full
  <2>1. 1 * TicksPerSec <= config.capacity * TicksPerSec
    BY <1>2, ProductOrder
  <2> QED BY <1>2, <2>1
<1>8. level = IF bucket.tokens + gain <= full THEN bucket.tokens + gain ELSE full
  BY DEF Refill, Capped
<1>9. /\ Granted(config, bucket, now) <=> level >= TicksPerSec
      /\ after = IF Granted(config, bucket, now) THEN level - TicksPerSec ELSE level
  BY DEF Granted, Consume, Refill
<1>10. Consume(config, bucket, now).lastRefill = now
  BY DEF Consume, Refill
<1> HIDE DEF gain, full, spent, level, after
<1>11. /\ after + (IF Granted(config, bucket, now) THEN used + 1 ELSE used) * TicksPerSec
            <= full + config.refillPerSec * now
  BY <1>1, <1>2, <1>3, <1>4, <1>5, <1>6, <1>8, <1>9 DEF full, spent
<1>12. after + (tried + 1) * TicksPerSec >= full
  BY <1>1, <1>2, <1>4, <1>6, <1>8, <1>9 DEF full
<1>13. ~Granted(config, bucket, now) => tried >= config.capacity
  <2> SUFFICES ASSUME ~Granted(config, bucket, now)
               PROVE  config.capacity <= tried
    BY <1>2
  <2>1. (config.capacity - 1) * TicksPerSec = full - TicksPerSec
    BY <1>2 DEF full
  <2>2. ~(tried * TicksPerSec <= (config.capacity - 1) * TicksPerSec)
    BY <1>1, <1>2, <1>4, <1>6, <1>7, <1>8, <1>9, <2>1 DEF full
  <2> QED BY <1>2, <2>2, ProductOrder
<1> QED BY <1>10, <1>11, <1>12, <1>13 DEF full, after

\* The limits of a connection stay buckets when an event takes its token.
LEMMA TryConsumeType ==
  ASSUME GTypeOK, NEW event \in Limited, TryConsume(event)
  PROVE  /\ DOMAIN limiter' \subseteq Limited
         /\ \A k \in DOMAIN limiter' : limiter'[k] \in Bucket
         /\ tries' \in [Limited -> 0..MaxDraws]
         /\ tries[event] + 1 = tries'[event]
         /\ \A k \in Limited \ {event} : tries'[k] = tries[k]
<1>1. ConfigOf[event] \in Config
  BY GatewayAssumption DEF ConfigOf
<1>2. clock \in Nat /\ BucketFor(event) \in Bucket
  BY <1>1, CreateIsBucket, GatewayAssumption DEF GTypeOK, BucketFor
<1>3. Consume(ConfigOf[event], BucketFor(event), clock) \in Bucket
  BY <1>1, <1>2, ConsumeBucket
<1>4. DOMAIN limiter' = DOMAIN limiter \union {event}
  BY DEF TryConsume
<1>5. \A k \in DOMAIN limiter' :
        limiter'[k] = IF k = event THEN Consume(ConfigOf[k], BucketFor(event), clock)
                      ELSE limiter[k]
  BY DEF TryConsume
<1>6. \A k \in DOMAIN limiter' : limiter'[k] \in Bucket
  BY <1>3, <1>4, <1>5 DEF GTypeOK
<1>7. /\ tries' \in [Limited -> 0..MaxDraws] /\ tries[event] + 1 = tries'[event]
      /\ \A k \in Limited \ {event} : tries'[k] = tries[k]
  BY GatewayAssumption DEF TryConsume, GTypeOK
<1> QED BY <1>4, <1>6, <1>7 DEF GTypeOK

-----------------------------------------------------------------------------
(* The invariant *)

\* It holds before the handshake.
LEMMA GInitInv == GInit => GInv
<1> SUFFICES ASSUME GInit PROVE GInv
  OBVIOUS
<1>1. GTypeOK
  <2>1. DOMAIN limiter \subseteq Limited /\ \A k \in DOMAIN limiter : limiter[k] \in Bucket
    BY DEF GInit
  <2>2. tries \in [Limited -> 0..MaxDraws] /\ drawn \in 0..MaxDraws /\ clock \in 0..MaxClock
    BY GatewayAssumption DEF GInit
  <2>3. inbox \in Seq(Packet) /\ Len(inbox) <= MaxChunk
    BY GatewayAssumption DEF GInit
  <2>4. reading \in BOOLEAN
    BY Zenon DEF GInit
  <2>5. /\ token \in Tokens \union {NoToken} /\ userId \in Identities \union {NoUser}
        /\ currentRoom \in Rooms \union {NoRoom} /\ rooms = {} /\ entered = {} /\ left = {}
        /\ presented = {} /\ resolved = {} /\ phase = "handshake"
    BY DEF GInit
  <2> QED BY <2>1, <2>2, <2>3, <2>4, <2>5 DEF GTypeOK
<1> QED BY <1>1 DEF GInit, GInv, TokenPresented, InboxWarranted, RoomsByPhase, DrawsTried,
                    EffectsFresh, MembershipKept, OwnRoomOnly, AllRoomsLeft, AuthorResolved,
                    NoEffect, Limited

\* Time passes only when no packet waits for its handler.
LEMMA TickKeepsInv == GInv /\ Tick => GInv'
<1> SUFFICES ASSUME GInv, Tick PROVE GInv'
  OBVIOUS
<1> USE DEF GInv, Tick, ctxVars, pastVars
<1>1. GTypeOK'
  BY GatewayAssumption DEF GTypeOK
<1>2. TokenPresented' /\ DrawsTried'
  BY DEF TokenPresented, DrawsTried
<1>3. InboxWarranted'
  BY DEF InboxWarranted
<1>4. RoomsByPhase'
  BY DEF RoomsByPhase
<1>5. EffectsFresh' /\ MembershipKept' /\ AuthorResolved'
  BY DEF EffectsFresh, MembershipKept, OwnRoomOnly, AllRoomsLeft, AuthorResolved, NoEffect
<1> QED BY <1>1, <1>2, <1>3, <1>4, <1>5

\* The token of the handshake is the first one presented; no event has been handled.
LEMMA HandshakeKeepsInv == GInv /\ Handshake => GInv'
<1> SUFFICES ASSUME GInv, Handshake PROVE GInv'
  OBVIOUS
<1> USE DEF GInv
<1>1. PICK t \in Tokens \union {NoToken} :
        \/ /\ phase' = "open" /\ token' = t /\ presented' = {t} \ {NoToken}
           /\ rooms' = {SocketId}
        \/ phase' = "refused" /\ UNCHANGED <<token, presented, rooms>>
  BY Zenon DEF Handshake
<1>2. /\ phase = "handshake" /\ last = NoEffect /\ inbox = <<>> /\ rooms = {} /\ left = {}
      /\ entered = {} /\ currentRoom = NoRoom
  BY DEF Handshake, RoomsByPhase
<1>3. UNCHANGED <<clock, userId, currentRoom, inbox, reading, limiter, last, resolved,
                  entered, left, tries, drawn>>
  BY DEF Handshake
<1>4. GTypeOK'
  <2>1. phase' \in {"open", "refused"} /\ token' \in Tokens \union {NoToken}
    BY <1>1 DEF GTypeOK
  <2>2. presented' \subseteq Tokens /\ rooms' \subseteq Rooms \union {SocketId, NoRoom}
    BY <1>1, <1>2 DEF GTypeOK
  <2> QED BY <1>3, <2>1, <2>2 DEF GTypeOK
<1>5. TokenPresented' /\ DrawsTried'
  BY <1>1, <1>3 DEF TokenPresented, DrawsTried
<1>6. InboxWarranted'
  BY <1>2, <1>3 DEF InboxWarranted
<1>7. RoomsByPhase'
  BY <1>1, <1>2, <1>3 DEF RoomsByPhase
<1>8. EffectsFresh' /\ MembershipKept' /\ AuthorResolved'
  BY <1>1, <1>2, <1>3 DEF EffectsFresh, MembershipKept, OwnRoomOnly, AllRoomsLeft,
                          AuthorResolved, NoEffect
<1> QED BY <1>4, <1>5, <1>6, <1>7, <1>8

\* What the disconnecting handler does to an open connection: it leaves every room.
LEMMA DisconnectLeavesAll ==
  ASSUME GInv, phase = "open", Disconnect
  PROVE  phase' = "closed" /\ left' = entered /\ rooms' = {} /\ inbox' = <<>>
<1>1. rooms = entered \union {SocketId} /\ left = {}
  BY DEF GInv, RoomsByPhase
<1>2. SocketId \notin entered
  BY GatewayAssumption DEF GInv, GTypeOK
<1> QED BY <1>1, <1>2 DEF Disconnect, RoomsToLeave

\* A connection that closes keeps the invariant, whoever closed it.
LEMMA DisconnectKeepsInv ==
  ASSUME GInv, phase = "open", Disconnect, last' = NoEffect, presented \subseteq presented',
         presented' \subseteq Tokens,
         UNCHANGED <<clock, token, userId, currentRoom, limiter, resolved, entered, tries, drawn>>
  PROVE  GInv'
<1> USE DEF GInv
<1>1. phase' = "closed" /\ left' = entered /\ rooms' = {} /\ inbox' = <<>>
  BY DisconnectLeavesAll
<1>2. GTypeOK'
  <2>1. reading' \in BOOLEAN
    BY Zenon DEF Disconnect
  <2>2. inbox' \in Seq(Packet) /\ Len(inbox') <= MaxChunk
    BY <1>1, GatewayAssumption
  <2> QED BY <1>1, <2>1, <2>2 DEF GTypeOK
<1>3. TokenPresented' /\ DrawsTried' /\ InboxWarranted'
  BY <1>1 DEF TokenPresented, DrawsTried, InboxWarranted
<1>4. RoomsByPhase'
  BY <1>1 DEF RoomsByPhase
<1>5. EffectsFresh' /\ MembershipKept' /\ AuthorResolved'
  BY <1>1 DEF EffectsFresh, MembershipKept, OwnRoomOnly, AllRoomsLeft, AuthorResolved, NoEffect
<1> QED BY <1>2, <1>3, <1>4, <1>5

\* The guard refuses a packet, or passes it on with the warrant of its token.
LEMMA ReceiveKeepsInv ==
  ASSUME GInv, NEW p \in Packet, Receive(p)
  PROVE  GInv'
<1> USE DEF GInv
<1>1. TokenFor(p) \in Tokens \union {NoToken}
  BY DEF TokenFor, GTypeOK, Packet
<1>2. /\ presented' = presented \union ({TokenFor(p)} \ {NoToken})
      /\ last' = NoEffect /\ phase = "open" /\ Len(inbox) < MaxChunk
      /\ UNCHANGED <<clock, token, currentRoom, limiter, entered, tries, drawn>>
  BY DEF Receive
<1>3. presented' \subseteq Tokens /\ presented \subseteq presented'
  BY <1>1, <1>2 DEF GTypeOK
<1>4. CASE Guarded(p) /\ ~Verified(TokenFor(p), p.room)
  <2>1. Disconnect /\ UNCHANGED <<userId, resolved>>
    BY <1>4 DEF Receive
  <2> QED BY <1>2, <1>3, <2>1, DisconnectKeepsInv
<1>5. CASE ~(Guarded(p) /\ ~Verified(TokenFor(p), p.room))
  <2>1. /\ inbox' = Append(inbox, p) /\ reading' = TRUE /\ UNCHANGED <<phase, rooms, left>>
        /\ \/ /\ Guarded(p) /\ Verified(TokenFor(p), p.room)
              /\ userId' = AuthorizedUser(TokenFor(p))
              /\ resolved' = resolved \union {IdentityOf(TokenFor(p))}
           \/ ~Guarded(p) /\ UNCHANGED <<userId, resolved>>
    BY Zenon, <1>5 DEF Receive
  <2>2. IdentityOf(TokenFor(p)) \in Identities
    BY <1>1 DEF IdentityOf, Identities
  <2>3. /\ userId' \in Identities \union {NoUser} /\ resolved' \subseteq Identities
        /\ resolved \subseteq resolved'
        /\ userId' \in resolved' \/ (userId' = userId /\ ~Guarded(p))
    BY <2>1, <2>2 DEF GTypeOK, AuthorizedUser
  <2>4. GTypeOK'
    <3>1. reading' \in BOOLEAN
      BY Zenon, <2>1
    <3>2. inbox' \in Seq(Packet) /\ Len(inbox') <= MaxChunk
      BY <1>2, <2>1, GatewayAssumption DEF GTypeOK
    <3> QED BY <1>2, <1>3, <2>1, <2>3, <3>1, <3>2 DEF GTypeOK
  <2>5. TokenPresented' /\ DrawsTried'
    BY <1>2 DEF TokenPresented, DrawsTried
  <2> DEFINE warrant(room) == \/ OpenMode
                              \/ \E t \in presented' : /\ t.genuine /\ t.room = room
                                                        /\ clock' < t.exp
  <2>6. \A room : Warrant(room) => warrant(room)
    BY <1>2 DEF Warrant
  <2>7. Guarded(p) => warrant(p.room) /\ userId' \in resolved'
    <3> SUFFICES ASSUME Guarded(p)
                 PROVE  warrant(p.room) /\ userId' \in resolved'
      OBVIOUS
    <3>1. Verified(TokenFor(p), p.room) /\ userId' \in resolved'
      BY <2>1, <2>3 DEF AuthorizedUser
    <3>2. CASE OpenMode
      BY <3>1, <3>2
    <3>3. CASE ~OpenMode
      BY <1>1, <1>2, <3>1, <3>3 DEF Verified
    <3> QED BY <3>2, <3>3
  <2>8. InboxWarranted'
    <3> SUFFICES ASSUME NEW i \in DOMAIN inbox', Guarded(inbox'[i])
                 PROVE  warrant(inbox'[i].room) /\ userId' \in resolved'
      BY DEF InboxWarranted, Guarded, Warrant
    <3> HIDE DEF warrant
    <3>1. i \in 1..Len(inbox) + 1 /\ Len(inbox) \in Nat
      BY <2>1 DEF GTypeOK
    <3>2. CASE i = Len(inbox) + 1
      <4>1. inbox'[i] = p
        BY <2>1, <3>2 DEF GTypeOK
      <4> QED BY <4>1, <2>7
    <3>3. CASE i \in 1..Len(inbox)
      <4>1. inbox'[i] = inbox[i] /\ i \in DOMAIN inbox
        BY <2>1, <3>3 DEF GTypeOK
      <4>2. Warrant(inbox[i].room) /\ userId \in resolved
        BY <4>1 DEF InboxWarranted
      <4> QED BY <4>1, <4>2, <2>3, <2>6
    <3> QED BY <3>1, <3>2, <3>3
  <2>9. RoomsByPhase'
    BY <1>2, <2>1 DEF RoomsByPhase
  <2>10. EffectsFresh' /\ MembershipKept' /\ AuthorResolved'
    BY <1>2, <2>1 DEF EffectsFresh, MembershipKept, OwnRoomOnly, AllRoomsLeft,
                      AuthorResolved, NoEffect
  <2> QED BY <2>4, <2>5, <2>8, <2>9, <2>10
<1> QED BY <1>4, <1>5

\* A payload that is too large is answered and has no other effect.
LEMMA OversizedKeepsInv == GInv /\ Oversized => GInv'
<1> SUFFICES ASSUME GInv, Oversized PROVE GInv'
  OBVIOUS
<1> USE DEF GInv, Oversized, ctxVars, pastVars
<1>1. GTypeOK' /\ TokenPresented' /\ DrawsTried' /\ InboxWarranted'
  BY DEF GTypeOK, TokenPresented, DrawsTried, InboxWarranted, Warrant
<1>2. RoomsByPhase' /\ EffectsFresh' /\ MembershipKept' /\ AuthorResolved'
  BY DEF RoomsByPhase, EffectsFresh, MembershipKept, OwnRoomOnly, AllRoomsLeft, AuthorResolved
<1> QED BY <1>1, <1>2

\* The client goes away.
LEMMA LeaveKeepsInv == GInv /\ Leave => GInv'
BY DisconnectKeepsInv DEF Leave, GInv, GTypeOK

-----------------------------------------------------------------------------
(* The handlers *)

\* The packet a handler gets, and those it leaves in the inbox.
LEMMA HandledPacket ==
  ASSUME GInv, inbox # <<>>
  PROVE  /\ phase = "open" /\ Head(inbox) \in Packet
         /\ Guarded(Head(inbox)) => Warrant(Head(inbox).room) /\ userId \in resolved
         /\ Tail(inbox) \in Seq(Packet) /\ Len(Tail(inbox)) <= MaxChunk
         /\ \A i \in DOMAIN Tail(inbox) : i + 1 \in DOMAIN inbox /\ Tail(inbox)[i] = inbox[i + 1]
<1>1. phase = "open" /\ inbox \in Seq(Packet) /\ Len(inbox) <= MaxChunk
  BY DEF GInv, GTypeOK, RoomsByPhase
<1>2. 1 \in DOMAIN inbox /\ Head(inbox) = inbox[1]
  BY <1>1
<1>3. Guarded(inbox[1]) => Warrant(inbox[1].room) /\ userId \in resolved
  BY <1>2 DEF GInv, InboxWarranted
<1>4. Tail(inbox) \in Seq(Packet) /\ Len(Tail(inbox)) = Len(inbox) - 1
  BY <1>1
<1>5. \A i \in DOMAIN Tail(inbox) : i + 1 \in DOMAIN inbox /\ Tail(inbox)[i] = inbox[i + 1]
  BY <1>1, <1>4
<1> QED BY <1>1, <1>2, <1>3, <1>4, <1>5, GatewayAssumption

\* A handler that joins at most one room keeps the invariant when its effect is one the
\* connection is warranted.
LEMMA HandlerKeepsInv ==
  ASSUME GInv, inbox # <<>>, HandlerFrame,
         DOMAIN limiter' \subseteq Limited, \A k \in DOMAIN limiter' : limiter'[k] \in Bucket,
         tries' \in [Limited -> 0..MaxDraws], drawn' \in 0..MaxDraws, drawn' <= tries'["draw"],
         \/ UNCHANGED <<currentRoom, rooms, entered>>
         \/ \E room \in Rooms \union {NoRoom} :
              /\ currentRoom' = room
              /\ rooms' = rooms \union {room} /\ entered' = entered \union {room},
         EffectsFresh', OwnRoomOnly', AuthorResolved'
  PROVE  GInv'
<1> USE DEF GInv, HandlerFrame
<1>1. /\ phase = "open" /\ Tail(inbox) \in Seq(Packet) /\ Len(Tail(inbox)) <= MaxChunk
      /\ \A i \in DOMAIN Tail(inbox) : i + 1 \in DOMAIN inbox /\ Tail(inbox)[i] = inbox[i + 1]
  BY HandledPacket
<1>2. GTypeOK'
  <2>1. reading' \in BOOLEAN
    BY Zenon
  <2>2. /\ currentRoom' \in Rooms \union {NoRoom}
        /\ rooms' \subseteq Rooms \union {SocketId, NoRoom}
        /\ entered' \subseteq Rooms \union {NoRoom} /\ entered \subseteq entered'
    BY DEF GTypeOK
  <2>3. /\ phase' \in {"handshake", "open", "refused", "closed"} /\ clock' \in 0..MaxClock
        /\ token' \in Tokens \union {NoToken} /\ userId' \in Identities \union {NoUser}
        /\ presented' \subseteq Tokens /\ resolved' \subseteq Identities
        /\ left' \subseteq entered'
    BY <2>2 DEF GTypeOK
  <2>4. inbox' \in Seq(Packet) /\ Len(inbox') <= MaxChunk
    BY <1>1
  <2> QED BY <2>1, <2>2, <2>3, <2>4 DEF GTypeOK
<1>3. TokenPresented' /\ DrawsTried'
  BY DEF TokenPresented, DrawsTried
<1>4. InboxWarranted'
  BY <1>1 DEF InboxWarranted, Warrant
<1>5. RoomsByPhase'
  BY <1>1 DEF RoomsByPhase
<1>6. AllRoomsLeft'
  BY <1>1 DEF AllRoomsLeft
<1> QED BY <1>2, <1>3, <1>4, <1>5, <1>6 DEF MembershipKept

\* An event on the room of the connection is one the guard looked at.
LEMMA OwnRoomGuarded ==
  ASSUME GInv, inbox # <<>>, Head(inbox).event \in {"draw", "cursor-move", "clear"},
         OwnRoom(Head(inbox))
  PROVE  /\ Warrant(Head(inbox).room) /\ userId \in resolved /\ userId # NoUser
         /\ Head(inbox).room \in rooms
<1>1. Head(inbox) \in Packet /\ phase = "open"
  BY HandledPacket
<1>2. Head(inbox).valid /\ Head(inbox).room = currentRoom
  BY DEF OwnRoom
<1>3. Head(inbox).room # NoRoom /\ Guarded(Head(inbox))
  BY <1>1, <1>2 DEF Packet, Guarded
<1>4. Warrant(Head(inbox).room) /\ userId \in resolved
  BY <1>3, HandledPacket
<1>5. userId # NoUser
  BY <1>4, GatewayAssumption DEF GInv, GTypeOK
<1>6. currentRoom \in rooms
  BY <1>1, <1>2, <1>3 DEF GInv, RoomsByPhase
<1> QED BY <1>2, <1>4, <1>5, <1>6

\* The connection enters the room its token admits it to.
LEMMA JoinRoomKeepsInv == GInv /\ JoinRoom => GInv'
<1> SUFFICES ASSUME GInv, JoinRoom PROVE GInv'
  OBVIOUS
<1> DEFINE p == Head(inbox)
<1>1. /\ inbox # <<>> /\ p.event = "join-room" /\ last' = [kind |-> "join", room |-> p.room]
      /\ HandlerFrame /\ UNCHANGED <<limiter, tries, drawn>>
      /\ currentRoom' = p.room /\ rooms' = rooms \union {p.room}
      /\ entered' = entered \union {p.room}
  BY DEF JoinRoom, NextPacket
<1>2. p \in Packet /\ (Guarded(p) => Warrant(p.room))
  BY <1>1, HandledPacket
<1>3. p.room \in Rooms => Warrant(p.room)
  BY <1>1, <1>2, GatewayAssumption DEF Guarded, RoomScopedEvents
<1>4. EffectsFresh'
  BY <1>1, <1>3 DEF EffectsFresh, Warrant, HandlerFrame
<1>5. OwnRoomOnly' /\ AuthorResolved'
  BY <1>1 DEF OwnRoomOnly, AuthorResolved
<1>6. p.room \in Rooms \union {NoRoom}
  BY <1>2 DEF Packet
<1>7. \E room \in Rooms \union {NoRoom} :
        currentRoom' = room /\ rooms' = rooms \union {room} /\ entered' = entered \union {room}
  BY <1>1, <1>6
<1>8. /\ DOMAIN limiter' \subseteq Limited /\ \A k \in DOMAIN limiter' : limiter'[k] \in Bucket
      /\ tries' \in [Limited -> 0..MaxDraws] /\ drawn' \in 0..MaxDraws
      /\ drawn' <= tries'["draw"]
  BY <1>1 DEF GInv, GTypeOK, DrawsTried
<1> QED BY <1>1, <1>4, <1>5, <1>7, <1>8, HandlerKeepsInv

\* A draw has an effect only on the room of the connection, under a resolved identity.
LEMMA DrawKeepsInv == GInv /\ Draw => GInv'
<1> SUFFICES ASSUME GInv, Draw PROVE GInv'
  OBVIOUS
<1> DEFINE p == Head(inbox)
<1>1. /\ inbox # <<>> /\ p.event = "draw" /\ TryConsume("draw") /\ HandlerFrame
      /\ UNCHANGED <<currentRoom, rooms, entered>>
      /\ drawn' = drawn + 1 \/ drawn' = drawn
  BY DEF Draw, NextPacket
<1>2. /\ DOMAIN limiter' \subseteq Limited /\ \A k \in DOMAIN limiter' : limiter'[k] \in Bucket
      /\ tries' \in [Limited -> 0..MaxDraws] /\ tries["draw"] + 1 = tries'["draw"]
  BY <1>1, TryConsumeType DEF GInv, Limited
<1>3. drawn' \in 0..MaxDraws /\ drawn' <= tries'["draw"]
  <2>1. /\ tries["draw"] \in Nat /\ tries'["draw"] \in 0..MaxDraws /\ drawn \in Nat
        /\ drawn <= tries["draw"] /\ MaxDraws \in Nat
    BY <1>2, GatewayAssumption DEF GInv, GTypeOK, DrawsTried, Limited
  <2> QED BY <1>1, <1>2, <2>1
<1>4. \/ last'.kind \in {"error", "none"}
      \/ OwnRoom(p) /\ last' = [kind |-> "draw", room |-> p.room,
                               author |-> IF userId = NoUser THEN SocketId ELSE userId]
  BY DEF Draw, NoEffect
<1>5. EffectsFresh' /\ OwnRoomOnly' /\ AuthorResolved'
  <2>1. CASE last'.kind \in {"error", "none"}
    BY <2>1 DEF EffectsFresh, OwnRoomOnly, AuthorResolved
  <2>2. CASE OwnRoom(p) /\ last' = [kind |-> "draw", room |-> p.room,
                                    author |-> IF userId = NoUser THEN SocketId ELSE userId]
    <3>1. /\ Warrant(p.room) /\ userId \in resolved /\ userId # NoUser /\ p.room \in rooms
      BY <1>1, <2>2, OwnRoomGuarded
    <3>2. EffectsFresh'
      BY <1>1, <2>2, <3>1 DEF EffectsFresh, Warrant, HandlerFrame
    <3>3. OwnRoomOnly' /\ AuthorResolved'
      BY <1>1, <2>2, <3>1 DEF OwnRoomOnly, AuthorResolved, HandlerFrame
    <3> QED BY <3>2, <3>3
  <2> QED BY <1>4, <2>1, <2>2
<1> QED BY <1>1, <1>2, <1>3, <1>5, HandlerKeepsInv

\* So does a cursor move.
LEMMA CursorMoveKeepsInv == GInv /\ CursorMove => GInv'
<1> SUFFICES ASSUME GInv, CursorMove PROVE GInv'
  OBVIOUS
<1> DEFINE p == Head(inbox)
<1>1. /\ inbox # <<>> /\ p.event = "cursor-move" /\ TryConsume("cursor-move") /\ HandlerFrame
      /\ UNCHANGED <<currentRoom, rooms, entered, drawn>>
  BY DEF CursorMove, NextPacket
<1>2. /\ DOMAIN limiter' \subseteq Limited /\ \A k \in DOMAIN limiter' : limiter'[k] \in Bucket
      /\ tries' \in [Limited -> 0..MaxDraws] /\ tries["draw"] = tries'["draw"]
  BY <1>1, TryConsumeType DEF GInv, Limited
<1>3. drawn' \in 0..MaxDraws /\ drawn' <= tries'["draw"]
  BY <1>1, <1>2 DEF GInv, GTypeOK, DrawsTried
<1>4. \/ last'.kind \in {"error", "none"}
      \/ OwnRoom(p) /\ last' = [kind |-> "cursor-update", room |-> p.room]
  BY DEF CursorMove, NoEffect
<1>5. EffectsFresh' /\ OwnRoomOnly' /\ AuthorResolved'
  <2>1. CASE last'.kind \in {"error", "none"}
    BY <2>1 DEF EffectsFresh, OwnRoomOnly, AuthorResolved
  <2>2. CASE OwnRoom(p) /\ last' = [kind |-> "cursor-update", room |-> p.room]
    <3>1. Warrant(p.room) /\ p.room \in rooms
      BY <1>1, <2>2, OwnRoomGuarded
    <3> QED BY <1>1, <2>2, <3>1 DEF EffectsFresh, OwnRoomOnly, AuthorResolved, Warrant,
                                    HandlerFrame
  <2> QED BY <1>4, <2>1, <2>2
<1> QED BY <1>1, <1>2, <1>3, <1>5, HandlerKeepsInv

\* And a clear.
LEMMA ClearKeepsInv == GInv /\ Clear => GInv'
<1> SUFFICES ASSUME GInv, Clear PROVE GInv'
  OBVIOUS
<1> DEFINE p == Head(inbox)
<1>1. /\ inbox # <<>> /\ p.event = "clear" /\ HandlerFrame
      /\ UNCHANGED <<currentRoom, rooms, limiter, entered, tries, drawn>>
  BY DEF Clear, NextPacket
<1>2. /\ DOMAIN limiter' \subseteq Limited /\ \A k \in DOMAIN limiter' : limiter'[k] \in Bucket
      /\ tries' \in [Limited -> 0..MaxDraws] /\ drawn' \in 0..MaxDraws
      /\ drawn' <= tries'["draw"]
  BY <1>1 DEF GInv, GTypeOK, DrawsTried
<1>3. \/ last'.kind \in {"error", "none"}
      \/ OwnRoom(p) /\ last' = [kind |-> "clear", room |-> p.room]
  BY DEF Clear, NoEffect
<1>4. EffectsFresh' /\ OwnRoomOnly' /\ AuthorResolved'
  <2>1. CASE last'.kind \in {"error", "none"}
    BY <2>1 DEF EffectsFresh, OwnRoomOnly, AuthorResolved
  <2>2. CASE OwnRoom(p) /\ last' = [kind |-> "clear", room |-> p.room]
    <3>1. Warrant(p.room) /\ p.room \in rooms
      BY <1>1, <2>2, OwnRoomGuarded
    <3> QED BY <1>1, <2>2, <3>1 DEF EffectsFresh, OwnRoomOnly, AuthorResolved, Warrant,
                                    HandlerFrame
  <2> QED BY <1>3, <2>1, <2>2
<1> QED BY <1>1, <1>2, <1>4, HandlerKeepsInv

\* A resync answers the connection alone, and a handler that throws has no effect.
LEMMA AnswerKeepsInv == GInv /\ (RequestResync \/ HandlerThrows) => GInv'
<1> SUFFICES ASSUME GInv, RequestResync \/ HandlerThrows PROVE GInv'
  OBVIOUS
<1>1. /\ inbox # <<>> /\ HandlerFrame
      /\ UNCHANGED <<currentRoom, rooms, limiter, entered, tries, drawn>>
      /\ last'.kind \in {"error", "none", "room-history"}
  BY DEF RequestResync, HandlerThrows, NextPacket, NoEffect
<1>2. /\ DOMAIN limiter' \subseteq Limited /\ \A k \in DOMAIN limiter' : limiter'[k] \in Bucket
      /\ tries' \in [Limited -> 0..MaxDraws] /\ drawn' \in 0..MaxDraws
      /\ drawn' <= tries'["draw"]
  BY <1>1 DEF GInv, GTypeOK, DrawsTried
<1>3. EffectsFresh' /\ OwnRoomOnly' /\ AuthorResolved'
  BY <1>1 DEF EffectsFresh, OwnRoomOnly, AuthorResolved
<1> QED BY <1>1, <1>2, <1>3, HandlerKeepsInv

\* Every step of the connection keeps the invariant.
LEMMA GNextKeepsInv == GInv /\ [GNext]_gvars => GInv'
<1> SUFFICES ASSUME GInv, [GNext]_gvars PROVE GInv'
  OBVIOUS
<1>1. CASE UNCHANGED gvars
  BY <1>1 DEF gvars, ctxVars, pastVars, GInv, GTypeOK, TokenPresented, InboxWarranted, Warrant,
              RoomsByPhase, DrawsTried, EffectsFresh, MembershipKept, OwnRoomOnly, AllRoomsLeft,
              AuthorResolved
<1>2. CASE GNext
  BY <1>2, TickKeepsInv, HandshakeKeepsInv, ReceiveKeepsInv, OversizedKeepsInv, LeaveKeepsInv,
     JoinRoomKeepsInv, DrawKeepsInv, CursorMoveKeepsInv, ClearKeepsInv, AnswerKeepsInv
     DEF GNext, Handle
<1> QED BY <1>1, <1>2

-----------------------------------------------------------------------------
(* The limit on draws *)

\* What is left in the bucket for draws accounts for every draw granted and tried.
DrawBudget ==
  IF "draw" \in DOMAIN limiter
  THEN LET bucket == limiter["draw"] IN
       /\ bucket.lastRefill <= clock
       /\ bucket.tokens + drawn * TicksPerSec
            <= DrawConfig.capacity * TicksPerSec + DrawConfig.refillPerSec * bucket.lastRefill
       /\ bucket.tokens + tries["draw"] * TicksPerSec >= DrawConfig.capacity * TicksPerSec
  ELSE drawn = 0

\* A draw is refused only when draws alone used up the capacity.
RefusedWhenSpent ==
  last = [kind |-> "error", code |-> "RATE_LIMITED"] => tries["draw"] > DrawConfig.capacity

\* A draw keeps the account.
LEMMA DrawKeepsBudget ==
  ASSUME GInv, DrawBudget, Draw
  PROVE  DrawBudget' /\ RefusedWhenSpent'
<1> DEFINE bucket == BucketFor("draw")
<1>1. /\ DrawConfig \in Config /\ clock \in Nat /\ drawn \in Nat /\ tries["draw"] \in Nat
      /\ TicksPerSec \in Nat \ {0} /\ ConfigOf["draw"] = DrawConfig
  BY GatewayAssumption, TicksAssumption DEF GInv, GTypeOK, Limited, ConfigOf
<1>2. /\ DrawConfig.capacity \in Nat /\ DrawConfig.refillPerSec \in Nat
  BY <1>1 DEF Config
<1>3. bucket \in Bucket
  BY <1>1, CreateIsBucket DEF GInv, GTypeOK, BucketFor
<1>4. /\ bucket.lastRefill <= clock
      /\ bucket.tokens + drawn * TicksPerSec
           <= DrawConfig.capacity * TicksPerSec + DrawConfig.refillPerSec * bucket.lastRefill
      /\ bucket.tokens + tries["draw"] * TicksPerSec >= DrawConfig.capacity * TicksPerSec
  <2>1. CASE "draw" \in DOMAIN limiter
    BY <2>1 DEF DrawBudget, BucketFor
  <2>2. CASE "draw" \notin DOMAIN limiter
    <3>1. bucket = [tokens |-> DrawConfig.capacity * TicksPerSec, lastRefill |-> clock]
      BY <1>1, <2>2 DEF BucketFor, CreateBucket
    <3>2. drawn = 0 /\ drawn * TicksPerSec = 0
      BY <1>1, <2>2 DEF DrawBudget
    <3>3. /\ DrawConfig.capacity * TicksPerSec \in Nat /\ DrawConfig.refillPerSec * clock \in Nat
          /\ tries["draw"] * TicksPerSec \in Nat
      BY <1>1, <1>2
    <3> QED BY <1>1, <3>1, <3>2, <3>3
  <2> QED BY <2>1, <2>2
<1> HIDE DEF bucket
<1>5. /\ Consume(DrawConfig, bucket, clock).lastRefill = clock
      /\ Consume(DrawConfig, bucket, clock).tokens
           + (IF Granted(DrawConfig, bucket, clock) THEN drawn + 1 ELSE drawn) * TicksPerSec
           <= DrawConfig.capacity * TicksPerSec + DrawConfig.refillPerSec * clock
      /\ Consume(DrawConfig, bucket, clock).tokens + (tries["draw"] + 1) * TicksPerSec
           >= DrawConfig.capacity * TicksPerSec
      /\ ~Granted(DrawConfig, bucket, clock) => tries["draw"] >= DrawConfig.capacity
  BY <1>1, <1>3, <1>4, ConsumeBudget
<1>6. /\ "draw" \in DOMAIN limiter' /\ limiter'["draw"] = Consume(DrawConfig, bucket, clock)
      /\ clock' = clock
  BY <1>1 DEF Draw, TryConsume, HandlerFrame, bucket
<1>7. tries'["draw"] = tries["draw"] + 1
  BY TryConsumeType DEF Draw, GInv, Limited
<1>8. drawn' = IF Granted(DrawConfig, bucket, clock) THEN drawn + 1 ELSE drawn
  BY <1>1 DEF Draw, MayConsume, bucket
<1>9. DrawBudget'
  BY <1>1, <1>5, <1>6, <1>7, <1>8 DEF DrawBudget
<1>10. RefusedWhenSpent'
  <2>1. last' = [kind |-> "error", code |-> "RATE_LIMITED"] => ~MayConsume("draw")
    BY DEF Draw, NoEffect
  <2>2. ~MayConsume("draw") => ~Granted(DrawConfig, bucket, clock)
    BY <1>1 DEF MayConsume, bucket
  <2> QED BY <1>1, <1>2, <1>5, <1>7, <2>1, <2>2 DEF RefusedWhenSpent
<1> QED BY <1>9, <1>10

\* No other step touches the bucket or the counts; time only passes.
LEMMA NextKeepsBudget ==
  ASSUME GInv, GInv', DrawBudget, RefusedWhenSpent, [GNext]_gvars
  PROVE  DrawBudget' /\ RefusedWhenSpent'
<1>1. CASE Draw
  BY <1>1, DrawKeepsBudget
<1>2. CASE CursorMove
  <2>1. UNCHANGED <<clock, drawn>> /\ TryConsume("cursor-move")
    BY <1>2 DEF CursorMove, HandlerFrame
  <2>2. /\ "draw" \in DOMAIN limiter' <=> "draw" \in DOMAIN limiter
        /\ "draw" \in DOMAIN limiter => limiter'["draw"] = limiter["draw"]
    BY <2>1 DEF TryConsume
  <2>3. tries'["draw"] = tries["draw"]
    BY <2>1, TryConsumeType DEF GInv, Limited
  <2>4. last' # [kind |-> "error", code |-> "RATE_LIMITED"]
    BY <1>2 DEF CursorMove, NoEffect
  <2> QED BY <2>1, <2>2, <2>3, <2>4 DEF DrawBudget, RefusedWhenSpent
<1>3. ASSUME UNCHANGED <<limiter, tries, drawn>>, clock' >= clock,
             last' # [kind |-> "error", code |-> "RATE_LIMITED"] \/ last' = last
      PROVE  DrawBudget' /\ RefusedWhenSpent'
  <2>1. /\ clock \in Nat /\ clock' \in Nat
        /\ "draw" \in DOMAIN limiter => limiter["draw"].lastRefill \in Nat
    BY GatewayAssumption DEF GInv, GTypeOK, Bucket
  <2> QED BY <1>3, <2>1 DEF DrawBudget, RefusedWhenSpent
<1>4. clock \in Nat
  BY GatewayAssumption DEF GInv, GTypeOK
<1>5. CASE Tick
  BY <1>3, <1>4, <1>5 DEF Tick, ctxVars, pastVars, NoEffect
<1>6. CASE Handshake
  BY <1>3, <1>4, <1>6 DEF Handshake
<1>7. CASE \E p \in Packet : Receive(p)
  BY <1>3, <1>4, <1>7 DEF Receive, NoEffect
<1>8. CASE Oversized \/ Leave
  BY <1>3, <1>4, <1>8 DEF Oversized, Leave, ctxVars, pastVars, NoEffect
<1>9. CASE JoinRoom \/ Clear \/ RequestResync \/ HandlerThrows
  BY <1>3, <1>4, <1>9 DEF JoinRoom, Clear, RequestResync, HandlerThrows, HandlerFrame, NoEffect
<1>10. CASE UNCHANGED gvars
  BY <1>3, <1>4, <1>10 DEF gvars, ctxVars, pastVars
<1> QED BY <1>1, <1>2, <1>5, <1>6, <1>7, <1>8, <1>9, <1>10 DEF GNext, Handle

\* The account implies the limit.
LEMMA BudgetLimits ==
  ASSUME GInv, DrawBudget, RefusedWhenSpent
  PROVE  DrawsLimited
<1>1. /\ DrawConfig.capacity \in Nat /\ DrawConfig.refillPerSec \in Nat /\ clock \in Nat
      /\ drawn \in Nat /\ TicksPerSec \in Nat \ {0}
  BY GatewayAssumption, TicksAssumption DEF GInv, GTypeOK, Config
<1>2. DrawConfig.refillPerSec * clock \in Nat
  BY <1>1
<1> DEFINE limit == DrawConfig.refillPerSec * clock
<1>3. drawn * TicksPerSec <= DrawConfig.capacity * TicksPerSec + limit
  <2>1. CASE "draw" \in DOMAIN limiter
    <3>1. limiter["draw"].tokens \in Nat /\ limiter["draw"].lastRefill \in Nat
      BY <2>1 DEF GInv, GTypeOK, Bucket
    <3>2. DrawConfig.refillPerSec * limiter["draw"].lastRefill <= limit
      BY <1>1, <2>1, <3>1 DEF DrawBudget
    <3> QED BY <1>1, <1>2, <2>1, <3>1, <3>2 DEF DrawBudget
  <2>2. CASE "draw" \notin DOMAIN limiter
    BY <1>1, <1>2, <2>2 DEF DrawBudget
  <2> QED BY <2>1, <2>2
<1>4. (drawn - DrawConfig.capacity) * TicksPerSec <= limit
  <2>1. /\ drawn * TicksPerSec \in Nat /\ DrawConfig.capacity * TicksPerSec \in Nat
        /\ (drawn - DrawConfig.capacity) * TicksPerSec
             = drawn * TicksPerSec - DrawConfig.capacity * TicksPerSec
    BY <1>1
  <2> QED BY <1>2, <1>3, <2>1
<1> HIDE DEF limit
<1>5. drawn - DrawConfig.capacity <= limit \div TicksPerSec
  BY <1>1, <1>2, <1>4, QuotientBound DEF limit
<1>6. limit \div TicksPerSec \in Int
  BY <1>1, <1>2, Z3 DEF limit
<1> QED BY <1>1, <1>5, <1>6 DEF DrawsLimited, RefusedWhenSpent, limit

-----------------------------------------------------------------------------
(* The theorems *)

\* Every reachable state of a connection satisfies the inductive invariant.
THEOREM GatewayInvariance == GSpec => []GInv
<1>1. GInit => GInv
  BY GInitInv
<1>2. GInv /\ [GNext]_gvars => GInv'
  BY GNextKeepsInv
<1> QED BY <1>1, <1>2, PTL DEF GSpec

\* The types of the state of a connection (context.ts, rateLimiter.ts).
THEOREM GatewayTypes == GSpec => []GTypeOK
<1>1. GInv => GTypeOK
  BY DEF GInv
<1> QED BY <1>1, GatewayInvariance, PTL

\* The Auth_Guard's promise: whatever a handler does in a room, it does under a genuine
\* token for that room that has not expired.
THEOREM EffectsAuthorized == GSpec => []EffectsFresh
<1>1. GInv => EffectsFresh
  BY DEF GInv
<1> QED BY <1>1, GatewayInvariance, PTL

\* Messages go to rooms the connection is in, and when it closes it leaves them all
\* (joinRoom.ts never leaves one, disconnecting.ts leaves what it finds in socket.rooms).
THEOREM MembershipRespected == GSpec => []MembershipKept
<1>1. GInv => MembershipKept
  BY DEF GInv
<1> QED BY <1>1, GatewayInvariance, PTL

\* The author of a stroke was resolved by the guard: the fallback of draw.ts is dead.
THEOREM AuthorsResolved == GSpec => []AuthorResolved
<1>1. GInv => AuthorResolved
  BY DEF GInv
<1> QED BY <1>1, GatewayInvariance, PTL

\* The token bucket of a connection bounds its draws by the capacity and the refill, and
\* refuses none before the draws themselves have used up the capacity, whatever the
\* cursor moves on the same connection do.
THEOREM DrawsBounded == GSpec => []DrawsLimited
<1>1. GInit => DrawBudget /\ RefusedWhenSpent
  <2> SUFFICES ASSUME GInit PROVE DrawBudget /\ RefusedWhenSpent
    OBVIOUS
  <2>1. DOMAIN limiter = {} /\ drawn = 0 /\ last = [kind |-> "none"]
    BY DEF GInit, NoEffect
  <2>2. last # [kind |-> "error", code |-> "RATE_LIMITED"]
    BY <2>1
  <2> QED BY <2>1, <2>2 DEF DrawBudget, RefusedWhenSpent
<1>2. GInv /\ GInv' /\ DrawBudget /\ RefusedWhenSpent /\ [GNext]_gvars
        => DrawBudget' /\ RefusedWhenSpent'
  BY NextKeepsBudget
<1>3. GInv /\ DrawBudget /\ RefusedWhenSpent => DrawsLimited
  BY BudgetLimits
<1> QED BY <1>1, <1>2, <1>3, GatewayInvariance, PTL DEF GSpec

=============================================================================
