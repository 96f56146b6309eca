--------------------------- MODULE Presence_proofs ---------------------------
(***************************************************************************)
(* The inductive invariant of Presence and the safety properties that      *)
(* follow from it, for every set of sockets and every pool size.           *)
(***************************************************************************)
EXTENDS Presence, TLAPS

-----------------------------------------------------------------------------
(* The scripts *)

\* Removing users keeps the store well-typed, and frees no color that is still held.
LEMMA RemoveKeepsInv ==
  ASSUME Inv, NEW gone \in SUBSET Sockets, Remove(gone),
         UNCHANGED <<awaits, color>>, conn' \in [Sockets -> {"new", "open", "closing", "closed", "dead"}],
         \A s \in Sockets : conn'[s] = "new" => conn[s] = "new",
         members' \in [Sockets -> SUBSET Sockets], shown' \subseteq Sockets,
         failures' \in 0..MaxFailures, deaths' \in 0..MaxDeaths
  PROVE  Inv'
<1>1. TypeOK'
  <2>1. users' \in [Sockets -> Colors \union {NoColor}]
    BY DEF Inv, TypeOK, Remove
  <2>2. seen' \in [Sockets -> {"none", "fresh", "stale"}]
    BY DEF Inv, TypeOK, Remove
  <2>3. colors' \subseteq Colors /\ usersTtl' \in Ttl /\ colorsTtl' \in Ttl
    BY DEF Inv, TypeOK, Remove, Ttl
  <2>4. registered' \in BOOLEAN /\ shared' \in BOOLEAN
    BY Zenon DEF Inv, TypeOK, Remove, StillRegistered
  <2> QED BY <2>1, <2>2, <2>3, <2>4 DEF Inv, TypeOK
<1>2. \A s \in Sockets : users'[s] = (IF s \in gone THEN NoColor ELSE users[s])
  BY DEF Remove
<1>3. NotYetRegistered'
  BY <1>2 DEF Inv, NotYetRegistered, TypeOK
<1>4. HeldReserved'
  <2> SUFFICES ASSUME ~shared
               PROVE  /\ \A s \in Holders' : Held(s)' \in colors'
                      /\ \A s, t \in Holders' : Held(s)' = Held(t)' => s = t
    BY DEF HeldReserved, Remove
  <2>1. \A s \in Holders' : s \in Holders /\ Held(s)' = Held(s)
    BY <1>2 DEF Holders, Held, Inv, NotYetRegistered
  <2>2. \A s, t \in Holders : Held(s) = Held(t) => s = t
    BY DEF Inv, HeldReserved
  <2>3. ASSUME NEW s \in Holders'
        PROVE  Held(s)' \in colors'
    <3>1. s \in Holders /\ Held(s)' = Held(s) /\ Held(s) \in colors
      BY <2>1 DEF Inv, HeldReserved
    <3>2. ASSUME NEW t \in gone \intersect Present(users)
          PROVE  users[t] # Held(s)
      <4>1. t \in Holders /\ Held(t) = users[t]
        BY DEF Present, Holders, Held
      <4>2. s # t
        BY <1>2 DEF Present, Holders, Inv, NotYetRegistered
      <4> QED BY <4>1, <4>2, <3>1, <2>2
    <3> QED BY <3>1, <3>2 DEF Remove
  <2> QED BY <2>1, <2>2, <2>3
<1>5. SweepReaches'
  <2> SUFFICES ASSUME NEW s \in Present(users')
               PROVE  registered' /\ seen'[s] # "none"
    BY DEF SweepReaches
  <2>1. s \in Present(users) \ gone
    BY <1>2 DEF Present
  <2>2. registered /\ seen[s] # "none"
    BY <2>1 DEF Inv, SweepReaches
  <2> QED BY <2>1, <2>2 DEF Remove, StillRegistered, Present
<1> QED BY <1>1, <1>3, <1>4, <1>5 DEF Inv

\* The color handed out is nobody's, unless the pool is exhausted.
LEMMA AllocatedColor ==
  ASSUME Inv, NEW c, Allocated(c)
  PROVE  c \in Colors /\ (colors # Colors => c \notin colors)
BY PoolAssumption DEF Allocated, FirstFree, Colors

\* The allocation reserves a color, whether the handler learns of it or not.
LEMMA AllocateKeepsInv ==
  ASSUME Inv, NEW s \in Sockets, NEW c, awaits[s] = "allocate", AllocateScript(c),
         UNCHANGED <<conn, shown>>, members' \in [Sockets -> SUBSET Sockets],
         \/ /\ awaits' = [awaits EXCEPT ![s] = "register"]
            /\ color' = [color EXCEPT ![s] = c]
         \/ /\ awaits' = [awaits EXCEPT ![s] = "nothing"]
            /\ color' = [color EXCEPT ![s] = NoColor],
         failures' \in 0..MaxFailures, deaths' \in 0..MaxDeaths
  PROVE  Inv'
<1>1. c \in Colors /\ (colors # Colors => c \notin colors)
  BY AllocatedColor DEF AllocateScript
<1>2. c # NoColor
  BY <1>1 DEF Colors, NoColor
<1>3. users[s] = NoColor /\ conn[s] # "new"
  BY DEF Inv, NotYetRegistered
<1>4. TypeOK'
  <2>1. colors' \subseteq Colors
    BY <1>1 DEF Inv, TypeOK, AllocateScript, Reserved
  <2>2. color' \in [Sockets -> Colors \union {NoColor}]
    BY <1>1 DEF Inv, TypeOK
  <2>3. awaits' \in [Sockets -> {"nothing", "allocate", "register", "refresh", "history"}]
    BY DEF Inv, TypeOK
  <2>4. shared' \in BOOLEAN
    BY Zenon DEF Inv, TypeOK, AllocateScript
  <2>5. UNCHANGED <<users, seen, registered, usersTtl, colorsTtl>>
    BY DEF AllocateScript
  <2> QED BY <2>1, <2>2, <2>3, <2>4, <2>5 DEF Inv, TypeOK
<1>5. NotYetRegistered'
  BY <1>2, <1>3 DEF Inv, TypeOK, NotYetRegistered, AllocateScript
<1>6. HeldReserved'
  <2> SUFFICES ASSUME ~shared'
               PROVE  /\ \A t \in Holders' : Held(t)' \in colors'
                      /\ \A t, r \in Holders' : Held(t)' = Held(r)' => t = r
    BY DEF HeldReserved
  <2>1. ~shared /\ colors # Colors
    BY Zenon DEF AllocateScript
  <2>2. colors' = colors \union {c} /\ c \notin colors
    BY <1>1, <2>1 DEF AllocateScript, Reserved
  <2>3. s \in Holders' => Held(s)' = c
    BY <1>3 DEF Holders, Held, Inv, TypeOK, AllocateScript
  <2>4. \A t \in Holders' : t # s => t \in Holders /\ Held(t)' = Held(t)
    BY DEF Holders, Held, Inv, TypeOK, AllocateScript
  <2>5. /\ \A t \in Holders : Held(t) \in colors
        /\ \A t, r \in Holders : Held(t) = Held(r) => t = r
    BY <2>1 DEF Inv, HeldReserved
  <2> QED BY <2>2, <2>3, <2>4, <2>5
<1>7. SweepReaches'
  BY DEF Inv, SweepReaches, AllocateScript, Present
<1> QED BY <1>4, <1>5, <1>6, <1>7 DEF Inv

\* A registration turns the color of a join into that of a user, and makes the user
\* reachable for sweep.
LEMMA JoinScriptKeepsInv ==
  ASSUME Inv, NEW s \in Sockets, awaits[s] = "register", JoinScript(s),
         UNCHANGED conn,
         \/ awaits' = [awaits EXCEPT ![s] = "refresh"] /\ color' = color
         \/ /\ awaits' = [awaits EXCEPT ![s] = "nothing"]
            /\ color' = [color EXCEPT ![s] = NoColor],
         members' \in [Sockets -> SUBSET Sockets], shown' \subseteq Sockets,
         failures' \in 0..MaxFailures, deaths' \in 0..MaxDeaths
  PROVE  Inv'
<1>1. users[s] = NoColor /\ color[s] # NoColor /\ conn[s] # "new"
  BY DEF Inv, NotYetRegistered
<1>2. color[s] \in Colors
  BY <1>1 DEF Inv, TypeOK
<1>3. users' = [users EXCEPT ![s] = color[s]] /\ users'[s] = color[s]
  BY DEF JoinScript, Inv, TypeOK
<1>4. TypeOK'
  <2>1. users' \in [Sockets -> Colors \union {NoColor}] /\ colors' \subseteq Colors
    BY <1>2 DEF Inv, TypeOK, JoinScript
  <2>2. /\ awaits' \in [Sockets -> {"nothing", "allocate", "register", "refresh", "history"}]
        /\ color' \in [Sockets -> Colors \union {NoColor}]
        /\ seen' \in [Sockets -> {"none", "fresh", "stale"}]
    BY DEF Inv, TypeOK, JoinScript
  <2>3. registered' \in BOOLEAN
    BY Zenon DEF JoinScript
  <2>4. UNCHANGED <<usersTtl, colorsTtl, shared>>
    BY DEF JoinScript
  <2> QED BY <2>1, <2>2, <2>3, <2>4 DEF Inv, TypeOK
<1>5. NotYetRegistered'
  BY <1>1, <1>3 DEF Inv, TypeOK, NotYetRegistered
<1>6. HeldReserved'
  <2>1. Holders' = Holders
    BY <1>1, <1>3 DEF Holders, Inv, TypeOK
  <2>2. \A t \in Holders : Held(t)' = Held(t)
    BY <1>1, <1>3 DEF Held, Holders, Inv, TypeOK
  <2>3. colors \subseteq colors' /\ shared' = shared
    BY DEF JoinScript
  <2> QED BY <2>1, <2>2, <2>3 DEF Inv, HeldReserved
<1>7. SweepReaches'
  <2> SUFFICES ASSUME NEW t \in Present(users')
               PROVE  registered' /\ seen'[t] # "none"
    BY DEF SweepReaches
  <2>1. registered'
    BY DEF JoinScript
  <2>2. seen' = [seen EXCEPT ![s] = "fresh"]
    BY DEF JoinScript
  <2>3. t # s => seen[t] # "none"
    BY <1>3 DEF Present, Inv, TypeOK, SweepReaches
  <2> QED BY <2>1, <2>2, <2>3 DEF Inv, TypeOK, Present
<1> QED BY <1>4, <1>5, <1>6, <1>7 DEF Inv

-----------------------------------------------------------------------------
(* The other steps *)

\* A step that changes neither users nor colors, that starts no registration, and
\* forgets nobody's score, keeps the invariant.
LEMMA QuietKeepsInv ==
  ASSUME Inv, TypeOK', UNCHANGED <<users, colors, registered, shared>>,
         \A s \in Sockets :
            /\ \/ awaits'[s] = awaits[s] /\ color'[s] = color[s]
               \/ awaits'[s] \notin {"allocate", "register"}
               \/ awaits'[s] = "allocate" /\ users[s] = NoColor
            /\ conn'[s] = "new" => conn[s] = "new" /\ awaits'[s] = awaits[s]
            /\ seen[s] # "none" => seen'[s] # "none"
  PROVE  Inv'
<1>1. NotYetRegistered'
  BY DEF Inv, NotYetRegistered
<1>2. HeldReserved'
  <2>1. \A s \in Holders' : s \in Holders /\ Held(s)' = Held(s)
    BY DEF Holders, Held
  <2> QED BY <2>1 DEF Inv, HeldReserved
<1>3. SweepReaches'
  BY DEF Inv, SweepReaches, Present
<1> QED BY <1>1, <1>2, <1>3 DEF Inv

\* The end of the users key removes every user and leaves the colors of the joins
\* under way where they are.
LEMMA UsersExpireKeepsInv ==
  ASSUME Inv, UsersExpire
  PROVE  Inv'
<1>0. \A s \in Sockets : users'[s] = NoColor
  BY DEF UsersExpire
<1>1. TypeOK'
  BY DEF Inv, TypeOK, UsersExpire, processVars, boundVars, Ttl
<1>2. NotYetRegistered'
  BY <1>0 DEF Inv, NotYetRegistered, UsersExpire, processVars
<1>3. HeldReserved'
  <2>1. \A s \in Holders' : s \in Holders /\ Held(s)' = Held(s)
    BY <1>0 DEF Holders, Held, Inv, NotYetRegistered, UsersExpire, processVars
  <2> QED BY <2>1 DEF Inv, HeldReserved, UsersExpire
<1>4. SweepReaches'
  BY <1>0 DEF SweepReaches, Present
<1> QED BY <1>1, <1>2, <1>3, <1>4 DEF Inv

\* The end of the colors key takes the color of every holder: none is left, or the
\* history variable says so.
LEMMA ColorsExpireKeepsInv ==
  ASSUME Inv, ColorsExpire
  PROVE  Inv'
<1>1. TypeOK'
  <2>1. shared' \in BOOLEAN
    BY Zenon DEF ColorsExpire, Inv, TypeOK
  <2> QED BY <2>1 DEF Inv, TypeOK, ColorsExpire, processVars, boundVars, Ttl
<1>2. NotYetRegistered'
  BY DEF Inv, NotYetRegistered, ColorsExpire, processVars
<1>3. HeldReserved'
  <2>1. Holders' = Holders
    BY DEF Holders, ColorsExpire, processVars
  <2>2. ~shared' => Holders = {}
    BY Zenon DEF ColorsExpire
  <2> QED BY <2>1, <2>2 DEF HeldReserved
<1>4. SweepReaches'
  BY DEF Inv, SweepReaches, Present, ColorsExpire
<1> QED BY <1>1, <1>2, <1>3, <1>4 DEF Inv

\* The EXPIRE commands keep the types.
LEMMA RefreshTtlTypes ==
  ASSUME RefreshTtl
  PROVE  usersTtl' \in Ttl /\ colorsTtl' \in Ttl
BY DEF RefreshTtl, Ttl

\* The invariant holds initially.
LEMMA InitInv == Init => Inv
<1> SUFFICES ASSUME Init PROVE Inv
  OBVIOUS
<1>1. TypeOK
  <2>1. registered \in BOOLEAN /\ shared \in BOOLEAN
    BY Zenon DEF Init
  <2>2. failures \in 0..MaxFailures /\ deaths \in 0..MaxDeaths
    BY PresenceBoundsAssumption DEF Init
  <2> QED BY <2>1, <2>2 DEF Init, TypeOK, Ttl
<1>2. NotYetRegistered
  BY DEF Init, NotYetRegistered
<1>3. HeldReserved
  BY DEF Init, HeldReserved, Holders
<1>4. SweepReaches
  BY DEF Init, SweepReaches, Present
<1> QED BY <1>1, <1>2, <1>3, <1>4 DEF Inv

\* The steps of join-room keep the invariant, its failures at every await included.
LEMMA JoinStepsKeepInv ==
  ASSUME Inv, NEW s \in Sockets,
         \/ JoinRoom(s) \/ AllocateColor(s) \/ Register(s) \/ RefreshAfterJoin(s)
         \/ AnnounceJoin(s) \/ JoinFails(s)
  PROVE  Inv'
<1>1. CASE JoinRoom(s)
  <2>1. TypeOK'
    BY <1>1 DEF Inv, TypeOK, JoinRoom, storeVars, boundVars
  <2>2. users[s] = NoColor
    BY <1>1 DEF JoinRoom, Inv, NotYetRegistered
  <2> QED
    BY <1>1, <2>1, <2>2, QuietKeepsInv DEF JoinRoom, storeVars, Inv, TypeOK
<1>2. CASE AllocateColor(s)
  <2>1. PICK c \in Colors \union {NoColor} :
              AllocateScript(c) /\ color' = [color EXCEPT ![s] = c]
    BY <1>2 DEF AllocateColor
  <2> QED
    BY <1>2, <2>1, AllocateKeepsInv DEF AllocateColor, boundVars, Inv, TypeOK
<1>3. CASE Register(s)
  <2>1. members' \in [Sockets -> SUBSET Sockets]
    BY <1>3 DEF Register, Inv, TypeOK, Present
  <2> QED
    BY <1>3, <2>1, JoinScriptKeepsInv DEF Register, boundVars, Inv, TypeOK
<1>4. CASE RefreshAfterJoin(s)
  <2>1. TypeOK'
    BY <1>4, RefreshTtlTypes DEF Inv, TypeOK, RefreshAfterJoin, ExpireCommands, boundVars
  <2>2. conn[s] # "new"
    BY <1>4 DEF RefreshAfterJoin, Inv, NotYetRegistered
  <2> QED
    BY <1>4, <2>1, <2>2, QuietKeepsInv DEF RefreshAfterJoin, ExpireCommands, Inv, TypeOK
<1>5. CASE AnnounceJoin(s)
  <2>1. TypeOK'
    BY <1>5 DEF Inv, TypeOK, AnnounceJoin, HandlerEnds, storeVars, boundVars
  <2>2. conn[s] # "new"
    BY <1>5 DEF AnnounceJoin, Inv, NotYetRegistered
  <2> QED
    BY <1>5, <2>1, <2>2, QuietKeepsInv DEF AnnounceJoin, HandlerEnds, storeVars, Inv, TypeOK
<1>6. CASE JoinFails(s)
  <2>1. /\ awaits' = [awaits EXCEPT ![s] = "nothing"]
        /\ color' = [color EXCEPT ![s] = NoColor]
        /\ members' \in [Sockets -> SUBSET Sockets]
        /\ failures' \in 0..MaxFailures /\ deaths' \in 0..MaxDeaths
        /\ UNCHANGED <<conn, shown>> /\ conn[s] # "new"
    BY <1>6, PresenceBoundsAssumption
    DEF JoinFails, HandlerEnds, Inv, TypeOK, NotYetRegistered
  <2>2. CASE UNCHANGED storeVars \/ ExpireCommands
    <3>1. /\ UNCHANGED <<users, colors, seen, registered, shared>>
          /\ usersTtl' \in Ttl /\ colorsTtl' \in Ttl
      BY <2>2, RefreshTtlTypes DEF storeVars, ExpireCommands, Inv, TypeOK
    <3>2. TypeOK'
      BY <2>1, <3>1 DEF Inv, TypeOK
    <3> QED
      BY <2>1, <3>1, <3>2, QuietKeepsInv DEF Inv, TypeOK
  <2>3. CASE awaits[s] = "allocate" /\ \E c \in Colors \union {NoColor} : AllocateScript(c)
    <3>1. PICK c \in Colors \union {NoColor} : AllocateScript(c)
      BY <2>3
    <3> QED
      BY <2>1, <2>3, <3>1, AllocateKeepsInv DEF Inv, TypeOK
  <2>4. CASE awaits[s] = "register" /\ JoinScript(s)
    BY <2>1, <2>4, JoinScriptKeepsInv DEF Inv, TypeOK
  <2> QED BY <1>6, <2>2, <2>3, <2>4 DEF JoinFails
<1> QED BY <1>1, <1>2, <1>3, <1>4, <1>5, <1>6

\* The steps of the other handlers keep the invariant.
LEMMA OtherStepsKeepInv ==
  ASSUME Inv, NEW s \in Sockets,
         \/ CursorMove(s) \/ CursorMoveFails(s) \/ Heartbeat(s)
         \/ Disconnect(s) \/ Leave(s) \/ LeaveFails(s)
         \/ Age(s) \/ Die(s)
  PROVE  Inv'
<1>1. CASE CursorMove(s) \/ CursorMoveFails(s)
  <2>1. /\ seen' \in [Sockets -> {"none", "fresh", "stale"}]
        /\ \A t \in Sockets : seen[t] # "none" => seen'[t] # "none"
        /\ UNCHANGED <<users, colors, registered, shared>>
    BY <1>1 DEF CursorMove, CursorMoveFails, Touch, Inv, TypeOK
  <2>2. usersTtl' \in Ttl /\ colorsTtl' \in Ttl
    BY <1>1, RefreshTtlTypes DEF CursorMove, CursorMoveFails, Inv, TypeOK
  <2>3. failures' \in 0..MaxFailures /\ deaths' = deaths
    BY <1>1, PresenceBoundsAssumption
    DEF CursorMove, CursorMoveFails, boundVars, Inv, TypeOK
  <2>4. UNCHANGED processVars
    BY <1>1 DEF CursorMove, CursorMoveFails
  <2>5. TypeOK'
    BY <2>1, <2>2, <2>3, <2>4 DEF Inv, TypeOK, processVars
  <2> QED BY <2>1, <2>4, <2>5, QuietKeepsInv DEF processVars
<1>2. CASE Heartbeat(s)
  BY <1>1, <1>2 DEF Heartbeat
<1>3. CASE Disconnect(s)
  <2>1. TypeOK'
    BY <1>3 DEF Inv, TypeOK, Disconnect, storeVars, boundVars
  <2> QED BY <1>3, <2>1, QuietKeepsInv DEF Disconnect, storeVars, Inv, TypeOK
<1>4. CASE Leave(s)
  <2>1. /\ conn' \in [Sockets -> {"new", "open", "closing", "closed", "dead"}]
        /\ \A t \in Sockets : conn'[t] = "new" => conn[t] = "new"
    BY <1>4 DEF Leave, Inv, TypeOK
  <2>2. shown' \subseteq Sockets
    BY <1>4 DEF Leave, Present
  <2> QED BY <1>4, <2>1, <2>2, RemoveKeepsInv DEF Leave, LeaveScript, boundVars, Inv, TypeOK
<1>5. CASE LeaveFails(s)
  <2>1. /\ conn' \in [Sockets -> {"new", "open", "closing", "closed", "dead"}]
        /\ \A t \in Sockets : conn'[t] = "new" => conn[t] = "new"
        /\ failures' \in 0..MaxFailures /\ deaths' \in 0..MaxDeaths
        /\ UNCHANGED <<awaits, color, members, shown>>
    BY <1>5, PresenceBoundsAssumption DEF LeaveFails, Inv, TypeOK
  <2>2. CASE LeaveScript(s)
    BY <2>1, <2>2, RemoveKeepsInv DEF LeaveScript, Inv, TypeOK
  <2>3. CASE UNCHANGED storeVars
    <3>1. TypeOK'
      BY <2>1, <2>3 DEF Inv, TypeOK, storeVars
    <3>2. \A t \in Sockets : conn'[t] = "new" => conn[t] = "new"
      BY <2>1
    <3> QED BY <2>1, <2>3, <3>1, QuietKeepsInv DEF storeVars
  <2> QED BY <1>5, <2>2, <2>3 DEF LeaveFails
<1>6. CASE Age(s)
  <2>1. TypeOK'
    BY <1>6 DEF Inv, TypeOK, Age, processVars, boundVars
  <2> QED BY <1>6, <2>1, QuietKeepsInv DEF Age, processVars, Inv, TypeOK
<1>7. CASE Die(s)
  <2>1. failures' \in 0..MaxFailures /\ deaths' \in 0..MaxDeaths
    BY <1>7, PresenceBoundsAssumption DEF Die, Inv, TypeOK
  <2>2. TypeOK'
    BY <1>7, <2>1 DEF Inv, TypeOK, Die, HandlerEnds, storeVars
  <2> QED BY <1>7, <2>2, QuietKeepsInv DEF Die, HandlerEnds, storeVars, Inv, TypeOK
<1> QED BY <1>1, <1>2, <1>3, <1>4, <1>5, <1>6, <1>7

\* Every step keeps the invariant.
LEMMA NextKeepsInv == Inv /\ [Next]_vars => Inv'
<1> SUFFICES ASSUME Inv, [Next]_vars PROVE Inv'
  OBVIOUS
<1>1. ASSUME NEW s \in Sockets, Step(s) PROVE Inv'
  BY <1>1, JoinStepsKeepInv, OtherStepsKeepInv DEF Step
<1>2. CASE Sweep
  BY <1>2, RemoveKeepsInv DEF Sweep, SweepScript, processVars, boundVars, Inv, TypeOK
<1>3. CASE KeysAge
  <2>1. usersTtl' \in Ttl /\ colorsTtl' \in Ttl
    BY <1>3 DEF KeysAge, Inv, TypeOK, Ttl
  <2>2. TypeOK'
    BY <1>3, <2>1 DEF Inv, TypeOK, KeysAge, processVars, boundVars
  <2> QED BY <1>3, <2>2, QuietKeepsInv DEF KeysAge, processVars
<1>4. CASE UsersExpire
  BY <1>4, UsersExpireKeepsInv
<1>5. CASE ColorsExpire
  BY <1>5, ColorsExpireKeepsInv
<1>6. CASE UNCHANGED vars
  BY <1>6 DEF vars, processVars, storeVars, boundVars, Inv, TypeOK, NotYetRegistered,
              HeldReserved, Holders, Held, SweepReaches, Present
<1> QED BY <1>1, <1>2, <1>3, <1>4, <1>5, <1>6 DEF Next, Idle

-----------------------------------------------------------------------------
(* Times to live *)

\* A step takes no time to live away while it leaves the key, and no join that has yet to
\* refresh the key gives up, unless a call failed or a process died.
KeysKept ==
  /\ \/ Present(users') = {}
     \/ usersTtl' # "none"
     \/ \E s \in Sockets : awaits'[s] = "refresh"
     \/ /\ Present(users) # {} /\ usersTtl' = usersTtl
        /\ \A s \in Sockets : awaits[s] = "refresh" => awaits'[s] = "refresh"
  /\ \/ colors' = {}
     \/ colorsTtl' # "none"
     \/ \E s \in Sockets : awaits'[s] \in {"register", "refresh"}
     \/ /\ colors # {} /\ colorsTtl' = colorsTtl
        /\ \A s \in Sockets :
             awaits[s] \in {"register", "refresh"} => awaits'[s] \in {"register", "refresh"}

\* The EXPIRE commands leave no key without a time to live.
LEMMA RefreshGivesTtl ==
  ASSUME RefreshTtl, Present(users') = Present(users), colors' = colors
  PROVE  KeysKept
BY DEF RefreshTtl, KeysKept

\* Removing users leaves the time to live of what it leaves.
LEMMA RemoveKeepsKeys ==
  ASSUME NEW gone, Remove(gone), awaits' = awaits
  PROVE  KeysKept
<1>1. Present(users') = Present(users) \ gone
  BY DEF Remove, Present
<1>2. /\ usersTtl' = IF Present(users) \ gone = {} THEN "none" ELSE usersTtl
      /\ colorsTtl' = IF colors' = {} THEN "none" ELSE colorsTtl
      /\ colors' \subseteq colors
  BY DEF Remove
<1> QED BY <1>1, <1>2 DEF KeysKept

\* A step that fails no call and kills no process keeps the keys.
LEMMA StepsKeepKeys ==
  ASSUME TypeOK, NotYetRegistered, Next, failures' = failures, deaths' = deaths
  PROVE  KeysKept
<1>1. \A s \in Sockets : ~JoinFails(s) /\ ~CursorMoveFails(s) /\ ~LeaveFails(s) /\ ~Die(s)
  <2>1. failures \in Nat /\ deaths \in Nat
    BY PresenceBoundsAssumption DEF TypeOK
  <2> QED BY <2>1 DEF JoinFails, CursorMoveFails, LeaveFails, Die
<1>2. ASSUME NEW s \in Sockets, JoinRoom(s) PROVE KeysKept
  <2>1. /\ awaits[s] = "nothing"
        /\ \A t \in Sockets \ {s} : awaits'[t] = awaits[t]
    BY <1>2 DEF JoinRoom, TypeOK, NotYetRegistered
  <2> QED BY <1>2, <2>1 DEF JoinRoom, storeVars, KeysKept
<1>3. ASSUME NEW s \in Sockets, AllocateColor(s) PROVE KeysKept
  <2>1. /\ awaits'[s] = "register" /\ awaits[s] = "allocate"
        /\ \A t \in Sockets \ {s} : awaits'[t] = awaits[t]
        /\ users' = users /\ usersTtl' = usersTtl
    BY <1>3 DEF AllocateColor, AllocateScript, TypeOK
  <2> QED BY <2>1 DEF KeysKept
<1>4. ASSUME NEW s \in Sockets, Register(s) PROVE KeysKept
  <2>1. awaits'[s] = "refresh"
    BY <1>4 DEF Register, TypeOK
  <2> QED BY <2>1 DEF KeysKept
<1>5. ASSUME NEW s \in Sockets, RefreshAfterJoin(s) PROVE KeysKept
  BY <1>5, RefreshGivesTtl DEF RefreshAfterJoin, ExpireCommands
<1>6. ASSUME NEW s \in Sockets, AnnounceJoin(s) PROVE KeysKept
  <2>1. /\ awaits[s] = "history"
        /\ \A t \in Sockets \ {s} : awaits'[t] = awaits[t]
    BY <1>6 DEF AnnounceJoin, HandlerEnds, TypeOK
  <2> QED BY <1>6, <2>1 DEF AnnounceJoin, storeVars, KeysKept
<1>7. ASSUME NEW s \in Sockets, CursorMove(s) PROVE KeysKept
  BY <1>7, RefreshGivesTtl DEF CursorMove, Touch
<1>8. ASSUME NEW s \in Sockets, Disconnect(s) PROVE KeysKept
  BY <1>8 DEF Disconnect, storeVars, KeysKept
<1>9. ASSUME NEW s \in Sockets, Leave(s) PROVE KeysKept
  BY <1>9, RemoveKeepsKeys DEF Leave, LeaveScript
<1>10. ASSUME NEW s \in Sockets, Age(s) PROVE KeysKept
  BY <1>10 DEF Age, processVars, KeysKept
<1>11. ASSUME Sweep PROVE KeysKept
  BY <1>11, RemoveKeepsKeys DEF Sweep, SweepScript, processVars
<1>12. ASSUME KeysAge PROVE KeysKept
  BY <1>12 DEF KeysAge, processVars, KeysKept
<1>13. ASSUME UsersExpire PROVE KeysKept
  BY <1>13 DEF UsersExpire, processVars, KeysKept, Present
<1>14. ASSUME ColorsExpire PROVE KeysKept
  BY <1>14 DEF ColorsExpire, processVars, KeysKept
<1>15. ASSUME UNCHANGED vars PROVE KeysKept
  BY <1>15 DEF vars, processVars, storeVars, KeysKept
<1>16. ASSUME NEW s \in Sockets, Step(s) PROVE KeysKept
  BY <1>1, <1>2, <1>3, <1>4, <1>5, <1>6, <1>7, <1>8, <1>9, <1>10, <1>16 DEF Step, Heartbeat
<1> QED BY <1>11, <1>12, <1>13, <1>14, <1>15, <1>16 DEF Next, Idle

LEMMA NextKeepsTtl ==
  ASSUME TypeOK, NotYetRegistered, KeysExpirable, [Next]_vars
  PROVE  KeysExpirable'
<1> SUFFICES ASSUME failures' = 0, deaths' = 0
             PROVE  /\ Present(users') # {} =>
                         usersTtl' # "none" \/ \E s \in Sockets : awaits'[s] = "refresh"
                    /\ colors' # {} =>
                         \/ colorsTtl' # "none"
                         \/ \E s \in Sockets : awaits'[s] \in {"register", "refresh"}
  BY DEF KeysExpirable, Present
<1>1. failures = 0 /\ deaths = 0
  <2>1. failures \in Nat /\ deaths \in Nat
    BY PresenceBoundsAssumption DEF TypeOK
  <2>2. failures <= failures' /\ deaths <= deaths'
    <3>1. CASE UNCHANGED vars
      BY <2>1, <3>1 DEF vars, boundVars
    <3>2. ASSUME NEW s \in Sockets, Step(s) PROVE failures <= failures' /\ deaths <= deaths'
      BY <2>1, <3>2 DEF Step, JoinRoom, AllocateColor, Register, RefreshAfterJoin, AnnounceJoin,
           JoinFails, CursorMove, CursorMoveFails, Heartbeat, Disconnect, Leave, LeaveFails, Age,
           Die, boundVars
    <3>3. CASE Sweep \/ KeysAge \/ UsersExpire \/ ColorsExpire
      BY <2>1, <3>3 DEF Sweep, KeysAge, UsersExpire, ColorsExpire, boundVars
    <3> QED BY <3>1, <3>2, <3>3 DEF Next, Idle
  <2> QED BY <2>1, <2>2
<1>2. KeysKept
  <2>1. CASE Next
    BY <1>1, <2>1, StepsKeepKeys
  <2>2. CASE UNCHANGED vars
    BY <2>2 DEF vars, processVars, storeVars, KeysKept
  <2> QED BY <2>1, <2>2
<1> QED BY <1>1, <1>2 DEF KeysExpirable, KeysKept

-----------------------------------------------------------------------------
(* The theorems *)

\* The colors held in a room are reserved and differ, and users and joins are where
\* the scripts and the handlers put them, in every reachable state.
THEOREM PresenceInvariant == Spec => []Inv
BY InitInv, NextKeepsInv, PTL DEF Spec

\* The store and the processes are well-typed: every color handed out is one of the
\* pool, although the pool can be exhausted (allocation script, line 85).
THEOREM PresenceTypes == Spec => []TypeOK
<1>1. Inv => TypeOK
  BY DEF Inv
<1> QED BY <1>1, PresenceInvariant, PTL

\* While the pool was never exhausted and the colors never expired under a holder,
\* registered users have different colors.
THEOREM ColorsStayDistinct == Spec => []ColorsDistinct
<1>1. Inv => ColorsDistinct
  BY DEF Inv, HeldReserved, ColorsDistinct, Present, Holders, Held
<1> QED BY <1>1, PresenceInvariant, PTL

\* Every registered user has a score in a room that sweep visits.
THEOREM EveryUserIsReachable == Spec => []SweepReaches
<1>1. Inv => SweepReaches
  BY DEF Inv
<1> QED BY <1>1, PresenceInvariant, PTL

\* While no call failed and no process was killed, every key of the room has a time to
\* live, or a join is on its way to give it one.
THEOREM KeysGetTtl == Spec => []KeysExpirable
<1>1. Init => KeysExpirable
  BY DEF Init, KeysExpirable, Present
<1>2. Inv /\ KeysExpirable /\ [Next]_vars => KeysExpirable'
  BY NextKeepsTtl DEF Inv
<1> QED BY <1>1, <1>2, PresenceInvariant, PTL DEF Spec

=============================================================================
