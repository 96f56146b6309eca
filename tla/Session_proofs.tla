--------------------------- MODULE Session_proofs ---------------------------
(***************************************************************************)
(* Proofs about a browser tab: the throttle of its cursor frames, the      *)
(* strokes of its pointer, and the agreement of the connection, the input  *)
(* and the board shown, for every number of boards, names, visits,         *)
(* disconnections and pointers.                                            *)
(*                                                                         *)
(* The steps of the pointer input are proved about once, as PStep, for a   *)
(* board by itself (Pointer) and for the tab (Session).                    *)
(***************************************************************************)
EXTENDS Session, TLAPS

USE PointerAssumption, SessionAssumption

-----------------------------------------------------------------------------
(* The pointer input *)

\* What a tab does with its input, whatever else the step does.
PStep ==
  \/ AttachInput /\ UNCHANGED pastVars
  \/ DetachInput /\ UNCHANGED pastVars
  \/ \E p \in Pointers : OnDown(p) \/ OnMove(p) \/ OnUp(p)
  \/ TrailingCall
  \/ Advance

\* Nothing is sampled, waits or has been sent at first.
LEMMA PInitInv == PInit => PInv /\ AnchorIsPress /\ OnePress
<1> SUFFICES ASSUME PInit PROVE PInv /\ AnchorIsPress /\ OnePress
  OBVIOUS
<1> USE DEF PInit, None, NoPress
<1>1. PTypeOK
  <2>1. attached \in BOOLEAN /\ panning \in BOOLEAN
    OBVIOUS
  <2>2. \A p \in Pointers : down[p] = 0
    OBVIOUS
  <2>3. down \in [Pointers -> 0..presses]
    OBVIOUS
  <2>4. /\ last \in -Interval..clock /\ clock \in 0..MaxClock
        /\ presses \in 0..MaxPresses /\ moves \in 0..MaxMoves
        /\ emitted \in [move : 0..moves, at : -Interval..clock]
    OBVIOUS
  <2> QED BY <2>1, <2>3, <2>4 DEF PTypeOK
<1>2. FramesInOrder /\ IdleWhenDetached
  BY DEF FramesInOrder, IdleWhenDetached
<1>3. AnchorIsPress /\ OnePress
  BY DEF AnchorIsPress, OnePress
<1> QED BY <1>1, <1>2, <1>3 DEF PInv

\* A call of the throttle for the move just made: it is sent when the window is over, and
\* waits for the end of the window otherwise.
LEMMA ThrottledKeeps ==
  ASSUME PInv, attached, moves' = moves + 1, clock' = clock, Throttled(moves')
  PROVE  /\ last' \in -Interval..clock'
         /\ timer' \in 0..MaxClock + Interval \union {None}
         /\ pendingArgs' \in 1..moves' \union {None}
         /\ timer' # None => pendingArgs' # None
         /\ emitted' \in [move : 0..moves', at : -Interval..clock']
         /\ FramesInOrder'
<1>1. /\ moves \in Nat /\ clock \in 0..MaxClock /\ last \in -Interval..clock
      /\ timer \in 0..MaxClock + Interval \union {None}
      /\ pendingArgs \in 1..moves \union {None}
      /\ emitted \in [move : 0..moves, at : -Interval..clock]
  BY DEF PInv, PTypeOK
<1>2. CASE Remaining <= 0
  <2>1. /\ last' = clock /\ emitted' = [move |-> moves', at |-> clock]
        /\ timer' = None /\ pendingArgs' = pendingArgs
    BY <1>2 DEF Throttled, Invoke, TimerAfterLeading
  <2> QED BY <1>1, <2>1 DEF FramesInOrder
<1>3. CASE ~(Remaining <= 0)
  <2>1. /\ pendingArgs' = moves' /\ last' = last /\ emitted' = emitted
        /\ timer' = IF timer = None THEN clock + Remaining ELSE timer
    BY <1>3 DEF Throttled, PendingAfter
  <2>2. clock + Remaining = last + Interval /\ last + Interval > clock
    BY <1>1, <1>3 DEF Remaining
  <2>3. timer' = last + Interval
    BY <2>1, <2>2 DEF PInv, FramesInOrder
  <2>4. emitted.move <= moves
    BY <1>1
  <2>5. emitted.at = last
    BY DEF PInv, FramesInOrder
  <2> QED BY <1>1, <2>1, <2>2, <2>3, <2>4, <2>5 DEF FramesInOrder, None
<1> QED BY <1>2, <1>3

\* A step of the input keeps its types, the order of its frames and its idleness.
LEMMA PStepKeepsInv == PInv /\ PStep => PInv'
<1> SUFFICES ASSUME PInv, PStep PROVE PInv'
  OBVIOUS
<1> USE DEF PInv
<1>1. CASE AttachInput /\ UNCHANGED pastVars
  <2> USE <1>1 DEF AttachInput, pastVars, throttleVars
  <2>1. PTypeOK'
    BY DEF PTypeOK
  <2> QED BY <2>1 DEF FramesInOrder, IdleWhenDetached
<1>2. CASE DetachInput /\ UNCHANGED pastVars
  <2> USE <1>2 DEF DetachInput, pastVars
  <2>1. PTypeOK'
    <3>1. attached' \in BOOLEAN /\ panning' \in BOOLEAN
      OBVIOUS
    <3>2. /\ last' \in -Interval..clock'
          /\ emitted' \in [move : 0..moves', at : -Interval..clock']
      BY DEF PTypeOK
    <3> QED BY <3>1, <3>2 DEF PTypeOK
  <2> QED BY <2>1 DEF FramesInOrder, IdleWhenDetached, PTypeOK, None
<1>3. ASSUME NEW p \in Pointers, OnDown(p) PROVE PInv'
  <2> USE <1>3 DEF OnDown, throttleVars
  <2>1. PTypeOK'
    <3>1. panning \in BOOLEAN /\ panning' \in BOOLEAN
      BY DEF PTypeOK
    <3>2. presses' \in 0..MaxPresses /\ presses' = presses + 1 /\ presses \in Nat
      BY DEF PTypeOK
    <3>3. down' \in [Pointers -> 0..presses'] /\ anchor' \in 0..presses' \union {None}
      BY <3>2 DEF PTypeOK
    <3>4. joints' \subseteq (0..presses') \X (0..presses')
      BY <3>2 DEF PTypeOK
    <3> QED BY <3>1, <3>2, <3>3, <3>4 DEF PTypeOK
  <2> QED BY <2>1 DEF FramesInOrder, IdleWhenDetached
<1>4. ASSUME NEW p \in Pointers, OnMove(p) PROVE PInv'
  <2>1. /\ attached /\ moves' = moves + 1 /\ moves' \in 0..MaxMoves /\ clock' = clock
        /\ attached' = attached /\ panning' = panning /\ down' = down /\ presses' = presses
    BY <1>4 DEF OnMove, PTypeOK
  <2>2. Throttled(moves')
    BY <1>4 DEF OnMove
  <2>3. joints' \subseteq (0..presses) \X (0..presses) /\ anchor' \in 0..presses \union {None}
    BY <1>4 DEF OnMove, PTypeOK
  <2>4. PTypeOK' /\ FramesInOrder'
    BY <2>1, <2>2, <2>3, ThrottledKeeps DEF PTypeOK
  <2> QED BY <2>1, <2>4 DEF IdleWhenDetached
<1>5. ASSUME NEW p \in Pointers, OnUp(p) PROVE PInv'
  <2> USE <1>5 DEF OnUp, throttleVars, AnchorAfterUp
  <2>1. PTypeOK'
    <3>1. panning' \in BOOLEAN
      BY DEF PTypeOK
    <3>2. down' \in [Pointers -> 0..presses'] /\ anchor' \in 0..presses' \union {None}
      BY DEF PTypeOK, NoPress
    <3> QED BY <3>1, <3>2 DEF PTypeOK
  <2> QED BY <2>1 DEF FramesInOrder, IdleWhenDetached
<1>6. CASE TrailingCall
  <2> USE <1>6 DEF TrailingCall, Invoke, strokeVars
  <2>1. PTypeOK'
    BY DEF PTypeOK
  <2> QED BY <2>1 DEF FramesInOrder, IdleWhenDetached, PTypeOK
<1>7. CASE Advance
  <2> USE <1>7 DEF Advance, strokeVars, throttleVars
  <2>1. PTypeOK'
    BY DEF PTypeOK
  <2> QED BY <2>1 DEF FramesInOrder, IdleWhenDetached
<1> QED BY <1>1, <1>2, <1>3, <1>4, <1>5, <1>6, <1>7 DEF PStep

\* With one pointer, a step of the input joins only samples of the press that is down.
LEMMA PStepKeepsPress ==
  ASSUME \A p, q \in Pointers : p = q,
         PInv, AnchorIsPress, OnePress, PStep
  PROVE  AnchorIsPress' /\ OnePress'
<1> USE DEF AnchorIsPress, OnePress, NoPress, None
<1>1. CASE AttachInput /\ UNCHANGED pastVars
  BY <1>1 DEF AttachInput, pastVars
<1>2. CASE DetachInput /\ UNCHANGED pastVars
  BY <1>2 DEF DetachInput, pastVars
<1>3. ASSUME NEW p \in Pointers, OnDown(p) PROVE AnchorIsPress' /\ OnePress'
  <2>1. anchor = None /\ presses \in Nat /\ down \in [Pointers -> 0..presses]
    BY <1>3 DEF OnDown, PInv, PTypeOK
  <2>2. presses' = presses + 1 /\ down'[p] = presses' /\ joints' = joints
    BY <1>3, <2>1 DEF OnDown
  <2>3. anchor' \in {None, presses'}
    BY <1>3, <2>1 DEF OnDown
  <2>4. \A q \in Pointers : down'[q] = presses'
    BY <2>2
  <2> QED BY <2>1, <2>2, <2>3, <2>4
<1>4. ASSUME NEW p \in Pointers, OnMove(p) PROVE AnchorIsPress' /\ OnePress'
  <2>1. down' = down
    BY <1>4 DEF OnMove
  <2>2. CASE panning \/ anchor = None
    BY <1>4, <2>1, <2>2 DEF OnMove
  <2>3. CASE ~(panning \/ anchor = None)
    <3>1. joints' = joints \union {<<anchor, down[p]>>} /\ anchor' = down[p]
      BY <1>4, <2>3 DEF OnMove
    <3>2. down[p] = anchor /\ anchor # NoPress
      BY <2>3
    <3> QED BY <2>1, <3>1, <3>2
  <2> QED BY <2>2, <2>3
<1>5. ASSUME NEW p \in Pointers, OnUp(p) PROVE AnchorIsPress' /\ OnePress'
  <2>1. anchor' = None /\ joints' = joints
    BY <1>5 DEF OnUp, AnchorAfterUp, PInv, IdleWhenDetached
  <2> QED BY <2>1
<1>6. CASE TrailingCall \/ Advance
  BY <1>6 DEF TrailingCall, Advance, strokeVars
<1> QED BY <1>1, <1>2, <1>3, <1>4, <1>5, <1>6 DEF PStep

\* A step of the input that sends a frame while the input stays attached sends a later
\* position, an interval after the frame before.
LEMMA PStepPaced ==
  ASSUME PInv, PStep, attached', emitted' # emitted
  PROVE  emitted'.move > emitted.move /\ emitted'.at >= emitted.at + Interval
<1>1. /\ moves \in Nat /\ clock \in Nat /\ last \in Int /\ emitted.at = last
      /\ emitted.move \in 0..moves /\ timer \in Int
  BY DEF PInv, PTypeOK, FramesInOrder, None
<1>2. ASSUME NEW p \in Pointers, OnMove(p)
      PROVE  emitted'.move > emitted.move /\ emitted'.at >= emitted.at + Interval
  <2>1. Remaining <= 0 /\ emitted' = [move |-> moves + 1, at |-> clock]
    BY <1>2 DEF OnMove, Throttled, Invoke
  <2> QED BY <1>1, <2>1 DEF Remaining
<1>3. CASE TrailingCall
  <2>1. /\ clock >= last + Interval /\ pendingArgs = moves /\ emitted.move < moves
    BY <1>3 DEF TrailingCall, PInv, FramesInOrder
  <2>2. emitted' = [move |-> moves, at |-> clock]
    BY <1>3, <2>1 DEF TrailingCall, Invoke
  <2> QED BY <1>1, <2>1, <2>2
<1>4. ~(DetachInput /\ UNCHANGED pastVars)
  BY DEF DetachInput
<1>5. /\ ~(AttachInput /\ UNCHANGED pastVars) /\ ~Advance
      /\ ~\E p \in Pointers : OnDown(p) \/ OnUp(p)
  BY DEF AttachInput, Advance, OnDown, OnUp, throttleVars
<1> QED BY <1>2, <1>3, <1>4, <1>5 DEF PStep

\* What is unchanged with the variables of the input.
LEMMA PStutter ==
  UNCHANGED pvars =>
    /\ PInv => PInv'
    /\ AnchorIsPress /\ OnePress => AnchorIsPress' /\ OnePress'
    /\ emitted' = emitted
BY DEF pvars, strokeVars, throttleVars, PInv, PTypeOK, FramesInOrder, IdleWhenDetached,
       AnchorIsPress, OnePress

\* A position that is not superseded has been sent or waits.
LEMMA InvKeepsLatest == PInv => LatestKept
BY DEF PInv, FramesInOrder, LatestKept

-----------------------------------------------------------------------------
(* A board by itself *)

\* The steps of a board are steps of its input.
LEMMA PNextIsStep == PNext => PStep
BY DEF PNext, PStep, Attach, Detach

\* The input keeps its inductive invariant.
THEOREM PointerInvariance == PSpec => []PInv
<1>1. PInit => PInv
  BY PInitInv
<1>2. PInv /\ [PNext]_pvars => PInv'
  BY PNextIsStep, PStepKeepsInv, PStutter
<1> QED BY <1>1, <1>2, PTL DEF PSpec

\* The variables of the input keep their types and bounds.
THEOREM PointerTypes == PSpec => []PTypeOK
<1>1. PInv => PTypeOK
  BY DEF PInv
<1> QED BY <1>1, PointerInvariance, PTL

\* The throttle loses only positions that are superseded (throttle.ts).
THEOREM LatestPosition == PSpec => []LatestKept
BY InvKeepsLatest, PointerInvariance, PTL

\* With one pointer a segment joins two samples of one press (PointerSampler.onUp and
\* StrokeBuilder.end).
THEOREM StrokesOfOnePress == (\A p, q \in Pointers : p = q) => (PSpec => []OnePress)
<1> SUFFICES ASSUME \A p, q \in Pointers : p = q PROVE PSpec => []OnePress
  OBVIOUS
<1>1. PInit => PInv /\ AnchorIsPress /\ OnePress
  BY PInitInv
<1>2. PInv /\ AnchorIsPress /\ OnePress /\ [PNext]_pvars => (PInv /\ AnchorIsPress /\ OnePress)'
  BY PNextIsStep, PStepKeepsInv, PStepKeepsPress, PStutter
<1> QED BY <1>1, <1>2, PTL DEF PSpec

\* The cursor frames of a throttle are an interval apart, and in order (throttle.ts).
THEOREM FramesPaced == PSpec => CursorFramesPaced
<1>1. PInv /\ [PNext]_pvars =>
        [attached' /\ emitted' # emitted => /\ emitted'.move > emitted.move
                                            /\ emitted'.at >= emitted.at + Interval]_pvars
  BY PNextIsStep, PStepPaced
<1> QED BY <1>1, PointerInvariance, PTL DEF PSpec, CursorFramesPaced

-----------------------------------------------------------------------------
(* The tab: rendering and effects *)

\* No board is the home page's, and no name is the one that is missing.
LEMMA Absences ==
  /\ Home \notin Url /\ Off \notin View /\ Off # Home
  /\ Off.joined = FALSE /\ Off.board = NoBoard /\ Off.name = NoName /\ Off.urlName = NoName
  /\ Home.board = NoBoard /\ Home.name = NoName
BY DEF Home, Off, Url, View

\* Before anything is rendered.
LEMMA SInitInv == SInit => TabInv
<1> SUFFICES ASSUME SInit PROVE TabInv
  OBVIOUS
<1>1. PInv
  BY PInitInv DEF SInit
<1>2. TabTypeOK
  <2>1. {joined, connected, listed, named} \subseteq BOOLEAN
    BY DEF SInit
  <2>2. url \in Url \union {Home} /\ visited \subseteq Url \union {Home} /\ leaving \subseteq Url
    BY DEF SInit, Url
  <2>3. /\ members = NoBoard /\ scene = {} /\ savedName = NoName /\ username = NoName
        /\ view = Off /\ ran = Off /\ socket = "none" /\ seat = NoSeat /\ answer = "none"
        /\ visits \in 0..MaxVisits /\ drops \in 0..MaxDrops
    BY DEF SInit
  <2> QED BY <2>1, <2>2, <2>3 DEF TabTypeOK
<1>3. NamesKnown
  <2>1. url.name = NoName /\ visited = {url} /\ leaving = {} /\ ~joined /\ view = Off /\ ran = Off
    BY Absences DEF SInit
  <2> QED BY <2>1, Absences DEF NamesKnown
<1>4. EffectsFollowRender
  BY Absences DEF SInit, PInit, EffectsFollowRender
<1>5. JoinedIsNamed
  BY DEF SInit, JoinedIsNamed
<1> QED BY <1>1, <1>2, <1>3, <1>4, <1>5 DEF TabInv

\* A render is Off, or of a board; what is not joined has no connection.
LEMMA Renders ==
  ASSUME TabInv
  PROVE  /\ view \in View \union {Off} /\ ran \in View \union {Off}
         /\ view.joined => view \in View
         /\ ran.joined => ran \in View
         /\ view # Off => view \in View
BY Absences DEF TabInv, TabTypeOK

\* The step of a store or of the address that leaves the input, the effects and what is
\* behind them alone.
LEMMA TabFrame ==
  ASSUME TabInv, UNCHANGED <<pvars, ran, socketVars, connected, members>>
  PROVE  PInv' /\ EffectsFollowRender'
<1>1. PInv'
  BY PStutter DEF TabInv
<1>2. attached' = attached
  BY DEF pvars
<1>3. EffectsFollowRender'
  BY <1>2 DEF TabInv, EffectsFollowRender, socketVars
<1> QED BY <1>1, <1>3

\* The input effect attaches, detaches or leaves the input of the render before.
LEMMA InputEffectSteps ==
  ASSUME TabInv, NEW new \in View \union {Off}, InputEffect(ran, new), UNCHANGED pastVars
  PROVE  PInv' /\ (attached' <=> new.joined)
<1>1. /\ ran.joined \in BOOLEAN /\ new.joined \in BOOLEAN
      /\ attached \in BOOLEAN /\ (attached <=> ran.joined)
  BY Renders, Absences DEF TabInv, View, EffectsFollowRender, PInv, PTypeOK
<1>2. CASE ran.joined = new.joined
  <2>1. UNCHANGED <<attached, anchor, panning, throttleVars>>
    BY <1>2 DEF InputEffect
  <2>2. UNCHANGED pvars
    BY <2>1 DEF pvars, pastVars, strokeVars
  <2>3. attached' <=> new.joined
    BY <1>1, <1>2, <2>1
  <2> QED BY <2>2, <2>3, PStutter DEF TabInv
<1>3. CASE new.joined /\ ~ran.joined
  <2>1. AttachInput
    BY <1>3, <1>1 DEF InputEffect
  <2>2. PInv'
    BY <2>1, PStepKeepsInv DEF PStep, TabInv
  <2>3. attached' <=> new.joined
    BY <2>1, <1>3 DEF AttachInput
  <2> QED BY <2>2, <2>3
<1>4. CASE ~new.joined /\ ran.joined
  <2>1. DetachInput
    BY <1>4, <1>1 DEF InputEffect
  <2>2. PInv'
    BY <2>1, PStepKeepsInv DEF PStep, TabInv
  <2>3. attached' <=> new.joined
    BY <2>1, <1>4 DEF DetachInput
  <2> QED BY <2>2, <2>3
<1> QED BY <1>1, <1>2, <1>3, <1>4

\* The connection effect opens a connection for a render that is joined, closes that of
\* one that was, and keeps one for the same board and name.
LEMMA ConnectionEffectSteps ==
  ASSUME TabInv, NEW new \in View \union {Off}, new.joined => new.name # NoName,
         ConnectionEffect(ran, new), UNCHANGED members, ran' = new
  PROVE  /\ socket' # "none" <=> ran'.joined
         /\ connected' <=> socket' = "up"
         /\ seat' # NoSeat <=> socket' = "up"
         /\ seat' # NoSeat => seat' = [board |-> ran'.board, name |-> ran'.name]
         /\ answer' # "none" \/ listed' => socket' = "up"
         /\ listed' => members' = seat'.board
         /\ connected' \in BOOLEAN /\ listed' \in BOOLEAN
         /\ answer' \in {"none", "served", "failed"}
         /\ socket' \in {"none", "connecting", "up", "down"}
         /\ seat' \in [board : Boards, name : Names] \union {NoSeat}
<1>1. Connects(new) <=> new.joined
  BY DEF Connects
<1>2. CASE Reconnects(ran, new)
  <2>1. /\ socket' = IF new.joined THEN "connecting" ELSE "none"
        /\ seat' = NoSeat /\ answer' = "none" /\ listed' = FALSE /\ connected' = FALSE
    BY <1>1, <1>2 DEF ConnectionEffect, Opened
  <2>2. new.joined \in BOOLEAN
    BY Absences DEF View
  <2> QED BY <2>1, <2>2
<1>3. CASE ~Reconnects(ran, new)
  <2>1. UNCHANGED <<socket, seat, answer, listed, connected>>
    BY <1>3 DEF ConnectionEffect, socketVars
  <2>2. ran.board = new.board /\ ran.joined = new.joined /\ ran.name = new.name
    BY <1>3 DEF Reconnects
  <2> QED BY <2>1, <2>2 DEF TabInv, TabTypeOK, EffectsFollowRender
<1> QED BY <1>2, <1>3

\* The effects of BoardRoute, for a view of the address that was rendered last.
LEMMA BoardEffectsSteps ==
  ASSUME TabInv, NEW new \in View \union {Off}, new.urlName = view.urlName,
         BoardEffects(ran, new)
  PROVE  /\ joined' \in BOOLEAN /\ named' \in BOOLEAN /\ (joined' <=> named')
         /\ savedName' \in Names \union {NoName}
         /\ savedName' = NoName => savedName = NoName /\ ~joined'
         /\ view # Off /\ savedName' # NoName => username # NoName
<1> DEFINE moved == new # Off /\ <<ran.board, ran.urlName>> # <<new.board, new.urlName>>
<1>1. /\ joined \in BOOLEAN /\ named \in BOOLEAN /\ (joined <=> named)
      /\ savedName \in Names \union {NoName}
      /\ savedName = NoName => ~joined /\ view.urlName = NoName
      /\ view # Off /\ savedName # NoName => username # NoName
  BY DEF TabInv, TabTypeOK, NamesKnown, JoinedIsNamed
<1>2. new.urlName \in Names \union {NoName}
  BY Absences DEF View
<1>3. CASE moved
  <2>1. /\ joined' = (new.urlName # NoName) /\ named' = (new.urlName # NoName)
        /\ savedName' = IF new.urlName # NoName THEN new.urlName ELSE savedName
    BY <1>3 DEF BoardEffects, StartJoined
  <2>2. joined' \in BOOLEAN /\ named' \in BOOLEAN /\ (joined' <=> named')
    BY <2>1
  <2>3. savedName' = NoName => savedName = NoName /\ ~joined'
    BY <2>1
  <2> QED BY <1>1, <1>2, <2>1, <2>2, <2>3
<1>4. CASE ~moved
  <2>1. joined' = joined /\ named' = named /\ savedName' = savedName
    BY <1>4 DEF BoardEffects
  <2> QED BY <1>1, <2>1
<1> QED BY <1>3, <1>4

\* All the effects of a render, which becomes the one whose effects ran last.
LEMMA EffectsKeepInv ==
  ASSUME TabInv, NEW new \in View \union {Off}, new.urlName = view.urlName,
         new.joined => new.name # NoName, new # Off => view # Off,
         Effects(ran, new), ran' = new, view' = new
  PROVE  TabInv'
<1>1. PInv' /\ (attached' <=> ran'.joined)
  BY InputEffectSteps DEF Effects
<1>2. BoardEffects(ran, new) /\ ConnectionEffect(ran, new)
  BY DEF Effects
<1>3. /\ UNCHANGED <<members, url, visited, leaving, username, visits, drops>>
      /\ scene' \in {{}, scene}
  BY DEF Effects, SceneEffect, tabVars, boundVars
<1>4. EffectsFollowRender'
  BY <1>1, <1>2, <1>3, ConnectionEffectSteps DEF EffectsFollowRender
<1>5. /\ connected' \in BOOLEAN /\ listed' \in BOOLEAN
      /\ answer' \in {"none", "served", "failed"}
      /\ socket' \in {"none", "connecting", "up", "down"}
      /\ seat' \in [board : Boards, name : Names] \union {NoSeat}
  BY <1>2, <1>3, ConnectionEffectSteps
<1>6. /\ joined' \in BOOLEAN /\ named' \in BOOLEAN /\ (joined' <=> named')
      /\ savedName' \in Names \union {NoName}
      /\ savedName' = NoName => savedName = NoName /\ ~joined'
      /\ view # Off /\ savedName' # NoName => username # NoName
  BY <1>2, BoardEffectsSteps
<1>7. TabTypeOK'
  BY <1>3, <1>5, <1>6 DEF TabInv, TabTypeOK
<1>8. NamesKnown'
  <2>1. savedName' = NoName =>
          /\ ~joined' /\ view'.urlName = NoName
          /\ \A u \in {url'} \union visited' \union leaving' : u.name = NoName
    BY <1>3, <1>6 DEF TabInv, NamesKnown
  <2> QED BY <1>3, <1>6, <2>1 DEF NamesKnown
<1>9. JoinedIsNamed'
  BY <1>6 DEF JoinedIsNamed
<1> QED BY <1>1, <1>4, <1>7, <1>8, <1>9 DEF TabInv

\* A render for a new address, or its effects, or a render for what was written.
LEMMA ReactKeepsInv == TabInv /\ React => TabInv'
<1> SUFFICES ASSUME TabInv, React PROVE TabInv'
  OBVIOUS
<1>1. CASE Render
  <2> DEFINE name == IF view # Off THEN username
                     ELSE IF url.name # NoName THEN url.name ELSE savedName
  <2>1. /\ ran = view /\ ~Urgent
        /\ \/ url = Home /\ view' = Off /\ username' = username
           \/ /\ url # Home
              /\ view' = [board |-> url.board, urlName |-> url.name, joined |-> joined,
                          name |-> name]
              /\ username' = name
    BY <1>1 DEF Render
  <2>2. UNCHANGED <<pvars, url, visited, leaving, joined, connected, members, savedName,
                    recents, named, ran, socket, seat, answer, listed, scene, visits, drops>>
    BY <1>1 DEF Render, tabVars, storeVars, socketVars, boundVars
  <2>3. /\ name \in Names \union {NoName}
        /\ url # Home => url \in Url
        /\ savedName # NoName => name # NoName
        /\ joined => savedName # NoName
        /\ savedName = NoName => url.name = NoName
    BY Absences DEF TabInv, TabTypeOK, NamesKnown, Url
  <2> HIDE DEF name
  <2>4. joined \in BOOLEAN /\ username' \in Names \union {NoName}
    BY <2>1, <2>3 DEF TabInv, TabTypeOK
  <2>5. view' \in View \union {Off}
    BY <2>1, <2>3, <2>4 DEF View, Url
  <2>6. TabTypeOK'
    BY <2>2, <2>4, <2>5 DEF TabInv, TabTypeOK
  <2>7. PInv' /\ attached' = attached
    BY <2>2, PStutter DEF TabInv, pvars
  <2>8. EffectsFollowRender'
    BY <2>2, <2>7 DEF TabInv, EffectsFollowRender
  <2>9. NamesKnown'
    <3>1. savedName = NoName => view'.urlName = NoName
      BY <2>1, <2>3, Absences
    <3>2. view' # Off /\ savedName # NoName => username' # NoName
      BY <2>1, <2>3
    <3>3. view'.joined => view'.name # NoName
      BY <2>1, <2>3, Absences
    <3> QED BY <2>2, <3>1, <3>2, <3>3 DEF TabInv, NamesKnown
  <2>10. JoinedIsNamed'
    <3>1. ran.joined => joined
      BY <2>1, Absences DEF Urgent
    <3> QED BY <2>2, <3>1 DEF TabInv, JoinedIsNamed
  <2> QED BY <2>6, <2>7, <2>8, <2>9, <2>10 DEF TabInv
<1>2. CASE RunEffects
  <2>1. PICK new : new = view
    OBVIOUS
  <2>2. Effects(ran, new) /\ ran' = new /\ view' = new
    BY <1>2, <2>1 DEF RunEffects
  <2>3. new \in View \union {Off} /\ (new.joined => new.name # NoName)
    BY <2>1, Renders DEF TabInv, NamesKnown
  <2> QED BY <2>1, <2>2, <2>3, EffectsKeepInv
<1>3. CASE Rerender
  <2>1. PICK new : new = [view EXCEPT !.joined = joined, !.name = username]
    OBVIOUS
  <2>2. ran = view /\ view # Off /\ view \in View
    BY <1>3, Renders DEF Rerender, Urgent
  <2>3. Effects(ran, new) /\ ran' = new /\ view' = new
    BY <1>3, <2>1, <2>2 DEF Rerender
  <2>4. joined \in BOOLEAN /\ username \in Names \union {NoName}
    BY DEF TabInv, TabTypeOK
  <2>5. /\ new \in View /\ new.urlName = view.urlName
        /\ new.joined = joined /\ new.name = username
    BY <2>1, <2>2, <2>4 DEF View
  <2>6. joined => username # NoName
    BY <2>2 DEF TabInv, NamesKnown
  <2> QED BY <2>2, <2>3, <2>5, <2>6, EffectsKeepInv
<1> QED BY <1>1, <1>2, <1>3 DEF React

\* The user moves between boards, or gives a name.
LEMMA UserKeepsInv == TabInv /\ User => TabInv'
<1> SUFFICES ASSUME TabInv, User PROVE TabInv'
  OBVIOUS
<1>1. ASSUME NEW b \in Boards, NEW n \in Names, Enter(b, n) PROVE TabInv'
  <2>1. /\ view = Off /\ visits < MaxVisits /\ visits' = visits + 1 /\ savedName' = n
        /\ leaving' = leaving \union {[board |-> b, name |-> n]}
        /\ UNCHANGED <<pvars, joined, connected, members, named, username, view, ran, socketVars,
                       socket, seat, answer, listed, scene, drops, url, visited>>
    BY <1>1 DEF Enter, Visit, userFrame, socketVars
  <2>2. PInv' /\ EffectsFollowRender'
    BY <2>1, TabFrame
  <2>3. TabTypeOK'
    BY <2>1 DEF TabInv, TabTypeOK, Url
  <2>4. NamesKnown' /\ JoinedIsNamed'
    BY <2>1 DEF TabInv, NamesKnown, JoinedIsNamed
  <2> QED BY <2>2, <2>3, <2>4 DEF TabInv
<1>2. ASSUME NEW u, u \in visited \union leaving \union {Home},
             GoTo(u), leaving' \subseteq leaving, visits' \in 0..MaxVisits,
             UNCHANGED <<userFrame, savedName, recents>>
      PROVE  TabInv'
  <2>1. /\ url' = u /\ visited' = visited \union {u}
        /\ UNCHANGED <<pvars, joined, connected, members, named, username, view, ran, socketVars,
                       socket, seat, answer, listed, scene, drops, savedName>>
    BY <1>2 DEF GoTo, userFrame, socketVars
  <2>2. PInv' /\ EffectsFollowRender'
    BY <2>1, TabFrame
  <2>3. u \in Url \union {Home}
    BY <1>2 DEF TabInv, TabTypeOK
  <2>4. TabTypeOK'
    BY <1>2, <2>1, <2>3 DEF TabInv, TabTypeOK
  <2>5. savedName = NoName => u.name = NoName
    BY <1>2, Absences DEF TabInv, NamesKnown
  <2>6. NamesKnown' /\ JoinedIsNamed'
    BY <1>2, <2>1, <2>5 DEF TabInv, NamesKnown, JoinedIsNamed
  <2> QED BY <2>2, <2>4, <2>6 DEF TabInv
<1>3. visits \in 0..MaxVisits
  BY DEF TabInv, TabTypeOK
<1>4. CASE \E u \in leaving : LeaveHome(u)
  <2>1. PICK u \in leaving : LeaveHome(u)
    BY <1>4
  <2> QED BY <2>1, <1>2, <1>3 DEF LeaveHome
<1>5. CASE GoHome
  BY <1>5, <1>2, <1>3 DEF GoHome, Visit
<1>6. CASE GoBack
  <2>1. PICK u \in visited : GoTo(u)
    BY <1>6 DEF GoBack
  <2> QED BY <2>1, <1>6, <1>2, <1>3 DEF GoBack, Visit
<1>7. ASSUME NEW n \in Names, HandleJoin(n) PROVE TabInv'
  <2>1. /\ view # Off /\ username' = n /\ savedName' = n /\ joined' = TRUE /\ named' = TRUE
        /\ UNCHANGED <<pvars, url, visited, leaving, connected, members, view, ran, socketVars,
                       socket, seat, answer, listed, scene, visits, drops>>
    BY <1>7 DEF HandleJoin, tabVars, socketVars, boundVars
  <2>2. PInv' /\ EffectsFollowRender'
    BY <2>1, TabFrame
  <2>3. joined' \in BOOLEAN /\ named' \in BOOLEAN
    BY <2>1
  <2>4. TabTypeOK'
    BY <2>1, <2>3 DEF TabInv, TabTypeOK
  <2>5. NamesKnown' /\ JoinedIsNamed'
    BY <2>1 DEF TabInv, NamesKnown, JoinedIsNamed
  <2> QED BY <2>2, <2>4, <2>5 DEF TabInv
<1> QED BY <1>1, <1>4, <1>5, <1>6, <1>7 DEF User

\* The connection comes up, joins for the render whose effects ran last, is lost, or
\* receives what the server sends.
LEMMA ConnectionKeepsInv == TabInv /\ Connection => TabInv'
<1> SUFFICES ASSUME TabInv, Connection PROVE TabInv'
  OBVIOUS
<1>1. /\ UNCHANGED <<pvars, url, visited, leaving, joined, named, savedName, recents, username,
                     view, ran, visits>>
      /\ attached' = attached
  BY DEF Connection, OnConnect, OnDisconnect, OnHistory, OnError, OnUsers, OnDraw, ClearBoard,
         serverFrame, connectionFrame, tabVars, pvars
<1>2. PInv' /\ NamesKnown' /\ JoinedIsNamed'
  <2>1. PInv'
    BY <1>1, PStutter DEF TabInv
  <2> QED BY <1>1, <2>1 DEF TabInv, NamesKnown, JoinedIsNamed
<1>3. CASE OnConnect
  <2>1. /\ socket \in {"connecting", "down"} /\ socket' = "up" /\ connected' = TRUE
        /\ seat' = [board |-> ran.board, name |-> ran.name]
        /\ UNCHANGED <<answer, listed, members, scene, drops>>
    BY <1>3 DEF OnConnect
  <2>2. ran \in View /\ ran.name # NoName /\ ran.joined /\ answer = "none" /\ ~listed
    BY <2>1, Renders DEF TabInv, NamesKnown, EffectsFollowRender
  <2>3. seat' \in [board : Boards, name : Names] /\ seat' # NoSeat
    BY <2>1, <2>2 DEF View, NoSeat, Home
  <2>4. connected' \in BOOLEAN
    BY <2>1
  <2>5. TabTypeOK'
    BY <1>1, <2>1, <2>3, <2>4 DEF TabInv, TabTypeOK
  <2>6. EffectsFollowRender'
    BY <1>1, <2>1, <2>2, <2>3 DEF TabInv, EffectsFollowRender
  <2> QED BY <1>2, <2>5, <2>6 DEF TabInv
<1>4. CASE OnDisconnect
  <2>1. /\ socket = "up" /\ socket' = "down" /\ connected' = FALSE /\ seat' = NoSeat
        /\ answer' = "none" /\ listed' = FALSE /\ drops' = drops + 1 /\ drops < MaxDrops
        /\ UNCHANGED <<members, scene>>
    BY <1>4 DEF OnDisconnect
  <2>2. connected' \in BOOLEAN /\ listed' \in BOOLEAN
    BY <2>1
  <2>3. TabTypeOK'
    BY <1>1, <2>1, <2>2 DEF TabInv, TabTypeOK
  <2>4. EffectsFollowRender'
    BY <1>1, <2>1 DEF TabInv, EffectsFollowRender
  <2> QED BY <1>2, <2>3, <2>4 DEF TabInv
<1>5. CASE OnHistory \/ OnError \/ OnUsers \/ OnDraw
  <2>1. /\ seat # NoSeat /\ UNCHANGED <<connected, socket, seat, drops>>
        /\ answer' \in {answer, "served", "failed"}
        /\ \/ listed' = listed /\ members' = members
           \/ listed' = TRUE /\ members' = seat.board
        /\ scene' \in {scene, scene \union {seat.board}}
    BY <1>5 DEF OnHistory, OnError, OnUsers, OnDraw, Loaded, serverFrame
  <2>2. seat.board \in Boards /\ socket = "up"
    BY <2>1 DEF TabInv, TabTypeOK, EffectsFollowRender
  <2>3. TabTypeOK'
    <3>1. listed' \in BOOLEAN /\ members' \in Boards \union {NoBoard}
      BY <2>1, <2>2 DEF TabInv, TabTypeOK
    <3>2. scene' \subseteq Boards
      BY <2>1, <2>2 DEF TabInv, TabTypeOK
    <3> QED BY <1>1, <2>1, <3>1, <3>2 DEF TabInv, TabTypeOK
  <2>4. EffectsFollowRender'
    BY <1>1, <2>1, <2>2 DEF TabInv, EffectsFollowRender
  <2> QED BY <1>2, <2>3, <2>4 DEF TabInv
<1>6. CASE ClearBoard
  <2>1. scene' = {} /\ UNCHANGED <<connected, socket, seat, drops, answer, listed, members>>
    BY <1>6 DEF ClearBoard, serverFrame
  <2>2. TabTypeOK'
    BY <1>1, <2>1 DEF TabInv, TabTypeOK
  <2>3. EffectsFollowRender'
    BY <1>1, <2>1 DEF TabInv, EffectsFollowRender
  <2> QED BY <1>2, <2>2, <2>3 DEF TabInv
<1> QED BY <1>3, <1>4, <1>5, <1>6 DEF Connection

\* The pointer moves on the board, and time passes.
LEMMA InputKeepsInv == TabInv /\ (Input \/ Timing) => TabInv' /\ PStep
<1> SUFFICES ASSUME TabInv, Input \/ Timing PROVE TabInv' /\ PStep
  OBVIOUS
<1>1. PStep
  BY DEF Input, Timing, PStep
<1>2. attached' = attached
  BY DEF Input, Timing, OnDown, OnMove, OnUp, TrailingCall, Advance
<1>3. UNCHANGED <<url, visited, leaving, joined, connected, members, savedName, named, username,
                  view, ran, socket, seat, answer, listed, scene, visits, drops>>
  BY DEF Input, Timing, inputFrame, tabVars, storeVars, socketVars, boundVars
<1>4. PInv'
  BY <1>1, PStepKeepsInv DEF TabInv
<1>5. TabTypeOK' /\ NamesKnown' /\ EffectsFollowRender' /\ JoinedIsNamed'
  BY <1>2, <1>3 DEF TabInv, TabTypeOK, NamesKnown, EffectsFollowRender, JoinedIsNamed
<1> QED BY <1>1, <1>4, <1>5 DEF TabInv

\* A step of the tab is one of its input, or of none, or it attaches or detaches it.
LEMMA SNextSteps == [SNext]_svars => PStep \/ UNCHANGED pvars
<1> SUFFICES ASSUME [SNext]_svars PROVE PStep \/ UNCHANGED pvars
  OBVIOUS
<1>1. ASSUME NEW old, NEW new, InputEffect(old, new), UNCHANGED pastVars
      PROVE  PStep \/ UNCHANGED pvars
  <2>1. \/ UNCHANGED <<attached, anchor, panning, throttleVars>>
        \/ AttachInput
        \/ DetachInput
    BY <1>1 DEF InputEffect
  <2> QED BY <1>1, <2>1 DEF PStep, pvars, pastVars, strokeVars
<1>2. CASE Render
  BY <1>2 DEF Render
<1>3. CASE RunEffects
  BY <1>3, <1>1 DEF RunEffects, Effects
<1>4. CASE Rerender
  <2>1. PICK new : new = view'
    OBVIOUS
  <2>2. InputEffect(view, new) /\ UNCHANGED pastVars
    BY <1>4, <2>1 DEF Rerender, Effects
  <2> QED BY <2>2, <1>1
<1>5. CASE User
  BY <1>5 DEF User, Enter, LeaveHome, GoHome, GoBack, HandleJoin, userFrame
<1>6. CASE Connection
  BY <1>6 DEF Connection, OnConnect, OnDisconnect, OnHistory, OnError, OnUsers, OnDraw,
             ClearBoard, serverFrame, connectionFrame
<1>7. CASE Input \/ Timing
  BY <1>7 DEF Input, Timing, PStep
<1>8. CASE UNCHANGED svars
  BY <1>8 DEF svars
<1> QED BY <1>2, <1>3, <1>4, <1>5, <1>6, <1>7, <1>8 DEF SNext, React

\* Nothing happens in the tab.
LEMMA TabStutter == TabInv /\ UNCHANGED svars => TabInv'
<1> SUFFICES ASSUME TabInv, UNCHANGED svars PROVE TabInv'
  OBVIOUS
<1>1. UNCHANGED <<pvars, url, visited, leaving, joined, connected, members, savedName, named,
                  username, view, ran, socketVars, socket, seat, answer, listed, scene, visits,
                  drops>>
  BY DEF svars, tabVars, storeVars, socketVars, boundVars
<1>2. PInv' /\ EffectsFollowRender'
  BY <1>1, TabFrame
<1>3. TabTypeOK' /\ NamesKnown' /\ JoinedIsNamed'
  BY <1>1 DEF TabInv, TabTypeOK, NamesKnown, JoinedIsNamed
<1> QED BY <1>2, <1>3 DEF TabInv

\* Every step of the tab keeps the inductive invariant.
LEMMA SNextKeepsInv == TabInv /\ [SNext]_svars => TabInv'
BY ReactKeepsInv, UserKeepsInv, ConnectionKeepsInv, InputKeepsInv, TabStutter DEF SNext

-----------------------------------------------------------------------------
(* The tab: what it gives *)

\* The effects, the stores and the renders agree as the inductive invariant says.
THEOREM SessionInvariance == SSpec => []TabInv
BY SInitInv, SNextKeepsInv, PTL DEF SSpec

\* Once a navigation has settled there is a connection, and input, exactly if the board
\* shown is joined, and it has joined that board (useCollaboration.ts, BoardRoute.tsx).
THEOREM ConnectionFollows == SSpec => []ConnectionFollowsView
<1>1. TabInv => ConnectionFollowsView
  BY DEF TabInv, EffectsFollowRender, ConnectionFollowsView, Settled
<1> QED BY <1>1, SessionInvariance, PTL

\* The member list that was received last is that of the board shown, although the presence
\* store outlives the view (useCollaboration.ts, presenceStore.ts).
THEOREM MembersFollow == SSpec => []MembersOfBoard
<1>1. TabInv => MembersOfBoard
  <2> SUFFICES ASSUME TabInv, Settled, listed PROVE members = view.board
    BY DEF MembersOfBoard
  <2>1. seat # NoSeat /\ members = seat.board
    BY DEF TabInv, EffectsFollowRender
  <2>2. seat.board = ran.board /\ ran = view
    BY <2>1 DEF TabInv, EffectsFollowRender, Settled
  <2> QED BY <2>1, <2>2
<1> QED BY <1>1, SessionInvariance, PTL

\* The joined flag of a board left before does not pass the gate of the next
\* (BoardRoute.tsx, initSession of sessionStore.ts).
THEOREM GatePassedByName == SSpec => []JoinNeedsGate
<1>1. TabInv => JoinNeedsGate
  <2> SUFFICES ASSUME TabInv, ~Urgent, seat # NoSeat PROVE named
    BY DEF JoinNeedsGate
  <2>1. ran.joined
    BY DEF TabInv, EffectsFollowRender
  <2>2. joined
    <3>1. CASE ran # view
      BY <2>1, <3>1 DEF TabInv, JoinedIsNamed
    <3>2. CASE ran = view
      BY <2>1, <3>2, Absences DEF Urgent
    <3> QED BY <3>1, <3>2
  <2> QED BY <2>2 DEF TabInv, JoinedIsNamed
<1> QED BY <1>1, SessionInvariance, PTL

\* Also as the board and the connection of the tab change, the cursor frames are an
\* interval apart and in order, until the input is detached.
THEOREM TabFramesPaced == SSpec => CursorFramesPaced
<1>1. TabInv /\ [SNext]_svars =>
        [attached' /\ emitted' # emitted => /\ emitted'.move > emitted.move
                                            /\ emitted'.at >= emitted.at + Interval]_pvars
  BY SNextSteps, PStepPaced DEF TabInv
<1> QED BY <1>1, SessionInvariance, PTL DEF SSpec, CursorFramesPaced

\* Also as the input is detached and attached anew, with a pointer held down, a segment
\* joins two samples of one press.
THEOREM TabStrokesOfOnePress == (\A p, q \in Pointers : p = q) => (SSpec => []OnePress)
<1> SUFFICES ASSUME \A p, q \in Pointers : p = q PROVE SSpec => []OnePress
  OBVIOUS
<1> DEFINE PressInv == TabInv /\ AnchorIsPress /\ OnePress
<1>1. SInit => PressInv
  BY SInitInv, PInitInv DEF SInit
<1>2. PressInv /\ [SNext]_svars => PressInv'
  <2>1. PressInv /\ [SNext]_svars => TabInv'
    BY SNextKeepsInv
  <2>2. PressInv /\ [SNext]_svars => AnchorIsPress' /\ OnePress'
    BY SNextSteps, PStepKeepsPress, PStutter DEF TabInv
  <2> QED BY <2>1, <2>2
<1>3. PressInv => OnePress
  OBVIOUS
<1> HIDE DEF PressInv
<1> QED BY <1>1, <1>2, <1>3, PTL DEF SSpec

=============================================================================
