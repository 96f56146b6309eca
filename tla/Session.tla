------------------------------ MODULE Session ------------------------------
(***************************************************************************)
(* A browser tab that goes from board to board: BoardRoute and HomeRoute   *)
(* (client/src/routes), the stores and the storage they share (stores,     *)
(* lib/boardStorage.ts), and useCollaboration, which opens and closes the  *)
(* connection (SocketClient) and attaches the pointer input of Pointer.    *)
(*                                                                         *)
(* A navigation renders first and runs the effects of the render later; a  *)
(* write of a store, or of a component's state, renders and runs them      *)
(* before anything else happens.                                           *)
(*                                                                         *)
(* Abstractions: the server is what it sends to the connection; the member *)
(* list is the board it is of, the scene of the engine the boards whose    *)
(* strokes it was sent (those drawn here are Whiteboard's subject).        *)
(***************************************************************************)
EXTENDS Pointer, Sequences, SequencesExt

CONSTANTS
  Boards, NoBoard,
  Names, NoName,
  MaxBoards,    \* MAX_BOARDS
  MaxVisits,    \* bound: navigations of the user
  MaxDrops      \* bound: connections lost

ASSUME SessionAssumption ==
  /\ NoBoard \notin Boards /\ NoName \notin Names
  /\ MaxBoards \in Nat \ {0} /\ {MaxVisits, MaxDrops} \subseteq Nat

VARIABLES
  url,          \* the board in the address, and the name it carries
  visited,      \* the addresses in the history of the tab
  leaving,      \* the addresses the timers of HomeRoute will navigate to
  joined, connected,    \* sessionStore
  members,      \* presenceStore: the board whose members are listed
  savedName, recents,   \* localStorage
  username,     \* the state of BoardRoute
  view,         \* what BoardRoute last rendered
  ran,          \* the render whose effects ran last
  socket,       \* "none", "connecting", "up", or "down" and reconnecting
  seat,         \* the board and name the connection has joined with, if any
  answer,       \* of the join: "none" yet, "served" the history, or "failed"
  listed,       \* the connection has received a users-update
  scene,        \* the boards whose strokes the engine of the view was sent
  \* history and bounds
  named,        \* the address was opened with a name, or one was given at the gate
  visits, drops

tabVars    == <<url, visited, leaving>>
storeVars  == <<joined, connected, members, savedName, recents, named>>
socketVars == <<socket, seat, answer, listed>>
boundVars  == <<visits, drops>>
svars == <<pvars, tabVars, storeVars, username, view, ran, socketVars, scene, boundVars>>

Url  == [board : Boards, name : Names \union {NoName}]
Home == [board |-> NoBoard, name |-> NoName]
Off  == [board |-> NoBoard, urlName |-> NoName, joined |-> FALSE, name |-> NoName]
View == [board : Boards, urlName : Names \union {NoName}, joined : BOOLEAN,
         name : Names \union {NoName}]
NoSeat == Home

TabTypeOK ==
  /\ url \in Url \union {Home} /\ visited \subseteq Url \union {Home} /\ leaving \subseteq Url
  /\ {joined, connected, listed, named} \subseteq BOOLEAN
  /\ members \in Boards \union {NoBoard} /\ scene \subseteq Boards
  /\ savedName \in Names \union {NoName}
  /\ username \in Names \union {NoName}
  /\ view \in View \union {Off} /\ ran \in View \union {Off}
  /\ socket \in {"none", "connecting", "up", "down"}
  /\ seat \in [board : Boards, name : Names] \union {NoSeat}
  /\ answer \in {"none", "served", "failed"}
  /\ visits \in 0..MaxVisits /\ drops \in 0..MaxDrops

STypeOK ==
  /\ PTypeOK /\ TabTypeOK
  /\ recents \in Seq(Boards) /\ Len(recents) <= MaxBoards

\* The tab is opened at home or by the link of a board.
SInit ==
  /\ PInit
  /\ url \in {Home} \union [board : Boards, name : {NoName}]
  /\ visited = {url} /\ leaving = {}
  /\ joined = FALSE /\ connected = FALSE /\ members = NoBoard /\ named = FALSE
  /\ savedName = NoName /\ recents = <<>>
  /\ username = NoName /\ view = Off /\ ran = Off
  /\ socket = "none" /\ seat = NoSeat /\ answer = "none" /\ listed = FALSE
  /\ scene = {}
  /\ visits = 0 /\ drops = 0

-----------------------------------------------------------------------------
(* Rendering *)

\* A store or the state of BoardRoute has been written since it was rendered.
Urgent == view # Off /\ (joined # view.joined \/ username # view.name)

Shown == view.board = url.board /\ view.urlName = url.name

\* The address has changed: BoardRoute is mounted, unmounted or rendered with another
\* board; the state is made when it is mounted.
Render ==
  LET name == IF view # Off THEN username
              ELSE IF url.name # NoName THEN url.name ELSE savedName
  IN
  /\ ran = view /\ ~Urgent /\ ~Shown
  /\ IF url = Home
     THEN view' = Off /\ UNCHANGED username
     ELSE /\ view' = [board |-> url.board, urlName |-> url.name, joined |-> joined,
                      name |-> name]
          /\ username' = name
  /\ UNCHANGED <<pvars, tabVars, storeVars, ran, socketVars, scene, boundVars>>

\* initSession
StartJoined_Kept(v) == joined \/ v.urlName # NoName
StartJoined(v) == v.urlName # NoName

\* saveBoardVisit
SaveVisit(board) ==
  LET boards == <<board>> \o SelectSeq(recents, LAMBDA b : b # board)
  IN  SubSeq(boards, 1, IF Len(boards) < MaxBoards THEN Len(boards) ELSE MaxBoards)

Connects(v) == v.joined /\ v.name # NoName

\* The dependencies of the effect that connects.
Reconnects_SameBoard(old, new) == <<old.joined, old.name>> # <<new.joined, new.name>>
Reconnects(old, new) ==
  <<old.board, old.joined, old.name>> # <<new.board, new.joined, new.name>>

\* connect, after the cleanup has dropped the instance.
Opened_Reused == IF socket = "none" THEN "connecting" ELSE "none"
Opened == "connecting"

\* The session is started for a new address, and the visit of a joined board recorded.
BoardEffects(old, new) ==
  LET mounted  == new # Off
      moved    == mounted /\ <<old.board, old.urlName>> # <<new.board, new.urlName>>
      visiting == mounted /\ new.joined
                  /\ <<old.board, old.joined>> # <<new.board, new.joined>>
  IN
  /\ joined' = IF moved THEN StartJoined(new) ELSE joined
  /\ named' = IF moved THEN new.urlName # NoName ELSE named
  /\ savedName' = IF moved /\ new.urlName # NoName THEN new.urlName ELSE savedName
  /\ recents' = IF visiting THEN SaveVisit(new.board) ELSE recents

ConnectionEffect(old, new) ==
  IF Reconnects(old, new)
  THEN /\ socket' = IF Connects(new) THEN Opened ELSE "none"
       /\ seat' = NoSeat /\ answer' = "none" /\ listed' = FALSE
       /\ connected' = FALSE
  ELSE UNCHANGED <<socketVars, connected>>

InputEffect(old, new) ==
  CASE old.joined = new.joined -> UNCHANGED <<attached, anchor, panning, throttleVars>>
    [] new.joined /\ ~old.joined -> AttachInput
    [] OTHER -> DetachInput

\* The engine goes with the view that is unmounted.  When only the board of the view
\* changes it is kept, and nothing clears its scene.
SceneEffect(new) == scene' = IF new = Off THEN {} ELSE scene

\* The effects of BoardRoute, useCanvasEngine and useCollaboration for a new render.
Effects(old, new) ==
  /\ BoardEffects(old, new)
  /\ ConnectionEffect(old, new)
  /\ InputEffect(old, new)
  /\ SceneEffect(new)
  /\ UNCHANGED <<pastVars, members, tabVars, username, boundVars>>

RunEffects ==
  /\ ran # view
  /\ ran' = view
  /\ Effects(ran, view)
  /\ UNCHANGED view

Rerender ==
  /\ ran = view /\ Urgent
  /\ view' = [view EXCEPT !.joined = joined, !.name = username]
  /\ ran' = view'
  /\ Effects(view, view')

-----------------------------------------------------------------------------
(* The user *)

Visit == visits < MaxVisits /\ visits' = visits + 1

userFrame == <<pvars, joined, connected, members, named, username, view, ran, socketVars,
               scene, drops>>

GoTo(u) == url' = u /\ visited' = visited \union {u}

\* HomeRoute.enter: the timer of the navigation outlives the page, and the page stays
\* open to further clicks until it fires.
Enter(board, name) ==
  /\ view = Off /\ Visit
  /\ savedName' = name
  /\ recents' = SaveVisit(board)
  /\ leaving' = leaving \union {[board |-> board, name |-> name]}
  /\ UNCHANGED <<userFrame, url, visited>>

LeaveHome(u) ==
  /\ u \in leaving /\ ~Urgent
  /\ leaving' = leaving \ {u}
  /\ GoTo(u)
  /\ UNCHANGED <<userFrame, savedName, recents, visits>>

\* The home button, or the cancel of the name gate.
GoHome ==
  /\ view # Off /\ ~Urgent /\ Visit
  /\ GoTo(Home)
  /\ UNCHANGED <<userFrame, savedName, recents, leaving>>

\* Back, Forward, or a jump in the history.
GoBack ==
  /\ ~Urgent /\ Visit
  /\ \E u \in visited : u # url /\ GoTo(u)
  /\ UNCHANGED <<userFrame, savedName, recents, leaving>>

\* The name gate is submitted.
HandleJoin(name) ==
  /\ view # Off /\ ~view.joined /\ ~Urgent
  /\ username' = name /\ savedName' = name
  /\ joined' = TRUE /\ named' = TRUE
  /\ UNCHANGED <<pvars, tabVars, connected, members, recents, view, ran, socketVars, scene,
                 boundVars>>

-----------------------------------------------------------------------------
(* The connection *)

connectionFrame == <<pvars, tabVars, joined, named, savedName, recents, username, view, ran,
                     visits>>

\* The connection is up, and joins with the latest room and name.
OnConnect ==
  /\ socket \in {"connecting", "down"} /\ ~Urgent
  /\ socket' = "up" /\ connected' = TRUE
  /\ seat' = [board |-> ran.board, name |-> ran.name]
  /\ UNCHANGED <<connectionFrame, answer, listed, members, scene, drops>>

OnDisconnect ==
  /\ socket = "up" /\ ~Urgent
  /\ drops < MaxDrops /\ drops' = drops + 1
  /\ socket' = "down" /\ connected' = FALSE
  /\ seat' = NoSeat /\ answer' = "none" /\ listed' = FALSE
  /\ UNCHANGED <<connectionFrame, members, scene>>

serverFrame == <<connectionFrame, connected, socket, seat, drops>>

\* What a history, of a join or a resync, may add to the scene: it appends, and may be empty.
Loaded == {scene, scene \union {seat.board}}

OnHistory ==
  /\ seat # NoSeat /\ ~Urgent
  /\ answer' = "served"
  /\ scene' \in Loaded
  /\ UNCHANGED <<serverFrame, members, listed>>

\* JOIN_FAILED: a toast, and nothing else.  The connection stays, in the room.
OnError ==
  /\ seat # NoSeat /\ answer = "none" /\ ~Urgent
  /\ answer' = "failed"
  /\ UNCHANGED <<serverFrame, members, listed, scene>>

\* The join of this connection, or another member who comes or goes.
OnUsers ==
  /\ seat # NoSeat /\ ~Urgent
  /\ members' = seat.board /\ listed' = TRUE
  /\ UNCHANGED <<serverFrame, answer, scene>>

OnDraw ==
  /\ seat # NoSeat /\ ~Urgent
  /\ scene' = scene \union {seat.board}
  /\ UNCHANGED <<serverFrame, members, answer, listed>>

\* The board is cleared by another member, or by the tool dock of this one.
ClearBoard ==
  /\ seat # NoSeat \/ view.joined
  /\ ~Urgent
  /\ scene' = {}
  /\ UNCHANGED <<serverFrame, members, answer, listed>>

-----------------------------------------------------------------------------

React == Render \/ RunEffects \/ Rerender

User ==
  \/ \E b \in Boards, n \in Names : Enter(b, n)
  \/ \E u \in leaving : LeaveHome(u)
  \/ GoHome \/ GoBack
  \/ \E n \in Names : HandleJoin(n)

Connection ==
  \/ OnConnect \/ OnDisconnect
  \/ OnHistory \/ OnError \/ OnUsers \/ OnDraw \/ ClearBoard

inputFrame == <<tabVars, storeVars, username, view, ran, socketVars, scene, boundVars>>

\* The canvas takes input while it is on the page.
Input ==
  /\ ~Urgent
  /\ \/ view # Off /\ \E p \in Pointers : OnDown(p) \/ OnMove(p)
     \/ \E p \in Pointers : OnUp(p)
  /\ UNCHANGED inputFrame

Timing == ~Urgent /\ (TrailingCall \/ Advance) /\ UNCHANGED inputFrame

SNext == React \/ User \/ Connection \/ Input \/ Timing

\* The event loop of the tab goes on: pages render, timers fire, connections are made.
\* Nothing is assumed of what the server sends.
SSpec == SInit /\ [][SNext]_svars /\ WF_svars(React \/ OnConnect \/ Timing)

\* Each join is answered too: its handler catches what its calls throw, and they settle
\* (a command of Redis waits for Redis to come back).
Answer == answer = "none" /\ (OnHistory \/ OnError)
AnsweredSpec == SSpec /\ WF_svars(Answer)

-----------------------------------------------------------------------------
(* Correctness *)

Settled == ran = view /\ ~Urgent /\ Shown

\* Once a navigation has settled there is a connection, and input, exactly if the board
\* shown has been joined, and the connection has joined that board under the name shown:
\* also when the timer of an earlier click on the home page changes the board of a view.
\* At all times the reconnecting indicator and the sync badge tell the truth.
ConnectionFollowsView ==
  /\ connected <=> socket = "up"
  /\ Settled =>
       /\ socket # "none" <=> view.joined
       /\ attached <=> view.joined
       /\ seat # NoSeat => seat = [board |-> view.board, name |-> view.name]

\* Once a connection has received a member list, the list shown is that of the board shown,
\* although the presence store outlives the view and is never reset: no list of a board
\* left before, or of its connection, comes after it.
MembersOfBoard == Settled /\ listed => members = view.board

\* The joined flag of a board left before does not pass the gate of the next: the server
\* is joined only with a name in the address or given at the gate of this address.
JoinNeedsGate == ~Urgent /\ seat # NoSeat => named

\* The recent boards are distinct, and the one shown is the first.
RecentBoards ==
  /\ IsInjective(recents)
  /\ Settled /\ view.joined => Head(recents) = view.board

\* A board that is joined and not left is asked for: join-room goes out for it, on a live
\* connection, whatever was rendered late, lost and reconnected.  What the server answers
\* is another matter (JoinedIsServed).
JoinedIsAsked ==
  \A b \in Boards :
     (url.board = b /\ joined) ~> (seat.board = b \/ url.board # b \/ ~joined)

(***************************************************************************)
(* The inductive invariant behind the safety properties.                   *)
(***************************************************************************)

\* Until a name is given there is none, in no address, and nothing is joined; a board on
\* the page has the name that was saved before, or a later one.
NamesKnown ==
  /\ savedName = NoName =>
       ~joined /\ view.urlName = NoName /\ \A u \in {url} \union visited \union leaving : u.name = NoName
  /\ view # Off /\ savedName # NoName => username # NoName
  /\ view.joined => view.name # NoName
  /\ ran.joined => ran.name # NoName

\* The connection and the input are of the render whose effects ran last, whatever has
\* been rendered or written since.
EffectsFollowRender ==
  /\ attached <=> ran.joined
  /\ socket # "none" <=> ran.joined
  /\ connected <=> socket = "up"
  /\ seat # NoSeat <=> socket = "up"
  /\ seat # NoSeat => seat = [board |-> ran.board, name |-> ran.name]
  /\ answer # "none" \/ listed => socket = "up"
  /\ listed => members = seat.board

\* The joined flag is of this address; a render that waits for its effects has not taken
\* it from the connection that is still up.
JoinedIsNamed ==
  /\ joined <=> named
  /\ ran # view /\ ran.joined => joined

TabInv == PInv /\ TabTypeOK /\ NamesKnown /\ EffectsFollowRender /\ JoinedIsNamed

(***************************************************************************)
(* Statements of comments in the code that do not hold.                    *)
(***************************************************************************)

\* SceneStore.ts: the scene is "the authoritative, mutable list of every segment baked into
\* the board" (lines 4-5).  It keeps the strokes of a board left before when the view
\* changes its board without being unmounted (router.tsx:16-23), for histories append.
SceneOfOneBoard == Settled /\ view # Off => scene \subseteq {view.board}

\* joinRoom.ts: a failed join is answered "so the client can retry, rather than leaving the
\* user with a blank board" (lines 106-108).  The client shows a toast and does not retry.
JoinedIsServed ==
  \A b \in Boards :
     (url.board = b /\ joined)
       ~> ((answer = "served" /\ seat.board = b) \/ url.board # b \/ ~joined)

=============================================================================
