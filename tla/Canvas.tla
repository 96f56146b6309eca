------------------------------- MODULE Canvas -------------------------------
(***************************************************************************)
(* The canvas of a board: CanvasEngine with its scene, its cursor overlay  *)
(* and its on-demand frame loop (client/src/features/canvas/engine,        *)
(* client/src/lib/rafScheduler.ts), as useCanvasEngine.ts and              *)
(* useCollaboration.ts drive it.                                           *)
(*                                                                         *)
(* A segment is a number, the pan, zoom and size of the viewport together  *)
(* a version number.  Pixels are the segments painted since the surface    *)
(* was last blank, each with the version it was painted under.             *)
(***************************************************************************)
EXTENDS Integers, Sequences, FiniteSets, Functions

CONSTANTS
  Peers,        \* sockets of other members
  Colors,       \* cursor colors
  NoColor,      \* the own color while the server has not listed this client
  Places,       \* positions of a cursor
  MaxSegments,  \* bound: segments committed
  MaxViews,     \* bound: changes of the viewport
  MaxUpdates    \* bound: cursor and membership updates received

ASSUME CanvasAssumption ==
  NoColor \notin Colors /\ {MaxSegments, MaxViews, MaxUpdates} \subseteq Nat

VARIABLES
  mounted,      \* "no", "yes" or "gone"
  joined,       \* input and transport are attached
  scene,        \* SceneStore.segments
  dirty, cursorsDirty, paintedCount,
  frame,        \* a frame is requested
  view,         \* version of the viewport
  pixels,       \* what the canvas shows
  users,        \* CursorLayer: the members listed, with their colors
  myColor,
  positions,    \* the cursor positions known
  nodes,        \* the overlay: the position and version of each cursor node
  committed, updates   \* bounds: segments committed, updates received

engineVars  == <<scene, dirty, cursorsDirty, paintedCount, frame, view, pixels>>
overlayVars == <<users, myColor, positions, nodes>>
kvars == <<mounted, joined, engineVars, overlayVars, committed, updates>>

Empty == [x \in {} |-> x]

KTypeOK ==
  /\ mounted \in {"no", "yes", "gone"} /\ joined \in BOOLEAN
  /\ scene \in Seq(1..MaxSegments)
  /\ dirty \in {"none", "append", "full"} /\ cursorsDirty \in BOOLEAN
  /\ paintedCount \in 0..MaxSegments
  /\ frame \in BOOLEAN /\ (frame => mounted = "yes")
  /\ view \in 0..MaxViews
  /\ pixels \in Seq([segment : 1..MaxSegments, view : 0..MaxViews])
  /\ DOMAIN users \subseteq Peers /\ \A p \in DOMAIN users : users[p] \in Colors
  /\ myColor \in Colors \union {NoColor}
  /\ DOMAIN positions \subseteq Peers /\ \A p \in DOMAIN positions : positions[p] \in Places
  /\ \A p \in DOMAIN nodes : nodes[p] \in [at : Places, view : 0..MaxViews]
  /\ committed \in 0..MaxSegments /\ updates \in 0..MaxUpdates

KInit ==
  /\ mounted = "no" /\ joined = FALSE
  /\ scene = <<>> /\ dirty = "none" /\ cursorsDirty = FALSE /\ paintedCount = 0
  /\ frame = FALSE /\ view = 0 /\ pixels = <<>>
  /\ users = Empty /\ myColor = NoColor /\ positions = Empty /\ nodes = Empty
  /\ committed = 0 /\ updates = 0

-----------------------------------------------------------------------------
(* Dirty marking *)

RequestFrame_Not == frame' = frame
RequestFrame == frame' = TRUE

MarkFull == dirty' = "full" /\ cursorsDirty' = TRUE /\ RequestFrame

AfterAppend_Overwrites == "append"
AfterAppend == IF dirty = "none" THEN "append" ELSE dirty

MarkAppend == dirty' = AfterAppend /\ RequestFrame /\ cursorsDirty' = cursorsDirty

ViewMoves == view < MaxViews /\ view' = view + 1

-----------------------------------------------------------------------------
(* Lifecycle and size *)

\* A container without size is not measured; setting the size blanks the canvas.
Resize ==
  \/ UNCHANGED engineVars
  \/ /\ pixels' = <<>>
     /\ view' = view \/ ViewMoves
     /\ MarkFull
     /\ UNCHANGED <<scene, paintedCount>>

Mount ==
  /\ mounted = "no"
  /\ mounted' = "yes"
  /\ Resize
  /\ UNCHANGED <<overlayVars, joined, committed, updates>>

Resized ==
  /\ mounted = "yes" /\ Resize
  /\ UNCHANGED <<mounted, overlayVars, joined, committed, updates>>

\* The frame is cancelled and the overlay emptied; input and transport go with it.
Unmount ==
  /\ mounted = "yes"
  /\ mounted' = "gone" /\ joined' = FALSE
  /\ frame' = FALSE
  /\ nodes' = Empty /\ positions' = Empty
  /\ UNCHANGED <<scene, dirty, cursorsDirty, paintedCount, view, pixels, users, myColor,
                 committed, updates>>

Join ==
  /\ mounted = "yes" /\ ~joined
  /\ joined' = TRUE
  /\ UNCHANGED <<mounted, engineVars, overlayVars, committed, updates>>

-----------------------------------------------------------------------------
(* What the members do: the input of this one, and what the server sends *)

driveFrame == <<mounted, joined, pixels, paintedCount>>

\* commitLocal and commitRemote
Commit ==
  /\ joined /\ committed < MaxSegments
  /\ committed' = committed + 1
  /\ scene' = Append(scene, committed')
  /\ MarkAppend
  /\ UNCHANGED <<driveFrame, view, overlayVars, updates>>

LoadHistory ==
  /\ joined
  /\ \E n \in 0..MaxSegments - committed :
       /\ committed' = committed + n
       /\ scene' = scene \o [i \in 1..n |-> committed + i]
  /\ MarkFull
  /\ UNCHANGED <<driveFrame, view, overlayVars, updates>>

\* A pan, or a turn of the wheel.
MoveView ==
  /\ joined /\ ViewMoves /\ MarkFull
  /\ UNCHANGED <<driveFrame, scene, overlayVars, committed, updates>>

\* A clear of this client or of another.
ClearBoard ==
  /\ joined
  /\ scene' = <<>>
  /\ MarkFull
  /\ UNCHANGED <<driveFrame, view, overlayVars, committed, updates>>

\* Who has left loses the cursor node, and its position with it.
Departed_Kept(listed) == {}
Departed(listed) == DOMAIN nodes \ listed

SetCursorUsers ==
  /\ joined /\ updates < MaxUpdates
  /\ updates' = updates + 1
  /\ \E listed \in SUBSET Peers, mine \in Colors \union {NoColor} :
       /\ users' \in [listed -> Colors]
       /\ myColor' = mine
       /\ nodes' = Restrict(nodes, DOMAIN nodes \ Departed(listed))
       /\ positions' = Restrict(positions, DOMAIN positions \ Departed(listed))
  /\ cursorsDirty' = TRUE /\ RequestFrame
  /\ UNCHANGED <<driveFrame, view, scene, dirty, committed>>

SetCursorPosition ==
  /\ joined /\ updates < MaxUpdates
  /\ updates' = updates + 1
  /\ \E p \in Peers, at \in Places :
       positions' = [q \in DOMAIN positions \union {p} |-> IF q = p THEN at ELSE positions[q]]
  /\ cursorsDirty' = TRUE /\ RequestFrame
  /\ UNCHANGED <<driveFrame, view, scene, dirty, committed, users, myColor, nodes>>

-----------------------------------------------------------------------------
(* The frame *)

Painted(segments) == [i \in 1..Len(segments) |-> [segment |-> segments[i], view |-> view]]

CountAfterFull == Len(scene)

\* The cursors drawn: listed, not of the own color, and with a known position.
Visible == {p \in DOMAIN users \intersect DOMAIN positions : users[p] # myColor}

Render ==
  nodes' = [p \in DOMAIN nodes \union Visible |->
              IF p \in Visible THEN [at |-> positions[p], view |-> view] ELSE nodes[p]]

Flush ==
  /\ dirty' = "none" /\ cursorsDirty' = FALSE
  /\ CASE dirty = "none" -> UNCHANGED <<pixels, paintedCount>>
       [] dirty = "full" -> pixels' = Painted(scene) /\ paintedCount' = CountAfterFull
       [] dirty = "append" /\ paintedCount >= Len(scene) -> UNCHANGED <<pixels, paintedCount>>
       [] OTHER ->
            /\ pixels' = pixels \o Painted(SubSeq(scene, paintedCount + 1, Len(scene)))
            /\ paintedCount' = Len(scene)
  /\ IF cursorsDirty THEN Render ELSE nodes' = nodes

Tick ==
  /\ frame /\ mounted = "yes"
  /\ frame' = FALSE
  /\ Flush
  /\ UNCHANGED <<mounted, scene, view, users, myColor, positions, joined, committed,
                 updates>>

KNext ==
  \/ Mount \/ Resized \/ Unmount \/ Join
  \/ Commit \/ LoadHistory \/ ClearBoard \/ MoveView \/ SetCursorUsers \/ SetCursorPosition
  \/ Tick

\* The browser runs the frames it was asked for.
KSpec == KInit /\ [][KNext]_kvars /\ WF_kvars(Tick)

-----------------------------------------------------------------------------
(* The inductive invariant *)

\* Input and frames reach a mounted canvas only, and the scene holds what was committed.
EngineAlive ==
  /\ joined \/ frame => mounted = "yes"
  /\ Len(scene) <= committed

\* Unless a full repaint is due, the canvas shows the first paintedCount segments of the
\* scene under the current viewport: all of them, once nothing is dirty.
PrefixPainted ==
  dirty # "full" =>
    /\ paintedCount <= Len(scene) /\ Len(pixels) = paintedCount
    /\ \A i \in 1..paintedCount : pixels[i] = [segment |-> scene[i], view |-> view]
    /\ dirty = "none" => paintedCount = Len(scene)

\* Nodes are those of listed members, and unless a render is due each visible cursor has
\* its node where it should be.
NodesInPlace ==
  /\ DOMAIN nodes \subseteq DOMAIN users
  /\ ~cursorsDirty => \A p \in Visible :
       p \in DOMAIN nodes /\ nodes[p] = [at |-> positions[p], view |-> view]

KInv == KTypeOK /\ EngineAlive /\ PrefixPainted /\ NodesInPlace

-----------------------------------------------------------------------------
(* Correctness *)

\* Once nothing is dirty the canvas shows the scene: every segment once, in order, all
\* under the current pan, zoom and size, whichever of appends, bulk loads, clears,
\* resizes and pans fell into one frame, and a canvas that was blanked is repainted.
CleanShowsScene == mounted = "yes" /\ dirty = "none" => pixels = Painted(scene)

\* Once the overlay is clean every cursor it should draw is where its member last was,
\* under the current viewport, and no node is left of a member who has gone.
CursorsTracked ==
  mounted = "yes" =>
    /\ DOMAIN nodes \subseteq DOMAIN users
    /\ ~cursorsDirty => \A p \in Visible :
         p \in DOMAIN nodes /\ nodes[p] = [at |-> positions[p], view |-> view]

\* What is committed, panned, resized or cleared reaches the screen.
SceneShown ==
  (mounted = "yes" /\ (dirty # "none" \/ cursorsDirty))
    ~> (mounted = "gone" \/ (dirty = "none" /\ ~cursorsDirty))

=============================================================================
