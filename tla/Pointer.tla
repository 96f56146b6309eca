------------------------------- MODULE Pointer -------------------------------
(***************************************************************************)
(* The pointer input of a board: PointerSampler and StrokeBuilder          *)
(* (client/src/features/canvas/input), with the throttle on the cursor     *)
(* frames they emit (client/src/lib/throttle.ts), as useCollaboration.ts   *)
(* attaches and detaches them.                                             *)
(*                                                                         *)
(* Every press of a pointer has a number; the anchor of a stroke and the   *)
(* ends of a segment are known by the press they were sampled in.          *)
(***************************************************************************)
EXTENDS Integers

CONSTANTS
  Pointers,     \* pointers that can be down at a time: the mouse, fingers
  Interval,     \* CURSOR_EMIT_MS, in ticks
  MaxClock,     \* bound: time
  MaxMoves,     \* bound: pointer moves
  MaxPresses    \* bound: presses

ASSUME PointerAssumption ==
  Interval \in Nat \ {0} /\ {MaxClock, MaxMoves, MaxPresses} \subseteq Nat

VARIABLES
  attached,
  anchor,       \* StrokeBuilder.last
  panning,
  last, timer, pendingArgs,   \* the throttle; an argument is the number of the move
  clock,
  \* history and bounds
  down,         \* the press of each pointer that is down
  presses, moves,
  emitted,      \* the last cursor frame sent, and when
  joints        \* the ends of every segment drawn

strokeVars   == <<anchor, panning, joints>>
throttleVars == <<last, timer, pendingArgs, emitted>>
pvars == <<attached, strokeVars, throttleVars, clock, down, presses, moves>>

None == -1      \* no anchor, no timer, no pending argument
NoPress == 0    \* the pointer is up

PTypeOK ==
  /\ attached \in BOOLEAN
  /\ panning \in BOOLEAN
  /\ anchor \in 0..presses \union {None}
  /\ last \in -Interval..clock
  /\ timer \in 0..MaxClock + Interval \union {None}
  /\ pendingArgs \in 1..moves \union {None}
  /\ timer # None => attached /\ pendingArgs # None
  /\ clock \in 0..MaxClock
  /\ down \in [Pointers -> 0..presses]
  /\ presses \in 0..MaxPresses /\ moves \in 0..MaxMoves
  /\ emitted \in [move : 0..moves, at : -Interval..clock]
  /\ joints \subseteq (0..presses) \X (0..presses)

PInit ==
  /\ attached = FALSE /\ panning = FALSE /\ anchor = None
  /\ last = -Interval /\ timer = None /\ pendingArgs = None
  /\ clock = 0
  /\ down = [p \in Pointers |-> NoPress] /\ presses = 0 /\ moves = 0
  /\ emitted = [move |-> 0, at |-> -Interval] /\ joints = {}

AttachInput ==
  /\ attached' = TRUE
  /\ UNCHANGED <<anchor, panning, throttleVars>>

\* The listeners are removed and the trailing call is dropped; the next sampler and its
\* throttle start anew, with nothing to send.
DetachInput ==
  /\ attached' = FALSE
  /\ anchor' = None /\ panning' = FALSE
  /\ last' = -Interval /\ timer' = None /\ pendingArgs' = None
  /\ emitted' = [move |-> moves, at |-> -Interval]

pastVars == <<joints, clock, down, presses, moves>>

Attach == ~attached /\ AttachInput /\ UNCHANGED pastVars
Detach == attached /\ DetachInput /\ UNCHANGED pastVars

-----------------------------------------------------------------------------
(* The throttle *)

Invoke(move) ==
  /\ last' = clock
  /\ emitted' = [move |-> move, at |-> clock]

Remaining == Interval - (clock - last)

TimerAfterLeading_Kept == timer
TimerAfterLeading == None

\* A call after the window goes out at once, one within it waits for its end, and only
\* the latest of those does.
PendingAfter_First(move) == IF timer = None THEN move ELSE pendingArgs
PendingAfter(move) == move

Throttled(move) ==
  IF Remaining <= 0
  THEN /\ Invoke(move)
       /\ timer' = TimerAfterLeading
       /\ UNCHANGED pendingArgs
  ELSE /\ pendingArgs' = PendingAfter(move)
       /\ timer' = IF timer = None THEN clock + Remaining ELSE timer
       /\ UNCHANGED <<last, emitted>>

\* The timer of the trailing call, which may be late.
TrailingCall ==
  /\ timer # None /\ clock >= timer
  /\ timer' = None
  /\ pendingArgs' = None
  /\ IF pendingArgs # None THEN Invoke(pendingArgs) ELSE UNCHANGED <<last, emitted>>
  /\ UNCHANGED <<attached, strokeVars, clock, down, presses, moves>>

-----------------------------------------------------------------------------
(* The pointer *)

\* The middle or right button, or Alt, pans; any other press begins a stroke.
OnDown(p) ==
  /\ attached /\ down[p] = NoPress /\ presses < MaxPresses
  /\ presses' = presses + 1
  /\ down' = [down EXCEPT ![p] = presses']
  /\ \/ panning' = TRUE /\ anchor' = anchor
     \/ panning' = panning /\ anchor' = presses'
  /\ UNCHANGED <<attached, throttleVars, joints, clock, moves>>

\* A move of a pointer, pressed or not, emits its position; it pans, or extends the
\* stroke if there is one.
OnMove(p) ==
  /\ attached /\ moves < MaxMoves
  /\ moves' = moves + 1
  /\ Throttled(moves')
  /\ IF panning \/ anchor = None
     THEN UNCHANGED <<anchor, joints>>
     ELSE /\ joints' = joints \union {<<anchor, down[p]>>}
          /\ anchor' = down[p]
  /\ UNCHANGED <<attached, panning, clock, down, presses>>

AnchorAfterUp_Kept == anchor
AnchorAfterUp == None

\* The release of any pointer ends the stroke and the pan.
OnUp(p) ==
  /\ down[p] # NoPress
  /\ down' = [down EXCEPT ![p] = NoPress]
  /\ IF attached
     THEN anchor' = AnchorAfterUp /\ panning' = FALSE
     ELSE UNCHANGED <<anchor, panning>>
  /\ UNCHANGED <<attached, throttleVars, joints, clock, presses, moves>>

Advance ==
  /\ clock < MaxClock
  /\ clock' = clock + 1
  /\ UNCHANGED <<attached, strokeVars, throttleVars, down, presses, moves>>

PNext ==
  \/ Attach \/ Detach
  \/ \E p \in Pointers : OnDown(p) \/ OnMove(p) \/ OnUp(p)
  \/ TrailingCall
  \/ Advance

\* Timers fire.
PSpec == PInit /\ [][PNext]_pvars /\ WF_pvars(Advance) /\ WF_pvars(TrailingCall)

-----------------------------------------------------------------------------
(* Correctness *)

\* With one pointer a segment joins two samples of one press: a stroke never runs on
\* into the next, nor into the moves after the release or of a pan between.
OnePress == \A joint \in joints : joint[1] = joint[2] /\ joint[1] # NoPress

\* The position moved to last has been sent, or waits for the timer: the throttle loses
\* only positions that are superseded.
LatestKept ==
  attached => emitted.move = moves \/ (timer # None /\ pendingArgs = moves)

\* The cursor frames of a throttle are an interval apart, also when a timer is late, and
\* an older position never follows a newer one.
CursorFramesPaced ==
  [][attached' /\ emitted' # emitted => /\ emitted'.move > emitted.move
                                        /\ emitted'.at >= emitted.at + Interval]_pvars

\* A position that was held back does not stay behind: the latest one is sent, whether the
\* pointer rests or moves on, if the input stays and the time the window takes passes.
LatestSent ==
  (attached /\ emitted.move < moves /\ clock + Interval <= MaxClock)
    ~> (emitted.move = moves \/ ~attached)

(***************************************************************************)
(* The inductive invariants behind the safety properties.                  *)
(***************************************************************************)

\* The window of the throttle begins with the last frame sent; a timer is set for its
\* end, exactly while a later position waits, and only for the latest.
FramesInOrder ==
  /\ emitted.at = last
  /\ IF timer = None
     THEN emitted.move = moves
     ELSE timer = last + Interval /\ pendingArgs = moves /\ emitted.move < moves

IdleWhenDetached == ~attached => anchor = None /\ ~panning

PInv == PTypeOK /\ FramesInOrder /\ IdleWhenDetached

\* With one pointer: an anchor is of the press that is down.
AnchorIsPress ==
  anchor # None => anchor # NoPress /\ \A p \in Pointers : down[p] = anchor

=============================================================================
