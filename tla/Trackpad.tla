------------------------------ MODULE Trackpad ------------------------------
(***************************************************************************)
(* The viewer page's pointer input (client/input.mjs): createTrackpad,     *)
(* which turns fingers into clicks, drags and scrolls, and createMouse.    *)
(* Each action is one run of an event handler or of the held click's       *)
(* timer; what it sends goes onto the input channel's wire, in order.      *)
(*                                                                         *)
(* Positions are left out: a move either goes beyond the slop or not, and  *)
(* the time since a gesture began matters only once it exceeds TAP_MAX_MS  *)
(* (`late').  Messages carry no distance.  `sized' is whether the video    *)
(* has a size yet, without which there are no positions.                   *)
(*                                                                         *)
(* A definition that stands right before the one it is a variant of, with  *)
(* the same parameters, is a deliberate mistake no action uses.  Put in    *)
(* the place of the other it makes TLC report the property it breaks.      *)
(***************************************************************************)
EXTENDS InputEvents

CONSTANTS Finger    \* pointer identifiers of touches

VARIABLES
    touches,    \* fingers on the screen
    gesture,    \* from the first touch to the last lift
    heldClick,  \* whether a tap's click waits for its timer
    mouse,      \* createMouse's `down'
    connected,  \* whether the page's end of its input channel is open
    wire,       \* messages on that channel, oldest first
    due         \* history: left clicks asked for by taps, not given to sendInput yet

padVars == <<touches, gesture, heldClick, mouse, connected, wire, due>>

-----------------------------------------------------------------------------
Gesture == [fingers : {0, 1, 2}, late : BOOLEAN, moved : BOOLEAN, dragArmed : BOOLEAN,
            owesClick : BOOLEAN, dragging : BOOLEAN]
\* fingers = 0: no gesture.
NoGesture == [fingers |-> 0, late |-> FALSE, moved |-> FALSE, dragArmed |-> FALSE,
              owesClick |-> FALSE, dragging |-> FALSE]

PadInit ==
    /\ touches = {} /\ gesture = NoGesture /\ heldClick = FALSE /\ mouse = FALSE
    /\ connected = FALSE /\ wire = <<>> /\ due = 0

\* sendInput: without an open channel a message is dropped.
Send(messages) == wire' = (IF connected THEN wire \o messages ELSE wire) /\ UNCHANGED connected

\* What the handlers owe the user: a tap asks for a click (`asked'), sliding on takes it
\* back (`slid'), and it is paid when sendInput is called, open channel or not.
Clicks(messages) == {i \in DOMAIN messages : messages[i] = Click("left")}
Account(asked, slid, messages) ==
    due' = due + (IF asked THEN 1 ELSE 0) - (IF slid THEN 1 ELSE 0)
               - Cardinality(Clicks(messages))

SendAndAccount(messages, asked, slid) == Send(messages) /\ Account(asked, slid, messages)

-----------------------------------------------------------------------------
\* The trackpad.

Say(this, when) == IF when THEN <<this>> ELSE <<>>

\* A first finger: it takes over the click of a tap that is still held back.
FirstTouch(f) ==
    /\ touches = {}
    /\ touches' = {f}
    /\ gesture' = [NoGesture EXCEPT !.fingers = 1, !.dragArmed = heldClick,
                                    !.owesClick = heldClick]
    /\ heldClick' = FALSE
    /\ UNCHANGED <<mouse, connected, wire, due>>

\* A second finger ends what one finger was doing; a third changes nothing.
SecondFingerKeepsDrag(g) == [g EXCEPT !.fingers = 2, !.dragArmed = FALSE, !.owesClick = FALSE]
SecondFinger(g) == [g EXCEPT !.fingers = 2, !.dragArmed = FALSE, !.owesClick = FALSE,
                             !.dragging = FALSE]

ForgetsDrag(g) == <<>>
EndsDrag(g) == Say(Release("left"), g.dragging)
EndsOneFinger(g) == Say(Click("left"), g.owesClick) \o EndsDrag(g)

MoreTouch(f) ==
    /\ touches # {} /\ f \notin touches
    /\ touches' = touches \cup {f}
    /\ IF gesture.fingers = 1
       THEN gesture' = SecondFinger(gesture) /\ SendAndAccount(EndsOneFinger(gesture), FALSE, FALSE)
       ELSE UNCHANGED <<gesture, connected, wire, due>>
    /\ UNCHANGED <<heldClick, mouse>>

\* A finger moves, beyond the slop if `far'.
Move(f, far, sized) ==
    LET moved  == gesture.moved \/ far
        slides == moved /\ sized
        drags  == slides /\ gesture.fingers = 1 /\ gesture.dragArmed /\ ~gesture.dragging
    IN  /\ f \in touches
        /\ gesture' = [gesture EXCEPT !.moved = moved, !.dragging = @ \/ drags,
                                      !.owesClick = @ /\ ~drags]
        /\ SendAndAccount(Say(Scroll(0), slides /\ gesture.fingers = 2)
                          \o Say(Press("left"), drags)
                          \o Say(MoveRel(0), slides /\ gesture.fingers = 1),
                          FALSE, drags)
        /\ UNCHANGED <<touches, heldClick, mouse>>

\* TAP_MAX_MS have passed since the first touch.
Lasts ==
    /\ gesture.fingers > 0 /\ ~gesture.late
    /\ gesture' = [gesture EXCEPT !.late = TRUE]
    /\ UNCHANGED <<touches, heldClick, mouse, connected, wire, due>>

LiftOne(f) ==
    /\ f \in touches /\ touches # {f}
    /\ touches' = touches \ {f}
    /\ UNCHANGED <<gesture, heldClick, mouse, connected, wire, due>>

\* A tap: short, still, not taken by the browser for itself.
TapEvenIfCancelled(g, cancelled) == ~g.moved /\ ~g.late
IsTap(g, cancelled) == ~cancelled /\ ~g.moved /\ ~g.late

\* The last finger lifts, or the browser cancels its touch.  The second click of
\* a double tap goes with the first; the click of a single tap is held back.
LiftLast(f, cancelled) ==
    LET g    == gesture
        tap  == ~g.dragging /\ IsTap(g, cancelled)
        hold == tap /\ g.fingers = 1 /\ ~g.owesClick
    IN  /\ touches = {f}
        /\ touches' = {}
        /\ gesture' = NoGesture
        /\ heldClick' = hold
        /\ SendAndAccount(EndsOneFinger(g)
                          \o Say(Click("right"), tap /\ g.fingers = 2)
                          \o Say(Click("left"), tap /\ g.fingers = 1 /\ g.owesClick),
                          g.fingers = 1 /\ ~g.moved /\ ~g.late /\ ~cancelled, FALSE)
        /\ UNCHANGED mouse

\* DRAG_AFTER_TAP_MS after the tap.
HeldClickFires ==
    /\ heldClick
    /\ heldClick' = FALSE
    /\ SendAndAccount(<<Click("left")>>, FALSE, FALSE)
    /\ UNCHANGED <<touches, gesture, mouse>>

-----------------------------------------------------------------------------
\* The mouse.  A press on the bars around the video does nothing.

MouseDown(sized) ==
    /\ sized
    /\ mouse' = TRUE
    /\ Send(<<Down(0)>>)
    /\ UNCHANGED <<touches, gesture, heldClick, due>>

MouseMove(sized) ==
    /\ mouse
    /\ Send(Say(MoveTo(0), sized))
    /\ UNCHANGED <<touches, gesture, heldClick, mouse, due>>

MouseUp(sized) ==
    /\ mouse
    /\ mouse' = FALSE
    /\ Send(Say(Up(0), sized))
    /\ UNCHANGED <<touches, gesture, heldClick, due>>

PadNext(sized) ==
    \/ \E f \in Finger : \/ FirstTouch(f) \/ MoreTouch(f) \/ LiftOne(f)
                         \/ \E far \in BOOLEAN : Move(f, far, sized)
                         \/ \E cancelled \in BOOLEAN : LiftLast(f, cancelled)
    \/ Lasts \/ HeldClickFires
    \/ MouseDown(sized) \/ MouseMove(sized) \/ MouseUp(sized)

-----------------------------------------------------------------------------
PadTypeOK ==
    /\ touches \subseteq Finger
    /\ gesture \in Gesture
    /\ heldClick \in BOOLEAN
    /\ mouse \in BOOLEAN
    /\ connected \in BOOLEAN
    /\ wire \in Seq(InputEvent)
    /\ due \in {0, 1}

\* For every one-finger tap the handlers give sendInput exactly one left click, or a
\* drag's press in its place, as long as the page stays: what is due is held back by
\* the timer or owed by the touch that followed, never both, and nothing is owed once
\* the button is held (macOS would take the drag's press for the second one of a
\* double click).  What sendInput drops without a channel counts as given to it.
EveryTapCounts ==
    /\ due = (IF heldClick THEN 1 ELSE 0) + (IF gesture.owesClick THEN 1 ELSE 0)
    /\ heldClick => gesture = NoGesture
    /\ gesture.dragging => gesture.fingers = 1 /\ ~gesture.owesClick
=============================================================================
