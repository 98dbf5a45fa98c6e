------------------------------ MODULE Injector ------------------------------
(***************************************************************************)
(* The host's input injector (host/src/input.rs): one thread that takes    *)
(* events off an unbounded queue and presses buttons, moves the cursor and *)
(* types on this Mac, and the callbacks of each session's data channel     *)
(* that fill the queue (host/src/webrtc_host.rs, start_session).           *)
(*                                                                         *)
(* Every session shares the injector.  A channel's callbacks run in order, *)
(* its on_close last but on a task of its own: an old channel's Reset may  *)
(* come after messages of a newer channel.  Calls to the system may fail;  *)
(* one that fails is taken to have had no effect.                          *)
(*                                                                         *)
(* A definition that stands right before the one it is a variant of, with  *)
(* the same parameters, is a deliberate mistake no action uses.  Put in    *)
(* the place of the other it makes TLC report the property it breaks.      *)
(***************************************************************************)
EXTENDS InputEvents

CONSTANTS
    Channel,        \* data channels, one per session
    ViewerEvent,    \* what viewers may send
    Grain,          \* positions and distances are n/Grain of the frame
    FrameSide, FrameOther,      \* the captured frame, along the axis and across
    DisplaySide, DisplayOther,  \* the display, in points
    CanFail,        \* which calls may fail: "move", "press", "release", "reset", "key"
    MaxQueue        \* bound: viewers' events waiting for the injector

ASSUME GeometryAssumption ==
    /\ Grain \in Nat \ {0} /\ FrameSide \in Nat \ {0} /\ FrameOther \in Nat \ {0}
    /\ DisplaySide \in Nat \ {0} /\ DisplayOther \in Nat \ {0}
ASSUME ViewerAssumption == ViewerEvent \subseteq InputEvent \ {Reset}
ASSUME QueueAssumption == MaxQueue \in Nat

VARIABLES
    injector,   \* the thread: "starting", "ready", or "off" (no permission)
    queue,      \* events waiting for it, oldest first
    held,       \* buttons it believes it holds (their order makes no difference)
    moveRest,   \* what relative moves have left over
    scrollRest, \* what scrolls have left over
    pressed,    \* buttons down on the Mac
    modsDown,   \* modifier keys down on the Mac
    cursor,     \* the Mac's cursor, in points
    channel,    \* "new", "open", "closed" (on_close has not run yet) or "reset"
    failed      \* history: kinds of calls that have failed

injectorVars == <<injector, queue, held, moveRest, scrollRest, pressed, modsDown,
                  cursor, channel, failed>>

-----------------------------------------------------------------------------
\* FrameMap.  The display is scaled by the largest factor that fits both axes,
\* here the fraction Scale[1]/Scale[2], and centred.  The code computes in
\* floating point; here fractions are exact.

Scale == IF FrameSide * DisplayOther <= FrameOther * DisplaySide
         THEN <<FrameSide, DisplaySide>>
         ELSE <<FrameOther, DisplayOther>>

Unclamped(x, low, high) == x
Clamped(x, low, high) == IF x < low THEN low ELSE IF x > high THEN high ELSE x

\* A position n/Grain of the frame, in points: the bar taken off, scaled back,
\* clamped to the display and rounded (half a point up).
ToScreen(n) ==
    LET above == 2 * n * FrameSide * Scale[2]
                 - Grain * (FrameSide * Scale[2] - DisplaySide * Scale[1])
        below == 2 * Grain * Scale[1]
        inside == Clamped(above, 0, (DisplaySide - 1) * below)
    IN  (2 * inside + below) \div (2 * below)

\* Points are counted in parts: PointParts of them make one point.
PointParts == Grain * Scale[1]
ToPoints(d) == d * FrameSide * Scale[2]

\* take_whole: the whole points in what is carried over and added, truncated
\* towards zero, and what is left.
Whole(parts) == IF parts >= 0 THEN parts \div PointParts ELSE -((-parts) \div PointParts)
RestDropped(parts) == 0
Rest(parts) == parts - PointParts * Whole(parts)

-----------------------------------------------------------------------------
InjectorTypeOK ==
    /\ injector \in {"starting", "ready", "off"}
    /\ queue \in Seq(InputEvent)
    /\ held \subseteq Button
    /\ moveRest \in Int /\ scrollRest \in Int
    /\ pressed \subseteq Button
    /\ modsDown \subseteq Modifier
    /\ cursor \in 0..DisplaySide - 1
    /\ channel \in [Channel -> {"new", "open", "closed", "reset"}]
    /\ failed \subseteq {"move", "press", "release", "reset", "key"}

InjectorInit ==
    /\ injector = "starting"
    /\ queue = <<>> /\ held = {} /\ moveRest = 0 /\ scrollRest = 0
    /\ pressed = {} /\ modsDown = {} /\ cursor = 0
    /\ channel = [c \in Channel |-> "new"]
    /\ failed = {}

-----------------------------------------------------------------------------
\* start_injector: the thread opens the system's input, or prints why it
\* cannot and ends, which closes the queue.

Ready ==
    /\ injector = "starting"
    /\ injector' = "ready"
    /\ UNCHANGED <<queue, held, moveRest, scrollRest, pressed, modsDown, cursor,
                   channel, failed>>

NoPermission ==
    /\ injector = "starting"
    /\ injector' = "off"
    /\ queue' = <<>>
    /\ UNCHANGED <<held, moveRest, scrollRest, pressed, modsDown, cursor, channel, failed>>

-----------------------------------------------------------------------------
\* The data channel's callbacks.

\* A send to an injector that has ended fails and is ignored.
Queued(e) == queue' = IF injector = "off" THEN queue ELSE Append(queue, e)

OnMessage(c, e) ==
    /\ channel[c] = "open"
    /\ Len(queue) < MaxQueue
    /\ Queued(e)
    /\ UNCHANGED <<injector, held, moveRest, scrollRest, pressed, modsDown, cursor,
                   channel, failed>>

OnOpen(c) ==
    /\ channel[c] = "new"
    /\ channel' = [channel EXCEPT ![c] = "open"]
    /\ UNCHANGED <<injector, queue, held, moveRest, scrollRest, pressed, modsDown,
                   cursor, failed>>

\* The channel's connection is closed, by either side: no more messages.
Closes(c) ==
    /\ channel[c] = "open"
    /\ channel' = [channel EXCEPT ![c] = "closed"]
    /\ UNCHANGED <<injector, queue, held, moveRest, scrollRest, pressed, modsDown,
                   cursor, failed>>

OnCloseSilent == UNCHANGED queue
OnCloseSends == Queued(Reset)

OnClose(c) ==
    /\ channel[c] = "closed"
    /\ channel' = [channel EXCEPT ![c] = "reset"]
    /\ OnCloseSends
    /\ UNCHANGED <<injector, held, moveRest, scrollRest, pressed, modsDown, cursor, failed>>

-----------------------------------------------------------------------------
\* Injector::apply, one event at a time.

Take(t) == injector = "ready" /\ queue # <<>> /\ Head(queue).type = t /\ queue' = Tail(queue)
Fails(call) == call \in CanFail /\ failed' = failed \cup {call}
Works == UNCHANGED failed

PressUnknown(b) == pressed' = pressed \cup {b} /\ held' = held
PressButton(b) ==
    /\ pressed' = pressed \cup {b}
    /\ held' = held \cup {b}

ReleaseButton(b) ==
    /\ pressed' = pressed \ {b}
    /\ held' = held \ {b}

\* The cursor is moved to the point first, then the button pressed.
ApplyDown ==
    LET e == Head(queue) IN
    /\ Take("down")
    /\ \/ Fails("move") /\ UNCHANGED <<cursor, pressed, held>>
       \/ Fails("press") /\ cursor' = ToScreen(e.at) /\ UNCHANGED <<pressed, held>>
       \/ Works /\ cursor' = ToScreen(e.at) /\ PressButton("left")
    /\ UNCHANGED <<injector, moveRest, scrollRest, modsDown, channel>>

ApplyMove ==
    LET e == Head(queue) IN
    /\ Take("move")
    /\ \/ Fails("move") /\ UNCHANGED cursor
       \/ Works /\ cursor' = ToScreen(e.at)
    /\ UNCHANGED <<injector, held, moveRest, scrollRest, pressed, modsDown, channel>>

ApplyUp ==
    LET e == Head(queue) IN
    /\ Take("up")
    /\ \/ Fails("move") /\ UNCHANGED <<cursor, pressed, held>>
       \/ Fails("release") /\ cursor' = ToScreen(e.at) /\ UNCHANGED <<pressed, held>>
       \/ Works /\ cursor' = ToScreen(e.at) /\ ReleaseButton("left")
    /\ UNCHANGED <<injector, moveRest, scrollRest, modsDown, channel>>

\* The rest is carried over even when the move fails; less than a point moves nothing.
ApplyMoveRel ==
    LET parts == moveRest + ToPoints(Head(queue).at)
        target == Clamped(cursor + Whole(parts), 0, DisplaySide - 1)
    IN  /\ Take("move_rel")
        /\ moveRest' = Rest(parts)
        /\ \/ Whole(parts) # 0 /\ Fails("move") /\ UNCHANGED cursor
           \/ Works /\ cursor' = IF Whole(parts) = 0 THEN cursor ELSE target
        /\ UNCHANGED <<injector, held, scrollRest, pressed, modsDown, channel>>

\* A click presses and releases: a button held down before is up after it.
ApplyClick ==
    /\ Take("click")
    /\ \/ Fails("press") /\ UNCHANGED pressed
       \/ Works /\ pressed' = pressed \ {Head(queue).button}
    /\ UNCHANGED <<injector, held, moveRest, scrollRest, modsDown, cursor, channel>>

ApplyPress ==
    /\ Take("press")
    /\ \/ Fails("press") /\ UNCHANGED <<pressed, held>>
       \/ Works /\ PressButton(Head(queue).button)
    /\ UNCHANGED <<injector, moveRest, scrollRest, modsDown, cursor, channel>>

ApplyRelease ==
    /\ Take("release")
    /\ \/ Fails("release") /\ UNCHANGED <<pressed, held>>
       \/ Works /\ ReleaseButton(Head(queue).button)
    /\ UNCHANGED <<injector, moveRest, scrollRest, modsDown, cursor, channel>>

\* The content follows the fingers, hence the minus.  A scroll that fails is lost.
ApplyScroll ==
    LET parts == scrollRest - ToPoints(Head(queue).at) IN
    /\ Take("scroll")
    /\ scrollRest' = Rest(parts)
    /\ Works \/ (Whole(parts) # 0 /\ Fails("move"))
    /\ UNCHANGED <<injector, held, moveRest, pressed, modsDown, cursor, channel>>

\* text(): posted as one event with every modifier flag cleared.
ApplyText ==
    /\ Take("text")
    /\ Works \/ Fails("key")
    /\ UNCHANGED <<injector, held, moveRest, scrollRest, pressed, modsDown, cursor, channel>>

\* key_combo: `down' are the modifiers that went down before one failed, `stuck'
\* those of them whose release failed; what went down is released either way.
ReleasedIfClicked(down, stuck, clicked) == IF clicked THEN stuck ELSE down
LeftDown(down, stuck, clicked) == stuck

ApplyKey ==
    LET mods == Head(queue).mods IN
    /\ Take("key")
    /\ \E down \in SUBSET mods, clicked \in BOOLEAN :
       \E stuck \in SUBSET down :
          /\ clicked => down = mods
          /\ failed' = failed \cup (IF clicked THEN {} ELSE {"key"})
                              \cup (IF stuck = {} THEN {} ELSE {"release"})
          /\ failed' \subseteq failed \cup CanFail
          /\ modsDown' = (modsDown \ down) \cup LeftDown(down, stuck, clicked)
    /\ UNCHANGED <<injector, held, moveRest, scrollRest, pressed, cursor, channel>>

\* Reset: what is held is forgotten first, then released one after the other up
\* to the first failure; `done' are those released before it.
ApplyReset ==
    /\ Take("reset")
    /\ held' = {}
    /\ \/ Works /\ pressed' = pressed \ held
       \/ \E done \in SUBSET held :
            /\ done # held /\ Fails("reset")
            /\ pressed' = pressed \ done
    /\ UNCHANGED <<injector, moveRest, scrollRest, modsDown, cursor, channel>>

Apply == \/ ApplyDown \/ ApplyMove \/ ApplyUp \/ ApplyMoveRel \/ ApplyClick
         \/ ApplyPress \/ ApplyRelease \/ ApplyScroll \/ ApplyText \/ ApplyKey
         \/ ApplyReset

Next ==
    \/ Ready \/ NoPermission \/ Apply
    \/ \E c \in Channel :
         \/ OnOpen(c) \/ Closes(c) \/ OnClose(c)
         \/ \E e \in ViewerEvent : OnMessage(c, e)

Spec == InjectorInit /\ [][Next]_injectorVars

-----------------------------------------------------------------------------
\* Properties.

\* Every button that is down is one Reset knows of, unless a release failed
\* while Reset was at work: Reset forgets the buttons before it releases them
\* (input.rs, Reset), and nobody tries again.
HeldIsKnown == "reset" \notin failed => pressed \subseteq held

\* Once every channel has been closed and the queue is empty, no button is down
\* (unless a release failed during Reset): a viewer that disconnects in the
\* middle of a drag does not leave the button held, whatever its messages, the
\* other sessions' and the order the closes are noticed in.
NobodyHolds ==
    (/\ \A c \in Channel : channel[c] \in {"new", "reset"}
     /\ queue = <<>> /\ "reset" \notin failed)
    => pressed = {}

\* Between events no modifier is down, even after presses or keys failed: only
\* a release that failed leaves one down (key_combo's promise).
ModifiersReleased == "release" \notin failed => modsDown = {}

\* Relative moves lose nothing: what a move asks for is either moved or carried
\* over, and no whole point is ever carried over, so a slow finger still moves
\* the cursor.  (At the edges of the display the cursor stops.)
MovesAddUp ==
    [][ (/\ injector = "ready" /\ queue # <<>> /\ queue' = Tail(queue)
         /\ Head(queue).type = "move_rel"
         /\ "move" \notin failed' /\ cursor' \in 1..DisplaySide - 2)
        => /\ PointParts * (cursor' - cursor) + moveRest' - moveRest = ToPoints(Head(queue).at)
           /\ moveRest' \in (1 - PointParts)..(PointParts - 1) ]_injectorVars
=============================================================================
