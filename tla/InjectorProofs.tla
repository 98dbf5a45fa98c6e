--------------------------- MODULE InjectorProofs ---------------------------
(* Proofs about Injector: its types, which buttons and modifiers may be down, *)
(* and that relative moves add up, for every geometry, number of channels,    *)
(* events and calls that fail.                                                *)
EXTENDS Injector, SequenceTheorems, TLAPS

-----------------------------------------------------------------------------
\* Arithmetic.

\* A quotient is as small as the bound of what is divided allows.
LEMMA QuotientBound ==
    ASSUME NEW m \in Nat \ {0}, NEW k \in Nat, NEW a \in Nat, a < k * m
    PROVE  a \div m \in 0..k - 1
<1> DEFINE q == a \div m
<1>1. q \in Nat /\ m * q <= a
  OBVIOUS
<1> HIDE DEF q
<1>2. ASSUME q >= k PROVE FALSE
  <2>1. m * q >= m * k
    BY <1>1, <1>2
  <2> QED
    BY <1>1, <2>1
<1>3. q < k
  BY <1>1, <1>2
<1> QED
  BY <1>1, <1>3 DEF q

\* What take_whole leaves over is less than a point.
LEMMA WholeRest ==
    ASSUME NEW parts \in Int, PointParts \in Nat \ {0}
    PROVE  /\ Whole(parts) \in Int /\ Rest(parts) \in Int
           /\ Rest(parts) \in (1 - PointParts)..(PointParts - 1)
           /\ PointParts * Whole(parts) + Rest(parts) = parts
<1> DEFINE m == PointParts
<1>1. \A n \in Nat : n \div m \in Nat /\ m * (n \div m) <= n /\ n < m * (n \div m) + m
  OBVIOUS
<1> HIDE DEF m
<1>2. m \in Nat \ {0}
  BY DEF m
<1>3. CASE parts >= 0
  <2>1. Whole(parts) = parts \div m
    BY <1>3 DEF Whole, m
  <2>2. Rest(parts) = parts - m * (parts \div m)
    BY <2>1 DEF Rest, m
  <2>3. parts \div m \in Nat /\ m * (parts \div m) <= parts
        /\ parts < m * (parts \div m) + m
    BY <1>1, <1>3
  <2> QED
    BY <1>2, <2>1, <2>2, <2>3 DEF m
<1>4. CASE parts < 0
  <2> DEFINE q == (-parts) \div m
  <2>1. Whole(parts) = -q
    BY <1>4 DEF Whole, m
  <2>2. q \in Nat /\ m * q <= -parts /\ -parts < m * q + m
    BY <1>1, <1>4
  <2> HIDE DEF q
  <2>3. Rest(parts) = parts - m * (-q)
    BY <2>1 DEF Rest, m
  <2>4. m * (-q) = -(m * q)
    BY <1>2, <2>2
  <2> QED
    BY <1>2, <2>1, <2>2, <2>3, <2>4 DEF m
<1> QED
  BY <1>3, <1>4

\* The scale is a fraction.
LEMMA ScaleType == Scale[1] \in Nat \ {0} /\ Scale[2] \in Nat \ {0}
BY GeometryAssumption DEF Scale

\* Points are counted in parts.
LEMMA PartsType ==
    /\ PointParts \in Nat \ {0}
    /\ \A d \in Int : ToPoints(d) \in Int
<1>1. PointParts \in Nat \ {0}
  BY ScaleType, GeometryAssumption DEF PointParts
<1>2. ASSUME NEW d \in Int PROVE ToPoints(d) \in Int
  BY ScaleType, GeometryAssumption DEF ToPoints
<1> QED
  BY <1>1, <1>2

\* A position of the frame, or beside it, is a point of the display.
LEMMA OnDisplay == ASSUME NEW n \in Int PROVE ToScreen(n) \in 0..DisplaySide - 1
<1> DEFINE above == 2 * n * FrameSide * Scale[2]
                    - Grain * (FrameSide * Scale[2] - DisplaySide * Scale[1])
           below == 2 * Grain * Scale[1]
           inside == Clamped(above, 0, (DisplaySide - 1) * below)
<1>1. above \in Int /\ below \in Nat \ {0}
  BY ScaleType, GeometryAssumption
<1>2. ToScreen(n) = (2 * inside + below) \div (2 * below)
  BY DEF ToScreen
<1> HIDE DEF above, below
<1>3. DisplaySide \in Nat \ {0}
  BY GeometryAssumption
<1>4. (DisplaySide - 1) * below \in Nat
  BY <1>1, <1>3
<1>5. inside \in Nat /\ inside <= (DisplaySide - 1) * below
  BY <1>1, <1>4 DEF Clamped
<1> HIDE DEF inside
<1>6. 2 * inside + below < DisplaySide * (2 * below)
  <2>1. (DisplaySide - 1) * below = DisplaySide * below - below
    BY <1>1, <1>3
  <2>2. DisplaySide * (2 * below) = 2 * (DisplaySide * below)
    BY <1>1, <1>3
  <2>3. DisplaySide * below \in Nat
    BY <1>1, <1>3
  <2> QED
    BY <1>1, <1>5, <2>1, <2>2, <2>3
<1>7. 2 * below \in Nat \ {0} /\ 2 * inside + below \in Nat
  BY <1>1, <1>5
<1> QED
  BY <1>2, <1>3, <1>6, <1>7, QuotientBound

-----------------------------------------------------------------------------
\* The inductive invariant.

AllClosed == \A c \in Channel : channel[c] \in {"new", "reset"}

\* Before the injector is ready, and without permission, it holds nothing.
IdleHoldsNothing ==
    /\ injector # "ready" => held = {}
    /\ injector = "off" => queue = <<>>

\* When every channel is closed, nothing is held or a Reset is the last event.
ResetIsLast ==
    (AllClosed /\ "reset" \notin failed) =>
        IF queue = <<>> THEN held = {} ELSE queue[Len(queue)].type = "reset"

InjectorInv ==
    InjectorTypeOK /\ HeldIsKnown /\ IdleHoldsNothing /\ ResetIsLast /\ ModifiersReleased

-----------------------------------------------------------------------------
\* What an event is.
LEMMA EventFields ==
    ASSUME NEW e \in InputEvent
    PROVE  e.at \in Int /\ e.button \in Button /\ e.mods \subseteq Modifier
BY DEF InputEvent

\* What on_close sends is an event too.
LEMMA ResetIsEvent == Reset \in InputEvent /\ Reset.type = "reset"
BY DEF Reset, Event, InputEvent, EventType, Button

\* Taking the first event off the queue.
LEMMA Taken ==
    ASSUME NEW q \in Seq(InputEvent), q # <<>>
    PROVE  /\ Head(q) \in InputEvent /\ Tail(q) \in Seq(InputEvent)
           /\ Tail(q) = <<>> => Head(q) = q[Len(q)]
           /\ Tail(q) # <<>> => Tail(q)[Len(Tail(q))] = q[Len(q)]
<1>1. Len(q) \in Nat \ {0}
  BY EmptySeq, Zenon
<1>2. Head(q) = q[1] /\ Head(q) \in InputEvent
  BY <1>1
<1>3. /\ Tail(q) \in Seq(InputEvent) /\ Len(Tail(q)) = Len(q) - 1
      /\ \A i \in 1..Len(q) - 1 : Tail(q)[i] = q[i + 1]
  BY <1>1
<1>4. Tail(q) = <<>> => Len(q) = 1
  BY <1>1, <1>3
<1>5. Tail(q) # <<>> => Len(q) > 1
  <2>1. Tail(q) # <<>> => Len(Tail(q)) \in Nat \ {0}
    BY <1>3, EmptySeq, Zenon
  <2> QED
    BY <1>1, <1>3, <2>1
<1> QED
  BY <1>1, <1>2, <1>3, <1>4, <1>5

\* Adding one at the end.
LEMMA Appended ==
    ASSUME NEW q \in Seq(InputEvent), NEW e \in InputEvent
    PROVE  /\ Append(q, e) \in Seq(InputEvent) /\ Append(q, e) # <<>>
           /\ Append(q, e)[Len(Append(q, e))] = e
<1>1. Append(q, e) \in Seq(InputEvent) /\ Len(Append(q, e)) = Len(q) + 1
      /\ Append(q, e)[Len(q) + 1] = e /\ Len(q) \in Nat
  OBVIOUS
<1>2. Len(Append(q, e)) # 0
  BY <1>1
<1>3. Append(q, e) # <<>>
  BY <1>2, EmptySeq
<1> QED
  BY <1>1, <1>3

\* Taking an event off makes the queue shorter.
LEMMA Shorter ==
    ASSUME NEW q \in Seq(InputEvent), q # <<>>
    PROVE  Len(Tail(q)) = Len(q) - 1 /\ Len(q) \in Nat
<1>1. Len(q) \in Nat \ {0}
  BY EmptySeq, Zenon
<1> QED
  BY <1>1

\* Nothing is queued or held when the host starts.
LEMMA InitInjectorInv == InjectorInit => InjectorInv
<1> SUFFICES ASSUME InjectorInit PROVE InjectorInv
  OBVIOUS
<1>1. 0 \in 0..DisplaySide - 1 /\ <<>> \in Seq(InputEvent)
  BY GeometryAssumption
<1>2. InjectorTypeOK
  BY <1>1 DEF InjectorInit, InjectorTypeOK
<1> QED
  BY <1>2 DEF InjectorInit, InjectorInv, HeldIsKnown, IdleHoldsNothing, ResetIsLast,
             ModifiersReleased

\* An event the injector applies: the queue gets shorter, and unless the event is a
\* Reset, nobody may be left who should have been reset.
LEMMA AppliedStep ==
    ASSUME InjectorInv, NEW t \in EventType, Take(t),
           UNCHANGED <<injector, channel>>,
           failed \subseteq failed', t = "reset" => held' = {}
    PROVE  IdleHoldsNothing' /\ ResetIsLast' /\ queue' \in Seq(InputEvent)
           /\ Head(queue) \in InputEvent /\ Head(queue).type = t
<1>1. /\ injector = "ready" /\ queue # <<>> /\ Head(queue).type = t
      /\ queue' = Tail(queue) /\ queue \in Seq(InputEvent)
  BY DEF Take, InjectorInv, InjectorTypeOK
<1>2. /\ Head(queue) \in InputEvent /\ queue' \in Seq(InputEvent)
      /\ queue' = <<>> => Head(queue) = queue[Len(queue)]
      /\ queue' # <<>> => queue'[Len(queue')] = queue[Len(queue)]
  BY <1>1, Taken
<1>3. IdleHoldsNothing'
  BY <1>1 DEF IdleHoldsNothing
<1>4. ResetIsLast'
  <2> SUFFICES ASSUME AllClosed', "reset" \notin failed'
               PROVE  IF queue' = <<>> THEN held' = {} ELSE queue'[Len(queue')].type = "reset"
    BY DEF ResetIsLast
  <2>1. AllClosed /\ "reset" \notin failed
    BY DEF AllClosed
  <2>2. queue[Len(queue)].type = "reset"
    BY <1>1, <2>1 DEF InjectorInv, ResetIsLast
  <2> QED
    BY <1>1, <1>2, <2>2
<1> QED
  BY <1>1, <1>2, <1>3, <1>4

\* The first event of the queue, when it is of type t.
LEMMA TakenEvent ==
    ASSUME InjectorTypeOK, NEW t, Take(t)
    PROVE  queue' \in Seq(InputEvent) /\ Head(queue) \in InputEvent /\ Head(queue).type = t
BY Taken DEF Take, InjectorTypeOK

\* Every event the injector applies keeps the types.
LEMMA ApplyTypes == InjectorTypeOK /\ Apply => InjectorTypeOK'
<1> SUFFICES ASSUME InjectorTypeOK, Apply PROVE InjectorTypeOK'
  OBVIOUS
<1>0. InjectorTypeOK
  OBVIOUS
<1>1. CASE ApplyDown
  <2> DEFINE e == Head(queue)
  <2>1. /\ Take("down") /\ UNCHANGED <<injector, channel>>
        /\ failed \subseteq failed'
        /\ failed' \subseteq {"move", "press", "release", "reset", "key"}
    BY <1>1, <1>0 DEF ApplyDown, Fails, Works, PressButton, InjectorTypeOK
  <2>2. queue' \in Seq(InputEvent) /\ e \in InputEvent /\ e.type = "down"
    BY <1>0, <2>1, TakenEvent
  <2>3. /\ e.at \in Int /\ e.button \in Button /\ e.mods \subseteq Modifier
        /\ "left" \in Button
    BY <2>2, EventFields DEF Button
  <2> HIDE DEF e
  <2>4. ToScreen(e.at) \in 0..DisplaySide - 1
    BY <2>3, OnDisplay
  <2> QED
    BY <1>1, <1>0, <2>1, <2>2, <2>3, <2>4
       DEF ApplyDown, Fails, Works, PressButton, InjectorTypeOK, e
<1>2. CASE ApplyMove
  <2> DEFINE e == Head(queue)
  <2>1. /\ Take("move") /\ UNCHANGED <<injector, channel>>
        /\ failed \subseteq failed'
        /\ failed' \subseteq {"move", "press", "release", "reset", "key"}
    BY <1>2, <1>0 DEF ApplyMove, Fails, Works, InjectorTypeOK
  <2>2. queue' \in Seq(InputEvent) /\ e \in InputEvent /\ e.type = "move"
    BY <1>0, <2>1, TakenEvent
  <2>3. /\ e.at \in Int /\ e.button \in Button /\ e.mods \subseteq Modifier
        /\ "left" \in Button
    BY <2>2, EventFields DEF Button
  <2> HIDE DEF e
  <2>4. ToScreen(e.at) \in 0..DisplaySide - 1
    BY <2>3, OnDisplay
  <2> QED
    BY <1>2, <1>0, <2>1, <2>2, <2>3, <2>4 DEF ApplyMove, Fails, Works, InjectorTypeOK, e
<1>3. CASE ApplyUp
  <2> DEFINE e == Head(queue)
  <2>1. /\ Take("up") /\ UNCHANGED <<injector, channel>>
        /\ failed \subseteq failed'
        /\ failed' \subseteq {"move", "press", "release", "reset", "key"}
    BY <1>3, <1>0 DEF ApplyUp, Fails, Works, ReleaseButton, InjectorTypeOK
  <2>2. queue' \in Seq(InputEvent) /\ e \in InputEvent /\ e.type = "up"
    BY <1>0, <2>1, TakenEvent
  <2>3. /\ e.at \in Int /\ e.button \in Button /\ e.mods \subseteq Modifier
        /\ "left" \in Button
    BY <2>2, EventFields DEF Button
  <2> HIDE DEF e
  <2>4. ToScreen(e.at) \in 0..DisplaySide - 1
    BY <2>3, OnDisplay
  <2> QED
    BY <1>3, <1>0, <2>1, <2>2, <2>3, <2>4
       DEF ApplyUp, Fails, Works, ReleaseButton, InjectorTypeOK, e
<1>4. CASE ApplyMoveRel
  <2> DEFINE e == Head(queue)
  <2>1. /\ Take("move_rel") /\ UNCHANGED <<injector, channel>>
        /\ failed \subseteq failed'
        /\ failed' \subseteq {"move", "press", "release", "reset", "key"}
    BY <1>4, <1>0 DEF ApplyMoveRel, Fails, Works, InjectorTypeOK
  <2>2. queue' \in Seq(InputEvent) /\ e \in InputEvent /\ e.type = "move_rel"
    BY <1>0, <2>1, TakenEvent
  <2>3. /\ e.at \in Int /\ e.button \in Button /\ e.mods \subseteq Modifier
        /\ "left" \in Button
    BY <2>2, EventFields DEF Button
  <2> HIDE DEF e
  <2> DEFINE parts == moveRest + ToPoints(e.at)
  <2>4. Rest(parts) \in Int /\ Whole(parts) \in Int
    <3>0. ToPoints(e.at) \in Int /\ moveRest \in Int
      BY <1>0, <2>3, PartsType, Zenon DEF InjectorTypeOK
    <3>1. parts \in Int
      BY <3>0
    <3> HIDE DEF parts
    <3> QED
      BY <3>1, WholeRest, PartsType
  <2>5. Clamped(cursor + Whole(parts), 0, DisplaySide - 1) \in 0..DisplaySide - 1
    BY <1>0, <2>4, GeometryAssumption DEF InjectorTypeOK, Clamped
  <2> QED
    BY <1>4, <1>0, <2>1, <2>2, <2>3, <2>4, <2>5
       DEF ApplyMoveRel, Fails, Works, InjectorTypeOK, e
<1>5. CASE ApplyClick
  <2> DEFINE e == Head(queue)
  <2>1. /\ Take("click") /\ UNCHANGED <<injector, channel>>
        /\ failed \subseteq failed'
        /\ failed' \subseteq {"move", "press", "release", "reset", "key"}
    BY <1>5, <1>0 DEF ApplyClick, Fails, Works, InjectorTypeOK
  <2>2. queue' \in Seq(InputEvent) /\ e \in InputEvent /\ e.type = "click"
    BY <1>0, <2>1, TakenEvent
  <2>3. /\ e.at \in Int /\ e.button \in Button /\ e.mods \subseteq Modifier
        /\ "left" \in Button
    BY <2>2, EventFields DEF Button
  <2> HIDE DEF e
  <2> QED
    BY <1>5, <1>0, <2>1, <2>2, <2>3 DEF ApplyClick, Fails, Works, InjectorTypeOK, e
<1>6. CASE ApplyPress
  <2> DEFINE e == Head(queue)
  <2>1. /\ Take("press") /\ UNCHANGED <<injector, channel>>
        /\ failed \subseteq failed'
        /\ failed' \subseteq {"move", "press", "release", "reset", "key"}
    BY <1>6, <1>0 DEF ApplyPress, Fails, Works, PressButton, InjectorTypeOK
  <2>2. queue' \in Seq(InputEvent) /\ e \in InputEvent /\ e.type = "press"
    BY <1>0, <2>1, TakenEvent
  <2>3. /\ e.at \in Int /\ e.button \in Button /\ e.mods \subseteq Modifier
        /\ "left" \in Button
    BY <2>2, EventFields DEF Button
  <2> HIDE DEF e
  <2> QED
    BY <1>6, <1>0, <2>1, <2>2, <2>3
       DEF ApplyPress, Fails, Works, PressButton, InjectorTypeOK, e
<1>7. CASE ApplyRelease
  <2> DEFINE e == Head(queue)
  <2>1. /\ Take("release") /\ UNCHANGED <<injector, channel>>
        /\ failed \subseteq failed'
        /\ failed' \subseteq {"move", "press", "release", "reset", "key"}
    BY <1>7, <1>0 DEF ApplyRelease, Fails, Works, ReleaseButton, InjectorTypeOK
  <2>2. queue' \in Seq(InputEvent) /\ e \in InputEvent /\ e.type = "release"
    BY <1>0, <2>1, TakenEvent
  <2>3. /\ e.at \in Int /\ e.button \in Button /\ e.mods \subseteq Modifier
        /\ "left" \in Button
    BY <2>2, EventFields DEF Button
  <2> HIDE DEF e
  <2> QED
    BY <1>7, <1>0, <2>1, <2>2, <2>3
       DEF ApplyRelease, Fails, Works, ReleaseButton, InjectorTypeOK, e
<1>8. CASE ApplyScroll
  <2> DEFINE e == Head(queue)
  <2>1. /\ Take("scroll") /\ UNCHANGED <<injector, channel>>
        /\ failed \subseteq failed'
        /\ failed' \subseteq {"move", "press", "release", "reset", "key"}
    BY <1>8, <1>0 DEF ApplyScroll, Fails, Works, InjectorTypeOK
  <2>2. queue' \in Seq(InputEvent) /\ e \in InputEvent /\ e.type = "scroll"
    BY <1>0, <2>1, TakenEvent
  <2>3. /\ e.at \in Int /\ e.button \in Button /\ e.mods \subseteq Modifier
        /\ "left" \in Button
    BY <2>2, EventFields DEF Button
  <2> HIDE DEF e
  <2> DEFINE parts == scrollRest - ToPoints(e.at)
  <2>4. Rest(parts) \in Int
    <3>0. ToPoints(e.at) \in Int /\ scrollRest \in Int
      BY <1>0, <2>3, PartsType, Zenon DEF InjectorTypeOK
    <3>1. parts \in Int
      BY <3>0
    <3> HIDE DEF parts
    <3> QED
      BY <3>1, WholeRest, PartsType
  <2> QED
    BY <1>8, <1>0, <2>1, <2>2, <2>3, <2>4 DEF ApplyScroll, Fails, Works, InjectorTypeOK, e
<1>9. CASE ApplyText
  <2> DEFINE e == Head(queue)
  <2>1. /\ Take("text") /\ UNCHANGED <<injector, channel>>
        /\ failed \subseteq failed'
        /\ failed' \subseteq {"move", "press", "release", "reset", "key"}
    BY <1>9, <1>0 DEF ApplyText, Fails, Works, InjectorTypeOK
  <2>2. queue' \in Seq(InputEvent) /\ e \in InputEvent /\ e.type = "text"
    BY <1>0, <2>1, TakenEvent
  <2>3. /\ e.at \in Int /\ e.button \in Button /\ e.mods \subseteq Modifier
        /\ "left" \in Button
    BY <2>2, EventFields DEF Button
  <2> HIDE DEF e
  <2> QED
    BY <1>9, <1>0, <2>1, <2>2, <2>3 DEF ApplyText, Fails, Works, InjectorTypeOK, e
<1>10. CASE ApplyKey
  <2> DEFINE e == Head(queue)
  <2>1. /\ Take("key") /\ UNCHANGED <<injector, channel>>
        /\ failed \subseteq failed'
        /\ failed' \subseteq {"move", "press", "release", "reset", "key"}
    BY <1>10, <1>0 DEF ApplyKey, LeftDown, InjectorTypeOK
  <2>2. queue' \in Seq(InputEvent) /\ e \in InputEvent /\ e.type = "key"
    BY <1>0, <2>1, TakenEvent
  <2>3. /\ e.at \in Int /\ e.button \in Button /\ e.mods \subseteq Modifier
        /\ "left" \in Button
    BY <2>2, EventFields DEF Button
  <2> HIDE DEF e
  <2> QED
    BY <1>10, <1>0, <2>1, <2>2, <2>3 DEF ApplyKey, LeftDown, InjectorTypeOK, e
<1>11. CASE ApplyReset
  <2> DEFINE e == Head(queue)
  <2>1. /\ Take("reset") /\ UNCHANGED <<injector, channel>>
        /\ failed \subseteq failed'
        /\ failed' \subseteq {"move", "press", "release", "reset", "key"}
        /\ held' = {}
    BY <1>11, <1>0 DEF ApplyReset, Fails, Works, InjectorTypeOK
  <2>2. queue' \in Seq(InputEvent) /\ e \in InputEvent /\ e.type = "reset"
    BY <1>0, <2>1, TakenEvent
  <2>3. /\ e.at \in Int /\ e.button \in Button /\ e.mods \subseteq Modifier
        /\ "left" \in Button
    BY <2>2, EventFields DEF Button
  <2> HIDE DEF e
  <2> QED
    BY <1>11, <1>0, <2>1, <2>2, <2>3 DEF ApplyReset, Fails, Works, InjectorTypeOK, e
<1> QED
  BY <1>1, <1>2, <1>3, <1>4, <1>5, <1>6, <1>7, <1>8, <1>9, <1>10, <1>11 DEF Apply

\* Every event the injector applies keeps the invariant.
LEMMA ApplyStep == InjectorInv /\ Apply => InjectorInv'
<1> SUFFICES ASSUME InjectorInv, Apply PROVE InjectorInv'
  OBVIOUS
<1>0. InjectorTypeOK /\ HeldIsKnown /\ ModifiersReleased
  BY DEF InjectorInv
<1>12. InjectorTypeOK'
  BY <1>0, ApplyTypes
<1>1. CASE ApplyDown
  <2> DEFINE e == Head(queue)
  <2>1. /\ Take("down") /\ UNCHANGED <<injector, channel>>
        /\ failed \subseteq failed'
        /\ failed' \subseteq {"move", "press", "release", "reset", "key"}
    BY <1>1, <1>0 DEF ApplyDown, Fails, Works, PressButton, InjectorTypeOK
  <2>2. /\ IdleHoldsNothing' /\ ResetIsLast' /\ queue' \in Seq(InputEvent)
        /\ e \in InputEvent /\ e.type = "down"
    BY <2>1, AppliedStep DEF EventType
  <2>3. /\ e.at \in Int /\ e.button \in Button /\ e.mods \subseteq Modifier
        /\ "left" \in Button
    BY <2>2, EventFields DEF Button
  <2> HIDE DEF e
  <2>7. HeldIsKnown'
    BY <1>1, <1>0, <2>1, <2>3 DEF ApplyDown, Fails, Works, PressButton, HeldIsKnown, e
  <2>8. ModifiersReleased'
    BY <1>1, <1>0, <2>1, <2>3
       DEF ApplyDown, Fails, Works, PressButton, ModifiersReleased, e
  <2> QED
    BY <1>12, <2>2, <2>7, <2>8 DEF InjectorInv
<1>2. CASE ApplyMove
  <2> DEFINE e == Head(queue)
  <2>1. /\ Take("move") /\ UNCHANGED <<injector, channel>>
        /\ failed \subseteq failed'
        /\ failed' \subseteq {"move", "press", "release", "reset", "key"}
    BY <1>2, <1>0 DEF ApplyMove, Fails, Works, InjectorTypeOK
  <2>2. /\ IdleHoldsNothing' /\ ResetIsLast' /\ queue' \in Seq(InputEvent)
        /\ e \in InputEvent /\ e.type = "move"
    BY <2>1, AppliedStep DEF EventType
  <2>3. /\ e.at \in Int /\ e.button \in Button /\ e.mods \subseteq Modifier
        /\ "left" \in Button
    BY <2>2, EventFields DEF Button
  <2> HIDE DEF e
  <2>7. HeldIsKnown'
    BY <1>2, <1>0, <2>1, <2>3 DEF ApplyMove, Fails, Works, HeldIsKnown, e
  <2>8. ModifiersReleased'
    BY <1>2, <1>0, <2>1, <2>3 DEF ApplyMove, Fails, Works, ModifiersReleased, e
  <2> QED
    BY <1>12, <2>2, <2>7, <2>8 DEF InjectorInv
<1>3. CASE ApplyUp
  <2> DEFINE e == Head(queue)
  <2>1. /\ Take("up") /\ UNCHANGED <<injector, channel>>
        /\ failed \subseteq failed'
        /\ failed' \subseteq {"move", "press", "release", "reset", "key"}
    BY <1>3, <1>0 DEF ApplyUp, Fails, Works, ReleaseButton, InjectorTypeOK
  <2>2. /\ IdleHoldsNothing' /\ ResetIsLast' /\ queue' \in Seq(InputEvent)
        /\ e \in InputEvent /\ e.type = "up"
    BY <2>1, AppliedStep DEF EventType
  <2>3. /\ e.at \in Int /\ e.button \in Button /\ e.mods \subseteq Modifier
        /\ "left" \in Button
    BY <2>2, EventFields DEF Button
  <2> HIDE DEF e
  <2>7. HeldIsKnown'
    BY <1>3, <1>0, <2>1, <2>3 DEF ApplyUp, Fails, Works, ReleaseButton, HeldIsKnown, e
  <2>8. ModifiersReleased'
    BY <1>3, <1>0, <2>1, <2>3
       DEF ApplyUp, Fails, Works, ReleaseButton, ModifiersReleased, e
  <2> QED
    BY <1>12, <2>2, <2>7, <2>8 DEF InjectorInv
<1>4. CASE ApplyMoveRel
  <2> DEFINE e == Head(queue)
  <2>1. /\ Take("move_rel") /\ UNCHANGED <<injector, channel>>
        /\ failed \subseteq failed'
        /\ failed' \subseteq {"move", "press", "release", "reset", "key"}
    BY <1>4, <1>0 DEF ApplyMoveRel, Fails, Works, InjectorTypeOK
  <2>2. /\ IdleHoldsNothing' /\ ResetIsLast' /\ queue' \in Seq(InputEvent)
        /\ e \in InputEvent /\ e.type = "move_rel"
    BY <2>1, AppliedStep DEF EventType
  <2>3. /\ e.at \in Int /\ e.button \in Button /\ e.mods \subseteq Modifier
        /\ "left" \in Button
    BY <2>2, EventFields DEF Button
  <2> HIDE DEF e
  <2>7. HeldIsKnown'
    BY <1>4, <1>0, <2>1, <2>3 DEF ApplyMoveRel, Fails, Works, HeldIsKnown, e
  <2>8. ModifiersReleased'
    BY <1>4, <1>0, <2>1, <2>3
       DEF ApplyMoveRel, Fails, Works, ModifiersReleased, e
  <2> QED
    BY <1>12, <2>2, <2>7, <2>8 DEF InjectorInv
<1>5. CASE ApplyClick
  <2> DEFINE e == Head(queue)
  <2>1. /\ Take("click") /\ UNCHANGED <<injector, channel>>
        /\ failed \subseteq failed'
        /\ failed' \subseteq {"move", "press", "release", "reset", "key"}
    BY <1>5, <1>0 DEF ApplyClick, Fails, Works, InjectorTypeOK
  <2>2. /\ IdleHoldsNothing' /\ ResetIsLast' /\ queue' \in Seq(InputEvent)
        /\ e \in InputEvent /\ e.type = "click"
    BY <2>1, AppliedStep DEF EventType
  <2>3. /\ e.at \in Int /\ e.button \in Button /\ e.mods \subseteq Modifier
        /\ "left" \in Button
    BY <2>2, EventFields DEF Button
  <2> HIDE DEF e
  <2>7. HeldIsKnown'
    BY <1>5, <1>0, <2>1, <2>3 DEF ApplyClick, Fails, Works, HeldIsKnown, e
  <2>8. ModifiersReleased'
    BY <1>5, <1>0, <2>1, <2>3 DEF ApplyClick, Fails, Works, ModifiersReleased, e
  <2> QED
    BY <1>12, <2>2, <2>7, <2>8 DEF InjectorInv
<1>6. CASE ApplyPress
  <2> DEFINE e == Head(queue)
  <2>1. /\ Take("press") /\ UNCHANGED <<injector, channel>>
        /\ failed \subseteq failed'
        /\ failed' \subseteq {"move", "press", "release", "reset", "key"}
    BY <1>6, <1>0 DEF ApplyPress, Fails, Works, PressButton, InjectorTypeOK
  <2>2. /\ IdleHoldsNothing' /\ ResetIsLast' /\ queue' \in Seq(InputEvent)
        /\ e \in InputEvent /\ e.type = "press"
    BY <2>1, AppliedStep DEF EventType
  <2>3. /\ e.at \in Int /\ e.button \in Button /\ e.mods \subseteq Modifier
        /\ "left" \in Button
    BY <2>2, EventFields DEF Button
  <2> HIDE DEF e
  <2>7. HeldIsKnown'
    BY <1>6, <1>0, <2>1, <2>3 DEF ApplyPress, Fails, Works, PressButton, HeldIsKnown, e
  <2>8. ModifiersReleased'
    BY <1>6, <1>0, <2>1, <2>3
       DEF ApplyPress, Fails, Works, PressButton, ModifiersReleased, e
  <2> QED
    BY <1>12, <2>2, <2>7, <2>8 DEF InjectorInv
<1>7. CASE ApplyRelease
  <2> DEFINE e == Head(queue)
  <2>1. /\ Take("release") /\ UNCHANGED <<injector, channel>>
        /\ failed \subseteq failed'
        /\ failed' \subseteq {"move", "press", "release", "reset", "key"}
    BY <1>7, <1>0 DEF ApplyRelease, Fails, Works, ReleaseButton, InjectorTypeOK
  <2>2. /\ IdleHoldsNothing' /\ ResetIsLast' /\ queue' \in Seq(InputEvent)
        /\ e \in InputEvent /\ e.type = "release"
    BY <2>1, AppliedStep DEF EventType
  <2>3. /\ e.at \in Int /\ e.button \in Button /\ e.mods \subseteq Modifier
        /\ "left" \in Button
    BY <2>2, EventFields DEF Button
  <2> HIDE DEF e
  <2>7. HeldIsKnown'
    BY <1>7, <1>0, <2>1, <2>3 DEF ApplyRelease, Fails, Works, ReleaseButton, HeldIsKnown, e
  <2>8. ModifiersReleased'
    BY <1>7, <1>0, <2>1, <2>3
       DEF ApplyRelease, Fails, Works, ReleaseButton, ModifiersReleased, e
  <2> QED
    BY <1>12, <2>2, <2>7, <2>8 DEF InjectorInv
<1>8. CASE ApplyScroll
  <2> DEFINE e == Head(queue)
  <2>1. /\ Take("scroll") /\ UNCHANGED <<injector, channel>>
        /\ failed \subseteq failed'
        /\ failed' \subseteq {"move", "press", "release", "reset", "key"}
    BY <1>8, <1>0 DEF ApplyScroll, Fails, Works, InjectorTypeOK
  <2>2. /\ IdleHoldsNothing' /\ ResetIsLast' /\ queue' \in Seq(InputEvent)
        /\ e \in InputEvent /\ e.type = "scroll"
    BY <2>1, AppliedStep DEF EventType
  <2>3. /\ e.at \in Int /\ e.button \in Button /\ e.mods \subseteq Modifier
        /\ "left" \in Button
    BY <2>2, EventFields DEF Button
  <2> HIDE DEF e
  <2>7. HeldIsKnown'
    BY <1>8, <1>0, <2>1, <2>3 DEF ApplyScroll, Fails, Works, HeldIsKnown, e
  <2>8. ModifiersReleased'
    BY <1>8, <1>0, <2>1, <2>3 DEF ApplyScroll, Fails, Works, ModifiersReleased, e
  <2> QED
    BY <1>12, <2>2, <2>7, <2>8 DEF InjectorInv
<1>9. CASE ApplyText
  <2> DEFINE e == Head(queue)
  <2>1. /\ Take("text") /\ UNCHANGED <<injector, channel>>
        /\ failed \subseteq failed'
        /\ failed' \subseteq {"move", "press", "release", "reset", "key"}
    BY <1>9, <1>0 DEF ApplyText, Fails, Works, InjectorTypeOK
  <2>2. /\ IdleHoldsNothing' /\ ResetIsLast' /\ queue' \in Seq(InputEvent)
        /\ e \in InputEvent /\ e.type = "text"
    BY <2>1, AppliedStep DEF EventType
  <2>3. /\ e.at \in Int /\ e.button \in Button /\ e.mods \subseteq Modifier
        /\ "left" \in Button
    BY <2>2, EventFields DEF Button
  <2> HIDE DEF e
  <2>7. HeldIsKnown'
    BY <1>9, <1>0, <2>1, <2>3 DEF ApplyText, Fails, Works, HeldIsKnown, e
  <2>8. ModifiersReleased'
    BY <1>9, <1>0, <2>1, <2>3 DEF ApplyText, Fails, Works, ModifiersReleased, e
  <2> QED
    BY <1>12, <2>2, <2>7, <2>8 DEF InjectorInv
<1>10. CASE ApplyKey
  <2> DEFINE e == Head(queue)
  <2>1. /\ Take("key") /\ UNCHANGED <<injector, channel>>
        /\ failed \subseteq failed'
        /\ failed' \subseteq {"move", "press", "release", "reset", "key"}
    BY <1>10, <1>0 DEF ApplyKey, LeftDown, InjectorTypeOK
  <2>2. /\ IdleHoldsNothing' /\ ResetIsLast' /\ queue' \in Seq(InputEvent)
        /\ e \in InputEvent /\ e.type = "key"
    BY <2>1, AppliedStep DEF EventType
  <2>3. /\ e.at \in Int /\ e.button \in Button /\ e.mods \subseteq Modifier
        /\ "left" \in Button
    BY <2>2, EventFields DEF Button
  <2> HIDE DEF e
  <2>7. HeldIsKnown'
    BY <1>10, <1>0, <2>1, <2>3 DEF ApplyKey, LeftDown, HeldIsKnown, e
  <2>8. ModifiersReleased'
    BY <1>10, <1>0, <2>1, <2>3 DEF ApplyKey, LeftDown, ModifiersReleased, e
  <2> QED
    BY <1>12, <2>2, <2>7, <2>8 DEF InjectorInv
<1>11. CASE ApplyReset
  <2> DEFINE e == Head(queue)
  <2>1. /\ Take("reset") /\ UNCHANGED <<injector, channel>>
        /\ failed \subseteq failed'
        /\ failed' \subseteq {"move", "press", "release", "reset", "key"}
        /\ held' = {}
    BY <1>11, <1>0 DEF ApplyReset, Fails, Works, InjectorTypeOK
  <2>2. /\ IdleHoldsNothing' /\ ResetIsLast' /\ queue' \in Seq(InputEvent)
        /\ e \in InputEvent /\ e.type = "reset"
    BY <2>1, AppliedStep DEF EventType
  <2>3. /\ e.at \in Int /\ e.button \in Button /\ e.mods \subseteq Modifier
        /\ "left" \in Button
    BY <2>2, EventFields DEF Button
  <2> HIDE DEF e
  <2>7. HeldIsKnown'
    BY <1>11, <1>0, <2>1, <2>3 DEF ApplyReset, Fails, Works, HeldIsKnown, e
  <2>8. ModifiersReleased'
    BY <1>11, <1>0, <2>1, <2>3 DEF ApplyReset, Fails, Works, ModifiersReleased, e
  <2> QED
    BY <1>12, <2>2, <2>7, <2>8 DEF InjectorInv
<1> QED
  BY <1>1, <1>2, <1>3, <1>4, <1>5, <1>6, <1>7, <1>8, <1>9, <1>10, <1>11 DEF Apply

\* Every step of the injector and of the channels keeps the invariant.
LEMMA InjectorInvStep == InjectorInv /\ [Next]_injectorVars => InjectorInv'
<1> SUFFICES ASSUME InjectorInv, [Next]_injectorVars PROVE InjectorInv'
  OBVIOUS
<1>0. InjectorTypeOK /\ HeldIsKnown /\ IdleHoldsNothing /\ ResetIsLast /\ ModifiersReleased
  BY DEF InjectorInv
<1>1. CASE UNCHANGED injectorVars
  BY <1>0, <1>1
     DEF injectorVars, InjectorInv, InjectorTypeOK, HeldIsKnown, IdleHoldsNothing,
                    ResetIsLast, ModifiersReleased, AllClosed
<1>2. CASE Apply
  BY <1>2, ApplyStep
<1>3. CASE Ready
  BY <1>0, <1>3 DEF Ready, InjectorInv, InjectorTypeOK, HeldIsKnown, IdleHoldsNothing,
                    ResetIsLast, ModifiersReleased, AllClosed
<1>4. CASE NoPermission
  <2>1. <<>> \in Seq(InputEvent)
    OBVIOUS
  <2> QED
    BY <1>0, <1>4, <2>1
       DEF NoPermission, InjectorInv, InjectorTypeOK, HeldIsKnown, IdleHoldsNothing,
           ResetIsLast, ModifiersReleased
<1>5. ASSUME NEW c \in Channel, OnOpen(c) \/ Closes(c) PROVE InjectorInv'
  <2>1. ~AllClosed'
    BY <1>0, <1>5 DEF OnOpen, Closes, AllClosed, InjectorTypeOK
  <2>2. channel' \in [Channel -> {"new", "open", "closed", "reset"}]
    BY <1>0, <1>5 DEF OnOpen, Closes, InjectorTypeOK
  <2> QED
    BY <1>0, <1>5, <2>1, <2>2
       DEF OnOpen, Closes, InjectorInv, InjectorTypeOK, HeldIsKnown, IdleHoldsNothing,
           ResetIsLast, ModifiersReleased
<1>6. ASSUME NEW c \in Channel, OnClose(c) PROVE InjectorInv'
  <2>1. channel' \in [Channel -> {"new", "open", "closed", "reset"}]
    BY <1>0, <1>6 DEF OnClose, InjectorTypeOK
  <2>2. UNCHANGED <<injector, held, moveRest, scrollRest, pressed, modsDown, cursor, failed>>
    BY <1>6 DEF OnClose
  <2>3. CASE injector = "off" /\ queue' = queue
    <3>1. queue' = <<>> /\ held' = {}
      BY <1>0, <2>2, <2>3 DEF IdleHoldsNothing
    <3> QED
      BY <1>0, <2>1, <2>2, <2>3, <3>1
         DEF InjectorInv, InjectorTypeOK, HeldIsKnown, IdleHoldsNothing, ResetIsLast,
             ModifiersReleased
  <2>4. CASE injector # "off" /\ queue' = Append(queue, Reset)
    <3>1. /\ queue' \in Seq(InputEvent) /\ queue' # <<>>
          /\ queue'[Len(queue')] = Reset /\ Reset.type = "reset"
      BY <1>0, <2>4, Appended, ResetIsEvent DEF InjectorTypeOK
    <3> QED
      BY <1>0, <2>1, <2>2, <2>4, <3>1
         DEF InjectorInv, InjectorTypeOK, HeldIsKnown, IdleHoldsNothing, ResetIsLast,
             ModifiersReleased
  <2> QED
    BY <1>6, <2>3, <2>4 DEF OnClose, OnCloseSends, Queued
<1>7. ASSUME NEW c \in Channel, NEW ev \in ViewerEvent, OnMessage(c, ev) PROVE InjectorInv'
  <2>1. ~AllClosed'
    BY <1>7 DEF OnMessage, AllClosed
  <2>2. queue' \in Seq(InputEvent) /\ (injector = "off" => queue' = queue)
    BY <1>0, <1>7, Appended, ViewerAssumption DEF OnMessage, Queued, InjectorTypeOK
  <2> QED
    BY <1>0, <1>7, <2>1, <2>2
       DEF OnMessage, InjectorInv, InjectorTypeOK, HeldIsKnown, IdleHoldsNothing,
           ResetIsLast, ModifiersReleased
<1> QED
  BY <1>1, <1>2, <1>3, <1>4, <1>5, <1>6, <1>7 DEF Next

-----------------------------------------------------------------------------
\* Whatever viewers send, channels close in whatever order and calls fail, the
\* injector keeps the invariant (input.rs, Injector::apply; webrtc_host.rs, on_close).
THEOREM InjectorInvariance == Spec => []InjectorInv
<1>1. InjectorInit => InjectorInv
  BY InitInjectorInv
<1>2. InjectorInv /\ [Next]_injectorVars => InjectorInv'
  BY InjectorInvStep
<1> QED
  BY <1>1, <1>2, PTL DEF Spec

\* The cursor stays on the display, for every size of the display and the frame
\* (input.rs, FrameMap::to_screen and MoveRel's clamp).
THEOREM InjectorTypeCorrect == Spec => []InjectorTypeOK
<1>1. InjectorInv => InjectorTypeOK
  BY DEF InjectorInv
<1> QED
  BY <1>1, InjectorInvariance, PTL

\* No button is down that the injector does not know of (input.rs, press, release and
\* Reset), unless a release failed in the middle of a Reset.
THEOREM HeldIsKnownHolds == Spec => []HeldIsKnown
<1>1. InjectorInv => HeldIsKnown
  BY DEF InjectorInv
<1> QED
  BY <1>1, InjectorInvariance, PTL

\* When all channels are closed and all events applied, no button is down, for every
\* number of sessions and any order of their closes (webrtc_host.rs, on_close).
THEOREM NobodyHoldsHolds == Spec => []NobodyHolds
<1>1. InjectorInv => NobodyHolds
  BY DEF InjectorInv, HeldIsKnown, ResetIsLast, AllClosed, NobodyHolds
<1> QED
  BY <1>1, InjectorInvariance, PTL

\* key_combo leaves no modifier down unless its release failed.
THEOREM ModifiersReleasedHolds == Spec => []ModifiersReleased
<1>1. InjectorInv => ModifiersReleased
  BY DEF InjectorInv
<1> QED
  BY <1>1, InjectorInvariance, PTL

\* Relative moves add up to what was asked for (input.rs, take_whole), for every grain
\* and every size of the frame and the display.
THEOREM MovesAddUpHolds == Spec => MovesAddUp
<1> DEFINE Adds ==
      (/\ injector = "ready" /\ queue # <<>> /\ queue' = Tail(queue)
       /\ Head(queue).type = "move_rel"
       /\ "move" \notin failed' /\ cursor' \in 1..DisplaySide - 2)
      => /\ PointParts * (cursor' - cursor) + moveRest' - moveRest = ToPoints(Head(queue).at)
         /\ moveRest' \in (1 - PointParts)..(PointParts - 1)
<1>1. ASSUME InjectorInv, [Next]_injectorVars PROVE [Adds]_injectorVars
  <2> SUFFICES ASSUME Next, injector = "ready", queue # <<>>, queue' = Tail(queue),
                      Head(queue).type = "move_rel", "move" \notin failed',
                      cursor' \in 1..DisplaySide - 2
               PROVE  /\ PointParts * (cursor' - cursor) + moveRest' - moveRest
                           = ToPoints(Head(queue).at)
                      /\ moveRest' \in (1 - PointParts)..(PointParts - 1)
    BY <1>1
  <2>1. InjectorTypeOK
    BY <1>1 DEF InjectorInv
  <2>2. queue \in Seq(InputEvent) /\ Head(queue) \in InputEvent
    BY <2>1, Taken DEF InjectorTypeOK
  <2>3. ApplyMoveRel
    <3>1. Len(queue') = Len(queue) - 1 /\ Len(queue) \in Nat
      BY <2>2, Shorter
    <3>2. ASSUME NEW c \in Channel, OnOpen(c) \/ Closes(c) PROVE FALSE
      <4>1. queue' = queue
        BY <3>2 DEF OnOpen, Closes
      <4> QED
        BY <3>1, <4>1
    <3>3. ASSUME NEW c \in Channel, OnClose(c) PROVE FALSE
      <4>1. Len(queue') = Len(queue) + 1
        BY <2>2, <3>3, ResetIsEvent DEF OnClose, OnCloseSends, Queued
      <4> QED
        BY <3>1, <4>1
    <3>4. ASSUME NEW c \in Channel, NEW ev \in ViewerEvent, OnMessage(c, ev) PROVE FALSE
      <4>1. Len(queue') = Len(queue) + 1
        BY <2>2, <3>4, ViewerAssumption DEF OnMessage, Queued
      <4> QED
        BY <3>1, <4>1
    <3>5. ~Ready /\ ~NoPermission
      BY DEF Ready, NoPermission
    <3>6. Apply
      BY <3>2, <3>3, <3>4, <3>5 DEF Next
    <3> QED
      BY <3>6
         DEF Apply, ApplyDown, ApplyMove, ApplyUp, ApplyClick, ApplyPress, ApplyRelease,
                  ApplyScroll, ApplyText, ApplyKey, ApplyReset, Take
  <2> DEFINE d == ToPoints(Head(queue).at)
             parts == moveRest + d
             w == Whole(parts)
             r == Rest(parts)
  <2>4. d \in Int /\ moveRest \in Int /\ cursor \in 0..DisplaySide - 1
    <3>1. Head(queue).at \in Int
      BY <2>2, EventFields
    <3> QED
      BY <3>1, <2>1, PartsType, Zenon DEF InjectorTypeOK
  <2>5. /\ moveRest' = r
        /\ cursor' = IF w = 0 THEN cursor ELSE Clamped(cursor + w, 0, DisplaySide - 1)
    BY <2>3 DEF ApplyMoveRel, Fails, Works
  <2> HIDE DEF d
  <2>6. parts \in Int
    BY <2>4
  <2> HIDE DEF parts
  <2>7. /\ w \in Int /\ r \in Int /\ PointParts * w + r = parts
        /\ r \in (1 - PointParts)..(PointParts - 1)
    BY <2>6, PartsType, WholeRest
  <2> HIDE DEF w, r
  <2>8. cursor' = cursor + w
    BY <2>4, <2>5, <2>7, GeometryAssumption DEF Clamped
  <2>9. cursor' - cursor = w
    BY <2>4, <2>7, <2>8
  <2>10. PointParts * (cursor' - cursor) + moveRest' - moveRest = d
    <3>1. PointParts * (cursor' - cursor) = PointParts * w
      BY <2>9, Zenon
    <3>2. PointParts * w \in Int
      BY <2>7, PartsType
    <3>3. PointParts * w + r - moveRest = d
      BY <2>4, <2>7, <3>2 DEF parts
    <3> QED
      BY <2>5, <3>1, <3>3, Zenon
  <2> QED
    BY <2>5, <2>7, <2>10 DEF d
<1>2. Spec => [][Adds]_injectorVars
  BY <1>1, InjectorInvariance, PTL DEF Spec
<1> QED
  BY <1>2 DEF MovesAddUp
=============================================================================
