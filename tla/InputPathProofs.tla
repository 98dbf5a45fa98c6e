--------------------------- MODULE InputPathProofs ---------------------------
(* Proofs about InputPath: its types, that every tap counts, and that nothing *)
(* stays pressed when nobody presses, for any fingers, number of sessions,    *)
(* bounds and calls that fail.                                                *)
EXTENDS InputPath, InjectorProofs, FiniteSetTheorems

-----------------------------------------------------------------------------
\* Clicks in what a handler sends.

Count(s) == Cardinality(Clicks(s))
One(when) == IF when THEN 1 ELSE 0

LEMMA NoMessage == Count(<<>>) = 0
BY FS_EmptySet DEF Count, Clicks

LEMMA OneMoreMessage ==
    ASSUME NEW s \in Seq(InputEvent), NEW e \in InputEvent
    PROVE  /\ Append(s, e) \in Seq(InputEvent)
           /\ Count(Append(s, e)) = Count(s) + One(e = Click("left"))
           /\ Count(s) \in Nat
<1> DEFINE t == Append(s, e)
<1>1. /\ t \in Seq(InputEvent) /\ Len(s) \in Nat /\ Len(t) = Len(s) + 1
      /\ t[Len(s) + 1] = e /\ \A i \in 1..Len(s) : t[i] = s[i]
  OBVIOUS
<1>2. DOMAIN s = 1..Len(s) /\ DOMAIN t = 1..Len(s) + 1
  BY <1>1, LenProperties
<1>3. IsFiniteSet(Clicks(s)) /\ Count(s) \in Nat
  <2>1. IsFiniteSet(1..Len(s))
    BY <1>1, FS_Interval
  <2>2. Clicks(s) \subseteq 1..Len(s)
    BY <1>2 DEF Clicks
  <2> QED
    BY <2>1, <2>2, FS_Subset, FS_CardinalityType DEF Count
<1>4. Len(s) + 1 \notin Clicks(s)
  BY <1>1, <1>2 DEF Clicks
<1> HIDE DEF t
<1>5. CASE e = Click("left")
  <2>1. Clicks(t) = Clicks(s) \cup {Len(s) + 1}
    BY <1>1, <1>2, <1>5 DEF Clicks
  <2> QED
    BY <1>1, <1>3, <1>4, <1>5, <2>1, FS_AddElement DEF Count, One, t
<1>6. CASE e # Click("left")
  <2>1. Clicks(t) = Clicks(s)
    BY <1>1, <1>2, <1>6 DEF Clicks
  <2> QED
    BY <1>1, <1>3, <1>6, <2>1 DEF Count, One, t
<1> QED
  BY <1>5, <1>6

\* A handler may add a message to what it sends.
LEMMA MaybeSaid ==
    ASSUME NEW s \in Seq(InputEvent), NEW e \in InputEvent, NEW when \in BOOLEAN
    PROVE  /\ s \o Say(e, when) \in Seq(InputEvent)
           /\ e = Click("left") => Count(s \o Say(e, when)) = Count(s) + One(when)
           /\ e # Click("left") => Count(s \o Say(e, when)) = Count(s)
<1>1. CASE when
  <2>1. s \o Say(e, when) = Append(s, e) /\ One(when) = 1
    BY <1>1, AppendIsConcat DEF Say, One
  <2>2. /\ Append(s, e) \in Seq(InputEvent) /\ Count(s) \in Nat
        /\ Count(Append(s, e)) = Count(s) + One(e = Click("left"))
    BY OneMoreMessage
  <2> QED
    BY <2>1, <2>2 DEF One
<1>2. CASE ~when
  <2>1. s \o Say(e, when) = s /\ One(when) = 0
    BY <1>2, ConcatEmptySeq DEF Say, One
  <2>2. Count(s) \in Nat /\ Count(s) = Count(s) + 0
    BY OneMoreMessage
  <2> QED
    BY <2>1, <2>2
<1> QED
  BY <1>1, <1>2

LEMMA Said ==
    ASSUME NEW e \in InputEvent, NEW when \in BOOLEAN
    PROVE  /\ Say(e, when) \in Seq(InputEvent)
           /\ e = Click("left") => Count(Say(e, when)) = One(when)
           /\ e # Click("left") => Count(Say(e, when)) = 0
<1>1. <<>> \in Seq(InputEvent) /\ Say(e, when) \in Seq(InputEvent)
  BY DEF Say
<1>2. <<>> \o Say(e, when) = Say(e, when)
  BY <1>1, ConcatEmptySeq
<1>3. One(when) \in Nat
  BY DEF One
<1>4. /\ e = Click("left") => Count(<<>> \o Say(e, when)) = Count(<<>>) + One(when)
      /\ e # Click("left") => Count(<<>> \o Say(e, when)) = Count(<<>>)
  BY <1>1, MaybeSaid
<1> QED
  BY <1>1, <1>2, <1>3, <1>4, NoMessage

\* The events a page sends, and which of them are left clicks.
LEMMA PageEvents ==
    /\ Click("left") \in InputEvent /\ Click("right") \in InputEvent
    /\ Press("left") \in InputEvent /\ Release("left") \in InputEvent
    /\ Down(0) \in InputEvent /\ MoveTo(0) \in InputEvent /\ Up(0) \in InputEvent
    /\ MoveRel(0) \in InputEvent /\ Scroll(0) \in InputEvent
    /\ Click("right") # Click("left") /\ Press("left") # Click("left")
    /\ Release("left") # Click("left") /\ MoveRel(0) # Click("left")
    /\ Scroll(0) # Click("left")
BY DEF Click, Press, Release, Down, MoveTo, Up, MoveRel, Scroll, Event, InputEvent, EventType,
       Button

\* What each handler of the trackpad sends.
LEMMA EndsOneFingerSaid ==
    ASSUME NEW g \in Gesture
    PROVE  /\ EndsOneFinger(g) \in Seq(InputEvent)
           /\ Count(EndsOneFinger(g)) = One(g.owesClick)
<1>1. g.owesClick \in BOOLEAN /\ g.dragging \in BOOLEAN
  BY DEF Gesture
<1>2. /\ Say(Click("left"), g.owesClick) \in Seq(InputEvent)
      /\ Count(Say(Click("left"), g.owesClick)) = One(g.owesClick)
  BY <1>1, Said, PageEvents
<1> QED
  BY <1>1, <1>2, MaybeSaid, PageEvents DEF EndsOneFinger, EndsDrag

LEMMA MoveSaid ==
    ASSUME NEW a \in BOOLEAN, NEW b \in BOOLEAN, NEW c \in BOOLEAN
    PROVE  LET m == Say(Scroll(0), a) \o Say(Press("left"), b) \o Say(MoveRel(0), c)
           IN  m \in Seq(InputEvent) /\ Count(m) = 0
<1>1. Say(Scroll(0), a) \in Seq(InputEvent) /\ Count(Say(Scroll(0), a)) = 0
  BY Said, PageEvents
<1>2. LET m == Say(Scroll(0), a) \o Say(Press("left"), b)
      IN  m \in Seq(InputEvent) /\ Count(m) = 0
  BY <1>1, MaybeSaid, PageEvents
<1> QED
  BY <1>2, MaybeSaid, PageEvents

LEMMA LiftSaid ==
    ASSUME NEW g \in Gesture, NEW a \in BOOLEAN, NEW b \in BOOLEAN
    PROVE  LET m == EndsOneFinger(g) \o Say(Click("right"), a) \o Say(Click("left"), b)
           IN  m \in Seq(InputEvent) /\ Count(m) = One(g.owesClick) + One(b)
<1>1. LET m == EndsOneFinger(g) \o Say(Click("right"), a)
      IN  m \in Seq(InputEvent) /\ Count(m) = One(g.owesClick)
  BY EndsOneFingerSaid, MaybeSaid, PageEvents
<1> QED
  BY <1>1, MaybeSaid, PageEvents

-----------------------------------------------------------------------------
\* Gestures.

\* A gesture lasts as long as a finger is down; a click is owed by one finger, and
\* a finger may drag as long as it owes the click, or because it drags.
GestureShape ==
    /\ touches = {} <=> gesture.fingers = 0
    /\ gesture.fingers = 0 => gesture = NoGesture
    /\ gesture.owesClick => gesture.fingers = 1
    /\ gesture.dragging => gesture.moved
    /\ gesture.dragArmed => gesture.owesClick \/ gesture.dragging

PadInv == PadTypeOK /\ EveryTapCounts /\ GestureShape

\* What is sent goes onto the wire or is dropped.
LEMMA Sent ==
    ASSUME PadTypeOK, NEW m \in Seq(InputEvent), Send(m)
    PROVE  wire' \in Seq(InputEvent) /\ connected' \in BOOLEAN
BY DEF PadTypeOK, Send

LEMMA Idle ==
    /\ NoGesture \in Gesture /\ NoGesture.fingers = 0 /\ NoGesture.owesClick = FALSE
    /\ NoGesture.dragging = FALSE /\ NoGesture.dragArmed = FALSE
BY DEF NoGesture, Gesture

LEMMA FirstTouchPad ==
    ASSUME PadInv, NEW f \in Finger, FirstTouch(f)
    PROVE  PadInv'
<1> DEFINE g == [fingers |-> 1, late |-> FALSE, moved |-> FALSE, dragArmed |-> heldClick,
                 owesClick |-> heldClick, dragging |-> FALSE]
<1>1. gesture' = g
  BY DEF FirstTouch, NoGesture
<1>2. g \in Gesture
  BY DEF Gesture, PadInv, PadTypeOK
<1>3. PadTypeOK'
  BY <1>1, <1>2 DEF PadInv, PadTypeOK, FirstTouch
<1>4. gesture.owesClick = FALSE
  BY DEF PadInv, GestureShape, FirstTouch, NoGesture
<1>5. EveryTapCounts'
  <2>1. gesture'.owesClick = heldClick /\ gesture'.dragging = FALSE
    BY <1>1
  <2>2. heldClick \in BOOLEAN /\ heldClick' = FALSE /\ due' = due
        /\ due = (IF heldClick THEN 1 ELSE 0) + 0
    BY <1>4 DEF PadInv, PadTypeOK, EveryTapCounts, FirstTouch
  <2> QED
    BY <2>1, <2>2 DEF EveryTapCounts
<1>6. GestureShape'
  BY <1>1 DEF GestureShape, FirstTouch, PadInv, PadTypeOK
<1> QED
  BY <1>3, <1>5, <1>6 DEF PadInv

LEMMA MoreTouchPad ==
    ASSUME PadInv, NEW f \in Finger, MoreTouch(f)
    PROVE  PadInv'
<1>0. PadTypeOK /\ EveryTapCounts /\ GestureShape /\ gesture \in Gesture
      /\ touches' = touches \cup {f} /\ touches # {} /\ UNCHANGED <<heldClick, mouse>>
  BY DEF PadInv, PadTypeOK, MoreTouch
<1>1. CASE gesture.fingers = 1
  <2>1. /\ gesture' = SecondFinger(gesture) /\ Send(EndsOneFinger(gesture))
        /\ due' = due + 0 - 0 - Count(EndsOneFinger(gesture))
    BY <1>1 DEF MoreTouch, SendAndAccount, Account, Count
  <2>2. /\ gesture' \in Gesture /\ gesture'.fingers = 2 /\ gesture'.dragArmed = FALSE
        /\ gesture'.owesClick = FALSE /\ gesture'.dragging = FALSE
    BY <1>0, <2>1 DEF SecondFinger, Gesture
  <2>3. heldClick = FALSE /\ gesture.owesClick \in BOOLEAN
    BY <1>0, <1>1 DEF EveryTapCounts, PadTypeOK, NoGesture, Gesture
  <2>4. due = One(gesture.owesClick) /\ due \in {0, 1}
    BY <1>0, <2>3 DEF EveryTapCounts, PadTypeOK, One
  <2>5. due' = 0
    BY <1>0, <2>1, <2>4, EndsOneFingerSaid
  <2>6. PadTypeOK'
    BY <1>0, <2>1, <2>2, <2>5, EndsOneFingerSaid, Sent DEF PadTypeOK
  <2>7. EveryTapCounts'
    BY <1>0, <2>2, <2>3, <2>5 DEF EveryTapCounts
  <2>8. GestureShape'
    BY <1>0, <2>2 DEF GestureShape
  <2> QED
    BY <2>6, <2>7, <2>8 DEF PadInv
<1>2. CASE gesture.fingers # 1
  <2>1. UNCHANGED <<gesture, connected, wire, due>>
    BY <1>2 DEF MoreTouch
  <2> QED
    BY <1>0, <2>1 DEF PadInv, PadTypeOK, EveryTapCounts, GestureShape
<1> QED
  BY <1>1, <1>2

LEMMA MovePad ==
    ASSUME PadInv, NEW f \in Finger, NEW far \in BOOLEAN, sized \in BOOLEAN, Move(f, far, sized)
    PROVE  PadInv'
<1> DEFINE moved == gesture.moved \/ far
           drags == moved /\ sized /\ gesture.fingers = 1 /\ gesture.dragArmed
                    /\ ~gesture.dragging
           m == Say(Scroll(0), moved /\ sized /\ gesture.fingers = 2)
                \o Say(Press("left"), drags)
                \o Say(MoveRel(0), moved /\ sized /\ gesture.fingers = 1)
<1>0. PadTypeOK /\ EveryTapCounts /\ GestureShape /\ gesture \in Gesture
      /\ f \in touches /\ UNCHANGED <<touches, heldClick, mouse>>
  BY DEF PadInv, PadTypeOK, Move
<1>1. /\ Send(m) /\ due' = due + 0 - One(drags) - Count(m)
  BY DEF Move, SendAndAccount, Account, Count, One
<1>2. m \in Seq(InputEvent) /\ Count(m) = 0
  BY MoveSaid
<1>3. drags \in BOOLEAN /\ moved \in BOOLEAN
  BY <1>0 DEF Gesture
<1>4. gesture' = [gesture EXCEPT !.moved = moved, !.dragging = gesture.dragging \/ drags,
                                 !.owesClick = gesture.owesClick /\ ~drags]
  BY DEF Move
<1> HIDE DEF m
<1>5. /\ gesture' \in Gesture /\ gesture'.fingers = gesture.fingers
      /\ gesture'.dragArmed = gesture.dragArmed /\ gesture'.moved = moved
      /\ gesture'.dragging = (gesture.dragging \/ drags)
      /\ gesture'.owesClick = (gesture.owesClick /\ ~drags)
  <2> HIDE DEF drags, moved
  <2> QED
    BY <1>0, <1>3, <1>4 DEF Gesture
<1>6. gesture.fingers # 0 /\ heldClick = FALSE
  BY <1>0 DEF EveryTapCounts, GestureShape, PadTypeOK, NoGesture
<1>7. drags => gesture.owesClick /\ due = 1
  BY <1>0, <1>6 DEF GestureShape, EveryTapCounts
<1>8. /\ drags => due' = 0
      /\ ~drags => due' = due
  BY <1>0, <1>1, <1>2, <1>7 DEF One, PadTypeOK
<1>9. PadTypeOK'
  <2>1. due' \in {0, 1}
    BY <1>0, <1>8 DEF PadTypeOK
  <2> QED
    BY <1>0, <1>1, <1>2, <1>5, <2>1, Sent DEF PadTypeOK
<1>10. EveryTapCounts'
  <2>1. CASE drags
    <3>1. gesture'.owesClick = FALSE /\ gesture'.fingers = 1
      BY <1>5, <2>1
    <3> QED
      BY <1>0, <1>6, <1>8, <2>1, <3>1 DEF EveryTapCounts
  <2>2. CASE ~drags
    <3>1. /\ gesture'.owesClick = gesture.owesClick /\ gesture'.dragging = gesture.dragging
          /\ gesture'.fingers = gesture.fingers
      <4>1. gesture.owesClick \in BOOLEAN /\ gesture.dragging \in BOOLEAN
        BY <1>0 DEF Gesture
      <4> HIDE DEF drags
      <4> QED
        BY <1>3, <1>5, <2>2, <4>1
    <3> QED
      BY <1>0, <1>6, <1>8, <2>2, <3>1 DEF EveryTapCounts
  <2> QED
    BY <2>1, <2>2
<1>11. GestureShape'
  BY <1>0, <1>5, <1>6 DEF GestureShape
<1> QED
  BY <1>9, <1>10, <1>11 DEF PadInv

LEMMA LiftLastPad ==
    ASSUME PadInv, NEW f \in Finger, NEW cancelled \in BOOLEAN, LiftLast(f, cancelled)
    PROVE  PadInv'
<1> DEFINE g == gesture
           tap == ~g.dragging /\ IsTap(g, cancelled)
           a == tap /\ g.fingers = 2
           b == tap /\ g.fingers = 1 /\ g.owesClick
           hold == tap /\ g.fingers = 1 /\ ~g.owesClick
           asked == g.fingers = 1 /\ ~g.moved /\ ~g.late /\ ~cancelled
           m == EndsOneFinger(g) \o Say(Click("right"), a) \o Say(Click("left"), b)
<1>0. PadTypeOK /\ EveryTapCounts /\ GestureShape /\ gesture \in Gesture
      /\ touches = {f} /\ touches' = {} /\ gesture' = NoGesture /\ UNCHANGED mouse
      /\ heldClick' = hold
  BY DEF PadInv, PadTypeOK, LiftLast
<1>1. Send(m) /\ due' = due + One(asked) - 0 - Count(m)
  BY DEF LiftLast, SendAndAccount, Account, Count, One
<1>2. a \in BOOLEAN /\ b \in BOOLEAN /\ hold \in BOOLEAN /\ asked \in BOOLEAN
  OBVIOUS
<1>3. m \in Seq(InputEvent) /\ Count(m) = One(g.owesClick) + One(b)
  BY <1>0, <1>2, LiftSaid
<1> HIDE DEF m
<1>4. g.fingers # 0 /\ heldClick = FALSE
  BY <1>0 DEF EveryTapCounts, GestureShape, PadTypeOK, NoGesture
<1>5. due = One(g.owesClick) /\ due \in {0, 1}
  BY <1>0, <1>4 DEF EveryTapCounts, PadTypeOK, One
<1>6. /\ asked <=> b \/ hold
      /\ ~(b /\ hold)
  BY <1>0 DEF GestureShape, IsTap, Gesture
<1>7. One(asked) = One(b) + One(hold)
  <2> HIDE DEF asked, b, hold
  <2> QED
    BY <1>2, <1>6 DEF One
<1>8. due' = One(hold)
  <2>1. One(b) \in Int /\ One(hold) \in Int
    BY DEF One
  <2> QED
    BY <1>1, <1>3, <1>5, <1>7, <2>1
<1> HIDE DEF hold
<1>10. PadTypeOK'
  BY <1>0, <1>1, <1>2, <1>3, <1>8, Idle, Sent DEF PadTypeOK, One
<1>11. EveryTapCounts'
  BY <1>0, <1>2, <1>8, Idle DEF EveryTapCounts, One
<1>12. GestureShape'
  BY <1>0, Idle DEF GestureShape
<1> QED
  BY <1>10, <1>11, <1>12 DEF PadInv

LEMMA HeldClickPad ==
    ASSUME PadInv, HeldClickFires
    PROVE  PadInv'
<1>0. PadTypeOK /\ EveryTapCounts /\ GestureShape /\ heldClick /\ heldClick' = FALSE
      /\ UNCHANGED <<touches, gesture, mouse>>
  BY DEF PadInv, HeldClickFires
<1>1. Say(Click("left"), TRUE) = <<Click("left")>>
  BY DEF Say
<1>2. Count(<<Click("left")>>) = 1 /\ <<Click("left")>> \in Seq(InputEvent)
  BY <1>1, Said, PageEvents DEF One
<1>3. Send(<<Click("left")>>) /\ due' = due + 0 - 0 - Count(<<Click("left")>>)
  BY <1>0 DEF HeldClickFires, SendAndAccount, Account, Count
<1>4. gesture = NoGesture /\ NoGesture.owesClick = FALSE /\ NoGesture.dragging = FALSE
  BY <1>0 DEF EveryTapCounts, NoGesture
<1>5. due = 1
  BY <1>0, <1>4 DEF EveryTapCounts
<1>6. due' = 0
  BY <1>2, <1>3, <1>5
<1>7. PadTypeOK'
  BY <1>0, <1>2, <1>3, <1>6, Sent DEF PadTypeOK
<1>8. EveryTapCounts'
  BY <1>0, <1>4, <1>6 DEF EveryTapCounts
<1>9. GestureShape'
  BY <1>0 DEF GestureShape
<1> QED
  BY <1>7, <1>8, <1>9 DEF PadInv

LEMMA MousePad ==
    ASSUME PadInv, sized \in BOOLEAN, MouseDown(sized) \/ MouseMove(sized) \/ MouseUp(sized)
    PROVE  PadInv'
<1>0. PadTypeOK /\ EveryTapCounts /\ GestureShape
      /\ UNCHANGED <<touches, gesture, heldClick, due>> /\ mouse' \in BOOLEAN
  BY DEF PadInv, PadTypeOK, MouseDown, MouseMove, MouseUp
<1>1. \E m \in Seq(InputEvent) : Send(m)
  <2>1. <<Down(0)>> \in Seq(InputEvent) /\ Say(MoveTo(0), sized) \in Seq(InputEvent)
        /\ Say(Up(0), sized) \in Seq(InputEvent)
    BY PageEvents, Said
  <2> QED
    BY <2>1 DEF MouseDown, MouseMove, MouseUp
<1> QED
  BY <1>0, <1>1, Sent DEF PadInv, PadTypeOK, EveryTapCounts, GestureShape

LEMMA QuietPad ==
    ASSUME PadInv, Lasts \/ \E f \in Finger : LiftOne(f)
    PROVE  PadInv'
<1>0. PadTypeOK /\ EveryTapCounts /\ GestureShape /\ gesture \in Gesture
      /\ UNCHANGED <<heldClick, mouse, connected, wire, due>>
  BY DEF PadInv, PadTypeOK, Lasts, LiftOne
<1>1. CASE Lasts
  <2>0. gesture' = [gesture EXCEPT !.late = TRUE] /\ gesture.fingers > 0 /\ touches' = touches
    BY <1>1 DEF Lasts
  <2>1. /\ gesture' \in Gesture
        /\ gesture'.fingers = gesture.fingers /\ gesture'.owesClick = gesture.owesClick
        /\ gesture'.dragging = gesture.dragging /\ gesture'.dragArmed = gesture.dragArmed
        /\ gesture'.moved = gesture.moved
    BY <1>0, <2>0 DEF Gesture
  <2>2. gesture.fingers # 0
    BY <2>0
  <2>3. ~heldClick
    BY <1>0, <2>2 DEF EveryTapCounts, NoGesture
  <2> QED
    BY <1>0, <2>0, <2>1, <2>2, <2>3 DEF PadInv, PadTypeOK, EveryTapCounts, GestureShape
<1>2. ASSUME NEW f \in Finger, LiftOne(f) PROVE PadInv'
  <2>1. gesture' = gesture /\ touches' = touches \ {f} /\ touches # {} /\ touches' # {}
    BY <1>0, <1>2 DEF LiftOne, PadTypeOK
  <2> QED
    BY <1>0, <2>1 DEF PadInv, PadTypeOK, EveryTapCounts, GestureShape
<1> QED
  BY <1>1, <1>2

LEMMA PadKept ==
    ASSUME PadInv, sized \in BOOLEAN, PadNext(sized)
    PROVE  PadInv'
BY FirstTouchPad, MoreTouchPad, MovePad, LiftLastPad, HeldClickPad, MousePad, QuietPad DEF PadNext

-----------------------------------------------------------------------------
\* Types.

TypeInv == PadInv /\ PathTypeOK

LEMMA TypesStart == PathInit => TypeInv
<1> SUFFICES ASSUME PathInit PROVE TypeInv
  OBVIOUS
<1>1. PadInv
  <2>1. /\ touches = {} /\ gesture = NoGesture /\ heldClick = FALSE /\ mouse = FALSE
        /\ connected = FALSE /\ wire = <<>> /\ due = 0 /\ <<>> \in Seq(InputEvent)
    BY DEF PathInit, PadInit
  <2>2. PadTypeOK
    BY <2>1, Idle DEF PadTypeOK
  <2>3. EveryTapCounts
    BY <2>1, Idle DEF EveryTapCounts
  <2>4. GestureShape
    BY <2>1, Idle DEF GestureShape
  <2> QED
    BY <2>2, <2>3, <2>4 DEF PadInv
<1>2. InjectorTypeOK
  BY InitInjectorInv DEF PathInit, InjectorInv
<1> QED
  BY <1>1, <1>2, ChannelAssumption DEF TypeInv, PathTypeOK, PadInv, PathInit

\* A change of the fingers' or the page's variables alone.
LEMMA SamePad == PadInv /\ UNCHANGED padVars => PadInv'
BY DEF PadInv, PadTypeOK, EveryTapCounts, GestureShape, padVars

LEMMA SameFingers ==
    ASSUME PadInv, UNCHANGED fingerVars, connected' \in BOOLEAN, wire' \in Seq(InputEvent)
    PROVE  PadInv'
BY DEF PadInv, PadTypeOK, EveryTapCounts, GestureShape, fingerVars

LEMMA SameInjector == InjectorTypeOK /\ UNCHANGED injectorVars => InjectorTypeOK'
BY DEF InjectorTypeOK, injectorVars

\* Whatever the injector does, it keeps its types.
LEMMA InjectorKept ==
    ASSUME InjectorTypeOK,
           \/ Ready \/ NoPermission \/ Apply
           \/ \E c \in Channel : \/ OnOpen(c) \/ Closes(c) \/ OnClose(c)
                                 \/ \E e \in InputEvent : OnMessage(c, e)
    PROVE  InjectorTypeOK'
<1>1. CASE Ready \/ NoPermission
  <2>1. <<>> \in Seq(InputEvent)
    OBVIOUS
  <2>2. CASE Ready
    BY <2>2 DEF Ready, InjectorTypeOK
  <2>3. CASE NoPermission
    BY <2>1, <2>3 DEF NoPermission, InjectorTypeOK
  <2> QED
    BY <1>1, <2>2, <2>3
<1>2. CASE Apply
  BY <1>2, ApplyTypes
<1>3. ASSUME NEW c \in Channel, OnOpen(c) \/ Closes(c) PROVE InjectorTypeOK'
  BY <1>3 DEF OnOpen, Closes, InjectorTypeOK
<1>4. ASSUME NEW e \in InputEvent, Queued(e), queue \in Seq(InputEvent)
      PROVE  queue' \in Seq(InputEvent)
  BY <1>4 DEF Queued
<1>5. ASSUME NEW c \in Channel, OnClose(c) PROVE InjectorTypeOK'
  BY <1>4, <1>5, ResetIsEvent DEF OnClose, OnCloseSends, InjectorTypeOK
<1>6. ASSUME NEW c \in Channel, NEW e \in InputEvent, OnMessage(c, e) PROVE InjectorTypeOK'
  BY <1>4, <1>6 DEF OnMessage, InjectorTypeOK
<1> QED
  BY <1>1, <1>2, <1>3, <1>5, <1>6

LEMMA TypesKept == TypeInv /\ [PathNext]_pathVars => TypeInv'
<1> SUFFICES ASSUME TypeInv, [PathNext]_pathVars PROVE TypeInv'
  OBVIOUS
<1>0. /\ PadInv /\ PadTypeOK /\ InjectorTypeOK /\ session \in Channel /\ session \in Nat
      /\ sized \in BOOLEAN /\ heldBefore \in BOOLEAN /\ wire \in Seq(InputEvent)
      /\ <<>> \in Seq(InputEvent) /\ connected \in BOOLEAN
  BY ChannelAssumption DEF TypeInv, PathTypeOK, PadTypeOK
<1> DEFINE Others == session' \in Channel /\ sized' \in BOOLEAN /\ heldBefore' \in BOOLEAN
<1>1. CASE PageActs
  <2>1. PadInv'
    BY <1>0, <1>1, PadKept DEF PageActs
  <2>2. InjectorTypeOK' /\ Others
    BY <1>0, <1>1, SameInjector DEF PageActs
  <2> QED
    BY <2>1, <2>2 DEF TypeInv, PathTypeOK, PadInv
<1>2. CASE FirstFrame
  <2>1. PadInv' /\ InjectorTypeOK' /\ Others
    BY <1>0, <1>2, SamePad, SameInjector DEF FirstFrame
  <2> QED
    BY <2>1 DEF TypeInv, PathTypeOK, PadInv
<1>3. CASE ChannelOpens \/ HostCloses
  <2>1. PadInv' /\ Others
    BY <1>0, <1>3, SameFingers DEF ChannelOpens, HostCloses
  <2>2. InjectorTypeOK'
    BY <1>0, <1>3, InjectorKept DEF ChannelOpens, HostCloses
  <2> QED
    BY <2>1, <2>2 DEF TypeInv, PathTypeOK, PadInv
<1>4. CASE PageGoes
  <2>1. PadInv' /\ InjectorTypeOK' /\ Others
    BY <1>0, <1>4, SameFingers, SameInjector DEF PageGoes
  <2> QED
    BY <2>1 DEF TypeInv, PathTypeOK, PadInv
<1>5. CASE NextPage
  <2>1. PadInv'
    <3>1. /\ touches' = {} /\ gesture' = NoGesture /\ heldClick' = FALSE /\ mouse' = FALSE
          /\ connected' = connected /\ wire' = wire /\ due' = 0
      BY <1>5 DEF NextPage
    <3>2. PadTypeOK'
      BY <1>0, <3>1, Idle DEF PadTypeOK
    <3>3. EveryTapCounts'
      BY <3>1, Idle DEF EveryTapCounts
    <3>4. GestureShape'
      BY <3>1, Idle DEF GestureShape
    <3> QED
      BY <3>2, <3>3, <3>4 DEF PadInv
  <2>2. InjectorTypeOK' /\ Others
    BY <1>0, <1>5, SameInjector DEF NextPage
  <2> QED
    BY <2>1, <2>2 DEF TypeInv, PathTypeOK, PadInv
<1>6. CASE Delivered
  <2>1. Head(wire) \in InputEvent /\ wire' \in Seq(InputEvent)
    BY <1>0, <1>6, Taken DEF Delivered
  <2>2. PadInv' /\ Others
    BY <1>0, <1>6, <2>1, SameFingers DEF Delivered
  <2>3. InjectorTypeOK'
    BY <1>0, <1>6, <2>1, InjectorKept DEF Delivered
  <2> QED
    BY <2>2, <2>3 DEF TypeInv, PathTypeOK, PadInv
<1>7. CASE InjectorActs \/ \E c \in Channel : CloseNoticed(c)
  <2>1. PadInv' /\ InjectorTypeOK' /\ Others
    BY <1>0, <1>7, SamePad, InjectorKept DEF InjectorActs, CloseNoticed
  <2> QED
    BY <2>1 DEF TypeInv, PathTypeOK, PadInv
<1>8. CASE HostRestarts
  <2>1. PadInv' /\ Others
    BY <1>0, <1>8, SameFingers DEF HostRestarts, InjectorTypeOK
  <2>2. InjectorTypeOK'
    BY <1>0, <1>8 DEF HostRestarts, InjectorTypeOK
  <2> QED
    BY <2>1, <2>2 DEF TypeInv, PathTypeOK, PadInv
<1>9. CASE UNCHANGED pathVars
  <2>1. PadInv' /\ InjectorTypeOK' /\ Others
    BY <1>0, <1>9, SamePad, SameInjector DEF pathVars
  <2> QED
    BY <2>1 DEF TypeInv, PathTypeOK, PadInv
<1> QED
  BY <1>1, <1>2, <1>3, <1>4, <1>5, <1>6, <1>7, <1>8, <1>9 DEF PathNext

LEMMA TypesAlways == PathSpec => []TypeInv
BY TypesStart, TypesKept, PTL DEF PathSpec

\* Every variable of the page, the channel and the injector keeps its type; the
\* clicks a page owes for taps are never more than one.
THEOREM PathTypeCorrect == PathSpec => []PathTypeOK
<1>1. TypeInv => PathTypeOK
  BY DEF TypeInv
<1> QED
  BY <1>1, TypesAlways, PTL

\* For every one-finger tap on a page that stays, the page's handlers give sendInput one
\* left click, or start a drag with it, whatever fingers, timers, mouse, connections and
\* restarts do in between (input.mjs, createTrackpad).
THEOREM EveryTapCountsHolds == PathSpec => []EveryTapCounts
<1>1. TypeInv => EveryTapCounts
  BY DEF TypeInv, PadInv
<1> QED
  BY <1>1, TypesAlways, PTL

-----------------------------------------------------------------------------
\* Presses and releases in a sequence of events.

PageEvent == {Click("left"), Click("right"), Press("left"), Release("left"), Down(0),
              MoveTo(0), Up(0), MoveRel(0), Scroll(0)}

Presses(e) == e.type \in {"down", "press"}
Lets(e) == e.type \in {"up", "release", "reset"}

\* Nothing in a sequence presses; something in it lets go, and nothing after that
\* presses.
NoPress(s) == \A i \in 1..Len(s) : ~Presses(s[i])
EndsUp(s) == \E i \in 1..Len(s) : Lets(s[i]) /\ \A j \in 1..Len(s) : j > i => ~Presses(s[j])

LEMMA NothingSaid == NoPress(<<>>)
BY DEF NoPress

LEMMA UpTaken ==
    ASSUME NEW S, NEW s \in Seq(S), s # <<>>
    PROVE  /\ Head(s) \in S /\ Tail(s) \in Seq(S)
           /\ NoPress(s) => ~Presses(Head(s)) /\ NoPress(Tail(s))
           /\ EndsUp(s) => EndsUp(Tail(s)) \/ (Lets(Head(s)) /\ NoPress(Tail(s)))
<1> DEFINE t == Tail(s)
<1>1. /\ Len(s) \in Nat \ {0} /\ Head(s) = s[1] /\ Head(s) \in S
      /\ t \in Seq(S) /\ Len(t) = Len(s) - 1
      /\ \A i \in 1..Len(s) - 1 : t[i] = s[i + 1]
  <2>1. Len(s) \in Nat \ {0}
    BY EmptySeq, Zenon
  <2> QED
    BY <2>1
<1> HIDE DEF t
<1>2. NoPress(s) => ~Presses(Head(s)) /\ NoPress(t)
  BY <1>1 DEF NoPress
<1>3. ASSUME NEW i \in 1..Len(s), Lets(s[i]), \A j \in 1..Len(s) : j > i => ~Presses(s[j])
      PROVE  EndsUp(t) \/ (Lets(Head(s)) /\ NoPress(t))
  <2>1. CASE i = 1
    BY <1>1, <1>3, <2>1 DEF NoPress
  <2>2. CASE i # 1
    <3>1. i - 1 \in 1..Len(t) /\ t[i - 1] = s[i]
      BY <1>1, <2>2
    <3>2. \A j \in 1..Len(t) : j > i - 1 => ~Presses(t[j])
      BY <1>1, <1>3
    <3> QED
      BY <1>3, <3>1, <3>2 DEF EndsUp
  <2> QED
    BY <2>1, <2>2
<1> QED
  BY <1>1, <1>2, <1>3 DEF EndsUp, t

LEMMA UpAdded ==
    ASSUME NEW S, NEW s \in Seq(S), NEW e \in S
    PROVE  /\ Append(s, e) \in Seq(S)
           /\ Lets(e) => EndsUp(Append(s, e))
           /\ ~Presses(e) /\ NoPress(s) => NoPress(Append(s, e))
           /\ ~Presses(e) /\ EndsUp(s) => EndsUp(Append(s, e))
<1> DEFINE t == Append(s, e)
<1>1. /\ t \in Seq(S) /\ Len(s) \in Nat /\ Len(t) = Len(s) + 1
      /\ t[Len(s) + 1] = e /\ \A i \in 1..Len(s) : t[i] = s[i]
  OBVIOUS
<1> HIDE DEF t
<1>2. Lets(e) => EndsUp(t)
  <2> SUFFICES ASSUME Lets(e) PROVE EndsUp(t)
    OBVIOUS
  <2>1. Len(s) + 1 \in 1..Len(t) /\ Lets(t[Len(s) + 1])
    BY <1>1
  <2>2. \A j \in 1..Len(t) : j > Len(s) + 1 => ~Presses(t[j])
    BY <1>1
  <2> QED
    BY <2>1, <2>2 DEF EndsUp
<1>3. ~Presses(e) /\ NoPress(s) => NoPress(t)
  BY <1>1 DEF NoPress
<1>4. ASSUME ~Presses(e), NEW i \in 1..Len(s), Lets(s[i]),
             \A j \in 1..Len(s) : j > i => ~Presses(s[j])
      PROVE  EndsUp(t)
  <2>1. i \in 1..Len(t) /\ Lets(t[i]) /\ \A j \in 1..Len(t) : j > i => ~Presses(t[j])
    BY <1>1, <1>4
  <2> QED
    BY <2>1 DEF EndsUp
<1> QED
  BY <1>1, <1>2, <1>3, <1>4 DEF EndsUp, t

LEMMA UpJoined ==
    ASSUME NEW S, NEW s \in Seq(S), NEW t \in Seq(S)
    PROVE  /\ s \o t \in Seq(S)
           /\ NoPress(s) /\ NoPress(t) => NoPress(s \o t)
           /\ EndsUp(t) => EndsUp(s \o t)
           /\ EndsUp(s) /\ NoPress(t) => EndsUp(s \o t)
<1> DEFINE u == s \o t
<1>1. /\ u \in Seq(S) /\ Len(s) \in Nat /\ Len(t) \in Nat /\ Len(u) = Len(s) + Len(t)
      /\ \A i \in 1..Len(u) : u[i] = IF i <= Len(s) THEN s[i] ELSE t[i - Len(s)]
  BY ConcatProperties
<1> HIDE DEF u
<1>2. ASSUME NEW i \in 1..Len(u), i > Len(s)
      PROVE  i - Len(s) \in 1..Len(t) /\ u[i] = t[i - Len(s)]
  BY <1>1, <1>2
<1>3. ASSUME NEW i \in 1..Len(s)
      PROVE  i \in 1..Len(u) /\ u[i] = s[i]
  BY <1>1
<1>4. ASSUME NEW i \in 1..Len(u)
      PROVE  i \in 1..Len(s) \/ i > Len(s)
  BY <1>1
<1>5. ASSUME NEW i \in 1..Len(t)
      PROVE  Len(s) + i \in 1..Len(u) /\ u[Len(s) + i] = t[i]
  <2>1. Len(s) + i \in 1..Len(u) /\ Len(s) + i > Len(s) /\ Len(s) + i - Len(s) = i
    BY <1>1
  <2> QED
    BY <1>2, <2>1
<1>6. NoPress(s) /\ NoPress(t) => NoPress(u)
  <2> SUFFICES ASSUME NoPress(s), NoPress(t), NEW i \in 1..Len(u) PROVE ~Presses(u[i])
    BY DEF NoPress
  <2>1. CASE i > Len(s)
    BY <1>2, <2>1 DEF NoPress
  <2>2. CASE i \in 1..Len(s)
    BY <1>3, <2>2 DEF NoPress
  <2> QED
    BY <1>4, <2>1, <2>2
<1>7. ASSUME NEW i \in 1..Len(t), Lets(t[i]), \A j \in 1..Len(t) : j > i => ~Presses(t[j])
      PROVE  EndsUp(u)
  <2>1. ASSUME NEW j \in 1..Len(u), j > Len(s) + i PROVE ~Presses(u[j])
    <3>1. j > Len(s) /\ j - Len(s) > i
      BY <1>1, <2>1
    <3> QED
      BY <1>2, <1>7, <3>1
  <2> QED
    BY <1>5, <1>7, <2>1 DEF EndsUp
<1>8. ASSUME NoPress(t), NEW i \in 1..Len(s), Lets(s[i]),
             \A j \in 1..Len(s) : j > i => ~Presses(s[j])
      PROVE  EndsUp(u)
  <2>1. ASSUME NEW j \in 1..Len(u), j > i PROVE ~Presses(u[j])
    <3>1. CASE j > Len(s)
      BY <1>2, <1>8, <3>1 DEF NoPress
    <3>2. CASE j \in 1..Len(s)
      BY <1>3, <1>8, <2>1, <3>2
    <3> QED
      BY <1>4, <3>1, <3>2
  <2> QED
    BY <1>3, <1>8, <2>1 DEF EndsUp
<1> QED
  BY <1>1, <1>6, <1>7, <1>8 DEF EndsUp, u

LEMMA UpSaid ==
    ASSUME NEW S, NEW e \in S, NEW when \in BOOLEAN
    PROVE  /\ Say(e, when) \in Seq(S)
           /\ ~when \/ ~Presses(e) => NoPress(Say(e, when))
           /\ when /\ Lets(e) => EndsUp(Say(e, when))
BY DEF Say, NoPress, EndsUp

\* Of a page's events, which press and which let go.
LEMMA PageEventTypes ==
    /\ Presses(Down(0)) /\ Presses(Press("left")) /\ Lets(Up(0)) /\ Lets(Release("left"))
    /\ ~Presses(Up(0)) /\ ~Presses(Release("left")) /\ ~Presses(Click("left"))
    /\ ~Presses(Click("right")) /\ ~Presses(MoveTo(0)) /\ ~Presses(MoveRel(0))
    /\ ~Presses(Scroll(0)) /\ ~Presses(Reset) /\ Lets(Reset)
BY DEF Presses, Lets, Click, Press, Release, Down, MoveTo, Up, MoveRel, Scroll, Reset, Event

LEMMA PageEventList ==
    /\ Click("left") \in PageEvent /\ Click("right") \in PageEvent /\ Press("left") \in PageEvent
    /\ Release("left") \in PageEvent /\ Down(0) \in PageEvent /\ MoveTo(0) \in PageEvent
    /\ Up(0) \in PageEvent /\ MoveRel(0) \in PageEvent /\ Scroll(0) \in PageEvent
BY DEF PageEvent

-----------------------------------------------------------------------------
\* What the page says about the button.

\* The page does not hold the button, as far as the host could know: without a
\* size of the video nothing has been pressed.
PadCalm == ~sized \/ (~gesture.dragging /\ ~mouse)

\* What a handler sends ends with the button up when the page lets go, and
\* presses only if it goes on to hold it.
Honest(m) ==
    /\ PadCalm /\ PadCalm' => NoPress(m) \/ EndsUp(m)
    /\ ~PadCalm /\ PadCalm' => EndsUp(m)

PageSays == \E m \in Seq(PageEvent) : Send(m) /\ Honest(m)

\* What the page sends to end what one finger was doing.
LEMMA EndsOneFingerUp ==
    ASSUME NEW g \in Gesture
    PROVE  /\ EndsOneFinger(g) \in Seq(PageEvent) /\ NoPress(EndsOneFinger(g))
           /\ g.dragging => EndsUp(EndsOneFinger(g))
<1>1. g.owesClick \in BOOLEAN /\ g.dragging \in BOOLEAN
  BY DEF Gesture
<1>2. /\ Say(Click("left"), g.owesClick) \in Seq(PageEvent)
      /\ NoPress(Say(Click("left"), g.owesClick))
  BY <1>1, UpSaid, PageEventList, PageEventTypes
<1>3. /\ Say(Release("left"), g.dragging) \in Seq(PageEvent)
      /\ NoPress(Say(Release("left"), g.dragging))
      /\ g.dragging => EndsUp(Say(Release("left"), g.dragging))
  BY <1>1, UpSaid, PageEventList, PageEventTypes
<1> QED
  BY <1>2, <1>3, UpJoined DEF EndsOneFinger, EndsDrag

LEMMA LiftUp ==
    ASSUME NEW g \in Gesture, NEW a \in BOOLEAN, NEW b \in BOOLEAN
    PROVE  LET m == EndsOneFinger(g) \o Say(Click("right"), a) \o Say(Click("left"), b)
           IN  m \in Seq(PageEvent) /\ NoPress(m) /\ (g.dragging => EndsUp(m))
<1>1. LET m == EndsOneFinger(g) \o Say(Click("right"), a)
      IN  m \in Seq(PageEvent) /\ NoPress(m) /\ (g.dragging => EndsUp(m))
  <2>1. Say(Click("right"), a) \in Seq(PageEvent) /\ NoPress(Say(Click("right"), a))
    BY UpSaid, PageEventList, PageEventTypes
  <2> QED
    BY <2>1, EndsOneFingerUp, UpJoined
<1>2. Say(Click("left"), b) \in Seq(PageEvent) /\ NoPress(Say(Click("left"), b))
  BY UpSaid, PageEventList, PageEventTypes
<1> QED
  BY <1>1, <1>2, UpJoined

LEMMA MoveUp ==
    ASSUME NEW a \in BOOLEAN, NEW b \in BOOLEAN, NEW c \in BOOLEAN
    PROVE  LET m == Say(Scroll(0), a) \o Say(Press("left"), b) \o Say(MoveRel(0), c)
           IN  m \in Seq(PageEvent) /\ (~b => NoPress(m))
<1>1. /\ Say(Scroll(0), a) \in Seq(PageEvent) /\ NoPress(Say(Scroll(0), a))
      /\ Say(Press("left"), b) \in Seq(PageEvent) /\ (~b => NoPress(Say(Press("left"), b)))
      /\ Say(MoveRel(0), c) \in Seq(PageEvent) /\ NoPress(Say(MoveRel(0), c))
  BY UpSaid, PageEventList, PageEventTypes
<1>2. LET m == Say(Scroll(0), a) \o Say(Press("left"), b)
      IN  m \in Seq(PageEvent) /\ (~b => NoPress(m))
  BY <1>1, UpJoined
<1> QED
  BY <1>1, <1>2, UpJoined

LEMMA Silence ==
    ASSUME PadTypeOK, UNCHANGED <<connected, wire>>, PadCalm' => PadCalm
    PROVE  PageSays
<1>1. Send(<<>>)
  BY ConcatEmptySeq DEF Send, PadTypeOK
<1>2. <<>> \in Seq(PageEvent)
  OBVIOUS
<1> QED
  BY <1>1, <1>2, NothingSaid DEF PageSays, Honest

LEMMA PageSpeaks ==
    ASSUME PadInv, sized \in BOOLEAN, sized' = sized, PadNext(sized)
    PROVE  PageSays
<1>0. PadTypeOK /\ GestureShape /\ gesture \in Gesture /\ mouse \in BOOLEAN
  BY DEF PadInv, PadTypeOK
<1>1. ASSUME NEW f \in Finger, FirstTouch(f) PROVE PageSays
  <2>1. gesture'.dragging = FALSE /\ gesture.dragging = FALSE
    BY <1>0, <1>1 DEF FirstTouch, NoGesture, GestureShape
  <2> QED
    BY <1>0, <1>1, <2>1, Silence DEF FirstTouch, PadCalm
<1>2. ASSUME NEW f \in Finger, MoreTouch(f) PROVE PageSays
  <2>1. CASE gesture.fingers = 1
    <3>1. Send(EndsOneFinger(gesture)) /\ mouse' = mouse
      BY <1>2, <2>1 DEF MoreTouch, SendAndAccount
    <3>2. Honest(EndsOneFinger(gesture))
      BY <1>0, <3>1, EndsOneFingerUp DEF Honest, PadCalm
    <3> QED
      BY <1>0, <3>1, <3>2, EndsOneFingerUp DEF PageSays
  <2>2. CASE gesture.fingers # 1
    BY <1>0, <1>2, <2>2, Silence DEF MoreTouch, PadCalm
  <2> QED
    BY <2>1, <2>2
<1>3. ASSUME NEW f \in Finger, NEW far \in BOOLEAN, Move(f, far, sized) PROVE PageSays
  <2> DEFINE slides == (gesture.moved \/ far) /\ sized
             drags == slides /\ gesture.fingers = 1 /\ gesture.dragArmed /\ ~gesture.dragging
             m == Say(Scroll(0), slides /\ gesture.fingers = 2) \o Say(Press("left"), drags)
                  \o Say(MoveRel(0), slides /\ gesture.fingers = 1)
  <2>1. /\ Send(m) /\ mouse' = mouse
        /\ gesture' = [gesture EXCEPT !.moved = gesture.moved \/ far,
                                      !.dragging = gesture.dragging \/ drags,
                                      !.owesClick = gesture.owesClick /\ ~drags]
    BY <1>3 DEF Move, SendAndAccount
  <2>2. drags \in BOOLEAN /\ (drags => sized)
    BY <1>0 DEF Gesture
  <2>3. m \in Seq(PageEvent) /\ (~drags => NoPress(m))
    BY MoveUp
  <2> HIDE DEF drags, m
  <2>4. gesture'.dragging = (gesture.dragging \/ drags)
    BY <1>0, <2>1 DEF Gesture
  <2>5. PadCalm' => PadCalm /\ (sized => ~drags)
    BY <2>1, <2>4 DEF PadCalm
  <2>6. Honest(m)
    BY <2>2, <2>3, <2>5 DEF Honest
  <2> QED
    BY <2>1, <2>3, <2>6 DEF PageSays
<1>4. ASSUME NEW f \in Finger, NEW cancelled \in BOOLEAN, LiftLast(f, cancelled) PROVE PageSays
  <2> DEFINE g == gesture
             tap == ~g.dragging /\ IsTap(g, cancelled)
             a == tap /\ g.fingers = 2
             b == tap /\ g.fingers = 1 /\ g.owesClick
             m == EndsOneFinger(g) \o Say(Click("right"), a) \o Say(Click("left"), b)
  <2>1. Send(m) /\ mouse' = mouse
    BY <1>4 DEF LiftLast, SendAndAccount
  <2>2. m \in Seq(PageEvent) /\ NoPress(m) /\ (gesture.dragging => EndsUp(m))
    <3>1. a \in BOOLEAN /\ b \in BOOLEAN
      OBVIOUS
    <3> QED
      BY <1>0, <3>1, LiftUp
  <2> HIDE DEF m
  <2>3. Honest(m)
    BY <2>1, <2>2 DEF Honest, PadCalm
  <2> QED
    BY <2>1, <2>2, <2>3 DEF PageSays
<1>5. CASE HeldClickFires
  <2>1. Send(<<Click("left")>>) /\ (PadCalm' <=> PadCalm)
    BY <1>5 DEF HeldClickFires, SendAndAccount, PadCalm
  <2>2. <<Click("left")>> \in Seq(PageEvent) /\ NoPress(<<Click("left")>>)
    BY PageEventList, PageEventTypes DEF NoPress
  <2> QED
    BY <2>1, <2>2 DEF PageSays, Honest
<1>6. CASE MouseDown(sized)
  <2>1. Send(<<Down(0)>>) /\ ~PadCalm'
    BY <1>6 DEF MouseDown, PadCalm
  <2>2. <<Down(0)>> \in Seq(PageEvent)
    BY PageEventList
  <2> QED
    BY <2>1, <2>2 DEF PageSays, Honest
<1>7. CASE MouseMove(sized)
  <2>1. Send(Say(MoveTo(0), sized)) /\ (PadCalm' <=> PadCalm)
    BY <1>7 DEF MouseMove, PadCalm
  <2>2. Say(MoveTo(0), sized) \in Seq(PageEvent) /\ NoPress(Say(MoveTo(0), sized))
    BY UpSaid, PageEventList, PageEventTypes
  <2> QED
    BY <2>1, <2>2 DEF PageSays, Honest
<1>8. CASE MouseUp(sized)
  <2>1. Send(Say(Up(0), sized)) /\ (~PadCalm => sized)
    BY <1>8 DEF MouseUp, PadCalm
  <2>2. /\ Say(Up(0), sized) \in Seq(PageEvent) /\ NoPress(Say(Up(0), sized))
        /\ sized => EndsUp(Say(Up(0), sized))
    BY UpSaid, PageEventList, PageEventTypes
  <2> QED
    BY <2>1, <2>2 DEF PageSays, Honest
<1>9. CASE Lasts
  <2>1. gesture'.dragging = gesture.dragging /\ UNCHANGED <<mouse, connected, wire>>
    BY <1>0, <1>9 DEF Lasts, Gesture
  <2> QED
    BY <1>0, <2>1, Silence DEF PadCalm
<1>10. ASSUME NEW f \in Finger, LiftOne(f) PROVE PageSays
  BY <1>0, <1>10, Silence DEF LiftOne, PadCalm
<1> QED
  BY <1>1, <1>2, <1>3, <1>4, <1>5, <1>6, <1>7, <1>8, <1>9, <1>10 DEF PadNext

-----------------------------------------------------------------------------
\* What the host makes of it.

HostEvent == PageEvent \cup {Reset}

\* The page is there and does not hold the button, or the session is over.
CalmPage == channel[session] = "open" => connected /\ PadCalm

\* Neither a release or a move that failed nor a host that ended left the button down.
Clean == failed \subseteq Harmless /\ ~heldBefore

\* Every close has been noticed.
Settled == \A c \in Channel : channel[c] # "closed"

\* What is under way, or else what waits for the injector, ends with the button
\* up; or nothing presses it and it is up.
LastWord == EndsUp(wire) \/ (NoPress(wire) /\ (EndsUp(queue) \/ (NoPress(queue) /\ pressed = {})))

Words == wire \in Seq(PageEvent) /\ queue \in Seq(HostEvent)
Connection == /\ connected => channel[session] = "open"
              /\ channel[session] # "open" => wire = <<>>
WireCalm == CalmPage => EndsUp(wire) \/ NoPress(wire)
LeftIsHeld == Clean => /\ pressed \subseteq held \cap {"left"}
                       /\ injector # "ready" => pressed = {}
WordKept == Clean /\ CalmPage /\ injector # "off" /\ Settled => LastWord

ButtonInv == Words /\ Connection /\ WireCalm /\ LeftIsHeld /\ WordKept

\* An event on the host presses and releases the left button, if any but a click.
LEMMA HostEvents ==
    ASSUME NEW e \in HostEvent
    PROVE  /\ e.type \in {"press", "release"} => e.button = "left"
           /\ e \in InputEvent
<1>1. e \in InputEvent
  BY PageEvents, ResetIsEvent DEF HostEvent, PageEvent
<1>2. e.type \in {"press", "release"} => e.button = "left"
  BY DEF HostEvent, PageEvent, Click, Press, Release, Down, MoveTo, Up, MoveRel, Scroll, Reset,
         Event
<1> QED
  BY <1>1, <1>2

\* What an event does to the buttons when nothing but presses and keys has failed.
LEMMA AppliedButtons ==
    ASSUME queue \in Seq(HostEvent), Apply
    PROVE  /\ injector = "ready" /\ queue # <<>> /\ queue' = Tail(queue)
           /\ UNCHANGED <<injector, channel>> /\ failed \subseteq failed'
           /\ pressed \subseteq held \cap {"left"} /\ failed' \subseteq Harmless =>
                /\ pressed' \subseteq held' \cap {"left"}
                /\ ~Presses(Head(queue)) => pressed' \subseteq pressed
                /\ Lets(Head(queue)) => pressed' = {}
<1> DEFINE e == Head(queue)
           Good == pressed \subseteq held \cap {"left"} /\ failed' \subseteq Harmless =>
                     /\ pressed' \subseteq held' \cap {"left"}
                     /\ ~Presses(e) => pressed' \subseteq pressed
                     /\ Lets(e) => pressed' = {}
<1>1. /\ injector = "ready" /\ queue # <<>> /\ queue' = Tail(queue)
      /\ UNCHANGED <<injector, channel>>
  BY DEF Apply, ApplyDown, ApplyMove, ApplyUp, ApplyMoveRel, ApplyClick, ApplyPress, ApplyRelease,
         ApplyScroll, ApplyText, ApplyKey, ApplyReset, Take
<1>2. failed \subseteq failed'
  BY DEF Apply, ApplyDown, ApplyMove, ApplyUp, ApplyMoveRel, ApplyClick, ApplyPress, ApplyRelease,
         ApplyScroll, ApplyText, ApplyKey, ApplyReset, Fails, Works
<1>3. e \in HostEvent
  BY <1>1, UpTaken
<1>4. e.type \in {"press", "release"} => e.button = "left"
  BY <1>3, HostEvents
<1> HIDE DEF e
<1>5. ASSUME NEW call \in {"move", "release", "reset"}, Fails(call)
      PROVE  ~(failed' \subseteq Harmless)
  BY <1>5 DEF Fails, Harmless
<1>6. ASSUME ApplyDown PROVE Good
  <2>1. e.type = "down"
    BY <1>6 DEF ApplyDown, Take, e
  <2>2. failed' \subseteq Harmless => PressButton("left") \/ UNCHANGED <<pressed, held>>
    BY <1>5, <1>6 DEF ApplyDown
  <2> QED
    BY <2>1, <2>2 DEF PressButton, Presses, Lets
<1>7. ASSUME ApplyUp PROVE Good
  <2>1. e.type = "up"
    BY <1>7 DEF ApplyUp, Take, e
  <2>2. failed' \subseteq Harmless => ReleaseButton("left")
    BY <1>5, <1>7 DEF ApplyUp
  <2> QED
    BY <2>1, <2>2 DEF ReleaseButton, Presses, Lets
<1>8. ASSUME ApplyPress PROVE Good
  <2>1. e.type = "press"
    BY <1>8 DEF ApplyPress, Take, e
  <2>2. failed' \subseteq Harmless => PressButton("left") \/ UNCHANGED <<pressed, held>>
    BY <1>4, <1>5, <1>8, <2>1 DEF ApplyPress, e
  <2> QED
    BY <2>1, <2>2 DEF PressButton, Presses, Lets
<1>9. ASSUME ApplyRelease PROVE Good
  <2>1. e.type = "release"
    BY <1>9 DEF ApplyRelease, Take, e
  <2>2. failed' \subseteq Harmless => ReleaseButton("left")
    BY <1>4, <1>5, <1>9, <2>1 DEF ApplyRelease, e
  <2> QED
    BY <2>1, <2>2 DEF ReleaseButton, Presses, Lets
<1>10. ASSUME ApplyReset PROVE Good
  <2>1. e.type = "reset"
    BY <1>10 DEF ApplyReset, Take, e
  <2>2. failed' \subseteq Harmless => pressed' = pressed \ held
    BY <1>5, <1>10 DEF ApplyReset
  <2> QED
    BY <2>1, <2>2 DEF Presses, Lets
<1>11. ASSUME ApplyClick PROVE Good
  <2>1. e.type = "click" /\ pressed' \subseteq pressed /\ held' = held
    BY <1>11 DEF ApplyClick, Take, e
  <2> QED
    BY <2>1 DEF Presses, Lets
<1>12. ASSUME ApplyMove \/ ApplyMoveRel \/ ApplyScroll \/ ApplyText \/ ApplyKey PROVE Good
  <2>1. e.type \in {"move", "move_rel", "scroll", "text", "key"} /\ UNCHANGED <<pressed, held>>
    BY <1>12 DEF ApplyMove, ApplyMoveRel, ApplyScroll, ApplyText, ApplyKey, Take, e
  <2> QED
    BY <2>1 DEF Presses, Lets
<1>13. Good
  BY <1>6, <1>7, <1>8, <1>9, <1>10, <1>11, <1>12 DEF Apply
<1> QED
  BY <1>1, <1>2, <1>13 DEF e

LEMMA ButtonStart == PathInit => ButtonInv
<1> SUFFICES ASSUME PathInit PROVE ButtonInv
  OBVIOUS
<1>1. wire = <<>> /\ queue = <<>> /\ pressed = {} /\ held = {} /\ connected = FALSE
  BY DEF PathInit, PadInit, InjectorInit
<1>2. <<>> \in Seq(PageEvent) /\ <<>> \in Seq(HostEvent)
  OBVIOUS
<1> QED
  BY <1>1, <1>2, NothingSaid
     DEF ButtonInv, Words, Connection, WireCalm, LeftIsHeld, WordKept, LastWord

\* A step that nobody hears of, and that does not make the page let go.
LEMMA Unheard ==
    ASSUME ButtonInv, Connection', CalmPage' => CalmPage, Settled' => Settled,
           UNCHANGED <<wire, queue, pressed, held, failed, heldBefore, injector>>
    PROVE  ButtonInv'
BY DEF ButtonInv, Words, WireCalm, LeftIsHeld, WordKept, LastWord, NoPress, EndsUp, Clean

LEMMA PageActsButton ==
    ASSUME TypeInv, ButtonInv, PageActs
    PROVE  ButtonInv'
<1>0. /\ UNCHANGED <<queue, pressed, held, failed, heldBefore, injector, channel, session, sized>>
      /\ PadInv /\ sized \in BOOLEAN /\ PadNext(sized)
      /\ wire \in Seq(PageEvent) /\ queue \in Seq(HostEvent)
  BY DEF PageActs, injectorVars, TypeInv, PathTypeOK, ButtonInv, Words
<1>1. PICK m \in Seq(PageEvent) : Send(m) /\ Honest(m)
  BY <1>0, PageSpeaks DEF PageSays
<1>2. connected' = connected /\ wire' \in Seq(PageEvent)
  BY <1>0, <1>1 DEF Send
<1>3. Connection'
  BY <1>0, <1>1, <1>2 DEF ButtonInv, Connection, Send
<1>4. ASSUME CalmPage', CalmPage
      PROVE  /\ EndsUp(wire) => EndsUp(wire')
             /\ NoPress(wire) => NoPress(wire') \/ EndsUp(wire')
  <2>1. CASE connected
    <3>1. PadCalm /\ PadCalm' /\ wire' = wire \o m
      BY <1>0, <1>1, <1>2, <1>4, <2>1 DEF CalmPage, ButtonInv, Connection, Send
    <3> QED
      BY <1>0, <1>1, <3>1, UpJoined DEF Honest
  <2>2. CASE ~connected
    BY <1>1, <2>2 DEF Send, NoPress, EndsUp
  <2> QED
    BY <2>1, <2>2
<1>5. ASSUME CalmPage', ~CalmPage
      PROVE  EndsUp(wire')
  <2>1. connected /\ ~PadCalm /\ PadCalm'
    BY <1>0, <1>2, <1>5 DEF CalmPage
  <2>2. wire' = wire \o m /\ EndsUp(m)
    BY <1>1, <2>1 DEF Send, Honest
  <2> QED
    BY <1>0, <2>2, UpJoined
<1>6. WireCalm'
  <2> SUFFICES ASSUME CalmPage' PROVE EndsUp(wire') \/ NoPress(wire')
    BY DEF WireCalm, EndsUp, NoPress
  <2> QED
    BY <1>4, <1>5 DEF ButtonInv, WireCalm
<1>7. WordKept'
  <2> SUFFICES ASSUME Clean, CalmPage', injector # "off", Settled PROVE LastWord'
    BY <1>0 DEF WordKept, Clean, Settled
  <2>1. CASE CalmPage
    <3>1. LastWord
      BY <2>1 DEF ButtonInv, WordKept
    <3>2. EndsUp(wire') \/ (NoPress(wire') /\ (EndsUp(queue) \/ (NoPress(queue) /\ pressed = {})))
      BY <1>4, <2>1, <3>1 DEF LastWord
    <3> QED
      BY <1>0, <3>2 DEF LastWord, NoPress, EndsUp
  <2>2. CASE ~CalmPage
    BY <1>5, <2>2 DEF LastWord, EndsUp
  <2> QED
    BY <2>1, <2>2
<1>8. Words' /\ LeftIsHeld'
  BY <1>0, <1>2 DEF ButtonInv, Words, LeftIsHeld, Clean
<1> QED
  BY <1>3, <1>6, <1>7, <1>8 DEF ButtonInv

LEMMA DeliveredButton ==
    ASSUME TypeInv, ButtonInv, Delivered
    PROVE  ButtonInv'
<1>0. /\ UNCHANGED <<gesture, mouse, connected, session, sized, heldBefore, injector, held, pressed,
                     channel, failed>>
      /\ wire # <<>> /\ wire' = Tail(wire) /\ Queued(Head(wire))
      /\ channel[session] = "open"
      /\ wire \in Seq(PageEvent) /\ queue \in Seq(HostEvent)
  BY DEF Delivered, OnMessage, fingerVars, ButtonInv, Words
<1> DEFINE e == Head(wire)
<1>1. /\ e \in PageEvent /\ e \in HostEvent /\ wire' \in Seq(PageEvent)
      /\ NoPress(wire) => ~Presses(e) /\ NoPress(wire')
      /\ EndsUp(wire) => EndsUp(wire') \/ (Lets(e) /\ NoPress(wire'))
  BY <1>0, UpTaken DEF HostEvent
<1> HIDE DEF e
<1>2. queue' = IF injector = "off" THEN queue ELSE Append(queue, e)
  BY <1>0 DEF Queued, e
<1>3. /\ Append(queue, e) \in Seq(HostEvent)
      /\ Lets(e) => EndsUp(Append(queue, e))
      /\ ~Presses(e) /\ NoPress(queue) => NoPress(Append(queue, e))
      /\ ~Presses(e) /\ EndsUp(queue) => EndsUp(Append(queue, e))
  BY <1>0, <1>1, UpAdded
<1>4. Words' /\ LeftIsHeld' /\ Connection'
  BY <1>0, <1>1, <1>2, <1>3 DEF ButtonInv, Words, LeftIsHeld, Clean, Connection
<1>5. CalmPage' <=> CalmPage
  BY <1>0 DEF CalmPage, PadCalm
<1>6. WireCalm'
  <2> SUFFICES ASSUME CalmPage PROVE EndsUp(wire') \/ NoPress(wire')
    BY <1>5 DEF WireCalm, EndsUp, NoPress
  <2> QED
    BY <1>1 DEF ButtonInv, WireCalm
<1>7. WordKept'
  <2> SUFFICES ASSUME Clean, CalmPage, injector # "off", Settled PROVE LastWord'
    BY <1>0, <1>5 DEF WordKept, Clean, Settled
  <2>1. LastWord /\ queue' = Append(queue, e)
    BY <1>2 DEF ButtonInv, WordKept
  <2>2. \/ EndsUp(wire')
        \/ NoPress(wire') /\ (EndsUp(Append(queue, e))
                              \/ (NoPress(Append(queue, e)) /\ pressed = {}))
    BY <1>1, <1>3, <2>1 DEF LastWord
  <2> QED
    BY <1>0, <2>1, <2>2 DEF LastWord, NoPress, EndsUp
<1> QED
  BY <1>4, <1>6, <1>7 DEF ButtonInv

LEMMA CloseNoticedButton ==
    ASSUME TypeInv, ButtonInv, NEW c \in Channel, CloseNoticed(c)
    PROVE  ButtonInv'
<1>0. /\ UNCHANGED <<gesture, mouse, connected, wire, session, sized, heldBefore, injector, held,
                     pressed, failed>>
      /\ channel[c] = "closed" /\ channel' = [channel EXCEPT ![c] = "reset"] /\ Queued(Reset)
      /\ channel \in [Channel -> {"new", "open", "closed", "reset"}] /\ session \in Channel
      /\ wire \in Seq(PageEvent) /\ queue \in Seq(HostEvent)
  BY DEF CloseNoticed, OnClose, OnCloseSends, padVars, ButtonInv, Words, TypeInv, PathTypeOK,
         InjectorTypeOK
<1>1. channel'[session] = "open" <=> channel[session] = "open"
  BY <1>0
<1>2. Append(queue, Reset) \in Seq(HostEvent) /\ EndsUp(Append(queue, Reset))
  BY <1>0, UpAdded, PageEventTypes DEF HostEvent
<1>3. queue' = IF injector = "off" THEN queue ELSE Append(queue, Reset)
  BY <1>0 DEF Queued
<1>4. Words' /\ LeftIsHeld' /\ Connection'
  BY <1>0, <1>1, <1>2, <1>3 DEF ButtonInv, Words, LeftIsHeld, Clean, Connection
<1>5. CalmPage' <=> CalmPage
  BY <1>0, <1>1 DEF CalmPage, PadCalm
<1>6. WireCalm'
  BY <1>0, <1>5 DEF ButtonInv, WireCalm, EndsUp, NoPress
<1>7. WordKept'
  <2> SUFFICES ASSUME CalmPage, injector # "off" PROVE LastWord'
    BY <1>0, <1>5 DEF WordKept
  <2>1. EndsUp(wire) \/ NoPress(wire)
    BY DEF ButtonInv, WireCalm
  <2>2. queue' = Append(queue, Reset)
    BY <1>3
  <2>3. EndsUp(queue')
    BY <1>2, <2>2
  <2> QED
    BY <1>0, <2>1, <2>3 DEF LastWord, EndsUp, NoPress
<1> QED
  BY <1>4, <1>6, <1>7 DEF ButtonInv

LEMMA InjectorActsButton ==
    ASSUME TypeInv, ButtonInv, InjectorActs
    PROVE  ButtonInv'
<1>0. /\ UNCHANGED <<gesture, mouse, connected, wire, session, sized, heldBefore, channel>>
      /\ queue \in Seq(HostEvent)
  BY DEF InjectorActs, padVars, ButtonInv, Words, Ready, NoPermission, Apply, ApplyDown, ApplyMove,
         ApplyUp, ApplyMoveRel, ApplyClick, ApplyPress, ApplyRelease, ApplyScroll, ApplyText,
         ApplyKey, ApplyReset
<1>1. /\ Connection' /\ WireCalm' /\ (CalmPage' <=> CalmPage) /\ (Settled' <=> Settled)
  BY <1>0 DEF ButtonInv, Connection, WireCalm, CalmPage, PadCalm, Settled, EndsUp, NoPress
<1>2. CASE Ready
  <2>1. injector = "starting" /\ injector' = "ready"
        /\ UNCHANGED <<queue, pressed, held, failed>>
    BY <1>2 DEF Ready
  <2>2. Words' /\ LeftIsHeld'
    BY <1>0, <2>1 DEF ButtonInv, Words, LeftIsHeld, Clean
  <2>3. WordKept'
    BY <1>0, <1>1, <2>1 DEF ButtonInv, WordKept, Clean, LastWord, EndsUp, NoPress
  <2> QED
    BY <1>1, <2>2, <2>3 DEF ButtonInv
<1>3. CASE NoPermission
  <2>1. injector = "starting" /\ injector' = "off" /\ queue' = <<>>
        /\ UNCHANGED <<pressed, held, failed>>
    BY <1>3 DEF NoPermission
  <2>2. Words' /\ LeftIsHeld' /\ WordKept'
    BY <1>0, <2>1 DEF ButtonInv, Words, LeftIsHeld, Clean, WordKept
  <2> QED
    BY <1>1, <2>2 DEF ButtonInv
<1>4. CASE Apply
  <2> DEFINE e == Head(queue)
  <2>1. /\ injector = "ready" /\ queue # <<>> /\ queue' = Tail(queue) /\ injector' = injector
        /\ failed \subseteq failed'
        /\ pressed \subseteq held \cap {"left"} /\ failed' \subseteq Harmless =>
             /\ pressed' \subseteq held' \cap {"left"}
             /\ ~Presses(e) => pressed' \subseteq pressed
             /\ Lets(e) => pressed' = {}
    BY <1>0, <1>4, AppliedButtons
  <2>2. /\ queue' \in Seq(HostEvent)
        /\ NoPress(queue) => ~Presses(e) /\ NoPress(queue')
        /\ EndsUp(queue) => EndsUp(queue') \/ (Lets(e) /\ NoPress(queue'))
    BY <1>0, <2>1, UpTaken
  <2> HIDE DEF e
  <2>3. Words'
    BY <1>0, <2>2 DEF ButtonInv, Words
  <2>4. Clean' => Clean /\ failed' \subseteq Harmless
    BY <1>0, <2>1 DEF Clean
  <2>5. Clean => pressed \subseteq held \cap {"left"}
    BY DEF ButtonInv, LeftIsHeld
  <2>6. LeftIsHeld'
    BY <2>1, <2>4, <2>5 DEF LeftIsHeld
  <2>7. WordKept'
    <3> SUFFICES ASSUME Clean', CalmPage, Settled PROVE LastWord'
      BY <1>1 DEF WordKept
    <3>1. LastWord /\ pressed \subseteq held \cap {"left"} /\ failed' \subseteq Harmless
      BY <2>1, <2>4, <2>5 DEF ButtonInv, WordKept
    <3>2. (~Presses(e) => pressed' \subseteq pressed) /\ (Lets(e) => pressed' = {})
      BY <2>1, <3>1
    <3>3. EndsUp(wire) \/ (NoPress(wire) /\ (EndsUp(queue') \/ (NoPress(queue') /\ pressed' = {})))
      BY <2>2, <3>1, <3>2 DEF LastWord
    <3> QED
      BY <1>0, <3>3 DEF LastWord, EndsUp, NoPress
  <2> QED
    BY <1>1, <2>3, <2>6, <2>7 DEF ButtonInv
<1> QED
  BY <1>2, <1>3, <1>4 DEF InjectorActs

LEMMA ButtonKept ==
    ASSUME TypeInv, ButtonInv, [PathNext]_pathVars
    PROVE  ButtonInv'
<1>0. /\ Connection /\ session \in Channel /\ session \in Nat /\ session + 1 # session
      /\ channel \in [Channel -> {"new", "open", "closed", "reset"}]
  BY ChannelAssumption DEF ButtonInv, TypeInv, PathTypeOK, InjectorTypeOK
<1>1. CASE FirstFrame
  <2>1. UNCHANGED <<gesture, mouse, connected, wire, queue, pressed, held, failed, heldBefore,
                    injector, channel, session>> /\ ~sized
    BY <1>1 DEF FirstFrame, padVars, injectorVars
  <2> QED
    BY <1>0, <2>1, Unheard DEF Connection, CalmPage, PadCalm, Settled
<1>2. CASE ChannelOpens
  <2>1. /\ UNCHANGED <<wire, queue, pressed, held, failed, heldBefore, injector, session>>
        /\ channel[session] = "new" /\ channel' = [channel EXCEPT ![session] = "open"]
    BY <1>2 DEF ChannelOpens, OnOpen
  <2>2. channel'[session] = "open" /\ (Settled' => Settled)
    BY <1>0, <2>1 DEF Settled
  <2> QED
    BY <1>0, <2>1, <2>2, Unheard DEF Connection, CalmPage
<1>3. CASE PageGoes
  <2>1. /\ UNCHANGED <<wire, queue, pressed, held, failed, heldBefore, injector, session, channel>>
        /\ connected /\ connected' = FALSE
    BY <1>3 DEF PageGoes, injectorVars
  <2> QED
    BY <1>0, <2>1, Unheard DEF Connection, CalmPage, Settled
<1>4. CASE HostCloses
  <2>1. /\ UNCHANGED <<queue, pressed, held, failed, heldBefore, injector, session>>
        /\ connected' = FALSE /\ wire' = <<>> /\ channel' = [channel EXCEPT ![session] = "closed"]
    BY <1>4 DEF HostCloses, Closes
  <2>2. ~Settled'
    BY <1>0, <2>1 DEF Settled
  <2>3. <<>> \in Seq(PageEvent) /\ NoPress(<<>>)
    BY NothingSaid
  <2> QED
    BY <2>1, <2>2, <2>3
       DEF ButtonInv, Words, Connection, WireCalm, LeftIsHeld, Clean, WordKept, NoPress
<1>5. CASE NextPage
  <2>1. /\ UNCHANGED <<connected, wire, queue, pressed, held, failed, heldBefore, injector, channel>>
        /\ channel[session] # "open"
    BY <1>5 DEF NextPage, injectorVars
  <2> QED
    BY <1>0, <2>1, Unheard DEF Connection, CalmPage, Settled
<1>6. CASE HostRestarts
  <2>1. /\ queue' = <<>> /\ wire' = <<>> /\ connected' = FALSE
        /\ UNCHANGED <<pressed, failed>> /\ heldBefore' = (heldBefore \/ pressed # {})
    BY <1>6 DEF HostRestarts
  <2>2. <<>> \in Seq(PageEvent) /\ <<>> \in Seq(HostEvent) /\ NoPress(<<>>)
    BY NothingSaid
  <2>3. Clean' => pressed' = {}
    BY <2>1 DEF Clean
  <2> QED
    BY <2>1, <2>2, <2>3
       DEF ButtonInv, Words, Connection, WireCalm, LeftIsHeld, WordKept, LastWord, NoPress
<1>7. CASE UNCHANGED pathVars
  <2>1. UNCHANGED <<gesture, mouse, connected, wire, queue, pressed, held, failed, heldBefore,
                    injector, channel, session, sized>>
    BY <1>7 DEF pathVars, padVars, injectorVars
  <2> QED
    BY <1>0, <2>1, Unheard DEF Connection, CalmPage, PadCalm, Settled
<1> QED
  BY <1>1, <1>2, <1>3, <1>4, <1>5, <1>6, <1>7, PageActsButton, DeliveredButton, InjectorActsButton,
     CloseNoticedButton DEF PathNext

\* When nobody holds the button and everything sent has been dealt with, it is up,
\* whatever gestures, pages, closes and restarts came before and whatever presses
\* and keys failed; unless a release or a move failed, or the host ended while it was down.
THEOREM NothingStuckHolds == PathSpec => []NothingStuck
<1>1. ButtonInv => NothingStuck
  <2> SUFFICES ASSUME ButtonInv, ~Holding, wire = <<>>, queue = <<>>, Settled, Clean
               PROVE  pressed = {}
    BY DEF NothingStuck, Settled, Clean
  <2>1. CalmPage
    BY DEF Holding, CalmPage, PadCalm
  <2>2. CASE injector = "off"
    BY <2>2 DEF ButtonInv, LeftIsHeld
  <2>3. CASE injector # "off"
    <3>1. LastWord
      BY <2>1, <2>3 DEF ButtonInv, WordKept
    <3> QED
      BY <3>1 DEF LastWord, EndsUp
  <2> QED
    BY <2>2, <2>3
<1>2. PathInit => ButtonInv
  BY ButtonStart
<1>3. TypeInv /\ ButtonInv /\ [PathNext]_pathVars => ButtonInv'
  BY ButtonKept
<1> QED
  BY <1>1, <1>2, <1>3, TypesAlways, PTL DEF PathSpec
=============================================================================
