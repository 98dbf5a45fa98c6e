-------------------------- MODULE HostAccessProofs --------------------------
(***************************************************************************)
(* Who may stream: the proof that HostSession keeps TruthInv until a       *)
(* restart and ActiveInv until anything fails, and what follows from them. *)
(***************************************************************************)
EXTENDS HostSessionProofs

USE NoDeviceAssumption, BoundsAssumption

\* A failure, a restart or the loss of signaling is not undone.
LEMMA UndisturbedBefore == TypeOK /\ [Next]_vars /\ Undisturbed' => Undisturbed
<1> SUFFICES ASSUME TypeOK, [Next]_vars, Undisturbed'
             PROVE  Undisturbed
  OBVIOUS
<1> USE DEF Undisturbed, loopVars, storeVars, pageVars, netVars, loopAside
<1>0. epoch \in Nat \ {0} /\ faults \in Nat
  BY DEF TypeOK, Epoch
<1>1. CASE HandleMessage
  BY <1>0, <1>1 DEF HandleMessage, HandleViewerJoined, IgnoreAnswer, KnownAnswer, TouchFails,
       NewAnswer, Usable, Receive, SaveOk, SaveFails
<1>2. CASE HandleCommand
  BY <1>0, <1>2 DEF HandleCommand, CommandDropped, ApproveTooLate, ApprovePairs, ApproveFails,
       HandleReject, HandleDisconnect, DisconnectMisses, Approvable, Take, Serving, AddOk,
       SaveOk, SaveFails
<1>3. CASE Resume
  BY <1>3 DEF Resume, CloseOld, StartSession, StartFails, ApplyAnswer, FinishClose
<1>4. CASE Page
  <2>1. UNCHANGED loopAside
    BY <1>4 DEF Page, Poll, ClickApprove, ClickReject, Remove, RemoveFails, SendDisconnect, Rename
  <2>2. faults' = faults \/ faults' = faults + 1
    BY <1>4 DEF Page, Poll, ClickApprove, ClickReject, Remove, RemoveFails, SendDisconnect, Rename,
         SaveOk, SaveFails
  <2> QED
    BY <1>0, <2>1, <2>2
<1>5. CASE World
  <2>2. CASE Restart
    BY <1>0, <2>2 DEF Restart
  <2>3. CASE ~Restart
    <3>1. at' = at \/ at' = "stopped"
      BY <1>5, <2>3 DEF World, Connect, PeerFails, ViewerJoins, ViewerAnswers, SignalingLost
    <3>2. UNCHANGED <<faults, epoch>>
      BY <1>5, <2>3 DEF World, Connect, PeerFails, ViewerJoins, ViewerAnswers, SignalingLost
    <3> QED
      BY <3>1, <3>2
  <2> QED
    BY <2>2, <2>3
<1>6. CASE UNCHANGED vars
  BY <1>6 DEF vars
<1> QED
  BY <1>1, <1>2, <1>3, <1>4, <1>5, <1>6 DEF Next

\* Nor is a restart, which alone begins another run.
LEMMA SameRun == TypeOK /\ [Next]_vars /\ epoch' = 1 => epoch = 1 /\ ~Restart
<1> SUFFICES ASSUME TypeOK, [Next]_vars, epoch' = 1
             PROVE  epoch = 1 /\ ~Restart
  OBVIOUS
<1> USE DEF loopVars, storeVars, pageVars, netVars, loopAside
<1>1. ~Restart
  BY DEF Restart, TypeOK, Epoch
<1>2. CASE HandleMessage
  BY <1>1, <1>2 DEF HandleMessage, HandleViewerJoined, IgnoreAnswer, KnownAnswer, TouchFails, NewAnswer
<1>3. CASE HandleCommand
  BY <1>1, <1>3 DEF HandleCommand, CommandDropped, ApproveTooLate, ApprovePairs, ApproveFails,
       HandleReject, HandleDisconnect, DisconnectMisses
<1>4. CASE Resume
  BY <1>1, <1>4 DEF Resume, CloseOld, StartSession, StartFails, ApplyAnswer, FinishClose
<1>5. CASE Page
  BY <1>1, <1>5 DEF Page, Poll, ClickApprove, ClickReject, Remove, RemoveFails, SendDisconnect, Rename
<1>6. CASE World
  BY <1>1, <1>6 DEF World, Connect, PeerFails, ViewerJoins, ViewerAnswers, SignalingLost
<1>7. CASE UNCHANGED vars
  BY <1>1, <1>7 DEF vars
<1> QED
  BY <1>1, <1>2, <1>3, <1>4, <1>5, <1>6, <1>7 DEF Next

\* The answers still to come, when neither offers nor inbox change.
LEMMA TokensFrame ==
    ASSUME TokensInv, UNCHANGED <<inbox, offers, session, epoch>>, at' = "start" => at = "start"
    PROVE  TokensInv'
BY DEF TokensInv, Unanswered, Underway, AnswerAt

\* Receiving a message shortens the inbox, and uses up the answer it is.
LEMMA TokensReceive ==
    ASSUME TypeOK, TokensInv, inbox # <<>>, inbox' = Tail(inbox), at' # "start",
           UNCHANGED <<offers, session, epoch>>
    PROVE  /\ TokensInv'
           /\ \A n \in Session : (Unanswered(n) \/ Underway(n))' => Unanswered(n) \/ Underway(n)
           /\ \A n \in Session : AnswerAt(1, n) => ~(Unanswered(n) \/ Underway(n))'
<1>1. DOMAIN inbox' = 1..(Len(inbox) - 1) /\ DOMAIN inbox = 1..Len(inbox) /\ Len(inbox) \in Nat
  BY DEF TypeOK
<1>2. \A i \in DOMAIN inbox' : inbox'[i] = inbox[i + 1] /\ i + 1 \in DOMAIN inbox
  BY <1>1 DEF TypeOK
<1>3. 1 \in DOMAIN inbox
  BY <1>1 DEF TypeOK
<1>4. \A i \in DOMAIN inbox', n \in Session : AnswerAt(i, n)' => AnswerAt(i + 1, n)
  BY <1>2 DEF AnswerAt
<1>5. \A n \in Session : Underway(n)' => Underway(n)
  BY <1>2, <1>4 DEF Underway
<1>6. \A n \in Session : Unanswered(n)' <=> Unanswered(n)
  BY DEF Unanswered
<1>7. \A i, j \in DOMAIN inbox', n \in Session : AnswerAt(i, n)' /\ AnswerAt(j, n)' => i = j
  BY <1>1, <1>2, <1>4 DEF TokensInv
<1>8. \A i \in DOMAIN inbox' : inbox'[i].type = "answer" =>
        inbox'[i].answer.epoch = epoch' /\ inbox'[i].answer.session \in Session
  BY <1>2 DEF TokensInv
<1>9. TokensInv'
  BY <1>5, <1>6, <1>7, <1>8 DEF TokensInv
<1>10. ASSUME NEW n \in Session, AnswerAt(1, n)
       PROVE  ~(Unanswered(n) \/ Underway(n))'
  <2>1. ~Unanswered(n)
    BY <1>3, <1>10 DEF TokensInv, Underway
  <2>2. \A i \in DOMAIN inbox' : ~AnswerAt(i, n)'
    BY <1>1, <1>2, <1>3, <1>4, <1>10 DEF TokensInv
  <2> QED
    BY <1>6, <2>1, <2>2 DEF Underway
<1> QED
  BY <1>5, <1>6, <1>9, <1>10

\* A message arriving is either no answer, or the one an offer was owed.
LEMMA TokensArrive ==
    ASSUME TypeOK, TokensInv, NEW m \in Message, inbox' = Append(inbox, m),
           UNCHANGED <<at, session, epoch>>,
           \/ m.type # "answer" /\ UNCHANGED offers
           \/ \E o \in offers : /\ offers' = offers \ {o}
                                /\ m.answer.session = o.session /\ m.answer.epoch = o.epoch
    PROVE  /\ TokensInv'
           /\ \A n \in Session : (Unanswered(n) \/ Underway(n))' => Unanswered(n) \/ Underway(n)
<1>0. PICK last \in Nat : last = Len(inbox) + 1
  BY DEF TypeOK
<1>1. /\ Len(inbox) \in Nat /\ DOMAIN inbox = 1..Len(inbox) /\ DOMAIN inbox' = 1..last
      /\ \A i \in DOMAIN inbox : inbox'[i] = inbox[i]
      /\ inbox'[last] = m
  BY <1>0 DEF TypeOK
<1>2. \A i \in DOMAIN inbox' : i \in DOMAIN inbox \/ i = last
  BY <1>1
<1>3. \A i \in DOMAIN inbox, n \in Session : AnswerAt(i, n)' <=> AnswerAt(i, n)
  BY <1>1 DEF AnswerAt
<1>4. CASE m.type # "answer" /\ UNCHANGED offers
  <2>1. \A n \in Session : ~AnswerAt(last, n)'
    BY <1>1, <1>4 DEF AnswerAt
  <2>2. \A n \in Session : Underway(n)' => Underway(n)
    BY <1>2, <1>3, <2>1 DEF Underway
  <2>3. \A n \in Session : Unanswered(n)' <=> Unanswered(n)
    BY <1>4 DEF Unanswered
  <2>4. \A i, j \in DOMAIN inbox', n \in Session : AnswerAt(i, n)' /\ AnswerAt(j, n)' => i = j
    BY <1>2, <1>3, <2>1 DEF TokensInv
  <2>5. \A i \in DOMAIN inbox' : inbox'[i].type = "answer" =>
          inbox'[i].answer.epoch = epoch' /\ inbox'[i].answer.session \in Session
    BY <1>1, <1>2, <1>4 DEF TokensInv
  <2> QED
    BY <1>4, <2>2, <2>3, <2>4, <2>5 DEF TokensInv
<1>5. ASSUME NEW o \in offers, offers' = offers \ {o},
             m.answer.session = o.session, m.answer.epoch = o.epoch
      PROVE  /\ TokensInv'
             /\ \A n \in Session : (Unanswered(n) \/ Underway(n))' => Unanswered(n) \/ Underway(n)
  <2>0. o.session \in Session /\ o.epoch = epoch /\ Unanswered(o.session)
    BY DEF TypeOK, Offer, TokensInv, Unanswered
  <2>1. \A n \in Session : AnswerAt(last, n)' => n = o.session
    BY <1>1, <1>5 DEF AnswerAt
  <2>2. \A n \in Session : Underway(n)' => Underway(n) \/ n = o.session
    BY <1>2, <1>3, <2>1 DEF Underway
  <2>3. \A n \in Session : Unanswered(n)' => Unanswered(n) /\ n # o.session
    <3>1. \A r \in offers : r.session = o.session => r = o
      BY <2>0 DEF TokensInv, TypeOK, Offer
    <3> QED
      BY <1>5, <3>1 DEF Unanswered
  <2>4. \A i, j \in DOMAIN inbox', n \in Session : AnswerAt(i, n)' /\ AnswerAt(j, n)' => i = j
    <3>1. \A i \in DOMAIN inbox : ~AnswerAt(i, o.session)
      BY <2>0 DEF TokensInv, Underway
    <3> QED
      BY <1>2, <1>3, <2>1, <3>1 DEF TokensInv
  <2>5. \A i \in DOMAIN inbox' : inbox'[i].type = "answer" =>
          inbox'[i].answer.epoch = epoch' /\ inbox'[i].answer.session \in Session
    BY <1>1, <1>2, <1>5, <2>0 DEF TokensInv
  <2>6. \A n \in Session : ~(Unanswered(n)' /\ Underway(n)')
    BY <2>2, <2>3 DEF TokensInv
  <2>7. \A n \in Session : (Unanswered(n) \/ Underway(n))' => Unanswered(n) \/ Underway(n)
    BY <2>0, <2>2, <2>3
  <2>8. \A r \in offers' : r.epoch = epoch'
    BY <1>5 DEF TokensInv
  <2> QED
    BY <2>4, <2>5, <2>6, <2>7, <2>8 DEF TokensInv
<1> QED
  BY <1>4, <1>5

\* A removal on its way stays on its way until its own command is taken.
LEMMA RevokingKept ==
    ASSUME TypeOK, NEW d \in Device, Revoking(d), removing' = removing,
           \/ cmds' = cmds
           \/ \E k \in Command : cmds' = Append(cmds, k)
           \/ cmds # <<>> /\ cmds' = Tail(cmds) /\ Head(cmds) # [kind |-> "disconnect", fp |-> d]
    PROVE  Revoking(d)'
<1>1. CASE d \in removing
  BY <1>1 DEF Revoking
<1>2. CASE d \notin removing
  <2>0. cmds \in Seq(Command)
    BY DEF TypeOK
  <2>1. PICK i \in DOMAIN cmds : cmds[i] = [kind |-> "disconnect", fp |-> d]
    BY <1>2 DEF Revoking
  <2>2. Len(cmds) \in Nat /\ DOMAIN cmds = 1..Len(cmds)
    BY <2>0
  <2>3. CASE cmds' = cmds
    BY <2>1, <2>3 DEF Revoking
  <2>4. ASSUME NEW k \in Command, cmds' = Append(cmds, k)
        PROVE  Revoking(d)'
    <3>1. i \in DOMAIN cmds' /\ cmds'[i] = cmds[i]
      BY <2>0, <2>1, <2>4, AppendIndex
    <3> QED
      BY <2>1, <3>1 DEF Revoking
  <2>5. CASE cmds # <<>> /\ cmds' = Tail(cmds) /\ Head(cmds) # [kind |-> "disconnect", fp |-> d]
    <3>1. i # 1
      BY <2>0, <2>1, <2>5, TailIndex
    <3>2. /\ DOMAIN cmds = 1..Len(cmds) /\ DOMAIN cmds' = 1..(Len(cmds) - 1)
          /\ \A j \in DOMAIN cmds' : cmds'[j] = cmds[j + 1]
      BY <2>0, <2>5, TailIndex
    <3>3. i \in 1..Len(cmds)
      BY <2>1, <3>2
    <3>4. i - 1 \in 1..(Len(cmds) - 1) /\ (i - 1) + 1 = i
      BY <2>2, <3>1, <3>3
    <3>5. i - 1 \in DOMAIN cmds' /\ cmds'[i - 1] = cmds[i]
      BY <3>2, <3>4
    <3> QED
      BY <2>1, <3>5 DEF Revoking
  <2> QED
    BY <2>3, <2>4, <2>5
<1> QED
  BY <1>1, <1>2

\* Steps that change neither the list nor what is on its way to the loop keep
\* ActiveInv when the device let in stays the same.
LEMMA ActiveFrame ==
    ASSUME TypeOK, ActiveInv, active' = active, paired' = paired, removing' = removing,
           \/ cmds' = cmds
           \/ \E k \in Command : cmds' = Append(cmds, k)
           \/ cmds # <<>> /\ cmds' = Tail(cmds)
              /\ (Head(cmds).kind = "disconnect" => active.fp # Head(cmds).fp)
    PROVE  ActiveInv'
<1>1. CASE active = NoActive
  BY <1>1 DEF ActiveInv
<1>2. CASE active # NoActive /\ active.fp \in paired
  BY <1>2 DEF ActiveInv
<1>3. CASE active # NoActive /\ Revoking(active.fp)
  <2>1. PICK d : d = active.fp
    OBVIOUS
  <2>2. d \in Device
    BY <1>3, <2>1 DEF Revoking, TypeOK, Command
  <2>3. CASE cmds' = cmds \/ \E k \in Command : cmds' = Append(cmds, k)
    BY <1>3, <2>1, <2>2, <2>3, RevokingKept DEF ActiveInv
  <2>4. CASE cmds # <<>> /\ cmds' = Tail(cmds)
             /\ (Head(cmds).kind = "disconnect" => active.fp # Head(cmds).fp)
    <3>1. Head(cmds) # [kind |-> "disconnect", fp |-> d]
      BY <2>1, <2>4
    <3>2. Revoking(d)'
      BY <1>3, <2>1, <2>2, <2>4, <3>1, RevokingKept
    <3> QED
      BY <2>1, <3>2 DEF ActiveInv
  <2> QED
    BY <2>3, <2>4
<1> QED
  BY <1>1, <1>2, <1>3 DEF ActiveInv

\* Steps that leave Shared, the loop's locals and the connections alone, and after
\* which no answer is to come that was not before.
LEMMA HoldersFrame ==
    ASSUME TypeOK, TruthInv, TokensInv',
           UNCHANGED <<at, session, current, pending, applying, closing, sharedPending, active,
                       peers, epoch>>,
           \A n \in Session : (Unanswered(n) \/ Underway(n))' => Unanswered(n) \/ Underway(n)
    PROVE  TruthInv'
<1>1. PendingInv' /\ ApplyInv' /\ LiveInv' /\ AnswerMatchesPeer'
  BY DEF TruthInv, PendingInv, ApplyInv, LiveInv, AnswerMatchesPeer, Granted, Live
<1>2. UnclaimedInv' /\ PeerInv'
  <2>1. PICK n : n = session
    OBVIOUS
  <2>2. session' = n /\ (Unanswered(session)' <=> Unanswered(n)') /\ (Underway(session)' <=> Underway(n)')
    BY <2>1 DEF Unanswered, Underway, AnswerAt
  <2> QED
    BY <2>1, <2>2 DEF UnclaimedInv, PeerInv, TruthInv
<1> QED
  BY <1>1, <1>2 DEF TruthInv

-----------------------------------------------------------------------------
\* The handlers of the session loop.

\* A connection whose answer is to come or undecided.
Untouched(p) == peers[p] = [NoPeer EXCEPT !.state = "new"]

\* Nobody streams from the session that has no device let in.
LEMMA NobodyLive ==
    ASSUME LiveInv, active = NoActive
    PROVE  \A p \in Session : Live(p) => p = closing
<1> SUFFICES ASSUME NEW p \in Session, Live(p), p # closing
             PROVE  FALSE
  OBVIOUS
<1>1. active.peer = p
  BY DEF LiveInv
<1>2. active.peer = 0
  BY DEF NoActive
<1> QED
  BY <1>1, <1>2 DEF Session

\* An answer the loop can use is the first of its session: nothing is pending,
\* nobody was let in, and no other answer to that offer will follow.
LEMMA CurrentAnswer ==
    ASSUME TypeOK, LoopInv, TruthInv, inbox # <<>>, NEW a, a = Head(inbox).answer, Usable(a),
           at' # "start", UNCHANGED <<offers, session, epoch>>
    PROVE  /\ pending = NoAnswer /\ active = NoActive
           /\ \A p \in Session : ~Live(p)
           /\ a.session = session /\ session \in Session /\ current = session
           /\ a.epoch = epoch /\ a.fp # NoDevice
           /\ TokensInv' /\ ~(Unanswered(session)' \/ Underway(session)') /\ Untouched(session)
<1>1. inbox \in Seq(Message) /\ inbox' = Tail(inbox) /\ Head(inbox).type = "answer"
  BY DEF Usable, Receive, AnswerMessage, TypeOK
<1>2. 1 \in DOMAIN inbox /\ inbox[1] = Head(inbox)
  BY <1>1, TailIndex
<1>3. a.session = session /\ current = session /\ session \in Session /\ a.fp # NoDevice
  BY DEF Usable, Stale, LoopInv, Session, TypeOK
<1>4. a.epoch = epoch
  BY <1>1, <1>2 DEF TruthInv, TokensInv
<1>5. AnswerAt(1, session) /\ Underway(session)
  BY <1>1, <1>2, <1>3 DEF AnswerAt, Underway
<1>6. pending = NoAnswer /\ active = NoActive /\ Untouched(session)
  BY <1>3, <1>5 DEF TruthInv, UnclaimedInv, PeerInv, Untouched
<1>7. \A p \in Session : ~Live(p)
  <2>1. closing = 0
    BY DEF Usable, Receive, LoopInv
  <2> QED
    BY <1>6, <2>1, NobodyLive DEF TruthInv, Session
<1>8. TokensInv' /\ \A n \in Session : AnswerAt(1, n) => ~(Unanswered(n) \/ Underway(n))'
  BY <1>1, TokensReceive DEF TruthInv
<1>9. ~(Unanswered(session)' \/ Underway(session)')
  <2>1. PICK n \in Session : n = session
    BY <1>3
  <2>2. ~(Unanswered(n) \/ Underway(n))'
    BY <1>5, <1>8, <2>1
  <2> QED
    BY <2>1, <2>2 DEF Unanswered, Underway, AnswerAt
<1> QED
  BY <1>3, <1>4, <1>6, <1>7, <1>8, <1>9

LEMMA MessageKeepsTruth ==
    ASSUME TypeOK, LoopInv, TruthInv, HandleMessage
    PROVE  TruthInv'
<1> USE DEF loopVars, storeVars, pageVars, netVars
<1>1. CASE HandleViewerJoined
  <2>1. TokensInv' /\ \A n \in Session : (Unanswered(n) \/ Underway(n))' => Unanswered(n) \/ Underway(n)
    BY <1>1, TokensReceive DEF HandleViewerJoined, Receive, TruthInv
  <2>2. pending' = NoAnswer /\ sharedPending' = NoDevice /\ active' = NoActive
        /\ at' = "closeOld" /\ UNCHANGED <<peers, epoch, session>>
    BY <1>1 DEF HandleViewerJoined, PendingAfterJoin, ActiveAfterJoin
  <2>3. \A p \in Session : Live(p)' => p = closing'
    BY <1>1 DEF HandleViewerJoined, Receive, OldSession, LoopInv, Live, Session
  <2>4. UnclaimedInv' /\ PendingInv' /\ ApplyInv' /\ AnswerMatchesPeer'
    BY <2>2 DEF UnclaimedInv, PendingInv, ApplyInv, TruthInv, AnswerMatchesPeer, NoAnswer
  <2>5. PeerInv'
    <3>1. PICK n : n = session
      OBVIOUS
    <3>2. session' = n /\ (Unanswered(session)' <=> Unanswered(n)') /\ (Underway(session)' <=> Underway(n)')
      BY <2>2, <3>1 DEF Unanswered, Underway, AnswerAt
    <3> QED
      BY <2>1, <2>2, <3>1, <3>2 DEF PeerInv, TruthInv
  <2> QED
    BY <2>1, <2>3, <2>4, <2>5 DEF TruthInv, LiveInv
<1> DEFINE a == Head(inbox).answer
<1>2. CASE inbox # <<>> /\ IgnoreAnswer(a)
  <2>1. inbox' = Tail(inbox) /\ at' = "select" /\ at = "select"
    BY <1>2 DEF IgnoreAnswer, Receive
  <2>2. TokensInv' /\ \A n \in Session : (Unanswered(n) \/ Underway(n))' => Unanswered(n) \/ Underway(n)
    BY <1>2, <2>1, TokensReceive DEF IgnoreAnswer, TruthInv
  <2> QED
    BY <1>2, <2>2, HoldersFrame DEF IgnoreAnswer
<1>3. CASE inbox # <<>> /\ KnownAnswer(a)
  <2>1. Usable(a) /\ at = "select" /\ at' = "apply" /\ UNCHANGED <<offers, session, epoch>>
    BY <1>3 DEF KnownAnswer, Usable, Receive
  <2>2. /\ pending = NoAnswer /\ \A p \in Session : ~Live(p)
        /\ a.session = session /\ a.epoch = epoch /\ TokensInv'
        /\ ~(Unanswered(session)' \/ Underway(session)') /\ Untouched(session)
    BY <1>3, <2>1, CurrentAnswer
  <2>3. PendingInv' /\ AnswerMatchesPeer' /\ UnclaimedInv'
    BY <1>3, <2>1, <2>2 DEF KnownAnswer, TruthInv, PendingInv, AnswerMatchesPeer, UnclaimedInv
  <2>4. ApplyInv'
    BY <1>3, <2>2 DEF KnownAnswer, ApplyInv, Granted
  <2>5. LiveInv' /\ PeerInv'
    BY <1>3, <2>2 DEF KnownAnswer, LiveInv, Live, PeerInv, Untouched
  <2> QED
    BY <2>2, <2>3, <2>4, <2>5 DEF TruthInv
<1>4. CASE inbox # <<>> /\ TouchFails(a)
  <2>1. Usable(a) /\ at' = "stopped" /\ UNCHANGED <<offers, session, epoch>>
    BY <1>4 DEF TouchFails
  <2>2. /\ pending = NoAnswer /\ active = NoActive /\ \A p \in Session : ~Live(p)
        /\ TokensInv' /\ ~(Unanswered(session)' \/ Underway(session)')
    BY <1>4, <2>1, CurrentAnswer
  <2>3. PendingInv' /\ AnswerMatchesPeer' /\ UnclaimedInv' /\ ApplyInv'
    BY <1>4, <2>2 DEF TouchFails, TruthInv, PendingInv, AnswerMatchesPeer, UnclaimedInv, ApplyInv
  <2>4. LiveInv' /\ PeerInv'
    BY <1>4, <2>2 DEF TouchFails, LiveInv, Live, PeerInv
  <2> QED
    BY <2>2, <2>3, <2>4 DEF TruthInv
<1>5. CASE inbox # <<>> /\ NewAnswer(a)
  <2>1. Usable(a) /\ at' = "select" /\ at = "select" /\ UNCHANGED <<offers, session, epoch>>
    BY <1>5 DEF NewAnswer, Usable, Receive
  <2>2. /\ active = NoActive /\ \A p \in Session : ~Live(p)
        /\ a.session = session /\ session \in Session /\ current = session
        /\ a.epoch = epoch /\ a.fp # NoDevice /\ TokensInv'
        /\ ~(Unanswered(session)' \/ Underway(session)') /\ Untouched(session)
    BY <1>5, <2>1, CurrentAnswer
  <2>3. PendingInv' /\ AnswerMatchesPeer' /\ UnclaimedInv'
    BY <1>5, <2>1, <2>2 DEF NewAnswer, TruthInv, PendingInv, AnswerMatchesPeer, UnclaimedInv
  <2>4. ApplyInv' /\ LiveInv' /\ PeerInv'
    BY <1>5, <2>1, <2>2 DEF NewAnswer, ApplyInv, LiveInv, Live, PeerInv, Untouched
  <2> QED
    BY <2>2, <2>3, <2>4 DEF TruthInv
<1> QED
  BY <1>1, <1>2, <1>3, <1>4, <1>5 DEF HandleMessage

\* A decision under way finds its answer the current session's and undecided.
LEMMA DecidedAnswer ==
    ASSUME TypeOK, LoopInv, TruthInv, cmds # <<>>, NEW c, c = Head(cmds), Serving(c), Names(c.fp)
    PROVE  /\ pending # NoAnswer /\ active = NoActive /\ \A p \in Session : ~Live(p)
           /\ ~TooLate /\ current = session /\ pending.session = session
           /\ pending.epoch = epoch /\ session \in Session /\ ~(Unanswered(session) \/ Underway(session))
           /\ Untouched(session)
<1>1. c.fp \in Device
  BY HeadTypes DEF Command
<1>2. pending # NoAnswer
  BY <1>1 DEF Names, NoAnswer
<1>3. /\ active = NoActive /\ current = session /\ pending.session = session
      /\ pending.epoch = epoch /\ session \in Session /\ session # 0
  BY <1>2 DEF TruthInv, PendingInv, Session
<1>4. \A p \in Session : ~Live(p)
  <2>1. closing = 0
    BY DEF Serving, LoopInv
  <2> QED
    BY <1>3, <2>1, NobodyLive DEF TruthInv, Session
<1>5. Untouched(session)
  BY <1>2, <1>3 DEF TruthInv, PeerInv, Untouched
<1> QED
  BY <1>2, <1>3, <1>4, <1>5 DEF TooLate, TruthInv, UnclaimedInv

LEMMA CommandKeepsTruth ==
    ASSUME TypeOK, LoopInv, TruthInv, HandleCommand
    PROVE  TruthInv'
<1> USE DEF loopVars, storeVars, netVars
<1> DEFINE c == Head(cmds)
<1>0. cmds # <<>> /\ c \in Command
  BY HeadTypes DEF HandleCommand
<1>1. CASE CommandDropped(c) \/ DisconnectMisses(c)
  <2>1. TokensInv'
    BY <1>1, TokensFrame DEF CommandDropped, DisconnectMisses, TruthInv
  <2>2. \A n \in Session : (Unanswered(n) \/ Underway(n))' => Unanswered(n) \/ Underway(n)
    BY <1>1 DEF CommandDropped, DisconnectMisses, Unanswered, Underway, AnswerAt
  <2> QED
    BY <1>1, <2>1, <2>2, HoldersFrame DEF CommandDropped, DisconnectMisses
<1>2. CASE ApproveTooLate(c)
  BY <1>0, <1>2, DecidedAnswer DEF ApproveTooLate, Take
<1>3. CASE ApprovePairs(c)
  <2>1. /\ \A p \in Session : ~Live(p)
        /\ current = session /\ pending.session = session /\ pending.epoch = epoch
        /\ ~(Unanswered(session) \/ Underway(session)) /\ Untouched(session)
    BY <1>0, <1>3, DecidedAnswer DEF ApprovePairs, Approvable
  <2>2. TokensInv'
    BY <1>3, TokensFrame DEF ApprovePairs, TruthInv
  <2>3. UnclaimedInv'
    BY <1>3, <2>1 DEF ApprovePairs, UnclaimedInv, Unanswered, Underway, AnswerAt
  <2>4. PendingInv' /\ AnswerMatchesPeer'
    BY <1>3 DEF ApprovePairs, PendingInv, AnswerMatchesPeer, TruthInv, NoAnswer
  <2>5. ApplyInv'
    BY <1>3, <2>1 DEF ApprovePairs, ApplyInv, Granted
  <2>6. LiveInv' /\ PeerInv'
    BY <1>3, <2>1 DEF ApprovePairs, LiveInv, Live, PeerInv, Untouched
  <2> QED
    BY <2>2, <2>3, <2>4, <2>5, <2>6 DEF TruthInv
<1>4. CASE ApproveFails(c) \/ HandleReject(c)
  <2>1. /\ active = NoActive /\ \A p \in Session : ~Live(p)
        /\ ~(Unanswered(session) \/ Underway(session)) /\ Untouched(session)
    BY <1>0, <1>4, DecidedAnswer DEF ApproveFails, Approvable, HandleReject, Take
  <2>2. /\ pending' = NoAnswer /\ at' \in {"stopped", "select", "close"} /\ active' = active
        /\ UNCHANGED <<session, peers, netVars, epoch>>
        /\ at' # "stopped" => sharedPending' = NoDevice
    BY <1>4 DEF ApproveFails, HandleReject
  <2>3. TokensInv'
    BY <2>2, TokensFrame DEF TruthInv
  <2>4. UnclaimedInv' /\ PendingInv' /\ ApplyInv' /\ AnswerMatchesPeer'
    BY <2>1, <2>2 DEF UnclaimedInv, PendingInv, ApplyInv, AnswerMatchesPeer, TruthInv, NoAnswer,
         Unanswered, Underway, AnswerAt
  <2>5. LiveInv' /\ PeerInv'
    BY <2>1, <2>2 DEF LiveInv, Live, PeerInv, Untouched
  <2> QED
    BY <2>3, <2>4, <2>5 DEF TruthInv
<1>5. CASE HandleDisconnect(c)
  <2>1. /\ active # NoActive /\ pending = NoAnswer /\ active' = NoActive
        /\ at = "select" /\ at' = "close"
    BY <1>0, <1>5 DEF HandleDisconnect, DisconnectHits, NoActive, Command, TruthInv, PendingInv,
         Take, Serving
  <2>2. session \in Session => ~(Unanswered(session) \/ Underway(session))
    BY <2>1 DEF TruthInv, UnclaimedInv
  <2>3. TokensInv'
    BY <1>5, TokensFrame DEF HandleDisconnect, TruthInv
  <2>4. UnclaimedInv' /\ PendingInv' /\ ApplyInv' /\ AnswerMatchesPeer' /\ PeerInv'
    BY <1>5, <2>1, <2>2 DEF HandleDisconnect, UnclaimedInv, PendingInv, ApplyInv, AnswerMatchesPeer,
         PeerInv, TruthInv, NoAnswer, Unanswered, Underway, AnswerAt
  <2>5. \A p \in Session : Live(p) => p = active.peer
    <3>1. closing = 0
      BY <1>5 DEF HandleDisconnect, Take, Serving, LoopInv
    <3> QED
      BY <3>1 DEF TruthInv, LiveInv, Session
  <2>6. LiveInv'
    BY <1>5, <2>5 DEF HandleDisconnect, LiveInv, Live
  <2> QED
    BY <2>3, <2>4, <2>6 DEF TruthInv
<1> QED
  BY <1>1, <1>2, <1>3, <1>4, <1>5 DEF HandleCommand

\* Closing a connection forgets nothing about the answer it was given.
LEMMA ClosedAnswer ==
    ASSUME TypeOK, NEW c \in 0..MaxSession, peers' = Closed(c)
    PROVE  \A p \in Session : peers'[p].answer = peers[p].answer
BY DEF Closed, TypeOK, Session, Peer

LEMMA ResumeKeepsTruth ==
    ASSUME TypeOK, LoopInv, TruthInv, Resume
    PROVE  TruthInv'
<1> USE DEF storeVars, pageVars, netVars
<1>0. closing \in 0..MaxSession /\ session \in 0..MaxSession
  BY DEF TypeOK
<1>1. CASE CloseOld
  <2>1. TokensInv'
    <3>1. \A n \in Session : (Unanswered(n)' <=> Unanswered(n)) /\ (Underway(n)' <=> Underway(n))
      BY <1>1 DEF CloseOld, Unanswered, Underway, AnswerAt
    <3>2. \A n \in Session : n <= session => n <= session' /\ n # session'
      BY <1>0, <1>1 DEF CloseOld, Session
    <3>3. \A i, j \in DOMAIN inbox, n \in Session : (AnswerAt(i, n)' <=> AnswerAt(i, n))
      BY <1>1 DEF CloseOld, AnswerAt
    <3> QED
      BY <1>1, <3>1, <3>2, <3>3 DEF CloseOld, TokensInv, TruthInv
  <2>2. pending = NoAnswer /\ active = NoActive /\ at' = "start"
        /\ UNCHANGED <<pending, active, applying, sharedPending, epoch>>
    BY <1>1 DEF CloseOld, LoopInv, TruthInv, PendingInv
  <2>3. \A p \in Session : ~Live(p)'
    <3>1. \A p \in Session : Live(p) => p = closing
      BY <2>2, NobodyLive DEF TruthInv
    <3> QED
      BY <1>0, <1>1, <3>1, ClosedLive DEF CloseOld
  <2>4. AnswerMatchesPeer'
    BY <1>0, <1>1, ClosedAnswer DEF CloseOld, TruthInv, AnswerMatchesPeer
  <2>5. UnclaimedInv' /\ PendingInv' /\ ApplyInv'
    BY <1>1, <2>2 DEF CloseOld, UnclaimedInv, PendingInv, ApplyInv, TruthInv
  <2>6. PeerInv'
    <3>1. session' \in Session => ~(Unanswered(session)' \/ Underway(session)')
      <4>1. PICK n : n = session'
        OBVIOUS
      <4>2. n \in Session => ~(Unanswered(n) \/ Underway(n))'
        BY <2>1, <2>2, <4>1 DEF TokensInv
      <4> QED
        BY <4>1, <4>2 DEF Unanswered, Underway, AnswerAt
    <3> QED
      BY <2>2, <3>1 DEF PeerInv
  <2> QED
    BY <2>1, <2>3, <2>4, <2>5, <2>6 DEF TruthInv, LiveInv
<1>2. CASE StartSession
  <2>1. pending = NoAnswer /\ active = NoActive /\ closing = 0 /\ session \in Session
    BY <1>0, <1>2 DEF StartSession, LoopInv, TruthInv, PendingInv, Session
  <2>2. TokensInv'
    <3>1. \A n \in Session : Unanswered(n)' <=> Unanswered(n) \/ n = session
      <4>1. PICK new : new = [epoch |-> epoch, session |-> session]
        OBVIOUS
      <4>2. offers' = offers \cup {new} /\ new.session = session
        BY <1>2, <4>1 DEF StartSession
      <4> QED
        BY <4>2 DEF Unanswered
    <3>2. \A n \in Session : (Underway(n)' <=> Underway(n)) /\ (Underway(n) => n # session)
      BY <1>2 DEF StartSession, Underway, AnswerAt, TruthInv, TokensInv
    <3>3. \A i, j \in DOMAIN inbox, n \in Session : (AnswerAt(i, n)' <=> AnswerAt(i, n))
      BY <1>2 DEF StartSession, AnswerAt
    <3>4. \A o \in offers' : o.epoch = epoch'
      BY <1>2 DEF StartSession, TruthInv, TokensInv
    <3> QED
      BY <1>0, <1>2, <3>1, <3>2, <3>3, <3>4 DEF StartSession, TokensInv, TruthInv
  <2>3. \A p \in Session : ~Live(p)'
    <3>1. \A p \in Session : ~Live(p)
      BY <2>1, NobodyLive DEF TruthInv, Session
    <3> QED
      BY <1>2, <3>1 DEF StartSession, Live, NoPeer, TypeOK
  <2>4. AnswerMatchesPeer'
    BY <1>2 DEF StartSession, TruthInv, AnswerMatchesPeer, NoPeer, TypeOK
  <2>5. UnclaimedInv' /\ PendingInv' /\ ApplyInv'
    BY <1>2, <2>1 DEF StartSession, UnclaimedInv, PendingInv, ApplyInv, TruthInv
  <2>6. PeerInv'
    <3>1. peers'[session'] = [NoPeer EXCEPT !.state = "new"]
      BY <1>2, <2>1 DEF StartSession, TypeOK
    <3> QED
      BY <1>2, <2>1, <3>1 DEF StartSession, PeerInv
  <2> QED
    BY <2>2, <2>3, <2>4, <2>5, <2>6 DEF TruthInv, LiveInv
<1>3. CASE StartFails
  <2>1. pending = NoAnswer /\ active = NoActive
    BY <1>3 DEF StartFails, LoopInv, TruthInv, PendingInv
  <2>2. TokensInv'
    BY <1>3, TokensFrame DEF StartFails, TruthInv
  <2>3. UnclaimedInv' /\ PendingInv' /\ ApplyInv'
    BY <1>3, <2>1 DEF StartFails, UnclaimedInv, PendingInv, ApplyInv, TruthInv
  <2>4. LiveInv' /\ AnswerMatchesPeer'
    BY <1>3 DEF StartFails, LiveInv, Live, AnswerMatchesPeer, TruthInv
  <2>5. PeerInv'
    BY <1>3, <2>1 DEF StartFails, PeerInv, TruthInv, Unanswered, Underway, AnswerAt
  <2> QED
    BY <2>2, <2>3, <2>4, <2>5 DEF TruthInv
<1>4. CASE ApplyAnswer
  <2>1. /\ current = session /\ current \in Session /\ closing = 0
        /\ applying.session = current /\ applying.epoch = epoch /\ active = Granted(applying.fp)
        /\ Untouched(current)
    BY <1>0, <1>4 DEF ApplyAnswer, LoopInv, TruthInv, ApplyInv, Session, PeerInv, Untouched
  <2>2. \A p \in Session \ {current} : peers'[p] = peers[p]
    BY <1>4 DEF ApplyAnswer, TypeOK
  <2>3. peers'[current].answer = applying
    <3>1. peers[current].state = "new"
      BY <2>1 DEF Untouched, NoPeer
    <3> QED
      BY <1>4, <2>1, <3>1 DEF ApplyAnswer, TypeOK
  <2>4. AnswerMatchesPeer'
    BY <1>4, <2>1, <2>2, <2>3 DEF ApplyAnswer, TruthInv, AnswerMatchesPeer
  <2>5. LiveInv'
    BY <1>4, <2>1, <2>2, <2>3 DEF ApplyAnswer, TruthInv, LiveInv, Live, Granted
  <2>6. TokensInv'
    BY <1>4, TokensFrame DEF ApplyAnswer, TruthInv
  <2>7. active # NoActive /\ active.fp = applying.fp
    BY <2>1 DEF Granted, NoActive, Session
  <2>8. pending = NoAnswer /\ ~(Unanswered(session) \/ Underway(session))
    BY <2>1, <2>7 DEF TruthInv, PendingInv, UnclaimedInv
  <2>9. UnclaimedInv' /\ PendingInv' /\ ApplyInv'
    BY <1>4, <2>8 DEF ApplyAnswer, UnclaimedInv, PendingInv, ApplyInv, TruthInv, Unanswered, Underway,
         AnswerAt
  <2>10. PeerInv'
    BY <1>4, <2>1, <2>3, <2>7, <2>8 DEF ApplyAnswer, PeerInv, Unanswered, Underway, AnswerAt
  <2> QED
    BY <2>4, <2>5, <2>6, <2>9, <2>10 DEF TruthInv
<1>5. CASE FinishClose
  <2>1. \A p \in Session : ~Live(p)'
    <3>1. \A p \in Session : Live(p) => p = closing
      BY <1>5 DEF FinishClose, LoopInv, Session
    <3> QED
      BY <1>0, <1>5, <3>1, ClosedLive DEF FinishClose
  <2>2. \A p \in Session : peers'[p].answer = peers[p].answer
    BY <1>0, <1>5, ClosedAnswer DEF FinishClose
  <2>3. AnswerMatchesPeer'
    BY <1>5, <2>2 DEF FinishClose, TruthInv, AnswerMatchesPeer
  <2>4. TokensInv'
    BY <1>5, TokensFrame DEF FinishClose, TruthInv
  <2>5. pending = NoAnswer /\ (session \in Session => ~(Unanswered(session) \/ Underway(session)))
    BY <1>5 DEF FinishClose, TruthInv, PendingInv, UnclaimedInv
  <2>6. UnclaimedInv' /\ PendingInv' /\ ApplyInv'
    BY <1>5, <2>5 DEF FinishClose, UnclaimedInv, PendingInv, ApplyInv, TruthInv, Unanswered, Underway,
         AnswerAt
  <2>7. PeerInv'
    <3>1. active # NoActive => session \in Session
      BY <1>0 DEF LoopInv, Session
    <3> QED
      BY <1>5, <2>2, <2>5, <3>1 DEF FinishClose, PeerInv, TruthInv, Unanswered, Underway, AnswerAt
  <2> QED
    BY <2>1, <2>3, <2>4, <2>6, <2>7 DEF TruthInv, LiveInv
<1> QED
  BY <1>1, <1>2, <1>3, <1>4, <1>5 DEF Resume

-----------------------------------------------------------------------------
\* The page's handlers and the world.

LEMMA PageKeepsTruth ==
    ASSUME TypeOK, TruthInv, Page
    PROVE  TruthInv'
<1> USE DEF loopVars, netVars
<1>1. UNCHANGED loopAside
  BY DEF Page, Poll, ClickApprove, ClickReject, Remove, RemoveFails, SendDisconnect, Rename
<1>2. TokensInv'
  BY <1>1, TokensFrame DEF loopAside, TruthInv
<1>3. \A n \in Session : (Unanswered(n) \/ Underway(n))' => Unanswered(n) \/ Underway(n)
  BY <1>1 DEF loopAside, Unanswered, Underway, AnswerAt
<1> QED
  BY <1>1, <1>2, <1>3, HoldersFrame DEF loopAside

LEMMA WorldKeepsTruth ==
    ASSUME TypeOK, LoopInv, TruthInv, World, ~Restart
    PROVE  TruthInv'
<1> USE DEF loopVars, storeVars, netVars, pageVars
<1>1. ASSUME NEW p \in Session, Connect(p) \/ PeerFails(p)
      PROVE  TruthInv'
  <2>1. /\ \A q \in Session : (Live(q)' => Live(q)) /\ peers'[q].answer = peers[q].answer
        /\ UNCHANGED <<loopVars, storeVars, sharedPending, active, pageVars, netVars, epoch>>
    BY <1>1 DEF Connect, PeerFails, Live, TypeOK, Peer
  <2>2. LiveInv' /\ AnswerMatchesPeer'
    BY <2>1 DEF LiveInv, AnswerMatchesPeer, TruthInv
  <2>3. TokensInv'
    BY <2>1, TokensFrame DEF TruthInv
  <2>4. UnclaimedInv' /\ PendingInv' /\ ApplyInv'
    BY <2>1 DEF UnclaimedInv, PendingInv, ApplyInv, TruthInv, Unanswered, Underway, AnswerAt, Granted
  <2>5. \A q \in Session : Untouched(q) => peers'[q] = peers[q]
    <3>1. ~Untouched(p)
      BY <1>1 DEF Connect, PeerFails, Live, Untouched, NoPeer
    <3> QED
      BY <1>1, <3>1 DEF Connect, PeerFails, TypeOK
  <2>6. PeerInv'
    <3>1. active # NoActive => session \in Session
      BY DEF LoopInv, Session, TypeOK
    <3> QED
      BY <2>1, <2>5, <3>1 DEF PeerInv, TruthInv, Unanswered, Underway, AnswerAt, Untouched
  <2> QED
    BY <2>2, <2>3, <2>4, <2>6 DEF TruthInv
<1>2. CASE ViewerJoins
  <2>1. TokensInv' /\ \A n \in Session : (Unanswered(n) \/ Underway(n))' => Unanswered(n) \/ Underway(n)
    <3>1. ViewerJoined \in Message /\ ViewerJoined.type # "answer"
      BY NullTypes DEF ViewerJoined
    <3> QED
      BY <1>2, <3>1, TokensArrive DEF ViewerJoins, Arrives, TruthInv
  <2> QED
    BY <1>2, <2>1, HoldersFrame DEF ViewerJoins
<1>3. ASSUME NEW o \in offers, NEW fp \in MaybeDevice, ViewerAnswers(o, fp)
      PROVE  TruthInv'
  <2>1. TokensInv' /\ \A n \in Session : (Unanswered(n) \/ Underway(n))' => Unanswered(n) \/ Underway(n)
    <3> DEFINE ans == [fp |-> fp, epoch |-> o.epoch, session |-> o.session]
    <3>1. ans \in Answer
      BY DEF Answer, TypeOK, Offer, Epoch, Session
    <3>2. AnswerMessage(ans) \in Message
      BY <3>1, AnswerMessageType
    <3>3. AnswerMessage(ans).answer.session = o.session /\ AnswerMessage(ans).answer.epoch = o.epoch
      BY DEF AnswerMessage
    <3>4. inbox' = Append(inbox, AnswerMessage(ans)) /\ offers' = offers \ {o}
          /\ UNCHANGED <<at, session, epoch>>
      BY <1>3 DEF ViewerAnswers, Arrives
    <3> HIDE DEF ans
    <3> QED
      BY <3>2, <3>3, <3>4, TokensArrive DEF TruthInv
  <2> QED
    BY <1>3, <2>1, HoldersFrame DEF ViewerAnswers
<1>4. CASE SignalingLost
  <2>1. TokensInv'
    BY <1>4, TokensFrame DEF SignalingLost, TruthInv
  <2>2. UnclaimedInv' /\ PendingInv' /\ ApplyInv'
    BY <1>4 DEF SignalingLost, UnclaimedInv, PendingInv, ApplyInv, TruthInv, Unanswered, Underway,
         AnswerAt
  <2>3. LiveInv' /\ AnswerMatchesPeer' /\ PeerInv'
    BY <1>4 DEF SignalingLost, LiveInv, Live, AnswerMatchesPeer, PeerInv, TruthInv, Unanswered,
         Underway, AnswerAt
  <2> QED
    BY <2>1, <2>2, <2>3 DEF TruthInv
<1> QED
  BY <1>1, <1>2, <1>3, <1>4 DEF World

\* The steps of one run of the host, and none, keep who is who.
LEMMA TruthStep == TypeOK /\ LoopInv /\ TruthInv /\ [Next]_vars /\ ~Restart => TruthInv'
<1> SUFFICES ASSUME TypeOK, LoopInv, TruthInv, [Next]_vars, ~Restart
             PROVE  TruthInv'
  OBVIOUS
<1>1. CASE UNCHANGED vars
  <2>1. TokensInv'
    BY <1>1, TokensFrame DEF vars, loopVars, netVars, TruthInv
  <2>2. \A n \in Session : (Unanswered(n) \/ Underway(n))' => Unanswered(n) \/ Underway(n)
    BY <1>1 DEF vars, netVars, Unanswered, Underway, AnswerAt
  <2> QED
    BY <1>1, <2>1, <2>2, HoldersFrame DEF vars, loopVars
<1> QED
  BY <1>1, MessageKeepsTruth, CommandKeepsTruth, ResumeKeepsTruth, PageKeepsTruth,
     WorldKeepsTruth DEF Next

-----------------------------------------------------------------------------
\* Who may stay, until something fails.

LEMMA PageKeepsActive ==
    ASSUME TypeOK, ActiveInv, Undisturbed, Undisturbed', Page
    PROVE  ActiveInv'
<1> USE DEF loopVars, storeVars, netVars, pageVars
<1>1. UNCHANGED loopAside
  BY DEF Page, Poll, ClickApprove, ClickReject, Remove, RemoveFails, SendDisconnect, Rename
<1>2. at # "stopped" /\ faults = 0 /\ faults' = 0 /\ active' = active
  BY <1>1 DEF Undisturbed, loopAside
<1>3. CASE Poll
  BY <1>2, <1>3, ActiveFrame DEF Poll
<1>4. CASE ClickApprove \/ ClickReject
  <2>1. shown \in Device
    BY <1>4 DEF ClickApprove, ClickReject, TypeOK, MaybeDevice
  <2>2. \E k \in Command : cmds' = Append(cmds, k)
    BY <1>2, <1>4, <2>1 DEF ClickApprove, ClickReject, Send, Command
  <2> QED
    BY <1>2, <1>4, <2>2, ActiveFrame DEF ClickApprove, ClickReject
<1>5. ASSUME NEW d \in Device, Remove(d)
      PROVE  ActiveInv'
  BY <1>2, <1>5 DEF Remove, SaveOk, ActiveInv, Revoking
<1>6. ASSUME NEW d \in Device, RemoveFails(d)
      PROVE  ActiveInv'
  BY <1>2, <1>6 DEF RemoveFails, SaveFails
<1>7. ASSUME NEW d \in Device, SendDisconnect(d)
      PROVE  ActiveInv'
  <2> DEFINE k == [kind |-> "disconnect", fp |-> d]
  <2>1. k \in Command /\ cmds \in Seq(Command) /\ cmds' = Append(cmds, k) /\ UNCHANGED paired
    BY <1>2, <1>7 DEF SendDisconnect, Send, Command, TypeOK
  <2>2. /\ \A j \in DOMAIN cmds : cmds'[j] = cmds[j] /\ j \in DOMAIN cmds'
        /\ Len(cmds) + 1 \in DOMAIN cmds' /\ cmds'[Len(cmds) + 1] = k
    BY <2>1, AppendIndex
  <2>3. Revoking(d)'
    BY <2>2 DEF Revoking
  <2>4. \A e \in Device \ {d} : Revoking(e) => Revoking(e)'
    BY <1>7, <2>2 DEF Revoking, SendDisconnect
  <2>5. active # NoActive => active.fp \in paired \/ active.fp \in Device
    BY DEF ActiveInv, Revoking, TypeOK, Command
  <2> QED
    BY <1>2, <2>1, <2>3, <2>4, <2>5 DEF ActiveInv
<1>8. ASSUME NEW d \in Device, Rename(d)
      PROVE  ActiveInv'
  BY <1>2, <1>8, ActiveFrame DEF Rename, SaveOk, SaveFails
<1> QED
  BY <1>3, <1>4, <1>5, <1>6, <1>7, <1>8 DEF Page

LEMMA ActiveStep ==
    ASSUME TypeOK, LoopInv, TruthInv, ActiveInv, Undisturbed, Undisturbed', [Next]_vars
    PROVE  ActiveInv'
<1> USE DEF loopVars, storeVars, pageVars, netVars
<1>1. CASE HandleMessage
  <2> DEFINE a == Head(inbox).answer
  <2>1. CASE HandleViewerJoined
    BY <2>1 DEF HandleViewerJoined, ActiveAfterJoin, ActiveInv
  <2>2. CASE inbox # <<>> /\ (IgnoreAnswer(a) \/ NewAnswer(a))
    BY <2>2, ActiveFrame DEF IgnoreAnswer, NewAnswer
  <2>3. CASE inbox # <<>> /\ KnownAnswer(a)
    BY <2>3 DEF KnownAnswer, ActiveInv, Granted, Known, SaveOk
  <2>4. CASE inbox # <<>> /\ TouchFails(a)
    BY <2>4 DEF TouchFails, Undisturbed
  <2> QED
    BY <1>1, <2>1, <2>2, <2>3, <2>4 DEF HandleMessage
<1>2. CASE HandleCommand
  <2> DEFINE c == Head(cmds)
  <2>0. cmds # <<>> /\ c \in Command
    BY <1>2, HeadTypes DEF HandleCommand
  <2>1. CASE CommandDropped(c) \/ DisconnectMisses(c)
    BY <2>0, <2>1, ActiveFrame DEF CommandDropped, DisconnectMisses, DisconnectHits, Take
  <2>2. CASE ApproveTooLate(c)
    BY <2>0, <2>2, DecidedAnswer DEF ApproveTooLate, Take
  <2>3. CASE ApprovePairs(c)
    BY <2>3 DEF ApprovePairs, ActiveInv, Granted, AddOk, SaveOk
  <2>4. CASE ApproveFails(c)
    BY <2>4 DEF ApproveFails, Undisturbed
  <2>5. CASE HandleReject(c)
    <3>1. active = NoActive
      BY <2>0, <2>5, DecidedAnswer DEF HandleReject, Take
    <3> QED
      BY <2>5, <3>1 DEF HandleReject, ActiveInv
  <2>6. CASE HandleDisconnect(c)
    BY <2>6 DEF HandleDisconnect, ActiveInv
  <2> QED
    BY <1>2, <2>1, <2>2, <2>3, <2>4, <2>5, <2>6 DEF HandleCommand
<1>3. CASE Resume
  BY <1>3, ActiveFrame DEF Resume, CloseOld, StartSession, StartFails, ApplyAnswer, FinishClose
<1>4. CASE Page
  BY <1>4, PageKeepsActive
<1>5. CASE World
  <2>1. ~Restart /\ ~SignalingLost
    BY DEF Restart, SignalingLost, Undisturbed
  <2> QED
    BY <1>5, <2>1, ActiveFrame DEF World, Connect, PeerFails, ViewerJoins, ViewerAnswers
<1>6. CASE UNCHANGED vars
  BY <1>6, ActiveFrame DEF vars
<1> QED
  BY <1>1, <1>2, <1>3, <1>4, <1>5, <1>6 DEF Next

-----------------------------------------------------------------------------
LEMMA AccessInductive == TypeOK /\ LoopInv /\ AccessKept /\ [Next]_vars => AccessKept'
<1> SUFFICES ASSUME TypeOK, LoopInv, AccessKept, [Next]_vars
             PROVE  AccessKept'
  OBVIOUS
<1>1. ASSUME epoch' = 1 PROVE TruthInv'
  BY <1>1, SameRun, TruthStep DEF AccessKept
<1>2. ASSUME Undisturbed' PROVE ActiveInv'
  <2>1. Undisturbed /\ TruthInv /\ ActiveInv
    BY <1>2, UndisturbedBefore DEF AccessKept, Undisturbed
  <2> QED
    BY <1>2, <2>1, ActiveStep
<1> QED
  BY <1>1, <1>2 DEF AccessKept

\* Until the host restarts, whatever saves fail and also when signaling is lost, every
\* answer, decision and connection belongs to the session and the device it should;
\* until anything fails, who is let in is in the list or about to be disconnected.
THEOREM AccessKeptHolds == Spec => []AccessKept
<1>1. Init => AccessKept
  BY DEF Init, AccessKept, TruthInv, TokensInv, UnclaimedInv, PendingInv, ApplyInv, ActiveInv,
     LiveInv, PeerInv, AnswerMatchesPeer, Unanswered, Underway, NoAnswer, NoPeer, Live, Session
<1> QED
  BY <1>1, LoopInvariance, AccessInductive, PTL DEF Spec

\* A host nothing fails in is never disturbed.
LEMMA NeverDisturbed ==
    ASSUME NoFaults
    PROVE  Spec => []Undisturbed
<1>1. Init => Undisturbed
  BY DEF Init, Undisturbed
<1>2. TypeOK /\ Undisturbed /\ [Next]_vars => Undisturbed'
  <2> SUFFICES ASSUME TypeOK, Undisturbed, [Next]_vars
               PROVE  Undisturbed'
    OBVIOUS
  <2> USE DEF NoFaults, Undisturbed, loopVars, storeVars, pageVars, netVars, loopAside
  <2>1. CASE HandleMessage
    BY <2>1 DEF HandleMessage, HandleViewerJoined, IgnoreAnswer, KnownAnswer, TouchFails,
         NewAnswer, SaveOk, SaveFails
  <2>2. CASE HandleCommand
    BY <2>2 DEF HandleCommand, CommandDropped, ApproveTooLate, ApprovePairs, ApproveFails,
         HandleReject, HandleDisconnect, DisconnectMisses, AddOk, SaveOk, SaveFails
  <2>3. CASE Resume
    BY <2>3 DEF Resume, CloseOld, StartSession, StartFails, ApplyAnswer, FinishClose
  <2>4. CASE Page
    <3>1. UNCHANGED loopAside
      BY <2>4 DEF Page, Poll, ClickApprove, ClickReject, Remove, RemoveFails, SendDisconnect, Rename
    <3>2. \A d \in Device : ~RemoveFails(d) /\ (Rename(d) => SaveOk(paired))
      BY DEF RemoveFails, Rename, SaveFails
    <3>3. UNCHANGED faults
      BY <2>4, <3>2 DEF Page, Poll, ClickApprove, ClickReject, Remove, SendDisconnect, SaveOk
    <3> QED
      BY <3>1, <3>3
  <2>5. CASE World
    <3>1. ~SignalingLost /\ ~Restart
      BY DEF SignalingLost, Restart
    <3> QED
      BY <2>5, <3>1 DEF World, Connect, PeerFails, ViewerJoins, ViewerAnswers
  <2>6. CASE UNCHANGED vars
    BY <2>6 DEF vars
  <2> QED
    BY <2>1, <2>2, <2>3, <2>4, <2>5, <2>6 DEF Next
<1> QED
  BY <1>1, <1>2, TypeCorrect, PTL DEF Spec

\* Until something fails, a device streams only while it is in the list or its
\* disconnection is on its way.
THEOREM LiveIsPairedHolds == Spec => [](Undisturbed => LiveIsPaired)
<1>1. AccessKept => (Undisturbed => LiveIsPaired)
  <2> SUFFICES ASSUME TruthInv, ActiveInv, NEW p \in Session, Live(p), p # closing
               PROVE  peers[p].answer.fp \in paired \/ Revoking(peers[p].answer.fp)
    BY DEF AccessKept, LiveIsPaired, Undisturbed
  <2>1. active.fp = peers[p].answer.fp /\ active.peer = p
    BY DEF TruthInv, LiveInv
  <2>2. active # NoActive
    BY <2>1 DEF NoActive, Session
  <2> QED
    BY <2>1, <2>2 DEF ActiveInv
<1> QED
  BY <1>1, AccessKeptHolds, PTL

\* Until a restart, a connection is given only its own viewer's answer.
THEOREM AnswerMatchesPeerHolds == Spec => [](epoch = 1 => AnswerMatchesPeer)
<1>1. AccessKept => (epoch = 1 => AnswerMatchesPeer)
  BY DEF AccessKept, TruthInv
<1> QED
  BY <1>1, AccessKeptHolds, PTL

\* Until a restart, the page's badge names the device that streams.
THEOREM BadgeIsTruthfulHolds == Spec => [](epoch = 1 => BadgeIsTruthful)
<1>1. AccessKept => (epoch = 1 => BadgeIsTruthful)
  <2> SUFFICES ASSUME TruthInv, NEW p \in Session, peers[p].state = "connected", p # closing
               PROVE  Badge = peers[p].answer.fp
    BY DEF AccessKept, BadgeIsTruthful
  <2>1. active.fp = peers[p].answer.fp /\ active.peer = p
    BY DEF TruthInv, LiveInv, Live
  <2>2. active # NoActive
    BY <2>1 DEF NoActive, Session
  <2> QED
    BY <2>1, <2>2 DEF Badge
<1> QED
  BY <1>1, AccessKeptHolds, PTL

\* Until a restart, the page asks about the device whose answer the loop holds, and
\* that answer is for the session still open, as long as there is a loop.
THEOREM PendingIsCurrentHolds == Spec => [](epoch = 1 => PendingIsCurrent)
<1>1. AccessKept => (epoch = 1 => PendingIsCurrent)
  BY DEF AccessKept, TruthInv, PendingInv, PendingIsCurrent
<1> QED
  BY <1>1, AccessKeptHolds, PTL

\* A save that fails and signaling that is lost confuse nobody about who is who:
\* answers, the page's question and its badge stay true until a restart.
THEOREM TruthfulUntilRestartHolds == Spec => []TruthfulUntilRestart
<1>1. (epoch = 1 => AnswerMatchesPeer) /\ (epoch = 1 => BadgeIsTruthful)
      /\ (epoch = 1 => PendingIsCurrent) => TruthfulUntilRestart
  BY DEF TruthfulUntilRestart
<1> QED
  BY <1>1, AnswerMatchesPeerHolds, BadgeIsTruthfulHolds, PendingIsCurrentHolds, PTL

\* What a rejection or a removal closes is the connection of the device it names,
\* or one that has no answer yet, while that device's answer waits for a decision.
LEMMA CloseStep ==
    ASSUME TypeOK, LoopInv, TruthInv, [Next]_vars, at = "select", at' = "close"
    PROVE  Head(cmds).fp = IF peers[closing'].answer # NoAnswer
                           THEN peers[closing'].answer.fp ELSE pending.fp
<1> DEFINE c == Head(cmds)
<1>1. cmds # <<>> /\ (HandleReject(c) \/ HandleDisconnect(c))
  <2> USE DEF loopVars, storeVars, pageVars, netVars, loopAside
  <2>1. ~HandleMessage
    BY DEF HandleMessage, HandleViewerJoined, IgnoreAnswer, KnownAnswer, TouchFails, NewAnswer
  <2>2. ~Resume
    BY DEF Resume, CloseOld, StartSession, StartFails, ApplyAnswer, FinishClose
  <2>3. ~Page
    BY DEF Page, Poll, ClickApprove, ClickReject, Remove, RemoveFails, SendDisconnect, Rename
  <2>4. ~World
    BY DEF World, Connect, PeerFails, ViewerJoins, ViewerAnswers, SignalingLost, Restart
  <2>5. ~UNCHANGED vars
    BY DEF vars
  <2>6. HandleCommand
    BY <2>1, <2>2, <2>3, <2>4, <2>5 DEF Next
  <2> QED
    BY <2>6 DEF HandleCommand, CommandDropped, ApproveTooLate, ApprovePairs, ApproveFails,
       DisconnectMisses
<1>2. CASE HandleReject(c)
  <2>1. current = session /\ session \in Session /\ Untouched(session)
    BY <1>1, <1>2, DecidedAnswer DEF HandleReject, Take
  <2>2. closing' = session /\ pending.fp = c.fp
    BY <1>2, <2>1 DEF HandleReject, Names
  <2>3. peers[session].answer = NoAnswer
    BY <2>1 DEF Untouched, NoPeer
  <2> QED
    BY <2>2, <2>3
<1>3. CASE HandleDisconnect(c)
  <2>1. c.fp \in Device /\ active.fp = c.fp
    BY <1>1, <1>3, HeadTypes DEF HandleDisconnect, DisconnectHits, Command
  <2>2. active # NoActive
    BY <2>1 DEF NoActive
  <2>3. closing' = session /\ peers[session].answer.fp = c.fp
    BY <1>3, <2>1, <2>2 DEF HandleDisconnect, LoopInv, TruthInv, PeerInv
  <2>4. peers[session].answer # NoAnswer
    BY <2>1, <2>3 DEF NoAnswer
  <2> QED
    BY <2>3, <2>4
<1> QED
  BY <1>1, <1>2, <1>3

\* However late a click or a removal is carried out, the connection it ends is the one
\* it was meant for, through failed saves and lost signaling (webrtc_host.rs:126-147).
THEOREM CloseHitsItsDeviceHolds == Spec => CloseHitsItsDevice
<1> DEFINE Hits == epoch = 1 /\ at = "select" /\ at' = "close" =>
                     Head(cmds).fp = IF peers[closing'].answer # NoAnswer
                                     THEN peers[closing'].answer.fp ELSE pending.fp
<1>1. TypeOK /\ LoopInv /\ AccessKept /\ [Next]_vars => [Hits]_vars
  BY CloseStep DEF AccessKept
<1>2. Spec => [](TypeOK /\ LoopInv) /\ []AccessKept
  BY LoopInvariance, AccessKeptHolds
<1>3. Spec => [][Hits]_vars
  BY <1>1, <1>2, PTL DEF Spec
<1> QED
  BY <1>3 DEF CloseHitsItsDevice

-----------------------------------------------------------------------------
\* The abstract specification.

\* Every step of an undisturbed host is one of AccessGate, or none.
LEMMA StepIsGateStep ==
    TypeOK /\ LoopInv /\ AccessKept /\ Undisturbed /\ Undisturbed' /\ [Next]_vars
        => [Gate!Next]_(Gate!vars)
<1> DEFINE GateStep == Gate!Next \/ UNCHANGED <<paired, active>>
<1> SUFFICES ASSUME TypeOK, LoopInv, TruthInv, ActiveInv, Undisturbed, Undisturbed', [Next]_vars
             PROVE  GateStep
  BY DEF Gate!vars, AccessKept, Undisturbed
<1> USE DEF loopVars, storeVars, pageVars, netVars, loopAside
<1>1. CASE HandleMessage
  <2>1. CASE HandleViewerJoined
    <3>1. paired' = paired /\ active' = NoActive
      BY <2>1 DEF HandleViewerJoined, ActiveAfterJoin
    <3>2. CASE active.fp = NoDevice
      <4>1. active = NoActive
        BY <3>2 DEF ActiveInv, Revoking, TypeOK, Command
      <4> QED
        BY <3>1, <4>1
    <3>3. CASE active.fp # NoDevice
      BY <3>1, <3>3 DEF Gate!Next, Gate!Leave, NoActive
    <3> QED
      BY <3>2, <3>3
  <2> DEFINE a == Head(inbox).answer
  <2>2. CASE inbox # <<>> /\ IgnoreAnswer(a)
    BY <2>2 DEF IgnoreAnswer
  <2>3. CASE inbox # <<>> /\ KnownAnswer(a)
    <3>1. Usable(a) /\ at' = "apply" /\ UNCHANGED <<offers, session, epoch>>
      BY <2>3 DEF KnownAnswer
    <3>2. active = NoActive
      BY <2>3, <3>1, CurrentAnswer
    <3>3. a.fp \in paired /\ paired' = paired /\ active'.fp = a.fp
      BY <2>3 DEF KnownAnswer, Known, SaveOk, Granted
    <3>4. a.fp \in Device
      BY <3>3 DEF TypeOK
    <3>5. Gate!Enter(a.fp)
      BY <3>2, <3>3 DEF Gate!Enter, NoActive
    <3> QED
      BY <3>4, <3>5 DEF Gate!Next
  <2>4. CASE inbox # <<>> /\ TouchFails(a)
    BY <2>4 DEF TouchFails, Undisturbed
  <2>5. CASE inbox # <<>> /\ NewAnswer(a)
    BY <2>5 DEF NewAnswer
  <2> QED
    BY <1>1, <2>1, <2>2, <2>3, <2>4, <2>5 DEF HandleMessage
<1>2. CASE HandleCommand
  <2> DEFINE c == Head(cmds)
  <2>0. cmds # <<>> /\ c \in Command
    BY <1>2, HeadTypes DEF HandleCommand
  <2>1. CASE CommandDropped(c) \/ ApproveTooLate(c) \/ HandleReject(c) \/ DisconnectMisses(c)
    BY <2>1 DEF CommandDropped, ApproveTooLate, HandleReject, DisconnectMisses
  <2>2. CASE ApprovePairs(c)
    <3>1. active = NoActive
      BY <2>0, <2>2, DecidedAnswer DEF ApprovePairs, Approvable
    <3>2. pending.fp \in Device /\ active'.fp = pending.fp
      BY <2>0, <2>2 DEF ApprovePairs, Approvable, Names, Command, Granted
    <3>3. CASE pending.fp \in paired
      BY <2>2, <3>1, <3>2, <3>3 DEF ApprovePairs, AddOk, Gate!Next, Gate!Enter, NoActive
    <3>4. CASE pending.fp \notin paired
      BY <2>2, <3>1, <3>2, <3>4 DEF ApprovePairs, AddOk, SaveOk, Gate!Next, Gate!Approve, NoActive
    <3> QED
      BY <3>3, <3>4
  <2>3. CASE ApproveFails(c)
    BY <2>3 DEF ApproveFails, Undisturbed
  <2>4. CASE HandleDisconnect(c)
    <3>1. active.fp # NoDevice /\ active'.fp = NoDevice /\ paired' = paired
      BY <2>0, <2>4 DEF HandleDisconnect, DisconnectHits, Command, NoActive
    <3> QED
      BY <3>1 DEF Gate!Next, Gate!Leave
  <2> QED
    BY <1>2, <2>1, <2>2, <2>3, <2>4 DEF HandleCommand
<1>3. CASE Resume
  BY <1>3 DEF Resume, CloseOld, StartSession, StartFails, ApplyAnswer, FinishClose
<1>4. CASE Page
  <2>1. ASSUME NEW d \in Device, Remove(d)
        PROVE  GateStep
    BY <2>1 DEF Remove, SaveOk, Gate!Next, Gate!Remove
  <2>2. ASSUME NEW d \in Device, RemoveFails(d)
        PROVE  GateStep
    BY <2>2 DEF RemoveFails, SaveFails, Undisturbed
  <2>3. ASSUME NEW d \in Device, SendDisconnect(d) \/ Rename(d)
        PROVE  GateStep
    BY <2>3 DEF SendDisconnect, Rename, SaveOk, SaveFails
  <2>4. CASE Poll \/ ClickApprove \/ ClickReject
    BY <2>4 DEF Poll, ClickApprove, ClickReject
  <2> QED
    BY <1>4, <2>1, <2>2, <2>3, <2>4 DEF Page
<1>5. CASE World
  <2>1. ~Restart
    BY DEF Restart, Undisturbed
  <2> QED
    BY <1>5, <2>1 DEF World, Connect, PeerFails, ViewerJoins, ViewerAnswers, SignalingLost
<1>6. CASE UNCHANGED vars
  BY <1>6 DEF vars
<1> QED
  BY <1>1, <1>2, <1>3, <1>4, <1>5, <1>6 DEF Next

\* Until something fails the loop, the page and the list implement AccessGate:
\* one device at a time, in only when listed, the next only after the last.
THEOREM GateSafetyHolds ==
    ASSUME NoFaults
    PROVE  Spec => GateSafety
<1>1. Init => Gate!Init
  BY DEF Init, Gate!Init, NoActive
<1>2. Spec => [](TypeOK /\ LoopInv) /\ []AccessKept /\ []Undisturbed
  BY LoopInvariance, AccessKeptHolds, NeverDisturbed
<1>3. TypeOK /\ LoopInv /\ AccessKept /\ Undisturbed /\ Undisturbed' /\ [Next]_vars
        => [Gate!Next]_(Gate!vars)
  BY StepIsGateStep
<1> QED
  BY <1>1, <1>2, <1>3, PTL DEF Spec, GateSafety, Gate!Spec
=============================================================================
