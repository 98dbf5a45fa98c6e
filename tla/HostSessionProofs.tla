------------------------- MODULE HostSessionProofs -------------------------
(* Theorems about HostSession, for every value of its constants. *)
EXTENDS HostSession, TLAPS

USE NoDeviceAssumption, BoundsAssumption

-----------------------------------------------------------------------------
\* The null records are members of the sets they stand in.
LEMMA NullTypes ==
    /\ NoAnswer \in Answer
    /\ NoActive \in Active
    /\ NoPeer \in Peer
    /\ ViewerJoined \in Message
    /\ 1 \in Epoch
BY DEF NoAnswer, Answer, NoActive, Active, NoPeer, Peer, PeerState, ViewerJoined,
       Message, MaybeDevice, Epoch

\* Every answer in the inbox is one, and every command in the channel.
LEMMA HeadTypes ==
    ASSUME TypeOK
    PROVE  /\ inbox # <<>> => Head(inbox).answer \in Answer /\ Tail(inbox) \in Seq(Message)
           /\ cmds # <<>> => Head(cmds) \in Command /\ Tail(cmds) \in Seq(Command)
<1>1. inbox \in Seq(Message) /\ cmds \in Seq(Command)
  BY DEF TypeOK
<1>2. inbox # <<>> => Head(inbox) \in Message /\ Tail(inbox) \in Seq(Message)
  BY <1>1
<1>3. cmds # <<>> => Head(cmds) \in Command /\ Tail(cmds) \in Seq(Command)
  BY <1>1
<1>4. \A m \in Message : m.answer \in Answer
  BY DEF Message
<1> QED
  BY <1>2, <1>3, <1>4

LEMMA AnswerMessageType ==
    ASSUME NEW a \in Answer
    PROVE  AnswerMessage(a) \in Message
BY DEF AnswerMessage, Message

\* Changing one peer connection's state leaves a table of peer connections.
LEMMA PeerUpdate ==
    ASSUME TypeOK, NEW p, NEW st \in PeerState
    PROVE  [peers EXCEPT ![p].state = st] \in [Session -> Peer]
BY DEF TypeOK, Peer

LEMMA ClosedType ==
    ASSUME TypeOK, NEW p
    PROVE  Closed(p) \in [Session -> Peer]
<1>1. "closed" \in PeerState
  BY DEF PeerState
<1> QED
  BY <1>1, PeerUpdate DEF Closed, TypeOK

-----------------------------------------------------------------------------
\* Where the elements of a queue are after its head is taken, or one is added.
LEMMA TailIndex ==
    ASSUME NEW S, NEW s \in Seq(S), s # <<>>
    PROVE  /\ Len(s) \in Nat \ {0} /\ DOMAIN s = 1..Len(s) /\ Head(s) = s[1]
           /\ DOMAIN Tail(s) = 1..(Len(s) - 1)
           /\ \A j \in DOMAIN Tail(s) : Tail(s)[j] = s[j + 1] /\ j + 1 \in DOMAIN s
OBVIOUS

LEMMA AppendIndex ==
    ASSUME NEW S, NEW s \in Seq(S), NEW e \in S
    PROVE  /\ Len(s) \in Nat /\ DOMAIN s = 1..Len(s)
           /\ DOMAIN Append(s, e) = 1..(Len(s) + 1)
           /\ \A j \in DOMAIN s : Append(s, e)[j] = s[j] /\ j \in DOMAIN Append(s, e)
           /\ Append(s, e)[Len(s) + 1] = e
OBVIOUS

-----------------------------------------------------------------------------
\* The type invariant is inductive.
LEMMA TypeInductive == TypeOK /\ LoopInv /\ [Next]_vars => TypeOK'
<1> SUFFICES ASSUME TypeOK, LoopInv, [Next]_vars
             PROVE  TypeOK'
  OBVIOUS
<1> USE NullTypes
<1>1. CASE HandleMessage
  <2>1. CASE HandleViewerJoined
    BY <2>1, HeadTypes DEF HandleViewerJoined, Receive, PendingAfterJoin, ActiveAfterJoin,
         OldSession, TypeOK, MaybeDevice, storeVars, pageVars
  <2> DEFINE a == Head(inbox).answer
  <2>2. CASE inbox # <<>> /\ IgnoreAnswer(a)
    BY <2>2, HeadTypes DEF IgnoreAnswer, Receive, TypeOK, loopVars, storeVars, pageVars
  <2>3. CASE inbox # <<>> /\ KnownAnswer(a)
    <3>1. a \in Answer /\ Tail(inbox) \in Seq(Message)
      BY <2>3, HeadTypes
    <3>2. Granted(a.fp) \in Active
      BY <3>1 DEF Granted, Active, Answer, TypeOK
    <3> QED
      BY <2>3, <3>1, <3>2 DEF KnownAnswer, Usable, Receive, SaveOk, TypeOK, pageVars
  <2>4. CASE inbox # <<>> /\ TouchFails(a)
    BY <2>4, HeadTypes DEF TouchFails, Usable, Receive, SaveFails, TypeOK
  <2>5. CASE inbox # <<>> /\ NewAnswer(a)
    BY <2>5, HeadTypes DEF NewAnswer, Usable, Receive, TypeOK, Answer, storeVars, pageVars
  <2> QED
    BY <1>1, <2>1, <2>2, <2>3, <2>4, <2>5 DEF HandleMessage
<1>2. CASE HandleCommand
  <2> DEFINE c == Head(cmds)
  <2>0. cmds # <<>> /\ c \in Command /\ Tail(cmds) \in Seq(Command)
    BY <1>2, HeadTypes DEF HandleCommand
  <2>1. CASE CommandDropped(c)
    BY <2>0, <2>1 DEF CommandDropped, Take, Serving, TypeOK, loopVars, storeVars, netVars
  <2>2. CASE ApproveTooLate(c)
    BY <2>0, <2>2 DEF ApproveTooLate, Take, Serving, TypeOK, storeVars, netVars
  <2>3. CASE ApprovePairs(c)
    <3>1. pending.fp \in Device
      BY <2>0, <2>3 DEF ApprovePairs, Approvable, Names, Command
    <3>2. Granted(pending.fp) \in Active
      BY <3>1 DEF Granted, Active, MaybeDevice, TypeOK
    <3> QED
      BY <2>0, <2>3, <3>1, <3>2
      DEF ApprovePairs, AddOk, SaveOk, TypeOK, MaybeDevice, storeVars, netVars
  <2>4. CASE ApproveFails(c)
    <3>1. pending.fp \in Device
      BY <2>0, <2>4 DEF ApproveFails, Approvable, Names, Command
    <3> QED
      BY <2>4, <3>1 DEF ApproveFails, SaveFails, TypeOK, netVars
  <2>5. CASE HandleReject(c)
    BY <2>0, <2>5 DEF HandleReject, Take, TypeOK, MaybeDevice, storeVars, netVars
  <2>6. CASE HandleDisconnect(c)
    BY <2>0, <2>6 DEF HandleDisconnect, Take, TypeOK, Active, storeVars, netVars
  <2>7. CASE DisconnectMisses(c)
    BY <2>0, <2>7 DEF DisconnectMisses, Take, TypeOK, loopVars, storeVars, netVars
  <2> QED
    BY <1>2, <2>1, <2>2, <2>3, <2>4, <2>5, <2>6, <2>7 DEF HandleCommand
<1>3. CASE Resume
  <2>1. CASE CloseOld
    <3>1. session + 1 \in 0..MaxSession
      BY <2>1 DEF CloseOld, LoopInv, TypeOK
    <3> QED
      BY <2>1, <3>1, ClosedType DEF CloseOld, TypeOK, storeVars, pageVars, netVars
  <2>2. CASE StartSession
    <3>1. session \in Session
      BY <2>2 DEF StartSession, LoopInv, TypeOK, Session
    <3>2. [NoPeer EXCEPT !.state = "new"] \in Peer
      BY DEF Peer, PeerState, NoPeer
    <3>3. peers' \in [Session -> Peer]
      BY <2>2, <3>1, <3>2 DEF StartSession, TypeOK
    <3>4. [epoch |-> epoch, session |-> session] \in Offer
      BY <3>1 DEF Offer, TypeOK
    <3> QED
      BY <2>2, <3>1, <3>3, <3>4 DEF StartSession, TypeOK, storeVars, pageVars
  <2>3. CASE StartFails
    BY <2>3 DEF StartFails, TypeOK, storeVars, pageVars, netVars
  <2>4. CASE ApplyAnswer
    <3>1. \A st \in {"remote", "new"} : [state |-> st, answer |-> applying] \in Peer
      BY DEF Peer, PeerState, TypeOK
    <3>2. peers' \in [Session -> Peer]
      BY <2>4, <3>1 DEF ApplyAnswer, TypeOK
    <3> QED
      BY <2>4, <3>2 DEF ApplyAnswer, TypeOK, storeVars, pageVars, netVars
  <2>5. CASE FinishClose
    BY <2>5, ClosedType DEF FinishClose, TypeOK, storeVars, pageVars, netVars
  <2> QED
    BY <1>3, <2>1, <2>2, <2>3, <2>4, <2>5 DEF Resume
<1>4. CASE Page
  <2> USE DEF loopAside, loopVars, storeVars, pageVars, netVars
  <2>0. \A k \in {"approve", "reject", "disconnect"}, d \in Device :
          Append(cmds, [kind |-> k, fp |-> d]) \in Seq(Command)
    BY DEF TypeOK, Command
  <2>1. CASE Poll
    BY <2>1 DEF Poll, TypeOK
  <2>2. CASE ClickApprove
    <3>1. shown \in Device
      BY <2>2 DEF ClickApprove, TypeOK, MaybeDevice
    <3> QED
      BY <2>0, <2>2, <3>1 DEF ClickApprove, Send, TypeOK
  <2>3. CASE ClickReject
    <3>1. shown \in Device
      BY <2>3 DEF ClickReject, TypeOK, MaybeDevice
    <3> QED
      BY <2>0, <2>3, <3>1 DEF ClickReject, Send, TypeOK
  <2>4. ASSUME NEW d \in Device, Remove(d)
        PROVE  TypeOK'
    BY <2>4 DEF Remove, SaveOk, TypeOK
  <2>5. ASSUME NEW d \in Device, RemoveFails(d)
        PROVE  TypeOK'
    BY <2>5 DEF RemoveFails, SaveFails, TypeOK
  <2>6. ASSUME NEW d \in Device, SendDisconnect(d)
        PROVE  TypeOK'
    BY <2>0, <2>6 DEF SendDisconnect, Send, TypeOK
  <2>7. ASSUME NEW d \in Device, Rename(d)
        PROVE  TypeOK'
    BY <2>7 DEF Rename, SaveOk, SaveFails, TypeOK
  <2> QED
    BY <1>4, <2>1, <2>2, <2>3, <2>4, <2>5, <2>6, <2>7 DEF Page
<1>5. CASE World
  <2> USE DEF loopVars, storeVars, pageVars, netVars
  <2>0. {"connected", "failed"} \subseteq PeerState
    BY DEF PeerState
  <2>1. ASSUME NEW p \in Session, Connect(p)
        PROVE  TypeOK'
    BY <2>0, <2>1, PeerUpdate DEF Connect, TypeOK
  <2>2. ASSUME NEW p \in Session, PeerFails(p)
        PROVE  TypeOK'
    BY <2>0, <2>2, PeerUpdate DEF PeerFails, TypeOK
  <2>3. CASE ViewerJoins
    BY <2>3 DEF ViewerJoins, Arrives, TypeOK
  <2>4. ASSUME NEW o \in offers, NEW fp \in MaybeDevice, ViewerAnswers(o, fp)
        PROVE  TypeOK'
    <3>1. [fp |-> fp, epoch |-> o.epoch, session |-> o.session] \in Answer
      BY DEF Answer, TypeOK, Offer, Epoch, Session
    <3> QED
      BY <2>4, <3>1, AnswerMessageType DEF ViewerAnswers, Arrives, TypeOK
  <2>5. CASE SignalingLost
    BY <2>5 DEF SignalingLost, TypeOK
  <2>6. CASE Restart
    BY <2>6 DEF Restart, TypeOK, Epoch, MaybeDevice
  <2> QED
    BY <1>5, <2>1, <2>2, <2>3, <2>4, <2>5, <2>6 DEF World
<1>6. CASE UNCHANGED vars
  BY <1>6 DEF vars, loopVars, storeVars, pageVars, netVars, TypeOK
<1> QED
  BY <1>1, <1>2, <1>3, <1>4, <1>5, <1>6 DEF Next

-----------------------------------------------------------------------------
\* Closing a connection ends its being live and touches no other.
LEMMA ClosedLive ==
    ASSUME TypeOK, NEW c \in 0..MaxSession, peers' = Closed(c)
    PROVE  \A p \in Session : Live(p)' <=> Live(p) /\ p # c
BY DEF Closed, Live, TypeOK, Session

\* Steps that leave the loop, Shared.active and the connections alone.
LEMMA LoopInvFrame ==
    ASSUME LoopInv, UNCHANGED <<session, current, closing, active, peers>>,
           at' = at \/ (at = "select" /\ at' = "stopped")
    PROVE  LoopInv'
BY DEF LoopInv, Live

LEMMA LoopInvInductive == TypeOK /\ LoopInv /\ [Next]_vars => LoopInv'
<1> SUFFICES ASSUME TypeOK, LoopInv, [Next]_vars
             PROVE  LoopInv'
  OBVIOUS
<1>1. CASE HandleMessage
  <2>1. CASE HandleViewerJoined
    BY <2>1 DEF HandleViewerJoined, Receive, ActiveAfterJoin, OldSession, LoopInv, Live
  <2> DEFINE a == Head(inbox).answer
  <2>2. CASE inbox # <<>> /\ IgnoreAnswer(a)
    BY <2>2, LoopInvFrame DEF IgnoreAnswer, loopVars
  <2>3. CASE inbox # <<>> /\ KnownAnswer(a)
    BY <2>3 DEF KnownAnswer, Usable, Receive, Granted, LoopInv, Live
  <2>4. CASE inbox # <<>> /\ TouchFails(a)
    BY <2>4, LoopInvFrame DEF TouchFails, Usable, Receive
  <2>5. CASE inbox # <<>> /\ NewAnswer(a)
    BY <2>5, LoopInvFrame DEF NewAnswer
  <2> QED
    BY <1>1, <2>1, <2>2, <2>3, <2>4, <2>5 DEF HandleMessage
<1>2. CASE HandleCommand
  <2> DEFINE c == Head(cmds)
  <2>0. cmds # <<>> /\ c \in Command
    BY <1>2, HeadTypes DEF HandleCommand
  <2>1. CASE CommandDropped(c)
    BY <2>1, LoopInvFrame DEF CommandDropped, loopVars
  <2>2. CASE ApproveTooLate(c)
    BY <2>2, LoopInvFrame DEF ApproveTooLate
  <2>3. CASE ApprovePairs(c)
    BY <2>3 DEF ApprovePairs, Approvable, Serving, TooLate, Granted, LoopInv, Live
  <2>4. CASE ApproveFails(c)
    BY <2>4, LoopInvFrame DEF ApproveFails, Approvable, Serving
  <2>5. CASE HandleReject(c)
    BY <2>5 DEF HandleReject, Take, Serving, LoopInv, Live
  <2>6. CASE HandleDisconnect(c)
    <3>1. active # NoActive
      BY <2>0, <2>6 DEF HandleDisconnect, DisconnectHits, NoActive, Command
    <3>2. active.peer = session /\ session # 0
      BY <3>1 DEF LoopInv
    <3>3. \A p \in Session : Live(p)' => p = current'
      BY <2>6 DEF HandleDisconnect, Take, Serving, LoopInv, Live, Session
    <3> QED
      BY <2>6, <3>2, <3>3 DEF HandleDisconnect, Take, Serving, LoopInv
  <2>7. CASE DisconnectMisses(c)
    BY <2>7, LoopInvFrame DEF DisconnectMisses, loopVars
  <2> QED
    BY <1>2, <2>1, <2>2, <2>3, <2>4, <2>5, <2>6, <2>7 DEF HandleCommand
<1>3. CASE Resume
  <2>0. closing \in 0..MaxSession /\ session \in 0..MaxSession
    BY DEF TypeOK
  <2>1. CASE CloseOld
    <3>1. \A p \in Session : ~Live(p)'
      <4>1. \A p \in Session : Live(p) => p = closing
        BY <2>1 DEF CloseOld, LoopInv, Session
      <4> QED
        BY <2>0, <2>1, <4>1, ClosedLive DEF CloseOld
    <3>2. closing' = 0 /\ current' = 0 /\ active' = NoActive /\ session' # 0
      BY <2>0, <2>1 DEF CloseOld, LoopInv
    <3> QED
      BY <2>1, <3>1, <3>2 DEF CloseOld, LoopInv
  <2>2. CASE StartSession
    <3>1. \A p \in Session : Live(p)' => Live(p)
      BY <2>2 DEF StartSession, Live, TypeOK, NoPeer
    <3> QED
      BY <2>2, <3>1 DEF StartSession, LoopInv, Session
  <2>3. CASE StartFails
    BY <2>3 DEF StartFails, LoopInv, Live
  <2>4. CASE ApplyAnswer
    <3>1. \A p \in Session : Live(p)' => Live(p) \/ p = current
      BY <2>4 DEF ApplyAnswer, Live, TypeOK
    <3> QED
      BY <2>4, <3>1 DEF ApplyAnswer, LoopInv
  <2>5. CASE FinishClose
    <3>1. \A p \in Session : ~Live(p)'
      BY <2>0, <2>5, ClosedLive DEF FinishClose, LoopInv, Session
    <3> QED
      BY <2>5, <3>1 DEF FinishClose, LoopInv
  <2> QED
    BY <1>3, <2>1, <2>2, <2>3, <2>4, <2>5 DEF Resume
<1>4. CASE Page
  <2>1. UNCHANGED loopAside
    BY <1>4 DEF Page, Poll, ClickApprove, ClickReject, Remove, RemoveFails,
         SendDisconnect, Rename
  <2> QED
    BY <2>1, LoopInvFrame DEF loopAside, loopVars
<1>5. CASE World
  <2>1. ASSUME NEW p \in Session, Connect(p)
        PROVE  LoopInv'
    <3>1. \A q \in Session : Live(q)' => Live(q)
      BY <2>1 DEF Connect, Live, TypeOK
    <3> QED
      BY <2>1, <3>1 DEF Connect, LoopInv, loopVars
  <2>2. ASSUME NEW p \in Session, PeerFails(p)
        PROVE  LoopInv'
    <3>1. \A q \in Session : Live(q)' => Live(q)
      BY <2>2 DEF PeerFails, Live, TypeOK
    <3> QED
      BY <2>2, <3>1 DEF PeerFails, LoopInv, loopVars
  <2>3. CASE ViewerJoins
    BY <2>3, LoopInvFrame DEF ViewerJoins, loopVars
  <2>4. ASSUME NEW o \in offers, NEW fp \in MaybeDevice, ViewerAnswers(o, fp)
        PROVE  LoopInv'
    BY <2>4, LoopInvFrame DEF ViewerAnswers, loopVars
  <2>5. CASE SignalingLost
    BY <2>5, LoopInvFrame DEF SignalingLost
  <2>6. CASE Restart
    BY <2>6 DEF Restart, LoopInv, Live, NoPeer
  <2> QED
    BY <1>5, <2>1, <2>2, <2>3, <2>4, <2>5, <2>6 DEF World
<1>6. CASE UNCHANGED vars
  BY <1>6, LoopInvFrame DEF vars, loopVars
<1> QED
  BY <1>1, <1>2, <1>3, <1>4, <1>5, <1>6 DEF Next

\* Initially the loop waits for its first message, with no connection.
LEMMA InitEstablishes == Init => TypeOK /\ LoopInv
BY NullTypes DEF Init, TypeOK, LoopInv, Live, NoPeer, MaybeDevice

\* Whatever restarts, failed saves and loss of signaling there are, every
\* variable keeps its type and the loop its bookkeeping of connections.
THEOREM LoopInvariance == Spec => [](TypeOK /\ LoopInv)
<1>1. Init => TypeOK /\ LoopInv
  BY InitEstablishes
<1>2. TypeOK /\ LoopInv /\ [Next]_vars => (TypeOK /\ LoopInv)'
  BY TypeInductive, LoopInvInductive
<1> QED
  BY <1>1, <1>2, PTL DEF Spec

\* Type correctness of the host's session loop and page.
THEOREM TypeCorrect == Spec => []TypeOK
BY LoopInvariance, PTL

\* Two viewers are never connected at once: all live connections are one, in
\* every run of the host, also after an answer that missed its session.
THEOREM OneLiveSessionHolds == Spec => []OneLiveSession
<1>1. TypeOK /\ LoopInv => OneLiveSession
  BY DEF LoopInv, OneLiveSession, Session
<1> QED
  BY <1>1, LoopInvariance, PTL

-----------------------------------------------------------------------------
\* Clicks.

\* A queue that only lost its head, or grew by an approval the user made or by
\* another command, still holds only the user's approvals.
LEMMA ClicksKept ==
    ASSUME TypeOK, ClickInv, clicked \subseteq clicked',
           \/ cmds' = cmds
           \/ cmds' = <<>>
           \/ cmds # <<>> /\ cmds' = Tail(cmds)
           \/ \E k \in Command : /\ cmds' = Append(cmds, k)
                                 /\ k.kind = "approve" => k.fp \in clicked'
    PROVE  ClickInv'
<1>0. cmds \in Seq(Command)
  BY DEF TypeOK
<1>1. CASE cmds' = cmds \/ cmds' = <<>>
  BY <1>1 DEF ClickInv
<1>2. CASE cmds # <<>> /\ cmds' = Tail(cmds)
  <2>1. \A j \in DOMAIN cmds' : cmds'[j] = cmds[j + 1] /\ j + 1 \in DOMAIN cmds
    BY <1>0, <1>2, TailIndex
  <2> QED
    BY <2>1 DEF ClickInv
<1>3. ASSUME NEW k \in Command, cmds' = Append(cmds, k), k.kind = "approve" => k.fp \in clicked'
      PROVE  ClickInv'
  <2>1. \A j \in DOMAIN cmds' : (j \in DOMAIN cmds /\ cmds'[j] = cmds[j]) \/ cmds'[j] = k
    <3>1. /\ Len(cmds) \in Nat /\ DOMAIN cmds = 1..Len(cmds) /\ DOMAIN cmds' = 1..(Len(cmds) + 1)
          /\ \A j \in DOMAIN cmds : cmds'[j] = cmds[j]
          /\ cmds'[Len(cmds) + 1] = k
      BY <1>0, <1>3, AppendIndex
    <3>2. \A n \in Nat : \A j \in 1..(n + 1) : j \in 1..n \/ j = n + 1
      OBVIOUS
    <3>3. \A j \in DOMAIN cmds' : j \in DOMAIN cmds \/ j = Len(cmds) + 1
      BY <3>1, <3>2
    <3> QED
      BY <3>1, <3>3
  <2> QED
    BY <1>3, <2>1 DEF ClickInv
<1> QED
  BY <1>1, <1>2, <1>3

LEMMA ClickStep ==
    TypeOK /\ ClickInv /\ [Next]_vars =>
        ClickInv' /\ (epoch' = epoch => paired' \ paired \subseteq clicked)
<1> SUFFICES ASSUME TypeOK, ClickInv, [Next]_vars
             PROVE  ClickInv' /\ (epoch' = epoch => paired' \ paired \subseteq clicked)
  OBVIOUS
<1> USE DEF loopVars, storeVars, pageVars, netVars, loopAside
<1>1. CASE HandleMessage
  <2>1. clicked' = clicked /\ (cmds' = cmds \/ cmds' = <<>>)
    BY <1>1 DEF HandleMessage, HandleViewerJoined, IgnoreAnswer, KnownAnswer, TouchFails, NewAnswer
  <2>2. paired' = paired
    BY <1>1 DEF HandleMessage, HandleViewerJoined, IgnoreAnswer, KnownAnswer, TouchFails, NewAnswer,
         SaveOk, SaveFails
  <2> QED
    BY <2>1, <2>2, ClicksKept
<1>2. CASE HandleCommand
  <2> DEFINE c == Head(cmds)
  <2>0. cmds # <<>> /\ c \in Command
    BY <1>2, HeadTypes DEF HandleCommand
  <2>1. clicked' = clicked /\ (cmds' = Tail(cmds) \/ cmds' = <<>>)
    BY <1>2 DEF HandleCommand, CommandDropped, ApproveTooLate, ApprovePairs, ApproveFails,
         HandleReject, HandleDisconnect, DisconnectMisses, Take
  <2>2. ASSUME ApprovePairs(c) \/ ApproveFails(c)
        PROVE  paired' \ paired \subseteq clicked
    <3>1. c.kind = "approve" /\ c.fp = pending.fp
      BY <2>2 DEF ApprovePairs, ApproveFails, Approvable, Names
    <3>2. c.fp \in clicked
      <4>1. 1 \in DOMAIN cmds /\ cmds[1] = c
        BY <2>0, TailIndex DEF TypeOK
      <4> QED
        BY <3>1, <4>1 DEF ClickInv
    <3>3. paired' \subseteq paired \cup {pending.fp}
      BY <2>2 DEF ApprovePairs, ApproveFails, AddOk, SaveOk, SaveFails
    <3> QED
      BY <3>1, <3>2, <3>3
  <2>3. ApprovePairs(c) \/ ApproveFails(c) \/ paired' = paired
    BY <1>2 DEF HandleCommand, CommandDropped, ApproveTooLate, HandleReject, HandleDisconnect,
         DisconnectMisses
  <2> QED
    BY <2>0, <2>1, <2>2, <2>3, ClicksKept
<1>3. CASE Resume
  <2>1. UNCHANGED <<cmds, clicked, paired>>
    BY <1>3 DEF Resume, CloseOld, StartSession, StartFails, ApplyAnswer, FinishClose
  <2> QED
    BY <2>1, ClicksKept
<1>4. CASE Page
  <2>0. paired' \subseteq paired
    BY <1>4 DEF Page, Poll, ClickApprove, ClickReject, Remove, RemoveFails, SendDisconnect, Rename,
         SaveOk, SaveFails
  <2>1. CASE Poll
    BY <2>0, <2>1, ClicksKept DEF Poll
  <2>2. CASE ClickApprove
    <3>1. [kind |-> "approve", fp |-> shown] \in Command
      BY <2>2 DEF ClickApprove, Command, TypeOK, MaybeDevice
    <3> QED
      BY <2>0, <2>2, <3>1, ClicksKept DEF ClickApprove, Send
  <2>3. CASE ClickReject
    <3>1. [kind |-> "reject", fp |-> shown] \in Command
      BY <2>3 DEF ClickReject, Command, TypeOK, MaybeDevice
    <3> QED
      BY <2>0, <2>3, <3>1, ClicksKept DEF ClickReject, Send
  <2>4. ASSUME NEW d \in Device, Remove(d) \/ RemoveFails(d) \/ Rename(d)
        PROVE  ClickInv'
    BY <2>4, ClicksKept DEF Remove, RemoveFails, Rename
  <2>5. ASSUME NEW d \in Device, SendDisconnect(d)
        PROVE  ClickInv'
    <3>1. [kind |-> "disconnect", fp |-> d] \in Command
      BY DEF Command
    <3> QED
      BY <2>5, <3>1, ClicksKept DEF SendDisconnect, Send
  <2> QED
    BY <1>4, <2>0, <2>1, <2>2, <2>3, <2>4, <2>5 DEF Page
<1>5. CASE World
  <2>1. CASE Restart
    <3>1. epoch' # epoch /\ cmds' = <<>>
      BY <2>1 DEF Restart, TypeOK, Epoch
    <3> QED
      BY <3>1 DEF ClickInv
  <2>2. CASE ~Restart
    <3>1. UNCHANGED <<paired, clicked>> /\ (cmds' = cmds \/ cmds' = <<>>)
      BY <1>5, <2>2 DEF World, Connect, PeerFails, ViewerJoins, ViewerAnswers, SignalingLost
    <3> QED
      BY <3>1, ClicksKept
  <2> QED
    BY <2>1, <2>2
<1>6. CASE UNCHANGED vars
  BY <1>6, ClicksKept DEF vars
<1> QED
  BY <1>1, <1>2, <1>3, <1>4, <1>5, <1>6 DEF Next

\* Whatever is replaced, lost, refused or fails between the screen and the
\* loop, only a device the user approved by name enters the list.
THEOREM ClickActsOnItsDeviceHolds == Spec => ClickActsOnItsDevice
<1>1. Init => ClickInv
  BY DEF Init, ClickInv
<1>2. TypeOK /\ ClickInv /\ [Next]_vars
        => ClickInv' /\ [epoch' = epoch => paired' \ paired \subseteq clicked]_vars
  BY ClickStep
<1> QED
  BY <1>1, <1>2, TypeCorrect, PTL DEF Spec, ClickActsOnItsDevice

-----------------------------------------------------------------------------
\* The file of paired devices.

\* While no save has failed, the file holds the list in memory.
DiskInv == faults = 0 => disk = paired

LEMMA DiskStep == TypeOK /\ DiskInv /\ [Next]_vars => DiskInv'
<1> SUFFICES ASSUME TypeOK, DiskInv, [Next]_vars
             PROVE  DiskInv'
  OBVIOUS
<1> USE DEF DiskInv, storeVars, pageVars, netVars, loopAside
<1>0. faults \in Nat
  BY DEF TypeOK
<1>1. UNCHANGED <<faults, disk, paired>> => DiskInv'
  OBVIOUS
<1>2. \A list : SaveOk(list) \/ SaveFails(list) => DiskInv'
  BY <1>0 DEF SaveOk, SaveFails
<1>3. CASE HandleMessage
  BY <1>1, <1>2, <1>3 DEF HandleMessage, HandleViewerJoined, IgnoreAnswer, KnownAnswer, TouchFails,
       NewAnswer
<1>4. CASE HandleCommand
  BY <1>1, <1>2, <1>4 DEF HandleCommand, CommandDropped, ApproveTooLate, ApprovePairs,
       ApproveFails, AddOk, HandleReject, HandleDisconnect, DisconnectMisses
<1>5. CASE Resume
  BY <1>5 DEF Resume, CloseOld, StartSession, StartFails, ApplyAnswer, FinishClose
<1>6. CASE Page
  BY <1>1, <1>2, <1>6 DEF Page, Poll, ClickApprove, ClickReject, Remove, RemoveFails,
       SendDisconnect, Rename
<1>7. CASE World
  <2>1. CASE Restart
    BY <2>1 DEF Restart
  <2>2. CASE ~Restart
    BY <1>1, <1>7, <2>2 DEF World, Connect, PeerFails, ViewerJoins, ViewerAnswers, SignalingLost
  <2> QED
    BY <2>1, <2>2
<1>8. CASE UNCHANGED vars
  BY <1>8 DEF vars
<1> QED
  BY <1>3, <1>4, <1>5, <1>6, <1>7, <1>8 DEF Next

\* A restart loses no pairing and revives none, unless a save had failed.
THEOREM RestartKeepsListHolds == Spec => RestartKeepsList
<1>1. Init => DiskInv
  BY DEF Init, DiskInv
<1>2. DiskInv /\ [Next]_vars => [epoch' # epoch /\ faults = 0 => paired' = paired]_vars
  <2> SUFFICES ASSUME DiskInv, Next, epoch' # epoch, faults = 0
               PROVE  paired' = paired
    OBVIOUS
  <2>1. CASE Restart
    BY <2>1 DEF Restart, DiskInv
  <2>2. CASE ~Restart
    BY <2>2 DEF Next, HandleMessage, HandleViewerJoined, IgnoreAnswer, KnownAnswer, TouchFails,
         NewAnswer, HandleCommand, CommandDropped, ApproveTooLate, ApprovePairs, ApproveFails,
         HandleReject, HandleDisconnect, DisconnectMisses, Resume, CloseOld, StartSession,
         StartFails, ApplyAnswer, FinishClose, Page, Poll, ClickApprove, ClickReject, Remove,
         RemoveFails, SendDisconnect, Rename, World, Connect, PeerFails, ViewerJoins,
         ViewerAnswers, SignalingLost, loopAside
  <2> QED
    BY <2>1, <2>2
<1> QED
  BY <1>1, <1>2, DiskStep, TypeCorrect, PTL DEF Spec, RestartKeepsList
=============================================================================
