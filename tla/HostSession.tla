---------------------------- MODULE HostSession ----------------------------
(***************************************************************************)
(* The host's session loop (host/src/webrtc_host.rs, run_sessions), the    *)
(* host page's handlers (host/src/admin.rs) and the list of paired devices *)
(* (host/src/pairing.rs) they share.                                       *)
(*                                                                         *)
(* The loop is one asynchronous task: it takes one signaling message or    *)
(* one command of the page at a time, and `at' says where it is suspended. *)
(* While it waits for a connection to close, for an offer to be gathered   *)
(* or for an answer to be applied, the page's handlers (other tasks, under *)
(* the lock of Shared) and the peer connections go on.  Viewers and the    *)
(* signaling server appear only through what they put in the loop's inbox. *)
(*                                                                         *)
(* A definition that stands right before the one it is a variant of, with  *)
(* the same parameters (UnsavedOk before SaveOk, OldSessionForgotten       *)
(* before OldSession, ...), is a deliberate mistake no action uses.  Put   *)
(* in the place of the other it makes TLC report the property it breaks.   *)
(***************************************************************************)
EXTENDS Naturals, Sequences, FiniteSets

CONSTANTS
    Device,             \* viewers' certificate fingerprints
    NoDevice,           \* no fingerprint
    MaxSession,         \* bound: sessions one run of the host may start
    MaxInbox,           \* bound: signaling messages waiting for the loop
    MaxCommands,        \* bound: page commands waiting for the loop
    MaxRestarts,        \* bound: restarts of the host process
    MaxSaveFaults,      \* bound: writes of paired.json that fail
    CanLoseSignaling    \* whether the signaling connection may drop

ASSUME NoDeviceAssumption == NoDevice \notin Device
ASSUME BoundsAssumption ==
    /\ MaxSession \in Nat /\ MaxInbox \in Nat /\ MaxCommands \in Nat
    /\ MaxRestarts \in Nat /\ MaxSaveFaults \in Nat
    /\ CanLoseSignaling \in BOOLEAN

VARIABLES
    \* Locals of run_sessions.
    at,             \* where the loop is suspended
    session,        \* number of the newest session
    current,        \* its peer connection (named by its session), 0: None
    pending,        \* answer of an unpaired device, kept until a decision
    applying,       \* answer being applied while at = "apply"
    closing,        \* peer connection being closed, 0: none
    \* Shared, behind its mutex, and the file behind PairedDevices.
    paired,         \* fingerprints in the list in memory
    disk,           \* fingerprints in paired.json
    sharedPending,  \* device Shared.pending names
    active,         \* Shared.active: a device and its connection
    \* The host page.
    cmds,           \* the unbounded channel of commands
    removing,       \* devices removed whose Disconnect is not sent yet
    shown,          \* pending device on the user's screen
    clicked,        \* history: devices the user approved in this run
    \* The world.
    peers,          \* peer connections of this run, by session
    inbox,          \* signaling messages not received yet, oldest first
    offers,         \* offers in viewers' hands, not answered yet
    epoch,          \* which run of the host process this is
    faults          \* failed saves so far

loopVars  == <<at, session, current, pending, applying, closing>>
storeVars == <<paired, disk, faults>>
pageVars  == <<cmds, removing, shown, clicked>>
netVars   == <<inbox, offers>>
vars == <<loopVars, storeVars, sharedPending, active, pageVars, peers,
          netVars, epoch>>

-----------------------------------------------------------------------------
\* Data.

Session == 1..MaxSession
MaybeDevice == Device \cup {NoDevice}
Epoch == 1..(MaxRestarts + 1)

\* An answer carries its sender's fingerprint (NoDevice when its SDP has no
\* usable one) and echoes the session of the offer it answers.  Which run of
\* the host made that offer is not on the wire: `epoch' is a history field.
Answer == [fp : MaybeDevice, epoch : 0..(MaxRestarts + 1), session : 0..MaxSession]
NoAnswer == [fp |-> NoDevice, epoch |-> 0, session |-> 0]

Offer == [epoch : Epoch, session : Session]

Message == [type : {"viewer-joined", "answer"}, answer : Answer]
ViewerJoined == [type |-> "viewer-joined", answer |-> NoAnswer]
AnswerMessage(a) == [type |-> "answer", answer |-> a]

Command == [kind : {"approve", "reject", "disconnect"}, fp : Device]

Active == [fp : MaybeDevice, peer : 0..MaxSession]
NoActive == [fp |-> NoDevice, peer |-> 0]

\* A peer connection: "new" from its offer on, "remote" once an answer is
\* applied, then "connected" and perhaps "failed"; `answer' is the last one
\* handed to set_remote_description while it still took one.
PeerState == {"none", "new", "remote", "connected", "failed", "closed"}
Peer == [state : PeerState, answer : Answer]
NoPeer == [state |-> "none", answer |-> NoAnswer]

TypeOK ==
    /\ at \in {"select", "closeOld", "start", "apply", "close", "stopped"}
    /\ session \in 0..MaxSession
    /\ current \in 0..MaxSession
    /\ pending \in Answer
    /\ applying \in Answer
    /\ closing \in 0..MaxSession
    /\ paired \subseteq Device
    /\ disk \subseteq Device
    /\ sharedPending \in MaybeDevice
    /\ active \in Active
    /\ cmds \in Seq(Command)
    /\ removing \subseteq Device
    /\ shown \in MaybeDevice
    /\ clicked \subseteq Device
    /\ peers \in [Session -> Peer]
    /\ inbox \in Seq(Message)
    /\ offers \subseteq Offer
    /\ epoch \in Epoch
    /\ faults \in 0..MaxSaveFaults

\* A peer connection that streams, or will once ICE and DTLS are done.
Live(p) == peers[p].state \in {"remote", "connected"}

-----------------------------------------------------------------------------
Init ==
    /\ at = "select" /\ session = 0 /\ current = 0
    /\ pending = NoAnswer /\ applying = NoAnswer /\ closing = 0
    /\ paired \in SUBSET Device /\ disk = paired /\ faults = 0
    /\ sharedPending = NoDevice /\ active = NoActive
    /\ cmds = <<>> /\ removing = {} /\ shown = NoDevice /\ clicked = {}
    /\ peers = [p \in Session |-> NoPeer]
    /\ inbox = <<>> /\ offers = {} /\ epoch = 1

-----------------------------------------------------------------------------
\* PairedDevices: every change of the list is written straight back, and a
\* write that fails leaves the list in memory changed (pairing.rs).

UnsavedOk(list) == paired' = list /\ UNCHANGED <<disk, faults>>
SaveOk(list) == paired' = list /\ disk' = list /\ UNCHANGED faults
SaveFails(list) ==
    /\ faults < MaxSaveFaults
    /\ faults' = faults + 1
    /\ paired' = list
    /\ UNCHANGED disk

-----------------------------------------------------------------------------
\* The session loop: signaling messages.

\* The old connection ViewerJoined takes out of `current' to close it.
OldSessionForgotten == 0
OldSession == current

\* Shared.active after a viewer joined: the old viewer is gone.
ActiveKept == active
ActiveAfterJoin == NoActive

\* The answer still held for a decision after a viewer joined.
PendingKept == pending
PendingAfterJoin == NoAnswer

Receive(m) == at = "select" /\ inbox # <<>> /\ m = Head(inbox) /\ inbox' = Tail(inbox)

HandleViewerJoined ==
    /\ Receive(ViewerJoined)
    /\ session < MaxSession
    /\ pending' = PendingAfterJoin
    /\ sharedPending' = NoDevice
    /\ active' = ActiveAfterJoin
    /\ closing' = OldSession
    /\ current' = 0
    /\ at' = "closeOld"
    /\ UNCHANGED <<session, applying, storeVars, pageVars, peers, offers, epoch>>

\* Closing a connection: the browser on the other side loses it.
Closed(p) == IF p = 0 THEN peers ELSE [peers EXCEPT ![p].state = "closed"]

CloseOld ==
    /\ at = "closeOld"
    /\ peers' = Closed(closing)
    /\ closing' = 0
    /\ session' = session + 1
    /\ at' = "start"
    /\ UNCHANGED <<current, pending, applying, storeVars, sharedPending, active,
                   pageVars, netVars, epoch>>

\* start_session: a fresh peer connection, its offer sent through signaling.
StartSession ==
    /\ at = "start"
    /\ peers' = [peers EXCEPT ![session] = [NoPeer EXCEPT !.state = "new"]]
    /\ offers' = offers \cup {[epoch |-> epoch, session |-> session]}
    /\ current' = session
    /\ at' = "select"
    /\ UNCHANGED <<session, pending, applying, closing, storeVars, sharedPending,
                   active, pageVars, inbox, epoch>>

\* start_session returned an error: logged, and there is no current session.
StartFails ==
    /\ at = "start"
    /\ at' = "select"
    /\ UNCHANGED <<session, current, pending, applying, closing, storeVars,
                   sharedPending, active, pageVars, peers, netVars, epoch>>

\* The answer is for a session that has been replaced.
OnlyNewerIsStale(a) == a.session > session
Stale(a) == a.session # session

IgnoreAnswer(a) ==
    /\ Receive(AnswerMessage(a))
    /\ Stale(a) \/ current = 0 \/ a.fp = NoDevice
    /\ UNCHANGED <<loopVars, storeVars, sharedPending, active, pageVars, peers,
                   offers, epoch>>

Usable(a) ==
    /\ Receive(AnswerMessage(a))
    /\ ~Stale(a) /\ current # 0 /\ a.fp # NoDevice

\* The device of a current answer is in the list.
Known(fp) == fp \in paired

\* Shared.active for a device let in to the current session.
GrantedForNext(fp) == [fp |-> fp, peer |-> current + 1]
Granted(fp) == [fp |-> fp, peer |-> current]

KnownAnswer(a) ==
    /\ Usable(a)
    /\ Known(a.fp)
    /\ SaveOk(paired)
    /\ active' = Granted(a.fp)
    /\ applying' = a
    /\ at' = "apply"
    /\ UNCHANGED <<session, current, pending, closing, sharedPending, pageVars,
                   peers, offers, epoch>>

\* touch() could not save last_seen: the error ends run_sessions, and with it
\* the receiving end of the command channel.
TouchFails(a) ==
    /\ Usable(a)
    /\ Known(a.fp)
    /\ SaveFails(paired)
    /\ at' = "stopped"
    /\ cmds' = <<>>
    /\ UNCHANGED <<session, current, pending, applying, closing, sharedPending,
                   active, removing, shown, clicked, peers, offers, epoch>>

NewAnswer(a) ==
    /\ Usable(a)
    /\ ~Known(a.fp)
    /\ sharedPending' = a.fp
    /\ pending' = a
    /\ UNCHANGED <<at, session, current, applying, closing, storeVars, active,
                   pageVars, peers, offers, epoch>>

\* set_remote_description on the current connection: it takes an answer only
\* once, and may refuse the SDP; either way the loop goes on.
ApplyAnswer ==
    /\ at = "apply"
    /\ \E outcome \in {"remote", "new"} :
         peers' = [peers EXCEPT ![current] =
                     IF @.state = "new" THEN [state |-> outcome, answer |-> applying] ELSE @]
    /\ applying' = NoAnswer
    /\ at' = "select"
    /\ UNCHANGED <<session, current, pending, closing, storeVars, sharedPending,
                   active, pageVars, netVars, epoch>>

\* The websocket closed or failed: recv() returns an error and run_sessions
\* ends.  Connections stay up; commands have no receiver any more.
SignalingLost ==
    /\ CanLoseSignaling
    /\ at = "select"
    /\ at' = "stopped"
    /\ cmds' = <<>>
    /\ UNCHANGED <<session, current, pending, applying, closing, storeVars,
                   sharedPending, active, removing, shown, clicked, peers, netVars,
                   epoch>>

-----------------------------------------------------------------------------
\* The session loop: commands of the page.

Serving(c) == at = "select" /\ cmds # <<>> /\ c = Head(cmds)
Take(c) == Serving(c) /\ cmds' = Tail(cmds)

\* A command names the device it is about: does it name the one pending?
NamesAny(fp) == pending # NoAnswer
Names(fp) == pending.fp = fp

\* Nothing left of a decision: the answer it was about is gone.
CommandDropped(c) ==
    /\ Take(c)
    /\ c.kind \in {"approve", "reject"}
    /\ ~Names(c.fp)
    /\ UNCHANGED <<loopVars, storeVars, sharedPending, active, removing, shown,
                   clicked, peers, netVars, epoch>>

\* The answer is taken, but the session it belongs to is no longer there.
TooLateByOne == current = 0 \/ pending.session + 1 # session
TooLate == current = 0 \/ pending.session # session

ApproveTooLate(c) ==
    /\ Take(c)
    /\ c.kind = "approve" /\ Names(c.fp)
    /\ TooLate
    /\ pending' = NoAnswer
    /\ UNCHANGED <<at, session, current, applying, closing, storeVars, sharedPending,
                   active, removing, shown, clicked, peers, netVars, epoch>>

Approvable(c) ==
    /\ Serving(c)
    /\ c.kind = "approve" /\ Names(c.fp)
    /\ ~TooLate

\* add() writes nothing for a device that is in the list already.
AddOk(fp) == IF fp \in paired THEN UNCHANGED storeVars ELSE SaveOk(paired \cup {fp})

ApprovePairs(c) ==
    /\ Approvable(c)
    /\ cmds' = Tail(cmds)
    /\ AddOk(pending.fp)
    /\ sharedPending' = NoDevice
    /\ active' = Granted(pending.fp)
    /\ pending' = NoAnswer
    /\ applying' = pending
    /\ at' = "apply"
    /\ UNCHANGED <<session, current, closing, removing, shown, clicked, peers,
                   netVars, epoch>>

\* add() could not save the list: run_sessions ends with the device in it.
ApproveFails(c) ==
    /\ Approvable(c)
    /\ pending.fp \notin paired
    /\ SaveFails(paired \cup {pending.fp})
    /\ pending' = NoAnswer
    /\ at' = "stopped"
    /\ cmds' = <<>>
    /\ UNCHANGED <<session, current, applying, closing, sharedPending, active,
                   removing, shown, clicked, peers, netVars, epoch>>

HandleReject(c) ==
    /\ Take(c)
    /\ c.kind = "reject" /\ Names(c.fp)
    /\ pending' = NoAnswer
    /\ sharedPending' = NoDevice
    /\ closing' = current
    /\ current' = 0
    /\ at' = IF current = 0 THEN "select" ELSE "close"
    /\ UNCHANGED <<session, applying, storeVars, active, removing, shown, clicked,
                   peers, netVars, epoch>>

\* Is the removed device the one Shared.active has a connection for?
DisconnectHitsConnected(fp) ==
    active.fp = fp /\ peers[active.peer].state = "connected"
DisconnectHits(fp) == active.fp = fp

HandleDisconnect(c) ==
    /\ Take(c)
    /\ c.kind = "disconnect" /\ DisconnectHits(c.fp)
    /\ active' = NoActive
    /\ closing' = active.peer
    /\ at' = "close"
    /\ UNCHANGED <<session, current, pending, applying, storeVars, sharedPending,
                   removing, shown, clicked, peers, netVars, epoch>>

DisconnectMisses(c) ==
    /\ Take(c)
    /\ c.kind = "disconnect" /\ ~DisconnectHits(c.fp)
    /\ UNCHANGED <<loopVars, storeVars, sharedPending, active, removing, shown,
                   clicked, peers, netVars, epoch>>

\* close() returned, after a rejection or a disconnect.
FinishClose ==
    /\ at = "close"
    /\ peers' = Closed(closing)
    /\ closing' = 0
    /\ current' = 0
    /\ at' = "select"
    /\ UNCHANGED <<session, pending, applying, storeVars, sharedPending, active,
                   pageVars, netVars, epoch>>

-----------------------------------------------------------------------------
\* The host page.  Its handlers run beside the loop, whatever it is doing, and
\* outlive it.

loopAside == <<loopVars, sharedPending, active, peers, netVars, epoch>>

Send(c) == cmds' = IF at = "stopped" THEN cmds ELSE Append(cmds, c)

HasRoom == Len(cmds) + Cardinality(removing) < MaxCommands

\* get_state, as the page polls it: the device waiting for approval.
Poll ==
    /\ shown' = sharedPending
    /\ UNCHANGED <<loopAside, storeVars, cmds, removing, clicked>>

\* The user clicks under the device the page still shows.
ClickApprove ==
    /\ HasRoom
    /\ shown # NoDevice
    /\ clicked' = clicked \cup {shown}
    /\ Send([kind |-> "approve", fp |-> shown])
    /\ UNCHANGED <<loopAside, storeVars, removing, shown>>

ClickReject ==
    /\ HasRoom
    /\ shown # NoDevice
    /\ Send([kind |-> "reject", fp |-> shown])
    /\ UNCHANGED <<loopAside, storeVars, removing, shown, clicked>>

\* remove, in two steps: the list changes under the lock, the command is sent
\* after it is released.  (One removal of a device is in flight at a time.)
Remove(d) ==
    /\ HasRoom
    /\ d \in paired \ removing
    /\ SaveOk(paired \ {d})
    /\ removing' = removing \cup {d}
    /\ UNCHANGED <<loopAside, cmds, shown, clicked>>

\* The list could not be saved: the page gets an error, the loop nothing.
RemoveFails(d) ==
    /\ d \in paired
    /\ SaveFails(paired \ {d})
    /\ UNCHANGED <<loopAside, pageVars>>

SendDisconnect(d) ==
    /\ d \in removing
    /\ removing' = removing \ {d}
    /\ Send([kind |-> "disconnect", fp |-> d])
    /\ UNCHANGED <<loopAside, storeVars, shown, clicked>>

\* rename changes no fingerprint, but saves the whole list in memory.
Rename(d) ==
    /\ d \in paired
    /\ SaveOk(paired) \/ SaveFails(paired)
    /\ UNCHANGED <<loopAside, pageVars>>

-----------------------------------------------------------------------------
\* Peer connections, viewers, and the host process itself.

\* ICE and DTLS succeed only for the answer made for this very offer: they
\* check the credentials and the certificate it names.
Connect(p) ==
    /\ peers[p].state = "remote"
    /\ peers[p].answer.epoch = epoch /\ peers[p].answer.session = p
    /\ peers' = [peers EXCEPT ![p].state = "connected"]
    /\ UNCHANGED <<loopVars, storeVars, sharedPending, active, pageVars, netVars, epoch>>

PeerFails(p) ==
    /\ Live(p)
    /\ peers' = [peers EXCEPT ![p].state = "failed"]
    /\ UNCHANGED <<loopVars, storeVars, sharedPending, active, pageVars, netVars, epoch>>

Arrives(m) ==
    /\ at # "stopped"
    /\ Len(inbox) < MaxInbox
    /\ inbox' = Append(inbox, m)

\* The server announces a viewer: connected, reloaded, or found by the host.
ViewerJoins ==
    /\ Arrives(ViewerJoined)
    /\ UNCHANGED <<loopVars, storeVars, sharedPending, active, pageVars, peers,
                   offers, epoch>>

\* The one viewer an offer was relayed to answers it, once, whenever it is
\* done gathering; by then the host may be several sessions, or a restart, on.
ViewerAnswers(o, fp) ==
    /\ o \in offers
    /\ offers' = offers \ {o}
    /\ Arrives(AnswerMessage([fp |-> fp, epoch |-> o.epoch, session |-> o.session]))
    /\ UNCHANGED <<loopVars, storeVars, sharedPending, active, pageVars, peers, epoch>>

\* The host process is stopped and started again.  The viewers are not.
Restart ==
    /\ epoch <= MaxRestarts
    /\ epoch' = epoch + 1
    /\ at' = "select" /\ session' = 0 /\ current' = 0
    /\ pending' = NoAnswer /\ applying' = NoAnswer /\ closing' = 0
    /\ paired' = disk
    /\ sharedPending' = NoDevice /\ active' = NoActive
    /\ cmds' = <<>> /\ removing' = {} /\ shown' = NoDevice /\ clicked' = {}
    /\ peers' = [p \in Session |-> NoPeer]
    /\ inbox' = <<>>
    /\ UNCHANGED <<disk, faults, offers>>

-----------------------------------------------------------------------------
HandleMessage ==
    \/ HandleViewerJoined
    \/ inbox # <<>> /\ LET a == Head(inbox).answer IN
         IgnoreAnswer(a) \/ KnownAnswer(a) \/ TouchFails(a) \/ NewAnswer(a)

HandleCommand ==
    cmds # <<>> /\ LET c == Head(cmds) IN
      \/ CommandDropped(c) \/ ApproveTooLate(c) \/ ApprovePairs(c) \/ ApproveFails(c)
      \/ HandleReject(c) \/ HandleDisconnect(c) \/ DisconnectMisses(c)

Resume == CloseOld \/ StartSession \/ StartFails \/ ApplyAnswer \/ FinishClose

Page ==
    \/ Poll \/ ClickApprove \/ ClickReject
    \/ \E d \in Device : Remove(d) \/ RemoveFails(d) \/ SendDisconnect(d) \/ Rename(d)

World ==
    \/ \E p \in Session : Connect(p) \/ PeerFails(p)
    \/ ViewerJoins
    \/ \E o \in offers, fp \in MaybeDevice : ViewerAnswers(o, fp)
    \/ SignalingLost \/ Restart

Next == HandleMessage \/ HandleCommand \/ Resume \/ Page \/ World

Spec == Init /\ [][Next]_vars

\* The loop's task is scheduled whenever it can go on, and closing, gathering
\* and applying end (each has its own timeout).  select! picks a ready branch
\* at random, so a command that keeps being ready is taken in the end.  A
\* handler that has removed a device goes on to send its command.
Fairness ==
    /\ WF_vars(HandleMessage \/ HandleCommand \/ Resume)
    /\ SF_vars(HandleCommand)
    /\ \A d \in Device : WF_vars(SendDisconnect(d))

FairSpec == Spec /\ Fairness

-----------------------------------------------------------------------------
\* Properties.

\* A removal of the device is on its way to the session loop.
Revoking(d) ==
    \/ d \in removing
    \/ \E i \in DOMAIN cmds : cmds[i] = [kind |-> "disconnect", fp |-> d]

\* At most one viewer streams from and controls the host at any moment, also
\* while a replaced connection is still closing (webrtc_host.rs:153-183).
OneLiveSession == \A p, q \in Session : Live(p) /\ Live(q) => p = q

\* Why it holds: only the newest session's connection, the current one or the
\* one being closed, can be live, and a new session starts after the close.
LoopInv ==
    /\ at = "closeOld" => session < MaxSession
    /\ at = "start" => session # 0
    /\ at \in {"closeOld", "start"} => current = 0 /\ active = NoActive
    /\ at = "apply" => current # 0
    /\ at = "close" => closing # 0
    /\ at \notin {"closeOld", "close"} => closing = 0
    /\ current \in {0, session} /\ closing \in {0, session}
    /\ active # NoActive => active.peer = session /\ session # 0
    /\ \A p \in Session : Live(p) => p = current \/ p = closing

\* A device streams only while it is in the list of paired devices; one that
\* was removed streams only until its Disconnect, already sent or about to
\* be, is carried out (admin.rs:238-261, README "removing the connected
\* device disconnects it at once").
LiveIsPaired ==
    \A p \in Session : Live(p) /\ p # closing =>
        peers[p].answer.fp \in paired \/ Revoking(peers[p].answer.fp)

\* A connection is only given the answer its own viewer made for its own offer,
\* never one for another session (webrtc_host.rs:84-88).
AnswerMatchesPeer ==
    \A p \in Session : peers[p].answer # NoAnswer =>
        peers[p].answer.session = p /\ peers[p].answer.epoch = epoch

\* The device the page asks about is the one whose answer the loop holds, and
\* that answer is for the session still open: a click on it can have effect
\* (webrtc_host.rs:91-135).
PendingIsCurrent ==
    at # "stopped" =>
        /\ sharedPending = pending.fp
        /\ pending # NoAnswer => pending.session = session /\ current = session

\* The page's "connected" badge: the device whose connection is in state
\* Connected, NoDevice when there is none (admin.rs:149-154).
Badge ==
    IF active # NoActive /\ peers[active.peer].state = "connected"
    THEN active.fp ELSE NoDevice

\* The page shows as connected the device that streams, and only that one: the
\* device a removal must disconnect is the one the loop would find.
BadgeIsTruthful ==
    \A p \in Session : peers[p].state = "connected" /\ p # closing =>
        Badge = peers[p].answer.fp

\* Failed saves and lost signaling do not confuse who is who; a restart does, as
\* answers of the previous run may then pass for this one's (webrtc_host.rs:84-89).
TruthfulUntilRestart ==
    epoch = 1 => AnswerMatchesPeer /\ PendingIsCurrent /\ BadgeIsTruthful

\* A device enters the list only by an approval of that very device, however
\* many others came and went between the screen and the click's arrival
\* (admin.rs:49-51).
ClickActsOnItsDevice ==
    [][epoch' = epoch => paired' \ paired \subseteq clicked]_vars

\* Why it holds: the approvals on their way are the user's.
ClickInv ==
    \A i \in DOMAIN cmds : cmds[i].kind = "approve" => cmds[i].fp \in clicked

\* A restarted host knows the devices the previous run knew, unless a save had
\* failed: every change was written straight back (pairing.rs:135-137).
RestartKeepsList ==
    [][epoch' # epoch /\ faults = 0 => paired' = paired]_vars

\* A rejection or a removal closes only the connection of the device it names,
\* again until a restart (webrtc_host.rs:126-147).
CloseHitsItsDevice ==
    [][epoch = 1 /\ at = "select" /\ at' = "close" =>
         Head(cmds).fp = IF peers[closing'].answer # NoAnswer
                         THEN peers[closing'].answer.fp ELSE pending.fp]_vars

-----------------------------------------------------------------------------
\* Why the access properties hold.

\* No save has failed, the host has not been restarted and hears signaling.
Undisturbed == faults = 0 /\ epoch = 1 /\ at # "stopped"

\* No failure can happen at all.
NoFaults == MaxSaveFaults = 0 /\ MaxRestarts = 0 /\ ~CanLoseSignaling

\* The answer to session n's offer is still to be made; is in the inbox.
Unanswered(n) == \E o \in offers : o.session = n
AnswerAt(i, n) == inbox[i].type = "answer" /\ inbox[i].answer.session = n
Underway(n) == \E i \in DOMAIN inbox : AnswerAt(i, n)

\* A session gets one answer, and only sessions of this run get one.
TokensInv ==
    /\ \A n \in Session : Unanswered(n) \/ Underway(n) =>
         n <= session /\ (at = "start" => n # session)
    /\ \A n \in Session : ~(Unanswered(n) /\ Underway(n))
    /\ \A i, j \in DOMAIN inbox, n \in Session : AnswerAt(i, n) /\ AnswerAt(j, n) => i = j
    /\ \A o \in offers : o.epoch = epoch
    /\ \A i \in DOMAIN inbox : inbox[i].type = "answer" =>
         inbox[i].answer.epoch = epoch /\ inbox[i].answer.session \in Session

\* While the current session's answer is to come, nobody holds it yet.
UnclaimedInv ==
    session \in Session /\ (Unanswered(session) \/ Underway(session)) =>
        pending = NoAnswer /\ active = NoActive /\ at # "close"

\* The answer held for a decision is the current session's, and undecided.
PendingInv ==
    /\ at # "stopped" => sharedPending = pending.fp
    /\ pending # NoAnswer =>
         /\ pending.session = session /\ pending.epoch = epoch
         /\ current = session /\ session \in Session
         /\ pending.fp # NoDevice /\ active = NoActive
    /\ at \in {"closeOld", "start", "close"} => pending = NoAnswer

\* The answer being applied is the current session's, from the device let in.
ApplyInv ==
    at = "apply" => /\ applying.session = session /\ applying.epoch = epoch
                    /\ active = Granted(applying.fp)

\* Whoever streams is the device that was let in.
LiveInv ==
    \A p \in Session : Live(p) /\ p # closing => active = [fp |-> peers[p].answer.fp, peer |-> p]

\* The current session's connection is untouched while its answer is to come or
\* undecided, and then has that of the device let in, whether it streams or not.
PeerInv ==
    /\ session \in Session /\ (Unanswered(session) \/ Underway(session) \/ pending # NoAnswer
                              \/ at = "apply") =>
         peers[session] = [NoPeer EXCEPT !.state = "new"]
    /\ active # NoActive /\ at # "apply" => peers[session].answer.fp = active.fp

TruthInv ==
    /\ TokensInv /\ UnclaimedInv /\ PendingInv /\ ApplyInv /\ LiveInv /\ PeerInv
    /\ AnswerMatchesPeer

\* A device that is let in is in the list, or about to be disconnected.
ActiveInv == active # NoActive => active.fp \in paired \/ Revoking(active.fp)

\* Who is who is clear until a restart, who may stay until anything fails.
AccessKept ==
    /\ epoch = 1 => TruthInv
    /\ Undisturbed => ActiveInv

-----------------------------------------------------------------------------
\* Liveness, and the abstract specification.

Streams(d) == \E p \in Session : Live(p) /\ peers[p].answer.fp = d

\* A removed device that is connected loses its connection, unless it is
\* paired again first.
RemovalDisconnects ==
    \A d \in Device : (Streams(d) /\ d \notin paired) ~> (~Streams(d) \/ d \in paired)

\* An approval that is on its way while its device is pending pairs that
\* device, unless the session ends first: a new viewer, or a rejection.
ApprovalTakesEffect ==
    \A d \in Device :
        (pending.fp = d /\ \E i \in DOMAIN cmds : cmds[i] = [kind |-> "approve", fp |-> d])
            ~> (d \in paired \/ current = 0)

\* The session loop, the page and the list together keep AccessGate's promise,
\* the device let in being the one Shared.active names.
Gate == INSTANCE AccessGate WITH allowed <- paired, using <- active.fp

\* Every step of the host is a step of the gate: nobody gets in who is not in
\* the list (webrtc_host.rs:193-203, 108-122).
GateSafety == Gate!Spec

\* ... and a device off the list is put out in the end (admin.rs:246-254).
GateKept == Gate!FairSpec
=============================================================================
