------------------------------ MODULE InputPath ------------------------------
(***************************************************************************)
(* From the viewer's fingers to this Mac's buttons: the page's trackpad    *)
(* and mouse (Trackpad), the data channel of the current session, ordered  *)
(* and reliable as long as it lasts, and the host's injector (Injector).   *)
(*                                                                         *)
(* One page is connected at a time: the host closes the old session's      *)
(* connection before it starts the next one, and every session of a host   *)
(* run belongs to another page load.  The old page may go on, but reaches  *)
(* nothing; only the newest page is modelled.  A page may be left without  *)
(* a word: its channel stays open on the host until the next viewer joins. *)
(*                                                                         *)
(* A definition that stands right before the one it is a variant of, with  *)
(* the same parameters, is a deliberate mistake no action uses.  Put in    *)
(* the place of the other it makes TLC report the property it breaks.      *)
(***************************************************************************)
EXTENDS Trackpad, Injector

CONSTANTS MaxWire       \* bound: messages on a channel

\* Sessions are numbered from 1; how many there may be is a bound.
ASSUME ChannelAssumption == 1 \in Channel /\ Channel \subseteq Nat

VARIABLES
    session,    \* number of the newest page's session
    sized,      \* whether the page's video has a size
    heldBefore  \* history: the button was down when the host last restarted

pathVars == <<padVars, injectorVars, session, sized, heldBefore>>
fingerVars == <<touches, gesture, heldClick, mouse, due>>

PathTypeOK ==
    /\ PadTypeOK /\ InjectorTypeOK
    /\ session \in Channel
    /\ sized \in BOOLEAN /\ heldBefore \in BOOLEAN

PathInit ==
    /\ PadInit /\ InjectorInit
    /\ session = 1 /\ sized = FALSE /\ heldBefore = FALSE

-----------------------------------------------------------------------------
PageActs ==
    /\ PadNext(sized)
    /\ Len(wire') <= MaxWire
    /\ UNCHANGED <<injectorVars, session, sized, heldBefore>>

\* The first frame of the video arrives.
FirstFrame ==
    /\ ~sized /\ channel[session] = "open"
    /\ sized' = TRUE
    /\ UNCHANGED <<padVars, injectorVars, session, heldBefore>>

\* Both ends of the channel open.
ChannelOpens ==
    /\ OnOpen(session)
    /\ connected' = TRUE
    /\ UNCHANGED <<fingerVars, wire, session, sized, heldBefore>>

\* The page is left, or loses its connection.  Messages under way may still arrive.
PageGoes ==
    /\ connected
    /\ connected' = FALSE
    /\ UNCHANGED <<fingerVars, wire, injectorVars, session, sized, heldBefore>>

\* The host's end closes (the next viewer joined, the device was removed, or the
\* page closed its end): what is still on the channel is lost.
HostCloses ==
    /\ Closes(session)
    /\ connected' = FALSE /\ wire' = <<>>
    /\ UNCHANGED <<fingerVars, session, sized, heldBefore>>

\* The next page's session, which starts once the old connection is closed.
NextPage ==
    /\ channel[session] \in {"closed", "reset"}
    /\ session + 1 \in Channel
    /\ session' = session + 1
    /\ touches' = {} /\ gesture' = NoGesture /\ heldClick' = FALSE /\ mouse' = FALSE
    /\ due' = 0 /\ sized' = FALSE
    /\ UNCHANGED <<connected, wire, injectorVars, heldBefore>>

Delivered ==
    /\ wire # <<>>
    /\ OnMessage(session, Head(wire))
    /\ wire' = Tail(wire)
    /\ UNCHANGED <<fingerVars, connected, session, sized, heldBefore>>

\* A step of the injector's thread, and a channel's on_close.
InjectorActs ==
    /\ Ready \/ NoPermission \/ Apply
    /\ UNCHANGED <<padVars, session, sized, heldBefore>>

CloseNoticed(c) ==
    /\ OnClose(c)
    /\ UNCHANGED <<padVars, session, sized, heldBefore>>

\* The host process ends and is started again: its injector begins from nothing
\* and no on_close runs, but the Mac's buttons stay as they are.  The page gets
\* a new session in the middle of whatever it was doing.
HostRestarts ==
    /\ session + 1 \in Channel
    /\ session' = session + 1
    /\ injector' = "starting"
    /\ queue' = <<>> /\ held' = {} /\ moveRest' = 0 /\ scrollRest' = 0
    /\ channel' = [c \in Channel |-> IF channel[c] = "new" /\ c # session THEN "new" ELSE "reset"]
    /\ connected' = FALSE /\ sized' = FALSE /\ wire' = <<>>
    /\ heldBefore' = (heldBefore \/ pressed # {})
    /\ UNCHANGED <<fingerVars, pressed, modsDown, cursor, failed>>

PathNext ==
    \/ PageActs \/ FirstFrame \/ ChannelOpens \/ PageGoes \/ HostCloses \/ NextPage
    \/ Delivered \/ InjectorActs \/ HostRestarts
    \/ \E c \in Channel : CloseNoticed(c)

\* The channel delivers, callbacks run and the injector's thread works; nothing
\* is assumed of the page or of anybody closing anything.
PathFairness ==
    /\ WF_pathVars(Delivered)
    /\ WF_pathVars(InjectorActs)
    /\ \A c \in Channel : WF_pathVars(CloseNoticed(c))

PathSpec == PathInit /\ [][PathNext]_pathVars /\ PathFairness

-----------------------------------------------------------------------------
\* Properties.

\* Somebody may still want the button down: the page holds it, or it vanished and
\* the host has not closed its channel.
Holding == channel[session] = "open" /\ (gesture.dragging \/ mouse \/ ~connected)

\* Calls whose failure leaves no button down.  A release that failed leaves it down,
\* and so does the move before one (`up' moves the cursor first).
Harmless == {"press", "key"}

\* When nobody holds it and everything sent has been dealt with, the Mac's button
\* is up, whatever the gestures, sessions and closes before and whatever presses
\* failed.  (A release or a move that failed, and a host that ended while the
\* button was down, can leave it down.)
NothingStuck ==
    (/\ ~Holding
     /\ wire = <<>> /\ queue = <<>> /\ \A c \in Channel : channel[c] # "closed"
     /\ failed \subseteq Harmless /\ ~heldBefore)
    => pressed = {}

\* A viewer that lets go, or whose channel is closed in the middle of a drag,
\* has the button released in the end, unless somebody presses again, also when
\* presses failed before.
LettingGoReleases ==
    ~Holding ~> (pressed = {} \/ Holding \/ heldBefore \/ ~(failed \subseteq Harmless))
=============================================================================
