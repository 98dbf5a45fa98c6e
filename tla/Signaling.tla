----------------------------- MODULE Signaling -----------------------------
(***************************************************************************)
(* How a host and a viewer find each other: the signaling server's two     *)
(* slots (signaling/main.go), the session numbers of the host's loop       *)
(* (host/src/webrtc_host.rs) and the viewer page's handling of offers      *)
(* (client/index.html), over websockets that keep the order of what is     *)
(* sent on them and lose what was not read when they close.                *)
(*                                                                         *)
(* A host process and a page load each make one connection in their life,  *)
(* so a connection also names its process or page: a restart of the host   *)
(* or a reload of the page is another element of Host or Viewer.  Nothing  *)
(* reconnects by itself.  Every device is taken to be paired: what the     *)
(* loop does with an answer it keeps is HostSession's subject.             *)
(*                                                                         *)
(* A definition that stands right before the one it is a variant of is a   *)
(* deliberate mistake no action uses (see HostSession).                    *)
(***************************************************************************)
EXTENDS Naturals, Sequences, FiniteSets

CONSTANTS
    Host,           \* host processes, by their connection
    Viewer,         \* page loads, by their connection
    None,           \* no connection
    Stranger,       \* hosts with another key than the one viewers saved
    SecondHost,     \* whether a host may start while another one runs
    Overtaking      \* whether connections register in another order than made

Conn == Host \cup Viewer

ASSUME ConnAssumption == Host \cap Viewer = {} /\ None \notin Conn
ASSUME ChoiceAssumption ==
    Stranger \subseteq Host /\ SecondHost \in BOOLEAN /\ Overtaking \in BOOLEAN

VARIABLES
    \* The server.
    slot,           \* hub.host and hub.viewer
    waiting,        \* connections made and not registered yet, oldest first
    registered,     \* connections between register and unregister
    \* Websockets.
    used,           \* connections made so far
    open,           \* connections whose client end is open
    down, up,       \* what was sent to and by each client, and not read yet
    \* Hosts.
    phase,          \* where run_sessions is suspended
    session,        \* number of the newest session
    current,        \* session that has a peer connection, 0: None
    guest,          \* history: the viewer whose announcement began the session
    accepted,       \* first answer taken for the newest session
    \* Viewer pages.
    configured,     \* pages that have their ICE servers
    pc,             \* offer of the page's peer connection
    handlers,       \* runs of ws.onmessage suspended at an await
    \* History.
    newest,         \* the last connection made, by role
    told            \* <<host, viewer>>: the viewer was announced to the host

serverVars == <<slot, waiting, registered, told>>
socketVars == <<used, open, newest>>
hostVars   == <<phase, session, current, guest, accepted>>
pageVars   == <<configured, pc, handlers>>
vars == <<serverVars, socketVars, down, up, hostVars, pageVars>>

-----------------------------------------------------------------------------
\* Data.

Role(c) == IF c \in Host THEN "host" ELSE "viewer"
OtherRole(c) == IF c \in Host THEN "viewer" ELSE "host"

\* On the wire a message has its type and, offers and answers, a session.  The
\* host that made the offer and the viewer announced or answering are known
\* from outside only (in part the SDP tells them, but nothing here reads it).
Joins == [type : {"viewer-joined"}, host : {None}, viewer : Viewer, session : {0}]
Offers == [type : {"offer"}, host : Host, viewer : {None}, session : Nat]
Answers == [type : {"answer"}, host : Host, viewer : Viewer, session : Nat]

Config == [type |-> "config", host |-> None, viewer |-> None, session |-> 0]
Joined(v) == [type |-> "viewer-joined", host |-> None, viewer |-> v, session |-> 0]
Offer(h, n) == [type |-> "offer", host |-> h, viewer |-> None, session |-> n]
Echoed(v, o) == [o EXCEPT !.viewer = v]
Answer(v, o) == [o EXCEPT !.type = "answer", !.viewer = v]

\* No peer connection; no answer.
Nothing == Config

\* Types; and hosts are sent answers, pages are sent offers, never the reverse.
TypeOK ==
    /\ slot \in [{"host", "viewer"} -> Conn \cup {None}]
    /\ slot["host"] \in Host \cup {None} /\ slot["viewer"] \in Viewer \cup {None}
    /\ waiting \in Seq(Conn) /\ registered \subseteq Conn
    /\ used \subseteq Conn /\ open \subseteq used
    /\ DOMAIN down = Conn /\ DOMAIN up = Conn
    /\ \A h \in Host : down[h] \in Seq({Config} \cup Joins \cup Answers) /\ up[h] \in Seq(Offers)
    /\ \A v \in Viewer : down[v] \in Seq({Config} \cup Offers) /\ up[v] \in Seq(Answers)
    /\ phase \in [Host -> {"config", "select", "start"}]
    /\ session \in [Host -> Nat] /\ current \in [Host -> Nat]
    /\ guest \in [Host -> Viewer \cup {None}]
    /\ accepted \in [Host -> Answers \cup {Nothing}]
    /\ configured \subseteq Viewer
    /\ pc \in [Viewer -> Offers \cup {Nothing}]
    /\ handlers \in [Viewer -> SUBSET [offer : Offers, step : {"describe", "gather"}]]
    /\ newest \in [{"host", "viewer"} -> Conn \cup {None}]
    /\ told \subseteq Host \X Viewer

Init ==
    /\ slot = [r \in {"host", "viewer"} |-> None]
    /\ waiting = <<>> /\ registered = {}
    /\ used = {} /\ open = {}
    /\ down = [c \in Conn |-> <<>>] /\ up = [c \in Conn |-> <<>>]
    /\ phase = [h \in Host |-> "config"]
    /\ session = [h \in Host |-> 0] /\ current = [h \in Host |-> 0]
    /\ guest = [h \in Host |-> None] /\ accepted = [h \in Host |-> Nothing]
    /\ configured = {}
    /\ pc = [v \in Viewer |-> Nothing] /\ handlers = [v \in Viewer |-> {}]
    /\ newest = slot /\ told = {}

-----------------------------------------------------------------------------
\* The server.  Each of its operations holds the hub's lock throughout.

\* WriteMessage: what is written to a connection that has closed is lost.
Sent(queues, c, m) ==
    IF c \in open THEN [queues EXCEPT ![c] = Append(@, m)] ELSE queues

\* Is the host told when c registers and the slots are filled like this?
AnnouncesViewersOnly(c, slots) == c \in Viewer /\ slots["host"] # None
AnnouncesToEmptySlot(c, slots) ==
    slots["host"] # None /\ slots["viewer"] # None /\ slot[Role(c)] = None
Announces(c, slots) == slots["host"] # None /\ slots["viewer"] # None

\* What register writes: the config to c, and then the announcement.
GreetedLast(c, slots) ==
    IF Announces(c, slots)
    THEN Sent(Sent(down, slots["host"], Joined(slots["viewer"])), c, Config)
    ELSE Sent(down, c, Config)
Greeted(c, slots) ==
    IF Announces(c, slots)
    THEN Sent(Sent(down, c, Config), slots["host"], Joined(slots["viewer"]))
    ELSE Sent(down, c, Config)

Register(c) ==
    /\ \E i \in DOMAIN waiting :
         /\ waiting[i] = c /\ (Overtaking \/ i = 1)
         /\ waiting' = SubSeq(waiting, 1, i - 1) \o SubSeq(waiting, i + 1, Len(waiting))
    /\ registered' = registered \cup {c}
    /\ slot' = [slot EXCEPT ![Role(c)] = c]
    /\ down' = Greeted(c, slot')
    /\ told' = IF Announces(c, slot') THEN told \cup {<<slot'["host"], slot'["viewer"]>>}
                                      ELSE told
    /\ UNCHANGED <<socketVars, up, hostVars, pageVars>>

\* Does c give up its role's slot when it ends?
AlwaysClears(c) == TRUE
Clears(c) == slot[Role(c)] = c

\* handleWS ends when it has read everything the closed client had sent.
Unregister(c) ==
    /\ c \in registered \ open
    /\ up[c] = <<>>
    /\ registered' = registered \ {c}
    /\ slot' = IF Clears(c) THEN [slot EXCEPT ![Role(c)] = None] ELSE slot
    /\ UNCHANGED <<waiting, told, socketVars, down, up, hostVars, pageVars>>

\* Whom a message of c is forwarded to.
EveryoneElse(c) == {d \in registered : Role(d) = OtherRole(c)}
Recipients(c) == {slot[OtherRole(c)]} \ {None}

Relay(c) ==
    /\ c \in registered
    /\ up[c] # <<>>
    /\ up' = [up EXCEPT ![c] = Tail(@)]
    /\ down' = [d \in Conn |-> IF d \in Recipients(c) \cap open
                               THEN Append(down[d], Head(up[c])) ELSE down[d]]
    /\ UNCHANGED <<serverVars, socketVars, hostVars, pageVars>>

-----------------------------------------------------------------------------
\* Connections come and go.

Connects(c) ==
    /\ c \notin used
    /\ used' = used \cup {c}
    /\ open' = open \cup {c}
    /\ waiting' = Append(waiting, c)
    /\ newest' = [newest EXCEPT ![Role(c)] = c]
    /\ UNCHANGED <<slot, registered, told, down, up, hostVars, pageVars>>

\* A host process: it connects first, then loads its files and binds the host
\* page's port, which ends a second one on the same Mac (Closes).
HostStarts(h) == (SecondHost \/ open \cap Host = {}) /\ Connects(h)

\* A page is loaded; the one it replaces may still be open.
PageLoads(v) == Connects(v)

\* The client's end closes or is cut: the process ends, the page is left or
\* reloaded, or the network fails, which may lose the last things it sent.
Closes(c) ==
    /\ c \in open
    /\ open' = open \ {c}
    /\ down' = [down EXCEPT ![c] = <<>>]
    /\ \E n \in 0..Len(up[c]) : up' = [up EXCEPT ![c] = SubSeq(@, 1, n)]
    /\ handlers' = [v \in Viewer |-> IF v = c THEN {} ELSE handlers[v]]
    /\ UNCHANGED <<serverVars, used, newest, hostVars, configured, pc>>

Receives(c, type) ==
    /\ c \in open
    /\ down[c] # <<>> /\ Head(down[c]).type = type
    /\ down' = [down EXCEPT ![c] = Tail(@)]

-----------------------------------------------------------------------------
\* Hosts (run_sessions).

\* Waiting for the config, which comes before anything else (ConfigFirst): that
\* this loop, like the page, would drop other messages until then never shows.
HostConfigured(h) ==
    /\ phase[h] = "config"
    /\ Receives(h, "config")
    /\ phase' = [phase EXCEPT ![h] = "select"]
    /\ UNCHANGED <<serverVars, socketVars, up, session, current, guest, accepted, pageVars>>

\* A viewer joined: the old connection is closed, a session begins.
SessionKept(n) == n
NextSession(n) == n + 1

HostJoined(h) ==
    /\ phase[h] = "select"
    /\ Receives(h, "viewer-joined")
    /\ session' = [session EXCEPT ![h] = NextSession(@)]
    /\ current' = [current EXCEPT ![h] = 0]
    /\ guest' = [guest EXCEPT ![h] = Head(down[h]).viewer]
    /\ accepted' = [accepted EXCEPT ![h] = Nothing]
    /\ phase' = [phase EXCEPT ![h] = "start"]
    /\ UNCHANGED <<serverVars, socketVars, up, pageVars>>

\* start_session gathers its candidates and sends the offer ...
HostOffers(h) ==
    /\ h \in open /\ phase[h] = "start"
    /\ up' = [up EXCEPT ![h] = Append(@, Offer(h, session[h]))]
    /\ current' = [current EXCEPT ![h] = session[h]]
    /\ phase' = [phase EXCEPT ![h] = "select"]
    /\ UNCHANGED <<serverVars, socketVars, down, session, guest, accepted, pageVars>>

\* ... or fails, and there is no session until another viewer comes.
HostStartFails(h) ==
    /\ h \in open /\ phase[h] = "start"
    /\ phase' = [phase EXCEPT ![h] = "select"]
    /\ UNCHANGED <<serverVars, socketVars, down, up, session, current, guest,
                   accepted, pageVars>>

\* Is the answer one for the newest session, which is still open?
TakenIfOpen(h, a) == current[h] # 0
Taken(h, a) == a.session = session[h] /\ current[h] # 0

HostAnswered(h) ==
    /\ phase[h] = "select"
    /\ Receives(h, "answer")
    /\ LET a == Head(down[h]) IN
       accepted' = IF Taken(h, a) /\ accepted[h] = Nothing
                   THEN [accepted EXCEPT ![h] = a] ELSE accepted
    /\ UNCHANGED <<serverVars, socketVars, up, phase, session, current, guest, pageVars>>

-----------------------------------------------------------------------------
\* Viewer pages (ws.onmessage, one run of it per message).

PageConfigured(v) ==
    /\ Receives(v, "config")
    /\ configured' = configured \cup {v}
    /\ UNCHANGED <<serverVars, socketVars, up, hostVars, pc, handlers>>

\* An offer: the page's connection is replaced.
PageOffered(v) ==
    /\ Receives(v, "offer")
    /\ v \in configured
    /\ LET o == Head(down[v]) IN
       /\ o.host \notin Stranger
       /\ pc' = [pc EXCEPT ![v] = o]
       /\ handlers' = [handlers EXCEPT ![v] = @ \cup {[offer |-> o, step |-> "describe"]}]
    /\ UNCHANGED <<serverVars, socketVars, up, hostVars, configured>>

\* The host's key is not the saved one: the old connection is closed all the
\* same, and the page answers nothing.
PageRefuses(v) ==
    /\ Receives(v, "offer")
    /\ v \in configured
    /\ Head(down[v]).host \in Stranger
    /\ pc' = [pc EXCEPT ![v] = Nothing]
    /\ UNCHANGED <<serverVars, socketVars, up, hostVars, configured, handlers>>

\* Is a run of the handler, after an await, still about the page's connection?
AlwaysCurrent(v, o) == TRUE
StillCurrent(v, o) == pc[v] = o

\* The answer has been created: wait for candidates, unless an offer came in.
PageDescribed(v, o) ==
    /\ [offer |-> o, step |-> "describe"] \in handlers[v]
    /\ handlers' = [handlers EXCEPT ![v] =
                      (@ \ {[offer |-> o, step |-> "describe"]}) \cup
                      (IF StillCurrent(v, o) THEN {[offer |-> o, step |-> "gather"]} ELSE {})]
    /\ UNCHANGED <<serverVars, socketVars, down, up, hostVars, configured, pc>>

\* Gathering is complete or has taken 3 seconds.
PageAnswers(v, o) ==
    /\ [offer |-> o, step |-> "gather"] \in handlers[v]
    /\ handlers' = [handlers EXCEPT ![v] = @ \ {[offer |-> o, step |-> "gather"]}]
    /\ up' = IF StillCurrent(v, o) THEN [up EXCEPT ![v] = Append(@, Answer(v, o))] ELSE up
    /\ UNCHANGED <<serverVars, socketVars, down, hostVars, configured, pc>>

-----------------------------------------------------------------------------
HostStep(h) ==
    \/ HostConfigured(h) \/ HostJoined(h) \/ HostAnswered(h)
    \/ HostOffers(h) \/ HostStartFails(h)

PageStep(v) ==
    \/ PageConfigured(v) \/ PageOffered(v) \/ PageRefuses(v)
    \/ \E hd \in handlers[v] : PageDescribed(v, hd.offer) \/ PageAnswers(v, hd.offer)

Next ==
    \/ \E c \in Conn : Register(c) \/ Unregister(c) \/ Relay(c) \/ Closes(c)
    \/ \E h \in Host : HostStarts(h) \/ HostStep(h)
    \/ \E v \in Viewer : PageLoads(v) \/ PageStep(v)

Spec == Init /\ [][Next]_vars

\* The server's goroutines, the host's task and the page's event loop run when
\* they can; gathering ends by itself on the host, after 3 seconds on the page.
\* Nobody has to start, load, reload or close anything.
Fairness ==
    /\ \A c \in Conn : WF_vars(Register(c)) /\ WF_vars(Unregister(c)) /\ WF_vars(Relay(c))
    /\ \A h \in Host : WF_vars(HostStep(h))
    /\ \A v \in Viewer : WF_vars(PageStep(v))

FairSpec == Spec /\ Fairness

-----------------------------------------------------------------------------
\* Properties.

\* While the newest connection of a role is there it holds the role's slot,
\* whenever the server notices that an older one has gone (main.go:137-146).
SlotIsNewest ==
    \A r \in {"host", "viewer"} : newest[r] \in registered => slot[r] = newest[r]

\* The newest host was told of the newest viewer, whichever came first
\* (main.go:119-135).
Introduced ==
    newest["host"] \in registered /\ newest["viewer"] \in registered =>
        <<newest["host"], newest["viewer"]>> \in told

\* The first thing a client gets is its ICE servers (main.go:113-126).
ConfigFirst ==
    \A c \in Conn : down[c] # <<>> /\ (c \in Host => phase[c] = "config")
                                  /\ (c \in Viewer => c \notin configured)
                   => Head(down[c]) = Config

\* The answer a host takes to its own offer is from the viewer whose arrival
\* began the session, not from a page that was replaced or that replaced it:
\* the offer may have gone to another page than the one announced, but that
\* page's announcement is then ahead of its answer (webrtc_host.rs:84-88).
AcceptedIsNewest ==
    \A h \in Host : accepted[h] # Nothing /\ accepted[h].host = h =>
        accepted[h].viewer = guest[h]

\* A page's answers reach a host in the order of the offers they answer, however
\* long each of them gathered: a run of the handler that was overtaken by a newer
\* offer sends nothing any more (index.html:378-418).
AnswerTo(m, h, v) == m.type = "answer" /\ m.host = h /\ m.viewer = v
AnswersInOrder ==
    \A h \in Host, v \in Viewer :
        LET through == down[h] \o up[v]
        IN  \A i, j \in DOMAIN through :
              i < j /\ AnswerTo(through[i], h, v) /\ AnswerTo(through[j], h, v)
              => through[i].session < through[j].session

\* Where the offer of host h's session n, or the answer to it, is at the moment:
\* in a queue, or with a run of a page's handler.
Carries(m, h, n) == m.type \in {"offer", "answer"} /\ m.host = h /\ m.session = n
InQueues(name, queues, h, n) ==
    UNION {{<<name, c>>} \X {i \in DOMAIN queues[c] : Carries(queues[c][i], h, n)} : c \in Conn}
OnPages(h, n) ==
    UNION {{<<"page", v>>} \X {hd \in handlers[v] : Carries(hd.offer, h, n)} : v \in Viewer}
Places(h, n) == InQueues("down", down, h, n) \cup InQueues("up", up, h, n) \cup OnPages(h, n)

\* An offer comes to one page, and gets one answer at most: it is never in two
\* places, and once it or its answer is gone it does not come back.  This is what
\* HostSession assumes of the world beyond the host (main.go:151-165,
\* index.html:393-418).
AnsweredOnce ==
    [][\A h \in Host : \A n \in 1..session'[h] :
         /\ \A p, q \in Places(h, n)' : p = q
         /\ (Places(h, n) = {} /\ Places(h, n)' # {}) => phase[h] = "start" /\ session[h] = n]_vars

\* The newest host and the newest viewer are both there, and can be one pair.
Together(h, v) ==
    newest["host"] = h /\ newest["viewer"] = v /\ {h, v} \subseteq open

Served(h, v) == accepted[h] = Answer(v, Offer(h, session[h]))

\* While they stay, the host comes to hold that viewer's answer to its newest
\* offer, unless its session for it could not start (README "reloading the
\* viewer (or restarting the host) starts a new session").
NewestServed ==
    \A h \in Host \ Stranger, v \in Viewer :
        Together(h, v) ~>
            \/ ~Together(h, v)
            \/ Served(h, v)
            \/ guest[h] = v /\ phase[h] = "select" /\ current[h] = 0

\* The only connection of its role that there is.
Alone(c) ==
    /\ c \in open /\ registered \cap {d \in Conn : Role(d) = Role(c)} = {c}
    /\ \A i \in DOMAIN waiting : Role(waiting[i]) # Role(c)

\* When one host and one viewer are connected, and nobody else is, the host has
\* heard of the viewer (main_test.go:212 "The host must hear about every viewer,
\* whichever side connects first").
HeardOfEveryViewer ==
    \A h \in Host, v \in Viewer : Alone(h) /\ Alone(v) => <<h, v>> \in told
=============================================================================
