------------------------ MODULE SignalingAnswerProofs ------------------------
(***************************************************************************)
(* Proofs about offers and answers on their way between hosts and pages:   *)
(* a host takes the answer of the viewer it was told of, a page's answers  *)
(* come in the order of the offers, and an offer gets one at most.         *)
(***************************************************************************)
EXTENDS SignalingProofs

USE ConnAssumption, ChoiceAssumption

-----------------------------------------------------------------------------
\* What a queue holds of one kind, and whether in the order of the sessions.

Kind(m, type, h, v) == m.type = type /\ m.host = h /\ m.viewer = v
Numbers(q, type, h, v) == {q[i].session : i \in {j \in DOMAIN q : Kind(q[j], type, h, v)}}
Rising(q, type, h, v) ==
    \A i, j \in DOMAIN q :
        i < j /\ Kind(q[i], type, h, v) /\ Kind(q[j], type, h, v) => q[i].session < q[j].session

LEMMA NumbersEmpty ==
    ASSUME NEW type, NEW h, NEW v
    PROVE  Numbers(<<>>, type, h, v) = {} /\ Rising(<<>>, type, h, v)
BY DEF Numbers, Rising

LEMMA NumbersAdded ==
    ASSUME NEW S, NEW q \in Seq(S), NEW m \in S, NEW type, NEW h, NEW v
    PROVE  /\ Numbers(q, type, h, v) \subseteq Numbers(Append(q, m), type, h, v)
           /\ \A n \in Numbers(Append(q, m), type, h, v) :
                n \in Numbers(q, type, h, v) \/ (Kind(m, type, h, v) /\ n = m.session)
           /\ /\ Rising(q, type, h, v)
              /\ Kind(m, type, h, v) => \A n \in Numbers(q, type, h, v) : n < m.session
              => Rising(Append(q, m), type, h, v)
<1> DEFINE t == Append(q, m)
           last == Len(q) + 1
<1>1. /\ Len(q) \in Nat /\ DOMAIN q = 1..Len(q) /\ DOMAIN t = 1..last
      /\ \A i \in 1..Len(q) : t[i] = q[i]
      /\ t[last] = m
  BY Added, LenProperties
<1> HIDE DEF t
<1>2. \A i \in DOMAIN t : (i \in DOMAIN q /\ t[i] = q[i]) \/ (i = last /\ t[i] = m)
  BY <1>1
<1>3. Numbers(q, type, h, v) \subseteq Numbers(t, type, h, v)
  BY <1>1 DEF Numbers
<1>4. \A n \in Numbers(t, type, h, v) :
        n \in Numbers(q, type, h, v) \/ (Kind(m, type, h, v) /\ n = m.session)
  BY <1>2 DEF Numbers
<1>5. ASSUME Rising(q, type, h, v),
             Kind(m, type, h, v) => \A n \in Numbers(q, type, h, v) : n < m.session,
             NEW i \in DOMAIN t, NEW j \in DOMAIN t,
             i < j, Kind(t[i], type, h, v), Kind(t[j], type, h, v)
      PROVE  t[i].session < t[j].session
  <2>1. i \in DOMAIN q /\ t[i] = q[i]
    BY <1>1, <1>2, <1>5
  <2>2. CASE j \in DOMAIN q /\ t[j] = q[j]
    BY <1>5, <2>1, <2>2 DEF Rising
  <2>3. CASE j = last /\ t[j] = m
    BY <1>5, <2>1, <2>3 DEF Numbers
  <2> QED
    BY <1>2, <2>2, <2>3
<1> QED
  BY <1>3, <1>4, <1>5 DEF Rising, t

LEMMA NumbersSkipped ==
    ASSUME NEW S, NEW q \in Seq(S), NEW m \in S, NEW type, NEW h, NEW v,
           ~Kind(m, type, h, v)
    PROVE  /\ Append(q, m) \in Seq(S)
           /\ Numbers(Append(q, m), type, h, v) = Numbers(q, type, h, v)
           /\ Rising(q, type, h, v) => Rising(Append(q, m), type, h, v)
<1>1. /\ Numbers(q, type, h, v) \subseteq Numbers(Append(q, m), type, h, v)
      /\ \A n \in Numbers(Append(q, m), type, h, v) : n \in Numbers(q, type, h, v)
      /\ Rising(q, type, h, v) => Rising(Append(q, m), type, h, v)
  BY NumbersAdded
<1> QED
  BY <1>1, AppendProperties

LEMMA NumbersTaken ==
    ASSUME NEW S, NEW q \in Seq(S), q # <<>>, NEW type, NEW h, NEW v
    PROVE  /\ Numbers(Tail(q), type, h, v) \subseteq Numbers(q, type, h, v)
           /\ Kind(Head(q), type, h, v) => Head(q).session \in Numbers(q, type, h, v)
           /\ \A n \in Numbers(q, type, h, v) :
                \/ n \in Numbers(Tail(q), type, h, v)
                \/ Kind(Head(q), type, h, v) /\ n = Head(q).session
           /\ Rising(q, type, h, v) =>
                /\ Rising(Tail(q), type, h, v)
                /\ Kind(Head(q), type, h, v) =>
                     \A n \in Numbers(Tail(q), type, h, v) : Head(q).session < n
<1> DEFINE t == Tail(q)
<1>1. /\ Len(q) \in Nat \ {0} /\ Len(t) = Len(q) - 1 /\ Head(q) = q[1]
      /\ DOMAIN q = 1..Len(q) /\ DOMAIN t = 1..Len(t)
      /\ \A i \in 1..Len(t) : t[i] = q[i + 1]
  <2>1. t \in Seq(S)
    BY FirstOff
  <2> QED
    BY <2>1, FirstOff, LenProperties
<1> HIDE DEF t
<1>2. \A i \in DOMAIN t : i + 1 \in DOMAIN q /\ t[i] = q[i + 1] /\ 1 < i + 1
  BY <1>1
<1>3. 1 \in DOMAIN q /\ \A i \in DOMAIN q : i = 1 \/ (i - 1 \in DOMAIN t /\ t[i - 1] = q[i])
  <2>1. \A i \in DOMAIN q : i # 1 => i - 1 \in DOMAIN t /\ i - 1 + 1 = i
    BY <1>1
  <2> QED
    BY <1>1, <2>1
<1>4. Numbers(t, type, h, v) \subseteq Numbers(q, type, h, v)
  BY <1>2 DEF Numbers
<1>5. Kind(Head(q), type, h, v) => Head(q).session \in Numbers(q, type, h, v)
  BY <1>1, <1>3 DEF Numbers
<1>6. ASSUME NEW i \in DOMAIN q, Kind(q[i], type, h, v)
      PROVE  \/ q[i].session \in Numbers(t, type, h, v)
             \/ Kind(Head(q), type, h, v) /\ q[i].session = Head(q).session
  BY <1>1, <1>3, <1>6 DEF Numbers
<1>7. \A n \in Numbers(q, type, h, v) :
        \/ n \in Numbers(t, type, h, v)
        \/ Kind(Head(q), type, h, v) /\ n = Head(q).session
  BY <1>6 DEF Numbers
<1>8. ASSUME Rising(q, type, h, v)
      PROVE  /\ Rising(t, type, h, v)
             /\ Kind(Head(q), type, h, v) => \A n \in Numbers(t, type, h, v) : Head(q).session < n
  <2>1. ASSUME NEW i \in DOMAIN t, NEW j \in DOMAIN t,
               i < j, Kind(t[i], type, h, v), Kind(t[j], type, h, v)
        PROVE  t[i].session < t[j].session
    <3>1. i + 1 < j + 1
      BY <1>1, <2>1
    <3> QED
      BY <1>2, <1>8, <2>1, <3>1 DEF Rising
  <2>2. ASSUME Kind(Head(q), type, h, v), NEW i \in DOMAIN t, Kind(t[i], type, h, v)
        PROVE  Head(q).session < t[i].session
    BY <1>1, <1>2, <1>3, <1>8, <2>2 DEF Rising
  <2> QED
    BY <2>1, <2>2 DEF Rising, Numbers
<1> QED
  BY <1>4, <1>5, <1>7, <1>8 DEF t

LEMMA NumbersCut ==
    ASSUME NEW S, NEW q \in Seq(S), NEW n \in 0..Len(q), NEW type, NEW h, NEW v
    PROVE  /\ Numbers(SubSeq(q, 1, n), type, h, v) \subseteq Numbers(q, type, h, v)
           /\ Rising(q, type, h, v) => Rising(SubSeq(q, 1, n), type, h, v)
<1> DEFINE t == SubSeq(q, 1, n)
<1>1. /\ Len(q) \in Nat /\ DOMAIN q = 1..Len(q) /\ DOMAIN t = 1..n
      /\ \A i \in 1..n : t[i] = q[i]
  BY Prefix, LenProperties
<1> HIDE DEF t
<1>2. \A i \in DOMAIN t : i \in DOMAIN q /\ t[i] = q[i]
  BY <1>1
<1> QED
  BY <1>2 DEF Numbers, Rising, t

-----------------------------------------------------------------------------
\* What a step does to the queues and the handlers, of each connection.

LEMMA UpSteps ==
    ASSUME TypeOK, [Next]_vars, NEW c \in Conn
    PROVE  \/ up'[c] = up[c]
           \/ /\ Relay(c)
              /\ up[c] # <<>> /\ Head(up[c]) \in Outbound(c) /\ up'[c] = Tail(up[c])
           \/ /\ Closes(c)
              /\ \E n \in 0..Len(up[c]) : up'[c] = SubSeq(up[c], 1, n)
           \/ /\ c \in Host /\ HostOffers(c)
              /\ up'[c] = Append(up[c], Offer(c, session[c]))
           \/ \E o \in Offers :
                /\ c \in Viewer /\ PageAnswers(c, o) /\ pc[c] = o
                /\ [offer |-> o, step |-> "gather"] \in handlers[c]
                /\ up'[c] = Append(up[c], Answer(c, o))
<1>0. UpOK(up) /\ PageTypes
  BY TypeParts
<1>1. ASSUME NEW d \in Conn, Register(d) \/ Unregister(d) \/ Connects(d) \/ Reads(d)
      PROVE  up'[c] = up[c]
  <2>1. CASE Register(d) \/ Unregister(d) \/ Connects(d)
    BY <2>1 DEF Register, Unregister, Connects
  <2>2. CASE Reads(d)
    BY <2>2, ReadsParts
  <2> QED
    BY <1>1, <2>1, <2>2
<1>2. ASSUME NEW d \in Conn, Relay(d)
      PROVE  \/ up'[c] = up[c]
             \/ /\ Relay(c)
                /\ up[c] # <<>> /\ Head(up[c]) \in Outbound(c) /\ up'[c] = Tail(up[c])
  BY <1>2, RelayParts
<1>3. ASSUME NEW d \in Conn, Closes(d)
      PROVE  \/ up'[c] = up[c]
             \/ Closes(c) /\ \E n \in 0..Len(up[c]) : up'[c] = SubSeq(up[c], 1, n)
  BY <1>3, ClosesParts
<1>4. ASSUME NEW h \in Host, HostOffers(h) \/ HostStartFails(h)
      PROVE  \/ up'[c] = up[c]
             \/ c \in Host /\ HostOffers(c) /\ up'[c] = Append(up[c], Offer(c, session[c]))
  <2>1. CASE HostStartFails(h)
    BY <2>1 DEF HostStartFails
  <2>2. CASE HostOffers(h)
    <3>1. up' = [up EXCEPT ![h] = Append(up[h], Offer(h, session[h]))]
      BY <2>2 DEF HostOffers
    <3>2. DOMAIN up = Conn
      BY <1>0 DEF UpOK
    <3> QED
      BY <2>2, <3>1, <3>2
  <2> QED
    BY <1>4, <2>1, <2>2
<1>5. ASSUME NEW v \in Viewer, NEW hd \in handlers[v],
             PageDescribed(v, hd.offer) \/ PageAnswers(v, hd.offer)
      PROVE  \/ up'[c] = up[c]
             \/ \E o \in Offers :
                  /\ c \in Viewer /\ PageAnswers(c, o) /\ pc[c] = o
                  /\ [offer |-> o, step |-> "gather"] \in handlers[c]
                  /\ up'[c] = Append(up[c], Answer(c, o))
  <2>1. CASE PageDescribed(v, hd.offer)
    BY <2>1 DEF PageDescribed
  <2>2. CASE PageAnswers(v, hd.offer)
    <3> DEFINE o == hd.offer
    <3>1. o \in Offers
      BY <1>0 DEF PageTypes
    <3>2. /\ [offer |-> o, step |-> "gather"] \in handlers[v]
          /\ up' = up \/ (pc[v] = o /\ up' = [up EXCEPT ![v] = Append(up[v], Answer(v, o))])
      BY <2>2 DEF PageAnswers, StillCurrent
    <3>3. DOMAIN up = Conn
      BY <1>0 DEF UpOK
    <3> HIDE DEF o
    <3>4. CASE pc[v] = o /\ up' = [up EXCEPT ![v] = Append(up[v], Answer(v, o))] /\ c = v
      <4>1. PageAnswers(c, o)
        BY <2>2, <3>4 DEF o
      <4>2. up'[c] = Append(up[c], Answer(c, o))
        BY <3>3, <3>4
      <4> QED
        BY <3>1, <3>2, <3>4, <4>1, <4>2
    <3>5. CASE c # v \/ up' = up
      BY <3>2, <3>3, <3>5
    <3> QED
      BY <3>2, <3>4, <3>5
  <2> QED
    BY <1>5, <2>1, <2>2
<1>6. CASE UNCHANGED vars
  BY <1>6 DEF vars
<1> QED
  BY <1>1, <1>2, <1>3, <1>4, <1>5, <1>6, StepKinds DEF Works

LEMMA DownSteps ==
    ASSUME TypeOK, [Next]_vars, NEW c \in Conn
    PROVE  \/ down'[c] = down[c]
           \/ \E d \in Conn : Register(d) /\ down'[c] = Second(d, c, slot')
           \/ \E d \in Conn :
                /\ Relay(d) /\ up[d] # <<>> /\ Head(up[d]) \in Outbound(d)
                /\ c = slot[OtherRole(d)] /\ Role(c) = OtherRole(d) /\ c \in open
                /\ down'[c] = Append(down[c], Head(up[d]))
           \/ Closes(c) /\ down'[c] = <<>>
           \/ Reads(c) /\ c \in open /\ down[c] # <<>> /\ down'[c] = Tail(down[c])
<1>1. ASSUME NEW d \in Conn, Register(d)
      PROVE  down'[c] = Second(d, c, slot')
  BY <1>1, RegisterParts
<1>2. ASSUME NEW d \in Conn, Unregister(d) \/ Connects(d)
      PROVE  down'[c] = down[c]
  BY <1>2 DEF Unregister, Connects
<1>3. ASSUME NEW d \in Conn, Relay(d)
      PROVE  \/ down'[c] = down[c]
             \/ /\ Relay(d) /\ up[d] # <<>> /\ Head(up[d]) \in Outbound(d)
                /\ c = slot[OtherRole(d)] /\ Role(c) = OtherRole(d) /\ c \in open
                /\ down'[c] = Append(down[c], Head(up[d]))
  BY <1>3, RelayParts
<1>4. ASSUME NEW d \in Conn, Closes(d)
      PROVE  down'[c] = down[c] \/ (Closes(c) /\ down'[c] = <<>>)
  BY <1>4, ClosesParts
<1>5. ASSUME NEW d \in Conn, Reads(d)
      PROVE  \/ down'[c] = down[c]
             \/ Reads(c) /\ c \in open /\ down[c] # <<>> /\ down'[c] = Tail(down[c])
  BY <1>5, ReadsParts
<1>6. CASE Works
  BY <1>6, WorksParts
<1> QED
  BY <1>1, <1>2, <1>3, <1>4, <1>5, <1>6, StepKinds

\* Handlers begin with an offer that was read, and only go on from there.
LEMMA HandlerSteps ==
    ASSUME TypeOK, [Next]_vars, NEW v \in Viewer, NEW hd \in handlers'[v]
    PROVE  \/ hd \in handlers[v]
           \/ /\ hd = [offer |-> hd.offer, step |-> "gather"] /\ PageDescribed(v, hd.offer)
              /\ [offer |-> hd.offer, step |-> "describe"] \in handlers[v]
           \/ /\ hd = [offer |-> Head(down[v]), step |-> "describe"] /\ PageOffered(v)
              /\ hd.offer = Head(down[v])
<1>0. PageTypes
  BY TypeParts
<1>1. ASSUME NEW d \in Conn, Register(d) \/ Unregister(d) \/ Connects(d) \/ Relay(d)
      PROVE  handlers' = handlers
  BY <1>1 DEF Register, Unregister, Connects, Relay, pageVars
<1>2. ASSUME NEW d \in Conn, Closes(d)
      PROVE  hd \in handlers[v]
  BY <1>2 DEF Closes
<1>3. ASSUME NEW d \in Conn, Reads(d)
      PROVE  \/ hd \in handlers[v]
             \/ /\ hd = [offer |-> Head(down[v]), step |-> "describe"] /\ PageOffered(v)
                /\ hd.offer = Head(down[v])
  <2>1. CASE d \in Host /\ HostReads(d)
    BY <2>1 DEF HostReads, HostConfigured, HostJoined, HostAnswered, pageVars
  <2>2. CASE d \in Viewer /\ (PageConfigured(d) \/ PageRefuses(d))
    BY <2>2 DEF PageConfigured, PageRefuses
  <2>3. CASE d \in Viewer /\ PageOffered(d)
    <3>1. handlers' = [handlers EXCEPT ![d] =
                         handlers[d] \cup {[offer |-> Head(down[d]), step |-> "describe"]}]
      BY <2>3 DEF PageOffered
    <3> QED
      BY <1>0, <2>3, <3>1 DEF PageTypes
  <2> QED
    BY <1>3, <2>1, <2>2, <2>3 DEF Reads, PageReads
<1>4. ASSUME NEW h \in Host, HostOffers(h) \/ HostStartFails(h)
      PROVE  handlers' = handlers
  BY <1>4 DEF HostOffers, HostStartFails, pageVars
<1>5. ASSUME NEW w \in Viewer, NEW x \in handlers[w],
             PageDescribed(w, x.offer) \/ PageAnswers(w, x.offer)
      PROVE  \/ hd \in handlers[v]
             \/ /\ hd = [offer |-> hd.offer, step |-> "gather"] /\ PageDescribed(v, hd.offer)
                /\ [offer |-> hd.offer, step |-> "describe"] \in handlers[v]
  <2> DEFINE o == x.offer
             done == [offer |-> o, step |-> "describe"]
             next == [offer |-> o, step |-> "gather"]
  <2>1. CASE PageDescribed(w, o)
    <3>1. /\ done \in handlers[w]
          /\ \/ handlers' = [handlers EXCEPT ![w] = (handlers[w] \ {done}) \cup {next}]
             \/ handlers' = [handlers EXCEPT ![w] = (handlers[w] \ {done}) \cup {}]
      BY <2>1 DEF PageDescribed
    <3>2. hd \in handlers[v] \/ (w = v /\ hd = next)
      BY <1>0, <3>1 DEF PageTypes
    <3>3. hd = next => hd.offer = o
      OBVIOUS
    <3> QED
      BY <2>1, <3>1, <3>2, <3>3
  <2>2. CASE PageAnswers(w, o)
    BY <1>0, <2>2 DEF PageAnswers, PageTypes
  <2> QED
    BY <1>5, <2>1, <2>2
<1>6. CASE UNCHANGED vars
  BY <1>6 DEF vars, pageVars
<1> QED
  BY <1>1, <1>2, <1>3, <1>4, <1>5, <1>6, StepKinds DEF Works

\* A host's session begins when it reads an announcement, and only then.
LEMMA HostSteps ==
    ASSUME TypeOK, [Next]_vars, NEW h \in Host
    PROVE  \/ /\ HostJoined(h)
              /\ session'[h] = session[h] + 1 /\ guest'[h] = Head(down[h]).viewer
              /\ accepted'[h] = Nothing
           \/ /\ session'[h] = session[h] /\ guest'[h] = guest[h]
              /\ phase'[h] = "start" => phase[h] = "start" /\ ~HostOffers(h)
              /\ \/ accepted'[h] = accepted[h]
                 \/ /\ HostAnswered(h) /\ Taken(h, Head(down[h]))
                    /\ accepted'[h] = Head(down[h])
<1>0. HostTypes
  BY TypeParts
<1> DEFINE Same ==
      /\ session'[h] = session[h] /\ guest'[h] = guest[h]
      /\ phase'[h] = "start" => phase[h] = "start" /\ ~HostOffers(h)
      /\ accepted'[h] = accepted[h]
<1>1. ASSUME hostVars' = hostVars
      PROVE  Same
  <2>1. UNCHANGED <<phase, session, guest, accepted>>
    BY <1>1 DEF hostVars
  <2>2. HostOffers(h) => phase'[h] # "start"
    BY <1>0 DEF HostOffers, HostTypes
  <2> QED
    BY <2>1, <2>2
<1>2. ASSUME NEW d \in Conn,
             Register(d) \/ Unregister(d) \/ Connects(d) \/ Relay(d) \/ Closes(d)
      PROVE  hostVars' = hostVars
  BY <1>2 DEF Register, Unregister, Connects, Relay, Closes
<1>3. ASSUME NEW v \in Viewer, PageReads(v)
      PROVE  hostVars' = hostVars
  BY <1>3 DEF PageReads, PageConfigured, PageOffered, PageRefuses
<1>4. ASSUME NEW v \in Viewer, NEW o, PageDescribed(v, o) \/ PageAnswers(v, o)
      PROVE  hostVars' = hostVars
  BY <1>4 DEF PageDescribed, PageAnswers
<1>5. ASSUME NEW g \in Host, HostConfigured(g) \/ HostOffers(g) \/ HostStartFails(g)
      PROVE  Same
  <2>1. UNCHANGED <<session, guest, accepted>>
    BY <1>5 DEF HostConfigured, HostOffers, HostStartFails
  <2>2. phase'[h] = phase[h] \/ phase'[h] = "select"
    BY <1>0, <1>5 DEF HostConfigured, HostOffers, HostStartFails, HostTypes
  <2>3. HostOffers(h) => phase'[h] # "start"
    BY <1>0 DEF HostOffers, HostTypes
  <2> QED
    BY <2>1, <2>2, <2>3
<1>6. ASSUME NEW g \in Host, HostJoined(g)
      PROVE  \/ Same
             \/ /\ HostJoined(h)
                /\ session'[h] = session[h] + 1 /\ guest'[h] = Head(down[h]).viewer
                /\ accepted'[h] = Nothing
  <2>1. CASE g = h
    BY <1>0, <1>6, <2>1 DEF HostJoined, NextSession, HostTypes
  <2>2. CASE g # h
    <3>1. /\ session'[h] = session[h] /\ guest'[h] = guest[h] /\ phase'[h] = phase[h]
          /\ accepted'[h] = accepted[h]
      BY <1>0, <1>6, <2>2 DEF HostJoined, HostTypes
    <3>2. HostOffers(h) => phase'[h] # "start"
      BY <1>0 DEF HostOffers, HostTypes
    <3> QED
      BY <3>1, <3>2
  <2> QED
    BY <2>1, <2>2
<1>7. ASSUME NEW g \in Host, HostAnswered(g)
      PROVE  \/ Same
             \/ /\ session'[h] = session[h] /\ guest'[h] = guest[h]
                /\ phase'[h] = "start" => phase[h] = "start" /\ ~HostOffers(h)
                /\ HostAnswered(h) /\ Taken(h, Head(down[h]))
                /\ accepted'[h] = Head(down[h])
  <2>1. UNCHANGED <<phase, session, guest>>
    BY <1>7 DEF HostAnswered
  <2>2. HostOffers(h) => phase'[h] # "start"
    BY <1>0 DEF HostOffers, HostTypes
  <2>3. \/ accepted'[h] = accepted[h]
        \/ HostAnswered(h) /\ Taken(h, Head(down[h])) /\ accepted'[h] = Head(down[h])
    BY <1>0, <1>7 DEF HostAnswered, HostTypes
  <2> QED
    BY <2>1, <2>2, <2>3
<1>8. CASE UNCHANGED vars
  <2>1. hostVars' = hostVars
    BY <1>8 DEF vars
  <2> QED
    BY <1>1, <2>1
<1> QED
  BY <1>1, <1>2, <1>3, <1>4, <1>5, <1>6, <1>7, <1>8, StepKinds DEF Works, Reads, HostReads

-----------------------------------------------------------------------------
\* Offers and answers on their way.

\* Offers of host h that wait at the server, are on their way to page v or with
\* it; answers of v to offers of h that wait at the server, and on their way to g.
Going(h) == Numbers(up[h], "offer", h, None)
Coming(h, v) == Numbers(down[v], "offer", h, None)
OnPage(h, v) == {hd.offer.session : hd \in {x \in handlers[v] : x.offer.host = h}}
Leaving(h, v) == Numbers(up[v], "answer", h, v)
Arriving(g, h, v) == Numbers(down[g], "answer", h, v)

\* What page v has to do with, from the relay of an offer to that of an answer.
Held(h, v) == Coming(h, v) \cup OnPage(h, v) \cup Leaving(h, v)

\* Hosts send their own offers, and pages their own answers.
Own ==
    /\ \A h \in Host : \A i \in DOMAIN up[h] : up[h][i].host = h
    /\ \A v \in Viewer : \A i \in DOMAIN up[v] : up[v][i].viewer = v

LEMMA OwnHead ==
    ASSUME TypeOK, Own, NEW c \in Conn, up[c] # <<>>
    PROVE  /\ c \in Host => Kind(Head(up[c]), "offer", c, None)
           /\ c \in Viewer => Head(up[c]).type = "answer" /\ Head(up[c]).viewer = c
<1>1. up[c] \in Seq(Outbound(c))
  BY TypeParts DEF UpOK
<1>2. Head(up[c]) \in Outbound(c) /\ 1 \in DOMAIN up[c] /\ Head(up[c]) = up[c][1]
  BY <1>1, FirstOff, LenProperties
<1>3. \A m \in Offers : m.type = "offer" /\ m.viewer = None
  BY DEF Offers
<1> QED
  BY <1>2, <1>3, Sides, Kinds DEF Own, Kind

LEMMA OwnKept ==
    ASSUME TypeOK, Own, [Next]_vars
    PROVE  Own'
<1>1. ASSUME NEW c \in Conn, NEW i \in DOMAIN up'[c]
      PROVE  \/ \E j \in DOMAIN up[c] : up'[c][i] = up[c][j]
             \/ c \in Host /\ up'[c][i] = Offer(c, session[c])
             \/ c \in Viewer /\ \E o \in Offers : up'[c][i] = Answer(c, o)
  <2>0. up[c] \in Seq(Outbound(c)) /\ Len(up[c]) \in Nat /\ DOMAIN up[c] = 1..Len(up[c])
    <3>1. up[c] \in Seq(Outbound(c))
      BY TypeParts DEF UpOK
    <3> QED
      BY <3>1, LenProperties
  <2>1. CASE up'[c] = up[c]
    BY <1>1, <2>1
  <2>2. CASE up[c] # <<>> /\ up'[c] = Tail(up[c])
    <3>1. /\ DOMAIN Tail(up[c]) = 1..Len(up[c]) - 1
          /\ \A k \in 1..Len(up[c]) - 1 : Tail(up[c])[k] = up[c][k + 1]
      <4>1. Tail(up[c]) \in Seq(Outbound(c)) /\ Len(Tail(up[c])) = Len(up[c]) - 1
            /\ \A k \in 1..Len(Tail(up[c])) : Tail(up[c])[k] = up[c][k + 1]
        BY <2>0, <2>2, FirstOff
      <4> QED
        BY <4>1, LenProperties
    <3>2. i + 1 \in DOMAIN up[c] /\ up'[c][i] = up[c][i + 1]
      BY <1>1, <2>0, <2>2, <3>1
    <3> QED
      BY <3>2
  <2>3. ASSUME NEW n \in 0..Len(up[c]), up'[c] = SubSeq(up[c], 1, n)
        PROVE  \E j \in DOMAIN up[c] : up'[c][i] = up[c][j]
    <3>1. DOMAIN SubSeq(up[c], 1, n) = 1..n /\ \A k \in 1..n : SubSeq(up[c], 1, n)[k] = up[c][k]
      BY <2>0, Prefix, LenProperties
    <3>2. i \in DOMAIN up[c] /\ up'[c][i] = up[c][i]
      BY <1>1, <2>0, <2>3, <3>1
    <3> QED
      BY <3>2
  <2>4. ASSUME NEW m \in Outbound(c), up'[c] = Append(up[c], m)
        PROVE  (\E j \in DOMAIN up[c] : up'[c][i] = up[c][j]) \/ up'[c][i] = m
    <3>1. /\ DOMAIN Append(up[c], m) = 1..Len(up[c]) + 1
          /\ \A k \in 1..Len(up[c]) : Append(up[c], m)[k] = up[c][k]
          /\ Append(up[c], m)[Len(up[c]) + 1] = m
      BY <2>0, Added, LenProperties
    <3> QED
      BY <1>1, <2>0, <2>4, <3>1
  <2>5. c \in Host => Offer(c, session[c]) \in Outbound(c)
    BY TypeParts, MessageTypes, Sides DEF HostTypes
  <2>6. c \in Viewer => \A o \in Offers : Answer(c, o) \in Outbound(c)
    BY MessageTypes, Sides
  <2> QED
    BY <2>1, <2>2, <2>3, <2>4, <2>5, <2>6, UpSteps
<1>2. ASSUME NEW h \in Host, NEW i \in DOMAIN up'[h] PROVE up'[h][i].host = h
  <2>1. h \in Conn /\ h \notin Viewer /\ Offer(h, session[h]).host = h
    BY Sides DEF Offer
  <2> QED
    BY <1>1, <1>2, <2>1 DEF Own
<1>3. ASSUME NEW v \in Viewer, NEW i \in DOMAIN up'[v] PROVE up'[v][i].viewer = v
  <2>1. v \in Conn /\ v \notin Host /\ \A o \in Offers : Answer(v, o).viewer = v
    BY Sides DEF Answer, Offers
  <2> QED
    BY <1>1, <1>3, <2>1 DEF Own
<1> QED
  BY <1>2, <1>3 DEF Own

\* The server's own messages are neither offers nor answers.
LEMMA Written ==
    ASSUME TypeOK, TypeOK', NEW c \in Conn, NEW d \in Conn,
           NEW type \in {"offer", "answer"}, NEW h, NEW v
    PROVE  /\ Second(c, d, slot') \in Seq(Inbound(d))
           /\ Numbers(Second(c, d, slot'), type, h, v) = Numbers(down[d], type, h, v)
           /\ Rising(down[d], type, h, v) => Rising(Second(c, d, slot'), type, h, v)
<1>1. down[d] \in Seq(Inbound(d)) /\ Config \in Inbound(d)
  BY TypeParts, MessageTypes DEF DownOK
<1>2. ~Kind(Config, type, h, v) /\ \A w : ~Kind(Joined(w), type, h, v)
  BY DEF Kind, Config, Joined
<1>3. /\ First(c, d) \in Seq(Inbound(d))
      /\ Numbers(First(c, d), type, h, v) = Numbers(down[d], type, h, v)
      /\ Rising(down[d], type, h, v) => Rising(First(c, d), type, h, v)
  <2>1. CASE d = c /\ c \in open
    <3>1. First(c, d) = Append(down[d], Config)
      BY <2>1 DEF First
    <3> QED
      BY <1>1, <1>2, <3>1, NumbersSkipped
  <2>2. CASE ~(d = c /\ c \in open)
    BY <1>1, <2>2 DEF First
  <2> QED
    BY <2>1, <2>2
<1>4. CASE Announces(c, slot') /\ d = slot'["host"] /\ d \in open
  <2> DEFINE m == Joined(slot'["viewer"])
  <2>1. slot'["host"] \in Host /\ slot'["viewer"] \in Viewer
    BY <1>4, TypePartsNext DEF ServerTypes, Announces
  <2>2. m \in Inbound(d) /\ ~Kind(m, type, h, v)
    BY <1>2, <1>4, <2>1, MessageTypes
  <2>3. Second(c, d, slot') = Append(First(c, d), m)
    BY <1>4 DEF Second
  <2> HIDE DEF m
  <2> QED
    BY <1>3, <2>2, <2>3, NumbersSkipped
<1>5. CASE ~(Announces(c, slot') /\ d = slot'["host"] /\ d \in open)
  BY <1>3, <1>5 DEF Second
<1> QED
  BY <1>4, <1>5

\* Where the offers and answers that are somewhere after a step come from.
LEMMA GoingFrom ==
    ASSUME TypeOK, [Next]_vars, NEW h \in Host, NEW n \in Going(h)'
    PROVE  n \in Going(h) \/ (HostOffers(h) /\ n = session[h])
<1>0. h \in Conn /\ h \notin Viewer /\ up[h] \in Seq(Outbound(h)) /\ Outbound(h) = Offers
  BY TypeParts, Sides DEF UpOK
<1>1. n \in Numbers(up'[h], "offer", h, None)
  BY DEF Going
<1>2. CASE up[h] # <<>> /\ up'[h] = Tail(up[h])
  BY <1>0, <1>1, <1>2, NumbersTaken DEF Going
<1>3. ASSUME NEW k \in 0..Len(up[h]), up'[h] = SubSeq(up[h], 1, k)
      PROVE  n \in Going(h)
  BY <1>0, <1>1, <1>3, NumbersCut DEF Going
<1>4. CASE HostOffers(h) /\ up'[h] = Append(up[h], Offer(h, session[h]))
  <2>1. Offer(h, session[h]) \in Outbound(h)
    BY <1>0, TypeParts, MessageTypes DEF HostTypes
  <2>2. Offer(h, session[h]).session = session[h]
    BY DEF Offer
  <2> QED
    BY <1>0, <1>1, <1>4, <2>1, <2>2, NumbersAdded DEF Going
<1> QED
  BY <1>0, <1>1, <1>2, <1>3, <1>4, UpSteps DEF Going

LEMMA LeavingFrom ==
    ASSUME TypeOK, [Next]_vars, NEW h \in Host, NEW v \in Viewer, NEW n \in Leaving(h, v)'
    PROVE  \/ n \in Leaving(h, v)
           \/ /\ n \in OnPage(h, v)
              /\ \E o \in Offers : /\ PageAnswers(v, o) /\ pc[v] = o
                                  /\ o.host = h /\ o.session = n
                                  /\ [offer |-> o, step |-> "gather"] \in handlers[v]
<1>0. v \in Conn /\ v \notin Host /\ up[v] \in Seq(Outbound(v)) /\ Outbound(v) = Answers
  BY TypeParts, Sides DEF UpOK
<1>1. n \in Numbers(up'[v], "answer", h, v)
  BY DEF Leaving
<1>2. CASE up[v] # <<>> /\ up'[v] = Tail(up[v])
  BY <1>0, <1>1, <1>2, NumbersTaken DEF Leaving
<1>3. ASSUME NEW k \in 0..Len(up[v]), up'[v] = SubSeq(up[v], 1, k)
      PROVE  n \in Leaving(h, v)
  BY <1>0, <1>1, <1>3, NumbersCut DEF Leaving
<1>4. ASSUME NEW o \in Offers, [offer |-> o, step |-> "gather"] \in handlers[v],
             up'[v] = Append(up[v], Answer(v, o))
      PROVE  n \in Leaving(h, v) \/ (n \in OnPage(h, v) /\ o.host = h /\ o.session = n)
  <2>1. Answer(v, o) \in Outbound(v)
    BY <1>0, MessageTypes
  <2>2. Answer(v, o).session = o.session /\ Answer(v, o).host = o.host
    BY DEF Answer, Offers
  <2>3. o.host = h => o.session \in OnPage(h, v)
    <3> DEFINE hd == [offer |-> o, step |-> "gather"]
    <3>1. hd \in handlers[v] /\ hd.offer = o
      BY <1>4
    <3> HIDE DEF hd
    <3> QED
      BY <3>1 DEF OnPage
  <2> QED
    BY <1>0, <1>1, <1>4, <2>1, <2>2, <2>3, NumbersAdded DEF Leaving, Kind
<1> QED
  BY <1>0, <1>1, <1>2, <1>3, <1>4, UpSteps DEF Leaving

LEMMA ComingFrom ==
    ASSUME TypeOK, Own, [Next]_vars, NEW h \in Host, NEW v \in Viewer, NEW n \in Coming(h, v)'
    PROVE  \/ n \in Coming(h, v)
           \/ /\ Relay(h) /\ slot["viewer"] = v /\ v \in open /\ n \in Going(h)
              /\ Kind(Head(up[h]), "offer", h, None) /\ n = Head(up[h]).session
<1>0. /\ v \in Conn /\ v \notin Host /\ down[v] \in Seq(Inbound(v)) /\ Inbound(v) = {Config} \cup Offers
      /\ TypeOK'
  BY TypeParts, TypesKept, Sides DEF DownOK
<1>1. n \in Numbers(down'[v], "offer", h, None)
  BY DEF Coming
<1>2. ASSUME NEW d \in Conn, Register(d), down'[v] = Second(d, v, slot')
      PROVE  n \in Coming(h, v)
  BY <1>0, <1>1, <1>2, Written DEF Coming
<1>3. ASSUME NEW d \in Conn, Relay(d), up[d] # <<>>, Head(up[d]) \in Outbound(d),
             v = slot[OtherRole(d)], Role(v) = OtherRole(d), v \in open,
             down'[v] = Append(down[v], Head(up[d]))
      PROVE  \/ n \in Coming(h, v)
             \/ /\ Relay(h) /\ slot["viewer"] = v /\ v \in open /\ n \in Going(h)
                /\ Kind(Head(up[h]), "offer", h, None) /\ n = Head(up[h]).session
  <2>1. d \in Host /\ OtherRole(d) = "viewer" /\ up[d] \in Seq(Outbound(d))
    BY <1>3, MessageTypes, Sides, TypeParts DEF UpOK
  <2>2. Head(up[d]) \in Inbound(v)
    BY <1>0, <1>3, <2>1, Sides
  <2>3. n \in Coming(h, v) \/ (Kind(Head(up[d]), "offer", h, None) /\ n = Head(up[d]).session)
    BY <1>0, <1>1, <1>3, <2>2, NumbersAdded DEF Coming
  <2>4. CASE Kind(Head(up[d]), "offer", h, None) /\ n = Head(up[d]).session
    <3>1. d = h
      BY <1>3, <2>1, <2>4, OwnHead DEF Kind
    <3>2. n \in Going(h)
      BY <1>3, <2>1, <2>4, <3>1, NumbersTaken DEF Going
    <3> QED
      BY <1>3, <2>1, <2>4, <3>1, <3>2
  <2> QED
    BY <2>3, <2>4
<1>4. CASE down'[v] = <<>>
  BY <1>1, <1>4, NumbersEmpty
<1>5. CASE down[v] # <<>> /\ down'[v] = Tail(down[v])
  BY <1>0, <1>1, <1>5, NumbersTaken DEF Coming
<1> QED
  BY <1>0, <1>1, <1>2, <1>3, <1>4, <1>5, DownSteps DEF Coming

LEMMA ArrivingFrom ==
    ASSUME TypeOK, Own, [Next]_vars, NEW g \in Host, NEW h \in Host, NEW v \in Viewer,
           NEW n \in Arriving(g, h, v)'
    PROVE  \/ n \in Arriving(g, h, v)
           \/ /\ Relay(v) /\ slot["host"] = g /\ g \in open /\ n \in Leaving(h, v)
              /\ Kind(Head(up[v]), "answer", h, v) /\ n = Head(up[v]).session
<1>0. /\ g \in Conn /\ g \notin Viewer /\ down[g] \in Seq(Inbound(g))
      /\ Inbound(g) = {Config} \cup Joins \cup Answers
      /\ TypeOK'
  BY TypeParts, TypesKept, Sides DEF DownOK
<1>1. n \in Numbers(down'[g], "answer", h, v)
  BY DEF Arriving
<1>2. ASSUME NEW d \in Conn, Register(d), down'[g] = Second(d, g, slot')
      PROVE  n \in Arriving(g, h, v)
  BY <1>0, <1>1, <1>2, Written DEF Arriving
<1>3. ASSUME NEW d \in Conn, Relay(d), up[d] # <<>>, Head(up[d]) \in Outbound(d),
             g = slot[OtherRole(d)], Role(g) = OtherRole(d), g \in open,
             down'[g] = Append(down[g], Head(up[d]))
      PROVE  \/ n \in Arriving(g, h, v)
             \/ /\ Relay(v) /\ slot["host"] = g /\ g \in open /\ n \in Leaving(h, v)
                /\ Kind(Head(up[v]), "answer", h, v) /\ n = Head(up[v]).session
  <2>1. d \in Viewer /\ OtherRole(d) = "host" /\ up[d] \in Seq(Outbound(d))
    BY <1>3, MessageTypes, Sides, TypeParts DEF UpOK
  <2>2. Head(up[d]) \in Inbound(g)
    BY <1>0, <1>3, <2>1, Sides
  <2>3. n \in Arriving(g, h, v) \/ (Kind(Head(up[d]), "answer", h, v) /\ n = Head(up[d]).session)
    BY <1>0, <1>1, <1>3, <2>2, NumbersAdded DEF Arriving
  <2>4. CASE Kind(Head(up[d]), "answer", h, v) /\ n = Head(up[d]).session
    <3>1. d = v
      BY <1>3, <2>1, <2>4, OwnHead DEF Kind
    <3>2. n \in Leaving(h, v)
      BY <1>3, <2>1, <2>4, <3>1, NumbersTaken DEF Leaving
    <3> QED
      BY <1>3, <2>1, <2>4, <3>1, <3>2
  <2> QED
    BY <2>3, <2>4
<1>4. CASE down'[g] = <<>>
  BY <1>1, <1>4, NumbersEmpty
<1>5. CASE down[g] # <<>> /\ down'[g] = Tail(down[g])
  BY <1>0, <1>1, <1>5, NumbersTaken DEF Arriving
<1> QED
  BY <1>0, <1>1, <1>2, <1>3, <1>4, <1>5, DownSteps DEF Arriving

LEMMA OnPageFrom ==
    ASSUME TypeOK, [Next]_vars, NEW h \in Host, NEW v \in Viewer, NEW n \in OnPage(h, v)'
    PROVE  \/ n \in OnPage(h, v)
           \/ /\ PageOffered(v) /\ n \in Coming(h, v)
              /\ Kind(Head(down[v]), "offer", h, None) /\ n = Head(down[v]).session
<1>1. PICK hd \in handlers'[v] : hd.offer.host = h /\ hd.offer.session = n
  BY DEF OnPage
<1>2. CASE hd \in handlers[v]
  BY <1>1, <1>2 DEF OnPage
<1>3. CASE [offer |-> hd.offer, step |-> "describe"] \in handlers[v]
  <2> DEFINE x == [offer |-> hd.offer, step |-> "describe"]
  <2>1. x \in handlers[v] /\ x.offer = hd.offer
    BY <1>3
  <2> HIDE DEF x
  <2> QED
    BY <1>1, <2>1 DEF OnPage
<1>4. CASE PageOffered(v) /\ hd.offer = Head(down[v])
  <2>1. v \in Conn /\ Receives(v, "offer")
    BY <1>4, Sides DEF PageOffered
  <2>2. /\ down[v] \in Seq(Inbound(v)) /\ down[v] # <<>>
        /\ Head(down[v]) \in Inbound(v) /\ Head(down[v]).type = "offer"
    BY <2>1, ReceivesType, TypeParts DEF DownOK
  <2>3. Head(down[v]) \in Offers
    BY <2>2, Kinds
  <2>4. Kind(Head(down[v]), "offer", h, None)
    BY <1>1, <1>4, <2>3 DEF Kind, Offers
  <2> QED
    BY <1>1, <1>4, <2>2, <2>4, NumbersTaken DEF Coming
<1> QED
  BY <1>1, <1>2, <1>3, <1>4, HandlerSteps

LEMMA HeldFrom ==
    ASSUME TypeOK, Own, [Next]_vars, NEW h \in Host, NEW v \in Viewer, NEW n \in Held(h, v)'
    PROVE  \/ n \in Held(h, v)
           \/ Relay(h) /\ slot["viewer"] = v /\ v \in open /\ n \in Going(h)
BY ComingFrom, OnPageFrom, LeavingFrom DEF Held

\* Offers and answers carry the number of a session that has begun.
Issued ==
    /\ Own
    /\ \A h \in Host : Going(h) \subseteq 1..session[h]
    /\ \A h \in Host, v \in Viewer : Held(h, v) \subseteq 1..session[h]
    /\ \A g, h \in Host, v \in Viewer : Arriving(g, h, v) \subseteq 1..session[h]
    /\ \A h \in Host : phase[h] = "start" => session[h] > 0

LEMMA IssuedKept ==
    ASSUME TypeOK, Issued, [Next]_vars
    PROVE  Issued'
<1>1. ASSUME NEW h \in Host
      PROVE  /\ session[h] \in Nat /\ session'[h] \in Nat /\ session'[h] >= session[h]
             /\ phase'[h] = "start" => session'[h] > 0
             /\ HostOffers(h) => session[h] > 0
  <2>1. session[h] \in Nat
    BY TypeParts DEF HostTypes
  <2>2. HostOffers(h) => phase[h] = "start"
    BY DEF HostOffers
  <2> QED
    BY <2>1, <2>2, HostSteps DEF Issued
<1>2. ASSUME NEW h \in Host, NEW S, S \subseteq 1..session[h] PROVE S \subseteq 1..session'[h]
  BY <1>1, <1>2
<1>3. ASSUME NEW h \in Host PROVE Going(h)' \subseteq 1..session'[h]
  <2> SUFFICES ASSUME NEW n \in Going(h)' PROVE n \in 1..session'[h]
    OBVIOUS
  <2>1. n \in Going(h) => n \in 1..session[h]
    BY DEF Issued
  <2> QED
    BY <1>1, <2>1, GoingFrom
<1>4. ASSUME NEW h \in Host, NEW v \in Viewer PROVE Held(h, v)' \subseteq 1..session'[h]
  <2> SUFFICES ASSUME NEW n \in Held(h, v)' PROVE n \in 1..session'[h]
    OBVIOUS
  <2>1. Own /\ (n \in Going(h) \/ n \in Held(h, v) => n \in 1..session[h])
    BY DEF Issued
  <2> QED
    BY <1>1, <2>1, HeldFrom
<1>5. ASSUME NEW g \in Host, NEW h \in Host, NEW v \in Viewer
      PROVE  Arriving(g, h, v)' \subseteq 1..session'[h]
  <2> SUFFICES ASSUME NEW n \in Arriving(g, h, v)' PROVE n \in 1..session'[h]
    OBVIOUS
  <2>1. Own /\ (n \in Arriving(g, h, v) \/ n \in Held(h, v) => n \in 1..session[h])
    BY DEF Issued
  <2>2. n \in Leaving(h, v) => n \in Held(h, v)
    BY DEF Held
  <2> QED
    BY <1>1, <2>1, <2>2, ArrivingFrom
<1> QED
  BY <1>1, <1>3, <1>4, <1>5, OwnKept DEF Issued

-----------------------------------------------------------------------------
\* Announcements on their way to a host.

Joining(m) == m.type = "viewer-joined"
Quiet(q) == \A i \in DOMAIN q : ~Joining(q[i])

\* The last announcement in q is of v, or there is none and v is the guest g.
Leads(q, g, v) ==
    \/ Quiet(q) /\ g = v
    \/ \E i \in DOMAIN q :
         /\ Joining(q[i]) /\ q[i].viewer = v
         /\ \A j \in DOMAIN q : Joining(q[j]) => j <= i

\* The answers to h's session n in q are of the guest g, or an announcement comes
\* before them.
ForGuest(q, h, n, g) ==
    \A i \in DOMAIN q : q[i].type = "answer" /\ q[i].host = h =>
        \/ q[i].session < n
        \/ q[i].viewer = g
        \/ \E j \in DOMAIN q : j < i /\ Joining(q[j])

LEMMA AnnouncedAdded ==
    ASSUME NEW S, NEW q \in Seq(S), NEW m \in S, NEW g
    PROVE  /\ Joining(m) => Leads(Append(q, m), g, m.viewer)
           /\ ~Joining(m) => \A v : Leads(q, g, v) => Leads(Append(q, m), g, v)
           /\ ~Quiet(q) => ~Quiet(Append(q, m))
           /\ \A h, n :
                /\ ForGuest(q, h, n, g)
                /\ m.type = "answer" /\ m.host = h =>
                     m.session < n \/ m.viewer = g \/ ~Quiet(q)
                => ForGuest(Append(q, m), h, n, g)
<1> DEFINE t == Append(q, m)
           last == Len(q) + 1
<1>1. /\ Len(q) \in Nat /\ DOMAIN q = 1..Len(q) /\ DOMAIN t = 1..last
      /\ \A i \in 1..Len(q) : t[i] = q[i]
      /\ t[last] = m
  BY Added, LenProperties
<1> HIDE DEF t
<1>2. /\ \A i \in DOMAIN t : (i \in DOMAIN q /\ t[i] = q[i]) \/ (i = last /\ t[i] = m)
      /\ \A i \in DOMAIN q : i \in DOMAIN t /\ t[i] = q[i] /\ i < last
      /\ last \in DOMAIN t /\ t[last] = m
      /\ \A i \in DOMAIN t : i <= last
  BY <1>1
<1>3. Joining(m) => Leads(t, g, m.viewer)
  BY <1>2 DEF Leads
<1>4. ASSUME ~Joining(m), NEW v, Leads(q, g, v) PROVE Leads(t, g, v)
  <2>1. CASE Quiet(q) /\ g = v
    BY <1>2, <1>4, <2>1 DEF Quiet, Leads
  <2>2. ASSUME NEW i \in DOMAIN q, Joining(q[i]), q[i].viewer = v,
               \A j \in DOMAIN q : Joining(q[j]) => j <= i
        PROVE  Leads(t, g, v)
    <3>1. i \in DOMAIN t /\ t[i] = q[i]
      BY <1>2
    <3>2. \A j \in DOMAIN t : Joining(t[j]) => j <= i
      BY <1>2, <1>4, <2>2
    <3> QED
      BY <2>2, <3>1, <3>2 DEF Leads
  <2> QED
    BY <1>4, <2>1, <2>2 DEF Leads
<1>5. ~Quiet(q) => ~Quiet(t)
  BY <1>2 DEF Quiet
<1>6. ASSUME NEW h, NEW n, ForGuest(q, h, n, g),
             m.type = "answer" /\ m.host = h => m.session < n \/ m.viewer = g \/ ~Quiet(q),
             NEW i \in DOMAIN t, t[i].type = "answer", t[i].host = h
      PROVE  \/ t[i].session < n \/ t[i].viewer = g
             \/ \E j \in DOMAIN t : j < i /\ Joining(t[j])
  <2>1. CASE i \in DOMAIN q /\ t[i] = q[i]
    BY <1>2, <1>6, <2>1 DEF ForGuest
  <2>2. CASE i = last /\ t[i] = m
    BY <1>2, <1>6, <2>2 DEF Quiet
  <2> QED
    BY <1>2, <2>1, <2>2
<1> QED
  BY <1>3, <1>4, <1>5, <1>6 DEF ForGuest, t

LEMMA AnnouncedTaken ==
    ASSUME NEW S, NEW q \in Seq(S), q # <<>>, NEW g
    PROVE  /\ Joining(Head(q)) =>
                \A v : Leads(q, g, v) => Leads(Tail(q), Head(q).viewer, v)
           /\ ~Joining(Head(q)) =>
                /\ \A v : Leads(q, g, v) => Leads(Tail(q), g, v)
                /\ ~Quiet(q) => ~Quiet(Tail(q))
                /\ \A h, n : ForGuest(q, h, n, g) => ForGuest(Tail(q), h, n, g)
           /\ \A h, n : /\ ForGuest(q, h, n, g)
                        /\ Head(q).type = "answer" /\ Head(q).host = h
                        => Head(q).session < n \/ Head(q).viewer = g
<1> DEFINE t == Tail(q)
<1>1. /\ Len(q) \in Nat \ {0} /\ Len(t) = Len(q) - 1 /\ Head(q) = q[1]
      /\ DOMAIN q = 1..Len(q) /\ DOMAIN t = 1..Len(t)
      /\ \A i \in 1..Len(t) : t[i] = q[i + 1]
  <2>1. t \in Seq(S)
    BY FirstOff
  <2> QED
    BY <2>1, FirstOff, LenProperties
<1> HIDE DEF t
<1>2. \A i \in DOMAIN t : i + 1 \in DOMAIN q /\ t[i] = q[i + 1] /\ i \in Int
  BY <1>1
<1>3. 1 \in DOMAIN q /\ \A i \in DOMAIN q : i = 1 \/ (i - 1 \in DOMAIN t /\ t[i - 1] = q[i])
  <2>1. \A i \in DOMAIN q : i # 1 => i - 1 \in DOMAIN t /\ i - 1 + 1 = i
    BY <1>1
  <2> QED
    BY <1>1, <2>1
<1>4. \A i \in DOMAIN q : i \in Int /\ 1 <= i
  BY <1>1
<1>5. ASSUME NEW i \in DOMAIN q, i # 1, NEW v, Joining(q[i]), q[i].viewer = v,
             \A j \in DOMAIN q : Joining(q[j]) => j <= i, NEW g2
      PROVE  Leads(t, g2, v)
  <2>1. i - 1 \in DOMAIN t /\ t[i - 1] = q[i]
    BY <1>3, <1>5
  <2>2. ASSUME NEW j \in DOMAIN t, Joining(t[j]) PROVE j <= i - 1
    <3>1. j + 1 <= i
      BY <1>2, <1>5, <2>2
    <3> QED
      BY <1>2, <1>4, <3>1
  <2> QED
    BY <1>5, <2>1, <2>2 DEF Leads
<1>6. ASSUME Joining(Head(q)), NEW v, Leads(q, g, v)
      PROVE  Leads(t, Head(q).viewer, v)
  <2>1. PICK i \in DOMAIN q :
          /\ Joining(q[i]) /\ q[i].viewer = v
          /\ \A j \in DOMAIN q : Joining(q[j]) => j <= i
    BY <1>1, <1>3, <1>6 DEF Leads, Quiet
  <2>2. CASE i = 1
    <3>1. \A j \in DOMAIN t : ~Joining(t[j])
      <4> SUFFICES ASSUME NEW j \in DOMAIN t, Joining(t[j]) PROVE FALSE
        OBVIOUS
      <4>1. j + 1 <= 1
        BY <1>2, <2>1, <2>2
      <4> QED
        BY <1>1, <4>1
    <3> QED
      BY <1>1, <2>1, <2>2, <3>1 DEF Leads, Quiet
  <2> QED
    BY <1>5, <2>1, <2>2
<1>7. ASSUME ~Joining(Head(q)), NEW v, Leads(q, g, v)
      PROVE  Leads(t, g, v)
  <2>1. CASE Quiet(q) /\ g = v
    BY <1>2, <2>1 DEF Quiet, Leads
  <2>2. CASE \E i \in DOMAIN q :
               /\ Joining(q[i]) /\ q[i].viewer = v
               /\ \A j \in DOMAIN q : Joining(q[j]) => j <= i
    BY <1>1, <1>5, <1>7, <2>2
  <2> QED
    BY <1>7, <2>1, <2>2 DEF Leads
<1>8. ASSUME ~Joining(Head(q)), ~Quiet(q) PROVE ~Quiet(t)
  BY <1>1, <1>3, <1>8 DEF Quiet
<1>9. ASSUME ~Joining(Head(q)), NEW h, NEW n, ForGuest(q, h, n, g),
             NEW i \in DOMAIN t, t[i].type = "answer", t[i].host = h
      PROVE  \/ t[i].session < n \/ t[i].viewer = g
             \/ \E j \in DOMAIN t : j < i /\ Joining(t[j])
  <2>1. \/ q[i + 1].session < n \/ q[i + 1].viewer = g
        \/ \E j \in DOMAIN q : j < i + 1 /\ Joining(q[j])
    BY <1>2, <1>9 DEF ForGuest
  <2>2. ASSUME NEW j \in DOMAIN q, j < i + 1, Joining(q[j])
        PROVE  \E k \in DOMAIN t : k < i /\ Joining(t[k])
    <3>1. j # 1
      BY <1>1, <1>9, <2>2
    <3>2. j - 1 \in DOMAIN t /\ t[j - 1] = q[j]
      BY <1>3, <3>1
    <3>3. j - 1 < i
      BY <1>2, <1>4, <2>2
    <3> QED
      BY <2>2, <3>2, <3>3
  <2> QED
    BY <1>2, <2>1, <2>2
<1>10. ASSUME NEW h, NEW n, ForGuest(q, h, n, g), Head(q).type = "answer", Head(q).host = h
       PROVE  Head(q).session < n \/ Head(q).viewer = g
  <2>1. ~\E j \in DOMAIN q : j < 1 /\ Joining(q[j])
    BY <1>4
  <2> QED
    BY <1>1, <1>3, <1>10, <2>1 DEF ForGuest
<1> QED
  BY <1>6, <1>7, <1>8, <1>9, <1>10 DEF ForGuest, t

\* The same facts, each for itself.
LEMMA LeadsAdded ==
    ASSUME NEW S, NEW q \in Seq(S), NEW m \in S, NEW g, NEW v,
           IF Joining(m) THEN m.viewer = v ELSE Leads(q, g, v)
    PROVE  Leads(Append(q, m), g, v)
BY AnnouncedAdded

LEMMA QuietAdded ==
    ASSUME NEW S, NEW q \in Seq(S), NEW m \in S, ~Quiet(q)
    PROVE  ~Quiet(Append(q, m))
BY AnnouncedAdded

LEMMA ForGuestAdded ==
    ASSUME NEW S, NEW q \in Seq(S), NEW m \in S, NEW h, NEW n, NEW g,
           ForGuest(q, h, n, g),
           m.type = "answer" /\ m.host = h => m.session < n \/ m.viewer = g \/ ~Quiet(q)
    PROVE  ForGuest(Append(q, m), h, n, g)
BY AnnouncedAdded

LEMMA LeadsTaken ==
    ASSUME NEW S, NEW q \in Seq(S), q # <<>>, NEW g, NEW v, Leads(q, g, v)
    PROVE  Leads(Tail(q), IF Joining(Head(q)) THEN Head(q).viewer ELSE g, v)
BY AnnouncedTaken

LEMMA QuietTaken ==
    ASSUME NEW S, NEW q \in Seq(S), q # <<>>, ~Joining(Head(q)), ~Quiet(q)
    PROVE  ~Quiet(Tail(q))
BY AnnouncedTaken

LEMMA ForGuestTaken ==
    ASSUME NEW S, NEW q \in Seq(S), q # <<>>, NEW h, NEW n, NEW g,
           ForGuest(q, h, n, g), ~Joining(Head(q))
    PROVE  ForGuest(Tail(q), h, n, g)
BY AnnouncedTaken

LEMMA ForGuestHead ==
    ASSUME NEW S, NEW q \in Seq(S), q # <<>>, NEW h, NEW n, NEW g,
           ForGuest(q, h, n, g), Head(q).type = "answer", Head(q).host = h
    PROVE  Head(q).session < n \/ Head(q).viewer = g
BY AnnouncedTaken

-----------------------------------------------------------------------------
\* The viewer of a session.

\* A host that is not registered yet has had no session; the host in the slot has
\* begun its session for the viewer in the slot, or will have read of it before
\* that viewer's answer to an offer of its newest session.
Guests ==
    /\ \A h \in Host \ registered : h \in open \/ h \notin used => session[h] = 0
    /\ \A h \in Host, v \in Viewer :
         slot["host"] = h /\ h \in open /\ slot["viewer"] = v => Leads(down[h], guest[h], v)
    /\ \A h \in Host, v \in Viewer : slot["host"] = h /\ h \in open =>
         \A n \in Held(h, v) : n < session[h] \/ guest[h] = v \/ ~Quiet(down[h])
    /\ \A h \in Host : ForGuest(down[h], h, session[h], guest[h])

\* What a step does to the queue, the session and the guest of a host.
LEMMA HostQueue ==
    ASSUME TypeOK, [Next]_vars, NEW h \in Host
    PROVE  \/ /\ Joining(Head(down[h])) /\ h \in open
              /\ down[h] # <<>> /\ down'[h] = Tail(down[h])
              /\ session'[h] = session[h] + 1 /\ guest'[h] = Head(down[h]).viewer
              /\ UNCHANGED <<slot, registered, used, open>>
           \/ /\ session'[h] = session[h] /\ guest'[h] = guest[h]
              /\ \/ down'[h] = down[h]
                 \/ \E c \in Conn : Register(c) /\ down'[h] = Second(c, h, slot')
                 \/ \E v \in Viewer :
                      /\ Relay(v) /\ slot["host"] = h /\ h \in open
                      /\ up[v] # <<>> /\ Head(up[v]) \in Answers
                      /\ down'[h] = Append(down[h], Head(up[v]))
                 \/ Closes(h) /\ down'[h] = <<>>
                 \/ /\ ~Joining(Head(down[h]))
                    /\ down[h] # <<>> /\ down'[h] = Tail(down[h])
<1>0. h \in Conn /\ h \notin Viewer
  BY Sides
<1>1. CASE HostJoined(h)
  <2>1. Receives(h, "viewer-joined")
    BY <1>1 DEF HostJoined
  <2>2. /\ Head(down[h]).type = "viewer-joined" /\ h \in open
        /\ down[h] # <<>> /\ down'[h] = Tail(down[h])
    BY <1>0, <2>1, ReceivesType
  <2>3. UNCHANGED <<slot, registered, used, open>>
    BY <1>1 DEF HostJoined, serverVars, socketVars
  <2>4. session'[h] = session[h] + 1 /\ guest'[h] = Head(down[h]).viewer
    BY <1>1, TypeParts DEF HostJoined, NextSession, HostTypes
  <2> QED
    BY <2>2, <2>3, <2>4 DEF Joining
<1>2. CASE ~HostJoined(h)
  <2>1. session'[h] = session[h] /\ guest'[h] = guest[h]
    BY <1>2, HostSteps
  <2>2. ASSUME NEW d \in Conn, Relay(d), up[d] # <<>>, Head(up[d]) \in Outbound(d),
               h = slot[OtherRole(d)], Role(h) = OtherRole(d), h \in open,
               down'[h] = Append(down[h], Head(up[d]))
        PROVE  d \in Viewer /\ slot["host"] = h /\ Head(up[d]) \in Answers
    BY <2>2, MessageTypes, Sides
  <2>3. ASSUME Reads(h), down[h] # <<>>
        PROVE  ~Joining(Head(down[h]))
    <3>1. Receives(h, "config") \/ Receives(h, "answer")
      BY <1>0, <1>2, <2>3 DEF Reads, HostReads, HostConfigured, HostAnswered
    <3>2. Head(down[h]).type \in {"config", "answer"}
      BY <3>1 DEF Receives
    <3> QED
      BY <3>2 DEF Joining
  <2> QED
    BY <1>0, <2>1, <2>2, <2>3, DownSteps
<1> QED
  BY <1>1, <1>2

\* Only a registration fills a slot, or makes a connection registered.
LEMMA SlotSteps ==
    ASSUME TypeOK, Sockets, [Next]_vars
    PROVE  \/ \E c \in Conn : Register(c) /\ UNCHANGED <<used, open, session, guest>>
           \/ /\ \A h \in Host : slot'["host"] = h /\ h \in open' => slot["host"] = h /\ h \in open
              /\ \A v \in Viewer : slot'["viewer"] = v => slot["viewer"] = v
              /\ \A c \in Conn : c \notin registered' /\ (c \in open' \/ c \notin used') =>
                   c \notin registered /\ (c \in open \/ c \notin used)
<1>0. ServerTypes
  BY TypeParts
<1>1. ASSUME NEW c \in Conn, Register(c)
      PROVE  UNCHANGED <<used, open, session, guest>>
  BY <1>1 DEF Register, socketVars, hostVars
<1> DEFINE Keeps ==
      /\ \A h \in Host : slot'["host"] = h /\ h \in open' => slot["host"] = h /\ h \in open
      /\ \A v \in Viewer : slot'["viewer"] = v => slot["viewer"] = v
      /\ \A c \in Conn : c \notin registered' /\ (c \in open' \/ c \notin used') =>
           c \notin registered /\ (c \in open \/ c \notin used)
<1>2. ASSUME UNCHANGED <<slot, registered, used, open>>
      PROVE  Keeps
  BY <1>2
<1>3. ASSUME NEW c \in Conn, Unregister(c)
      PROVE  Keeps
  <2>1. /\ UNCHANGED <<used, open>> /\ registered' = registered \ {c}
        /\ c \notin open /\ c \in registered
    BY <1>3 DEF Unregister, socketVars
  <2>2. slot' = slot \/ slot' = [slot EXCEPT ![Role(c)] = None]
    BY <1>3 DEF Unregister
  <2>3. /\ \A h \in Host : slot'["host"] = h => slot["host"] = h
        /\ \A v \in Viewer : slot'["viewer"] = v => slot["viewer"] = v
    BY <1>0, <2>2 DEF ServerTypes, Roles, Conn
  <2>4. c \in used
    BY <2>1 DEF Sockets
  <2> QED
    BY <2>1, <2>3, <2>4
<1>4. ASSUME NEW c \in Conn, Closes(c)
      PROVE  Keeps
  <2>1. UNCHANGED <<slot, registered, used>> /\ open' = open \ {c}
    BY <1>4 DEF Closes, serverVars
  <2> QED
    BY <2>1
<1>5. ASSUME NEW c \in Conn, Connects(c)
      PROVE  Keeps
  <2>1. /\ UNCHANGED <<slot, registered>> /\ c \notin used
        /\ open' = open \cup {c} /\ used' = used \cup {c}
    BY <1>5 DEF Connects
  <2>2. slot["host"] # c /\ c \notin registered
    BY <2>1 DEF Sockets, Roles
  <2> QED
    BY <2>1, <2>2
<1>6. ASSUME NEW c \in Conn, Relay(c) \/ Reads(c)
      PROVE  UNCHANGED <<slot, registered, used, open>>
  <2>1. CASE Relay(c)
    BY <2>1 DEF Relay, serverVars, socketVars
  <2> QED
    BY <1>6, <2>1, ReadsParts
<1>7. CASE Works
  BY <1>2, <1>7, WorksParts
<1> QED
  BY <1>1, <1>2, <1>3, <1>4, <1>5, <1>6, <1>7, StepKinds

LEMMA GuestsKept ==
    ASSUME TypeOK, Sockets, Issued, Guests, [Next]_vars
    PROVE  Guests'
<1>0. TypeOK' /\ Own /\ Issued'
  BY TypesKept, IssuedKept DEF Issued
<1>1. ASSUME NEW h \in Host
      PROVE  /\ h \in Conn /\ h \notin Viewer /\ down[h] \in Seq(Inbound(h)) /\ session[h] \in Nat
             /\ Inbound(h) = {Config} \cup Joins \cup Answers
  BY TypeParts, Sides DEF DownOK, HostTypes
\* The announcements of a registration.
<1>2. ASSUME NEW h \in Host, NEW c \in Conn, Register(c)
      PROVE  /\ down'[h] = Second(c, h, slot')
             /\ ~Quiet(down[h]) => ~Quiet(Second(c, h, slot'))
             /\ \A v \in Viewer : slot'["host"] = h /\ h \in open /\ slot'["viewer"] = v =>
                  Leads(Second(c, h, slot'), guest[h], v)
             /\ ForGuest(down[h], h, session[h], guest[h]) =>
                  ForGuest(Second(c, h, slot'), h, session[h], guest[h])
  <2>0. /\ ~Joining(Config) /\ Config.type # "answer"
        /\ \A w : Joining(Joined(w)) /\ Joined(w).type # "answer" /\ Joined(w).viewer = w
    BY DEF Joining, Config, Joined
  <2>1. /\ First(c, h) \in Seq(Inbound(h))
        /\ ~Quiet(down[h]) => ~Quiet(First(c, h))
        /\ ForGuest(down[h], h, session[h], guest[h]) =>
             ForGuest(First(c, h), h, session[h], guest[h])
    <3>1. CASE First(c, h) = Append(down[h], Config)
      <4>1. Config \in Inbound(h)
        BY <1>1
      <4> QED
        BY <1>1, <2>0, <3>1, <4>1, QuietAdded, ForGuestAdded, AppendProperties
    <3>2. CASE First(c, h) = down[h]
      BY <1>1, <3>2
    <3> QED
      BY <3>1, <3>2 DEF First
  <2>2. CASE Announces(c, slot') /\ h = slot'["host"] /\ h \in open
    <3> DEFINE m == Joined(slot'["viewer"])
    <3>1. slot'["viewer"] \in Viewer
      BY <1>0, <2>2, TypePartsNext DEF ServerTypes, Announces
    <3>2. m \in Inbound(h) /\ Joining(m) /\ m.type # "answer" /\ m.viewer = slot'["viewer"]
      BY <2>0, <3>1, MessageTypes
    <3>3. Second(c, h, slot') = Append(First(c, h), m)
      BY <2>2 DEF Second
    <3> HIDE DEF m
    <3> QED
      BY <1>1, <1>2, <2>1, <3>2, <3>3, LeadsAdded, QuietAdded, ForGuestAdded, RegisterParts
  <2>3. CASE ~(Announces(c, slot') /\ h = slot'["host"] /\ h \in open)
    <3>1. Second(c, h, slot') = First(c, h)
      BY <2>3 DEF Second
    <3>2. ASSUME NEW v \in Viewer, slot'["host"] = h, h \in open, slot'["viewer"] = v PROVE FALSE
      BY <1>1, <2>3, <3>2 DEF Announces, Conn
    <3> QED
      BY <1>1, <1>2, <2>1, <3>1, <3>2, RegisterParts
  <2> QED
    BY <2>2, <2>3
\* No announcement is lost but by being read.
<1>3. ASSUME NEW h \in Host, h \in open', session'[h] = session[h]
      PROVE  ~Quiet(down[h]) => ~Quiet(down'[h])
  <2>1. ASSUME NEW v \in Viewer, Head(up[v]) \in Answers, down'[h] = Append(down[h], Head(up[v]))
        PROVE  ~Quiet(down[h]) => ~Quiet(down'[h])
    <3>1. Head(up[v]) \in Inbound(h)
      BY <1>1, <2>1
    <3> QED
      BY <1>1, <2>1, <3>1, QuietAdded
  <2>2. CASE Closes(h)
    BY <1>3, <2>2 DEF Closes
  <2>3. CASE ~Joining(Head(down[h])) /\ down[h] # <<>> /\ down'[h] = Tail(down[h])
    BY <1>1, <2>3, QuietTaken
  <2>4. session'[h] # session[h] + 1
    BY <1>1, <1>3
  <2> QED
    BY <1>2, <2>1, <2>2, <2>3, <2>4, HostQueue
<1>4. ASSUME NEW h \in Host, h \notin registered', h \in open' \/ h \notin used'
      PROVE  session'[h] = 0
  <2>1. CASE \E c \in Conn : Register(c) /\ UNCHANGED <<used, open, session, guest>>
    <3>1. h \notin registered
      BY <1>4, <2>1 DEF Register
    <3> QED
      BY <1>4, <2>1, <3>1 DEF Guests
  <2>2. CASE h \notin registered /\ (h \in open \/ h \notin used)
    <3>1. session[h] = 0 /\ down[h] = <<>>
      BY <1>1, <2>2 DEF Guests, Sockets
    <3> QED
      BY <3>1, HostQueue
  <2> QED
    BY <1>1, <1>4, <2>1, <2>2, SlotSteps
<1>5. ASSUME NEW h \in Host, NEW v \in Viewer,
             slot'["host"] = h, h \in open', slot'["viewer"] = v
      PROVE  Leads(down'[h], guest'[h], v)
  <2>1. CASE \E c \in Conn : Register(c) /\ UNCHANGED <<used, open, session, guest>>
    BY <1>2, <1>5, <2>1
  <2>2. CASE slot["host"] = h /\ h \in open /\ slot["viewer"] = v
    <3>1. Leads(down[h], guest[h], v)
      BY <2>2 DEF Guests
    <3>2. CASE /\ Joining(Head(down[h])) /\ down[h] # <<>> /\ down'[h] = Tail(down[h])
               /\ guest'[h] = Head(down[h]).viewer
      BY <1>1, <3>1, <3>2, LeadsTaken
    <3>3. ASSUME NEW c \in Conn, Register(c), down'[h] = Second(c, h, slot'), guest'[h] = guest[h]
          PROVE  Leads(down'[h], guest'[h], v)
      BY <1>2, <1>5, <2>2, <3>3
    <3>4. ASSUME NEW w \in Viewer, Head(up[w]) \in Answers, down'[h] = Append(down[h], Head(up[w])),
                 guest'[h] = guest[h]
          PROVE  Leads(down'[h], guest'[h], v)
      <4>1. Head(up[w]) \in Inbound(h) /\ ~Joining(Head(up[w]))
        BY <1>1, <3>4, Kinds DEF Joining
      <4> QED
        BY <1>1, <3>1, <3>4, <4>1, LeadsAdded
    <3>5. CASE Closes(h)
      BY <1>5, <3>5 DEF Closes
    <3>6. CASE /\ ~Joining(Head(down[h])) /\ down[h] # <<>> /\ down'[h] = Tail(down[h])
               /\ guest'[h] = guest[h]
      BY <1>1, <3>1, <3>6, LeadsTaken
    <3> QED
      BY <3>1, <3>2, <3>3, <3>4, <3>5, <3>6, HostQueue
  <2> QED
    BY <1>5, <2>1, <2>2, SlotSteps
<1>6. ASSUME NEW h \in Host, NEW v \in Viewer, slot'["host"] = h, h \in open', NEW n \in Held(h, v)'
      PROVE  n < session'[h] \/ guest'[h] = v \/ ~Quiet(down'[h])
  <2>1. n \in 1..session[h]
    BY <1>0, <1>6, HeldFrom DEF Issued
  <2>2. n \in Held(h, v) \/ slot["viewer"] = v
    BY <1>0, <1>6, HeldFrom
  <2>3. slot["host"] = h /\ h \in open
    <3>1. CASE \E c \in Conn : Register(c) /\ UNCHANGED <<used, open, session, guest>>
      <4>1. PICK c \in Conn : Register(c) /\ UNCHANGED <<used, open, session, guest>>
        BY <3>1
      <4>2. c # h
        <5> SUFFICES ASSUME c = h PROVE FALSE
          OBVIOUS
        <5>1. h \notin registered
          <6>1. \E i \in DOMAIN waiting : waiting[i] = c
            BY <4>1 DEF Register
          <6> QED
            BY <6>1 DEF Sockets
        <5>2. session[h] = 0
          BY <1>6, <4>1, <5>1 DEF Guests
        <5> QED
          BY <2>1, <5>2
      <4>3. slot' = [slot EXCEPT ![Role(c)] = c]
        BY <4>1, RegisterParts
      <4>4. slot["host"] = h
        BY <1>6, <4>2, <4>3, MessageTypes, TypeParts DEF ServerTypes, Roles
      <4> QED
        BY <1>6, <4>1, <4>4
    <3> QED
      BY <1>6, <3>1, SlotSteps
  <2>4. n < session[h] \/ guest[h] = v \/ ~Quiet(down[h])
    <3>1. CASE slot["viewer"] = v
      <4>1. Leads(down[h], guest[h], v)
        BY <2>3, <3>1 DEF Guests
      <4> QED
        BY <4>1 DEF Leads, Quiet
    <3> QED
      BY <2>2, <2>3, <3>1 DEF Guests
  <2>5. \/ session'[h] = session[h] + 1
        \/ session'[h] = session[h] /\ guest'[h] = guest[h]
    BY HostQueue
  <2> QED
    BY <1>1, <1>3, <1>6, <2>1, <2>4, <2>5
<1>7. ASSUME NEW h \in Host
      PROVE  ForGuest(down'[h], h, session'[h], guest'[h])
  <2>0. ForGuest(down[h], h, session[h], guest[h])
    BY DEF Guests
  <2>1. CASE session'[h] = session[h] + 1
    <3> SUFFICES ASSUME NEW i \in DOMAIN down'[h], down'[h][i].type = "answer", down'[h][i].host = h
                 PROVE  down'[h][i].session < session'[h]
      BY DEF ForGuest
    <3> DEFINE m == down'[h][i]
    <3>1. m \in Inbound(h)
      <4>1. down'[h] \in Seq(Inbound(h))
        BY <1>0, <1>1, TypePartsNext DEF DownOK
      <4> QED
        BY <4>1, ElementOfSeq, LenProperties
    <3>2. m \in Answers
      BY <3>1, Kinds
    <3>3. PICK v \in Viewer, n \in {m.session} : m.viewer = v /\ m.session = n
      BY <3>2, Kinds
    <3>4. n \in Arriving(h, h, v)'
      <4>1. i \in {j \in DOMAIN down'[h] : Kind(down'[h][j], "answer", h, v)}
        BY <3>3 DEF Kind
      <4> QED
        BY <3>3, <4>1 DEF Arriving, Numbers
    <3>5. n \in 1..session[h]
      <4>1. n \in Arriving(h, h, v) \/ n \in Leaving(h, v)
        BY <1>0, <3>4, ArrivingFrom
      <4> QED
        BY <4>1 DEF Issued, Held
    <3> QED
      BY <1>1, <2>1, <3>3, <3>5
  <2>2. CASE session'[h] = session[h] /\ guest'[h] = guest[h]
    <3>1. ASSUME NEW c \in Conn, Register(c), down'[h] = Second(c, h, slot')
          PROVE  ForGuest(down'[h], h, session[h], guest[h])
      BY <1>2, <2>0, <3>1
    <3>2. ASSUME NEW v \in Viewer, slot["host"] = h, h \in open, up[v] # <<>>,
                 Head(up[v]) \in Answers, down'[h] = Append(down[h], Head(up[v]))
          PROVE  ForGuest(down'[h], h, session[h], guest[h])
      <4> DEFINE m == Head(up[v])
      <4>1. v \in Conn /\ m.viewer = v /\ m.type = "answer" /\ up[v] \in Seq(Outbound(v))
        BY <1>0, <3>2, OwnHead, Sides, TypeParts DEF UpOK
      <4>2. m.host = h => m.session \in Held(h, v)
        <5>1. m.host = h => Kind(m, "answer", h, v)
          BY <4>1 DEF Kind
        <5> QED
          BY <3>2, <4>1, <5>1, NumbersTaken DEF Held, Leaving
      <4>3. m.host = h => m.session < session[h] \/ m.viewer = guest[h] \/ ~Quiet(down[h])
        BY <3>2, <4>1, <4>2 DEF Guests
      <4>4. m \in Inbound(h)
        BY <1>1, <3>2
      <4> HIDE DEF m
      <4>5. down'[h] = Append(down[h], m)
        BY <3>2 DEF m
      <4>6. down[h] \in Seq(Inbound(h))
        BY <1>1
      <4>7. ForGuest(Append(down[h], m), h, session[h], guest[h])
        BY <2>0, <4>1, <4>3, <4>4, <4>6, ForGuestAdded
      <4> QED
        BY <4>5, <4>7
    <3>3. CASE down'[h] = <<>>
      BY <3>3 DEF ForGuest
    <3>4. CASE ~Joining(Head(down[h])) /\ down[h] # <<>> /\ down'[h] = Tail(down[h])
      BY <1>1, <2>0, <2>2, <3>4, ForGuestTaken
    <3>5. session'[h] # session[h] + 1
      BY <1>1, <2>2
    <3>6. ForGuest(down'[h], h, session[h], guest[h])
      BY <2>0, <3>1, <3>2, <3>3, <3>4, <3>5, HostQueue
    <3> QED
      BY <2>2, <3>6
  <2> QED
    BY <2>1, <2>2, HostQueue
<1> QED
  BY <1>4, <1>5, <1>6, <1>7 DEF Guests

LEMMA AcceptedKept ==
    ASSUME TypeOK, Guests, AcceptedIsNewest, [Next]_vars
    PROVE  AcceptedIsNewest'
<1> SUFFICES ASSUME NEW h \in Host, accepted'[h] # Nothing, accepted'[h].host = h
             PROVE  accepted'[h].viewer = guest'[h]
  BY DEF AcceptedIsNewest
<1>1. CASE accepted'[h] = accepted[h] /\ guest'[h] = guest[h]
  BY <1>1 DEF AcceptedIsNewest
<1>2. CASE /\ guest'[h] = guest[h] /\ HostAnswered(h) /\ Taken(h, Head(down[h]))
           /\ accepted'[h] = Head(down[h])
  <2> DEFINE m == Head(down[h])
  <2>1. h \in Conn /\ down[h] \in Seq(Inbound(h)) /\ down[h] # <<>> /\ m.type = "answer"
    <3>1. h \in Conn /\ Receives(h, "answer")
      BY <1>2, Sides DEF HostAnswered
    <3> QED
      BY <3>1, ReceivesType, TypeParts DEF DownOK
  <2>2. m.session = session[h] /\ session[h] \in Nat
    BY <1>2, TypeParts DEF Taken, HostTypes
  <2>3. ForGuest(down[h], h, session[h], guest[h])
    BY DEF Guests
  <2>4. m.session < session[h] \/ m.viewer = guest[h]
    BY <1>2, <2>1, <2>3, ForGuestHead
  <2> QED
    BY <1>2, <2>2, <2>4
<1> QED
  BY <1>1, <1>2, HostSteps

LEMMA GuestsStart == Init => Issued /\ Guests /\ AcceptedIsNewest
<1> SUFFICES ASSUME Init PROVE Issued /\ Guests /\ AcceptedIsNewest
  OBVIOUS
<1>1. \A c \in Conn : down[c] = <<>> /\ up[c] = <<>>
  BY DEF Init
<1>2. \A v \in Viewer : handlers[v] = {}
  BY DEF Init
<1>3. \A h \in Host : session[h] = 0 /\ phase[h] = "config" /\ accepted[h] = Nothing
  BY DEF Init
<1>4. \A h \in Host : Going(h) = {}
  BY <1>1, NumbersEmpty, Sides DEF Going
<1>5. \A h \in Host, v \in Viewer : Held(h, v) = {}
  BY <1>1, <1>2, NumbersEmpty, Sides DEF Held, Coming, OnPage, Leaving
<1>6. \A g, h \in Host, v \in Viewer : Arriving(g, h, v) = {}
  BY <1>1, NumbersEmpty, Sides DEF Arriving
<1>7. Own
  BY <1>1, Sides DEF Own
<1>8. slot["host"] = None /\ \A h \in Host : ForGuest(down[h], h, session[h], guest[h])
  BY <1>1, Sides DEF Init, ForGuest
<1>9. Issued
  BY <1>3, <1>4, <1>5, <1>6, <1>7 DEF Issued
<1>10. Guests
  BY <1>3, <1>5, <1>8, Sides DEF Guests
<1> QED
  BY <1>3, <1>9, <1>10 DEF AcceptedIsNewest

LEMMA GuestsAlways == Spec => [](TypeOK /\ Sockets /\ Issued /\ Guests /\ AcceptedIsNewest)
<1>1. Spec => [](TypeOK /\ Sockets)
  BY SocketsAlways, PTL
<1> QED
  BY <1>1, GuestsStart, IssuedKept, GuestsKept, AcceptedKept, PTL DEF Spec

\* The answer a host takes to its own offer is from the viewer whose arrival began
\* the session, whatever pages came and went and however they registered.
THEOREM AnswerOfTheGuest == Spec => []AcceptedIsNewest
BY GuestsAlways, PTL

-----------------------------------------------------------------------------
\* The order of the sessions.

Below(A, B) == \A a \in A, b \in B : a < b

\* The offer of host h that page v's connection is for.
Shown(h, v) == {n \in {pc[v].session} : pc[v].host = h}
Working(v) == \E hd \in handlers[v] : hd.offer = pc[v]

Done(h, v) == Arriving(h, h, v) \cup Leaving(h, v)
Reached(h, v) == Done(h, v) \cup OnPage(h, v) \cup Shown(h, v)

\* What is further on its way from host h to page v and back is of an earlier
\* session: answers before the offer the page works on, before offers that are on
\* their way, before offers that wait at the server.
Orderly(h, v) ==
    /\ Rising(down[h], "answer", h, v) /\ Rising(up[v], "answer", h, v)
    /\ Below(Arriving(h, h, v), Leaving(h, v))
    /\ Working(v) => Below(Done(h, v), Shown(h, v))
    /\ Rising(down[v], "offer", h, None) /\ Below(Reached(h, v), Coming(h, v))
    /\ Rising(up[h], "offer", h, None) /\ Below(Reached(h, v) \cup Coming(h, v), Going(h))
    /\ Shown(h, v) \subseteq 0..session[h]
    /\ phase[h] = "start" => Below(Reached(h, v) \cup Coming(h, v) \cup Going(h), {session[h]})

\* A run of a page's handler is at one await.
OneStep ==
    \A v \in Viewer, o \in Offers :
        ~([offer |-> o, step |-> "describe"] \in handlers[v] /\ [offer |-> o, step |-> "gather"] \in handlers[v])

Orders == OneStep /\ \A h \in Host, v \in Viewer : Orderly(h, v)

LEMMA PcSteps ==
    ASSUME TypeOK, [Next]_vars, NEW v \in Viewer
    PROVE  pc'[v] = pc[v] \/ (PageOffered(v) /\ pc'[v] = Head(down[v])) \/ pc'[v] = Nothing
<1>0. PageTypes
  BY TypeParts
<1>1. ASSUME NEW d \in Conn,
             Register(d) \/ Unregister(d) \/ Connects(d) \/ Relay(d) \/ Closes(d)
      PROVE  pc' = pc
  BY <1>1 DEF Register, Unregister, Connects, Relay, Closes, pageVars
<1>2. ASSUME NEW h \in Host, HostReads(h) \/ HostOffers(h) \/ HostStartFails(h)
      PROVE  pc' = pc
  BY <1>2 DEF HostReads, HostConfigured, HostJoined, HostAnswered, HostOffers, HostStartFails,
              pageVars
<1>3. ASSUME NEW w \in Viewer, PageReads(w)
      PROVE  pc'[v] = pc[v] \/ (PageOffered(v) /\ pc'[v] = Head(down[v])) \/ pc'[v] = Nothing
  BY <1>0, <1>3 DEF PageReads, PageConfigured, PageOffered, PageRefuses, PageTypes
<1>4. ASSUME NEW w \in Viewer, NEW o, PageDescribed(w, o) \/ PageAnswers(w, o)
      PROVE  pc' = pc
  BY <1>4 DEF PageDescribed, PageAnswers
<1>5. CASE UNCHANGED vars
  BY <1>5 DEF vars, pageVars
<1> QED
  BY <1>1, <1>2, <1>3, <1>4, <1>5, StepKinds DEF Works, Reads

\* The offer a page reads.
LEMMA OfferedParts ==
    ASSUME TypeOK, NEW v \in Viewer, PageOffered(v)
    PROVE  /\ down[v] \in Seq(Inbound(v)) /\ down[v] # <<>> /\ down'[v] = Tail(down[v])
           /\ Head(down[v]) \in Offers
           /\ \A h \in Host : Head(down[v]).host = h =>
                /\ Kind(Head(down[v]), "offer", h, None)
                /\ Head(down[v]).session \in Coming(h, v)
<1>1. v \in Conn /\ Receives(v, "offer")
  BY Sides DEF PageOffered
<1>2. /\ down[v] \in Seq(Inbound(v)) /\ down[v] # <<>> /\ down'[v] = Tail(down[v])
      /\ Head(down[v]) \in Inbound(v) /\ Head(down[v]).type = "offer"
  BY <1>1, ReceivesType, TypeParts DEF DownOK
<1>3. Head(down[v]) \in Offers
  BY <1>2, Kinds
<1>4. ASSUME NEW h \in Host, Head(down[v]).host = h
      PROVE  Kind(Head(down[v]), "offer", h, None)
  BY <1>3, <1>4 DEF Kind, Offers
<1> QED
  BY <1>2, <1>3, <1>4, NumbersTaken DEF Coming

LEMMA ShownFrom ==
    ASSUME TypeOK, [Next]_vars, NEW h \in Host, NEW v \in Viewer, NEW n \in Shown(h, v)'
    PROVE  \/ n \in Shown(h, v) /\ pc'[v] = pc[v]
           \/ /\ PageOffered(v) /\ n \in Coming(h, v)
              /\ Kind(Head(down[v]), "offer", h, None) /\ n = Head(down[v]).session
<1>1. pc'[v].host = h /\ n = pc'[v].session
  BY DEF Shown
<1>2. CASE pc'[v] = pc[v]
  BY <1>1, <1>2 DEF Shown
<1>3. CASE PageOffered(v) /\ pc'[v] = Head(down[v])
  BY <1>1, <1>3, OfferedParts
<1>4. Nothing.host # h
  BY Sides DEF Nothing, Config
<1> QED
  BY <1>1, <1>2, <1>3, <1>4, PcSteps

\* Nothing gets nearer but by being read by the page.
LEMMA ReachedFrom ==
    ASSUME TypeOK, Own, [Next]_vars, NEW h \in Host, NEW v \in Viewer, NEW n \in Reached(h, v)'
    PROVE  \/ n \in Reached(h, v)
           \/ /\ PageOffered(v) /\ n \in Coming(h, v)
              /\ Kind(Head(down[v]), "offer", h, None) /\ n = Head(down[v]).session
BY ArrivingFrom, LeavingFrom, OnPageFrom, ShownFrom DEF Reached, Done

LEMMA OneStepKept ==
    ASSUME TypeOK, Orders, [Next]_vars
    PROVE  OneStep'
<1> SUFFICES ASSUME NEW v \in Viewer, NEW o \in Offers,
                    [offer |-> o, step |-> "describe"] \in handlers'[v],
                    [offer |-> o, step |-> "gather"] \in handlers'[v]
             PROVE  FALSE
  BY DEF OneStep
<1> DEFINE x == [offer |-> o, step |-> "describe"]
           y == [offer |-> o, step |-> "gather"]
<1>0. /\ x.offer = o /\ x.step = "describe" /\ y.offer = o /\ y.step = "gather"
      /\ x \in handlers'[v] /\ y \in handlers'[v]
      /\ ~(x \in handlers[v] /\ y \in handlers[v])
  BY DEF Orders, OneStep
<1>1. \A z : [offer |-> z, step |-> "gather"].step = "gather"
             /\ [offer |-> z, step |-> "describe"].step = "describe"
  OBVIOUS
<1>2. x \in handlers[v] \/ (PageOffered(v) /\ o = Head(down[v]))
  BY <1>0, <1>1, HandlerSteps
<1>3. y \in handlers[v] \/ (PageDescribed(v, o) /\ x \in handlers[v])
  BY <1>0, <1>1, HandlerSteps
<1>4. CASE x \in handlers[v] /\ PageDescribed(v, o)
  <2>1. handlers'[v] \subseteq (handlers[v] \ {x}) \cup {y}
    BY <1>4, TypeParts DEF PageDescribed, PageTypes
  <2> QED
    BY <1>0, <2>1
<1>5. CASE y \in handlers[v] /\ PageOffered(v) /\ o = Head(down[v])
  <2>1. PICK h \in Host, n \in Nat : o.host = h /\ o.session = n
    BY Kinds
  <2>2. n \in Coming(h, v)
    BY <1>5, <2>1, OfferedParts
  <2>3. n \in OnPage(h, v)
    <3> HIDE DEF y
    <3> QED
      BY <1>0, <1>5, <2>1 DEF OnPage
  <2>4. n < n
    BY <2>2, <2>3 DEF Orders, Orderly, Below, Reached
  <2> QED
    BY <2>1, <2>4
<1> QED
  BY <1>0, <1>2, <1>3, <1>4, <1>5

\* What a page sends answers the offer it works on.
LEMMA LeavingWorks ==
    ASSUME TypeOK, [Next]_vars, NEW h \in Host, NEW v \in Viewer, NEW n \in Leaving(h, v)'
    PROVE  n \in Leaving(h, v) \/ (Working(v) /\ n \in Shown(h, v))
<1>0. v \in Conn /\ v \notin Host /\ up[v] \in Seq(Outbound(v)) /\ Outbound(v) = Answers
  BY TypeParts, Sides DEF UpOK
<1>1. n \in Numbers(up'[v], "answer", h, v)
  BY DEF Leaving
<1>2. CASE up[v] # <<>> /\ up'[v] = Tail(up[v])
  BY <1>0, <1>1, <1>2, NumbersTaken DEF Leaving
<1>3. ASSUME NEW k \in 0..Len(up[v]), up'[v] = SubSeq(up[v], 1, k)
      PROVE  n \in Leaving(h, v)
  BY <1>0, <1>1, <1>3, NumbersCut DEF Leaving
<1>4. ASSUME NEW o \in Offers, pc[v] = o, [offer |-> o, step |-> "gather"] \in handlers[v],
             up'[v] = Append(up[v], Answer(v, o))
      PROVE  n \in Leaving(h, v) \/ (Working(v) /\ n \in Shown(h, v))
  <2>1. Answer(v, o) \in Outbound(v)
    BY <1>0, MessageTypes
  <2>2. Answer(v, o).session = o.session /\ Answer(v, o).host = o.host
    BY DEF Answer, Offers
  <2>3. Working(v)
    <3> DEFINE y == [offer |-> o, step |-> "gather"]
    <3>1. y \in handlers[v] /\ y.offer = o
      BY <1>4
    <3> HIDE DEF y
    <3> QED
      BY <1>4, <3>1 DEF Working
  <2> QED
    BY <1>0, <1>1, <1>4, <2>1, <2>2, <2>3, NumbersAdded DEF Leaving, Kind, Shown
<1> QED
  BY <1>0, <1>1, <1>2, <1>3, <1>4, UpSteps DEF Leaving

LEMMA OrdersKept ==
    ASSUME TypeOK, Issued, Orders, [Next]_vars
    PROVE  Orders'
<1>0. TypeOK' /\ Own
  BY TypesKept DEF Issued
<1> SUFFICES ASSUME NEW h \in Host, NEW v \in Viewer PROVE Orderly(h, v)'
  BY OneStepKept DEF Orders
<1>1. /\ h \in Conn /\ v \in Conn /\ h \notin Viewer /\ v \notin Host
      /\ down[h] \in Seq(Inbound(h)) /\ down[v] \in Seq(Inbound(v))
      /\ up[h] \in Seq(Outbound(h)) /\ up[v] \in Seq(Outbound(v))
      /\ session[h] \in Nat
  BY TypeParts, Sides DEF DownOK, UpOK, HostTypes
<1>2. /\ Going(h) \subseteq 1..session[h] /\ Coming(h, v) \subseteq 1..session[h]
      /\ Reached(h, v) \subseteq 0..session[h]
  <2>1. /\ Going(h) \subseteq 1..session[h] /\ Held(h, v) \subseteq 1..session[h]
        /\ Arriving(h, h, v) \subseteq 1..session[h]
    BY DEF Issued
  <2>2. Shown(h, v) \subseteq 0..session[h]
    BY DEF Orders, Orderly
  <2>3. /\ Coming(h, v) \subseteq 1..session[h] /\ OnPage(h, v) \subseteq 1..session[h]
        /\ Leaving(h, v) \subseteq 1..session[h]
    BY <2>1 DEF Held
  <2>4. 1..session[h] \subseteq 0..session[h]
    BY <1>1
  <2> QED
    BY <2>1, <2>2, <2>3, <2>4 DEF Reached, Done
<1>3. Orderly(h, v)
  BY DEF Orders
\* A message the server forwards leaves the queue it was first in.
<1>4. ASSUME NEW c \in Conn, Relay(c)
      PROVE  up[c] # <<>> /\ up[c] \in Seq(Outbound(c)) /\ up'[c] = Tail(up[c])
  BY <1>4, RelayParts, TypeParts DEF UpOK
\* Arriving answers.
<1>5. Rising(down'[h], "answer", h, v)
  <2>0. Rising(down[h], "answer", h, v)
    BY <1>3 DEF Orderly
  <2>1. ASSUME NEW c \in Conn, Register(c), down'[h] = Second(c, h, slot')
        PROVE  Rising(down'[h], "answer", h, v)
    BY <1>0, <1>1, <2>0, <2>1, Written
  <2>2. ASSUME NEW d \in Conn, Relay(d), up[d] # <<>>, Head(up[d]) \in Outbound(d),
               h = slot[OtherRole(d)], Role(h) = OtherRole(d), h \in open,
               down'[h] = Append(down[h], Head(up[d]))
        PROVE  Rising(down'[h], "answer", h, v)
    <3> DEFINE m == Head(up[d])
    <3>1. d \in Viewer
      BY <1>1, <2>2, MessageTypes, Sides
    <3>2. m \in Inbound(h)
      BY <1>1, <2>2, <3>1, Sides
    <3>3. Kind(m, "answer", h, v) => d = v /\ m.session \in Leaving(h, v)
      <4>1. Kind(m, "answer", h, v) => d = v
        BY <1>0, <2>2, <3>1, OwnHead DEF Kind
      <4> QED
        BY <1>1, <2>2, <4>1, NumbersTaken DEF Leaving
    <3>4. Kind(m, "answer", h, v) =>
            \A n \in Numbers(down[h], "answer", h, v) : n < m.session
      BY <1>3, <3>3 DEF Orderly, Below, Arriving
    <3> HIDE DEF m
    <3>5. Rising(Append(down[h], m), "answer", h, v)
      BY <1>1, <2>0, <3>2, <3>4, NumbersAdded
    <3> QED
      BY <2>2, <3>5 DEF m
  <2>3. CASE down'[h] = <<>>
    BY <2>3, NumbersEmpty
  <2>4. CASE down[h] # <<>> /\ down'[h] = Tail(down[h])
    BY <1>1, <2>0, <2>4, NumbersTaken
  <2> QED
    BY <1>1, <2>0, <2>1, <2>2, <2>3, <2>4, DownSteps
\* Leaving answers.
<1>6. Rising(up'[v], "answer", h, v)
  <2>0. Rising(up[v], "answer", h, v)
    BY <1>3 DEF Orderly
  <2>1. CASE up[v] # <<>> /\ up'[v] = Tail(up[v])
    BY <1>1, <2>0, <2>1, NumbersTaken
  <2>2. ASSUME NEW n \in 0..Len(up[v]), up'[v] = SubSeq(up[v], 1, n)
        PROVE  Rising(up'[v], "answer", h, v)
    BY <1>1, <2>0, <2>2, NumbersCut
  <2>3. ASSUME NEW o \in Offers, pc[v] = o, [offer |-> o, step |-> "gather"] \in handlers[v],
               up'[v] = Append(up[v], Answer(v, o))
        PROVE  Rising(up'[v], "answer", h, v)
    <3> DEFINE m == Answer(v, o)
    <3>1. m \in Outbound(v) /\ m.host = o.host /\ m.session = o.session
      <4>1. m.host = o.host /\ m.session = o.session
        BY DEF Answer, Offers
      <4> QED
        BY <1>1, <4>1, MessageTypes, Sides
    <3>2. Working(v)
      <4> DEFINE y == [offer |-> o, step |-> "gather"]
      <4>1. y \in handlers[v] /\ y.offer = o
        BY <2>3
      <4> HIDE DEF y
      <4> QED
        BY <2>3, <4>1 DEF Working
    <3>3. Kind(m, "answer", h, v) => m.session \in Shown(h, v)
      BY <2>3, <3>1 DEF Kind, Shown
    <3>4. Kind(m, "answer", h, v) => \A n \in Numbers(up[v], "answer", h, v) : n < m.session
      BY <1>3, <3>2, <3>3 DEF Orderly, Below, Done, Leaving
    <3> HIDE DEF m
    <3>5. Rising(Append(up[v], m), "answer", h, v)
      BY <1>1, <2>0, <3>1, <3>4, NumbersAdded
    <3> QED
      BY <2>3, <3>5 DEF m
  <2> QED
    BY <1>1, <2>0, <2>1, <2>2, <2>3, UpSteps
<1>7. Below(Arriving(h, h, v)', Leaving(h, v)')
  <2> SUFFICES ASSUME NEW a \in Arriving(h, h, v)', NEW b \in Leaving(h, v)' PROVE a < b
    BY DEF Below
  <2>1. CASE Relay(v) /\ Kind(Head(up[v]), "answer", h, v) /\ a = Head(up[v]).session
    <3>1. b \in Numbers(Tail(up[v]), "answer", h, v)
      BY <1>1, <1>4, <2>1 DEF Leaving
    <3>2. Rising(up[v], "answer", h, v)
      BY <1>3 DEF Orderly
    <3> QED
      BY <1>1, <1>4, <2>1, <3>1, <3>2, NumbersTaken
  <2>2. CASE a \in Arriving(h, h, v)
    <3>1. CASE b \in Leaving(h, v)
      BY <1>3, <2>2, <3>1 DEF Orderly, Below
    <3>2. CASE b \notin Leaving(h, v)
      <4>2. Working(v) /\ b \in Shown(h, v)
        BY <3>2, LeavingWorks
      <4>3. Below(Done(h, v), Shown(h, v)) /\ a \in Done(h, v)
        BY <1>3, <2>2, <4>2 DEF Orderly, Done
      <4> QED
        BY <4>2, <4>3 DEF Below
    <3> QED
      BY <3>1, <3>2
  <2> QED
    BY <1>0, <2>1, <2>2, ArrivingFrom
\* The offer the page works on.
<1>8. ASSUME Working(v)' PROVE Below(Done(h, v)', Shown(h, v)')
  <2> SUFFICES ASSUME NEW a \in Done(h, v)', NEW b \in Shown(h, v)' PROVE a < b
    BY DEF Below
  <2>1. a \in Done(h, v) \/ (a \in OnPage(h, v) /\ \E o \in Offers :
                               /\ PageAnswers(v, o) /\ pc[v] = o
                               /\ [offer |-> o, step |-> "gather"] \in handlers[v])
    BY <1>0, ArrivingFrom, LeavingFrom DEF Done
  <2>2. CASE b \in Coming(h, v)
    <3>1. a \in Reached(h, v)
      BY <2>1 DEF Reached
    <3> QED
      BY <1>3, <2>2, <3>1 DEF Orderly, Below
  <2>3. CASE b \in Shown(h, v) /\ pc'[v] = pc[v]
    <3>1. PICK hd \in handlers'[v] : hd.offer = pc[v]
      BY <1>8, <2>3 DEF Working
    <3>2. Working(v) \/ b \in Coming(h, v)
      <4>1. CASE hd \in handlers[v]
        BY <3>1, <4>1 DEF Working
      <4>2. CASE [offer |-> hd.offer, step |-> "describe"] \in handlers[v]
        <5> DEFINE x == [offer |-> hd.offer, step |-> "describe"]
        <5>1. x \in handlers[v] /\ x.offer = hd.offer
          BY <4>2
        <5> HIDE DEF x
        <5> QED
          BY <3>1, <5>1 DEF Working
      <4>3. CASE PageOffered(v) /\ hd.offer = Head(down[v])
        BY <2>3, <3>1, <4>3, OfferedParts DEF Shown
      <4> QED
        BY <4>1, <4>2, <4>3, HandlerSteps
    <3>3. ASSUME NEW o \in Offers, PageAnswers(v, o), pc[v] = o,
                 [offer |-> o, step |-> "gather"] \in handlers[v]
          PROVE  FALSE
      <4> DEFINE y == [offer |-> o, step |-> "gather"]
                 x == [offer |-> o, step |-> "describe"]
      <4>1. handlers'[v] = handlers[v] \ {y}
        BY <3>3, TypeParts DEF PageAnswers, PageTypes
      <4>2. hd \in handlers[v] /\ hd # y /\ hd.offer = o
        BY <3>1, <3>3, <4>1
      <4>3. hd = x
        <5>1. hd \in [offer : Offers, step : {"describe", "gather"}]
          BY <4>2, TypeParts DEF PageTypes
        <5>2. hd = [offer |-> hd.offer, step |-> hd.step] /\ hd.step \in {"describe", "gather"}
          BY <5>1
        <5> QED
          BY <4>2, <5>2
      <4> QED
        BY <3>3, <4>2, <4>3 DEF Orders, OneStep
    <3>4. a \in Done(h, v)
      BY <2>1, <3>3
    <3> QED
      BY <1>3, <2>2, <2>3, <3>2, <3>4 DEF Orderly, Below
  <2> QED
    BY <2>2, <2>3, ShownFrom
\* Coming offers.
<1>9. Rising(down'[v], "offer", h, None)
  <2>0. Rising(down[v], "offer", h, None)
    BY <1>3 DEF Orderly
  <2>1. ASSUME NEW c \in Conn, Register(c), down'[v] = Second(c, v, slot')
        PROVE  Rising(down'[v], "offer", h, None)
    BY <1>0, <1>1, <2>0, <2>1, Written
  <2>2. ASSUME NEW d \in Conn, Relay(d), up[d] # <<>>, Head(up[d]) \in Outbound(d),
               v = slot[OtherRole(d)], Role(v) = OtherRole(d), v \in open,
               down'[v] = Append(down[v], Head(up[d]))
        PROVE  Rising(down'[v], "offer", h, None)
    <3> DEFINE m == Head(up[d])
    <3>1. d \in Host
      BY <1>1, <2>2, MessageTypes, Sides
    <3>2. m \in Inbound(v)
      BY <1>1, <2>2, <3>1, Sides
    <3>3. Kind(m, "offer", h, None) => d = h /\ m.session \in Going(h)
      <4>1. Kind(m, "offer", h, None) => d = h
        BY <1>0, <2>2, <3>1, OwnHead DEF Kind
      <4> QED
        BY <1>1, <2>2, <4>1, NumbersTaken DEF Going
    <3>4. Kind(m, "offer", h, None) =>
            \A n \in Numbers(down[v], "offer", h, None) : n < m.session
      BY <1>3, <3>3 DEF Orderly, Below, Coming
    <3> HIDE DEF m
    <3>5. Rising(Append(down[v], m), "offer", h, None)
      BY <1>1, <2>0, <3>2, <3>4, NumbersAdded
    <3> QED
      BY <2>2, <3>5 DEF m
  <2>3. CASE down'[v] = <<>>
    BY <2>3, NumbersEmpty
  <2>4. CASE down[v] # <<>> /\ down'[v] = Tail(down[v])
    BY <1>1, <2>0, <2>4, NumbersTaken
  <2> QED
    BY <1>1, <2>0, <2>1, <2>2, <2>3, <2>4, DownSteps
<1>10. Below(Reached(h, v)', Coming(h, v)')
  <2> SUFFICES ASSUME NEW a \in Reached(h, v)', NEW b \in Coming(h, v)' PROVE a < b
    BY DEF Below
  <2>1. CASE PageOffered(v) /\ Kind(Head(down[v]), "offer", h, None) /\ a = Head(down[v]).session
    <3>1. b \in Numbers(Tail(down[v]), "offer", h, None)
      BY <2>1, OfferedParts DEF Coming
    <3>2. Rising(down[v], "offer", h, None)
      BY <1>3 DEF Orderly
    <3>3. down[v] # <<>>
      BY <2>1, OfferedParts
    <3> QED
      BY <1>1, <2>1, <3>1, <3>2, <3>3, NumbersTaken
  <2>2. CASE a \in Reached(h, v)
    <3>1. b \in Coming(h, v) \/ b \in Going(h)
      BY <1>0, ComingFrom
    <3> QED
      BY <1>3, <2>2, <3>1 DEF Orderly, Below
  <2> QED
    BY <1>0, <2>1, <2>2, ReachedFrom
\* Going offers.
<1>11. HostOffers(h) => phase[h] = "start"
  BY DEF HostOffers
<1>12. Rising(up'[h], "offer", h, None)
  <2>0. Rising(up[h], "offer", h, None)
    BY <1>3 DEF Orderly
  <2>1. CASE up[h] # <<>> /\ up'[h] = Tail(up[h])
    BY <1>1, <2>0, <2>1, NumbersTaken
  <2>2. ASSUME NEW n \in 0..Len(up[h]), up'[h] = SubSeq(up[h], 1, n)
        PROVE  Rising(up'[h], "offer", h, None)
    BY <1>1, <2>0, <2>2, NumbersCut
  <2>3. CASE HostOffers(h) /\ up'[h] = Append(up[h], Offer(h, session[h]))
    <3> DEFINE m == Offer(h, session[h])
    <3>1. m \in Outbound(h)
      BY <1>1, MessageTypes, Sides
    <3>2. m.session = session[h]
      BY DEF Offer
    <3>3. \A n \in Numbers(up[h], "offer", h, None) : n < m.session
      BY <1>3, <1>11, <2>3, <3>2 DEF Orderly, Below, Going
    <3> HIDE DEF m
    <3>4. Rising(Append(up[h], m), "offer", h, None)
      BY <1>1, <2>0, <3>1, <3>3, NumbersAdded
    <3> QED
      BY <2>3, <3>4 DEF m
  <2> QED
    BY <1>1, <2>0, <2>1, <2>2, <2>3, UpSteps
<1>13. ASSUME NEW n \in Reached(h, v)' \cup Coming(h, v)'
       PROVE  \/ n \in Reached(h, v) \cup Coming(h, v)
              \/ /\ Relay(h) /\ n \in Going(h)
                 /\ Kind(Head(up[h]), "offer", h, None) /\ n = Head(up[h]).session
  BY <1>0, <1>13, ReachedFrom, ComingFrom
<1>14. Below(Reached(h, v)' \cup Coming(h, v)', Going(h)')
  <2> SUFFICES ASSUME NEW a \in Reached(h, v)' \cup Coming(h, v)', NEW b \in Going(h)' PROVE a < b
    BY DEF Below
  <2>1. CASE Relay(h) /\ Kind(Head(up[h]), "offer", h, None) /\ a = Head(up[h]).session
    <3>1. b \in Numbers(Tail(up[h]), "offer", h, None)
      BY <1>1, <1>4, <2>1 DEF Going
    <3>2. Rising(up[h], "offer", h, None)
      BY <1>3 DEF Orderly
    <3> QED
      BY <1>1, <1>4, <2>1, <3>1, <3>2, NumbersTaken
  <2>2. CASE a \in Reached(h, v) \cup Coming(h, v)
    <3>1. b \in Going(h) \/ (phase[h] = "start" /\ b = session[h])
      BY <1>11, GoingFrom
    <3> QED
      BY <1>3, <2>2, <3>1 DEF Orderly, Below
  <2> QED
    BY <1>13, <2>1, <2>2
\* Sessions that have begun.
<1>15. session'[h] = session[h] \/ session'[h] = session[h] + 1
  BY HostSteps
<1>16. Shown(h, v)' \subseteq 0..session'[h]
  <2> SUFFICES ASSUME NEW n \in Shown(h, v)' PROVE n \in 0..session'[h]
    OBVIOUS
  <2>1. n \in 0..session[h]
    BY <1>2, ShownFrom DEF Reached
  <2> QED
    BY <1>1, <1>15, <2>1
<1>17. ASSUME phase'[h] = "start"
       PROVE  Below(Reached(h, v)' \cup Coming(h, v)' \cup Going(h)', {session'[h]})
  <2> SUFFICES ASSUME NEW a \in Reached(h, v)' \cup Coming(h, v)' \cup Going(h)'
               PROVE  a < session'[h]
    BY DEF Below
  <2>1. a \in Reached(h, v) \cup Coming(h, v) \cup Going(h) \/ (HostOffers(h) /\ a = session[h])
    BY <1>13, GoingFrom
  <2>2. a \in 0..session[h]
    BY <1>1, <1>2, <2>1
  <2>3. CASE session'[h] = session[h] + 1
    BY <1>1, <2>2, <2>3
  <2>4. CASE session'[h] = session[h] /\ phase[h] = "start" /\ ~HostOffers(h)
    BY <1>3, <2>1, <2>4 DEF Orderly, Below
  <2> QED
    BY <1>17, <2>3, <2>4, HostSteps
<1> QED
  BY <1>5, <1>6, <1>7, <1>8, <1>9, <1>10, <1>12, <1>14, <1>16, <1>17 DEF Orderly

LEMMA OrdersStart == Init => Orders
<1> SUFFICES ASSUME Init PROVE Orders
  OBVIOUS
<1>1. \A c \in Conn : down[c] = <<>> /\ up[c] = <<>>
  BY DEF Init
<1>2. \A v \in Viewer : handlers[v] = {} /\ pc[v] = Nothing
  BY DEF Init
<1>3. ASSUME NEW h \in Host, NEW v \in Viewer
      PROVE  Orderly(h, v)
  <2>1. h \in Conn /\ v \in Conn /\ Nothing.host # h
    BY Sides DEF Nothing, Config
  <2>2. /\ Going(h) = {} /\ Coming(h, v) = {} /\ OnPage(h, v) = {}
        /\ Leaving(h, v) = {} /\ Arriving(h, h, v) = {} /\ Shown(h, v) = {}
    BY <1>1, <1>2, <2>1, NumbersEmpty DEF Going, Coming, OnPage, Leaving, Arriving, Shown
  <2>3. /\ Rising(down[h], "answer", h, v) /\ Rising(up[v], "answer", h, v)
        /\ Rising(down[v], "offer", h, None) /\ Rising(up[h], "offer", h, None)
    BY <1>1, <2>1, NumbersEmpty
  <2>4. phase[h] # "start"
    BY DEF Init
  <2>5. Done(h, v) = {} /\ Reached(h, v) = {}
    BY <2>2 DEF Done, Reached
  <2> QED
    BY <2>2, <2>3, <2>4, <2>5 DEF Orderly, Below
<1>4. OneStep
  BY <1>2 DEF OneStep
<1> QED
  BY <1>3, <1>4 DEF Orders

LEMMA OrdersAlways == Spec => [](TypeOK /\ Issued /\ Orders)
<1>1. Spec => [](TypeOK /\ Issued)
  BY GuestsAlways, PTL
<1> QED
  BY <1>1, OrdersStart, OrdersKept, PTL DEF Spec

\* A page's answers reach a host in the order of the offers they answer, however
\* many handlers run, connections close and messages the server drops.
THEOREM AnswersComeInOrder == Spec => []AnswersInOrder
<1>1. ASSUME TypeOK, Orders PROVE AnswersInOrder
  <2> SUFFICES ASSUME NEW h \in Host, NEW v \in Viewer,
                      NEW i \in DOMAIN (down[h] \o up[v]), NEW j \in DOMAIN (down[h] \o up[v]),
                      i < j, AnswerTo((down[h] \o up[v])[i], h, v),
                      AnswerTo((down[h] \o up[v])[j], h, v)
               PROVE  (down[h] \o up[v])[i].session < (down[h] \o up[v])[j].session
    BY DEF AnswersInOrder
  <2> DEFINE p == down[h]
             q == up[v]
             t == p \o q
  <2>0. p \in Seq(Inbound(h)) /\ q \in Seq(Outbound(v))
    BY <1>1, TypeParts, Sides DEF DownOK, UpOK
  <2>1. /\ Rising(p, "answer", h, v) /\ Rising(q, "answer", h, v)
        /\ Below(Numbers(p, "answer", h, v), Numbers(q, "answer", h, v))
    BY <1>1 DEF Orders, Orderly, Arriving, Leaving
  <2>2. Kind(t[i], "answer", h, v) /\ Kind(t[j], "answer", h, v)
    BY DEF Kind, AnswerTo
  <2>3. i \in DOMAIN t /\ j \in DOMAIN t /\ i < j
    OBVIOUS
  <2> HIDE DEF p, q
  <2>4. /\ Len(p) \in Nat /\ Len(q) \in Nat /\ DOMAIN p = 1..Len(p) /\ DOMAIN q = 1..Len(q)
        /\ DOMAIN t = 1..Len(p) + Len(q)
        /\ \A k \in 1..Len(p) : t[k] = p[k]
        /\ \A k \in Len(p) + 1..Len(p) + Len(q) : t[k] = q[k - Len(p)]
    <3>1. p \in Seq(Inbound(h) \cup Outbound(v)) /\ q \in Seq(Inbound(h) \cup Outbound(v))
      BY <2>0
    <3>2. /\ t \in Seq(Inbound(h) \cup Outbound(v)) /\ Len(t) = Len(p) + Len(q)
          /\ \A k \in 1..Len(t) : t[k] = IF k <= Len(p) THEN p[k] ELSE q[k - Len(p)]
      BY <3>1, ConcatProperties
    <3>3. Len(p) \in Nat /\ Len(q) \in Nat /\ DOMAIN p = 1..Len(p) /\ DOMAIN q = 1..Len(q)
          /\ DOMAIN t = 1..Len(t)
      BY <3>1, <3>2, LenProperties
    <3> HIDE DEF t
    <3> QED
      BY <3>2, <3>3
  <2> HIDE DEF t
  <2>5. CASE j \in 1..Len(p)
    <3>1. i \in DOMAIN p /\ j \in DOMAIN p /\ t[i] = p[i] /\ t[j] = p[j]
      BY <2>3, <2>4, <2>5
    <3> QED
      BY <2>1, <2>2, <2>3, <3>1 DEF Rising, t, p, q
  <2>6. CASE i \in Len(p) + 1..Len(p) + Len(q)
    <3>1. /\ i - Len(p) \in DOMAIN q /\ j - Len(p) \in DOMAIN q /\ i - Len(p) < j - Len(p)
          /\ t[i] = q[i - Len(p)] /\ t[j] = q[j - Len(p)]
      BY <2>3, <2>4, <2>6
    <3> QED
      BY <2>1, <2>2, <2>3, <3>1 DEF Rising, t, p, q
  <2>7. CASE i \in 1..Len(p) /\ j \in Len(p) + 1..Len(p) + Len(q)
    <3>1. i \in DOMAIN p /\ t[i] = p[i] /\ j - Len(p) \in DOMAIN q /\ t[j] = q[j - Len(p)]
      BY <2>3, <2>4, <2>7
    <3>2. t[i].session \in Numbers(p, "answer", h, v) /\ t[j].session \in Numbers(q, "answer", h, v)
      BY <2>2, <3>1 DEF Numbers
    <3>3. t[i].session < t[j].session
      BY <2>1, <3>2 DEF Below
    <3> QED
      BY <3>3 DEF t, p, q
  <2> QED
    BY <2>3, <2>4, <2>5, <2>6, <2>7
<1> QED
  BY <1>1, OrdersAlways, PTL

-----------------------------------------------------------------------------
\* Where offers and answers are.

Spot(name, c, i) == <<<<name, c>>, i>>
Carried(q, i, h, n) == i \in DOMAIN q /\ Carries(q[i], h, n)
One(P) == \A p, q \in P : p = q

LEMMA SpotsDiffer ==
    ASSUME NEW a, NEW c, NEW i, NEW b, NEW d, NEW j, Spot(a, c, i) = Spot(b, d, j)
    PROVE  a = b /\ c = d /\ i = j
BY DEF Spot

LEMMA InQueue ==
    ASSUME NEW name, NEW queues, NEW h, NEW n
    PROVE  /\ \A p \in InQueues(name, queues, h, n) :
                \E c \in Conn : \E i : p = Spot(name, c, i) /\ Carried(queues[c], i, h, n)
           /\ \A c \in Conn : \A i : Carried(queues[c], i, h, n) =>
                Spot(name, c, i) \in InQueues(name, queues, h, n)
<1> DEFINE At(c) == {i \in DOMAIN queues[c] : Carries(queues[c][i], h, n)}
           Of(c) == {<<name, c>>} \X At(c)
<1>1. InQueues(name, queues, h, n) = UNION {Of(c) : c \in Conn}
  BY DEF InQueues
<1>2. ASSUME NEW c, NEW p \in Of(c)
      PROVE  \E i : p = Spot(name, c, i) /\ Carried(queues[c], i, h, n)
  <2>1. PICK k \in {<<name, c>>}, i \in At(c) : p = <<k, i>>
    BY <1>2
  <2> QED
    BY <2>1 DEF Spot, Carried
<1>3. ASSUME NEW c, NEW i, Carried(queues[c], i, h, n)
      PROVE  Spot(name, c, i) \in Of(c)
  BY <1>3 DEF Spot, Carried
<1> HIDE DEF Of
<1> QED
  BY <1>1, <1>2, <1>3

OnPagesOf(runs, h, n) ==
    UNION {{<<"page", v>>} \X {hd \in runs[v] : Carries(hd.offer, h, n)} : v \in Viewer}

LEMMA OnPageSpots ==
    ASSUME NEW runs, NEW h, NEW n
    PROVE  /\ \A p \in OnPagesOf(runs, h, n) :
                \E v \in Viewer : \E x \in runs[v] :
                  p = Spot("page", v, x) /\ Carries(x.offer, h, n)
           /\ \A v \in Viewer : \A x \in runs[v] : Carries(x.offer, h, n) =>
                Spot("page", v, x) \in OnPagesOf(runs, h, n)
<1> DEFINE At(v) == {x \in runs[v] : Carries(x.offer, h, n)}
           Of(v) == {<<"page", v>>} \X At(v)
<1>1. OnPagesOf(runs, h, n) = UNION {Of(v) : v \in Viewer}
  BY DEF OnPagesOf
<1>2. ASSUME NEW v, NEW p \in Of(v)
      PROVE  \E x \in runs[v] : p = Spot("page", v, x) /\ Carries(x.offer, h, n)
  <2>1. PICK k \in {<<"page", v>>}, x \in At(v) : p = <<k, x>>
    BY <1>2
  <2> QED
    BY <2>1 DEF Spot
<1>3. ASSUME NEW v, NEW x \in runs[v], Carries(x.offer, h, n)
      PROVE  Spot("page", v, x) \in Of(v)
  BY <1>3 DEF Spot
<1> HIDE DEF Of
<1> QED
  BY <1>1, <1>2, <1>3

\* Every place is one of these, ...
LEMMA PlaceForms ==
    ASSUME NEW h, NEW n, NEW p \in Places(h, n)'
    PROVE  \/ \E c \in Conn : \E i : p = Spot("down", c, i) /\ Carried(down'[c], i, h, n)
           \/ \E c \in Conn : \E i : p = Spot("up", c, i) /\ Carried(up'[c], i, h, n)
           \/ \E v \in Viewer : \E x \in handlers'[v] :
                p = Spot("page", v, x) /\ Carries(x.offer, h, n)
<1>1. Places(h, n)' = InQueues("down", down', h, n) \cup InQueues("up", up', h, n)
                      \cup OnPagesOf(handlers', h, n)
  BY DEF Places, OnPages, OnPagesOf, InQueues
<1> QED
  BY <1>1, InQueue, OnPageSpots

\* ... and all of these are places.
LEMMA PlaceOf ==
    ASSUME NEW h, NEW n
    PROVE  /\ \A c \in Conn : \A i : Carried(down[c], i, h, n) => Spot("down", c, i) \in Places(h, n)
           /\ \A c \in Conn : \A i : Carried(up[c], i, h, n) => Spot("up", c, i) \in Places(h, n)
           /\ \A v \in Viewer : \A x \in handlers[v] : Carries(x.offer, h, n) =>
                Spot("page", v, x) \in Places(h, n)
<1>1. Places(h, n) = InQueues("down", down, h, n) \cup InQueues("up", up, h, n)
                     \cup OnPagesOf(handlers, h, n)
  BY DEF Places, OnPages, OnPagesOf
<1> QED
  BY <1>1, InQueue, OnPageSpots

\* What cannot have been anywhere is nowhere, and what was in one place is in one
\* place, if a step only carries one thing from s to t ...
Shifted(P, s, t, p) == (p \in P /\ p # s) \/ (p = t /\ s \in P)

LEMMA OneMoved ==
    ASSUME NEW P, NEW Q, NEW s, NEW t, One(P), \A p \in Q : Shifted(P, s, t, p)
    PROVE  One(Q) /\ (P = {} => Q = {})
BY DEF One, Shifted

\* ... or takes the first thing off a queue, to t, which moves the others up.
Passed(P, a, c, t, p) ==
    \/ p \in P /\ \A i : p # Spot(a, c, i)
    \/ \E i \in Nat \ {0} : p = Spot(a, c, i) /\ Spot(a, c, i + 1) \in P
    \/ p = t /\ Spot(a, c, 1) \in P

AllPassed(P, Q, a, c, t) == \A p \in Q : Passed(P, a, c, t, p)

LEMMA OnePassed ==
    ASSUME NEW P, NEW Q, NEW a, NEW c, NEW t, One(P), AllPassed(P, Q, a, c, t)
    PROVE  One(Q) /\ (P = {} => Q = {})
<1>1. ASSUME NEW p \in Q, NEW q \in Q PROVE p = q
  <2>0. /\ \/ q \in P /\ \A i : q # Spot(a, c, i)
           \/ \E i \in Nat \ {0} : q = Spot(a, c, i) /\ Spot(a, c, i + 1) \in P
           \/ q = t /\ Spot(a, c, 1) \in P
        /\ \/ p \in P /\ \A i : p # Spot(a, c, i)
           \/ \E i \in Nat \ {0} : p = Spot(a, c, i) /\ Spot(a, c, i + 1) \in P
           \/ p = t /\ Spot(a, c, 1) \in P
    BY DEF AllPassed, Passed
  <2>1. ASSUME NEW i \in Nat \ {0}, p = Spot(a, c, i), Spot(a, c, i + 1) \in P
        PROVE  p = q
    <3>1. ASSUME NEW j \in Nat \ {0}, q = Spot(a, c, j), Spot(a, c, j + 1) \in P
          PROVE  p = q
      <4>1. Spot(a, c, i + 1) = Spot(a, c, j + 1)
        BY <2>1, <3>1 DEF One
      <4>2. i + 1 = j + 1
        BY <4>1, SpotsDiffer
      <4> QED
        BY <2>1, <3>1, <4>2
    <3>2. Spot(a, c, 1) \notin P
      <4> SUFFICES ASSUME Spot(a, c, 1) \in P PROVE FALSE
        OBVIOUS
      <4>1. Spot(a, c, i + 1) = Spot(a, c, 1)
        BY <2>1 DEF One
      <4>2. i + 1 = 1
        BY <4>1, SpotsDiffer
      <4> QED
        BY <4>2
    <3>3. q \in P => q = Spot(a, c, i + 1)
      BY <2>1 DEF One
    <3> QED
      BY <2>0, <3>1, <3>2, <3>3
  <2>2. CASE p = t /\ Spot(a, c, 1) \in P
    <3>1. ASSUME NEW j \in Nat \ {0}, Spot(a, c, j + 1) \in P
          PROVE  FALSE
      <4>1. Spot(a, c, j + 1) = Spot(a, c, 1)
        BY <2>2, <3>1 DEF One
      <4>2. j + 1 = 1
        BY <4>1, SpotsDiffer
      <4> QED
        BY <4>2
    <3>2. q \in P => q = Spot(a, c, 1)
      BY <2>2 DEF One
    <3> QED
      BY <2>0, <2>2, <3>1, <3>2
  <2>3. CASE p \in P /\ \A i : p # Spot(a, c, i)
    <3>1. \A i : Spot(a, c, i) \notin P
      BY <2>3 DEF One
    <3> QED
      BY <2>0, <2>3, <3>1 DEF One
  <2> QED
    BY <2>0, <2>1, <2>2, <2>3
<1>2. P = {} => Q = {}
  BY DEF AllPassed, Passed
<1> QED
  BY <1>1, <1>2 DEF One

LEMMA CarriedTaken ==
    ASSUME NEW S, NEW q \in Seq(S), q # <<>>, NEW h, NEW n
    PROVE  /\ \A i : Carried(Tail(q), i, h, n) => i \in Nat \ {0} /\ Carried(q, i + 1, h, n)
           /\ Carries(Head(q), h, n) => Carried(q, 1, h, n)
<1>1. /\ Len(q) \in Nat \ {0} /\ Len(Tail(q)) = Len(q) - 1 /\ Head(q) = q[1]
      /\ DOMAIN q = 1..Len(q) /\ DOMAIN Tail(q) = 1..Len(Tail(q))
      /\ \A i \in 1..Len(Tail(q)) : Tail(q)[i] = q[i + 1]
  <2>1. Tail(q) \in Seq(S)
    BY FirstOff
  <2> QED
    BY <2>1, FirstOff, LenProperties
<1>2. ASSUME NEW i, Carried(Tail(q), i, h, n)
      PROVE  i \in Nat \ {0} /\ Carried(q, i + 1, h, n)
  <2>1. i \in 1..Len(q) - 1 /\ Carries(q[i + 1], h, n)
    BY <1>1, <1>2 DEF Carried
  <2>2. i \in Nat \ {0} /\ i + 1 \in 1..Len(q)
    BY <1>1, <2>1
  <2> QED
    BY <1>1, <2>1, <2>2 DEF Carried
<1>3. 1 \in DOMAIN q
  BY <1>1
<1> QED
  BY <1>1, <1>2, <1>3 DEF Carried

LEMMA CarriedAdded ==
    ASSUME NEW S, NEW q \in Seq(S), NEW m \in S, NEW h, NEW n,
           NEW i, Carried(Append(q, m), i, h, n)
    PROVE  Carried(q, i, h, n) \/ (i = Len(q) + 1 /\ Carries(m, h, n))
<1>1. /\ Len(q) \in Nat /\ DOMAIN q = 1..Len(q) /\ DOMAIN Append(q, m) = 1..Len(q) + 1
      /\ \A k \in 1..Len(q) : Append(q, m)[k] = q[k]
      /\ Append(q, m)[Len(q) + 1] = m
  BY Added, LenProperties
<1>2. i \in 1..Len(q) \/ i = Len(q) + 1
  BY <1>1 DEF Carried
<1> QED
  BY <1>1, <1>2 DEF Carried

LEMMA CarriedCut ==
    ASSUME NEW S, NEW q \in Seq(S), NEW k \in 0..Len(q), NEW h, NEW n,
           NEW i, Carried(SubSeq(q, 1, k), i, h, n)
    PROVE  Carried(q, i, h, n)
<1>1. /\ Len(q) \in Nat /\ DOMAIN q = 1..Len(q) /\ DOMAIN SubSeq(q, 1, k) = 1..k
      /\ \A j \in 1..k : SubSeq(q, 1, k)[j] = q[j]
  BY Prefix, LenProperties
<1> QED
  BY <1>1 DEF Carried

\* What the server writes by itself is none of these.
LEMMA CarriedWritten ==
    ASSUME TypeOK, TypeOK', NEW c \in Conn, NEW d \in Conn, NEW h, NEW n,
           NEW i, Carried(Second(c, d, slot'), i, h, n)
    PROVE  Carried(down[d], i, h, n)
<1>1. down[d] \in Seq(Inbound(d)) /\ Config \in Inbound(d)
  BY TypeParts, MessageTypes DEF DownOK
<1>2. ~Carries(Config, h, n) /\ \A w : ~Carries(Joined(w), h, n)
  BY DEF Carries, Config, Joined
<1>3. /\ First(c, d) \in Seq(Inbound(d))
      /\ Carried(First(c, d), i, h, n) => Carried(down[d], i, h, n)
  <2>1. CASE d = c /\ c \in open
    <3>1. First(c, d) = Append(down[d], Config)
      BY <2>1 DEF First
    <3>2. Append(down[d], Config) \in Seq(Inbound(d))
      BY <1>1, Added
    <3> QED
      BY <1>1, <1>2, <3>1, <3>2, CarriedAdded
  <2>2. CASE ~(d = c /\ c \in open)
    BY <1>1, <2>2 DEF First
  <2> QED
    BY <2>1, <2>2
<1>4. CASE Announces(c, slot') /\ d = slot'["host"] /\ d \in open
  <2> DEFINE m == Joined(slot'["viewer"])
  <2>1. slot'["host"] \in Host /\ slot'["viewer"] \in Viewer
    BY <1>4, TypePartsNext DEF ServerTypes, Announces
  <2>2. m \in Inbound(d) /\ ~Carries(m, h, n)
    BY <1>2, <1>4, <2>1, MessageTypes
  <2>3. Second(c, d, slot') = Append(First(c, d), m)
    BY <1>4 DEF Second
  <2> HIDE DEF m
  <2> QED
    BY <1>3, <2>2, <2>3, CarriedAdded
<1>5. CASE ~(Announces(c, slot') /\ d = slot'["host"] /\ d \in open)
  BY <1>3, <1>5 DEF Second
<1> QED
  BY <1>4, <1>5

\* Nothing comes to a new place ...
Stays(h, n) == Places(h, n)' \subseteq Places(h, n)

\* What a step of any kind does to the places of one offer.
Moves(h, n) ==
    One(Places(h, n)) =>
        One(Places(h, n)') /\ (Places(h, n) = {} => Places(h, n)' = {})

LEMMA StaysMoves == ASSUME NEW h, NEW n, Stays(h, n) PROVE Moves(h, n)
BY DEF Stays, Moves, One

LEMMA ShiftedMoves ==
    ASSUME NEW h, NEW n, NEW s, NEW t,
           \A p \in Places(h, n)' : Shifted(Places(h, n), s, t, p)
    PROVE  Moves(h, n)
<1> DEFINE P == Places(h, n)
<1>1. ASSUME NEW Q, Q = Places(h, n)', One(P)
      PROVE  One(Q) /\ (P = {} => Q = {})
  <2>1. \A p \in Q : Shifted(P, s, t, p)
    BY <1>1
  <2> HIDE DEF P
  <2> QED
    BY <1>1, <2>1, OneMoved
<1> QED
  BY <1>1 DEF Moves

LEMMA PassedMoves ==
    ASSUME NEW h, NEW n, NEW a, NEW c, NEW t,
           \A p \in Places(h, n)' : Passed(Places(h, n), a, c, t, p)
    PROVE  Moves(h, n)
<1> DEFINE P == Places(h, n)
<1>1. ASSUME NEW Q, Q = Places(h, n)', One(P)
      PROVE  One(Q) /\ (P = {} => Q = {})
  <2>1. AllPassed(P, Q, a, c, t)
    BY <1>1 DEF AllPassed
  <2> HIDE DEF P
  <2> QED
    BY <1>1, <2>1, OnePassed
<1> QED
  BY <1>1 DEF Moves

LEMMA SamePlaces ==
    ASSUME UNCHANGED <<down, up, handlers>>, NEW h, NEW n
    PROVE  Stays(h, n)
<1> SUFFICES ASSUME NEW p \in Places(h, n)' PROVE p \in Places(h, n)
  BY DEF Stays
<1> QED
  BY PlaceForms, PlaceOf

LEMMA RegisterMoves ==
    ASSUME TypeOK, NEW c \in Conn, Register(c), NEW h, NEW n
    PROVE  Stays(h, n)
<1> SUFFICES ASSUME NEW p \in Places(h, n)' PROVE p \in Places(h, n)
  BY DEF Stays
<1>1. TypeOK' /\ UNCHANGED <<up, handlers>> /\ \A d \in Conn : down'[d] = Second(c, d, slot')
  BY RegisterParts DEF Register, pageVars
<1>2. \A d \in Conn : \A i : Carried(down'[d], i, h, n) => Carried(down[d], i, h, n)
  BY <1>1, CarriedWritten
<1> QED
  BY <1>1, <1>2, PlaceForms, PlaceOf

LEMMA ClosesMoves ==
    ASSUME TypeOK, NEW c \in Conn, Closes(c), NEW h, NEW n
    PROVE  Stays(h, n)
<1> SUFFICES ASSUME NEW p \in Places(h, n)' PROVE p \in Places(h, n)
  BY DEF Stays
<1>1. \A d \in Conn : \A i : Carried(down'[d], i, h, n) => Carried(down[d], i, h, n)
  <2>1. down'[c] = <<>> /\ \A d \in Conn : d # c => down'[d] = down[d]
    BY ClosesParts
  <2>2. \A i : ~Carried(<<>>, i, h, n)
    BY DEF Carried
  <2> QED
    BY <2>1, <2>2
<1>2. \A d \in Conn : \A i : Carried(up'[d], i, h, n) => Carried(up[d], i, h, n)
  <2>1. PICK k \in 0..Len(up[c]) : up'[c] = SubSeq(up[c], 1, k)
    BY ClosesParts
  <2>2. \A d \in Conn : d # c => up'[d] = up[d]
    BY ClosesParts
  <2>3. up[c] \in Seq(Outbound(c))
    BY TypeParts DEF UpOK
  <2> QED
    BY <2>1, <2>2, <2>3, CarriedCut
<1>3. \A v \in Viewer : \A x \in handlers'[v] : x \in handlers[v]
  BY ClosesParts
<1> QED
  BY <1>1, <1>2, <1>3, PlaceForms, PlaceOf

LEMMA RelayMoves ==
    ASSUME TypeOK, NEW c \in Conn, Relay(c), NEW h, NEW n
    PROVE  Moves(h, n)
<1> DEFINE d == slot[OtherRole(c)]
           t == Spot("down", d, Len(down[d]) + 1)
<1>1. ASSUME NEW p \in Places(h, n)'
      PROVE  Passed(Places(h, n), "up", c, t, p)
  <2>0. /\ up[c] # <<>> /\ up'[c] = Tail(up[c]) /\ up[c] \in Seq(Outbound(c))
        /\ Head(up[c]) \in Outbound(c)
        /\ \A e \in Conn : e # c => up'[e] = up[e]
        /\ handlers' = handlers
    BY RelayParts, TypeParts DEF UpOK, Relay, pageVars
  <2>1. ASSUME NEW e \in Conn, NEW i, p = Spot("down", e, i), Carried(down'[e], i, h, n)
        PROVE  Passed(Places(h, n), "up", c, t, p)
    <3>0. \A j : p # Spot("up", c, j)
      BY <2>1, SpotsDiffer
    <3>1. CASE Carried(down[e], i, h, n)
      <4>1. p \in Places(h, n)
        BY <2>1, <3>1, PlaceOf
      <4> QED
        BY <3>0, <4>1 DEF Passed
    <3>2. CASE ~Carried(down[e], i, h, n)
      <4>1. /\ e = d /\ Role(e) = OtherRole(c) /\ down'[e] = Append(down[e], Head(up[c]))
        BY <2>1, <3>2, RelayParts
      <4>2. down[e] \in Seq(Inbound(e)) /\ Head(up[c]) \in Inbound(e)
        BY <2>0, <4>1, TypeParts, Sides, MessageTypes DEF DownOK
      <4>3. i = Len(down[e]) + 1 /\ Carries(Head(up[c]), h, n)
        BY <2>1, <3>2, <4>1, <4>2, CarriedAdded
      <4>4. Carried(up[c], 1, h, n)
        BY <2>0, <4>3, CarriedTaken
      <4>5. p = t /\ Spot("up", c, 1) \in Places(h, n)
        BY <2>1, <4>1, <4>3, <4>4, PlaceOf
      <4> HIDE DEF t
      <4> QED
        BY <4>5 DEF Passed
    <3> QED
      BY <3>1, <3>2
  <2>2. ASSUME NEW e \in Conn, NEW i, p = Spot("up", e, i), Carried(up'[e], i, h, n)
        PROVE  Passed(Places(h, n), "up", c, t, p)
    <3>1. CASE e = c
      <4>1. i \in Nat \ {0} /\ Carried(up[c], i + 1, h, n)
        BY <2>0, <2>2, <3>1, CarriedTaken
      <4>2. p = Spot("up", c, i) /\ Spot("up", c, i + 1) \in Places(h, n)
        BY <2>2, <3>1, <4>1, PlaceOf
      <4> QED
        BY <4>1, <4>2 DEF Passed
    <3>2. CASE e # c
      <4>1. p \in Places(h, n)
        BY <2>0, <2>2, <3>2, PlaceOf
      <4>2. \A j : p # Spot("up", c, j)
        BY <2>2, <3>2, SpotsDiffer
      <4> QED
        BY <4>1, <4>2 DEF Passed
    <3> QED
      BY <3>1, <3>2
  <2>3. ASSUME NEW v \in Viewer, NEW x \in handlers'[v], p = Spot("page", v, x),
               Carries(x.offer, h, n)
        PROVE  Passed(Places(h, n), "up", c, t, p)
    <3>1. p \in Places(h, n)
      BY <2>0, <2>3, PlaceOf
    <3>2. \A j : p # Spot("up", c, j)
      BY <2>3, SpotsDiffer
    <3> QED
      BY <3>1, <3>2 DEF Passed
  <2> HIDE DEF t
  <2> QED
    BY <2>1, <2>2, <2>3, PlaceForms
<1> HIDE DEF t
<1> QED
  BY <1>1, PassedMoves

\* What is in a queue moves up when its first message is read.
LEMMA MovesUp ==
    ASSUME TypeOK, NEW c \in Conn, NEW h, NEW n, NEW t,
           down[c] # <<>>, down'[c] = Tail(down[c]), \A d \in Conn : d # c => down'[d] = down[d],
           NEW p, NEW e \in Conn, NEW i, p = Spot("down", e, i), Carried(down'[e], i, h, n)
    PROVE  Passed(Places(h, n), "down", c, t, p)
<1>1. CASE e = c
  <2>1. down[c] \in Seq(Inbound(c))
    BY TypeParts DEF DownOK
  <2>2. i \in Nat \ {0} /\ Carried(down[c], i + 1, h, n)
    BY <1>1, <2>1, CarriedTaken
  <2>3. p = Spot("down", c, i) /\ Spot("down", c, i + 1) \in Places(h, n)
    BY <1>1, <2>2, PlaceOf
  <2> QED
    BY <2>2, <2>3 DEF Passed
<1>2. CASE e # c
  <2>1. p \in Places(h, n)
    BY <1>2, PlaceOf
  <2>2. \A j : p # Spot("down", c, j)
    BY <1>2, SpotsDiffer
  <2> QED
    BY <2>1, <2>2 DEF Passed
<1> QED
  BY <1>1, <1>2

\* What is elsewhere stays.
LEMMA StaysElsewhere ==
    ASSUME NEW h, NEW n, NEW c, NEW t, NEW a, NEW p \in Places(h, n), NEW e, NEW x,
           p = Spot(a, e, x), a # "down"
    PROVE  Passed(Places(h, n), "down", c, t, p)
<1>1. \A j : p # Spot("down", c, j)
  BY SpotsDiffer
<1> QED
  BY <1>1 DEF Passed

\* Other steps of hosts and pages, but for the offer they read or send.
LEMMA TakesMoves ==
    ASSUME TypeOK, NEW c \in Conn, NEW h, NEW n,
           down[c] # <<>>, down'[c] = Tail(down[c]), \A d \in Conn : d # c => down'[d] = down[d],
           UNCHANGED <<up, handlers>>
    PROVE  Moves(h, n)
<1>1. ASSUME NEW p \in Places(h, n)'
      PROVE  Passed(Places(h, n), "down", c, None, p)
  <2>1. ASSUME NEW e \in Conn, NEW i, p = Spot("down", e, i), Carried(down'[e], i, h, n)
        PROVE  Passed(Places(h, n), "down", c, None, p)
    BY <2>1, MovesUp
  <2>2. ASSUME NEW e \in Conn, NEW i, p = Spot("up", e, i), Carried(up'[e], i, h, n)
        PROVE  Passed(Places(h, n), "down", c, None, p)
    <3>1. p \in Places(h, n)
      BY <2>2, PlaceOf
    <3> QED
      BY <2>2, <3>1, StaysElsewhere
  <2>3. ASSUME NEW v \in Viewer, NEW x \in handlers'[v], p = Spot("page", v, x),
               Carries(x.offer, h, n)
        PROVE  Passed(Places(h, n), "down", c, None, p)
    <3>1. p \in Places(h, n)
      BY <2>3, PlaceOf
    <3> QED
      BY <2>3, <3>1, StaysElsewhere
  <2> QED
    BY <2>1, <2>2, <2>3, PlaceForms
<1> QED
  BY <1>1, PassedMoves

\* An offer that is read goes on with the run of the handler that it begins.
LEMMA OfferedMoves ==
    ASSUME TypeOK, NEW v \in Viewer, PageOffered(v), NEW h, NEW n
    PROVE  Moves(h, n)
<1> DEFINE o == Head(down[v])
           x == [offer |-> o, step |-> "describe"]
           t == Spot("page", v, x)
<1>0. /\ v \in Conn /\ down[v] \in Seq(Inbound(v)) /\ down[v] # <<>> /\ down'[v] = Tail(down[v])
      /\ \A d \in Conn : d # v => down'[d] = down[d]
  <2>1. v \in Conn /\ Receives(v, "offer")
    BY Sides DEF PageOffered
  <2> QED
    BY <2>1, ReceivesType, TypeParts DEF DownOK
<1>1. /\ up' = up
      /\ \A w \in Viewer : \A y \in handlers'[w] : y \in handlers[w] \/ (w = v /\ y = x)
  BY TypeParts DEF PageOffered, PageTypes
<1>2. x.offer = o
  OBVIOUS
<1>3. t = Spot("page", v, x)
  OBVIOUS
<1> HIDE DEF x, t
<1>4. ASSUME NEW p \in Places(h, n)'
      PROVE  Passed(Places(h, n), "down", v, t, p)
  <2>1. ASSUME NEW e \in Conn, NEW i, p = Spot("down", e, i), Carried(down'[e], i, h, n)
        PROVE  Passed(Places(h, n), "down", v, t, p)
    BY <1>0, <2>1, MovesUp
  <2>2. ASSUME NEW e \in Conn, NEW i, p = Spot("up", e, i), Carried(up'[e], i, h, n)
        PROVE  Passed(Places(h, n), "down", v, t, p)
    <3>1. p \in Places(h, n)
      BY <1>1, <2>2, PlaceOf
    <3> QED
      BY <2>2, <3>1, StaysElsewhere
  <2>3. ASSUME NEW w \in Viewer, NEW y \in handlers'[w], p = Spot("page", w, y),
               Carries(y.offer, h, n)
        PROVE  Passed(Places(h, n), "down", v, t, p)
    <3>1. CASE y \in handlers[w]
      <4>1. p \in Places(h, n)
        BY <2>3, <3>1, PlaceOf
      <4> QED
        BY <2>3, <4>1, StaysElsewhere
    <3>2. CASE w = v /\ y = x
      <4>1. Carried(down[v], 1, h, n)
        BY <1>0, <1>2, <2>3, <3>2, CarriedTaken
      <4>2. p = t /\ Spot("down", v, 1) \in Places(h, n)
        BY <1>0, <1>3, <2>3, <3>2, <4>1, PlaceOf
      <4> QED
        BY <4>2 DEF Passed
    <3> QED
      BY <1>1, <2>3, <3>1, <3>2
  <2> QED
    BY <2>1, <2>2, <2>3, PlaceForms
<1> QED
  BY <1>4, PassedMoves

\* A run of the handler goes on, ...
LEMMA DescribedMoves ==
    ASSUME TypeOK, NEW v \in Viewer, NEW o, PageDescribed(v, o), NEW h, NEW n
    PROVE  Moves(h, n)
<1> DEFINE x == [offer |-> o, step |-> "describe"]
           y == [offer |-> o, step |-> "gather"]
           s == Spot("page", v, x)
           t == Spot("page", v, y)
<1>0. x.offer = o /\ y.offer = o /\ x # y
  <2>1. x.step # y.step
    OBVIOUS
  <2> QED
    BY <2>1
<1>1. /\ UNCHANGED <<down, up>> /\ x \in handlers[v]
      /\ \A w \in Viewer : \A z \in handlers'[w] :
           (z \in handlers[w] /\ ~(w = v /\ z = x)) \/ (w = v /\ z = y)
  <2>1. UNCHANGED <<down, up>> /\ x \in handlers[v]
    BY DEF PageDescribed
  <2>2. handlers' = [handlers EXCEPT ![v] = (handlers[v] \ {x}) \cup
                                            (IF StillCurrent(v, o) THEN {y} ELSE {})]
    BY DEF PageDescribed
  <2>3. handlers'[v] \subseteq (handlers[v] \ {x}) \cup {y}
        /\ \A w \in Viewer : w # v => handlers'[w] = handlers[w]
    <3> HIDE DEF x, y
    <3> QED
      BY <2>2, TypeParts DEF PageTypes
  <2> HIDE DEF x, y
  <2> QED
    BY <2>1, <2>3
<1>2. ASSUME NEW p \in Places(h, n)', NEW w \in Viewer, NEW z \in handlers'[w],
             p = Spot("page", w, z), Carries(z.offer, h, n)
      PROVE  Shifted(Places(h, n), s, t, p)
  <2>1. CASE z \in handlers[w] /\ ~(w = v /\ z = x)
    <3>1. p \in Places(h, n)
      BY <1>2, <2>1, PlaceOf
    <3>2. p # s
      <4> HIDE DEF x
      <4> QED
        BY <1>2, <2>1, SpotsDiffer
    <3> HIDE DEF s, t
    <3> QED
      BY <3>1, <3>2 DEF Shifted
  <2>2. CASE w = v /\ z = y
    <3>1. s \in Places(h, n)
      <4>1. Carries(x.offer, h, n)
        BY <1>0, <1>2, <2>2
      <4> HIDE DEF x
      <4> QED
        BY <1>1, <4>1, PlaceOf
    <3>2. p = t
      BY <1>2, <2>2
    <3> HIDE DEF s, t
    <3> QED
      BY <3>1, <3>2 DEF Shifted
  <2> HIDE DEF x, y, s, t
  <2> QED
    BY <1>1, <1>2, <2>1, <2>2
<1>3. \A e, i : Spot("up", e, i) # s /\ Spot("down", e, i) # s
  <2> HIDE DEF x
  <2> QED
    BY SpotsDiffer
<1> HIDE DEF x, y, s, t
<1>4. ASSUME NEW p \in Places(h, n)'
      PROVE  Shifted(Places(h, n), s, t, p)
  <2>1. ASSUME NEW c \in Conn, NEW i, p = Spot("down", c, i), Carried(down'[c], i, h, n)
        PROVE  Shifted(Places(h, n), s, t, p)
    <3>1. p \in Places(h, n) /\ p # s
      BY <1>1, <1>3, <2>1, PlaceOf
    <3> QED
      BY <3>1 DEF Shifted
  <2>2. ASSUME NEW c \in Conn, NEW i, p = Spot("up", c, i), Carried(up'[c], i, h, n)
        PROVE  Shifted(Places(h, n), s, t, p)
    <3>1. p \in Places(h, n) /\ p # s
      BY <1>1, <1>3, <2>2, PlaceOf
    <3> QED
      BY <3>1 DEF Shifted
  <2> QED
    BY <1>2, <2>1, <2>2, PlaceForms
<1> QED
  BY <1>4, ShiftedMoves

\* ... and the answer it comes to takes its place.
LEMMA AnswersMoves ==
    ASSUME TypeOK, NEW v \in Viewer, NEW o \in Offers, PageAnswers(v, o), NEW h, NEW n
    PROVE  Moves(h, n)
<1> DEFINE y == [offer |-> o, step |-> "gather"]
           s == Spot("page", v, y)
           t == Spot("up", v, Len(up[v]) + 1)
<1>0. y.offer = o /\ v \in Conn /\ up[v] \in Seq(Outbound(v)) /\ Answer(v, o) \in Outbound(v)
  BY TypeParts, Sides, MessageTypes DEF UpOK
<1>1. /\ down' = down /\ y \in handlers[v]
      /\ \A w \in Viewer : \A z \in handlers'[w] : z \in handlers[w] /\ ~(w = v /\ z = y)
  <2>1. down' = down /\ y \in handlers[v] /\ handlers' = [handlers EXCEPT ![v] = handlers[v] \ {y}]
    BY DEF PageAnswers
  <2> HIDE DEF y
  <2> QED
    BY <2>1, TypeParts DEF PageTypes
<1>2. \A c \in Conn : \A i : Carried(up'[c], i, h, n) =>
        \/ Carried(up[c], i, h, n)
        \/ c = v /\ i = Len(up[v]) + 1 /\ Carries(Answer(v, o), h, n)
  <2>1. up' = up \/ up' = [up EXCEPT ![v] = Append(up[v], Answer(v, o))]
    BY DEF PageAnswers
  <2>2. \A c \in Conn : up'[c] = up[c] \/ (c = v /\ up'[c] = Append(up[v], Answer(v, o)))
    BY <2>1, TypeParts DEF UpOK
  <2>3. ASSUME NEW i, Carried(Append(up[v], Answer(v, o)), i, h, n)
        PROVE  Carried(up[v], i, h, n) \/ (i = Len(up[v]) + 1 /\ Carries(Answer(v, o), h, n))
    BY <1>0, <2>3, CarriedAdded
  <2> QED
    BY <2>2, <2>3
<1>3. Carries(Answer(v, o), h, n) => s \in Places(h, n)
  <2>1. Carries(Answer(v, o), h, n) => Carries(o, h, n)
    BY DEF Carries, Answer, Offers
  <2>2. Carries(o, h, n) => Carries(y.offer, h, n)
    BY <1>0
  <2> HIDE DEF y
  <2> QED
    BY <1>1, <2>1, <2>2, PlaceOf
<1>4. /\ \A e, i : Spot("up", e, i) # s /\ Spot("down", e, i) # s
      /\ \A w, z : Spot("page", w, z) = s => w = v /\ z = y
  <2> HIDE DEF y
  <2> QED
    BY SpotsDiffer
<1>5. t = Spot("up", v, Len(up[v]) + 1)
  OBVIOUS
<1> HIDE DEF y, s, t
<1>6. ASSUME NEW p \in Places(h, n)'
      PROVE  Shifted(Places(h, n), s, t, p)
  <2>1. ASSUME NEW c \in Conn, NEW i, p = Spot("down", c, i), Carried(down'[c], i, h, n)
        PROVE  Shifted(Places(h, n), s, t, p)
    <3>1. p \in Places(h, n) /\ p # s
      BY <1>1, <1>4, <2>1, PlaceOf
    <3> QED
      BY <3>1 DEF Shifted
  <2>2. ASSUME NEW c \in Conn, NEW i, p = Spot("up", c, i), Carried(up'[c], i, h, n)
        PROVE  Shifted(Places(h, n), s, t, p)
    <3>1. CASE Carried(up[c], i, h, n)
      <4>1. p \in Places(h, n) /\ p # s
        BY <1>4, <2>2, <3>1, PlaceOf
      <4> QED
        BY <4>1 DEF Shifted
    <3>2. CASE c = v /\ i = Len(up[v]) + 1 /\ Carries(Answer(v, o), h, n)
      <4>1. p = t /\ s \in Places(h, n)
        BY <1>3, <1>5, <2>2, <3>2
      <4> QED
        BY <4>1 DEF Shifted
    <3> QED
      BY <1>2, <2>2, <3>1, <3>2
  <2>3. ASSUME NEW w \in Viewer, NEW z \in handlers'[w], p = Spot("page", w, z),
               Carries(z.offer, h, n)
        PROVE  Shifted(Places(h, n), s, t, p)
    <3>1. p \in Places(h, n) /\ p # s
      BY <1>1, <1>4, <2>3, PlaceOf
    <3> QED
      BY <3>1 DEF Shifted
  <2> QED
    BY <2>1, <2>2, <2>3, PlaceForms
<1> QED
  BY <1>6, ShiftedMoves

\* A host's offer is new.
LEMMA OffersMoves ==
    ASSUME TypeOK, NEW g \in Host, HostOffers(g), NEW h, NEW n
    PROVE  IF h = g /\ n = session[g]
           THEN Places(h, n) = {} => One(Places(h, n)')
           ELSE Stays(h, n)
<1> DEFINE t == Spot("up", g, Len(up[g]) + 1)
           m == Offer(g, session[g])
<1>1. UNCHANGED <<down, handlers>> /\ up' = [up EXCEPT ![g] = Append(up[g], m)]
  BY DEF HostOffers, pageVars
<1>2. g \in Conn /\ up[g] \in Seq(Outbound(g)) /\ m \in Outbound(g)
  BY TypeParts, Sides, MessageTypes DEF UpOK, HostTypes
<1>3. Carries(m, h, n) => h = g /\ n = session[g]
  BY DEF Carries, Offer
<1> HIDE DEF m
<1>4. \A c \in Conn : \A i : Carried(up'[c], i, h, n) =>
        \/ Carried(up[c], i, h, n)
        \/ c = g /\ i = Len(up[g]) + 1 /\ h = g /\ n = session[g]
  <2>1. \A c \in Conn : up'[c] = up[c] \/ (c = g /\ up'[c] = Append(up[g], m))
    BY <1>1, TypeParts DEF UpOK
  <2>2. ASSUME NEW i, Carried(Append(up[g], m), i, h, n)
        PROVE  Carried(up[g], i, h, n) \/ (i = Len(up[g]) + 1 /\ Carries(m, h, n))
    BY <1>2, <2>2, CarriedAdded
  <2> QED
    BY <1>3, <2>1, <2>2
<1>5. t = Spot("up", g, Len(up[g]) + 1)
  OBVIOUS
<1> HIDE DEF t
<1>6. \A p \in Places(h, n)' : p \in Places(h, n) \/ (p = t /\ h = g /\ n = session[g])
  BY <1>1, <1>4, <1>5, PlaceForms, PlaceOf
<1> QED
  BY <1>6 DEF One, Stays

-----------------------------------------------------------------------------
\* An offer is in one place, and nowhere before it is sent.

Unsent(h, n) == n > session[h] \/ (phase[h] = "start" /\ n = session[h])

Once ==
    /\ \A h \in Host, n \in Nat : One(Places(h, n))
    /\ \A h \in Host, n \in Nat : Unsent(h, n) => Places(h, n) = {}

\* A step sends an offer, or moves what there is.
LEMMA StepMoves ==
    ASSUME TypeOK, [Next]_vars, NEW h \in Host, NEW n \in Nat
    PROVE  \/ Moves(h, n)
           \/ /\ HostOffers(h) /\ n = session[h]
              /\ Places(h, n) = {} => One(Places(h, n)')
<1>1. ASSUME NEW c \in Conn, Register(c) \/ Closes(c) PROVE Moves(h, n)
  BY <1>1, RegisterMoves, ClosesMoves, StaysMoves
<1>2. ASSUME NEW c \in Conn, Unregister(c) \/ Connects(c) PROVE Moves(h, n)
  <2>1. UNCHANGED <<down, up, handlers>>
    BY <1>2 DEF Unregister, Connects, pageVars
  <2> QED
    BY <2>1, SamePlaces, StaysMoves
<1>3. ASSUME NEW c \in Conn, Relay(c) PROVE Moves(h, n)
  BY <1>3, RelayMoves
<1>4. ASSUME NEW c \in Conn, Reads(c) PROVE Moves(h, n)
  <2>1. /\ down[c] # <<>> /\ down'[c] = Tail(down[c]) /\ \A d \in Conn : d # c => down'[d] = down[d]
        /\ up' = up
    BY <1>4, ReadsParts
  <2>2. CASE c \in Viewer /\ PageOffered(c)
    BY <2>2, OfferedMoves
  <2>3. CASE ~(c \in Viewer /\ PageOffered(c))
    <3>1. handlers' = handlers
      BY <1>4, <2>3 DEF Reads, HostReads, PageReads, HostConfigured, HostJoined, HostAnswered,
                        PageConfigured, PageRefuses, pageVars
    <3> QED
      BY <2>1, <3>1, TakesMoves
  <2> QED
    BY <2>2, <2>3
<1>5. ASSUME NEW g \in Host, HostOffers(g)
      PROVE  \/ Moves(h, n)
             \/ /\ HostOffers(h) /\ n = session[h]
                /\ Places(h, n) = {} => One(Places(h, n)')
  <2>1. CASE h = g /\ n = session[g]
    BY <1>5, <2>1, OffersMoves
  <2>2. CASE ~(h = g /\ n = session[g])
    <3>1. Stays(h, n)
      BY <1>5, <2>2, OffersMoves
    <3> QED
      BY <3>1, StaysMoves
  <2> QED
    BY <2>1, <2>2
<1>6. ASSUME NEW g \in Host, HostStartFails(g) PROVE Moves(h, n)
  <2>1. UNCHANGED <<down, up, handlers>>
    BY <1>6 DEF HostStartFails, pageVars
  <2> QED
    BY <2>1, SamePlaces, StaysMoves
<1>7. ASSUME NEW v \in Viewer, NEW x \in handlers[v],
             PageDescribed(v, x.offer) \/ PageAnswers(v, x.offer)
      PROVE  Moves(h, n)
  <2>1. x.offer \in Offers
    BY <1>7, TypeParts DEF PageTypes
  <2> QED
    BY <1>7, <2>1, DescribedMoves, AnswersMoves
<1>8. CASE UNCHANGED vars
  <2>1. UNCHANGED <<down, up, handlers>>
    BY <1>8 DEF vars, pageVars
  <2> QED
    BY <2>1, SamePlaces, StaysMoves
<1> QED
  BY <1>1, <1>2, <1>3, <1>4, <1>5, <1>6, <1>7, <1>8, StepKinds DEF Works

LEMMA OnceKept ==
    ASSUME TypeOK, Once, [Next]_vars
    PROVE  Once'
<1>1. ASSUME NEW h \in Host, NEW n \in Nat
      PROVE  One(Places(h, n)')
  <2>1. One(Places(h, n))
    BY DEF Once
  <2>2. HostOffers(h) /\ n = session[h] => Places(h, n) = {}
    BY DEF Once, Unsent, HostOffers
  <2> QED
    BY <2>1, <2>2, StepMoves DEF Moves
<1>2. ASSUME NEW h \in Host, NEW n \in Nat, Unsent(h, n)'
      PROVE  Places(h, n)' = {}
  <2>0. session[h] \in Nat
    BY TypeParts DEF HostTypes
  <2>1. Unsent(h, n) /\ ~(HostOffers(h) /\ n = session[h])
    <3>1. CASE session'[h] = session[h] + 1
      BY <1>2, <2>0, <3>1 DEF Unsent
    <3>2. CASE session'[h] = session[h] /\ (phase'[h] = "start" => phase[h] = "start" /\ ~HostOffers(h))
      BY <1>2, <2>0, <3>2 DEF Unsent
    <3> QED
      BY <3>1, <3>2, HostSteps
  <2>2. One(Places(h, n)) /\ Places(h, n) = {}
    BY <2>1 DEF Once
  <2> QED
    BY <2>1, <2>2, StepMoves DEF Moves
<1> QED
  BY <1>1, <1>2 DEF Once

LEMMA OnceStart == Init => Once
<1> SUFFICES ASSUME Init PROVE Once
  OBVIOUS
<1>1. ASSUME NEW h \in Host, NEW n \in Nat
      PROVE  Places(h, n) = {}
  <2>1. \A c \in Conn : down[c] = <<>> /\ up[c] = <<>>
    BY DEF Init
  <2>2. \A v \in Viewer : handlers[v] = {}
    BY DEF Init
  <2>3. \A c \in Conn : \A i : ~Carried(down[c], i, h, n) /\ ~Carried(up[c], i, h, n)
    BY <2>1 DEF Carried
  <2>4. Places(h, n) = InQueues("down", down, h, n) \cup InQueues("up", up, h, n)
                       \cup OnPagesOf(handlers, h, n)
    BY DEF Places, OnPages, OnPagesOf
  <2>5. InQueues("down", down, h, n) = {}
    BY <2>3, InQueue
  <2>6. InQueues("up", up, h, n) = {}
    BY <2>3, InQueue
  <2>7. OnPagesOf(handlers, h, n) = {}
    BY <2>2, OnPageSpots
  <2> QED
    BY <2>4, <2>5, <2>6, <2>7
<1> QED
  BY <1>1 DEF Once, One

\* An offer comes to one page and gets one answer at most: neither is ever in two
\* places, and nothing but its host sending it brings it to any.
THEOREM OfferAnsweredOnce == Spec => AnsweredOnce
<1> DEFINE Step == \A h \in Host : \A n \in 1..session'[h] :
                     /\ \A p, q \in Places(h, n)' : p = q
                     /\ (Places(h, n) = {} /\ Places(h, n)' # {}) =>
                          phase[h] = "start" /\ session[h] = n
<1>1. ASSUME TypeOK, Once, [Next]_vars PROVE Step
  <2> SUFFICES ASSUME NEW h \in Host, NEW n \in 1..session'[h]
               PROVE  /\ \A p, q \in Places(h, n)' : p = q
                      /\ (Places(h, n) = {} /\ Places(h, n)' # {}) =>
                           phase[h] = "start" /\ session[h] = n
    OBVIOUS
  <2>1. n \in Nat
    <3>1. TypeOK'
      BY <1>1, TypesKept
    <3> QED
      BY <3>1, TypePartsNext DEF HostTypes
  <2>2. One(Places(h, n)')
    BY <1>1, <2>1, OnceKept DEF Once
  <2>3. One(Places(h, n))
    BY <1>1, <2>1 DEF Once
  <2>4. Places(h, n) = {} /\ Places(h, n)' # {} => HostOffers(h) /\ n = session[h]
    BY <1>1, <2>1, <2>3, StepMoves DEF Moves
  <2> QED
    BY <2>2, <2>4 DEF One, HostOffers
<1>2. ASSUME TypeOK, Once, [Next]_vars PROVE [Step]_vars
  BY <1>1, <1>2
<1>3. Spec => []TypeOK
  BY TypeCorrect
<1>4. AnsweredOnce <=> [][Step]_vars
  BY DEF AnsweredOnce
<1> HIDE DEF Step
<1> QED
  BY <1>2, <1>3, <1>4, OnceStart, OnceKept, PTL DEF Spec
==============================================================================
