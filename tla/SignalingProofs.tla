--------------------------- MODULE SignalingProofs ---------------------------
(***************************************************************************)
(* Proofs about Signaling: its types, the server's slots, that a client's  *)
(* configuration comes first, and that a host takes its viewer's answer.   *)
(***************************************************************************)
EXTENDS Signaling, SequenceTheorems, TLAPS

-----------------------------------------------------------------------------
\* Sequences.

\* Taking the first element off.
LEMMA FirstOff ==
    ASSUME NEW S, NEW s \in Seq(S), s # <<>>
    PROVE  /\ Head(s) \in S /\ Tail(s) \in Seq(S)
           /\ Len(s) \in Nat \ {0} /\ Len(Tail(s)) = Len(s) - 1
           /\ Head(s) = s[1]
           /\ \A i \in 1..Len(Tail(s)) : Tail(s)[i] = s[i + 1]
<1>1. Len(s) \in Nat \ {0}
  BY EmptySeq, Zenon
<1> QED
  BY <1>1, HeadTailProperties

\* Adding one at the end.
LEMMA Added ==
    ASSUME NEW S, NEW s \in Seq(S), NEW e \in S
    PROVE  /\ Append(s, e) \in Seq(S) /\ Append(s, e) # <<>>
           /\ Len(s) \in Nat /\ Len(Append(s, e)) = Len(s) + 1
           /\ \A i \in 1..Len(s) : Append(s, e)[i] = s[i]
           /\ Append(s, e)[Len(s) + 1] = e
           /\ s # <<>> => Head(Append(s, e)) = Head(s)
           /\ s = <<>> => Head(Append(s, e)) = e
<1>1. /\ Append(s, e) \in Seq(S) /\ Append(s, e) # <<>>
      /\ Len(s) \in Nat /\ Len(Append(s, e)) = Len(s) + 1
      /\ \A i \in 1..Len(s) : Append(s, e)[i] = s[i]
      /\ Append(s, e)[Len(s) + 1] = e
  BY AppendProperties, LenProperties
<1> QED
  BY <1>1, HeadTailAppend

\* The first so many.
LEMMA Prefix ==
    ASSUME NEW S, NEW s \in Seq(S), NEW n \in 0..Len(s)
    PROVE  /\ SubSeq(s, 1, n) \in Seq(S) /\ Len(SubSeq(s, 1, n)) = n
           /\ \A k \in 1..n : SubSeq(s, 1, n)[k] = s[k]
<1>0. Len(s) \in Nat /\ \A k \in 1..Len(s) : s[k] \in S
  BY LenProperties, ElementOfSeq
<1>1. \A k \in 1..n : s[k] \in S
  BY <1>0
<1>2. 1 \in Int /\ n \in Int
  BY <1>0
<1>3. /\ SubSeq(s, 1, n) \in Seq(S)
      /\ Len(SubSeq(s, 1, n)) = (IF 1 <= n THEN n - 1 + 1 ELSE 0)
      /\ \A k \in 1..n - 1 + 1 : SubSeq(s, 1, n)[k] = s[1 + k - 1]
  BY <1>1, <1>2, SubSeqProperties
<1> QED
  BY <1>0, <1>3

\* The rest after so many.
LEMMA Suffix ==
    ASSUME NEW S, NEW s \in Seq(S), NEW i \in 1..Len(s)
    PROVE  /\ SubSeq(s, i + 1, Len(s)) \in Seq(S)
           /\ Len(SubSeq(s, i + 1, Len(s))) = Len(s) - i
           /\ \A k \in 1..Len(s) - i : SubSeq(s, i + 1, Len(s))[k] = s[i + k]
<1>0. Len(s) \in Nat /\ \A k \in 1..Len(s) : s[k] \in S
  BY LenProperties, ElementOfSeq
<1>1. \A k \in i + 1..Len(s) : s[k] \in S
  BY <1>0
<1>2. i + 1 \in Int /\ Len(s) \in Int
  BY <1>0
<1>3. /\ SubSeq(s, i + 1, Len(s)) \in Seq(S)
      /\ Len(SubSeq(s, i + 1, Len(s)))
           = (IF i + 1 <= Len(s) THEN Len(s) - (i + 1) + 1 ELSE 0)
      /\ \A k \in 1..Len(s) - (i + 1) + 1 :
           SubSeq(s, i + 1, Len(s))[k] = s[(i + 1) + k - 1]
  BY <1>1, <1>2, SubSeqProperties
<1> QED
  BY <1>0, <1>3

\* Two pieces of a sequence without the element between them.
LEMMA Joint ==
    ASSUME NEW S, NEW a \in Seq(S), NEW b \in Seq(S), NEW n \in Nat, NEW i \in 1..n,
           Len(a) = i - 1, Len(b) = n - i
    PROVE  /\ a \o b \in Seq(S) /\ Len(a \o b) = n - 1
           /\ \A k \in 1..n - 1 : (a \o b)[k] = IF k < i THEN a[k] ELSE b[k - i + 1]
<1>1. /\ a \o b \in Seq(S)
      /\ Len(a \o b) = Len(a) + Len(b)
      /\ \A k \in 1..Len(a) + Len(b) :
           (a \o b)[k] = IF k <= Len(a) THEN a[k] ELSE b[k - Len(a)]
  BY ConcatProperties
<1>2. Len(a) + Len(b) = n - 1
  OBVIOUS
<1>3. ASSUME NEW k \in 1..n - 1 PROVE (a \o b)[k] = IF k < i THEN a[k] ELSE b[k - i + 1]
  <2>1. k <= Len(a) <=> k < i
    OBVIOUS
  <2>2. k - Len(a) = k - i + 1
    OBVIOUS
  <2> QED
    BY <1>1, <1>2, <2>1, <2>2
<1> QED
  BY <1>1, <1>2, <1>3

\* Taking one out of the middle.
Without(s, i) == SubSeq(s, 1, i - 1) \o SubSeq(s, i + 1, Len(s))

LEMMA TakenOut ==
    ASSUME NEW S, NEW s \in Seq(S), NEW i \in 1..Len(s)
    PROVE  /\ Without(s, i) \in Seq(S)
           /\ Len(s) \in Nat /\ Len(Without(s, i)) = Len(s) - 1
           /\ \A k \in 1..Len(s) - 1 :
                Without(s, i)[k] = IF k < i THEN s[k] ELSE s[k + 1]
<1>0. Len(s) \in Nat
  BY LenProperties
<1> DEFINE a == SubSeq(s, 1, i - 1)
           b == SubSeq(s, i + 1, Len(s))
<1>1. a \in Seq(S) /\ Len(a) = i - 1 /\ \A k \in 1..i - 1 : a[k] = s[k]
  <2>1. i - 1 \in 0..Len(s)
    BY <1>0
  <2> QED
    BY <2>1, Prefix
<1>2. b \in Seq(S) /\ Len(b) = Len(s) - i /\ \A k \in 1..Len(s) - i : b[k] = s[i + k]
  BY Suffix
<1>3. Without(s, i) = a \o b
  BY DEF Without
<1> HIDE DEF a, b
<1>4. /\ a \o b \in Seq(S) /\ Len(a \o b) = Len(s) - 1
      /\ \A k \in 1..Len(s) - 1 : (a \o b)[k] = IF k < i THEN a[k] ELSE b[k - i + 1]
  BY <1>0, <1>1, <1>2, Joint
<1>5. ASSUME NEW k \in 1..Len(s) - 1
      PROVE  (a \o b)[k] = IF k < i THEN s[k] ELSE s[k + 1]
  <2>1. CASE k < i
    <3>1. (a \o b)[k] = a[k] /\ k \in 1..i - 1
      BY <1>0, <1>4, <2>1
    <3> QED
      BY <1>1, <2>1, <3>1
  <2>2. CASE ~(k < i)
    <3>1. (a \o b)[k] = b[k - i + 1]
      BY <1>4, <2>2
    <3>2. k - i + 1 \in 1..Len(s) - i
      BY <1>0, <2>2
    <3>3. b[k - i + 1] = s[i + (k - i + 1)]
      BY <1>2, <3>2
    <3>4. i + (k - i + 1) = k + 1
      BY <1>0
    <3> QED
      BY <2>2, <3>1, <3>3, <3>4
  <2> QED
    BY <2>1, <2>2
<1> QED
  BY <1>0, <1>3, <1>4, <1>5

-----------------------------------------------------------------------------
\* Types.

USE ConnAssumption, ChoiceAssumption

\* What may be sent to a client, and by it.
Inbound(c) == IF c \in Host THEN {Config} \cup Joins \cup Answers ELSE {Config} \cup Offers
Outbound(c) == IF c \in Host THEN Offers ELSE Answers

DownOK(queues) == DOMAIN queues = Conn /\ \A c \in Conn : queues[c] \in Seq(Inbound(c))
UpOK(queues) == DOMAIN queues = Conn /\ \A c \in Conn : queues[c] \in Seq(Outbound(c))

Roles == {"host", "viewer"}

ServerTypes ==
    /\ slot \in [Roles -> Conn \cup {None}] /\ newest \in [Roles -> Conn \cup {None}]
    /\ slot["host"] \in Host \cup {None} /\ slot["viewer"] \in Viewer \cup {None}
    /\ waiting \in Seq(Conn) /\ registered \subseteq Conn
    /\ used \subseteq Conn /\ open \subseteq used
    /\ told \subseteq Host \X Viewer

HostTypes ==
    /\ phase \in [Host -> {"config", "select", "start"}]
    /\ session \in [Host -> Nat] /\ current \in [Host -> Nat]
    /\ guest \in [Host -> Viewer \cup {None}]
    /\ accepted \in [Host -> Answers \cup {Nothing}]

PageTypes ==
    /\ configured \subseteq Viewer
    /\ pc \in [Viewer -> Offers \cup {Nothing}]
    /\ handlers \in [Viewer -> SUBSET [offer : Offers, step : {"describe", "gather"}]]

\* TypeOK, by who keeps the variables, now and after a step.
LEMMA Sides ==
    /\ \A h \in Host : h \in Conn /\ Inbound(h) = {Config} \cup Joins \cup Answers
                      /\ Outbound(h) = Offers
    /\ \A v \in Viewer : v \in Conn /\ Inbound(v) = {Config} \cup Offers
                        /\ Outbound(v) = Answers
    /\ \A c \in Conn : c \in Host \/ c \in Viewer
BY DEF Conn, Inbound, Outbound

LEMMA QueueTypes ==
    ASSUME NEW queues
    PROVE  /\ DownOK(queues) <=>
                /\ DOMAIN queues = Conn
                /\ \A h \in Host : queues[h] \in Seq({Config} \cup Joins \cup Answers)
                /\ \A v \in Viewer : queues[v] \in Seq({Config} \cup Offers)
           /\ UpOK(queues) <=>
                /\ DOMAIN queues = Conn
                /\ \A h \in Host : queues[h] \in Seq(Offers)
                /\ \A v \in Viewer : queues[v] \in Seq(Answers)
BY Sides, Zenon DEF DownOK, UpOK

LEMMA TypeParts ==
    TypeOK <=> ServerTypes /\ DownOK(down) /\ UpOK(up) /\ HostTypes /\ PageTypes
BY QueueTypes, Zenon DEF TypeOK, ServerTypes, HostTypes, PageTypes, Roles

LEMMA TypePartsNext ==
    TypeOK' <=> ServerTypes' /\ DownOK(down') /\ UpOK(up') /\ HostTypes' /\ PageTypes'
BY QueueTypes, Zenon DEF TypeOK, ServerTypes, HostTypes, PageTypes, Roles

\* Messages.
LEMMA MessageTypes ==
    /\ \A c \in Conn : Config \in Inbound(c)
    /\ \A h \in Host, v \in Viewer : Joined(v) \in Inbound(h)
    /\ \A h \in Host, n \in Nat : Offer(h, n) \in Offers
    /\ \A v \in Viewer, o \in Offers : Answer(v, o) \in Answers
    /\ \A c \in Conn : Role(c) \in Roles /\ OtherRole(c) \in Roles
    /\ \A h \in Host : Role(h) = "host" /\ OtherRole(h) = "viewer"
    /\ \A v \in Viewer : Role(v) = "viewer" /\ OtherRole(v) = "host"
<1>1. \A h \in Host, n \in Nat : Offer(h, n) \in Offers
  BY DEF Offer, Offers
<1>2. \A v \in Viewer, o \in Offers : Answer(v, o) \in Answers
  BY DEF Answer, Offers, Answers
<1>3. \A h \in Host, v \in Viewer : Joined(v) \in Inbound(h)
  BY DEF Joined, Inbound, Joins
<1> QED
  BY <1>1, <1>2, <1>3 DEF Inbound, Role, OtherRole, Roles, Conn

\* A write keeps the types of the queues, and changes one of them.
LEMMA SentType ==
    ASSUME NEW queues, DownOK(queues), NEW c \in Conn, NEW m \in Inbound(c)
    PROVE  /\ DownOK(Sent(queues, c, m))
           /\ \A d \in Conn : d # c => Sent(queues, c, m)[d] = queues[d]
           /\ Sent(queues, c, m)[c] = IF c \in open THEN Append(queues[c], m) ELSE queues[c]
<1>1. queues[c] \in Seq(Inbound(c)) /\ DOMAIN queues = Conn
  BY DEF DownOK
<1>2. Append(queues[c], m) \in Seq(Inbound(c))
  BY <1>1, AppendProperties
<1> QED
  BY <1>1, <1>2 DEF Sent, DownOK

\* What a client reads is taken off its queue.
LEMMA ReceivesType ==
    ASSUME TypeOK, NEW c \in Conn, NEW type, Receives(c, type)
    PROVE  /\ DownOK(down') /\ Head(down[c]) \in Inbound(c) /\ Head(down[c]).type = type
           /\ c \in open /\ down[c] # <<>> /\ down'[c] = Tail(down[c])
           /\ \A d \in Conn : d # c => down'[d] = down[d]
<1>1. DownOK(down)
  BY TypeParts
<1>2. down[c] \in Seq(Inbound(c)) /\ down[c] # <<>> /\ DOMAIN down = Conn
  BY <1>1 DEF DownOK, Receives
<1>3. Head(down[c]) \in Inbound(c) /\ Tail(down[c]) \in Seq(Inbound(c))
  BY <1>2, FirstOff
<1> QED
  BY <1>1, <1>2, <1>3 DEF DownOK, Receives

\* The kinds of messages.
LEMMA Kinds ==
    /\ \A m \in Joins : m.type = "viewer-joined" /\ m.viewer \in Viewer
    /\ \A m \in Offers : m.type = "offer" /\ m.host \in Host /\ m.session \in Nat
    /\ \A m \in Answers : /\ m.type = "answer" /\ m.host \in Host /\ m.viewer \in Viewer
                          /\ m.session \in Nat
    /\ Config.type = "config"
    /\ \A h \in Host : \A m \in Inbound(h) : m.type = "viewer-joined" => m \in Joins
    /\ \A h \in Host : \A m \in Inbound(h) : m.type = "answer" => m \in Answers
    /\ \A c \in Conn : \A m \in Inbound(c) : m.type = "config" => m = Config
    /\ \A v \in Viewer : \A m \in Inbound(v) : m.type = "offer" => m \in Offers
<1>1. Config.type = "config"
  BY DEF Config
<1>2. \A m \in Joins : m.type = "viewer-joined" /\ m.viewer \in Viewer
  BY DEF Joins
<1>3. \A m \in Offers : m.type = "offer" /\ m.host \in Host /\ m.session \in Nat
  BY DEF Offers
<1>4. \A m \in Answers : /\ m.type = "answer" /\ m.host \in Host /\ m.viewer \in Viewer
                         /\ m.session \in Nat
  BY DEF Answers
<1> QED
  BY <1>1, <1>2, <1>3, <1>4 DEF Inbound, Conn

\* What is written to d when c registers: the config, and then an announcement.
First(c, d) == IF d = c /\ c \in open THEN Append(down[d], Config) ELSE down[d]
Second(c, d, slots) ==
    IF Announces(c, slots) /\ d = slots["host"] /\ d \in open
    THEN Append(First(c, d), Joined(slots["viewer"])) ELSE First(c, d)

\* A connection registers.
LEMMA RegisterParts ==
    ASSUME TypeOK, NEW c \in Conn, Register(c)
    PROVE  /\ TypeOK'
           /\ \E i \in 1..Len(waiting) :
                /\ waiting[i] = c /\ (Overtaking \/ i = 1)
                /\ Len(waiting) \in Nat /\ Len(waiting') = Len(waiting) - 1
                /\ \A k \in 1..Len(waiting') :
                     waiting'[k] = IF k < i THEN waiting[k] ELSE waiting[k + 1]
           /\ slot' = [slot EXCEPT ![Role(c)] = c]
           /\ \A d \in Conn : down'[d] = Second(c, d, slot')
<1>0. ServerTypes /\ DownOK(down) /\ UpOK(up) /\ HostTypes /\ PageTypes
  BY TypeParts
<1>1. slot' = [slot EXCEPT ![Role(c)] = c]
  BY DEF Register
<1>2. /\ slot' \in [Roles -> Conn \cup {None}]
      /\ slot'["host"] \in Host \cup {None} /\ slot'["viewer"] \in Viewer \cup {None}
  <2>1. /\ slot \in [Roles -> Conn \cup {None}] /\ Role(c) \in Roles
        /\ slot["host"] \in Host \cup {None} /\ slot["viewer"] \in Viewer \cup {None}
    BY <1>0, MessageTypes DEF ServerTypes
  <2>2. CASE c \in Host
    <3>1. Role(c) = "host"
      BY <2>2, MessageTypes
    <3> QED
      BY <1>1, <2>1, <2>2, <3>1 DEF Roles
  <2>3. CASE c \in Viewer
    <3>1. Role(c) = "viewer"
      BY <2>3, MessageTypes
    <3> QED
      BY <1>1, <2>1, <2>3, <3>1 DEF Roles
  <2> QED
    BY <2>2, <2>3, Sides
<1>3. PICK i \in DOMAIN waiting :
        /\ waiting[i] = c /\ (Overtaking \/ i = 1)
        /\ waiting' = SubSeq(waiting, 1, i - 1) \o SubSeq(waiting, i + 1, Len(waiting))
  BY DEF Register
<1>4. waiting \in Seq(Conn) /\ DOMAIN waiting = 1..Len(waiting)
  BY <1>0 DEF ServerTypes
<1>5. /\ waiting' \in Seq(Conn) /\ Len(waiting) \in Nat /\ Len(waiting') = Len(waiting) - 1
      /\ \A k \in 1..Len(waiting') :
           waiting'[k] = IF k < i THEN waiting[k] ELSE waiting[k + 1]
  <2>1. i \in 1..Len(waiting) /\ waiting \in Seq(Conn)
    BY <1>4
  <2>2. waiting' = Without(waiting, i)
    BY <1>3 DEF Without
  <2> QED
    BY <2>1, <2>2, TakenOut
<1>6. told' \subseteq Host \X Viewer
  <2>1. told \subseteq Host \X Viewer
    BY <1>0 DEF ServerTypes
  <2>2. Announces(c, slot') => slot'["host"] \in Host /\ slot'["viewer"] \in Viewer
    BY <1>2 DEF Announces
  <2> QED
    BY <2>1, <2>2 DEF Register
<1>7. DownOK(down') /\ \A d \in Conn : down'[d] = Second(c, d, slot')
  <2>1. down' = Greeted(c, slot')
    BY DEF Register
  <2> DEFINE one == Sent(down, c, Config)
  <2>2. DownOK(one) /\ \A d \in Conn : one[d] = First(c, d)
    BY <1>0, SentType, MessageTypes DEF First
  <2> HIDE DEF one
  <2>3. CASE Announces(c, slot')
    <3> DEFINE h == slot'["host"]
               m == Joined(slot'["viewer"])
    <3>1. h \in Host /\ slot'["viewer"] \in Viewer
      BY <1>2, <2>3 DEF Announces
    <3>2. h \in Conn /\ m \in Inbound(h)
      BY <3>1, MessageTypes DEF Conn
    <3>3. down' = Sent(one, h, m)
      BY <2>1, <2>3 DEF Greeted, one
    <3> HIDE DEF h, m
    <3>4. /\ DownOK(Sent(one, h, m))
          /\ \A d \in Conn : d # h => Sent(one, h, m)[d] = one[d]
          /\ Sent(one, h, m)[h] = IF h \in open THEN Append(one[h], m) ELSE one[h]
      BY <2>2, <3>2, SentType
    <3>5. ASSUME NEW d \in Conn PROVE down'[d] = Second(c, d, slot')
      BY <2>2, <2>3, <3>2, <3>3, <3>4 DEF Second, h, m
    <3> QED
      BY <3>3, <3>4, <3>5
  <2>4. CASE ~Announces(c, slot')
    BY <2>1, <2>2, <2>4 DEF Greeted, Second, one
  <2> QED
    BY <2>3, <2>4
<1>8. UNCHANGED <<used, open, newest, up, phase, session, current, guest, accepted,
                  configured, pc, handlers>> /\ registered' = registered \cup {c}
  BY DEF Register, socketVars, hostVars, pageVars
<1>9. ServerTypes'
  BY <1>0, <1>2, <1>5, <1>6, <1>8 DEF ServerTypes
<1>10. UpOK(up') /\ HostTypes' /\ PageTypes'
  BY <1>0, <1>8 DEF UpOK, HostTypes, PageTypes
<1>11. TypeOK'
  BY <1>7, <1>9, <1>10, TypePartsNext
<1> QED
  BY <1>1, <1>3, <1>4, <1>5, <1>7, <1>11

\* A message is forwarded.
LEMMA RelayParts ==
    ASSUME TypeOK, NEW c \in Conn, Relay(c)
    PROVE  /\ DownOK(down') /\ UpOK(up')
           /\ up[c] # <<>> /\ up'[c] = Tail(up[c]) /\ Head(up[c]) \in Outbound(c)
           /\ \A d \in Conn : d # c => up'[d] = up[d]
           /\ \A d \in Conn :
                \/ /\ d = slot[OtherRole(c)] /\ d \in open /\ Role(d) = OtherRole(c)
                   /\ down'[d] = Append(down[d], Head(up[c]))
                \/ down'[d] = down[d] /\ ~(d = slot[OtherRole(c)] /\ d \in open)
<1>0. ServerTypes /\ DownOK(down) /\ UpOK(up)
  BY TypeParts
<1>1. up[c] \in Seq(Outbound(c)) /\ DOMAIN up = Conn /\ up[c] # <<>>
  BY <1>0 DEF UpOK, Relay
<1>2. Head(up[c]) \in Outbound(c) /\ Tail(up[c]) \in Seq(Outbound(c))
  BY <1>1, FirstOff
<1>3. up' = [up EXCEPT ![c] = Tail(up[c])]
  BY DEF Relay
<1>4. UpOK(up') /\ up'[c] = Tail(up[c]) /\ \A d \in Conn : d # c => up'[d] = up[d]
  BY <1>0, <1>1, <1>2, <1>3 DEF UpOK
<1>5. DOMAIN down' = Conn
  BY DEF Relay
<1>6. ASSUME NEW d \in Conn
      PROVE  /\ down'[d] \in Seq(Inbound(d))
             /\ \/ /\ d = slot[OtherRole(c)] /\ d \in open /\ Role(d) = OtherRole(c)
                   /\ down'[d] = Append(down[d], Head(up[c]))
                \/ down'[d] = down[d] /\ ~(d = slot[OtherRole(c)] /\ d \in open)
  <2>1. down[d] \in Seq(Inbound(d))
    BY <1>0 DEF DownOK
  <2>2. down'[d] = IF d \in Recipients(c) \cap open THEN Append(down[d], Head(up[c])) ELSE down[d]
    BY DEF Relay
  <2>3. d \in Recipients(c) <=> d = slot[OtherRole(c)]
    BY DEF Recipients
  <2>4. CASE d = slot[OtherRole(c)] /\ d \in open
    <3>1. /\ c \in Host => d \in Viewer /\ OtherRole(c) = "viewer" /\ Role(d) = "viewer"
          /\ c \in Viewer => d \in Host /\ OtherRole(c) = "host" /\ Role(d) = "host"
      BY <1>0, <2>4, MessageTypes DEF ServerTypes
    <3>2. Head(up[c]) \in Inbound(d)
      BY <1>2, <3>1, Sides
    <3>3. Append(down[d], Head(up[c])) \in Seq(Inbound(d))
      BY <2>1, <3>2, AppendProperties
    <3>4. Role(d) = OtherRole(c)
      BY <3>1, Sides
    <3> QED
      BY <2>2, <2>3, <2>4, <3>3, <3>4
  <2>5. CASE ~(d = slot[OtherRole(c)] /\ d \in open)
    BY <2>1, <2>2, <2>3, <2>5
  <2> QED
    BY <2>4, <2>5
<1>7. DownOK(down')
  BY <1>5, <1>6 DEF DownOK
<1> QED
  BY <1>1, <1>2, <1>4, <1>6, <1>7

\* The client's end closes.
LEMMA ClosesParts ==
    ASSUME TypeOK, NEW c \in Conn, Closes(c)
    PROVE  /\ DownOK(down') /\ UpOK(up') /\ PageTypes'
           /\ down'[c] = <<>> /\ \A d \in Conn : d # c => down'[d] = down[d]
           /\ \E n \in 0..Len(up[c]) : up'[c] = SubSeq(up[c], 1, n)
           /\ \A d \in Conn : d # c => up'[d] = up[d]
           /\ \A v \in Viewer : handlers'[v] = IF v = c THEN {} ELSE handlers[v]
<1>0. DownOK(down) /\ UpOK(up) /\ PageTypes
  BY TypeParts
<1>1. PICK n \in 0..Len(up[c]) : up' = [up EXCEPT ![c] = SubSeq(up[c], 1, n)]
  BY DEF Closes
<1>2. up[c] \in Seq(Outbound(c)) /\ DOMAIN up = Conn
  BY <1>0 DEF UpOK
<1>3. SubSeq(up[c], 1, n) \in Seq(Outbound(c))
  BY <1>2, Prefix
<1>4. UpOK(up') /\ up'[c] = SubSeq(up[c], 1, n) /\ \A d \in Conn : d # c => up'[d] = up[d]
  BY <1>0, <1>1, <1>2, <1>3 DEF UpOK
<1>5. /\ down' = [down EXCEPT ![c] = <<>>]
      /\ handlers' = [v \in Viewer |-> IF v = c THEN {} ELSE handlers[v]]
      /\ configured' = configured /\ pc' = pc
  BY DEF Closes
<1>6. DownOK(down') /\ down'[c] = <<>> /\ \A d \in Conn : d # c => down'[d] = down[d]
  BY <1>0, <1>5, EmptySeq DEF DownOK
<1>7. PageTypes'
  BY <1>0, <1>5 DEF PageTypes
<1> QED
  BY <1>4, <1>5, <1>6, <1>7

\* Every step keeps the types.
LEMMA TypesKept ==
    ASSUME TypeOK, [Next]_vars
    PROVE  TypeOK'
<1>0. ServerTypes /\ DownOK(down) /\ UpOK(up) /\ HostTypes /\ PageTypes
  BY TypeParts
<1>1. ASSUME NEW c \in Conn, Register(c)
      PROVE  TypeOK'
  BY <1>1, RegisterParts
<1>2. ASSUME NEW c \in Conn, Unregister(c)
      PROVE  TypeOK'
  <2>1. UNCHANGED <<waiting, told, used, open, newest, down, up, phase, session, current, guest,
                    accepted, configured, pc, handlers>> /\ registered' = registered \ {c}
    BY <1>2 DEF Unregister, socketVars, hostVars, pageVars
  <2>2. slot' = slot \/ slot' = [slot EXCEPT ![Role(c)] = None]
    BY <1>2 DEF Unregister
  <2>3. /\ slot' \in [Roles -> Conn \cup {None}]
        /\ slot'["host"] \in Host \cup {None} /\ slot'["viewer"] \in Viewer \cup {None}
    BY <1>0, <2>2, MessageTypes DEF ServerTypes, Roles
  <2>4. ServerTypes'
    BY <1>0, <2>1, <2>3 DEF ServerTypes
  <2>5. DownOK(down') /\ UpOK(up') /\ HostTypes' /\ PageTypes'
    BY <1>0, <2>1 DEF DownOK, UpOK, HostTypes, PageTypes
  <2> QED
    BY <2>4, <2>5, TypePartsNext
<1>3. ASSUME NEW c \in Conn, Relay(c)
      PROVE  TypeOK'
  <2>1. DownOK(down') /\ UpOK(up')
    BY <1>3, RelayParts
  <2>2. ServerTypes' /\ HostTypes' /\ PageTypes'
    BY <1>0, <1>3
       DEF Relay, ServerTypes, HostTypes, PageTypes, serverVars, socketVars, hostVars, pageVars
  <2> QED
    BY <2>1, <2>2, TypePartsNext
<1>4. ASSUME NEW c \in Conn, Closes(c)
      PROVE  TypeOK'
  <2>1. DownOK(down') /\ UpOK(up') /\ PageTypes'
    BY <1>4, ClosesParts
  <2>2. ServerTypes' /\ HostTypes'
    BY <1>0, <1>4 DEF Closes, ServerTypes, HostTypes, serverVars, hostVars
  <2> QED
    BY <2>1, <2>2, TypePartsNext
<1>5. ASSUME NEW c \in Conn, Connects(c)
      PROVE  TypeOK'
  <2>1. waiting' \in Seq(Conn)
    BY <1>0, <1>5, AppendProperties DEF ServerTypes, Connects
  <2>2. ServerTypes'
    BY <1>0, <1>5, <2>1, MessageTypes DEF Connects, ServerTypes, Roles
  <2>3. DownOK(down') /\ UpOK(up') /\ HostTypes' /\ PageTypes'
    BY <1>0, <1>5 DEF Connects, DownOK, UpOK, HostTypes, PageTypes, hostVars, pageVars
  <2> QED
    BY <2>2, <2>3, TypePartsNext
<1>6. ASSUME NEW h \in Host, HostConfigured(h)
      PROVE  TypeOK'
  <2>1. DownOK(down')
    BY <1>6, ReceivesType, Sides DEF HostConfigured
  <2>2. ServerTypes' /\ UpOK(up') /\ PageTypes'
    BY <1>0, <1>6
       DEF HostConfigured, ServerTypes, UpOK, PageTypes, serverVars, socketVars, pageVars
  <2>3. HostTypes'
    BY <1>0, <1>6 DEF HostConfigured, HostTypes
  <2> QED
    BY <2>1, <2>2, <2>3, TypePartsNext
<1>7. ASSUME NEW h \in Host, HostJoined(h)
      PROVE  TypeOK'
  <2>1. DownOK(down') /\ Head(down[h]) \in Inbound(h) /\ Head(down[h]).type = "viewer-joined"
    BY <1>7, ReceivesType, Sides DEF HostJoined
  <2>2. Head(down[h]).viewer \in Viewer
    BY <2>1, Kinds
  <2>3. ServerTypes' /\ UpOK(up') /\ PageTypes'
    BY <1>0, <1>7
       DEF HostJoined, ServerTypes, UpOK, PageTypes, serverVars, socketVars, pageVars
  <2>4. /\ session' \in [Host -> Nat] /\ current' \in [Host -> Nat]
        /\ guest' \in [Host -> Viewer \cup {None}]
    BY <1>0, <1>7, <2>2 DEF HostJoined, HostTypes, NextSession
  <2>5. /\ phase' \in [Host -> {"config", "select", "start"}]
        /\ accepted' \in [Host -> Answers \cup {Nothing}]
    BY <1>0, <1>7 DEF HostJoined, HostTypes
  <2> QED
    BY <2>1, <2>3, <2>4, <2>5, TypePartsNext DEF HostTypes
<1>8. ASSUME NEW h \in Host, HostOffers(h)
      PROVE  TypeOK'
  <2>1. session[h] \in Nat
    BY <1>0 DEF HostTypes
  <2>2. Offer(h, session[h]) \in Outbound(h)
    BY <2>1, MessageTypes, Sides
  <2>3. up[h] \in Seq(Outbound(h)) /\ DOMAIN up = Conn
    BY <1>0, Sides DEF UpOK
  <2>4. Append(up[h], Offer(h, session[h])) \in Seq(Outbound(h))
    BY <2>2, <2>3, AppendProperties
  <2>5. UpOK(up')
    BY <1>0, <1>8, <2>3, <2>4 DEF UpOK, HostOffers
  <2>6. ServerTypes' /\ DownOK(down') /\ PageTypes'
    BY <1>0, <1>8
       DEF HostOffers, ServerTypes, DownOK, PageTypes, serverVars, socketVars, pageVars
  <2>7. HostTypes'
    BY <1>0, <1>8, <2>1 DEF HostOffers, HostTypes
  <2> QED
    BY <2>5, <2>6, <2>7, TypePartsNext
<1>9. ASSUME NEW h \in Host, HostStartFails(h)
      PROVE  TypeOK'
  <2>1. ServerTypes' /\ DownOK(down') /\ UpOK(up') /\ PageTypes'
    BY <1>0, <1>9
       DEF HostStartFails, ServerTypes, DownOK, UpOK, PageTypes, serverVars, socketVars, pageVars
  <2>2. HostTypes'
    BY <1>0, <1>9 DEF HostStartFails, HostTypes
  <2> QED
    BY <2>1, <2>2, TypePartsNext
<1>10. ASSUME NEW h \in Host, HostAnswered(h)
      PROVE  TypeOK'
  <2>1. DownOK(down') /\ Head(down[h]) \in Inbound(h) /\ Head(down[h]).type = "answer"
    BY <1>10, ReceivesType, Sides DEF HostAnswered
  <2>2. Head(down[h]) \in Answers
    BY <2>1, Kinds
  <2>3. ServerTypes' /\ UpOK(up') /\ PageTypes'
    BY <1>0, <1>10
       DEF HostAnswered, ServerTypes, UpOK, PageTypes, serverVars, socketVars, pageVars
  <2>4. HostTypes'
    BY <1>0, <1>10, <2>2 DEF HostAnswered, HostTypes
  <2> QED
    BY <2>1, <2>3, <2>4, TypePartsNext
<1>11. ASSUME NEW v \in Viewer, PageConfigured(v)
       PROVE  TypeOK'
  <2>1. DownOK(down')
    BY <1>11, ReceivesType, Sides DEF PageConfigured
  <2>2. ServerTypes' /\ UpOK(up') /\ HostTypes'
    BY <1>0, <1>11
       DEF PageConfigured, ServerTypes, UpOK, HostTypes, serverVars, socketVars, hostVars
  <2>3. PageTypes'
    BY <1>0, <1>11 DEF PageConfigured, PageTypes
  <2> QED
    BY <2>1, <2>2, <2>3, TypePartsNext
<1>12. ASSUME NEW v \in Viewer, PageOffered(v)
       PROVE  TypeOK'
  <2>1. DownOK(down') /\ Head(down[v]) \in Inbound(v) /\ Head(down[v]).type = "offer"
    BY <1>12, ReceivesType, Sides DEF PageOffered
  <2>2. Head(down[v]) \in Offers
    BY <2>1, Kinds
  <2>3. ServerTypes' /\ UpOK(up') /\ HostTypes'
    BY <1>0, <1>12
       DEF PageOffered, ServerTypes, UpOK, HostTypes, serverVars, socketVars, hostVars
  <2>4. PageTypes'
    BY <1>0, <1>12, <2>2 DEF PageOffered, PageTypes
  <2> QED
    BY <2>1, <2>3, <2>4, TypePartsNext
<1>13. ASSUME NEW v \in Viewer, PageRefuses(v)
       PROVE  TypeOK'
  <2>1. DownOK(down')
    BY <1>13, ReceivesType, Sides DEF PageRefuses
  <2>2. ServerTypes' /\ UpOK(up') /\ HostTypes'
    BY <1>0, <1>13
       DEF PageRefuses, ServerTypes, UpOK, HostTypes, serverVars, socketVars, hostVars
  <2>3. PageTypes'
    BY <1>0, <1>13 DEF PageRefuses, PageTypes
  <2> QED
    BY <2>1, <2>2, <2>3, TypePartsNext
<1>14. ASSUME NEW v \in Viewer, NEW o, PageDescribed(v, o)
       PROVE  TypeOK'
  <2>1. ServerTypes' /\ DownOK(down') /\ UpOK(up') /\ HostTypes'
    BY <1>0, <1>14
       DEF PageDescribed, ServerTypes, DownOK, UpOK, HostTypes, serverVars, socketVars, hostVars
  <2>2. [offer |-> o, step |-> "gather"] \in [offer : Offers, step : {"describe", "gather"}]
    <3>1. [offer |-> o, step |-> "describe"] \in [offer : Offers, step : {"describe", "gather"}]
      BY <1>0, <1>14 DEF PageDescribed, PageTypes
    <3> QED
      BY <3>1
  <2>3. PageTypes'
    BY <1>0, <1>14, <2>2 DEF PageDescribed, PageTypes
  <2> QED
    BY <2>1, <2>3, TypePartsNext
<1>15. ASSUME NEW v \in Viewer, NEW o, PageAnswers(v, o)
       PROVE  TypeOK'
  <2>1. o \in Offers
    <3>1. [offer |-> o, step |-> "gather"] \in [offer : Offers, step : {"describe", "gather"}]
      BY <1>0, <1>15 DEF PageAnswers, PageTypes
    <3> QED
      BY <3>1
  <2>2. up[v] \in Seq(Outbound(v)) /\ DOMAIN up = Conn /\ Answer(v, o) \in Outbound(v)
    BY <1>0, <2>1, MessageTypes, Sides DEF UpOK
  <2>3. Append(up[v], Answer(v, o)) \in Seq(Outbound(v))
    BY <2>2, AppendProperties
  <2>4. UpOK(up')
    BY <1>0, <1>15, <2>2, <2>3 DEF PageAnswers, UpOK
  <2>5. ServerTypes' /\ DownOK(down') /\ HostTypes'
    BY <1>0, <1>15
       DEF PageAnswers, ServerTypes, DownOK, HostTypes, serverVars, socketVars, hostVars
  <2>6. PageTypes'
    BY <1>0, <1>15 DEF PageAnswers, PageTypes
  <2> QED
    BY <2>4, <2>5, <2>6, TypePartsNext
<1>16. CASE UNCHANGED vars
  <2>1. ServerTypes' /\ DownOK(down') /\ UpOK(up') /\ HostTypes' /\ PageTypes'
    BY <1>0, <1>16 DEF vars, serverVars, socketVars, hostVars, pageVars,
                       ServerTypes, DownOK, UpOK, HostTypes, PageTypes
  <2> QED
    BY <2>1, TypePartsNext
<1> QED
  BY <1>1, <1>2, <1>3, <1>4, <1>5, <1>6, <1>7, <1>8, <1>9, <1>10, <1>11, <1>12, <1>13, <1>14,
     <1>15, <1>16, Sides DEF Next, HostStarts, PageLoads, HostStep, PageStep

LEMMA TypesStart == Init => TypeOK
<1> SUFFICES ASSUME Init PROVE TypeOK
  OBVIOUS
<1>1. ServerTypes
  BY EmptySeq DEF Init, ServerTypes, Roles
<1>2. DownOK(down) /\ UpOK(up)
  BY EmptySeq DEF Init, DownOK, UpOK
<1>3. HostTypes /\ PageTypes
  BY DEF Init, HostTypes, PageTypes
<1> QED
  BY <1>1, <1>2, <1>3, TypeParts

\* Every queue, slot and handler holds what its reader expects: hosts are sent
\* configurations, announcements and answers, pages configurations and offers.
THEOREM TypeCorrect == Spec => []TypeOK
BY TypesStart, TypesKept, PTL DEF Spec

-----------------------------------------------------------------------------
\* Connections.

\* A connection waits once, then is registered, and nothing is on its way to it
\* but while it is registered and open.
Sockets ==
    /\ registered \subseteq used
    /\ \A i \in DOMAIN waiting : waiting[i] \in used \ registered
    /\ \A i, j \in DOMAIN waiting : waiting[i] = waiting[j] => i = j
    /\ \A r \in Roles : slot[r] \in registered \cup {None}
    /\ \A r \in Roles : newest[r] # None => newest[r] \in used /\ Role(newest[r]) = r
    /\ \A c \in Conn \ (registered \cap open) : down[c] = <<>>

\* Has the client not had its configuration yet?
Unconfigured(c) == IF c \in Host THEN phase[c] = "config" ELSE c \notin configured

\* Its configuration is the first thing it will read.
Greeting ==
    \A c \in registered \cap open :
        Unconfigured(c) => down[c] # <<>> /\ Head(down[c]) = Config

\* The steps, by what they do to the queues: a client reads a message, ...
HostReads(h) == HostConfigured(h) \/ HostJoined(h) \/ HostAnswered(h)
PageReads(v) == PageConfigured(v) \/ PageOffered(v) \/ PageRefuses(v)
Reads(c) == (c \in Host /\ HostReads(c)) \/ (c \in Viewer /\ PageReads(c))
\* ... or does something that no one else notices, ...
Works ==
    \/ \E h \in Host : HostOffers(h) \/ HostStartFails(h)
    \/ \E v \in Viewer : \E hd \in handlers[v] :
         PageDescribed(v, hd.offer) \/ PageAnswers(v, hd.offer)
    \/ UNCHANGED vars

\* ... or it is the server's, or the connection's own.
LEMMA StepKinds ==
    ASSUME [Next]_vars
    PROVE  \/ \E c \in Conn : Register(c) \/ Unregister(c) \/ Relay(c) \/ Closes(c)
           \/ \E c \in Conn : Connects(c) \/ Reads(c)
           \/ Works
<1>1. ASSUME NEW h \in Host, HostStarts(h) \/ HostStep(h)
      PROVE  Connects(h) \/ Reads(h) \/ Works
  BY <1>1 DEF HostStarts, HostStep, Reads, HostReads, Works
<1>2. ASSUME NEW v \in Viewer, PageLoads(v) \/ PageStep(v)
      PROVE  Connects(v) \/ Reads(v) \/ Works
  BY <1>2 DEF PageLoads, PageStep, Reads, PageReads, Works
<1>3. CASE UNCHANGED vars
  BY <1>3 DEF Works
<1> QED
  BY <1>1, <1>2, <1>3, Sides DEF Next

LEMMA ReadsParts ==
    ASSUME TypeOK, NEW c \in Conn, Reads(c)
    PROVE  /\ UNCHANGED <<slot, waiting, registered, told, used, open, newest, up>>
           /\ c \in open /\ down[c] # <<>> /\ down'[c] = Tail(down[c])
           /\ \A d \in Conn : d # c => down'[d] = down[d]
           /\ ~Unconfigured(c)'
           /\ \A d \in Conn : d # c => (Unconfigured(d)' <=> Unconfigured(d))
<1>0. HostTypes /\ PageTypes
  BY TypeParts
<1>1. CASE c \in Host /\ HostReads(c)
  <2>1. \E type : Receives(c, type)
    BY <1>1 DEF HostReads, HostConfigured, HostJoined, HostAnswered
  <2>2. UNCHANGED <<slot, waiting, registered, told, used, open, newest, up, configured>>
    BY <1>1 DEF HostReads, HostConfigured, HostJoined, HostAnswered,
                serverVars, socketVars, pageVars
  <2>3. phase'[c] # "config" /\ \A h \in Host : h # c => phase'[h] = phase[h]
    BY <1>0, <1>1 DEF HostReads, HostConfigured, HostJoined, HostAnswered, HostTypes
  <2> QED
    BY <1>1, <2>1, <2>2, <2>3, ReceivesType DEF Unconfigured
<1>2. CASE c \in Viewer /\ PageReads(c)
  <2>1. \E type : Receives(c, type)
    BY <1>2 DEF PageReads, PageConfigured, PageOffered, PageRefuses
  <2>2. UNCHANGED <<slot, waiting, registered, told, used, open, newest, up, phase>>
    BY <1>2 DEF PageReads, PageConfigured, PageOffered, PageRefuses,
                serverVars, socketVars, hostVars
  <2>3. c \in configured' /\ \A v \in Viewer : v # c => (v \in configured' <=> v \in configured)
    BY <1>0, <1>2 DEF PageReads, PageConfigured, PageOffered, PageRefuses
  <2>4. c \notin Host
    BY <1>2
  <2> QED
    BY <1>2, <2>1, <2>2, <2>3, <2>4, ReceivesType, Sides DEF Unconfigured
<1> QED
  BY <1>1, <1>2 DEF Reads

LEMMA WorksParts ==
    ASSUME TypeOK, Works
    PROVE  /\ UNCHANGED <<slot, waiting, registered, told, used, open, newest, down, configured>>
           /\ \A c \in Conn : Unconfigured(c)' => Unconfigured(c)
<1>0. HostTypes
  BY TypeParts
<1>1. UNCHANGED <<slot, waiting, registered, told, used, open, newest, down, configured>>
  BY DEF Works, HostOffers, HostStartFails, PageDescribed, PageAnswers,
         vars, serverVars, socketVars, pageVars
<1>2. \A h \in Host : phase'[h] = "config" => phase[h] = "config"
  BY <1>0 DEF Works, HostOffers, HostStartFails, PageDescribed, PageAnswers, HostTypes,
              vars, hostVars
<1> QED
  BY <1>1, <1>2 DEF Unconfigured

\* Each kind of step keeps the connections in order.
LEMMA SocketsKept ==
    ASSUME TypeOK, Sockets, Greeting, [Next]_vars
    PROVE  Sockets' /\ Greeting'
<1>0. /\ waiting \in Seq(Conn) /\ registered \subseteq Conn /\ open \subseteq used
      /\ slot \in [Roles -> Conn \cup {None}] /\ newest \in [Roles -> Conn \cup {None}]
      /\ \A c \in Conn : down[c] \in Seq(Inbound(c)) /\ Config \in Inbound(c)
      /\ TypeOK'
  BY TypesKept, TypeParts, MessageTypes DEF ServerTypes, DownOK
<1>1. ASSUME NEW c \in Conn, Register(c)
      PROVE  Sockets' /\ Greeting'
  <2>1. PICK i \in 1..Len(waiting) :
          /\ waiting[i] = c
          /\ Len(waiting) \in Nat /\ Len(waiting') = Len(waiting) - 1
          /\ \A k \in 1..Len(waiting') :
               waiting'[k] = IF k < i THEN waiting[k] ELSE waiting[k + 1]
    BY <1>1, RegisterParts
  <2>2. /\ slot' = [slot EXCEPT ![Role(c)] = c]
        /\ \A d \in Conn : down'[d] = Second(c, d, slot')
    BY <1>1, RegisterParts
  <2>3. /\ registered' = registered \cup {c}
        /\ UNCHANGED <<used, open, newest, phase, configured>>
    BY <1>1 DEF Register, socketVars, hostVars, pageVars
  <2>4. DOMAIN waiting = 1..Len(waiting) /\ DOMAIN waiting' = 1..Len(waiting')
    <3>1. waiting' \in Seq(Conn)
      BY <1>0, TypePartsNext DEF ServerTypes
    <3> QED
      BY <1>0, <3>1
  <2>5. c \in used /\ c \notin registered /\ down[c] = <<>>
    BY <2>1, <2>4 DEF Sockets
  <2>6. \A k \in DOMAIN waiting' : \E j \in DOMAIN waiting :
          /\ j # i /\ waiting'[k] = waiting[j] /\ j = IF k < i THEN k ELSE k + 1
    BY <2>1, <2>4
  <2>7. \A k \in DOMAIN waiting' : waiting'[k] \in used' \ registered'
    BY <2>1, <2>3, <2>4, <2>6 DEF Sockets
  <2>8. \A k, l \in DOMAIN waiting' : waiting'[k] = waiting'[l] => k = l
    <3> TAKE k, l \in DOMAIN waiting'
    <3> HAVE waiting'[k] = waiting'[l]
    <3>1. PICK j \in DOMAIN waiting : waiting'[k] = waiting[j] /\ j = IF k < i THEN k ELSE k + 1
      BY <2>6
    <3>2. PICK m \in DOMAIN waiting : waiting'[l] = waiting[m] /\ m = IF l < i THEN l ELSE l + 1
      BY <2>6
    <3>3. j = m
      BY <3>1, <3>2 DEF Sockets
    <3> QED
      BY <2>4, <3>1, <3>2, <3>3
  <2>9. \A r \in Roles : slot'[r] \in registered' \cup {None}
    BY <1>0, <2>2, <2>3 DEF Sockets
  <2>10. ASSUME NEW d \in Conn, d # c
         PROVE  \/ down'[d] = down[d]
                \/ /\ d \in registered \cap open
                   /\ down'[d] = Append(down[d], Joined(slot'["viewer"]))
                   /\ Joined(slot'["viewer"]) \in Inbound(d)
    <3>1. slot' \in [Roles -> Conn \cup {None}] /\ slot'["viewer"] \in Viewer \cup {None}
          /\ slot'["host"] \in Host \cup {None}
      BY <1>0, TypePartsNext DEF ServerTypes
    <3>2. First(c, d) = down[d]
      BY <2>10 DEF First
    <3>3. CASE Announces(c, slot') /\ d = slot'["host"] /\ d \in open
      <4>1. d \in registered'
        BY <2>9, <3>3 DEF Roles
      <4>2. Joined(slot'["viewer"]) \in Inbound(d)
        BY <3>1, <3>3, MessageTypes DEF Announces
      <4>3. down'[d] = Append(down[d], Joined(slot'["viewer"]))
        BY <2>2, <3>2, <3>3 DEF Second
      <4> QED
        BY <2>3, <2>10, <3>3, <4>1, <4>2, <4>3
    <3> QED
      BY <2>2, <3>2, <3>3 DEF Second
  <2>11. \A d \in Conn \ (registered' \cap open') : down'[d] = <<>>
    <3> TAKE d \in Conn \ (registered' \cap open')
    <3>1. d \notin registered \cap open /\ down[d] = <<>>
      BY <2>3 DEF Sockets
    <3>2. CASE d = c
      <4>1. d \notin open
        BY <2>3, <3>2
      <4> QED
        BY <2>2, <3>1, <4>1 DEF First, Second
    <3>3. CASE d # c
      BY <2>10, <3>1, <3>3
    <3> QED
      BY <3>2, <3>3
  <2>12. Sockets'
    BY <2>3, <2>5, <2>7, <2>8, <2>9, <2>11 DEF Sockets
  <2>13. Greeting'
    <3> SUFFICES ASSUME NEW d \in registered' \cap open', Unconfigured(d)'
                 PROVE  down'[d] # <<>> /\ Head(down'[d]) = Config
      BY DEF Greeting
    <3>0. d \in Conn /\ Unconfigured(d) /\ d \in open
      BY <1>0, <2>3 DEF Unconfigured
    <3>1. CASE d # c
      <4>1. down[d] # <<>> /\ Head(down[d]) = Config /\ down[d] \in Seq(Inbound(d))
        BY <1>0, <2>3, <3>0, <3>1 DEF Greeting
      <4>2. CASE down'[d] = Append(down[d], Joined(slot'["viewer"])) /\ Joined(slot'["viewer"]) \in Inbound(d)
        BY <4>1, <4>2, Added
      <4> QED
        BY <2>10, <3>0, <3>1, <4>1, <4>2
    <3>2. CASE d = c
      <4> DEFINE q == Append(down[c], Config)
                 m == Joined(slot'["viewer"])
      <4>1. First(c, c) = q
        BY <3>0, <3>2 DEF First
      <4>2. q \in Seq(Inbound(c)) /\ q # <<>> /\ Head(q) = Config
        BY <1>0, <2>5, Added
      <4> HIDE DEF q, m
      <4>3. CASE down'[c] = Append(q, m) /\ Announces(c, slot') /\ c = slot'["host"]
        <5>1. c \in Host /\ slot'["viewer"] \in Viewer
          BY <1>0, <4>3, TypePartsNext DEF ServerTypes, Announces
        <5>2. m \in Inbound(c)
          BY <5>1, MessageTypes DEF m
        <5> QED
          BY <3>2, <4>2, <4>3, <5>2, Added
      <4>4. CASE down'[c] = q
        BY <3>2, <4>2, <4>4
      <4> QED
        BY <2>2, <4>1, <4>3, <4>4 DEF Second, m
    <3> QED
      BY <3>1, <3>2
  <2> QED
    BY <2>12, <2>13
<1>2. ASSUME NEW c \in Conn, Unregister(c)
      PROVE  Sockets' /\ Greeting'
  <2>1. /\ UNCHANGED <<waiting, used, open, newest, down, phase, configured>>
        /\ registered' = registered \ {c} /\ c \notin open
    BY <1>2 DEF Unregister, socketVars, hostVars, pageVars
  <2>2. slot' = IF Clears(c) THEN [slot EXCEPT ![Role(c)] = None] ELSE slot
    BY <1>2 DEF Unregister
  <2>3. \A r \in Roles : slot'[r] \in registered' \cup {None}
    <3> TAKE r \in Roles
    <3>1. slot[r] \in registered \cup {None} /\ (slot[r] = c => r = Role(c))
      <4>1. slot["host"] \in Host \cup {None} /\ slot["viewer"] \in Viewer \cup {None}
        BY TypeParts DEF ServerTypes
      <4> QED
        BY <4>1, MessageTypes DEF Sockets, Roles
    <3> QED
      BY <1>0, <2>1, <2>2, <3>1 DEF Clears
  <2>4. Sockets'
    BY <2>1, <2>3 DEF Sockets
  <2>5. Greeting'
    BY <2>1 DEF Greeting, Unconfigured
  <2> QED
    BY <2>4, <2>5
<1>3. ASSUME NEW c \in Conn, Relay(c)
      PROVE  Sockets' /\ Greeting'
  <2>1. UNCHANGED <<slot, waiting, registered, used, open, newest, phase, configured>>
    BY <1>3 DEF Relay, serverVars, socketVars, hostVars, pageVars
  <2> DEFINE m == Head(up[c])
  <2>2. ASSUME NEW d \in Conn
        PROVE  \/ d \in registered \cap open /\ down'[d] = Append(down[d], m)
                  /\ m \in Inbound(d)
               \/ down'[d] = down[d]
    <3>1. m \in Outbound(c) /\
          \/ d = slot[OtherRole(c)] /\ d \in open /\ Role(d) = OtherRole(c) /\ down'[d] = Append(down[d], m)
          \/ down'[d] = down[d]
      BY <1>3, RelayParts
    <3>2. CASE d = slot[OtherRole(c)] /\ d \in open /\ Role(d) = OtherRole(c) /\ down'[d] = Append(down[d], m)
      <4>1. d \in registered
        BY <3>2, MessageTypes DEF Sockets
      <4>2. /\ c \in Host => d \in Viewer
            /\ c \in Viewer => d \in Host
        BY <3>2, MessageTypes, Sides
      <4>3. m \in Inbound(d)
        BY <3>1, <4>2, Sides
      <4> QED
        BY <3>2, <4>1, <4>3
    <3> QED
      BY <3>1, <3>2
  <2> HIDE DEF m
  <2>3. \A d \in Conn \ (registered' \cap open') : down'[d] = <<>>
    BY <2>1, <2>2 DEF Sockets
  <2>4. Sockets'
    BY <2>1, <2>3 DEF Sockets
  <2>5. Greeting'
    <3> SUFFICES ASSUME NEW d \in registered' \cap open', Unconfigured(d)'
                 PROVE  down'[d] # <<>> /\ Head(down'[d]) = Config
      BY DEF Greeting
    <3>1. d \in Conn /\ down[d] # <<>> /\ Head(down[d]) = Config /\ down[d] \in Seq(Inbound(d))
      BY <1>0, <2>1 DEF Greeting, Unconfigured
    <3> QED
      BY <2>2, <3>1, Added
  <2> QED
    BY <2>4, <2>5
<1>4. ASSUME NEW c \in Conn, Closes(c)
      PROVE  Sockets' /\ Greeting'
  <2>1. /\ UNCHANGED <<slot, waiting, registered, used, newest, phase, configured>>
        /\ open' = open \ {c}
    BY <1>4 DEF Closes, serverVars, hostVars
  <2>2. down'[c] = <<>> /\ \A d \in Conn : d # c => down'[d] = down[d]
    BY <1>4, ClosesParts
  <2>3. Sockets'
    BY <2>1, <2>2 DEF Sockets
  <2>4. Greeting'
    BY <1>0, <2>1, <2>2 DEF Greeting, Unconfigured
  <2> QED
    BY <2>3, <2>4
<1>5. ASSUME NEW c \in Conn, Connects(c)
      PROVE  Sockets' /\ Greeting'
  <2>1. /\ UNCHANGED <<slot, registered, down, phase, configured>>
        /\ c \notin used /\ used' = used \cup {c} /\ open' = open \cup {c}
        /\ waiting' = Append(waiting, c) /\ newest' = [newest EXCEPT ![Role(c)] = c]
    BY <1>5 DEF Connects, hostVars, pageVars
  <2>2. /\ waiting' \in Seq(Conn) /\ Len(waiting) \in Nat /\ Len(waiting') = Len(waiting) + 1
        /\ \A i \in 1..Len(waiting) : waiting'[i] = waiting[i]
        /\ waiting'[Len(waiting) + 1] = c
    BY <1>0, <2>1, Added
  <2>3. DOMAIN waiting = 1..Len(waiting) /\ DOMAIN waiting' = 1..Len(waiting')
    BY <1>0, <2>2
  <2>4. c \notin registered
    BY <2>1 DEF Sockets
  <2>5. \A i \in DOMAIN waiting' : waiting'[i] \in used' \ registered'
    BY <2>1, <2>2, <2>3, <2>4 DEF Sockets
  <2>6. \A i, j \in DOMAIN waiting' : waiting'[i] = waiting'[j] => i = j
    BY <2>1, <2>2, <2>3 DEF Sockets
  <2>7. \A r \in Roles : newest'[r] # None => newest'[r] \in used' /\ Role(newest'[r]) = r
    BY <1>0, <2>1, MessageTypes DEF Sockets
  <2>8. Sockets'
    BY <2>1, <2>4, <2>5, <2>6, <2>7 DEF Sockets
  <2>9. Greeting'
    BY <1>0, <2>1, <2>4 DEF Greeting, Unconfigured
  <2> QED
    BY <2>8, <2>9
<1>6. ASSUME NEW c \in Conn, Reads(c)
      PROVE  Sockets' /\ Greeting'
  <2>1. /\ UNCHANGED <<slot, waiting, registered, told, used, open, newest, up>>
        /\ c \in open /\ down[c] # <<>> /\ down'[c] = Tail(down[c])
        /\ \A d \in Conn : d # c => down'[d] = down[d]
        /\ ~Unconfigured(c)'
        /\ \A d \in Conn : d # c => (Unconfigured(d)' <=> Unconfigured(d))
    BY <1>6, ReadsParts
  <2>2. Sockets'
    BY <2>1 DEF Sockets
  <2>3. Greeting'
    BY <1>0, <2>1 DEF Greeting
  <2> QED
    BY <2>2, <2>3
<1>7. CASE Works
  <2>1. /\ UNCHANGED <<slot, waiting, registered, told, used, open, newest, down, configured>>
        /\ \A c \in Conn : Unconfigured(c)' => Unconfigured(c)
    BY <1>7, WorksParts
  <2>2. Sockets'
    BY <2>1 DEF Sockets
  <2>3. Greeting'
    BY <1>0, <2>1 DEF Greeting
  <2> QED
    BY <2>2, <2>3
<1> QED
  BY <1>1, <1>2, <1>3, <1>4, <1>5, <1>6, <1>7, StepKinds

LEMMA SocketsStart == Init => Sockets /\ Greeting
<1> SUFFICES ASSUME Init PROVE Sockets /\ Greeting
  OBVIOUS
<1>1. registered = {} /\ waiting = <<>> /\ \A r \in Roles : slot[r] = None /\ newest[r] = None
  BY DEF Init, Roles
<1>2. \A c \in Conn : down[c] = <<>>
  BY DEF Init
<1> QED
  BY <1>1, <1>2 DEF Sockets, Greeting

LEMMA SocketsAlways == Spec => [](TypeOK /\ Sockets /\ Greeting)
<1>1. Init => TypeOK
  BY TypesStart
<1> QED
  BY <1>1, SocketsStart, SocketsKept, TypesKept, PTL DEF Spec

\* Whatever else happens, the first thing a client gets is its configuration.
THEOREM ConfigComesFirst == Spec => []ConfigFirst
<1>1. TypeOK /\ Sockets /\ Greeting => ConfigFirst
  <2> SUFFICES ASSUME TypeOK, Sockets, Greeting, NEW c \in Conn, down[c] # <<>>,
                      c \in Host => phase[c] = "config", c \in Viewer => c \notin configured
               PROVE  Head(down[c]) = Config
    BY DEF ConfigFirst
  <2>1. c \in registered \cap open
    BY DEF Sockets
  <2>2. Unconfigured(c)
    BY Sides DEF Unconfigured
  <2> QED
    BY <2>1, <2>2 DEF Greeting
<1> QED
  BY <1>1, SocketsAlways, PTL

-----------------------------------------------------------------------------
\* Connections that register in the order they were made.

\* Behind each connection that waits, the newest one of its role does.
LineUp ==
    \A i \in DOMAIN waiting :
        \E j \in DOMAIN waiting : i <= j /\ waiting[j] = newest[Role(waiting[i])]

InOrder == TypeOK /\ Sockets /\ LineUp /\ SlotIsNewest /\ Introduced

LEMMA InOrderKept ==
    ASSUME ~Overtaking, InOrder, Greeting, [Next]_vars
    PROVE  InOrder'
<1>0. /\ TypeOK /\ Sockets /\ LineUp /\ SlotIsNewest /\ Introduced
      /\ TypeOK' /\ Sockets'
      /\ waiting \in Seq(Conn) /\ slot \in [Roles -> Conn \cup {None}]
      /\ newest \in [Roles -> Conn \cup {None}] /\ registered \subseteq Conn
  BY SocketsKept, TypesKept, TypeParts DEF InOrder, ServerTypes
<1>1. ASSUME NEW c \in Conn, Register(c)
      PROVE  InOrder'
  <2>1. PICK i \in 1..Len(waiting) :
          /\ waiting[i] = c /\ i = 1
          /\ Len(waiting) \in Nat /\ Len(waiting') = Len(waiting) - 1
          /\ \A k \in 1..Len(waiting') :
               waiting'[k] = IF k < i THEN waiting[k] ELSE waiting[k + 1]
    BY <1>0, <1>1, RegisterParts
  <2>2. /\ slot' = [slot EXCEPT ![Role(c)] = c] /\ registered' = registered \cup {c}
        /\ newest' = newest
        /\ told' = IF Announces(c, slot') THEN told \cup {<<slot'["host"], slot'["viewer"]>>}
                                          ELSE told
    BY <1>1 DEF Register, socketVars
  <2>3. DOMAIN waiting = 1..Len(waiting) /\ DOMAIN waiting' = 1..Len(waiting')
    <3>1. waiting' \in Seq(Conn)
      BY <1>0, TypePartsNext DEF ServerTypes
    <3> QED
      BY <1>0, <3>1
  <2>4. \A k \in DOMAIN waiting' : k + 1 \in DOMAIN waiting /\ waiting'[k] = waiting[k + 1]
    BY <2>1, <2>3
  <2>5. LineUp'
    <3> SUFFICES ASSUME NEW k \in DOMAIN waiting'
                 PROVE  \E j \in DOMAIN waiting' : k <= j /\ waiting'[j] = newest[Role(waiting'[k])]
      BY <2>2 DEF LineUp
    <3>1. PICK j \in DOMAIN waiting : k + 1 <= j /\ waiting[j] = newest[Role(waiting[k + 1])]
      BY <1>0, <2>4 DEF LineUp
    <3>2. j - 1 \in DOMAIN waiting' /\ k <= j - 1
      BY <2>1, <2>3, <3>1
    <3>3. waiting'[j - 1] = waiting[j]
      <4>1. j - 1 + 1 = j
        BY <2>3
      <4> QED
        BY <2>4, <3>2, <4>1
    <3> QED
      BY <2>4, <3>1, <3>2, <3>3
  <2>6. Role(c) \in Roles /\ c \notin registered /\ slot'[Role(c)] = c
        /\ \A r \in Roles : r # Role(c) => slot'[r] = slot[r]
    BY <1>0, <2>1, <2>2, <2>3, MessageTypes DEF Sockets
  <2>7. newest[Role(c)] \notin registered
    BY <1>0, <2>1, <2>3 DEF LineUp, Sockets
  <2>8. ASSUME NEW r \in Roles, newest'[r] \in registered'
        PROVE  slot'[r] = newest'[r] /\ (r = Role(c) => newest[r] = c)
                                     /\ (r # Role(c) => newest[r] \in registered)
    <3>1. CASE r = Role(c)
      BY <2>2, <2>6, <2>7, <2>8, <3>1
    <3>2. CASE r # Role(c)
      <4>1. newest[r] # c
        <5>1. newest[r] # None => Role(newest[r]) = r
          BY <1>0 DEF Sockets
        <5> QED
          BY <3>2, <5>1
      <4>2. newest[r] \in registered
        BY <2>2, <2>8, <4>1
      <4> QED
        BY <1>0, <2>2, <2>6, <3>2, <4>2 DEF SlotIsNewest, Roles
    <3> QED
      BY <3>1, <3>2
  <2>9. SlotIsNewest'
    BY <2>8 DEF SlotIsNewest, Roles
  <2>10. Introduced'
    <3> SUFFICES ASSUME newest'["host"] \in registered', newest'["viewer"] \in registered'
                 PROVE  <<newest'["host"], newest'["viewer"]>> \in told'
      BY DEF Introduced
    <3>1. slot'["host"] = newest'["host"] /\ slot'["viewer"] = newest'["viewer"]
      BY <2>8 DEF Roles
    <3>2. Announces(c, slot')
      BY <1>0, <2>1, <2>2, <2>3, <3>1 DEF Announces
    <3> QED
      BY <2>2, <3>1, <3>2
  <2> QED
    BY <1>0, <2>5, <2>9, <2>10 DEF InOrder
<1>2. ASSUME NEW c \in Conn, Unregister(c)
      PROVE  InOrder'
  <2>1. /\ UNCHANGED <<waiting, newest, told>> /\ registered' = registered \ {c}
        /\ slot' = IF Clears(c) THEN [slot EXCEPT ![Role(c)] = None] ELSE slot
    BY <1>2 DEF Unregister, socketVars
  <2>2. SlotIsNewest'
    <3> SUFFICES ASSUME NEW r \in Roles, newest[r] \in registered \ {c}
                 PROVE  slot'[r] = newest[r]
      BY <2>1 DEF SlotIsNewest, Roles
    <3>1. slot[r] = newest[r] /\ newest[r] # c
      BY <1>0 DEF SlotIsNewest, Roles
    <3> QED
      BY <1>0, <2>1, <3>1, MessageTypes DEF Clears
  <2>3. LineUp' /\ Introduced'
    BY <1>0, <2>1 DEF LineUp, Introduced
  <2> QED
    BY <1>0, <2>2, <2>3 DEF InOrder
<1>3. ASSUME NEW c \in Conn, Connects(c)
      PROVE  InOrder'
  <2>1. /\ UNCHANGED <<slot, registered, told>> /\ c \notin used
        /\ waiting' = Append(waiting, c) /\ newest' = [newest EXCEPT ![Role(c)] = c]
    BY <1>3 DEF Connects
  <2>2. /\ waiting' \in Seq(Conn) /\ Len(waiting) \in Nat /\ Len(waiting') = Len(waiting) + 1
        /\ \A i \in 1..Len(waiting) : waiting'[i] = waiting[i]
        /\ waiting'[Len(waiting) + 1] = c
    BY <1>0, <2>1, Added
  <2>3. DOMAIN waiting = 1..Len(waiting) /\ DOMAIN waiting' = 1..Len(waiting')
    BY <1>0, <2>2
  <2>4. /\ c \notin registered /\ Role(c) \in Roles /\ newest'[Role(c)] = c
        /\ \A r \in Roles : r # Role(c) => newest'[r] = newest[r]
    BY <1>0, <2>1, MessageTypes DEF Sockets
  <2>5. LineUp'
    <3> SUFFICES ASSUME NEW i \in DOMAIN waiting'
                 PROVE  \E j \in DOMAIN waiting' : i <= j /\ waiting'[j] = newest'[Role(waiting'[i])]
      BY DEF LineUp
    <3>1. CASE Role(waiting'[i]) = Role(c)
      <4>1. Len(waiting') \in DOMAIN waiting' /\ i <= Len(waiting') /\ waiting'[Len(waiting')] = c
        BY <2>2, <2>3
      <4> QED
        BY <2>4, <3>1, <4>1
    <3>2. CASE Role(waiting'[i]) # Role(c)
      <4>1. i \in DOMAIN waiting /\ waiting'[i] = waiting[i]
        BY <2>2, <2>3, <3>2
      <4>2. PICK j \in DOMAIN waiting : i <= j /\ waiting[j] = newest[Role(waiting[i])]
        BY <1>0, <4>1 DEF LineUp
      <4>3. j \in DOMAIN waiting' /\ waiting'[j] = waiting[j]
        BY <2>2, <2>3
      <4>4. Role(waiting[i]) \in Roles
        BY <1>0, <4>1, ElementOfSeq, MessageTypes, <2>3
      <4> QED
        BY <2>4, <3>2, <4>1, <4>2, <4>3, <4>4
    <3> QED
      BY <3>1, <3>2
  <2>6. \A r \in Roles : newest'[r] \in registered' => newest'[r] = newest[r]
    BY <2>1, <2>4
  <2>7. SlotIsNewest' /\ Introduced'
    BY <1>0, <2>1, <2>6 DEF SlotIsNewest, Introduced, Roles
  <2> QED
    BY <1>0, <2>5, <2>7 DEF InOrder
<1>4. ASSUME UNCHANGED <<slot, waiting, registered, newest, told>>
      PROVE  InOrder'
  BY <1>0, <1>4 DEF InOrder, LineUp, SlotIsNewest, Introduced
<1>5. ASSUME NEW c \in Conn, Relay(c) \/ Closes(c) \/ Reads(c)
      PROVE  UNCHANGED <<slot, waiting, registered, newest, told>>
  <2>1. CASE Relay(c)
    BY <2>1 DEF Relay, serverVars, socketVars
  <2>2. CASE Closes(c)
    BY <2>2 DEF Closes, serverVars
  <2>3. CASE Reads(c)
    BY <1>0, <2>3, ReadsParts
  <2> QED
    BY <1>5, <2>1, <2>2, <2>3
<1>6. CASE Works
  BY <1>0, <1>4, <1>6, WorksParts
<1> QED
  BY <1>1, <1>2, <1>3, <1>4, <1>5, <1>6, StepKinds

LEMMA SlotsKeepUp == ~Overtaking => (Spec => [](SlotIsNewest /\ Introduced))
<1> SUFFICES ASSUME ~Overtaking PROVE Spec => [](SlotIsNewest /\ Introduced)
  OBVIOUS
<1>1. Init => InOrder
  <2> SUFFICES ASSUME Init PROVE InOrder
    OBVIOUS
  <2>1. TypeOK /\ Sockets
    BY TypesStart, SocketsStart
  <2>2. waiting = <<>> /\ registered = {}
    BY DEF Init
  <2> QED
    BY <2>1, <2>2 DEF InOrder, LineUp, SlotIsNewest, Introduced
<1>2. InOrder /\ Greeting /\ [Next]_vars => InOrder'
  BY InOrderKept
<1>3. InOrder => SlotIsNewest /\ Introduced
  BY DEF InOrder
<1> QED
  BY <1>1, <1>2, <1>3, SocketsAlways, PTL DEF Spec

\* When connections register in the order they were made, the newest of a role
\* holds the role's slot as long as it is there.
THEOREM NewestHoldsSlot == ~Overtaking => (Spec => []SlotIsNewest)
  BY SlotsKeepUp, PTL

\* When connections register in the order they were made, the newest host has
\* been told of the newest viewer as soon as both are there.
THEOREM NewestIsIntroduced == ~Overtaking => (Spec => []Introduced)
  BY SlotsKeepUp, PTL
==============================================================================
