------------------------- MODULE VideoPipelineProofs -------------------------
(* Proofs about VideoPipeline: its types, the count of frames, the channel of *)
(* one place, and what a viewer makes of packets whose numbers and times wrap.*)
EXTENDS VideoPipeline, SequenceTheorems, TLAPS

-----------------------------------------------------------------------------
\* Types of what a viewer has received, which VideoTypeOK leaves open.

Packets == [sequence : 0..SeqMod - 1, number : Nat, part : Nat, marker : BOOLEAN,
            key : BOOLEAN, at : Nat, parts : Nat, timestamp : Nat]

Receiver == [synced : BOOLEAN, next : 0..SeqMod - 1, parts : Seq(Packets),
             whole : Seq(Packets), follows : Nat, last : Nat, clean : BOOLEAN,
             run : Nat, missed : 0..MaxMissed]

-----------------------------------------------------------------------------
\* The inductive invariant.

\* What the loop knows in each of its states.
LoopState ==
    loop = "writing" => /\ unit.number = units /\ units > 0
                        /\ unit.next \in 1..unit.parts
                        /\ ~insideKey

\* While a frame is packed, the loop takes the one that waits, and no other.
PackedSoon == handler = "packing" => Taken + Len(slot) <= packed.turn + 1

\* How many packets the viewer has missed shows in the next number it expects, as
\* long as fewer are missed than there are numbers.
NumbersTell ==
    (bound /\ rx.synced) =>
        \/ sequence = rx.next + rx.missed
        \/ sequence = rx.next + rx.missed - SeqMod

Following == bound /\ rx.synced /\ rx.missed = 0

\* A viewer that follows has the packets of the frame that are written, and the
\* frame before.
InFrame ==
    Following =>
        IF loop = "writing"
        THEN /\ Len(rx.parts) = unit.next - 1
             /\ \A i \in 1..Len(rx.parts) :
                   /\ rx.parts[i].number = unit.number
                   /\ rx.parts[i].part = i
                   /\ rx.parts[i].parts = unit.parts
             /\ rx.last # 0 => units = rx.last + 1
        ELSE rx.parts = <<>> /\ (rx.last # 0 => units = rx.last)

\* The frames of a viewer that has had no key frame since it follows came after
\* the last one.
KeySoon ==
    /\ ~rx.clean => rx.run < Gop
    /\ (Following /\ ~rx.clean /\ ~insideKey) =>
        IF loop = "writing"
        THEN unit.key \/ rx.run + 1 < sinceKey
        ELSE rx.run = 0 \/ rx.run < sinceKey

ReceiverInv == rx \in Receiver /\ NumbersTell /\ InFrame /\ KeySoon /\ WholeFrames

LoopInv ==
    VideoTypeOK /\ LoopState /\ EveryFrameAccounted /\ PackedSoon /\ AtMostAFrameBehind

VideoInv == LoopInv /\ ReceiverInv

-----------------------------------------------------------------------------
\* A remainder is one.
LEMMA ModType ==
    ASSUME NEW n \in Nat, NEW m \in Nat \ {0}
    PROVE  n % m \in 0..m - 1
OBVIOUS

\* No other multiple lies between.
LEMMA SmallMultiple ==
    ASSUME NEW m \in Nat \ {0}, NEW k \in Int, -m < m * k, m * k < m
    PROVE  k = 0
<1>1. ASSUME k >= 1 PROVE FALSE
  <2>1. m * k >= m * 1
    BY <1>1
  <2> QED
    BY <2>1
<1>2. ASSUME k <= -1 PROVE FALSE
  <2>1. m * k <= m * (-1)
    BY <1>2
  <2> QED
    BY <2>1
<1> QED
  BY <1>1, <1>2

LEMMA QuotientRest ==
    ASSUME NEW n \in Int, NEW m \in Nat \ {0}
    PROVE  n \div m \in Int /\ n % m \in 0..m - 1 /\ n = m * (n \div m) + (n % m)
OBVIOUS

\* A remainder does not change when a multiple is added.
LEMMA SameRest ==
    ASSUME NEW m \in Nat \ {0}, NEW a \in Int, NEW b \in Int, NEW k \in Int, a = b + m * k
    PROVE  a % m = b % m
<1> DEFINE i == a \div m
           j == b \div m
           r == a % m
           s == b % m
<1>1. i \in Int /\ j \in Int /\ r \in 0..m - 1 /\ s \in 0..m - 1
      /\ a = m * i + r /\ b = m * j + s
  BY QuotientRest
<1> HIDE DEF i, j, r, s
<1>2. m * i \in Int /\ m * j \in Int /\ m * k \in Int
  BY <1>1
<1>3. m * ((j + k) - i) = (m * j + m * k) - m * i
  BY <1>1
<1>4. m * ((j + k) - i) = r - s
  BY <1>1, <1>2, <1>3
<1>5. (j + k) - i = 0
  <2>1. (j + k) - i \in Int /\ r - s > -m /\ r - s < m
    BY <1>1
  <2> QED
    BY <1>4, <2>1, SmallMultiple
<1>6. m * ((j + k) - i) = 0
  BY <1>5
<1> QED
  BY <1>1, <1>4, <1>6 DEF r, s

\* The difference of two remainders is that of the numbers, up to a remainder.
LEMMA RestsDiffer ==
    ASSUME NEW m \in Nat \ {0}, NEW x \in Int, NEW y \in Int
    PROVE  ((x % m) - (y % m)) % m = (x - y) % m
<1> DEFINE i == x \div m
           j == y \div m
           r == x % m
           s == y % m
<1>1. i \in Int /\ j \in Int /\ r \in 0..m - 1 /\ s \in 0..m - 1
      /\ x = m * i + r /\ y = m * j + s
  BY QuotientRest
<1> HIDE DEF i, j, r, s
<1>2. m * (j - i) = m * j - m * i /\ m * i \in Int /\ m * j \in Int
  BY <1>1
<1>3. r - s = (x - y) + m * (j - i) /\ r - s \in Int /\ x - y \in Int /\ j - i \in Int
  BY <1>1, <1>2
<1>4. (r - s) % m = (x - y) % m
  BY <1>3, SameRest
<1> QED
  BY <1>4 DEF r, s

\* The next number, without the remainder.
LEMMA Wrap ==
    ASSUME NEW n \in 0..SeqMod - 1
    PROVE  /\ WrappingAdd(n) \in 0..SeqMod - 1
           /\ WrappingAdd(n) = IF n = SeqMod - 1 THEN 0 ELSE n + 1
<1>1. SeqMod \in Nat /\ SeqMod >= 2
  BY VideoAssumption
<1>2. CASE n = SeqMod - 1
  <2>1. n + 1 = SeqMod
    BY <1>1, <1>2
  <2>2. SeqMod % SeqMod = 0
    BY <1>1
  <2> QED
    BY <1>1, <1>2, <2>1, <2>2 DEF WrappingAdd
<1>3. CASE n # SeqMod - 1
  <2>1. n + 1 \in 0..SeqMod - 1
    BY <1>1, <1>3
  <2>2. (n + 1) % SeqMod = n + 1
    BY <1>1, <2>1
  <2> QED
    BY <1>1, <1>3, <2>1, <2>2 DEF WrappingAdd
<1> QED
  BY <1>2, <1>3

\* A viewer that has received nothing.
LEMMA FreshType == Fresh \in Receiver
BY VideoAssumption DEF Fresh, Receiver

\* What a viewer knows after a packet that is not a frame's last, and after one that is.
LEMMA AddedFields ==
    ASSUME NEW b \in Receiver, NEW p \in Packets
    PROVE  /\ Added(b, p) \in Receiver
           /\ Added(b, p).synced /\ Added(b, p).next = WrappingAdd(p.sequence)
           /\ Added(b, p).missed = 0 /\ Added(b, p).parts = Append(b.parts, p)
           /\ Added(b, p).whole = b.whole /\ Added(b, p).follows = b.follows
           /\ Added(b, p).last = b.last /\ (Added(b, p).clean <=> b.clean)
           /\ Added(b, p).run = b.run
<1>1. WrappingAdd(p.sequence) \in 0..SeqMod - 1
  BY Wrap DEF Packets
<1>2. Append(b.parts, p) \in Seq(Packets)
  BY DEF Receiver
<1>3. Added(b, p) = [b EXCEPT !.synced = TRUE, !.next = WrappingAdd(p.sequence),
                              !.missed = 0, !.parts = Append(b.parts, p)]
  BY DEF Added, WrappingAdd
<1>4. 0 \in 0..MaxMissed
  BY VideoAssumption
<1> QED
  BY <1>1, <1>2, <1>3, <1>4 DEF Receiver

LEMMA CompletedFields ==
    ASSUME NEW b \in Receiver, NEW p \in Packets
    PROVE  /\ Completed(b, p) \in Receiver
           /\ Completed(b, p).synced /\ Completed(b, p).next = WrappingAdd(p.sequence)
           /\ Completed(b, p).missed = 0 /\ Completed(b, p).parts = <<>>
           /\ Completed(b, p).whole = Append(b.parts, p)
           /\ Completed(b, p).follows = b.last /\ Completed(b, p).last = p.number
           /\ (Completed(b, p).clean <=> b.clean \/ p.key) /\ Completed(b, p).run = b.run + 1
<1> DEFINE a == Added(b, p)
           w == Append(b.parts, p)
           c == b.clean \/ p.key
           r == b.run + 1
<1>1. a \in Receiver /\ a.synced /\ a.next = WrappingAdd(p.sequence)
      /\ a.missed = 0 /\ (a.clean <=> b.clean) /\ a.run = b.run
  BY AddedFields
<1>2. w \in Seq(Packets) /\ b.last \in Nat /\ p.number \in Nat
      /\ c \in BOOLEAN /\ r \in Nat /\ <<>> \in Seq(Packets)
  BY DEF Receiver, Packets
<1>3. Completed(b, p) = [a EXCEPT !.parts = <<>>, !.whole = w, !.follows = b.last,
                                  !.last = p.number, !.clean = @ \/ p.key, !.run = @ + 1]
  BY DEF Completed
<1>4. Completed(b, p) = [a EXCEPT !.parts = <<>>, !.whole = w, !.follows = b.last,
                                  !.last = p.number, !.clean = c, !.run = r]
  <2> HIDE DEF a
  <2> QED
    BY <1>1, <1>3
<1> HIDE DEF a, w, c, r
<1>5. /\ Completed(b, p) \in Receiver
      /\ Completed(b, p).synced = TRUE /\ Completed(b, p).next = WrappingAdd(p.sequence)
      /\ Completed(b, p).missed = 0 /\ Completed(b, p).parts = <<>>
      /\ Completed(b, p).whole = w /\ Completed(b, p).follows = b.last
      /\ Completed(b, p).last = p.number
      /\ Completed(b, p).clean = c /\ Completed(b, p).run = r
  BY <1>1, <1>2, <1>4 DEF Receiver
<1> QED
  BY <1>5 DEF w, c, r

\* What the loop writes is a packet.
LEMMA PacketType == ASSUME LoopInv PROVE Packet \in Packets
<1>1. rtp_timestamp(start, unit.at) \in Nat
  <2>1. (IF unit.at >= start THEN unit.at - start ELSE 0) \in Nat
    BY DEF LoopInv, VideoTypeOK, Unit
  <2>2. TimeMod \in Nat \ {0}
    BY VideoAssumption
  <2> HIDE DEF LoopInv
  <2> QED
    BY <2>1, <2>2, ModType DEF rtp_timestamp
<1>2. unit \in Unit /\ sequence \in 0..SeqMod - 1
  BY DEF LoopInv, VideoTypeOK
<1>3. unit.number \in Nat /\ unit.at \in Nat /\ unit.key \in BOOLEAN
      /\ unit.parts \in Nat /\ unit.next \in Nat
  BY <1>2, VideoAssumption DEF Unit
<1>4. (unit.next = unit.parts) \in BOOLEAN
  OBVIOUS
<1> QED
  BY <1>1, <1>2, <1>3, <1>4 DEF Packet, Packets

\* A viewer that follows sees no gap; one that missed a packet sees one.
LEMMA GapsShow ==
    ASSUME VideoInv, bound PROVE Contiguous(Packet) <=> Following
<1>1. Packet.sequence = sequence
  BY DEF Packet
<1>2. sequence \in 0..SeqMod - 1 /\ rx.next \in 0..SeqMod - 1 /\ rx.missed \in 0..MaxMissed
  BY DEF VideoInv, LoopInv, ReceiverInv, VideoTypeOK, Receiver
<1>3. NumbersTell
  BY DEF VideoInv, ReceiverInv
<1> QED
  BY <1>1, <1>2, <1>3, VideoAssumption DEF Contiguous, Following, NumbersTell

\* A receiver that has all of the frame up to the packet that is written.
UpTo(b) ==
    /\ b \in Receiver
    /\ Len(b.parts) = unit.next - 1
    /\ \A i \in 1..Len(b.parts) : /\ b.parts[i].number = unit.number
                                  /\ b.parts[i].part = i
                                  /\ b.parts[i].parts = unit.parts
    /\ b.last # 0 => units = b.last + 1
    /\ ~b.clean => b.run < Gop /\ (unit.key \/ b.run + 1 < sinceKey)
    /\ \A i \in DOMAIN b.whole : /\ b.whole[i].number = b.whole[1].number
                                 /\ b.whole[i].part = i
                                 /\ b.whole[i].parts = Len(b.whole)
    /\ (b.whole # <<>> /\ b.follows # 0) => b.whole[1].number = b.follows + 1

\* What the loop does when a packet is written.
PacketWritten ==
    /\ sequence' = WrappingAdd(sequence)
    /\ IF unit.next = unit.parts
       THEN loop' = "reporting" /\ unit' = NoUnit
       ELSE loop' = loop /\ unit' = [unit EXCEPT !.next = @ + 1]
    /\ UNCHANGED <<captureVars, start, taken, encoderVars, statsFrames, bound>>

\* The next packet is the one the viewer expects.
LEMMA NoneMissed ==
    ASSUME sequence' \in 0..SeqMod - 1, rx'.next = sequence', rx'.missed = 0
    PROVE  NumbersTell'
<1>1. \A n \in 0..SeqMod - 1 : n = n + 0
  BY VideoAssumption
<1>2. sequence' = rx'.next + rx'.missed
  BY <1>1, Zenon
<1> QED
  BY <1>2 DEF NumbersTell

\* A packet that continues what the receiver has.
LEMMA JoinedStep ==
    ASSUME VideoInv, loop = "writing", PacketWritten,
           NEW b, UpTo(b), NEW p, p = Packet, rx' = Joined(b, p)
    PROVE  ReceiverInv'
<1>1. /\ p \in Packets /\ p.sequence = sequence /\ p.number = unit.number
      /\ p.part = unit.next /\ p.parts = unit.parts /\ p.key = unit.key
      /\ p.marker = (unit.next = unit.parts)
  <2>1. p \in Packets
    BY PacketType DEF VideoInv
  <2> QED
    BY <2>1 DEF Packet
<1>2. sequence' = p.sequence + 1 \/ sequence' = p.sequence + 1 - SeqMod
  <2>1. sequence \in 0..SeqMod - 1
    BY DEF VideoInv, LoopInv, VideoTypeOK
  <2> QED
    BY <1>1, <2>1, Wrap, VideoAssumption DEF PacketWritten
<1>3. /\ unit \in Unit /\ unit.number = units /\ units > 0
      /\ unit.next \in 1..unit.parts /\ ~insideKey
      /\ units \in Nat /\ sinceKey \in 0..Gop /\ unit.parts \in Nat
  BY VideoAssumption DEF VideoInv, LoopInv, VideoTypeOK, LoopState, Unit
<1>4. b \in Receiver /\ p \in Packets
  BY <1>1 DEF UpTo
<1>5. sequence' = WrappingAdd(p.sequence) /\ units' = units /\ sinceKey' = sinceKey
      /\ insideKey' = insideKey /\ bound' = bound
  BY <1>1 DEF PacketWritten, encoderVars
<1>6. b.parts \in Seq(Packets) /\ b.run \in Nat /\ b.last \in Nat /\ b.clean \in BOOLEAN
      /\ Gop \in Nat
  BY <1>4, VideoAssumption DEF Receiver
<1>7. /\ Append(b.parts, p) \in Seq(Packets)
      /\ Len(Append(b.parts, p)) = unit.next
      /\ \A i \in 1..unit.next : /\ Append(b.parts, p)[i].number = unit.number
                                 /\ Append(b.parts, p)[i].part = i
                                 /\ Append(b.parts, p)[i].parts = unit.parts
  BY <1>1, <1>3, <1>6 DEF UpTo
<1>8. CASE unit.next = unit.parts
  <2>1. rx' = Completed(b, p)
    BY <1>1, <1>8 DEF Joined
  <2>2. /\ rx' \in Receiver /\ rx'.synced /\ rx'.next = sequence' /\ rx'.missed = 0
        /\ rx'.parts = <<>> /\ rx'.whole = Append(b.parts, p) /\ rx'.follows = b.last
        /\ rx'.last = unit.number /\ (rx'.clean <=> b.clean \/ unit.key)
        /\ rx'.run = b.run + 1
    <3>1. /\ rx' \in Receiver /\ rx'.synced /\ rx'.next = WrappingAdd(p.sequence)
          /\ rx'.missed = 0 /\ rx'.parts = <<>> /\ rx'.whole = Append(b.parts, p)
      BY <2>1, <1>4, CompletedFields
    <3>2. rx'.follows = b.last /\ rx'.last = p.number /\ rx'.run = b.run + 1
      BY <2>1, <1>4, CompletedFields
    <3>3. rx'.clean <=> b.clean \/ p.key
      BY <2>1, <1>4, CompletedFields
    <3>4. (rx'.clean <=> b.clean \/ unit.key)
      BY <3>3, <1>1
    <3> QED
      BY <3>1, <3>2, <3>4, <1>1, <1>5
  <2>3. loop' = "reporting"
    BY <1>8 DEF PacketWritten
  <2>4. NumbersTell'
    <3>1. sequence' \in 0..SeqMod - 1
      BY <1>1, <1>5, Wrap DEF Packets
    <3> QED
      BY <3>1, <2>2, NoneMissed
  <2>5. InFrame'
    <3>1. loop' # "writing" /\ rx'.parts = <<>> /\ units' = rx'.last
      BY <2>2, <2>3, <1>3, <1>5
    <3> QED
      BY <3>1 DEF InFrame
  <2>6. KeySoon'
    <3>1. ~rx'.clean => rx'.run < Gop /\ rx'.run < sinceKey'
      <4>1. ASSUME ~b.clean, ~unit.key
            PROVE  b.run + 1 < Gop /\ b.run + 1 < sinceKey
        BY <4>1, <1>3, <1>6 DEF UpTo
      <4> QED
        BY <4>1, <2>2, <1>5
    <3> QED
      BY <3>1, <2>3 DEF KeySoon
  <2>7. WholeFrames'
    <3>1. DOMAIN rx'.whole = 1..unit.next /\ Len(rx'.whole) = unit.parts
      BY <2>2, <1>7, <1>8
    <3>2. rx'.whole[1].number = unit.number
      BY <2>2, <1>7, <1>3
    <3>3. \A i \in DOMAIN rx'.whole : /\ rx'.whole[i].number = rx'.whole[1].number
                                      /\ rx'.whole[i].part = i
                                      /\ rx'.whole[i].parts = Len(rx'.whole)
      BY <2>2, <3>1, <3>2, <1>7
    <3>4. rx'.follows # 0 => rx'.whole[1].number = rx'.follows + 1
      BY <2>2, <3>2, <1>3 DEF UpTo
    <3> QED
      BY <3>3, <3>4 DEF WholeFrames
  <2> QED
    BY <2>2, <2>4, <2>5, <2>6, <2>7 DEF ReceiverInv
<1>9. CASE unit.next # unit.parts
  <2>1. rx' = Added(b, p)
    BY <1>1, <1>9 DEF Joined
  <2>2. /\ rx' \in Receiver /\ rx'.synced /\ rx'.next = sequence' /\ rx'.missed = 0
        /\ rx'.parts = Append(b.parts, p) /\ rx'.whole = b.whole
        /\ rx'.follows = b.follows /\ rx'.last = b.last /\ (rx'.clean <=> b.clean)
        /\ rx'.run = b.run
    <3>1. /\ rx' \in Receiver /\ rx'.synced /\ rx'.next = WrappingAdd(p.sequence)
          /\ rx'.missed = 0 /\ rx'.parts = Append(b.parts, p) /\ rx'.whole = b.whole
      BY <2>1, <1>4, AddedFields
    <3>2. /\ rx'.follows = b.follows /\ rx'.last = b.last /\ (rx'.clean <=> b.clean)
          /\ rx'.run = b.run
      BY <2>1, <1>4, AddedFields
    <3> QED
      BY <3>1, <3>2, <1>5
  <2>3. /\ loop' = "writing" /\ unit'.next = unit.next + 1 /\ unit'.number = unit.number
        /\ unit'.parts = unit.parts /\ unit'.key = unit.key
    BY <1>9, <1>3 DEF PacketWritten, Unit
  <2>4. NumbersTell'
    <3>1. sequence' \in 0..SeqMod - 1
      BY <1>1, <1>5, Wrap DEF Packets
    <3> QED
      BY <3>1, <2>2, NoneMissed
  <2>5. InFrame'
    BY <2>2, <2>3, <1>3, <1>5, <1>7 DEF InFrame, UpTo
  <2>6. KeySoon'
    BY <2>2, <2>3, <1>5 DEF KeySoon, UpTo
  <2>7. WholeFrames'
    <3>1. rx'.whole = b.whole /\ rx'.follows = b.follows
      BY <2>2
    <3> QED
      BY <3>1 DEF WholeFrames, UpTo
  <2> QED
    BY <2>2, <2>4, <2>5, <2>6, <2>7 DEF ReceiverInv
<1> QED
  BY <1>8, <1>9

\* A packet that arrives.
LEMMA ReceivedStep ==
    ASSUME VideoInv, loop = "writing", PacketWritten, bound, rx' = Received(Packet)
    PROVE  ReceiverInv'
<1>1. /\ rx \in Receiver /\ InFrame /\ KeySoon /\ WholeFrames
      /\ unit.number = units /\ units > 0 /\ unit.next \in 1..unit.parts /\ ~insideKey
      /\ unit \in Unit /\ sinceKey \in 0..Gop
  BY DEF VideoInv, ReceiverInv, LoopInv, LoopState, VideoTypeOK
<1>2. Contiguous(Packet) <=> Following
  BY GapsShow
<1>3. CASE Following
  <2>1. UpTo(rx)
    BY <1>1, <1>3 DEF UpTo, InFrame, KeySoon, WholeFrames
  <2>2. rx' = Joined(rx, Packet)
    BY <1>2, <1>3 DEF Received
  <2> QED
    BY <2>1, <2>2, JoinedStep
<1>4. CASE ~Following /\ Begins(Packet)
  <2>1. unit.key /\ unit.next = 1
    BY <1>4 DEF Begins, Packet
  <2>2. Fresh.parts = <<>> /\ Fresh.whole = <<>> /\ Fresh.last = 0 /\ Fresh.run = 0
        /\ Fresh.follows = 0
    BY DEF Fresh
  <2>3. UpTo(Fresh)
    BY <2>1, <2>2, FreshType, VideoAssumption DEF UpTo
  <2>4. rx' = Joined(Fresh, Packet)
    BY <1>2, <1>4 DEF Received
  <2> QED
    BY <2>3, <2>4, JoinedStep
<1>5. CASE ~Following /\ ~Begins(Packet)
  <2>1. rx' = [Fresh EXCEPT !.synced = Packet.marker, !.next = WrappingAdd(Packet.sequence)]
    BY <1>2, <1>5 DEF Received, WrappingAdd
  <2>2. Packet.sequence = sequence /\ Packet.marker \in BOOLEAN
        /\ (Packet.marker <=> unit.next = unit.parts)
    BY DEF Packet
  <2>3. sequence \in 0..SeqMod - 1
    BY DEF VideoInv, LoopInv, VideoTypeOK
  <2>4. sequence' = WrappingAdd(sequence) /\ sequence' \in 0..SeqMod - 1
    BY <2>3, Wrap DEF PacketWritten
  <2>5. rx' = [Fresh EXCEPT !.synced = Packet.marker, !.next = sequence']
    BY <2>1, <2>2, <2>4
  <2>6. rx' \in Receiver
    BY <2>5, <2>2, <2>4, FreshType DEF Receiver
  <2>7. /\ rx'.next = sequence' /\ rx'.missed = 0 /\ rx'.parts = <<>>
        /\ rx'.whole = <<>> /\ rx'.last = 0 /\ rx'.run = 0
        /\ (rx'.synced <=> unit.next = unit.parts)
    BY <2>2, <2>5 DEF Fresh
  <2>8. sequence' = rx'.next + rx'.missed
    BY <2>4, <2>7
  <2>9. NumbersTell'
    BY <2>8 DEF NumbersTell
  <2>10. Following' => loop' # "writing"
    BY <2>7 DEF Following, PacketWritten
  <2>11. InFrame'
    BY <2>7, <2>10 DEF InFrame
  <2>12. KeySoon'
    BY <2>7, <2>10, VideoAssumption DEF KeySoon
  <2>13. WholeFrames'
    BY <2>7 DEF WholeFrames
  <2> QED
    BY <2>6, <2>9, <2>11, <2>12, <2>13 DEF ReceiverInv
<1> QED
  BY <1>3, <1>4, <1>5

\* A packet that is lost or whose write fails.
LEMMA MissedStep ==
    ASSUME VideoInv, Missed, sequence' = WrappingAdd(sequence),
           UNCHANGED bound
    PROVE  ReceiverInv'
<1>1. /\ rx \in Receiver /\ NumbersTell /\ KeySoon /\ WholeFrames
      /\ sequence \in 0..SeqMod - 1
  BY DEF VideoInv, LoopInv, VideoTypeOK, ReceiverInv
<1>2. rx.missed \in 0..MaxMissed - 1
  BY <1>1, VideoAssumption DEF Missed, Receiver
<1>3. /\ rx' \in Receiver /\ rx'.missed = rx.missed + 1 /\ rx'.next = rx.next
      /\ (rx'.synced <=> rx.synced) /\ rx'.whole = rx.whole /\ rx'.follows = rx.follows
      /\ (rx'.clean <=> rx.clean) /\ rx'.run = rx.run
  <2> DEFINE m == rx.missed + 1
  <2>1. m \in 0..MaxMissed
    BY <1>2, VideoAssumption
  <2>2. rx' = [rx EXCEPT !.missed = m]
    BY DEF Missed
  <2> HIDE DEF m
  <2>3. /\ rx' \in Receiver /\ rx'.missed = m /\ rx'.next = rx.next
        /\ (rx'.synced <=> rx.synced) /\ rx'.whole = rx.whole /\ rx'.follows = rx.follows
        /\ (rx'.clean <=> rx.clean) /\ rx'.run = rx.run
    BY <1>1, <2>1, <2>2 DEF Receiver
  <2> QED
    BY <2>3 DEF m
<1>4. ~Following'
  BY <1>2, <1>3, VideoAssumption DEF Following
<1>5. NumbersTell'
  <2>1. sequence' = IF sequence = SeqMod - 1 THEN 0 ELSE sequence + 1
    BY <1>1, Wrap
  <2>2. rx.next \in 0..SeqMod - 1
    BY <1>1 DEF Receiver
  <2> QED
    BY <1>1, <1>2, <1>3, <2>1, <2>2, VideoAssumption DEF NumbersTell
<1>6. InFrame' /\ KeySoon'
  BY <1>1, <1>3, <1>4 DEF InFrame, KeySoon
<1>7. WholeFrames'
  BY <1>1, <1>3 DEF WholeFrames
<1> QED
  BY <1>3, <1>5, <1>6, <1>7 DEF ReceiverInv

\* What the viewer has received does not change, and what it is compared with
\* does not either.
LEMMA ViewerUntouched ==
    ASSUME ReceiverInv, UNCHANGED <<rx, bound, sequence, units, sinceKey, insideKey>>,
           (loop' = loop /\ unit' = unit) \/ (loop # "writing" /\ loop' # "writing")
    PROVE  ReceiverInv'
BY DEF ReceiverInv, NumbersTell, InFrame, KeySoon, WholeFrames, Following

\* Before the first frame nothing is captured, numbered or received.
LEMMA InitVideoInv == Init => VideoInv
<1> SUFFICES ASSUME Init PROVE VideoInv
  OBVIOUS
<1>1. VideoTypeOK
  <2>1. NoFrame \in Frame /\ NoUnit \in Unit /\ <<>> \in Seq(Frame)
    BY VideoAssumption DEF NoFrame, Frame, NoUnit, Unit
  <2>2. 0 \in 0..Gop /\ 0 \in 0..MaxInside /\ 0 \in 0..SeqMod - 1 /\ 0 \in 0..MaxCaptures
    BY VideoAssumption
  <2>3. slot \in Seq(Frame) /\ Len(slot) <= 1 /\ taken \in Frame /\ unit \in Unit
        /\ packed \in Frame
    <3>1. slot = <<>> /\ taken = NoFrame /\ unit = NoUnit /\ packed = NoFrame
      BY DEF Init
    <3> QED
      BY <3>1, <2>1
  <2>4. /\ captures \in 0..MaxCaptures /\ sinceKey \in 0..Gop /\ inside \in 0..MaxInside
        /\ sequence \in 0..SeqMod - 1
    BY <2>2 DEF Init
  <2>5. /\ clock \in Nat /\ dropped \in Nat /\ reported \in Nat
        /\ start \in Nat /\ frameNum \in Nat /\ units \in Nat
    BY DEF Init
  <2>6. /\ loop \in {"starting", "idle", "encoding", "writing", "reporting", "ended"}
        /\ handler \in {"waiting", "packing", "dropping"}
        /\ insideKey \in BOOLEAN /\ statsFrames \in BOOLEAN /\ bound \in BOOLEAN
    BY DEF Init
  <2> QED
    BY <2>3, <2>4, <2>5, <2>6 DEF VideoTypeOK
<1>2. LoopState /\ EveryFrameAccounted /\ PackedSoon /\ AtMostAFrameBehind
  BY DEF Init, LoopState, EveryFrameAccounted, PackedSoon, AtMostAFrameBehind, Taken
<1>3. rx = Fresh /\ ~bound
  BY DEF Init
<1>4. ReceiverInv
  BY <1>3, FreshType, VideoAssumption
     DEF ReceiverInv, NumbersTell, InFrame, KeySoon, WholeFrames, Following, Fresh
<1> QED
  BY <1>1, <1>2, <1>4 DEF VideoInv, LoopInv

\* What is in a channel of one place.
LEMMA OneElement ==
    ASSUME NEW S, NEW s \in Seq(S), s # <<>>, Len(s) <= 1
    PROVE  /\ Len(s) = 1 /\ Head(s) \in S /\ Tail(s) = <<>>
           /\ <<>> \in Seq(S) /\ Len(<<>>) = 0
<1>1. Len(s) = 1
  <2>1. Len(s) \in Nat \ {0}
    BY EmptySeq, Zenon
  <2> QED
    BY <2>1
<1>2. s[1] \in S
  BY <1>1, ElementOfSeq
<1>3. Head(s) = s[1] /\ Len(Tail(s)) = 0 /\ Tail(s) \in Seq(S)
  BY <1>1
<1>4. Tail(s) = <<>>
  BY <1>3, EmptySeq
<1> QED
  BY <1>1, <1>2, <1>3, <1>4, EmptySeq

\* What the count of the frames and their order rest on does not change.
LEMMA FramesUntouched ==
    ASSUME EveryFrameAccounted, PackedSoon, AtMostAFrameBehind,
           UNCHANGED <<captures, handler, packed, slot, dropped, reported, frameNum, taken>>,
           loop' # "encoding", loop # "encoding", loop # "ended"
    PROVE  EveryFrameAccounted' /\ PackedSoon' /\ AtMostAFrameBehind'
BY DEF EveryFrameAccounted, PackedSoon, AtMostAFrameBehind, Taken

\* Every step of the loop, the capturing thread and the viewer keeps the count of
\* the frames and the types.
LEMMA LoopInvStep == LoopInv /\ [Next]_vars => LoopInv'
<1> SUFFICES ASSUME LoopInv, [Next]_vars PROVE LoopInv'
  OBVIOUS
<1> USE DEF LoopInv, captureVars, handlerVars, encoderVars, viewerVars
<1>0. /\ Gop \in Nat \ {0} /\ SeqMod \in Nat /\ MaxInside \in Nat
      /\ MaxParts \in Nat \ {0} /\ MaxCaptures \in Nat
  BY VideoAssumption
<1>a. frameNum \in Nat /\ Taken \in Nat /\ Len(slot) \in Nat /\ captures \in Nat
      /\ dropped \in Nat /\ reported \in Nat /\ packed.turn \in Nat
  BY DEF VideoTypeOK, Taken, Frame
<1>1. CASE UNCHANGED vars
  BY <1>1 DEF vars, VideoTypeOK, LoopState, EveryFrameAccounted, PackedSoon,
              AtMostAFrameBehind, Taken
<1>2. CASE SenderMade
  <2>1. VideoTypeOK' /\ LoopState'
    BY <1>2, <1>0 DEF SenderMade, VideoTypeOK, LoopState
  <2>2. EveryFrameAccounted' /\ PackedSoon' /\ AtMostAFrameBehind'
    BY <1>2, FramesUntouched DEF SenderMade
  <2> QED
    BY <2>1, <2>2
<1>3. CASE TakeFrame
  <2>0. /\ Len(slot) = 1 /\ Head(slot) \in Frame /\ slot' = <<>>
        /\ <<>> \in Seq(Frame) /\ Len(<<>>) = 0 /\ Head(slot) = slot[1]
    <3>1. slot \in Seq(Frame) /\ slot # <<>> /\ Len(slot) <= 1 /\ slot' = Tail(slot)
      BY <1>3 DEF TakeFrame, VideoTypeOK
    <3> QED
      BY <3>1, OneElement
  <2>1. VideoTypeOK' /\ LoopState'
    <3>1. slot' \in Seq(Frame) /\ Len(slot') <= 1
      BY <2>0
    <3> QED
      BY <1>3, <2>0, <3>1, <1>0 DEF TakeFrame, VideoTypeOK, LoopState
  <2>2. /\ UNCHANGED <<captures, handler, packed, frameNum, dropped, reported>>
        /\ loop = "idle" /\ loop' = "encoding" /\ taken' = slot[1]
        /\ Len(slot') = 0 /\ DOMAIN slot' = {}
    BY <1>3, <2>0 DEF TakeFrame
  <2>3. Taken = frameNum /\ Taken' = frameNum + 1
    BY <2>2, <1>a DEF Taken
  <2>4. EveryFrameAccounted'
    BY <1>a, <2>0, <2>2, <2>3 DEF EveryFrameAccounted
  <2>5. PackedSoon'
    BY <1>a, <2>0, <2>2, <2>3 DEF PackedSoon
  <2>6. AtMostAFrameBehind'
    <3>1. slot[1].turn \in Nat /\ Taken - slot[1].turn <= 1
      BY <2>0 DEF AtMostAFrameBehind, Frame
    <3>2. (Taken' - 1) - taken'.turn <= 1
      BY <1>a, <2>2, <2>3, <3>1
    <3> QED
      BY <2>2, <3>2 DEF AtMostAFrameBehind
  <2> QED
    BY <2>1, <2>4, <2>5, <2>6
<1>4. CASE EncodeFails
  <2>1. VideoTypeOK' /\ LoopState'
    BY <1>4, <1>0 DEF EncodeFails, VideoTypeOK, LoopState
  <2>2. /\ UNCHANGED <<handler, packed, slot, taken, frameNum>>
        /\ loop = "encoding" /\ loop' = "ended"
    BY <1>4 DEF EncodeFails
  <2>3. Taken = frameNum + 1 /\ Taken' = frameNum
    BY <2>2, <1>a DEF Taken
  <2>4. EveryFrameAccounted'
    BY <2>2 DEF EveryFrameAccounted
  <2>5. PackedSoon'
    BY <1>a, <2>2, <2>3 DEF PackedSoon
  <2>6. AtMostAFrameBehind'
    <3>1. \A i \in DOMAIN slot : slot[i].turn \in Nat
      <4>1. slot \in Seq(Frame)
        BY DEF VideoTypeOK
      <4>2. \A i \in 1..Len(slot) : slot[i] \in Frame
        BY <4>1, ElementOfSeq
      <4> QED
        BY <4>1, <4>2 DEF Frame
    <3> QED
      BY <1>a, <2>2, <2>3, <3>1 DEF AtMostAFrameBehind
  <2> QED
    BY <2>1, <2>4, <2>5, <2>6
<1>5. CASE WritePacket \/ WriteFails
  <2>1. /\ sequence' \in 0..SeqMod - 1
        /\ unit' \in Unit
        /\ loop' = "writing" => /\ loop = "writing" /\ unit'.next = unit.next + 1
                               /\ unit.next # unit.parts
                               /\ unit'.parts = unit.parts /\ unit'.number = unit.number
    <3>1. sequence' \in 0..SeqMod - 1
      BY <1>5, Wrap DEF WritePacket, WriteFails, NextSequence, VideoTypeOK
    <3>2. NoUnit \in Unit
      BY <1>0 DEF NoUnit, Unit
    <3>3. unit \in Unit
      BY DEF VideoTypeOK
    <3>4. CASE unit' = NoUnit /\ loop' # "writing"
      BY <3>1, <3>2, <3>4
    <3>5. CASE unit' = [unit EXCEPT !.next = @ + 1] /\ loop' = loop /\ unit.next # unit.parts
      <4>1. unit' \in Unit /\ unit'.next = unit.next + 1 /\ unit'.parts = unit.parts
            /\ unit'.number = unit.number
        BY <3>3, <3>5 DEF Unit
      <4> QED
        BY <4>1, <3>1, <3>5
    <3> QED
      BY <1>5, <3>4, <3>5 DEF WritePacket, WriteFails
  <2>2. loop = "writing" /\ loop' \in {"writing", "reporting"}
    BY <1>5 DEF WritePacket, WriteFails
  <2>3. VideoTypeOK'
    <3>1. UNCHANGED <<captureVars, start, taken, encoderVars, statsFrames, bound>>
      BY <1>5 DEF WritePacket, WriteFails
    <3> QED
      BY <2>1, <2>2, <3>1 DEF VideoTypeOK
  <2>4. LoopState'
    <3>1. units' = units /\ insideKey' = insideKey
      BY <1>5 DEF WritePacket, WriteFails
    <3>2. unit.next \in Nat /\ unit.parts \in Nat
      BY <1>0 DEF VideoTypeOK, Unit
    <3> QED
      BY <2>1, <3>1, <3>2 DEF LoopState
  <2>5. EveryFrameAccounted' /\ PackedSoon' /\ AtMostAFrameBehind'
    BY <1>5, <2>2, FramesUntouched DEF WritePacket, WriteFails
  <2> QED
    BY <2>3, <2>4, <2>5
<1>6. ASSUME NEW key \in BOOLEAN, NEW parts \in 1..MaxParts, Encode(key, parts) PROVE LoopInv'
  <2>0. [number |-> units + 1, at |-> taken.at, key |-> insideKey \/ key,
         parts |-> parts, next |-> 1] \in Unit
    BY <1>6, <1>0 DEF VideoTypeOK, Unit, Frame
  <2>1. VideoTypeOK'
    <3>1. sinceKey' \in 0..Gop /\ frameNum' \in Nat
      BY <1>6, <1>0 DEF Encode, KeyDue, VideoTypeOK
    <3>2. inside' \in 0..MaxInside /\ units' \in Nat
      BY <1>6, <1>0 DEF Encode, VideoTypeOK
    <3>3. insideKey' \in BOOLEAN
      BY <1>6 DEF Encode
    <3>4. unit' \in Unit /\ statsFrames' \in BOOLEAN
          /\ loop' \in {"starting", "idle", "encoding", "writing", "reporting", "ended"}
      BY <1>6, <2>0 DEF Encode, VideoTypeOK
    <3>5. UNCHANGED <<clock, captures, handler, packed, slot, dropped, reported, start,
                      taken, sequence, bound>>
      BY <1>6 DEF Encode
    <3> QED
      BY <3>1, <3>2, <3>3, <3>4, <3>5 DEF VideoTypeOK
  <2>2. LoopState'
    BY <1>6, <2>0, <1>0 DEF Encode, VideoTypeOK, LoopState, Unit
  <2>3. /\ UNCHANGED <<captures, handler, packed, slot, dropped, reported, taken>>
        /\ frameNum' = frameNum + 1
        /\ loop = "encoding" /\ loop' \in {"reporting", "writing"}
    BY <1>6 DEF Encode
  <2>4. Taken' = Taken
    BY <2>3, <1>a DEF Taken
  <2> QED
    BY <2>1, <2>2, <2>3, <2>4 DEF EveryFrameAccounted, PackedSoon, AtMostAFrameBehind
<1>7. ASSUME NEW due \in BOOLEAN, Report(due) PROVE LoopInv'
  <2>1. dropped' \in Nat /\ reported' \in Nat /\ dropped' + reported' = dropped + reported
    BY <1>7, <1>a DEF Report, CountSwapped
  <2>2. VideoTypeOK' /\ LoopState'
    BY <1>7, <2>1 DEF Report, VideoTypeOK, LoopState
  <2>3. /\ UNCHANGED <<captures, handler, packed, slot, frameNum, taken>>
        /\ loop = "reporting" /\ loop' = "idle"
    BY <1>7 DEF Report
  <2>4. Taken' = Taken
    BY <2>3 DEF Taken
  <2>5. EveryFrameAccounted'
    <3>1. PICK rest \in Nat : rest = Taken + Len(slot) + (IF handler = "waiting" THEN 0 ELSE 1)
      BY <1>a
    <3>2. captures = rest + dropped + reported
      BY <2>3, <3>1 DEF EveryFrameAccounted
    <3>3. rest + dropped + reported = rest + dropped' + reported'
      <4>1. \A a, b \in Nat : rest + a + b = rest + (a + b)
        OBVIOUS
      <4>2. rest + dropped + reported = rest + (dropped + reported)
        BY <1>a, <4>1
      <4>3. rest + dropped' + reported' = rest + (dropped' + reported')
        BY <2>1, <4>1
      <4> QED
        BY <2>1, <4>2, <4>3
    <3>4. rest = Taken' + Len(slot') + (IF handler' = "waiting" THEN 0 ELSE 1)
      BY <2>3, <2>4, <3>1
    <3>5. captures' = rest + dropped' + reported'
      BY <2>3, <3>2, <3>3
    <3> QED
      BY <3>4, <3>5 DEF EveryFrameAccounted
  <2>6. PackedSoon' /\ AtMostAFrameBehind'
    BY <2>3, <2>4 DEF PackedSoon, AtMostAFrameBehind
  <2> QED
    BY <2>2, <2>5, <2>6
<1>8. CASE Viewer
  <2>1. VideoTypeOK' /\ LoopState'
    BY <1>8, <1>0 DEF Viewer, Joins, Leaves, VideoTypeOK, LoopState
  <2>2. EveryFrameAccounted' /\ PackedSoon' /\ AtMostAFrameBehind'
    BY <1>8 DEF Viewer, EveryFrameAccounted, PackedSoon, AtMostAFrameBehind, Taken
  <2> QED
    BY <2>1, <2>2
<1>9. ASSUME NEW gap \in Gaps, Capture(gap) PROVE LoopInv'
  <2>1. gap \in Nat
    BY <1>9, VideoAssumption
  <2>2. clock' \in Nat /\ packed' \in Frame
    BY <1>9, <2>1, <1>a DEF Capture, VideoTypeOK, Frame
  <2>3. VideoTypeOK' /\ LoopState'
    BY <1>9, <2>2, <1>0 DEF Capture, VideoTypeOK, LoopState
  <2>4. /\ UNCHANGED <<slot, dropped, reported, loop, frameNum, taken>>
        /\ captures' = captures + 1 /\ handler = "waiting" /\ handler' = "packing"
        /\ packed'.turn = Taken
    BY <1>9 DEF Capture
  <2>5. Taken' = Taken
    BY <2>4 DEF Taken
  <2>6. EveryFrameAccounted'
    BY <1>a, <2>4, <2>5 DEF EveryFrameAccounted
  <2>7. PackedSoon'
    BY <1>a, <2>4, <2>5 DEF PackedSoon, VideoTypeOK
  <2>8. AtMostAFrameBehind'
    BY <2>4, <2>5 DEF AtMostAFrameBehind
  <2> QED
    BY <2>3, <2>6, <2>7, <2>8
<1>10. CASE Offer
  <2>1. /\ UNCHANGED <<clock, captures, dropped, reported, loop, frameNum, taken>>
        /\ handler = "packing" /\ handler' \in {"waiting", "dropping"}
    BY <1>10 DEF Offer
  <2>2. NoFrame \in Frame /\ packed \in Frame /\ slot \in Seq(Frame)
    BY DEF NoFrame, Frame, VideoTypeOK
  <2>3. Taken' = Taken
    BY <2>1 DEF Taken
  <2>4. CASE Room /\ slot' = Append(slot, packed) /\ handler' = "waiting"
    <3>1. slot = <<>> /\ Len(slot) = 0
      BY <2>2, <2>4, <1>a, EmptySeq DEF Room
    <3>2. slot' = <<packed>> /\ Len(slot') = 1 /\ slot' \in Seq(Frame)
      BY <2>2, <2>4, <3>1
    <3>3. VideoTypeOK' /\ LoopState'
      BY <1>10, <2>1, <2>2, <3>2 DEF Offer, VideoTypeOK, LoopState
    <3>4. EveryFrameAccounted' /\ PackedSoon'
      BY <1>a, <2>1, <2>3, <2>4, <3>1, <3>2 DEF EveryFrameAccounted, PackedSoon
    <3>5. Taken' - packed.turn <= 1
      BY <1>a, <2>1, <2>3, <3>1 DEF PackedSoon
    <3>6. \A i \in DOMAIN slot' : slot'[i] = packed
      BY <3>2
    <3>7. AtMostAFrameBehind'
      BY <2>1, <2>3, <3>5, <3>6 DEF AtMostAFrameBehind
    <3> QED
      BY <3>3, <3>4, <3>7
  <2>5. CASE slot' = slot /\ handler' = "dropping"
    <3>1. VideoTypeOK' /\ LoopState'
      BY <1>10, <2>1, <2>2, <2>5 DEF Offer, VideoTypeOK, LoopState
    <3>2. EveryFrameAccounted' /\ PackedSoon' /\ AtMostAFrameBehind'
      BY <2>1, <2>3, <2>5 DEF EveryFrameAccounted, PackedSoon, AtMostAFrameBehind
    <3> QED
      BY <3>1, <3>2
  <2> QED
    BY <1>10, <2>4, <2>5 DEF Offer
<1>11. CASE CountDropped
  <2>1. /\ UNCHANGED <<captures, packed, slot, reported, loop, frameNum, taken>>
        /\ handler = "dropping" /\ handler' = "waiting" /\ dropped' = dropped + 1
    BY <1>11 DEF CountDropped
  <2>2. Taken' = Taken
    BY <2>1 DEF Taken
  <2>3. VideoTypeOK' /\ LoopState'
    BY <1>11 DEF CountDropped, VideoTypeOK, LoopState
  <2>4. EveryFrameAccounted'
    BY <1>a, <2>1, <2>2 DEF EveryFrameAccounted
  <2>5. PackedSoon' /\ AtMostAFrameBehind'
    BY <2>1, <2>2 DEF PackedSoon, AtMostAFrameBehind
  <2> QED
    BY <2>3, <2>4, <2>5
<1> QED
  BY <1>1, <1>2, <1>3, <1>4, <1>5, <1>6, <1>7, <1>8, <1>9, <1>10, <1>11
     DEF Next, Loop, Callback

\* Every step keeps the whole invariant.
LEMMA VideoInvStep == VideoInv /\ [Next]_vars => VideoInv'
<1> SUFFICES ASSUME VideoInv, [Next]_vars PROVE ReceiverInv'
  BY LoopInvStep DEF VideoInv
<1>0. ReceiverInv /\ LoopInv
  BY DEF VideoInv
<1> USE DEF captureVars, handlerVars, encoderVars, viewerVars
<1>1. CASE UNCHANGED vars
  <2>1. UNCHANGED <<rx, bound, sequence, units, sinceKey, insideKey>>
        /\ loop' = loop /\ unit' = unit
    BY <1>1 DEF vars
  <2> QED
    BY <1>0, <2>1, ViewerUntouched
<1>2. CASE SenderMade
  BY <1>0, <1>2, ViewerUntouched DEF SenderMade
<1>3. CASE TakeFrame
  BY <1>0, <1>3, ViewerUntouched DEF TakeFrame
<1>4. CASE EncodeFails
  BY <1>0, <1>4, ViewerUntouched DEF EncodeFails
<1>5. CASE WritePacket
  <2>1. PacketWritten /\ loop = "writing" /\ bound' = bound /\ sequence' = WrappingAdd(sequence)
    BY <1>5 DEF WritePacket, PacketWritten, NextSequence
  <2>2. CASE ~bound /\ UNCHANGED rx
    BY <1>0, <2>1, <2>2 DEF ReceiverInv, NumbersTell, InFrame, KeySoon, WholeFrames,
                            Following, PacketWritten
  <2>3. CASE bound /\ rx' = Received(Packet)
    BY <2>1, <2>3, ReceivedStep
  <2>4. CASE bound /\ Missed
    BY <2>1, <2>4, MissedStep
  <2> QED
    BY <1>5, <2>2, <2>3, <2>4 DEF WritePacket
<1>6. CASE WriteFails
  BY <1>6, MissedStep DEF WriteFails, NextSequence
<1>7. ASSUME NEW key \in BOOLEAN, NEW parts \in 1..MaxParts, Encode(key, parts)
      PROVE  ReceiverInv'
  <2>1. UNCHANGED <<rx, bound, sequence>> /\ loop = "encoding" /\ frameNum' = frameNum + 1
    BY <1>7 DEF Encode
  <2>2. rx \in Receiver /\ NumbersTell /\ InFrame /\ KeySoon /\ WholeFrames
        /\ sinceKey \in 0..Gop /\ units \in Nat /\ Gop \in Nat
    BY <1>0, VideoAssumption DEF ReceiverInv, LoopInv, VideoTypeOK
  <2>3. NumbersTell' /\ WholeFrames'
    BY <2>1, <2>2 DEF NumbersTell, WholeFrames
  <2>4. ~key => sinceKey > 0 /\ sinceKey' = sinceKey + 1
    BY <1>7, <2>2 DEF Encode, KeyDue
  <2>5. CASE loop' = "reporting" /\ units' = units /\ (insideKey' <=> insideKey \/ key)
    <3>1. InFrame'
      BY <2>1, <2>2, <2>5 DEF InFrame, Following
    <3>2. rx.run \in Nat
      BY <2>2 DEF Receiver
    <3>3. KeySoon'
      BY <2>1, <2>2, <2>4, <2>5, <3>2 DEF KeySoon, Following
    <3> QED
      BY <2>1, <2>2, <2>3, <3>1, <3>3 DEF ReceiverInv
  <2>6. CASE /\ loop' = "writing" /\ units' = units + 1 /\ ~insideKey'
             /\ unit' = [number |-> units + 1, at |-> taken.at, key |-> insideKey \/ key,
                         parts |-> parts, next |-> 1]
    <3>1. unit'.next = 1 /\ (unit'.key <=> insideKey \/ key)
      BY <2>6
    <3>2. rx.run \in Nat /\ rx.last \in Nat
      BY <2>2 DEF Receiver
    <3>3. InFrame'
      <4> SUFFICES ASSUME Following' PROVE InFrame'
        BY DEF InFrame
      <4>1. rx.parts = <<>> /\ (rx.last # 0 => units = rx.last)
        BY <2>1, <2>2 DEF InFrame, Following
      <4>2. rx'.parts = <<>> /\ Len(<<>>) = 0 /\ 1..0 = {}
        BY <2>1, <4>1
      <4>3. Len(rx'.parts) = unit'.next - 1
        BY <3>1, <4>2
      <4>4. 1..Len(rx'.parts) = {}
        BY <4>2
      <4>5. rx'.last # 0 => units' = rx'.last + 1
        BY <2>1, <2>6, <4>1, <3>2
      <4> QED
        BY <2>6, <4>3, <4>4, <4>5 DEF InFrame
    <3>4. KeySoon'
      <4>1. ~rx'.clean => rx'.run < Gop
        BY <2>1, <2>2 DEF KeySoon
      <4>2. ASSUME Following', ~rx'.clean, ~unit'.key PROVE rx'.run + 1 < sinceKey'
        <5>1. Following /\ ~rx.clean /\ ~insideKey /\ ~key
          BY <2>1, <3>1, <4>2 DEF Following
        <5>2. rx.run = 0 \/ rx.run < sinceKey
          BY <2>1, <2>2, <5>1 DEF KeySoon
        <5>3. sinceKey > 0 /\ sinceKey' = sinceKey + 1 /\ rx' = rx
          BY <2>1, <2>4, <5>1
        <5> QED
          BY <2>2, <3>2, <5>2, <5>3
      <4> QED
        BY <2>6, <4>1, <4>2 DEF KeySoon
    <3> QED
      BY <2>1, <2>2, <2>3, <3>3, <3>4 DEF ReceiverInv
  <2> QED
    BY <1>7, <2>5, <2>6 DEF Encode
<1>8. ASSUME NEW due \in BOOLEAN, Report(due) PROVE ReceiverInv'
  BY <1>0, <1>8, ViewerUntouched DEF Report
<1>9. CASE Viewer
  <2>1. rx' = Fresh
    BY <1>9 DEF Viewer, Joins, Leaves
  <2>2. ~rx'.synced /\ rx'.whole = <<>> /\ rx'.run = 0
    BY <2>1 DEF Fresh
  <2>3. ReceiverInv'
    BY <2>1, <2>2, FreshType, VideoAssumption
       DEF ReceiverInv, NumbersTell, InFrame, KeySoon, WholeFrames, Following
  <2> QED
    BY <2>3
<1>10. CASE Callback
  <2>1. UNCHANGED <<rx, bound, sequence, units, sinceKey, insideKey>>
        /\ loop' = loop /\ unit' = unit
    BY <1>10 DEF Callback, Capture, Offer, CountDropped
  <2> QED
    BY <1>0, <2>1, ViewerUntouched
<1> QED
  BY <1>1, <1>2, <1>3, <1>4, <1>5, <1>6, <1>7, <1>8, <1>9, <1>10 DEF Next, Loop

-----------------------------------------------------------------------------
\* Whatever order frames are captured, encoded, written, lost and joined in, the
\* loop and the viewer keep the invariant (main.rs, encoder.rs, rtp_video.rs).
THEOREM VideoInvariance == Spec => []VideoInv
<1>1. Init => VideoInv
  BY InitVideoInv
<1>2. VideoInv /\ [Next]_vars => VideoInv'
  BY VideoInvStep
<1> QED
  BY <1>1, <1>2, PTL DEF Spec

\* The channel holds a frame at most, packets are numbered with 16 bits, the frames
\* since the last key frame never exceed what set_gop asks for.
THEOREM VideoTypeCorrect == Spec => []VideoTypeOK
<1>1. VideoInv => VideoTypeOK
  BY DEF VideoInv, LoopInv
<1> QED
  BY <1>1, VideoInvariance, PTL

\* Captured frames are all encoded, waiting, in the hands of one of the threads or
\* counted as dropped, also between a refused try_send and its count and while the
\* count is taken by a report (WebRtcCaptureHandler and run_webrtc's loop).
THEOREM EveryFrameAccountedHolds == Spec => []EveryFrameAccounted
<1>1. VideoInv => EveryFrameAccounted
  BY DEF VideoInv, LoopInv
<1> QED
  BY <1>1, VideoInvariance, PTL

\* From the capture of a frame to its own turn the loop takes at most one other frame,
\* wherever the loop's thread comes in between taking the time and try_send
\* (did_output_sample_buffer).
THEOREM AtMostAFrameBehindHolds == Spec => []AtMostAFrameBehind
<1>1. VideoInv => AtMostAFrameBehind
  BY DEF VideoInv, LoopInv
<1> QED
  BY <1>1, VideoInvariance, PTL

\* For every length of the numbers, of the frames and of the gaps a viewer may miss
\* (fewer packets than there are numbers, less two), what seems to be a whole frame
\* is one, and the one after (rtp_video.rs, write_frame).
THEOREM WholeFramesHolds == Spec => []WholeFrames
<1>1. VideoInv => WholeFrames
  BY DEF VideoInv, ReceiverInv
<1> QED
  BY <1>1, VideoInvariance, PTL

\* For every Gop: Gop frames without a gap give a viewer a picture, also when the
\* encoder holds back frames and the key frame among them (encoder.rs, set_gop).
THEOREM CleanWithinGopHolds == Spec => []CleanWithinGop
<1>1. ASSUME VideoInv PROVE CleanWithinGop
  <2>1. rx.run \in Nat /\ Gop \in Nat /\ (~rx.clean => rx.run < Gop)
    BY <1>1, VideoAssumption DEF VideoInv, ReceiverInv, KeySoon, Receiver
  <2> QED
    BY <2>1 DEF CleanWithinGop
<1> QED
  BY <1>1, VideoInvariance, PTL

-----------------------------------------------------------------------------
\* Timestamps.

\* Frames reach the loop, the packets and the viewer in the order of their capture.
CaptureOrder ==
    /\ taken.at <= clock
    /\ slot # <<>> => taken.at <= slot[1].at /\ slot[1].at <= clock
    /\ handler = "packing" => /\ taken.at <= packed.at /\ packed.at <= clock
                              /\ slot # <<>> => slot[1].at <= packed.at
    /\ loop = "writing" => unit.at = taken.at

\* A packet that was stamped when it says, from a frame that has been taken.
Stamped(p) == p.at <= taken.at /\ p.timestamp = rtp_timestamp(start, p.at)

\* What the viewer has is stamped, the whole frame before the packets that follow
\* it; and there is nothing before the sender is made.
StampsInOrder ==
    /\ rx.parts # <<>> => Stamped(rx.parts[1])
    /\ rx.whole # <<>> => Stamped(rx.whole[1])
    /\ (rx.parts # <<>> /\ rx.whole # <<>>) => rx.whole[1].at <= rx.parts[1].at
    /\ loop = "starting" => rx.parts = <<>> /\ rx.whole = <<>>

TimeInv == CaptureOrder /\ StampsInOrder

\* Before the first frame all times are those of the start.
LEMMA TimeStart == Init => TimeInv
BY DEF Init, NoFrame, Fresh, TimeInv, CaptureOrder, StampsInOrder

\* What is written is stamped with the time of the frame taken last.
LEMMA PacketStamped ==
    ASSUME LoopInv, TimeInv, loop = "writing"
    PROVE  Stamped(Packet) /\ Packet.at = taken.at
<1>1. Packet.at = unit.at /\ Packet.timestamp = rtp_timestamp(start, unit.at)
  BY DEF Packet
<1>2. unit.at = taken.at /\ taken.at \in Nat
  BY DEF TimeInv, CaptureOrder, LoopInv, VideoTypeOK, Frame
<1> QED
  BY <1>1, <1>2 DEF Stamped

\* A first element is the first one before something was appended to it.
LEMMA FirstStays ==
    ASSUME NEW S, NEW s \in Seq(S), NEW e \in S
    PROVE  /\ Append(s, e) # <<>>
           /\ s # <<>> => Append(s, e)[1] = s[1]
           /\ s = <<>> => Append(s, e)[1] = e
<1>1. Len(s) \in Nat /\ Len(Append(s, e)) = Len(s) + 1 /\ Append(s, e)[Len(s) + 1] = e
  OBVIOUS
<1>2. \A i \in 1..Len(s) : Append(s, e)[i] = s[i]
  OBVIOUS
<1>3. s # <<>> <=> Len(s) # 0
  BY EmptySeq
<1>4. Append(s, e) # <<>>
  BY <1>1, EmptySeq
<1> QED
  BY <1>1, <1>2, <1>3, <1>4

\* What a viewer has received that is stamped and in order, with the frame that is
\* written not before it.
InOrderIn(b) ==
    /\ b \in Receiver
    /\ b.parts # <<>> => Stamped(b.parts[1])
    /\ b.whole # <<>> => Stamped(b.whole[1])
    /\ (b.parts # <<>> /\ b.whole # <<>>) => b.whole[1].at <= b.parts[1].at

LEMMA JoinedInOrder ==
    ASSUME LoopInv, NEW b, InOrderIn(b), NEW p \in Packets, Stamped(p), p.at = taken.at
    PROVE  /\ InOrderIn(Joined(b, p))
           /\ Joined(b, p).whole # b.whole /\ b.whole # <<>> =>
                /\ Joined(b, p).whole # <<>> /\ Joined(b, p).parts = <<>>
                /\ b.whole[1].at <= Joined(b, p).whole[1].at
<1> DEFINE t == Append(b.parts, p)
<1>1. b \in Receiver /\ b.parts \in Seq(Packets) /\ b.whole \in Seq(Packets)
  BY DEF InOrderIn, Receiver
<1>2. /\ t # <<>>
      /\ b.parts # <<>> => t[1] = b.parts[1]
      /\ b.parts = <<>> => t[1] = p
  BY <1>1, FirstStays
<1>3. Stamped(t[1])
  BY <1>2 DEF InOrderIn
<1>4. b.whole # <<>> => b.whole[1].at <= t[1].at
  BY <1>2 DEF InOrderIn, Stamped
<1> HIDE DEF t
<1>5. CASE p.marker
  <2>1. Joined(b, p) = Completed(b, p)
    BY <1>5 DEF Joined
  <2>2. Joined(b, p) \in Receiver /\ Joined(b, p).parts = <<>> /\ Joined(b, p).whole = t
    BY <1>1, <2>1, CompletedFields DEF t
  <2>3. InOrderIn(Joined(b, p))
    BY <1>3, <2>2 DEF InOrderIn
  <2> QED
    BY <1>2, <1>4, <2>2, <2>3
<1>6. CASE ~p.marker
  <2>1. Joined(b, p) = Added(b, p)
    BY <1>6 DEF Joined
  <2>2. Joined(b, p) \in Receiver /\ Joined(b, p).parts = t /\ Joined(b, p).whole = b.whole
    BY <1>1, <2>1, AddedFields DEF t
  <2>3. InOrderIn(Joined(b, p))
    BY <1>3, <1>4, <2>2 DEF InOrderIn
  <2> QED
    BY <2>2, <2>3
<1> QED
  BY <1>5, <1>6

\* A viewer that begins with a packet has that packet only.
LEMMA FreshOnly ==
    ASSUME NEW p \in Packets, Joined(Fresh, p).whole # <<>>
    PROVE  Joined(Fresh, p).whole[1] = p
<1>1. Fresh \in Receiver /\ Fresh.parts = <<>> /\ Fresh.whole = <<>>
  BY FreshType DEF Fresh
<1>2. CASE p.marker
  <2>1. Joined(Fresh, p).whole = Append(Fresh.parts, p)
    BY <1>1, <1>2, CompletedFields DEF Joined
  <2>2. Fresh.parts \in Seq(Packets)
    BY <1>1 DEF Receiver
  <2> QED
    BY <1>1, <2>1, <2>2, FirstStays
<1>3. CASE ~p.marker
  BY <1>1, <1>3, AddedFields DEF Joined
<1> QED
  BY <1>2, <1>3

\* The receiver after a packet: in order, and a whole frame follows another.
LEMMA ReceivedInOrder ==
    ASSUME LoopInv, TimeInv, rx \in Receiver, loop = "writing"
    PROVE  /\ InOrderIn(Received(Packet))
           /\ (rx.whole # <<>> /\ Received(Packet).whole # rx.whole
               /\ Received(Packet).whole # <<>>) =>
                 rx.whole[1].at <= Received(Packet).whole[1].at
<1> DEFINE r == Received(Packet)
<1>1. Packet \in Packets /\ Stamped(Packet) /\ Packet.at = taken.at
  BY PacketType, PacketStamped
<1>2. InOrderIn(rx)
  BY DEF TimeInv, StampsInOrder, InOrderIn
<1>3. InOrderIn(Fresh) /\ Fresh.whole = <<>>
  BY FreshType DEF Fresh, InOrderIn
<1>4. rx.whole # <<>> => rx.whole[1].at <= taken.at
  BY <1>2 DEF InOrderIn, Stamped
<1>5. CASE Contiguous(Packet)
  <2>1. r = Joined(rx, Packet)
    BY <1>5 DEF Received
  <2> QED
    BY <1>1, <1>2, <2>1, JoinedInOrder
<1>6. CASE ~Contiguous(Packet) /\ Begins(Packet)
  <2>1. r = Joined(Fresh, Packet)
    BY <1>6 DEF Received
  <2>2. InOrderIn(r)
    BY <1>1, <1>3, <2>1, JoinedInOrder
  <2>3. r.whole # <<>> => r.whole[1] = Packet
    BY <2>1, <1>1, FreshOnly
  <2>4. rx.whole # <<>> /\ r.whole # <<>> => rx.whole[1].at <= r.whole[1].at
    BY <1>1, <1>4, <2>3
  <2> QED
    BY <2>2, <2>4
<1>7. CASE ~Contiguous(Packet) /\ ~Begins(Packet)
  <2>1. r = [Fresh EXCEPT !.synced = Packet.marker, !.next = WrappingAdd(Packet.sequence)]
    BY <1>7 DEF Received, WrappingAdd
  <2>2. Packet.marker \in BOOLEAN /\ WrappingAdd(Packet.sequence) \in 0..SeqMod - 1
    BY <1>1, Wrap DEF Packets
  <2>3. r \in Receiver
    BY <2>1, <2>2, FreshType DEF Receiver
  <2>4. r.parts = <<>> /\ r.whole = <<>>
    BY <2>1 DEF Fresh
  <2> QED
    BY <2>3, <2>4 DEF InOrderIn
<1> QED
  BY <1>5, <1>6, <1>7

LEMMA FirstOf ==
    ASSUME NEW S, NEW s \in Seq(S), s # <<>>
    PROVE  s[1] \in S
<1>1. Len(s) \in Nat \ {0}
  BY EmptySeq, Zenon
<1> QED
  BY <1>1, ElementOfSeq

\* The times of the first packets a viewer has.
LEMMA FirstPackets ==
    ASSUME rx \in Receiver
    PROVE  /\ rx.parts # <<>> => rx.parts[1].at \in Nat
           /\ rx.whole # <<>> => rx.whole[1].at \in Nat
<1>1. rx.parts \in Seq(Packets) /\ rx.whole \in Seq(Packets)
  BY DEF Receiver
<1>2. \A p \in Packets : p.at \in Nat
  BY DEF Packets
<1> QED
  BY <1>1, <1>2, FirstOf

\* The steps keep it.
LEMMA TimeStep == LoopInv /\ rx \in Receiver /\ TimeInv /\ [Next]_vars => TimeInv'
<1> SUFFICES ASSUME LoopInv, rx \in Receiver, TimeInv, [Next]_vars PROVE TimeInv'
  OBVIOUS
<1>0. /\ clock \in Nat /\ slot \in Seq(Frame) /\ Len(slot) <= 1 /\ taken.at \in Nat
      /\ CaptureOrder /\ StampsInOrder
  BY DEF LoopInv, VideoTypeOK, Frame, TimeInv
<1> USE DEF captureVars, handlerVars, encoderVars, viewerVars
<1>1. CASE UNCHANGED vars
  BY <1>0, <1>1 DEF vars, TimeInv, CaptureOrder, StampsInOrder, Stamped, rtp_timestamp
<1>2. CASE SenderMade
  BY <1>0, <1>2 DEF SenderMade, TimeInv, CaptureOrder, StampsInOrder
<1>3. CASE TakeFrame
  <2>1. Head(slot) = slot[1] /\ slot' = <<>>
    BY <1>0, <1>3, OneElement DEF TakeFrame
  <2>2. taken'.at = slot[1].at /\ taken'.at \in Nat
    <3>1. Head(slot) \in Frame
      BY <1>0, <1>3, OneElement DEF TakeFrame
    <3> QED
      BY <1>3, <2>1, <3>1 DEF TakeFrame, Frame
  <2>3. CaptureOrder'
    BY <1>0, <1>3, <2>1, <2>2 DEF TakeFrame, CaptureOrder
  <2>4. taken.at <= taken'.at /\ loop' # "starting" /\ UNCHANGED <<start, rx>>
    BY <1>0, <1>3, <2>2 DEF TakeFrame, CaptureOrder
  <2>5. /\ rx.parts # <<>> => rx.parts[1].at \in Nat
        /\ rx.whole # <<>> => rx.whole[1].at \in Nat
    BY FirstPackets
  <2>6. StampsInOrder'
    BY <1>0, <2>2, <2>4, <2>5 DEF StampsInOrder, Stamped, rtp_timestamp
  <2> QED
    BY <2>3, <2>6 DEF TimeInv
<1>4. CASE EncodeFails \/ WriteFails
  <2>1. UNCHANGED <<clock, handler, packed, slot, taken, start>> /\ loop' \notin {"starting", "writing"}
    BY <1>4 DEF EncodeFails, WriteFails
  <2>2. rx'.parts = rx.parts /\ rx'.whole = rx.whole
    BY <1>4 DEF EncodeFails, WriteFails, Missed, Receiver
  <2> QED
    BY <1>0, <2>1, <2>2 DEF TimeInv, CaptureOrder, StampsInOrder, Stamped, rtp_timestamp
<1>5. CASE WritePacket
  <2>1. /\ UNCHANGED <<clock, handler, packed, slot, taken, start>> /\ loop = "writing"
        /\ loop' # "starting"
    BY <1>5 DEF WritePacket
  <2>2. CaptureOrder'
    <3>1. unit \in Unit /\ unit.at = taken.at
      BY <1>0, <2>1 DEF LoopInv, VideoTypeOK, CaptureOrder
    <3>2. loop' = "writing" => unit'.at = unit.at
      BY <1>5, <3>1 DEF WritePacket, Unit
    <3> QED
      BY <1>0, <2>1, <3>1, <3>2 DEF CaptureOrder
  <2>3. CASE rx' = Received(Packet)
    <3>1. InOrderIn(rx')
      BY <2>1, <2>3, ReceivedInOrder
    <3>2. StampsInOrder'
      BY <2>1, <3>1 DEF StampsInOrder, InOrderIn, Stamped, rtp_timestamp
    <3> QED
      BY <2>2, <3>2 DEF TimeInv
  <2>4. CASE UNCHANGED rx \/ Missed
    <3>1. rx'.parts = rx.parts /\ rx'.whole = rx.whole
      BY <2>4 DEF Missed, Receiver
    <3>2. StampsInOrder'
      BY <1>0, <2>1, <3>1 DEF StampsInOrder, Stamped, rtp_timestamp
    <3> QED
      BY <2>2, <3>2 DEF TimeInv
  <2> QED
    BY <1>5, <2>3, <2>4 DEF WritePacket
<1>6. ASSUME NEW key \in BOOLEAN, NEW parts \in 1..MaxParts, Encode(key, parts)
      PROVE  TimeInv'
  <2>1. UNCHANGED <<clock, handler, packed, slot, taken, start, rx>> /\ loop' \in {"reporting", "writing"}
    BY <1>6 DEF Encode
  <2>2. loop' = "writing" => unit'.at = taken.at
    BY <1>6 DEF Encode
  <2> QED
    BY <1>0, <2>1, <2>2 DEF TimeInv, CaptureOrder, StampsInOrder, Stamped, rtp_timestamp
<1>7. ASSUME NEW due \in BOOLEAN, Report(due) PROVE TimeInv'
  <2>1. UNCHANGED <<clock, handler, packed, slot, taken, start, rx>> /\ loop' = "idle"
    BY <1>7 DEF Report
  <2> QED
    BY <1>0, <2>1 DEF TimeInv, CaptureOrder, StampsInOrder, Stamped, rtp_timestamp
<1>8. CASE Viewer
  <2>1. rx'.parts = <<>> /\ rx'.whole = <<>> /\ UNCHANGED <<clock, handler, packed, slot, taken, loop, unit>>
    BY <1>8 DEF Viewer, Joins, Leaves, Fresh
  <2> QED
    BY <1>0, <2>1 DEF TimeInv, CaptureOrder, StampsInOrder
<1>9. ASSUME NEW gap \in Gaps, Capture(gap) PROVE TimeInv'
  <2>1. /\ gap \in Nat /\ clock' = clock + gap
        /\ UNCHANGED <<slot, taken, loop, unit, start, rx>>
        /\ packed'.at = clock + gap
    BY <1>9, VideoAssumption DEF Capture
  <2>2. StampsInOrder'
    BY <1>0, <2>1 DEF StampsInOrder, Stamped, rtp_timestamp
  <2>3. slot # <<>> => slot[1].at \in Nat
    BY <1>0, FirstOf DEF Frame
  <2>4. CaptureOrder'
    BY <1>0, <2>1, <2>3 DEF CaptureOrder
  <2> QED
    BY <2>2, <2>4 DEF TimeInv
<1>10. CASE Offer
  <2>1. /\ UNCHANGED <<clock, taken, loop, unit, start, rx>>
        /\ handler = "packing" /\ handler' # "packing"
    BY <1>10 DEF Offer
  <2>2. StampsInOrder'
    BY <1>0, <2>1 DEF StampsInOrder, Stamped, rtp_timestamp
  <2>3. CASE slot' = slot
    BY <1>0, <2>1, <2>2, <2>3 DEF TimeInv, CaptureOrder
  <2>4. CASE Room /\ slot' = Append(slot, packed)
    <3>1. slot = <<>>
      BY <1>0, <2>4, EmptySeq DEF Room
    <3>2. slot'[1] = packed
      BY <2>4, <3>1
    <3> QED
      BY <1>0, <2>1, <2>2, <3>2 DEF TimeInv, CaptureOrder
  <2> QED
    BY <1>10, <2>3, <2>4 DEF Offer
<1>11. CASE CountDropped
  <2>1. /\ UNCHANGED <<clock, slot, taken, loop, unit, start, rx>> /\ handler' # "packing"
    BY <1>11 DEF CountDropped
  <2> QED
    BY <1>0, <2>1 DEF TimeInv, CaptureOrder, StampsInOrder, Stamped, rtp_timestamp
<1> QED
  BY <1>1, <1>2, <1>3, <1>4, <1>5, <1>6, <1>7, <1>8, <1>9, <1>10, <1>11
     DEF Next, Loop, Callback

\* A frame that is whole after another was captured no earlier, and both are
\* stamped from the same start.
LEMMA WholeAfterWhole ==
    ASSUME LoopInv, rx \in Receiver, TimeInv, [Next]_vars,
           rx.whole # <<>>, rx'.whole # rx.whole, rx'.whole # <<>>
    PROVE  LET p == rx.whole[1]
               q == rx'.whole[1]
           IN  /\ p.at <= q.at /\ p.at \in Nat /\ q.at \in Nat /\ start \in Nat
               /\ p.timestamp = rtp_timestamp(start, p.at)
               /\ q.timestamp = rtp_timestamp(start, q.at)
<1> USE DEF viewerVars
<1>1. ~Viewer
  BY DEF Viewer, Joins, Leaves, Fresh
<1>2. ASSUME Missed PROVE FALSE
  BY <1>2 DEF Missed, Receiver
<1>3. loop = "writing" /\ rx' = Received(Packet) /\ UNCHANGED <<taken, start>>
  BY <1>1, <1>2 DEF Next, Loop, SenderMade, TakeFrame, EncodeFails, WritePacket, WriteFails,
                    Encode, Report, Callback, Capture, Offer,
                    CountDropped, vars
<1>4. InOrderIn(rx') /\ rx.whole[1].at <= rx'.whole[1].at
  BY <1>3, ReceivedInOrder
<1>5. rx'.whole[1].at \in Nat /\ Stamped(rx'.whole[1])
  <2>1. rx'.whole \in Seq(Packets)
    BY <1>4 DEF InOrderIn, Receiver
  <2>2. rx'.whole[1] \in Packets
    BY <2>1, FirstOf
  <2> QED
    BY <1>4, <2>2 DEF InOrderIn, Packets
<1>6. rx.whole[1].at \in Nat /\ Stamped(rx.whole[1])
  BY FirstPackets DEF TimeInv, StampsInOrder
<1> QED
  BY <1>4, <1>5, <1>6 DEF Stamped, LoopInv, VideoTypeOK

\* From one whole frame to the next the timestamp advances by the time between their
\* captures, for every range of timestamps and any number of turns in between; a frame
\* captured before the sender was made counts as captured when it was (rtp_video.rs,
\* rtp_timestamp).
THEOREM TimestampsFollowHolds == Spec => TimestampsFollow
<1>1. Init => TimeInv
  BY TimeStart
<1>2. VideoInv => LoopInv /\ rx \in Receiver
  BY DEF VideoInv, ReceiverInv
<1>3. VideoInv /\ TimeInv /\ [Next]_vars => TimeInv'
  BY <1>2, TimeStep
<1> DEFINE Advances ==
             (rx.whole # <<>> /\ rx'.whole # rx.whole /\ rx'.whole # <<>>)
             => (rx'.whole[1].timestamp - rx.whole[1].timestamp) % TimeMod
                = (FromStart(rx'.whole[1].at) - FromStart(rx.whole[1].at)) % TimeMod
<1>4. ASSUME VideoInv, TimeInv, [Next]_vars PROVE Advances
  <2> DEFINE a == FromStart(rx.whole[1].at)
             b == FromStart(rx'.whole[1].at)
             s == rx.whole[1].timestamp
             t == rx'.whole[1].timestamp
  <2>1. SUFFICES ASSUME rx.whole # <<>>, rx'.whole # rx.whole, rx'.whole # <<>>
                 PROVE  (t - s) % TimeMod = (b - a) % TimeMod
    OBVIOUS
  <2>2. /\ a \in Nat /\ b \in Nat /\ start \in Nat
        /\ s = (a - start) % TimeMod /\ t = (b - start) % TimeMod
    <3>1. /\ rx.whole[1].at \in Nat /\ rx'.whole[1].at \in Nat /\ start \in Nat
          /\ s = rtp_timestamp(start, rx.whole[1].at)
          /\ t = rtp_timestamp(start, rx'.whole[1].at)
      BY <1>2, <1>4, <2>1, WholeAfterWhole
    <3>2. \A at \in Nat : /\ FromStart(at) \in Nat
                          /\ rtp_timestamp(start, at) = (FromStart(at) - start) % TimeMod
      BY <3>1 DEF FromStart, rtp_timestamp
    <3> QED
      BY <3>1, <3>2
  <2> HIDE DEF a, b, s, t
  <2>3. a - start \in Int /\ b - start \in Int /\ (b - start) - (a - start) = b - a
    BY <2>2
  <2>4. (t - s) % TimeMod = ((b - start) - (a - start)) % TimeMod
    BY <2>2, <2>3, VideoAssumption, RestsDiffer
  <2> QED
    BY <2>3, <2>4
<1>5. Init /\ [][Next]_vars => [][Advances]_vars
  <2>1. VideoInv /\ TimeInv /\ [Next]_vars => [Advances]_vars
    BY <1>4
  <2> QED
    BY <1>1, <1>3, <2>1, VideoInvariance, PTL DEF Spec
<1> QED
  BY <1>5 DEF Spec, TimestampsFollow
=============================================================================
