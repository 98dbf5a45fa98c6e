---------------------------- MODULE VideoPipeline ----------------------------
(***************************************************************************)
(* The host's video: ScreenCaptureKit's thread, which captures a frame     *)
(* when the screen changes and offers it to a channel of one place         *)
(* (WebRtcCaptureHandler), the loop that takes frames, encodes them and    *)
(* writes them as RTP packets (run_webrtc, H264Encoder, VideoSender), and  *)
(* what the viewer that is bound to the track makes of the packets.        *)
(*                                                                         *)
(* Callbacks of the capture come one at a time.  What one of them does is   *)
(* cut where the loop's thread can come in between: the time is taken, the *)
(* packed frame is offered, a frame that was refused is counted.           *)
(* Packets are lost but not reordered (a receiver sorts them by number).   *)
(* The contents of a frame are left out, except whether it is a key frame. *)
(* The payloader is taken to fail on nothing the encoder puts out.         *)
(*                                                                         *)
(* A definition that stands right before the one it is a variant of, with  *)
(* the same parameters, is a deliberate mistake no action uses.  Put in    *)
(* the place of the other it makes TLC report the property it breaks.      *)
(***************************************************************************)
EXTENDS Integers, Sequences

CONSTANTS
    Gop,            \* set_gop: frames from one key frame to the next
    SeqMod,         \* RTP sequence numbers wrap (2^16)
    TimeMod,        \* RTP timestamps wrap (2^32)
    Gaps,           \* ticks from one capture to the next
    MaxInside,      \* frames the encoder may hold back
    MaxParts,       \* bound: packets of a frame
    MaxCaptures,    \* bound: frames captured
    MaxMissed       \* bound: packets in a row that a viewer does not get

ASSUME VideoAssumption ==
    /\ Gop \in Nat \ {0} /\ TimeMod \in Nat \ {0} /\ SeqMod \in Nat
    /\ Gaps \subseteq Nat \ {0}
    /\ MaxInside \in Nat /\ MaxParts \in Nat \ {0} /\ MaxCaptures \in Nat
    /\ MaxMissed \in Nat /\ MaxMissed < SeqMod - 1

VARIABLES
    clock,      \* time, in ticks of the RTP clock
    captures,   \* frames captured
    handler,    \* the callback: "waiting", "packing" or "dropping"
    packed,     \* the frame it packs
    slot,       \* the channel: captured frames waiting for the loop
    dropped,    \* frames dropped since the last report
    loop,       \* "starting", "idle", "encoding", "writing", "reporting" or "ended"
    start,      \* when the sender was made
    taken,      \* the frame taken from the channel last
    frameNum,   \* frames given to the encoder
    sinceKey,   \* frames since the last key frame, that one included
    inside,     \* frames the encoder holds back
    insideKey,  \* whether a key frame is among them
    unit,       \* what is being written: one output of the encoder
    units,      \* outputs of the encoder
    statsFrames,\* whether any frame was put out since the last report
    sequence,   \* the next packet's number
    bound,      \* whether a viewer is bound to the track
    rx,         \* what that viewer has received
    reported    \* history: dropped frames that were reported

handlerVars == <<clock, captures, handler, packed>>
captureVars == <<handlerVars, slot, dropped, reported>>
encoderVars == <<frameNum, sinceKey, inside, insideKey, units>>
viewerVars == <<bound, rx>>
vars == <<captureVars, loop, start, taken, encoderVars, unit, statsFrames, sequence,
          viewerVars>>

-----------------------------------------------------------------------------
\* `turn' is history: how many frames the loop had taken when this one was captured.
Frame == [number : Nat, at : Nat, turn : Nat]
NoFrame == [number |-> 0, at |-> 0, turn |-> 0]
Unit == [number : Nat, at : Nat, key : BOOLEAN, parts : 0..MaxParts, next : Nat]
NoUnit == [number |-> 0, at |-> 0, key |-> FALSE, parts |-> 0, next |-> 1]

\* rx: `synced' from the first marker on; `next' is the number expected, `parts'
\* the packets since the last marker, `whole' the last complete frame's packets;
\* `follows' is the frame before that one, and `last' the frame the next must
\* follow (0 after a gap); `clean' says that the picture can be decoded, `run'
\* counts the whole frames since the last gap, `missed' packets in a row.
Fresh == [synced |-> FALSE, next |-> 0, parts |-> <<>>, whole |-> <<>>, follows |-> 0,
          last |-> 0, clean |-> FALSE, run |-> 0, missed |-> 0]

Init ==
    /\ clock = 0 /\ captures = 0 /\ handler = "waiting" /\ packed = NoFrame
    /\ slot = <<>> /\ dropped = 0 /\ reported = 0
    /\ loop = "starting" /\ start = 0 /\ taken = NoFrame
    /\ frameNum = 0 /\ sinceKey = 0 /\ inside = 0 /\ insideKey = FALSE /\ units = 0
    /\ unit = NoUnit /\ statsFrames = FALSE
    /\ sequence = 0
    /\ bound = FALSE /\ rx = Fresh

-----------------------------------------------------------------------------
\* did_output_sample_buffer.  The frame's time is taken before its pixels are packed.

Taken == frameNum + (IF loop = "encoding" THEN 1 ELSE 0)

Capture(gap) ==
    /\ loop # "ended" /\ handler = "waiting"
    /\ captures < MaxCaptures
    /\ clock' = clock + gap
    /\ captures' = captures + 1
    /\ handler' = "packing"
    /\ packed' = [number |-> captures + 1, at |-> clock + gap, turn |-> Taken]
    /\ UNCHANGED <<slot, dropped, reported, loop, start, taken, encoderVars, unit,
                   statsFrames, sequence, viewerVars>>

\* try_send: the channel has one place, and a frame that finds it full is dropped.
RoomForTwo == Len(slot) < 2
Room == Len(slot) < 1

Offer ==
    /\ loop # "ended" /\ handler = "packing"
    /\ packed' = NoFrame
    /\ \/ Room /\ slot' = Append(slot, packed) /\ handler' = "waiting"
       \/ ~Room /\ handler' = "dropping" /\ UNCHANGED slot
    /\ UNCHANGED <<clock, captures, dropped, reported, loop, start, taken, encoderVars,
                   unit, statsFrames, sequence, viewerVars>>

CountDropped ==
    /\ loop # "ended" /\ handler = "dropping"
    /\ handler' = "waiting"
    /\ dropped' = dropped + 1
    /\ UNCHANGED <<clock, captures, packed, slot, reported, loop, start, taken, encoderVars,
                   unit, statsFrames, sequence, viewerVars>>

-----------------------------------------------------------------------------
\* The loop.  Capturing begins before the encoder and the sender are made.

SenderMade ==
    /\ loop = "starting"
    /\ loop' = "idle" /\ start' = clock
    /\ UNCHANGED <<captureVars, taken, encoderVars, unit, statsFrames, sequence,
                   viewerVars>>

TakeFrame ==
    /\ loop = "idle" /\ slot # <<>>
    /\ taken' = Head(slot) /\ slot' = Tail(slot)
    /\ loop' = "encoding"
    /\ UNCHANGED <<handlerVars, dropped, reported, start, encoderVars, unit,
                   statsFrames, sequence, viewerVars>>

\* A key frame is due every Gop frames; the encoder may choose one earlier.
KeyDueLate == sinceKey > Gop
KeyDue == sinceKey = 0 \/ sinceKey >= Gop

\* One frame goes in; it comes out at once, with what was held back, or stays in.
Encode(key, parts) ==
    /\ loop = "encoding"
    /\ KeyDue => key
    /\ frameNum' = frameNum + 1
    /\ sinceKey' = IF key THEN 1 ELSE sinceKey + 1
    /\ \/ /\ inside < MaxInside
          /\ inside' = inside + 1 /\ insideKey' = (insideKey \/ key)
          /\ loop' = "reporting"
          /\ UNCHANGED <<units, unit, statsFrames>>
       \/ /\ inside' = 0 /\ insideKey' = FALSE
          /\ units' = units + 1
          /\ unit' = [number |-> units + 1, at |-> taken.at, key |-> insideKey \/ key,
                      parts |-> parts, next |-> 1]
          /\ statsFrames' = TRUE
          /\ loop' = "writing"
    /\ UNCHANGED <<captureVars, start, taken, sequence, viewerVars>>

\* The scaler or the encoder fails: the process ends.
EncodeFails ==
    /\ loop = "encoding"
    /\ loop' = "ended"
    /\ UNCHANGED <<captureVars, start, taken, encoderVars, unit, statsFrames, sequence,
                   viewerVars>>

-----------------------------------------------------------------------------
\* VideoSender::write_frame, packet by packet.

WrappingTimestamp(since, at) == (at - since) % TimeMod
rtp_timestamp(since, at) == (IF at >= since THEN at - since ELSE 0) % TimeMod

Packet == [sequence |-> sequence, number |-> unit.number, part |-> unit.next,
           marker |-> unit.next = unit.parts, key |-> unit.key, at |-> unit.at,
           parts |-> unit.parts, timestamp |-> rtp_timestamp(start, unit.at)]

AddOne(n) == n + 1
WrappingAdd(n) == (n + 1) % SeqMod

\* The number is used up whether the write succeeds or not.
NumberKeptOnFailure(ok) == IF ok THEN WrappingAdd(sequence) ELSE sequence
NextSequence(ok) == WrappingAdd(sequence)

\* A packet arrives at the viewer.  One that does not follow the last one is a
\* gap: the viewer begins again with the packet, if it is the first of a key frame,
\* or else waits for the marker that tells where a frame begins.
Contiguous(p) == rx.synced /\ p.sequence = rx.next
Begins(p) == p.key /\ p.part = 1

Added(before, p) ==
    [before EXCEPT !.synced = TRUE, !.next = (p.sequence + 1) % SeqMod, !.missed = 0,
                   !.parts = Append(@, p)]
Completed(before, p) ==
    [Added(before, p) EXCEPT !.parts = <<>>, !.whole = Append(before.parts, p),
                             !.follows = before.last, !.last = p.number,
                             !.clean = @ \/ p.key, !.run = @ + 1]
Joined(before, p) == IF p.marker THEN Completed(before, p) ELSE Added(before, p)

Received(p) ==
    IF Contiguous(p) THEN Joined(rx, p)
    ELSE IF Begins(p) THEN Joined(Fresh, p)
    ELSE [Fresh EXCEPT !.synced = p.marker, !.next = (p.sequence + 1) % SeqMod]

Missed == rx.missed < MaxMissed /\ rx' = [rx EXCEPT !.missed = @ + 1]

\* The track has no viewer, or the viewer gets the packet, or it is lost.
WritePacket ==
    /\ loop = "writing"
    /\ sequence' = NextSequence(TRUE)
    /\ \/ ~bound /\ UNCHANGED rx
       \/ bound /\ rx' = Received(Packet)
       \/ bound /\ Missed
    /\ IF unit.next = unit.parts
       THEN loop' = "reporting" /\ unit' = NoUnit
       ELSE loop' = loop /\ unit' = [unit EXCEPT !.next = @ + 1]
    /\ UNCHANGED <<captureVars, start, taken, encoderVars, statsFrames, bound>>

\* A failed write gives up the rest of the frame, and the loop goes on.
WriteFails ==
    /\ loop = "writing" /\ bound
    /\ sequence' = NextSequence(FALSE)
    /\ Missed
    /\ loop' = "reporting" /\ unit' = NoUnit
    /\ UNCHANGED <<captureVars, start, taken, encoderVars, statsFrames, bound>>

-----------------------------------------------------------------------------
\* Every five seconds: the count of dropped frames is swapped for 0 and printed.

CountLoaded == reported' = reported + dropped /\ UNCHANGED dropped
CountSwapped == reported' = reported + dropped /\ dropped' = 0

Report(due) ==
    /\ loop = "reporting"
    /\ loop' = "idle"
    /\ IF due /\ statsFrames
       THEN CountSwapped /\ statsFrames' = FALSE
       ELSE UNCHANGED <<dropped, reported, statsFrames>>
    /\ UNCHANGED <<handlerVars, slot, start, taken, encoderVars, unit, sequence,
                   viewerVars>>

-----------------------------------------------------------------------------
\* A viewer's connection binds it to the track, a closed one is unbound.

Joins == ~bound /\ bound' = TRUE /\ rx' = Fresh
Leaves == bound /\ bound' = FALSE /\ rx' = Fresh
Viewer ==
    /\ Joins \/ Leaves
    /\ UNCHANGED <<captureVars, loop, start, taken, encoderVars, unit, statsFrames,
                   sequence>>

Loop ==
    \/ SenderMade \/ TakeFrame \/ EncodeFails \/ WritePacket \/ WriteFails
    \/ \E key \in BOOLEAN, parts \in 1..MaxParts : Encode(key, parts)
    \/ \E due \in BOOLEAN : Report(due)

Callback == Offer \/ CountDropped \/ \E gap \in Gaps : Capture(gap)

Next == Viewer \/ Loop \/ Callback

Spec == Init /\ [][Next]_vars

\* The loop runs as long as it can, a callback runs to its end, and the first frame
\* comes when capturing has begun; more come only when the screen changes.
FairSpec ==
    /\ Spec /\ WF_vars(Loop) /\ WF_vars(Offer \/ CountDropped)
    /\ WF_vars(captures = 0 /\ \E gap \in Gaps : Capture(gap))

-----------------------------------------------------------------------------
\* Properties.

VideoTypeOK ==
    /\ clock \in Nat /\ captures \in 0..MaxCaptures
    /\ handler \in {"waiting", "packing", "dropping"} /\ packed \in Frame
    /\ slot \in Seq(Frame) /\ Len(slot) <= 1
    /\ dropped \in Nat /\ reported \in Nat
    /\ loop \in {"starting", "idle", "encoding", "writing", "reporting", "ended"}
    /\ start \in Nat /\ taken \in Frame
    /\ frameNum \in Nat /\ sinceKey \in 0..Gop
    /\ inside \in 0..MaxInside /\ insideKey \in BOOLEAN
    /\ unit \in Unit /\ units \in Nat
    /\ statsFrames \in BOOLEAN
    /\ sequence \in 0..SeqMod - 1
    /\ bound \in BOOLEAN

\* No frame gets lost between the threads: each one captured was encoded, waits,
\* is in the hands of one of the two threads, or was counted as dropped, and no report
\* of the dropped frames forgets or repeats one although the callback counts meanwhile.
EveryFrameAccounted ==
    loop # "ended" =>
        captures = Taken + Len(slot) + (IF handler = "waiting" THEN 0 ELSE 1)
                   + dropped + reported

\* What gets encoded is at most a frame behind (did_output_sample_buffer): from its
\* capture to its own turn the loop takes one other frame at the most, also when
\* the loop takes frames and makes room while the callback is still packing.
AtMostAFrameBehind ==
    /\ \A i \in DOMAIN slot : Taken - slot[i].turn <= 1
    /\ loop = "encoding" => (Taken - 1) - taken.turn <= 1

\* Packets with consecutive numbers from one marker to the next are one whole
\* frame, and the next one the encoder put out: a viewer that sees no gap in the
\* numbers misses nothing, whatever writes failed in the middle of a frame.
WholeFrames ==
    /\ \A i \in DOMAIN rx.whole :
          /\ rx.whole[i].number = rx.whole[1].number
          /\ rx.whole[i].part = i
          /\ rx.whole[i].parts = Len(rx.whole)
    /\ (rx.whole # <<>> /\ rx.follows # 0) => rx.whole[1].number = rx.follows + 1

\* A viewer that has received Gop frames without a gap has a clean picture.
CleanWithinGop == rx.run >= Gop => rx.clean

\* From one whole frame to the next the timestamp advances by the time between
\* their captures, also where it wraps.  A frame captured before the sender was made
\* counts as captured when it was made, so that time never seems to go back.
FromStart(at) == IF at < start THEN start ELSE at
TimestampsFollow ==
    [][ (rx.whole # <<>> /\ rx'.whole # rx.whole /\ rx'.whole # <<>>)
        => (rx'.whole[1].timestamp - rx.whole[1].timestamp) % TimeMod
           = (FromStart(rx'.whole[1].at) - FromStart(rx.whole[1].at)) % TimeMod ]_vars

\* A viewer that stays gets a clean picture in the end (encoder.rs says within a
\* second).
PictureInTheEnd == bound ~> (rx.clean \/ ~bound \/ loop = "ended")
=============================================================================
