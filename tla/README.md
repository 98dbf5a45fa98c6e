# RemoteBridge: verification project

RemoteBridge shows and controls a Mac's screen from a browser. A **host** process
(Rust, `host/`) captures the screen and answers for one WebRTC session; a
**signaling server** (Go, `signaling/`) relays the session's set-up messages; a
**viewer** page (`client/`) shows the stream and sends input. Only devices the
host's owner has approved, on a local **host page** (`host/admin/`), may connect.

This directory holds TLA+ modules translated from that source, the TLC
configurations that check them on small instances, and TLAPS proofs of the
properties that matter most. Paths below are relative to the repository.

## 1. Inventory

| Component | Source | State it keeps | Operations |
| --- | --- | --- | --- |
| Session loop | `host/src/webrtc_host.rs` `run_sessions` | newest session number, current peer connection, the answer waiting for a decision; through `Shared`, what the page sees | viewer-joined, answer, approve / reject / disconnect, start and close a session |
| Host page server | `host/src/admin.rs` | `Shared` (pending device, active device and connection), the command channel | state poll, approve, reject, rename, remove |
| Paired devices | `host/src/pairing.rs` | the list in memory and `paired.json`; `host-cert.pem` | open, contains, touch, add, rename, remove; certificate load or create |
| Host page | `host/admin/index.html` | the last state it polled | poll every second, clicks |
| Signaling server | `signaling/main.go` | one host slot, one viewer slot, one mutex | register, unregister, relay, announce a viewer |
| Signaling client | `host/src/signaling.rs` | a websocket | recv, send an offer |
| Viewer: WebRTC | `client/index.html` | `pc`, data channel, websocket | config, offer, gather, answer, reconnect |
| Viewer: input | `client/input.mjs` | fingers, owed and held clicks, drag and scroll | pointer and touch handlers, timers |
| Viewer: pairing code | `client/pairing.mjs` | none | fingerprint to code |
| Input injector | `host/src/input.rs`, the data channel's callbacks in `webrtc_host.rs` | the event queue, buttons held, what moves and scrolls have left over | message, close, apply an event, Reset |
| Capture and encode loop | `host/src/main.rs` | one-frame channel, dropped and encoded counts | start-up, capture a frame, take one, encode, report |
| Encoder, RTP sender | `host/src/encoder.rs`, `rtp_video.rs` | GOP position; sequence number and timestamp | encode; packetise and write |
| Vendored DTLS | `host/vendor/webrtc-dtls` | (third party) | |
| Deployment | `deploy/`, Dockerfile, Caddy, coturn | (configuration) | |

**How they interact.** The loop is one async task that `select!`s over the
websocket and an unbounded channel of page commands. Page handlers are other tasks;
they share `Shared` and the list with the loop through mutexes that are released
before every await. Peer connections change state by themselves. The server has
two slots, host and viewer; a new connection takes its slot from the previous
one, and a taken viewer slot is announced to the host with `viewer-joined`, which
starts a new session. Answers come back carrying the session number of the offer.

**What is hard about it.** (a) The loop suspends in the middle of a handler (closing
a connection, gathering, applying an answer) while handlers of the page change what
it will look at next. (b) Messages and clicks are about a session or a device that
may have been replaced when they are taken. (c) Checks are made under a lock and
acted on after its release. (d) Saves fail, signaling drops and the host restarts
while viewers stay. (e) Nothing tells an old socket, an old answer or an
old data channel from the new one but a number or an identity check. (f) The input path must never leave
a button pressed, whatever order fingers, channels and failures come in.

**What makes each component correct.**

- *Session loop, page and list together:* at most one viewer is ever live; only a
  device in the list streams; a removed device is put out; a click has the effect
  its text says, on the device it named; the page says the truth about who is
  connected; an answer is applied only to the connection it was made for.
- *Files:* a restart finds the list the owner left, and the certificate devices know,
  wherever the previous process ended and whatever else was starting.
- *Signaling:* the newest viewer and the newest host own the slots; an old socket's
  close never clears its successor's slot; the host hears of every viewer.
- *Viewer:* only the newest offer is answered; a stable viewer ends connected.
- *Input, end to end:* every press is released in the end; no click is doubled.
- *Video:* every captured frame is encoded, waits for its turn or is counted as dropped, and
  at most one other frame is encoded before its turn; what a viewer
  takes for a whole frame is one, also where numbers wrap; a new viewer gets a picture.

`PROJECT.json` lists every component with its status and every hazard with its line.

## 2. Modules

| Module | What it is |
| --- | --- |
| `HostSession` | session loop + host page handlers + list in memory and on disk + peer connections; viewers and the server as an environment that fills the loop's inbox |
| `AccessGate` | the abstract promise: who may use the Mac, and when |
| `Signaling` | the server's slots and relaying, host processes and viewer pages, over websockets |
| `InputEvents` | the messages a page sends about input, and the host's own `Reset` |
| `Injector` | the queue, the injector's thread and the callbacks of every session's data channel; calls to the system may fail |
| `Trackpad` | the page's fingers (`createTrackpad`) and mouse (`createMouse`) |
| `InputPath` | `Trackpad` + channel + `Injector`, over pages that come and go and a host that restarts |
| `VideoPipeline` | capture thread, frame channel, encode loop, RTP packets, and a viewer that receives them |
| `PairedStore` | certificate and list on disk, and host processes that start, overlap, fail and end |
| `MC...` | instances of the module they extend, for TLC; one `.cfg` per question |
| `HostSessionProofs` | type correctness, the loop invariant, one live session, clicks, the list across restarts |
| `HostAccessProofs` | who is who, who may stay, closes, and the implementation of `AccessGate` |
| `PairedStoreProofs`, `VideoPipelineProofs`, `InjectorProofs` | the safety properties of these three modules |
| `InputPathProofs` | types, taps, and nothing stuck from finger to button |
| `SignalingProofs` | types, greeting, slots and introductions of the server |
| `SignalingAnswerProofs` | whose answers reach a host, in which order, how often |

`InputPath` composes `Trackpad` and `Injector` and shares their variables. `PairedStore`
looks inside what `HostSession` takes for one step (a change and its save, a restart):
`HostSession` says when the list changes, `PairedStore` what is on disk at each step of it.
The modules meet in `start_session` (a session's channel and its binding to the track) but
share no other state.

A definition placed right before another one with the same parameters, which no action
uses, is a plausible mistake in the code it stands beside (`OnCloseSilent` before
`OnCloseSends`); replacing the right one by it makes TLC report a property.

### HostSession and the code

`at` is the program counter of `run_sessions`: `select` (in `select!`), `closeOld`
(awaiting the old connection's `close`, `webrtc_host.rs:153-155`), `start` (awaiting
`start_session`), `apply` (awaiting `set_remote_description`), `close` (awaiting the
close of a rejected or removed device's connection), `stopped` (the function has
returned). Between two of these the code does not await anything and holds what it
needs, so one action is one stretch of code between awaits.

| Variable | Code |
| --- | --- |
| `session`, `current`, `pending` | the locals of `run_sessions` |
| `applying`, `closing` | the answer and the connection a suspended handler holds |
| `sharedPending`, `active` | `Shared.pending`, `Shared.active` (`admin.rs`) |
| `paired`, `disk` | the list behind `PairedDevices`, and `paired.json` |
| `cmds`, `removing` | the command channel; `remove` between the list's change and its send |
| `shown`, `clicked` | the page's last poll; what the owner approved (history) |
| `peers` | state of each peer connection and the last answer it took |
| `inbox`, `offers` | what the server has for the loop; offers viewers have not answered |
| `epoch`, `faults` | run of the host process; failed saves |

A peer connection is named by the session that created it. An answer carries the
fingerprint of its SDP and the session it echoes; `epoch` on it is a history field
(nothing on the wire says which run of the host made the offer), read only by
`Connect` (ICE and DTLS do tell) and by properties.

What is abstracted: SDP to a fingerprint or none; names, times and the pairing code
of a device; the HTTP layer and its key; what `start_session` sets up inside
webrtc-rs (it either yields a connection and an offer, or fails).

### Signaling and the code

A connection names the process or page that made it: each makes one and never reconnects, so
a restart or a reload is another element of `Host` or `Viewer`, and the number of
connections is the only bound. A connection is made (`Connects`), waits in
`waiting` until its handler reaches the hub's lock, and is `registered` until the
server has read everything a closed client sent.

| Variable | Code |
| --- | --- |
| `slot`, `registered`, `waiting` | `hub.host` and `hub.viewer`; the `handleWS` goroutines after and before `register` |
| `down`, `up`, `open` | the two directions of each websocket, and whether the client still has it |
| `phase`, `session`, `current`, `accepted` | `run_sessions`: where it is, its newest session, whether it has a connection and which answer that took |
| `configured`, `pc`, `handlers` | the page's `iceServers` and `pc`; the suspended runs of `ws.onmessage` |
| `guest`, `told`, `newest`, `used` | history, for the properties |

`Register`, `Unregister` and `Relay` are whole critical sections of the hub. The
page's handler is cut at its awaits: `PageOffered` up to the first,
`PageDescribed` up to gathering, `PageAnswers` the rest; the second and third check
`peer === pc`. In place of that check, the description calls on a closed connection
throw, which ends the run of the handler just the same.

`HostSession` and `Signaling` model the same loop from two sides. `Signaling` keeps
only session numbers and the first answer taken; `HostSession` keeps everything but
who is on the other side. `HostSession` assumes that an offer is answered at
most once, and only after it was made: `AnsweredOnce` is that, checked where the server and the page are modelled.

### Input and the code

| Variable | Code |
| --- | --- |
| `touches`, `gesture`, `heldClick` | the map of pointers, `gesture` and `heldClick` of `createTrackpad` |
| `mouse` | `down` of `createMouse` |
| `connected`, `wire` | the page's end of the data channel, and the messages under way |
| `channel` | each session's channel on the host: new, open, closed, and `on_close` run (`reset`) |
| `queue`, `injector` | the `mpsc` queue of `start_injector` and its thread |
| `held`, `moveRest`, `scrollRest` | `Injector`'s fields |
| `pressed`, `modsDown`, `cursor` | the Mac: what `enigo`'s calls have done |
| `due`, `failed`, `heldBefore` | history, for the properties |

One action of `Trackpad` is one run of an event handler or of the held click's timer. A
browser runs them one at a time. Positions are one axis, in parts of the frame; the other
axis has the same code. `Trackpad` leaves distances out (a move is beyond the slop or
not) and times too (a gesture has lasted longer than a tap or not).
`Apply...` is one event taken by the injector's thread, with every call it makes and
a branch for each call that may fail; a failed call is taken to have had no effect.
`ToScreen`, `Whole` and `Rest` compute with exact fractions where the code has
floating point. On the host the callbacks of one channel run in order, but `on_close` on a
task of its own, so an old channel's `Reset` may come after a new channel's messages.

`InputPath` lets a page vanish without a word: its channel stays open on the host until
somebody closes it. A restarted host forgets what it holds, but the Mac does not
(`heldBefore`). Only the newest page reaches the host; older ones are left out.

### VideoPipeline and the code

| Variable | Code |
| --- | --- |
| `handler`, `packed` | the capture callback: where it is, and the frame it packs |
| `slot`, `dropped` | the channel of one frame, and the counter both threads use |
| `loop`, `taken`, `frameNum`, `statsFrames` | `run_webrtc`'s loop: where it is, and its locals |
| `sinceKey`, `inside`, `insideKey` | libx264: frames since its last key frame, and frames it holds back |
| `unit`, `sequence`, `start` | `write_frame`: what is being written, `VideoSender.sequence` and `.start` |
| `bound`, `rx` | whether a viewer is bound to the track, and what its receiver makes of the packets |
| `clock`, `captures`, `reported`, `turn` of a frame | time in ticks, and history |

The capture callback is cut where the loop's thread can come in between: `Capture` takes the
time, `Offer` is `try_send` once the pixels are packed, `CountDropped` counts a frame that was
refused. ScreenCaptureKit is taken to run one callback at a time. `turn` notes how many frames
the loop had taken when the frame was captured.

`Encode` is one frame in and at most one output (`drain`), which carries the time of the
frame just taken, as in the code. `WritePacket` and `WriteFails` are one turn of
`write_frame`'s inner loop. The receiver is no code of the repository: it takes what follows in
number, starts at the first packet of a key frame or after a marker, and treats any gap
as a loss, so it is more pessimistic than a browser, which also gets packets again and in
order. The payloader is taken not to fail on the encoder's output. `MaxMissed` keeps
a viewer from missing so many packets that the numbers come round.

### PairedStore and the code

| Variable | Code |
| --- | --- |
| `certFile`, `json`, `tmp` | `host-cert.pem`, `paired.json`, `paired.json.tmp`: absent, torn or whole |
| `phase` | where each process is in `run_webrtc`'s start-up, or in `save` |
| `cert`, `devices` | the certificate and the list each process has in memory |
| `unsaved`, `overtaken`, `promised` | history: a save failed; another process saved after this one loaded; what the user was told |

A process ends between any two steps (`Ends`); what system calls have written stays. The
port of the host page (`Bind`) admits one running process at a time, which supposes that all use the same
`REMOTEBRIDGE_ADMIN_PORT`. `fs::write` first truncates (`BeginWrite`), then completes
(`EndWrite`); the rename is atomic. A loss of power, after which a renamed file may be
empty, is left out.

### Environment assumptions of HostSession

`ViewerJoins` may happen at any time. `ViewerAnswers` answers an offer at most once,
at any later time, with any device's fingerprint or an unusable one: the
server relays an offer to one viewer and the viewer page answers it once. Messages
reach the loop in any order of answers and joins. `PeerFails` may hit any live
connection at any time.

## 3. Runs

| Run | Question | Result |
| --- | --- | --- |
| `host_safety` | no failures, two devices, three sessions, all page commands: one live session, live is paired, answers match, the page is truthful | holds |
| `host_live` | fair scheduling: removals disconnect, approvals take effect, closes hit the device they name, the host implements `AccessGate` | holds |
| `host_faults` | one restart while viewers keep their offers, one failed save, signaling that may drop: one live session (`LoopInv`), the list, clicks; until the restart also the answers and the page's texts (`TruthfulUntilRestart`); the strengthened access invariant (`AccessKept`) for as long as it promises | holds |
| `host_stop` | signaling is lost, then a connected device is removed | `LiveIsPaired` violated |
| `sig_restart` | a host and its restart (one of them with a key the pages refuse), two page loads, any order of registration: types, one answer per offer, answers from the right viewer | holds |
| `sig_live` | one host, page loads that come, go and overlap, registering in order: slots, announcements, configuration first, answers in order, and the newest page that stays is served | holds |
| `sig_second` | a second host process starts and ends | `HeardOfEveryViewer` violated |
| `injector_faults` | two sessions' channels, any events, any call of the system may fail: no button and no modifier is left down, relative moves add up | holds |
| `input_live` | two fingers and a mouse, a page that vanishes or is replaced, a host that restarts: presses that may fail: the page makes one click or one drag of each tap, nothing stays pressed, who lets go is released in the end | holds |
| `video_safety` | two threads, numbers and times that wrap, lost packets and failing writes, a viewer that comes and goes: every frame is accounted for, each is at most one turn behind, what looks like a frame is one, a picture within a GOP, timestamps follow time | holds |
| `video_still` | a viewer joins when the screen has stopped changing | `PictureInTheEnd` violated |
| `store_crash` | two host processes that overlap, fail and end anywhere: list and certificate on disk stay whole and are those in memory | holds |

### Findings

Each of these is what the code does; the first three have a run that shows it.

1. **Removal after signaling is lost** (`host_stop`). When `run_sessions` has returned, its
   command receiver is gone. `remove` still takes the device off the list and reports
   success (`admin.rs:238-261`), but the `Disconnect` is dropped and the device goes on
   streaming. The README says removing disconnects at once; `main.rs:300-301` says
   streams survive the loss of signaling.
2. **A second host process** (`sig_second`). It takes the server's host slot before it finds
   the page's port taken and exits; the slot is then empty and the first host, which
   never reconnects, is told of no viewer.
3. **A still screen** (`video_still`). Key frames are counted in frames
   (`encoder.rs:63-65`, "within a second"), and frames come only when the screen changes
   (`rtp_video.rs:7-8`); nothing asks for one when a viewer joins.

The rest follow from a change of an instance, or from what a property has to leave out:

4. **Removal whose save fails.** `PairedDevices::remove` changes memory first; the
   error skips the `Disconnect`; a second attempt finds no such device. The README
   (line 189) says removing disconnects. With `MaxSaveFaults = 1` and `CanLoseSignaling = FALSE`
   in `MCHostSession_stop.cfg`, `LiveIsPaired` is violated.
5. **Session numbers restart with the process.** `webrtc_host.rs:86-88` says the number
   tells stale answers from current ones. After a restart, the answer to the old run's offer
   1 is taken for the new run's. ICE and DTLS refuse to connect, so nobody gets in by it, but
   the right answer, which comes second, is refused by a connection that already has one: the
   viewer is not served until it reloads. With `Host = {h1, h2}` in
   `MCSignaling_live.cfg`, `NewestServed` is violated. In `HostSession` the same answer
   makes `Shared.active` or the pending device name another device than the
   connection's, which is why `TruthfulUntilRestart` stops at the restart.
6. **Overtaking.** Handlers of different connections reach the hub's lock in any
   order. The connection of a page that was left early may register after its successor's: it
   takes the slot and, found closed, empties it; the page on screen waits for ever. With
   `Overtaking = TRUE` in `MCSignaling_live.cfg`, `SlotIsNewest` and `NewestServed` are violated.
7. **A full channel drops the newer frame.** The repository's README (lines 61-63) says that "if
   the encoder falls behind, the channel fills and capture waits", and
   `docs/diagrams/video-pipeline.mmd:5` calls it "capacity 4, applies backpressure". In the
   code the channel has one place (`main.rs:355`), and a frame that finds it full is dropped and
   counted (`main.rs:187-193`): nothing ever waits. `EveryFrameAccounted` states what the code does.
   The comment there says that what gets encoded "is at most a frame behind". That holds in turns
   of the loop: `AtMostAFrameBehind`. It does not hold in captured frames. The frame kept may be
   several behind the screen, and when the screen then stands still its last change is never
   shown. Nor is the waiting frame always newer than the loop's last turn: the loop may take a
   frame between a callback's `Instant::now()` (line 185) and its `try_send` (line 191).
8. **A frame older than the clock.** Capturing starts before `VideoSender` takes its start
   time, so the first frame can be older than it; a comment in a test (`rtp_video.rs:100`) says it
   cannot. `saturating_duration_since` makes it 0, so at worst two frames share
   a timestamp. `TimestampsFollow` says so: such a frame counts as captured at the start
   (`FromStart`). Without the saturation (`WrappingTimestamp`) it would be stamped with a time
   almost a whole turn of the clock ahead.
9. **A list loaded too early.** `pairing.rs:133-135` calls the copy in memory the truth. The
   list is loaded before the page's port is bound: a second process that loads while the
   first still saves, and binds once the first has ended, has an old list and writes it
   back with its next change. `MemoryIsTruth` excepts it (`overtaken`).
10. **A torn first certificate.** `host-cert.pem` is created before it is written
    (`pairing.rs:53-58`). A process that ends in between leaves a file that no later
    start can parse. No device has yet seen that certificate, so `CertificateKept` holds.
11. **Buttons of a host or a viewer that ends.** The README (lines 337-338) says a viewer that
    disconnects in a drag cannot leave the button held. A viewer that vanishes without
    closing keeps it until its connection is closed, which only the next viewer or a
    removal does (`Holding`); a host that ends in a drag leaves it down for good (`heldBefore`); so does
    a release that fails, above all in a `Reset`, which forgets the buttons before it releases
    them (`failed`). A press or a key that fails leaves nothing down (`Harmless`).

### Bounds, and why they are enough

- `MaxSession` 3 (safety): an old, a current and a next session; number 3 is reached
  with answers to 1 and 2 both still out. `2` elsewhere: every stale case needs one replacement.
- Two devices: one being replaced, one replacing; the code never compares three.
- `MaxInbox` 2: an answer overtaken by a join, or behind one. `MaxCommands` 2: a
  click and a removal queued at once (`removing` counts, being a command to come).
  `host_faults` keeps one command at a time, the rest being as large there.
- At most one removal of a given device is between its list change and its send.
- Session numbers are naturals: the code's `u32` would need 2^32 viewers to wrap.
- `Signaling` has no numeric bound: one or two hosts and two page loads are
  all there ever is. Two pages give an old one that may still be answering and the new one, two
  hosts give one restart; a third page changed no outcome when tried. `sig_live` keeps to
  registration in order (`Overtaking` FALSE), because out of order the property fails (finding 6).
- `injector_faults`: two channels (the old session's late close and the new one's
  events); `MaxQueue` 2 viewers' events waiting, to which `Reset`s are added without a bound. The frame, the
  display and the grain (6 by 4, 4 by 4, quarters) scale the axis up or down, with a rest that
  is less than a point and a letterbox margin. `SomeEvents` has one event of every kind, and
  both buttons.
- `input_live`: two fingers are all a gesture tells apart (a third ends it as a second
  does); sizes of 1, as no property there depends on a distance, and
  presses that may fail (`injector_faults` and the theorems have the other calls);
  `MaxWire` 2 and `MaxQueue` 1 let a press and its release be at different stages.
- `video_safety`: `SeqMod` and `TimeMod` 4, so that four frames of up to two packets
  wrap both; `Gop` 2 and `MaxInside` 1, so that key and other frames are held back; gaps of 1 and
  3 ticks, one of them longer than half the range; `MaxMissed` 2 < `SeqMod` - 1, as finding a gap by
  number needs. In the real code the last is 65534 packets in a row.
- `store_crash`: two processes and three starts: two that overlap and a later one that
  reads what they left. Two devices and two names give changes that add, rename and remove.
- TLC's deadlock check is off for `Signaling` (when every page and host has come and gone the
  system stops), `InputPath` and `Injector` (sessions run out and nothing is queued),
  `VideoPipeline` (captures run out, or the loop ends) and `PairedStore` (starts run out).
- `Poll` is always enabled, as the page is outside the loop: for `HostSession` TLC's deadlock
  check therefore says nothing, and the liveness properties do its work.

### Fairness

- weak fairness of the loop (`HandleMessage`, `HandleCommand`, `Resume`): tokio
  polls a ready task; `close`, gathering and applying end by themselves.
- strong fairness of `HandleCommand`: a message may be ready each time a command is.
  `select!` without `biased` picks a ready branch at random, so a command is not put off for ever.
- weak fairness of `SendDisconnect`: the handler runs to its end.
- in `Signaling`, weak fairness of the server's operations, each host's and each page's
  steps: goroutines, the host's task and the browser's event loop run when they
  can, and gathering ends (after 3 seconds on the page).
- in `InputPath`, weak fairness of the channel's delivery (it is reliable and ordered), of the
  injector's thread, which blocks only on its queue, and of each channel's `on_close`, a
  spawned task. Nothing makes the page let go, or anybody close a channel.
- in `VideoPipeline`, weak fairness of the loop (it awaits nothing but the next
  frame), of a callback that has begun (it does not block), and of the first capture, as
  ScreenCaptureKit delivers one frame at the start. No later capture is assumed: the screen need not change.

Nothing is assumed of viewers, the owner, or connections: nobody has to come, go, approve or close anything.

## 4. Proofs

All theorems hold for every set of devices, channels or processes and every value of the
bounds, from the `ASSUME`s of the modules they are about, which say that a marker
(`NoDevice`, `Absent`, `Torn`, `Unpaired`) is none of the values it stands beside, that sizes are
positive, that viewers do not send `Reset` (the page cannot name it), `MaxMissed < SeqMod - 1`, and that the
sessions of an input path are numbered from 1.

**`HostSession`**

- **`LoopInv`** is inductive with `TypeOK` (`LoopInvariance`) with no assumption: not
  even failures and restarts break it. It says what is true at each suspension point:
  only the newest session's connection can be live, as `current` or as `closing`.
  `OneLiveSession` alone is not inductive: nothing in it prevents `StartSession`
  while an older connection is live. `OneLiveSessionHolds` follows.
- **Clicks.** `ClickInv` (the approvals in the channel were clicked) and the step
  property `ClickActsOnItsDevice`.
- **List across restarts.** `DiskInv` (no failed save: memory equals disk) and `RestartKeepsList`.
- **Access.** `AccessKept` has two halves. Until the host restarts (`TruthInv`), each session's answer
  exists once (`TokensInv`), nobody holds it before it arrives (`UnclaimedInv`), what is pending is current
  (`PendingInv`), whoever is live is the device in `active` (`LiveInv`), and the session's connection
  is untouched before a decision and has the admitted device's answer after it (`PeerInv`). That gives
  `AnswerMatchesPeer`, `PendingIsCurrent`, `BadgeIsTruthful`, together `TruthfulUntilRestart`, and the
  step property `CloseHitsItsDevice`, through failed saves and lost signaling. Until anything fails, the device in
  `active` is also in the list or about to be disconnected (`ActiveInv`): `LiveIsPaired`. The
  findings show that the conditions are needed.
- **Refinement.** With no failures possible (`NoFaults`), every step is a step of
  `AccessGate` or a stutter: `GateSafetyHolds`.

**`PairedStore`.** `StoreInv` is inductive. `ListSurvives` needs to know that only the one process
that holds the port writes (`OneRuns`, `SaveSteps`: where it is in a save says what
`paired.json.tmp` contains); `CertificateKept` that whoever created the file is alone until it has written
it (`MakerAlone`); `MemoryIsTruth` that a list was already the saved one before the
port was bound (`LoadedIsSaved`).

**`VideoPipeline`.** `VideoInv` is inductive. That numbers in sequence mean one frame fails as an
invariant on its own, because numbers come round. `NumbersTell` says by how many packets the
viewer is behind, without a remainder (two linear cases), so that an expected number means
none was missed; `InFrame` then says that a viewer which follows has exactly the first packets of the
frame being written. `CleanWithinGop` needs `KeySoon`, which ties the frames a viewer has had
since it began to those since the encoder's last key frame.
`AtMostAFrameBehind` says nothing of a frame that is still being packed; `PackedSoon` does: what the
loop has taken and what waits exceed what it had taken at the capture by one at most.
`TimestampsFollow` is a step property: packets are stamped from one start and what a viewer
has is in the order of capture (`TimeInv`); the rest is arithmetic (`RestsDiffer`: the difference of two
remainders is that of the numbers, up to a remainder), for every `TimeMod`.

**`Injector`.** `InjectorInv` is inductive. `HeldIsKnown` (what is down is known to `Reset`, until a
release fails in one) is the heart of it; `ResetIsLast` says that once all channels have run
`on_close`, a `Reset` is behind every event in the queue, also when an old channel closes late;
`IdleHoldsNothing` starts the thread from nothing. `MovesAddUp` and the cursor's range rest on
`QuotientBound`, `WholeRest` and `OnDisplay`, lemmas about integer division for every geometry.

**`Trackpad` and `InputPath`.** Their theorems rest on `Injector`'s (`InjectorInv`).

- **Taps.** `EveryTapCounts` is inductive with `GestureShape` (a finger that may drag owes a click
  or drags; no gesture, no finger). The lemmas in front of it count the clicks in what
  each handler hands to `sendInput`. It is about the page's handlers only: `sendInput` drops
  what it is given while no channel is open, and a page that is left forgets what it owed.
- **Nothing stuck.** `NothingStuck` says nothing of messages under way. `WordKept` does: when the page is
  calm (connected and not holding the button), `LastWord` holds: the last press on the channel, or if it has none in
  the queue, is followed by a release, and if there is none either, nothing is pressed. That the page
  keeps it is `PageSpeaks` (what a handler sends ends with the button up whenever it leaves the page calm);
  that the host keeps it is `LeftIsHeld` (what is down is known to the next `Reset`) and `ResetIsLast`.
  It holds whatever presses and keys fail, as they change no button, until a release, or the move an
  `up` makes first, fails, or a host ends with the button down (`Clean`).

**`Signaling`.** All its safety properties, for any number of hosts and pages.

- **Sockets.** A connection waits at most once and is then registered, only registered
  connections hold slots, and nothing is on its way to one that is not registered and open
  (`Sockets`); one that has not had its configuration has it at the head of its queue
  (`Greeting`). `TypeCorrect` is proved without them, `ConfigComesFirst` from both.
- **Slots.** Without overtaking, `InOrder` (behind each connection that waits, the newest of
  its role does) makes `SlotIsNewest` and `Introduced` inductive (`NewestHoldsSlot`,
  `NewestIsIntroduced`). Finding 6 shows that they need the condition.
- **Whose answer.** `AcceptedIsNewest` says nothing of messages under way. `Issued` says
  that offers and answers carry the number of a session that has begun. `Guests` says that an
  answer to a host's newest session is its guest's, or the announcement of another viewer
  is ahead of it, so that the host drops it.
- **Order of answers.** `Orders`: along the way from a host to a page and back, what has got
  further is of an earlier session: answers, then the offer the page works on, then offers on
  their way. Older runs of the handler need no place in it, as they send nothing.
- **One answer.** `AnsweredOnce` is a step property. `Once` says of all the places an offer or
  its answer can be in that at most one is taken, and none before the offer is sent.

**Only model-checked:** all liveness (`RemovalDisconnects`, `ApprovalTakesEffect`,
`NewestServed`, `LettingGoReleases`, the fairness half of `GateKept`), which is beyond TLAPS
here. Every safety property a passing run checks is also a theorem, `LiveIsPaired` and
the three of who is who under the conditions above.

## 5. Plan

In order of importance.

1. TURN credentials taken once per run and their 24 hour life: needs a clock.
2. Pure functions against reference definitions: fingerprint extraction, key messages,
   host URL.

### Not modelled

- The vendored DTLS library (third party), deployment files, markup, styling and statistics.
- Server writes that block on a stalled client while the hub's lock is held: socket
  buffering is outside the models. The models take each write as done at once.
- Pixel conversion, libx264's settings, and the one-shot `png`, `gradient` and
  `capture` commands, which run straight through.
- The pairing code, names and times of devices: pure formatting, with tests of shared vectors.
- Retransmission and reordering of RTP packets by webrtc-rs and the browser, see
  `VideoPipeline`; loss of power and differing admin ports, see `PairedStore`.
