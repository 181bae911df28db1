# Second Screen: verification of the streaming path

Second Screen turns an Android device into an extra monitor of a Windows PC. An
indirect display driver captures the virtual monitor and publishes NV12 frames in
shared memory; a host process encodes the newest frame and streams it over TCP; the
Android client decodes it. This directory holds TLA+ models of that path, the TLC
configurations that check them, and proofs checked by TLAPS. Paths below are relative
to the repository's root (`main.cpp` is `src/native/streamer/main.cpp`, `Driver.cpp`
and `Driver.h` are in `src/native/driver/iddcx/`, `FrameRing.h` is in
`src/native/shared/`, the Java classes are in
`src/apps/android/app/src/main/java/com/secondscreen/android/`).

## 1. Inventory

| Part | State | Operations | Talks to |
|---|---|---|---|
| Swap-chain processor (`Driver.cpp` 503-1255) | two staging textures and a pending frame; three BGRA buffers, their in-use flags and queue, `stop`/`failed` under `m_BgraMutex`; view of the ring; sequence and frame counters | acquire, capture, map, queue, convert, publish, resize, shut down | operating system (swap chain, events), ring |
| Shared frame ring (`FrameRing.h`) | a header and `kSlotCount` slots, each with a state, a header and a payload; an auto-reset event | claim, publish (`ClaimFrameSlot`, `PublishBgraFrame`); create and zero (`FrameRingHost`); read the newest (`FrameRingReader`) | driver and host, without a lock |
| Host stream (`main.cpp` 1428-1558, 3319-3747, 3862-3883) | one-place `LatestFrameQueue` with a heartbeat flag, `AsyncStreamState`, the listener and client sockets, `g_stop` | accept loop and three threads for each client: capture loop, encode-and-send worker, cursor; console handler | ring, encoder, client |
| Video encoder (`main.cpp` 1917-3021) | three NVENC slots, queue of pending ones, count of ready outputs; Media Foundation transform with its events and a queue of ids | encode, poll, drain, reset, fall back to software | worker thread, `PacketWriter` |
| Packets and handshake (`main.cpp` 148-626, 677-936, `readPacket`, `findNalUnit`) | - | JSON request and response, packet header, video and cursor payloads, access units in four layouts | client |
| Stream receiver and decoder (`StreamReceiver`, `LatestFrameQueue`, `VideoDecoder`) | two-place queue of access units; `lastFrameId`, `waitingForRandomAccess`; `closed`, `stopRequested`, `decoderFailure` | three threads: receive, decode, watchdog; `close()` | socket, MediaCodec, connection manager |
| Connection manager (`ConnectionManager`) | generation, running flag, active socket and receiver under a lock | start, stop, reconnect, close; reconnect loop per generation | activity, receiver |
| User interface, statistics, cursor overlay | surface and activity life cycle, counters | callbacks on the main thread | connection manager |
| Pixel conversion (`Driver.cpp` 133-307, `Avx2Convert.cpp`) | none | BGRA to NV12 with integers, SSE2 or AVX2 | conversion thread |
| JSON, UTF-8 | none | pure functions | handshake |
| Adapter and monitor set-up, scripts, packaging | framework objects | one-shot callbacks, installation | driver framework |

**What is hard here.**

- The ring is shared by two processes that take no lock and may each die or be
  restarted at any access. Driver and reader each claim slots by compare-and-swap
  after scans whose results are stale by then.
- The capture pipeline hands buffers between two threads through two textures, a
  pending frame, three buffers and a queue, with about twenty early returns; a
  resolution change or a failure may come at any of them.
- The view of the ring is used by both driver threads, checked once and unmapped by
  one of them.
- Ends of a stream come from either side, from any of three threads on each, from a
  watchdog, from a user and from the console, and all of them have to lead to exactly
  one orderly end.
- `ConnectionManager.stop()` does not wait for the loop it stops, so that loops of
  several generations overlap, each with a socket, a receiver and perhaps a codec on the
  surface the next one needs.
- H.264 units depend on each other, the client's queue loses units by design, and a
  loss is known only from frame ids that were made for something else.

`PROJECT.json` lists these hazards one by one at the line where they bite, with the
properties that watch over them.

**What makes each part correct.**

- *Ring*: a slot is never written and read at once; a frame shown is of one capture;
  frames come in order, at most once, never before they are published; the newest wins
  and is eventually shown; publishing never runs out of slots; no slot is lost but by a
  crash.
- *Swap-chain processor*: one publisher at a time, buffers accounted for, frames
  published once and in order with their own pixels, drained at the end, and the
  destructor returns.
- *Host stream*: what is queued is sent; a static scene is no reason to end; whoever
  ends first, everyone ends and the next client can come.
- *Receiver*: an IDR is never lost to the queue; a loss is noticed; recovery ends at an
  IDR that was decoded; ends are reported and reach all threads.
- *Encoder*: units leave in order and in whole sequences, each under the id of the frame
  it shows, also when the hardware fails half way; nothing is left behind by a drain or on
  a static desktop.
- *Connection manager*: a displayed activity always has one loop of the current
  generation; `stop()` can reach every socket on which a loop may wait; what is replaced
  winds up and makes at most one late report; a stopped manager frees codec, socket and
  host, and a running one gets its stream from a running host once failures have stopped.
- *Packets*: the client reads what the host wrote, and both sides see a random access
  point exactly where one is.
- *Pixel conversion*: three forms of the same formulas give the same picture, in limited
  range.

## 2. Modules

| Module | Models | One step is |
|---|---|---|
| `FrameRing` | the ring between the driver's publishing thread and the host, `ClaimFrameSlot`, `PublishBgraFrame`, `EnsureFrameRing`, `FrameRingHost`, `FrameRingReader`; crashes, restarts and replacement of either side | one access to shared memory |
| `FrameChannel` | what the ring promises: a lossy channel that keeps the order | a publication or a delivery |
| `FrameRing_proofs` | theorems about `FrameRing` | |
| `CapturePipeline` | one `SwapChainProcessor`: swap-chain thread, conversion thread, destructor | a critical section or a call |
| `CapturePipeline_proofs` | theorems about `CapturePipeline` and `MCCapture` | |
| `PixelConversion` | `ConvertBgraToNv12` in its three forms, by what the instructions do to lanes | an algorithm |
| `PixelConversion_proofs` | theorems about the pixels and the pictures of `PixelConversion` | |
| `MCCapture` | `CapturePipeline` with the pictures its publications convert | |
| `HostStream` | the accept loop, one `StreamClient` after the other with its three threads and queue, the console handler, the client's departure | a critical section, a send, or a wait |
| `HostStream_proofs` | theorems about `HostStream` | |
| `VideoEncoder` | one `H264Encoder` as the worker thread uses it: the slot pipeline of `NvencH264Encoder` and its GPU, the asynchronous hardware transform, the synchronous software transform, the fallback | a call into the encoder library, an output, or an event |
| `VideoEncoder_proofs` | theorems about `VideoEncoder` | |
| `VideoReceiver` | one `StreamReceiver.run`: three threads, the queue, `VideoDecoder`, the watchdog, `close()`, and the host as the source of packets | a synchronized method, a packet, or a flag |
| `VideoReceiver_proofs` | theorems about `VideoReceiver` and `MCReceiver` | |
| `PacketFormat` | `PacketWriter` and `CursorTracker`'s scaling on one side, `readPacket`, `dispatchControl` and `findNalUnit` on the other | an algorithm |
| `PacketFormat_proofs` | theorems about the packets, access units and streams of `PacketFormat` | |
| `MCReceiver` | `VideoReceiver` and `PacketFormat`: the bytes of the packets on the wire | |
| `ConnectionManager` | `ConnectionManager` and the callbacks of `MainActivity`: the main thread, the loops of all generations, surfaces and codecs, and the host as it serves one socket at a time | a critical section, a call, a report, or a wait |
| `ConnectionManager_proofs` | theorems about `ConnectionManager` | |

The modules meet at promises. `HostStream` reads the ring as the channel `FrameRing`
is shown to implement; its sends are `VideoReceiver`'s wire; a receiver in
`ConnectionManager` ends once it is closed or fails, which is `AllEnd` of
`VideoReceiver`, and its host notices a closed socket and serves the next one, which is
`EndsTogether` of `HostStream`.

**How state corresponds to the code.** Variables ending in `pc` are the threads' program
counters; their values are named for the code that comes next. Everything else has
the source's name or is described at its declaration. Some variables are history:
`captured`, `published` and `shown` (`FrameRing`), `published` and `presented`
(`CapturePipeline`), `last` and `chain` (`VideoReceiver`), `last` (`VideoEncoder`), `captured` and `sent`
(`HostStream`), `stale` and `late` (`ConnectionManager`). In `CapturePipeline`, `calm` is
chosen once and separates the
behaviours in which no call fails, for which `DrainedAtShutdown` is stated, from the
rest; `steady` in `VideoEncoder` likewise separates the behaviours in which the GPU asks
for more input or refuses a finished output, after which `FrameIsSent` is not claimed.

**Abstractions.**

- A frame is the number of its capture. A payload is the number of the capture its
  bytes belong to, so that a torn frame is a header and a payload that disagree. The
  copy itself is one step: copies do not overlap as long as `SlotExclusion` holds.
- The ring's zeroing by `memset` is one step for each slot header and each payload, in
  address order, so that the driver can run in between.
- A condition variable is a guard, since every change that can make a waiting
  predicate true is followed by a notification in the code. A timed wait is a step
  that may be taken while the predicate is false.
- A socket or API call either does its work or fails. Which calls may fail is the
  constant `Faults`; a fault may happen, and never has to.
- In `VideoReceiver` an access unit is the number of its encoding and depends on the
  unit before it unless it is an IDR. Its frame id is another number, because the ring
  skips frames and an idle desktop is encoded again under the same id.
- `closed` stands in `VideoReceiver` for the field, the queue's flag and the socket,
  which the code always sets one after the other. The joins at the end of `run` give up
  after their time, or at once when `stop()` has interrupted the thread, and leave behind a
  decoder thread that is in the codec or releases it.
- A unit of `VideoEncoder` carries its place in the encoder's sequence, so that a missing
  reference shows as a gap. GPU and hardware transform are external: they work in order,
  each output is finished some time after its input, and a transform keeps at most
  `Latency` units back. The pixel copies and the encoder's parameters are left out, and
  so is the initialisation, which yields one of the three encoders. Left out too is the
  answer `MF_E_TRANSFORM_STREAM_CHANGE` in `PumpOutput` (`main.cpp` 2976-2982): a transform
  gives it once, before its first output, and the hardware path returns on it with that
  output still inside, for which the transform owes another event.
- `HostStream` takes the ring as a cell that holds the newest frame until it is read
  (that is what `FrameRing` checks) and the encoder as a call that sends a frame or
  fails. Whether a new client is shown the frame the reader still caches depends on sizes
  that are not modelled: either may happen. The count of sent frames stands for the one
  the accept loop compares and for the one of the stream, which agree whenever they are
  compared with a limit. The pointer is unknown to the client, told, or has moved since.
- `ConnectionManager` names a loop, its socket and its receiver by their generation.
  Consecutive checks of `isCurrent` with nothing between them are one step, since a loop
  that is not current never is again; the surface is read together with the check and
  installation that follow, because a new surface comes only after `stop()`; the wait
  before the next attempt is part of the
  step that checks whether to make one. A closed socket is one `stop()` closed, an
  `eof` one whose host is gone.
- `PacketFormat` counts bytes as the code does, but a byte has `Base` values: the
  lengths that need two bytes, or look like a start code, then happen in short sequences.
- `PixelConversion` describes an instruction by the lanes it leaves: width, sign,
  saturation, and order for `hadd_epi32`.

## 3. Runs

| Run | Module, cfg | Expected | Shows |
|---|---|---|---|
| `ring_safety` | `FrameRing_safety.cfg` | pass | One driver and a host that may exit at any access and start again, with a `SetEvent` that may fail: `ClaimNeverFails`, `SlotExclusion`, the refinement `ChannelSpec`, and `ReadyFrameReachesClient` under fairness. |
| `ring_crash` | `FrameRing_crash.cfg` | pass | A driver that dies twice at any access or cannot read its clock, with processors and clients that follow: `OrphansBounded`, `NoTornFrame`. |
| `ring_reassign` | `FrameRing_reassign.cfg` | violation | `ReadyFrameReachesClient` with a second processor (finding 1). |
| `capture_safety` | `MCCapture`, `CapturePipeline_safety.cfg` | pass | Five frames of two sizes, every call failing or none, a host restart, destruction at any step: `SinglePublisher`, `BuffersAccounted`, `PublishedInOrder`, `DrainedAtShutdown`, `ShutdownReturns`, `PredecessorPublished`; and `PathsAgree` of the pictures published. |
| `capture_unmap` | `CapturePipeline_unmap.cfg` | violation | `ViewMappedWhileWriting` (finding 2). |
| `capture_stuck` | `CapturePipeline_stuck.cfg` | violation | `EveryFramePublished` (finding 3). |
| `encoder_safety` | `VideoEncoder_safety.cfg` | pass | Each of the three encoders, every call failing, the fallback at any point, refreshes, a drain: `SentUnderItsId`, `UnitsDecodable`, `NeverBack`, `DrainSendsAll`, and `FrameIsSent` under fairness. |
| `receiver_safety` | `MCReceiver`, `VideoReceiver_safety.cfg` | pass | `IdrKept`, `LossNoticed`, `FailureReported`, `AllEnd`, and `PacketsReadBack`, `UnitsFoundAgain` of the bytes on the wire, with skipped, repeated, starved and dropped units, a host that closes, a watchdog and a `close()` at any step. |
| `receiver_starved` | `VideoReceiver_starved.cfg` | violation | `RecoveryEndsAtIdr` (finding 4). |
| `host_safety` | `HostStream_safety.cfg` | pass | Two clients one after the other, with and without a frame limit, every call failing, the client leaving or silent, the host stopped at any step: `QueuedFrameSent`, `EndsTogether`, `StopEndsHost`, `CursorShown`. |
| `host_static` | `HostStream_static.cfg` | violation | `StaticSceneKeepsClient` (finding 5). |
| `connection_safety` | `ConnectionManager_safety.cfg` | pass | Surface and activity callbacks in every order, the retry button, a failure at any place, a host that goes and comes: `LoopAlive`, `OpenStreamIsReachable`, `StaleReportsOnce`, `StatusIsTrue`, and under fairness `StopReleasesAll`, `StreamStarts`. |

Each module's `TypeOK` is checked in its passing run.

**Bounds, and why they are enough.**

- *Slots*: the program's two (`FrameRing.h` 11). The proofs hold for every number.
- *Captures*: four, so that every slot is filled, overwritten and read, and a
  driver laps the reader, with two slots and one held.
- *Processors, crashes, host starts, clients*: one more than the property needs for
  the history that would break it: a predecessor's frame, an orphaned slot, a mapping
  that survives, a cached frame to replay.
- *Capture pipeline*: the program's three buffers, two sizes so that the buffers grow
  and the textures change back, and five frames so that every texture and buffer is
  reused.
- *Receiver*: the program's queue of two, an IDR every three units and four units, so
  that an IDR follows a loss; four ids, so that the ring skips; one refresh and one
  starved unit. One packet under way is enough, since packets wait in the host's
  socket as they do in the client's and only their order matters.
- *Encoder*: the program's three slots, and four frames besides any number of
  refreshes, so that every slot is used again while others are pending; a key unit every
  three, so that key and other units meet every slot; a transform that keeps one unit
  back.
- *Host*: two clients, so that the second meets what the first left behind (a cached
  frame, the handler half way); two frames, one sent or queued and one that comes
  later; limits of none and one, which is reached with a frame left.
- *Connection manager*: `start()` and `stop()` each take a generation. Four make two loops
  (1 and 3, say): one winds down behind the current one, with two surfaces and one failure,
  after which the next attempt has to succeed. That is the least at which an old loop can
  disturb its successor. The safety theorems speak of any number of loops; the two liveness
  properties, which no theorem covers, are checked with that one old loop only. Three loops
  (`MaxGeneration` 5) with two surfaces and no failure have 388,007 states, in which all
  properties hold as well, but leave too little room within five minutes for failures, so
  the configuration keeps the failures. Any number of rounds of a loop are possible within
  these.
- *Pictures*: all even widths around one and two vectors of four and of eight pixels,
  two and four rows, five pictures of which one has only the extreme values; the
  theorem speaks of every picture.
- *Packets*: NAL units of two to sixteen bytes over the byte values that matter to a start
  code, one to three of them in an access unit, and the four layouts the host takes. A byte
  has eight values and a length of sixteen bytes reaches its second digit; `MaxUnit` and
  `MaxSide` only have to leave room for what is sent. The theorems speak of every size of
  byte and of any number of units and packets.

**Deadlock** is checked except where the modelled part ends for good (a driver without
captures, a stream that has ended), which those configurations say.

**Fairness.** Every thread is weakly fair: it runs on while it can, which the systems'
schedulers provide, and a begun destructor, `close()` or console handler likewise. No
fairness is assumed of the operating system presenting frames, of the user, of the
client or host at the other end, of a watchdog finding a stall, or of any fault. Threads
whose next step is a choice between success and a fault may take either. The GPU and the
hardware transform are taken to finish what they were given, and an encoder that is busy
to be so for a while only; an idle worker refreshes, because its wait is limited
(`main.cpp` 3663). In `HostStream` neither accept, nor a handshake, nor the user owes
anything; `StopEndsHost` therefore has an exception: a client accepted before the console
handler looked for one, stored after, that then neither speaks nor leaves. In
`ConnectionManager` the loops, a call of the main thread that has begun, decoder threads
that were left behind and a running host go on; the user and the start of the host owe
nothing. `StreamStarts` rests on the bound on faults: it says that a stream starts once host,
network and codecs have failed `MaxFaults` times at most, not that one starts with a host
that ends every connection, which is what finding 5 is about.
`ReadyFrameReachesClient` holds although the reader's attempts may be defeated one by
one, because the bound on captures ends the interference: under an unbounded stream of
captures it says that the reader catches up as soon as the driver pauses.

## 4. Findings

Each is the counterexample of a run whose property states what the repository's
documents say.

1. `ring_reassign`: a new processor counts sequences from 1 (`Driver.h` 122) over a
   ring that still holds a frame with a higher sequence. The reader shows the old frame
   and frees the new one.
2. `capture_unmap`: `EnsureFrameRing` unmaps the view while the conversion thread is
   writing through it, after a host restart (`Driver.cpp` 539).
3. `capture_stuck`: the last frame before the desktop comes to rest stays in its
   staging texture (`Driver.cpp` 1139). `PredecessorPublished` states what does hold.
4. `receiver_starved`: the decoder leaves recovery for an IDR that it then drops for
   want of an input buffer (`VideoDecoder` 118-130).
5. `host_static`: a client that connects while nothing is drawn is dropped at the first
   heartbeat interval (`main.cpp` 3343).

More limits of the code show in the statement of a property, and no document promises
otherwise. A payload zeroed by a restarted host under the driver's hands is
delivered with an intact header (`NoTornFrame` is not claimed across a host restart).
A unit that is dropped between two with the same frame id leaves no gap (`LossNoticed`
excludes re-encoded frames). `TryReadLatest` frees another slot that held an older frame
when it looked, by a swap that compares the state only (`main.cpp` 1362-1368): the driver
can refill the slot with its newest frame in between, which is then lost until the next
capture (`ChannelSpec` allows a loss, `ReadyFrameReachesClient` a newer frame). A loop that
was replaced may make one more report, which stays on the screen over a running stream
until the current loop reports next (`StatusIsTrue` allows a status that was posted that way
and no other, `StaleReportsOnce` bounds them). A unit of 256 to 511 bytes, or
of one, behind a four-byte length prefix is taken for one with a start code
(`UnitsFoundAgain` leaves those lengths out). With two slots a driver that dies while it
writes one leaves the ring without a spare: `ClaimFrameSlot` of the next processor then
fails as soon as the reader holds the other slot, and with it that processor, until the
host is started again (`ClaimNeverFails` is checked without such a crash, and
`ClaimSucceeds` assumes two slots more than there are crashes).

## 5. Proofs

TLAPS checks eight modules; each theorem holds for every value of the constants that the
module's assumption admits. A theorem with further hypotheses states them, and they are given
here.

`FrameRing_proofs`, from `RingAssumption`:

- `TypeCorrect`: `TypeOK` is inductive as it stands because it includes which steps have an
  attempt left (`wtry < ClaimAttempts`) and which hold a slot (`WriterHolds => ws \in Slot`).
- `Exclusion`: `SlotExclusion`, if `SetEvent` does not fail. `SlotExclusion` is not
  inductive: it says nothing of what the reader's slot looks like to the driver's next
  compare-and-swap. `HeldTags` adds that: the slot the driver holds is `Writing`, or `Free`
  once a restarting host wiped it, and the slot the reader holds stays `Reading`, so that
  the two differ. Where `SetEvent` fails, the code frees a slot it has published, which the
  reader may hold, and a later processor could claim it: the hypothesis is needed.
- `FewOrphans`: `OrphansBounded`, whatever fails. The cardinality of the set of orphans is
  followed step by step: every path through a publication gives its slot back, a crash adds
  the one slot that was held, and nothing else adds any.
- `NeverTorn`: `NoTornFrame`, if `SetEvent` does not fail and the host is started once (see
  section 4). `OneHost`: the ring is set up before any driver can have claimed a slot.
  `Whole`: a slot that is ready or read has header and payload of one capture; with
  `HeldTags`, no copy runs beside a write.
- `ClaimSucceeds`: `ClaimNeverFails`, whatever fails, if there are two slots more than
  crashes. `OneReading`: at most one slot is being read, a former host's included.
  `Attempts` counts what the reader can do to the driver's three tries: the first fails only
  if the reader has claimed or freed a slot since the scan, the second only if it has freed
  one, and a free slot stays free while the driver looks for one; the third finds it. That
  the scan finds a slot at all is a counting argument: orphans, the reader's slot and the
  one left over are different slots.
- `RingIsChannel`: the refinement of `FrameChannel`, for one processor (a second one breaks
  it, finding 1). A step that marks a slot ready sends a frame, a step that releases the
  slot of a finished copy delivers one, every other step stutters. `Numbered`: sequence
  numbers grow with captures. `InOrder`: nothing in the ring that the reader can still
  choose is older than what it has shown, slot by slot through its two sweeps.

`CapturePipeline_proofs`, from `PipelineAssumption`, for any number of buffers, sizes,
frames and restarts and any set of faults:

- `ConversionsAgree` (`PathsAgree`), an instance of `PicturesAgree` below.
- `TypeCorrect`, `OnePublisher` (`SinglePublisher`), `Accounted` (`BuffersAccounted`),
  `InOrder` (`PublishedInOrder`) and `Drained` (`DrainedAtShutdown`), all from one
  invariant `IInv`. `Lifecycle`: how failure, stop and the two threads' ends go
  together, and that the conversion thread is at rest while the other one publishes by
  itself. `Calls`: which frame a call maps at each of its call sites. `Textures` and
  `Contents`: a texture holds its frame until it is mapped, a buffer until it is converted.
  `Accounts`: a buffer in use is with the swap-chain thread, in the queue or with the
  conversion thread, and in one place only. `InLine`: published frames, the frame in
  conversion, the queue, the staged frame and the captured one stand in capture order; each
  step moves a frame to the next place or gives it up, which is one lemma for each place.
  `Undisturbed`: where no call fails, no frame is given up.

`HostStream_proofs`, from `HostAssumption`, whatever fails:

- `TypeCorrect`: needs `Below`, that the worker checks its frame limit before it goes on.
- `ClientsApart`: when the host accepts the next client or leaves its loop, the socket of
  the one before is closed, and no thread, frame, flag or closed queue of it is left, wherever
  the console handler found the host. `Fresh` says what exists of a client at each step of
  the main thread, `Sockets` that an open socket is either main's alone or known to the
  handler too, so that exactly one of them closes it.
- `NewestIsSent`: a worker that waits at an empty queue while the stream runs has sent the
  newest frame that main has read; neither a heartbeat nor a refresh swallows one. `Forward`:
  frame ids grow on their way from ring to socket. `Kept`: the frame read last is in the
  queue, with the worker, or sent. This is the safety part of `QueuedFrameSent`.
- `NeverBackwards`: an action property from the same invariant: no client is sent an older
  frame after a newer one, though the worker sends the last one again and again.

`VideoEncoder_proofs`, from `EncoderAssumption`, for any number of slots, frames and
requests, and any key interval and latency:

- `TypeCorrect`, `SentUnder` (`SentUnderItsId`), `DrainSends` (`DrainSendsAll`), and the
  action properties `Decodable` (`UnitsDecodable`) and `Forward` (`NeverBack`), from one
  invariant `IInv`. `Places` and `Unused`: where the worker can be with each encoder, and
  what that encoder leaves empty. `Events`: the transform asks for no more input than it has
  room for, and reports a drained transform behind all its outputs. `Pipeline`: pending slots
  are the ones before `nextSlot`, counted backwards, hence different from each other, and the
  ones not completed are the last of them; that is why no slot is written before it was sent.
  `InStep`: the ids that wait are, one by one, those of the units in the encoder. `Chain`: the
  units made and not yet sent follow each other and the last one sent.

`VideoReceiver_proofs`, from `ReceiverAssumption`, for any number of units, ids and places
in the queue, and any key interval:

- `TypeCorrect`, `Reported` (`FailureReported`), `Noticed` (`LossNoticed`) and the action
  property `Kept` (`IdrKept`), from one invariant `IInv`. `Reasons`: whoever closes the stream
  leaves a reason, unless `close()` did. `InLine`: between the unit the codec had last and the
  next one to be encoded, the units on the wire, in the reader's hand, in the queue and with
  the decoder are in order, and while each frame is encoded once their ids are at least as far
  apart as they are; that is why a gap in the ids betrays a loss. `Referenced`: what the
  codec refers to has an id.
- `UnitsFound` (`UnitsFoundAgain`) and `PacketsRead` (`PacketsReadBack`), from
  `FormatAssumption` besides: 256 values of a byte, 32 types, 0x31565353, 16 MiB and 16384 in
  the code, the small numbers of the configuration, and everything else it admits. The
  pictures of `MCReceiver` are shown to meet the hypotheses of `UnitFoundAgain`, and its
  packets those of `StreamReadsBack`, both below.

`ConnectionManager_proofs`, from `ConnectionAssumption`, for any number of generations,
surfaces and failures:

- `TypeCorrect`, `KeepsTrying` (`LoopAlive`), `Reachable` (`OpenStreamIsReachable`),
  `OneLateReport` (`StaleReportsOnce`) and `TrueStatus` (`StatusIsTrue`), from one invariant
  `IInv`. `Calls`: a generation that was never reached has no loop, so that `start()`
  overwrites none; between `close()` setting its flag and its `stop()` the flag stands.
  `Sockets`: where in its round a loop has a socket, and that the host serves an open one.
  `Actives`: what is installed belongs to the current generation, and a current loop past
  its installation is the one installed, so that `stop()` closes exactly what a loop may
  wait on. `Loops`: a loop gives up only when it is no longer current, which it then stays.
  `Reports`: a loop that has made its late report stands where no report comes next, which
  holds because each report is preceded by a check. `StatusIsTrue` is inductive with these: a
  step of the current loop that reports nothing keeps its phase (`StatusKept`), a report
  says what comes next or is late (`StatusNoted`). There is one step lemma for each part,
  with one step for each action.

`PixelConversion_proofs`, from no assumption, for every colour and picture:

- `LumaExact`, `ChromaExact`: the integer, SSE2 and AVX2 forms agree and the result is
  within limited range. No lane overflows, since a weighted sum of luma is at most 56100
  (16 bits unsigned) and one of chroma stays within 28560 (16 bits signed), and nothing is
  saturated. `MeanIsPixel`: the mean of four pixels has components of a byte, so that
  `ChromaExact` applies to what is averaged.
- `PicturesAgree`: for every picture of even width and height, SSE2 and AVX2 leave in each
  byte of both planes what the scalar formulas leave there. A row is taken apart into
  vectors and the rest: which lanes hold which columns after `hadd_epi32` and the
  compaction, and that the scalar loop begins where the last vector ended.

`PacketFormat_proofs`, for a byte of any even number of values, a magic number that fits
into four bytes and access units short enough to leave the top bit of a length free
(`FormatOK`; 256, 0x31565353 and 16 MiB in the code):

- `VideoReadsBack`, `HeartbeatReadsBack`, `CursorReadsBack`: for every id, time, access unit
  and pointer that fit their fields, and whatever follows on the wire, the client reads the
  packet as the host wrote it and up to its last byte. `FieldReadsBack` does the numbers:
  the bytes of a field are the remainders of the value shifted byte by byte, and reading
  rebuilds the shifts from the last one, which is 0. `At`, some bytes standing in others
  from a place on, does the positions.
- `CursorInside`: the position sent lies within the stream, for every monitor and every
  position on or beside it. The last clause of `PacketsReadBack`, for all integers.
- `FindsFirst`, `ContainsExactly`: however many units an access unit has, behind start codes
  of three or of four bytes, the client finds the first of a type as it was, and the host
  finds one exactly if there is one. The units are what the standard asks of an encoder
  (`IsNal`: no start code within, no zero at the end), and for the client, which stops its
  search four bytes before the end, the last one has two bytes behind a start code of
  three. `InCodes`: start codes are
  seen where the units begin, a second time one byte later if they have four bytes, and
  nowhere else.
- `SentWithStartCodes`: however many units there are, the host sends them unchanged and in
  order in each of the four layouts. `InTwoBytes` and `InFourBytes` are what this takes of
  lengths in front of units: each fits its field; the first one of four bytes does not look
  like a start code (section 4); and the host tries four bytes first, so that the first two
  lengths and bytes must not read as a length within the payload.
- `UnitFoundAgain` joins the three, from the encoder's output to the decoder.
- `StreamReadsBack`: however many packets of all kinds the host sends, the client reads those,
  in order and with their fields, to the end of the stream. The theorems about one packet
  allow for anything behind it, which here is the rest of the stream.

These follow sequences of any length, for which the library's induction theorems cannot be
used, since they take an operator. `Least` gets from the well-founded minimum of a set what
induction would give: a set of numbers that is not empty has a least one. `Recursion`: a
recursive function on 1 to n exists and solves its equation, which is all that the loops of
both sides (`from` in `FindNalUnit`, `Converted`, `ReadAll`) are known by. `Lays` and
`FlattenLays`: parts put one after the other stand in the whole at the sums of the lengths
before them, so that what a loop does at the beginning of one part leads to the beginning of
the next.

**Only model-checked.** All liveness (`ReadyFrameReachesClient`, `ShutdownReturns`,
`PredecessorPublished`, `FrameIsSent`, `AllEnd`, `QueuedFrameSent`, `EndsTogether`,
`StopEndsHost`, `CursorShown`, `StopReleasesAll`, `StreamStarts`), which the proof system does
not treat. Every invariant and every other property of the passing runs has a theorem.

## 6. Plan

The components are modelled and their safety properties proved. What is left, in this order:

1. `StreamPath`, composing the promises of ring, host and receiver: frames reach the
   screen in capture order from end to end.
2. Packets sent in two parts in `HostStream`, so that a packet torn by a timeout can be
   followed by one of the cursor thread.

## 7. Not modelled

- Adapter and monitor set-up and the driver's cursor channel: one-shot callbacks of the
  driver framework.
- Drawing, logging, statistics, start-up options, scripts and packaging: no other part
  depends on their state.
- The JSON parser and UTF-8 validation: pure functions of one message. The handshake is
  modelled by its outcome.
- Direct3D, Media Foundation, NVENC and MediaCodec are calls that succeed or fail, and the
  contents of a picture beyond its conversion are a number.
- Real time: a timeout may pass whenever what it waits for has not come.

## 8. Running

    tlc -config FrameRing_safety.cfg FrameRing.tla
    tlc -config CapturePipeline_safety.cfg MCCapture.tla
    tlc -config VideoReceiver_safety.cfg MCReceiver.tla
    tlapm FrameRing_proofs.tla

Every other configuration names its module before the underscore. With two workers the
passing runs take from a few seconds to two and a half minutes, a proof module from ten
seconds to five minutes.
