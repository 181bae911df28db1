---------------------------- MODULE VideoReceiver ----------------------------
(***************************************************************************)
(* One video stream on the Android side: StreamReceiver.run (the receiver  *)
(* thread), its decoder thread (decodeLoop, VideoDecoder.decode) behind    *)
(* the two-place LatestFrameQueue, its watchdog thread, and the close()    *)
(* called by ConnectionManager.  The host is its source of packets.        *)
(*                                                                         *)
(* An access unit is the number n of its encoding: unit n is a random      *)
(* access point (IDR) every KeyInterval units and depends on unit n - 1    *)
(* otherwise.  Its frame id is that of the captured frame, which is not    *)
(* the same thing: the ring skips frames, and an idle desktop is encoded   *)
(* again under the same id.                                                *)
(*                                                                         *)
(* "closed" stands for the field, the closed flag of the queue and the     *)
(* closed socket, which the code always sets one after the other.          *)
(***************************************************************************)
EXTENDS Integers, Sequences, SequencesExt

CONSTANTS
  MaxPending,   \* MAX_PENDING_FRAMES of the queue
  KeyInterval,  \* units from one IDR to the next
  MaxUnits,     \* bound: units the host sends
  MaxId,        \* bound: highest frame id
  MaxRefreshes, \* bound: re-encodings of an idle desktop
  MaxStarved,   \* bound: units for which the codec has no input buffer
  WireCap       \* bound: packets under way

ASSUME ReceiverAssumption ==
  /\ {MaxPending, KeyInterval, MaxId, WireCap} \subseteq Nat \ {0}
  /\ {MaxUnits, MaxRefreshes, MaxStarved} \subseteq Nat

Heartbeat == [kind |-> "heartbeat", n |-> -1, id |-> 0, idr |-> FALSE]
NoUnit    == [kind |-> "none", n |-> -1, id |-> 0, idr |-> FALSE]

VARIABLES
  units, lastId, refreshes, wire, eof,   \* the host, and the packets under way
  rpc, frame, error,                     \* run(): its step, frame, and what it throws
  queue,
  dpc, unit,                             \* decodeLoop: its step, the frame it took
  lastFrameId, waiting,                  \* VideoDecoder: waitingForRandomAccess
  starved,
  wpc,                                   \* watchdogLoop
  cpc, stopRequested,                    \* close()
  closed, failure,                       \* decoderFailure
  last, chain                            \* the last unit given to the codec, and what it refers to

host    == <<units, lastId, refreshes, wire, eof>>
recv    == <<rpc, frame, error>>
decoder == <<dpc, unit, lastFrameId, waiting, starved, last, chain>>
control == <<cpc, stopRequested>>
vars    == <<host, recv, queue, decoder, wpc, control, closed, failure>>

----------------------------------------------------------------------------
(* The host (H264Encoder, PacketWriter).                                   *)

\* On a socket closed at the other end a send fails.
CanSend == ~eof /\ ~closed /\ Len(wire) < WireCap

Send(id) ==
  /\ CanSend /\ units < MaxUnits
  /\ wire' = Append(wire, [kind |-> "video", n |-> units, id |-> id,
                           idr |-> units % KeyInterval = 0])
  /\ units' = units + 1
  /\ lastId' = id
  /\ UNCHANGED <<eof, recv, queue, decoder, wpc, control, closed, failure>>

\* A newly captured frame, the next one or the one after a skipped one.
SendNew ==
  /\ \E step \in {1, 2} : lastId + step <= MaxId /\ Send(lastId + step)
  /\ UNCHANGED refreshes

\* The latest frame again, after a refresh interval without a new one.
SendRefresh ==
  /\ units > 0 /\ refreshes < MaxRefreshes
  /\ refreshes' = refreshes + 1
  /\ Send(lastId)

SendHeartbeat ==
  /\ CanSend
  /\ wire' = Append(wire, Heartbeat)
  /\ UNCHANGED <<units, lastId, refreshes, eof, recv, queue, decoder, wpc, control, closed, failure>>

HostCloses ==
  /\ ~eof
  /\ eof' = TRUE
  /\ UNCHANGED <<units, lastId, refreshes, wire, recv, queue, decoder, wpc, control, closed, failure>>

----------------------------------------------------------------------------
(* LatestFrameQueue.offer.                                                 *)

FullTooLate == Len(queue) > MaxPending              \* (Mutant.)
Full        == Len(queue) >= MaxPending

\* A queued IDR is kept in preference to a unit that depends on it.
RefuseNone(f) == FALSE                              \* (Mutant.)
Refuse(f)     == Head(queue).idr /\ ~f.idr

Offer(f) ==
  queue' = IF closed THEN queue
           ELSE IF ~Full THEN Append(queue, f)
           ELSE IF Refuse(f) THEN queue
           ELSE Append(Tail(queue), f)

----------------------------------------------------------------------------
(* StreamReceiver.run.                                                     *)

\* A read fails at the end of the stream or on a closed socket, though a packet
\* that is already buffered may still be read from it.
EofOnly   == eof /\ wire = <<>>                     \* (Mutant: close leaves the socket open.)
ReadFails == closed \/ (eof /\ wire = <<>>)

Receive(next) ==
  /\ wire # <<>>
  /\ wire' = Tail(wire)
  /\ IF Head(wire).kind = "video" THEN frame' = Head(wire) /\ rpc' = next
                                  ELSE UNCHANGED frame /\ rpc' = IF rpc = "first" THEN "first" ELSE "loop"

\* The exception is dropped when the stop was asked for.
Throw(cause) == error' = IF stopRequested THEN error ELSE cause

ReadFirst ==
  /\ rpc = "first"
  /\ \/ /\ Receive("start")
        /\ UNCHANGED error
     \/ /\ ReadFails
        /\ rpc' = "returned" /\ error' = "io"
        /\ UNCHANGED <<frame, wire>>
  /\ UNCHANGED <<units, lastId, refreshes, eof, queue, decoder, wpc, control, closed, failure>>

StartDecoder ==
  /\ rpc = "start"
  /\ \/ rpc' = "offerFirst" /\ dpc' = "take" /\ UNCHANGED error
     \/ rpc' = "returned" /\ error' = "io" /\ UNCHANGED dpc
  /\ UNCHANGED <<host, frame, queue, unit, lastFrameId, waiting, starved, last, chain,
                 wpc, control, closed, failure>>

OfferFirst ==
  /\ rpc = "offerFirst"
  /\ Offer(frame)
  /\ frame' = NoUnit
  /\ wpc' = "sleep"
  /\ rpc' = "loop"
  /\ UNCHANGED <<host, error, decoder, control, closed, failure>>

LoopHead ==
  /\ rpc = "loop"
  /\ \/ closed /\ rpc' = "finally" /\ UNCHANGED error
     \/ ~closed /\ failure # "none" /\ rpc' = "finally" /\ Throw("decoder")
     \/ ~closed /\ failure = "none" /\ rpc' = "read" /\ UNCHANGED error
  /\ UNCHANGED <<host, frame, queue, decoder, wpc, control, closed, failure>>

ReadNext ==
  /\ rpc = "read"
  /\ \/ /\ Receive("offer")
        /\ UNCHANGED error
     \/ /\ ReadFails
        /\ rpc' = "finally" /\ Throw("io")
        /\ UNCHANGED <<frame, wire>>
  /\ UNCHANGED <<units, lastId, refreshes, eof, queue, decoder, wpc, control, closed, failure>>

OfferFrame ==
  /\ rpc = "offer"
  /\ Offer(frame)
  /\ frame' = NoUnit
  /\ rpc' = "loop"
  /\ UNCHANGED <<host, error, decoder, wpc, control, closed, failure>>

Shut == closed' = TRUE /\ queue' = <<>>

Finally ==
  /\ rpc = "finally"
  /\ Shut
  /\ rpc' = "joinDecoder"
  /\ UNCHANGED <<host, frame, error, decoder, wpc, control, failure>>

\* join(1000): a decoder thread held up in the codec, which it feeds or releases, is left
\* behind.  ConnectionManager.stop() interrupts this thread after close(), and then neither
\* join waits.
JoinDecoder ==
  /\ rpc = "joinDecoder"
  /\ dpc \in {"exited", "decode", "release"} \/ stopRequested
  /\ rpc' = "joinWatchdog"
  /\ UNCHANGED <<host, frame, error, queue, decoder, wpc, control, closed, failure>>

JoinWatchdog ==
  /\ rpc = "joinWatchdog"
  /\ wpc = "exited" \/ stopRequested
  /\ rpc' = "returned"
  /\ error' = IF ~stopRequested /\ failure # "none" THEN "decoder" ELSE error
  /\ UNCHANGED <<host, frame, queue, decoder, wpc, control, closed, failure>>

ReceiverStep ==
  \/ ReadFirst \/ StartDecoder \/ OfferFirst \/ LoopHead \/ ReadNext \/ OfferFrame
  \/ Finally \/ JoinDecoder \/ JoinWatchdog

----------------------------------------------------------------------------
(* decodeLoop and VideoDecoder.decode.                                     *)

\* decoderFailure.compareAndSet(null, cause).
Forget(cause) == UNCHANGED failure                  \* (Mutant.)
Blame(cause)  == failure' = IF failure = "none" THEN cause ELSE failure

TakeFrame ==
  /\ dpc = "take"
  /\ \/ /\ queue # <<>>
        /\ unit' = Head(queue) /\ queue' = Tail(queue)
        /\ dpc' = "decode"
     \/ /\ queue = <<>> /\ closed
        /\ dpc' = "release"
        /\ UNCHANGED <<unit, queue>>
  /\ UNCHANGED <<host, recv, lastFrameId, waiting, starved, last, chain, wpc, control, closed, failure>>

\* run() or close() interrupts the thread while it waits for a frame.
TakeInterrupted ==
  /\ dpc = "take"
  /\ rpc \in {"joinDecoder", "joinWatchdog", "returned"} \/ cpc = "done"
  /\ IF stopRequested THEN UNCHANGED failure ELSE Blame("interrupted")
  /\ dpc' = "release"
  /\ UNCHANGED <<host, recv, queue, unit, lastFrameId, waiting, starved, last, chain, wpc, control, closed>>

WideGap(id) == lastFrameId >= 0 /\ id > lastFrameId + 2    \* (Mutant.)
Gap(id)     == lastFrameId >= 0 /\ id > lastFrameId + 1

\* What the codec holds after it is given a unit.
Reference(u) ==
  IF u.idr THEN "clean"
  ELSE IF chain = "clean" /\ u.n = last + 1 THEN "clean"
  ELSE IF chain = "none" THEN "none"
  ELSE "broken"

Decode ==
  /\ dpc = "decode"
  /\ unit' = NoUnit
  /\ lastFrameId' = unit.id
  /\ waiting' = ((waiting \/ Gap(unit.id)) /\ ~unit.idr)
  /\ \/ /\ waiting'                                  \* skipped until the next IDR
        /\ dpc' = "take"
        /\ UNCHANGED <<starved, last, chain, failure>>
     \/ /\ ~waiting' /\ starved < MaxStarved         \* dequeueInputBuffer: none in time
        /\ starved' = starved + 1
        /\ dpc' = "take"
        /\ UNCHANGED <<last, chain, failure>>
     \/ /\ ~waiting'                                 \* queueInputBuffer
        /\ last' = unit.n /\ chain' = Reference(unit)
        /\ dpc' = "take"
        /\ UNCHANGED <<starved, failure>>
     \/ /\ ~waiting'                                 \* the codec throws
        /\ IF stopRequested THEN UNCHANGED failure ELSE Blame("codec")
        /\ dpc' = "failing"
        /\ UNCHANGED <<starved, last, chain>>
  /\ UNCHANGED <<host, recv, queue, wpc, control, closed>>

DecoderCloses ==
  /\ dpc = "failing"
  /\ Shut
  /\ dpc' = "release"
  /\ UNCHANGED <<host, recv, unit, lastFrameId, waiting, starved, last, chain, wpc, control, failure>>

ReleaseCodec ==
  /\ dpc = "release"
  /\ dpc' = "exited"
  /\ UNCHANGED <<host, recv, queue, unit, lastFrameId, waiting, starved, last, chain,
                 wpc, control, closed, failure>>

DecoderStep == TakeFrame \/ TakeInterrupted \/ Decode \/ DecoderCloses \/ ReleaseCodec

----------------------------------------------------------------------------
(* watchdogLoop, failStream and close.                                     *)

\* No packet for five seconds, or a decoder busy for as long.
Stalled == (rpc = "read" /\ wire = <<>>) \/ dpc = "decode"

WatchdogFires ==
  /\ wpc = "sleep" /\ ~closed
  /\ Stalled
  /\ Blame("watchdog")
  /\ wpc' = "failing"
  /\ UNCHANGED <<host, recv, queue, decoder, control, closed>>

WatchdogCloses ==
  /\ wpc = "failing"
  /\ Shut
  /\ wpc' = "exited"
  /\ UNCHANGED <<host, recv, decoder, control, failure>>

WatchdogEnds ==
  /\ wpc = "sleep" /\ closed
  /\ wpc' = "exited"
  /\ UNCHANGED <<host, recv, queue, decoder, control, closed, failure>>

WatchdogStep == WatchdogCloses \/ WatchdogEnds

RequestStop ==
  /\ cpc = "idle"
  /\ stopRequested' = TRUE
  /\ cpc' = "closing"
  /\ UNCHANGED <<host, recv, queue, decoder, wpc, closed, failure>>

Close ==
  /\ cpc = "closing"
  /\ Shut
  /\ cpc' = "done"
  /\ UNCHANGED <<host, recv, decoder, wpc, stopRequested, failure>>

----------------------------------------------------------------------------
Init ==
  /\ units = 0 /\ lastId = 0 /\ refreshes = 0 /\ wire = <<>> /\ eof = FALSE
  /\ rpc = "first" /\ frame = NoUnit /\ error = "none"
  /\ queue = <<>>
  /\ dpc = "none" /\ unit = NoUnit /\ lastFrameId = -1 /\ waiting = FALSE /\ starved = 0
  /\ wpc = "none"
  /\ cpc = "idle" /\ stopRequested = FALSE
  /\ closed = FALSE /\ failure = "none"
  /\ last = -1 /\ chain = "none"

HostStep  == SendNew \/ SendRefresh \/ SendHeartbeat \/ HostCloses
Next ==
  \/ HostStep \/ ReceiverStep \/ DecoderStep \/ WatchdogFires \/ WatchdogStep
  \/ RequestStop \/ Close

\* The three threads and a begun close() keep running; neither the host nor the
\* user has to do anything, and the watchdog need not find a stall.
Fairness ==
  /\ WF_vars(ReceiverStep) /\ WF_vars(DecoderStep) /\ WF_vars(WatchdogStep) /\ WF_vars(Close)

Safety == Init /\ [][Next]_vars
Spec   == Safety /\ Fairness

----------------------------------------------------------------------------
(* Properties.                                                             *)

Packets == [kind : {"video", "heartbeat", "none"}, n : -1 .. MaxUnits - 1, id : 0 .. MaxId, idr : BOOLEAN]

\* The shape of the state; the queue never holds more than its two frames.
TypeOK ==
  /\ units \in 0 .. MaxUnits /\ lastId \in 0 .. MaxId /\ refreshes \in 0 .. MaxRefreshes
  /\ wire \in Seq(Packets) /\ Len(wire) <= WireCap /\ eof \in BOOLEAN
  /\ rpc \in {"first", "start", "offerFirst", "loop", "read", "offer", "finally",
              "joinDecoder", "joinWatchdog", "returned"}
  /\ frame \in Packets /\ error \in {"none", "io", "decoder"}
  /\ queue \in Seq(Packets) /\ Len(queue) <= MaxPending
  /\ dpc \in {"none", "take", "decode", "failing", "release", "exited"}
  /\ unit \in Packets /\ lastFrameId \in -1 .. MaxId /\ waiting \in BOOLEAN
  /\ starved \in 0 .. MaxStarved
  /\ wpc \in {"none", "sleep", "failing", "exited"}
  /\ cpc \in {"idle", "closing", "done"} /\ stopRequested \in BOOLEAN
  /\ closed \in BOOLEAN /\ failure \in {"none", "codec", "interrupted", "watchdog"}
  /\ last \in -1 .. MaxUnits - 1 /\ chain \in {"none", "clean", "broken"}

\* A queued IDR leaves the queue only to be decoded, with the stream, or for a later
\* IDR: LatestFrameQueue.offer never gives it up for a unit that depends on it.
IdrKept ==
  [][\A i \in DOMAIN queue :
       queue[i].idr =>
         \/ queue[i] \in ToSet(queue')
         \/ dpc' = "decode" /\ unit' = queue[i]
         \/ closed'
         \/ \E f \in ToSet(queue') : f.idr /\ f.n > queue[i].n]_vars

\* As long as the codec has taken every unit and no frame was encoded twice, a unit
\* lost in the queue is noticed by its frame id: the codec is never given a unit
\* whose predecessor it has not had.
LossNoticed == starved = 0 /\ refreshes = 0 => chain # "broken"

\* A stream that ends without having been asked to reports why: run() never returns
\* as if it had been stopped after the decoder, the watchdog or the host ended it.
FailureReported == rpc = "returned" /\ ~stopRequested => error # "none"

\* Once closed, by whomever, the stream's three threads all end: no read, wait or
\* join keeps run() from returning to the reconnect loop.
AllEnd ==
  closed ~> (rpc = "returned" /\ dpc \in {"none", "exited"} /\ wpc \in {"none", "exited"})

\* Recovery completes at an IDR: once the decoder stops skipping units, the codec has
\* been given the IDR that the units after it refer to.
RecoveryEndsAtIdr == [][waiting /\ ~waiting' /\ dpc' = "take" => last' = unit.n]_vars
=============================================================================
