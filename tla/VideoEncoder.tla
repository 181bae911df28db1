----------------------------- MODULE VideoEncoder -----------------------------
(***************************************************************************)
(* The encoder of the host (main.cpp, H264Encoder): NvencH264Encoder with  *)
(* its pipeline of slots whose outputs the GPU completes later, or a Media *)
(* Foundation transform: an asynchronous one in hardware, or the           *)
(* synchronous one in software that either falls back to.  The worker      *)
(* thread of HostStream gives it new frames, the last frame again while    *)
(* nothing new comes, and drains it at the frame limit.                    *)
(*                                                                         *)
(* An encoded unit is a record of the frame id it is sent under, the frame *)
(* its bits show, whether it is a key unit (IDR), and its place seq in the *)
(* encoder's sequence of units: 0 for the first, then 1 .. KeyInterval     *)
(* over and over.  A unit that is no key unit refers to the one before it. *)
(***************************************************************************)
EXTENDS Naturals, Sequences, FiniteSets, SequencesExt

CONSTANTS
  SlotCount,    \* kNvencPipelineSlotCount
  KeyInterval,  \* keyframeInterval
  Latency,      \* units a transform may keep back while it waits for input
  MaxFrames     \* bound: frames captured

ASSUME EncoderAssumption ==
  /\ {SlotCount, KeyInterval, MaxFrames} \subseteq Nat \ {0}
  /\ Latency \in Nat

Slot == 0 .. SlotCount - 1
Unit == [id : 0 .. MaxFrames, pix : 0 .. MaxFrames, key : BOOLEAN, seq : 0 .. KeyInterval]
NoUnit    == [id |-> 0, pix |-> 0, key |-> FALSE, seq |-> 0]
EmptySlot == [input |-> 0, out |-> NoUnit, event |-> FALSE]

VARIABLES
  pc,           \* where the worker is in EncodeFrame or Drain
  resume,       \* where PumpOutput returns to
  backend,      \* "nvenc", "hardware" or "software"
  draining,     \* whether the worker is in Drain
  frame,        \* the frame it was given last
  count,        \* encodedFrameCount_
  slots,        \* of each slot its input buffer, bitstream and metadata, completion event
  pending, nextSlot, ready,    \* pendingSlots_, nextSlot_, readyOutputs_
  gpu, held,    \* slots being encoded, and those of them that need more input first
  inside, done, \* units in the transform, and how many of them the hardware has finished
  events, requests,            \* its event queue, pendingInputRequests_
  ids,          \* pendingFrames_
  last,         \* the last unit sent
  limited,      \* whether config.frames is set
  steady        \* whether the GPU never asks for more input or refuses an output

worker    == <<backend, draining, frame, count>>
nvenc     == <<slots, pending, nextSlot, ready, gpu, held>>
transform == <<resume, inside, done, events, requests, ids>>
modes     == <<limited, steady>>
vars      == <<pc, worker, nvenc, transform, last, modes>>

NextCount(n) == (n % KeyInterval) + 1
IsKey(n)     == n % KeyInterval = 0

\* An exception in EncodeFrame makes it fall back from hardware; any other ends the worker.
Throw == pc' = IF backend # "software" /\ ~draining THEN "fallback" ELSE "ended"
Step(to) == pc' = to /\ UNCHANGED <<worker, nvenc, transform, last, modes>>
Fails    == Throw /\ UNCHANGED <<worker, nvenc, transform, last, modes>>

----------------------------------------------------------------------------
(* The worker's calls.                                                     *)

Start == [nvenc |-> "room", hardware |-> "await", software |-> "feed"]
Encode(f) ==
  /\ pc = "idle"
  /\ frame' = f
  /\ pc' = Start[backend]
  /\ UNCHANGED <<backend, draining, count, nvenc, transform, last, modes>>

EncodeNew     == frame < MaxFrames /\ Encode(frame + 1)
EncodeRefresh == ~limited /\ frame > 0 /\ Encode(frame)

\* The frame limit is reached.
Drain ==
  /\ pc = "idle" /\ limited /\ frame > 0
  /\ draining' = TRUE
  /\ IF backend = "software" THEN pc' = "pump" /\ resume' = "drained"
                             ELSE pc' = "drain" /\ UNCHANGED resume
  /\ UNCHANGED <<backend, frame, count, nvenc, inside, done, events, requests, ids, last, modes>>

\* The worker ends, at the frame limit after Drain.
Flush ==
  /\ pc \in {"idle", "drained"}
  /\ pc' = "ended"
  /\ inside' = <<>> /\ done' = 0 /\ ids' = <<>>
  /\ UNCHANGED <<worker, nvenc, resume, events, requests, last, modes>>

----------------------------------------------------------------------------
(* NvencH264Encoder::PollOutput.                                           *)

\* The oldest output goes first.  (Mutant: the newest.)
Newest == pending[Len(pending)]
Oldest == pending[1]

NothingReady == pending = <<>> \/ ready = 0
NotReady     == IF NothingReady THEN TRUE ELSE ~slots[Oldest].event

\* The completion event, which resets itself, and the bitstream of the oldest slot:
\* sent, not sent, still locked, or an exception before or after it is sent.
LockOutput ==
  /\ ~NotReady
  /\ slots' = [slots EXCEPT ![Oldest].event = FALSE]
  /\ \/ /\ last' = slots[Oldest].out
        /\ ready' = ready - 1 /\ pending' = Tail(pending)
        /\ UNCHANGED pc
     \/ /\ pc' = "ended"
        /\ ready' = ready - 1 /\ pending' = Tail(pending)
        /\ UNCHANGED last
     \/ /\ ~steady
        /\ pc' = IF pc = "poll" THEN "return" ELSE pc
        /\ UNCHANGED <<last, ready, pending>>
     \/ /\ Throw
        /\ last' \in {last, slots[Oldest].out}
        /\ UNCHANGED <<ready, pending>>
  /\ UNCHANGED <<worker, nextSlot, gpu, held, transform, modes>>

\* The wait for the event may fail, too.
Poll == LockOutput \/ (~NothingReady /\ Fails)

----------------------------------------------------------------------------
(* NvencH264Encoder::EncodeFrame and Drain.                                *)

RoomTooLate == Len(pending) <= SlotCount             \* (Mutant.)
HasRoom     == Len(pending) < SlotCount

\* WaitForOutput until a slot is free; with no output to come it waits for ever.
WaitForRoom ==
  /\ pc = "room"
  /\ (~HasRoom /\ Poll) \/ (HasRoom /\ Step("copy"))

CopyInput ==
  /\ pc = "copy"
  /\ \/ /\ slots' = [slots EXCEPT ![nextSlot].input = frame]
        /\ pc' = "submit"
        /\ UNCHANGED <<worker, pending, nextSlot, ready, gpu, held, transform, last, modes>>
     \/ Fails

PastEndSlot(s)   == s + 1                            \* (Mutant.)
FollowingSlot(s) == (s + 1) % SlotCount
KeepReady        == ready                            \* (Mutant.)
OneMoreReady     == ready + 1

\* NvEncEncodePicture succeeds or asks for more input.
Submit(more) ==
  /\ slots' = [slots EXCEPT ![nextSlot].out =
                [id |-> frame, pix |-> 0, key |-> IsKey(count), seq |-> count]]
  /\ pending' = Append(pending, nextSlot)
  /\ nextSlot' = FollowingSlot(nextSlot)
  /\ gpu' = Append(gpu, nextSlot)
  /\ held' = IF more THEN held \cup {nextSlot} ELSE {}
  /\ ready' = IF more THEN ready ELSE OneMoreReady
  /\ pc' = IF more THEN "return" ELSE "poll"
  /\ UNCHANGED <<worker, transform, last, modes>>

\* While the encoder is busy, outputs are polled and the call is repeated.
SubmitPicture ==
  /\ pc = "submit"
  /\ Submit(FALSE) \/ (~steady /\ Submit(TRUE)) \/ Poll \/ Fails

PollAfterSubmit ==
  /\ pc = "poll"
  /\ Poll \/ (NotReady /\ Step("return"))

\* ++encodedFrameCount_ when nvenc_->EncodeFrame has returned.
Return ==
  /\ pc = "return"
  /\ count' = NextCount(count)
  /\ pc' = "idle"
  /\ UNCHANGED <<backend, draining, frame, nvenc, transform, last, modes>>

DrainedIfBusy == NotReady                            \* (Mutant.)
Drained       == pending = <<>>
DrainNvenc ==
  /\ pc = "drain" /\ backend = "nvenc"
  /\ (~Drained /\ Poll) \/ (Drained /\ Step("drained"))

\* The GPU encodes in order; what needs more input waits for a later picture.
GpuCompletes ==
  /\ gpu # <<>> /\ Head(gpu) \notin held
  /\ LET s == Head(gpu)
     IN  slots' = [slots EXCEPT ![s].out.pix = slots[s].input, ![s].event = TRUE]
  /\ gpu' = Tail(gpu)
  /\ UNCHANGED <<pc, worker, pending, nextSlot, ready, held, transform, last, modes>>

----------------------------------------------------------------------------
(* EncodeFrameOnce and PumpOutput with a transform.                        *)

\* ProcessInput takes the frame.  (The code counts it before it waits for a request;
\* nothing reads the count in between.)
Accept(at) ==
  /\ inside' = Append(inside, [pix |-> frame, key |-> count = 0, seq |-> count])
  /\ count' = NextCount(count)
  /\ IF backend = "software" THEN pc' = "pump" /\ resume' = at
                             ELSE pc' = at /\ UNCHANGED resume

\* Its id waits in pendingFrames_ for the output.  A synchronous transform that does not
\* accept the frame is asked for its output first.
Feed ==
  /\ pc = "feed"
  /\ ids' = Append(ids, frame)
  /\ \/ Accept("idle")
     \/ pc' = "pump" /\ resume' = "refeed" /\ UNCHANGED <<inside, count>>
     \/ Throw /\ UNCHANGED <<resume, inside, count>>
  /\ UNCHANGED <<backend, draining, frame, nvenc, done, events, requests, last, modes>>

FeedAgain ==
  /\ pc = "refeed"
  /\ Accept("idle") \/ (Throw /\ UNCHANGED <<resume, inside, count>>)
  /\ UNCHANGED <<backend, draining, frame, nvenc, done, events, requests, ids, last, modes>>

\* What ProcessOutput has, and when it may want more input instead.
HasOutput == IF backend = "hardware" THEN done > 0 ELSE inside # <<>>
WantsMore == IF backend = "hardware" THEN done = 0
             ELSE Len(inside) <= IF draining THEN 0 ELSE Latency

\* Every output the transform has is sent under the oldest id.  Left out is an answer
\* MF_E_TRANSFORM_STREAM_CHANGE, a new output type at most before the first output: the
\* code sets the type and asks the software transform again; from the hardware transform it
\* returns with the output still inside, for which that one owes another event.
NewestId == ids[Len(ids)]                            \* (Mutant.)
OldestId == IF ids = <<>> THEN 0 ELSE Head(ids)
PumpOutput ==
  /\ pc = "pump"
  /\ \/ /\ HasOutput
        /\ last' = [id |-> OldestId, pix |-> Head(inside).pix, key |-> Head(inside).key,
                    seq |-> Head(inside).seq]
        /\ inside' = Tail(inside)
        /\ done' = IF backend = "hardware" THEN done - 1 ELSE done
        /\ ids' = IF ids = <<>> THEN ids ELSE Tail(ids)
        /\ UNCHANGED <<pc, worker, nvenc, resume, events, requests, modes>>
     \/ HasOutput /\ Step("ended")                   \* the packet is not sent
     \/ WantsMore /\ Step(resume)
     \/ Fails

----------------------------------------------------------------------------
(* The asynchronous transform: WaitForInput, DrainAvailableEvents, Drain.  *)

\* ProcessAsyncEvent takes an event from the queue.
ProcessAsyncEvent ==
  /\ events # <<>>
  /\ events' = Tail(events)
  /\ CASE Head(events) = "need"    -> requests' = requests + 1 /\ UNCHANGED <<pc, resume>>
       [] Head(events) = "have"    -> pc' = "pump" /\ resume' = pc /\ UNCHANGED requests
       [] Head(events) = "drained" -> pc' = "collect" /\ UNCHANGED <<resume, requests>>
  /\ UNCHANGED <<worker, nvenc, inside, done, ids, last, modes>>

WaitForInput ==
  /\ pc = "await"
  /\ \/ requests = 0 /\ (ProcessAsyncEvent \/ Fails)
     \/ /\ requests > 0
        /\ requests' = requests - 1
        /\ ids' = Append(ids, frame)
        /\ Accept("collect") \/ (Throw /\ UNCHANGED <<resume, inside, count>>)
        /\ UNCHANGED <<backend, draining, frame, nvenc, done, events, last, modes>>

DrainAvailableEvents ==
  /\ pc = "collect"
  /\ \/ ProcessAsyncEvent \/ Fails
     \/ events = <<>> /\ Step(IF draining THEN "drained" ELSE "idle")

DrainTransform ==
  /\ pc = "drain" /\ backend = "hardware"
  /\ ProcessAsyncEvent \/ Fails

\* The hardware: it asks for input while it has room for it, finishes units in order,
\* and says when it has finished them all.
NeedsQueued == {i \in DOMAIN events : events[i] = "need"}
AsksForInput ==
  /\ ~draining
  /\ Len(inside) + requests + Cardinality(NeedsQueued) <= Latency
  /\ events' = Append(events, "need") /\ UNCHANGED done
FinishesUnit ==
  /\ done < Len(inside)
  /\ done' = done + 1 /\ events' = Append(events, "have")
FinishesDrain ==
  /\ pc = "drain" /\ done = Len(inside) /\ "drained" \notin ToSet(events)
  /\ events' = Append(events, "drained") /\ UNCHANGED done
HardwareStep ==
  /\ backend = "hardware" /\ pc # "ended"
  /\ AsksForInput \/ FinishesUnit \/ FinishesDrain
  /\ UNCHANGED <<pc, worker, nvenc, resume, inside, requests, ids, last, modes>>

----------------------------------------------------------------------------
(* The fallback: nvenc_.reset(), then InitializeSoftware, which may fail.  *)

ResetNvenc ==
  /\ slots' = [s \in Slot |-> EmptySlot]
  /\ pending' = <<>> /\ nextSlot' = 0 /\ ready' = 0
  /\ gpu' = <<>> /\ held' = {}
ResetTransform ==
  /\ inside' = <<>> /\ done' = 0 /\ events' = <<>> /\ requests' = 0 /\ ids' = <<>>
  /\ count' = 0
Fallback ==
  /\ pc = "fallback"
  /\ backend' = "software"
  /\ ResetNvenc /\ ResetTransform
  /\ pc' \in {"feed", "ended"}
  /\ UNCHANGED <<draining, frame, resume, last, modes>>

----------------------------------------------------------------------------
\* Whichever encoder can be had starts empty: TryInitializeNvenc, or else
\* TryInitializeHardware, or else InitializeSoftware.
InitNvenc ==
  /\ slots = [s \in Slot |-> EmptySlot]
  /\ pending = <<>> /\ nextSlot = 0 /\ ready = 0 /\ gpu = <<>> /\ held = {}
InitTransform ==
  inside = <<>> /\ done = 0 /\ events = <<>> /\ requests = 0 /\ ids = <<>>
Init ==
  /\ pc = "idle" /\ resume = "idle" /\ backend \in DOMAIN Start
  /\ draining = FALSE /\ frame = 0 /\ count = 0
  /\ InitNvenc /\ InitTransform
  /\ last = NoUnit
  /\ limited \in BOOLEAN /\ steady \in BOOLEAN

NvencStep ==
  WaitForRoom \/ CopyInput \/ SubmitPicture \/ PollAfterSubmit \/ Return \/ DrainNvenc
TransformStep ==
  \/ Feed \/ FeedAgain \/ PumpOutput \/ Fallback
  \/ WaitForInput \/ DrainAvailableEvents \/ DrainTransform
Next ==
  \/ EncodeNew \/ EncodeRefresh \/ Drain \/ Flush
  \/ NvencStep \/ GpuCompletes
  \/ TransformStep \/ HardwareStep

\* The worker, the GPU and the hardware transform keep running (an encoder that is busy
\* is so for a while only, and a transform keeps back no more than Latency units), and an
\* idle worker refreshes.
Fairness ==
  /\ WF_vars(NvencStep) /\ WF_vars(TransformStep) /\ WF_vars(EncodeRefresh)
  /\ WF_vars(GpuCompletes)
  /\ WF_vars(HardwareStep /\ events' # events /\ (done' = done \/ Len(inside) > Latency \/ draining))

Safety == Init /\ [][Next]_vars
Spec   == Safety /\ Fairness

----------------------------------------------------------------------------
(* Properties.                                                             *)

\* The shape of the state.
TypeOK ==
  /\ pc \in {"idle", "room", "copy", "submit", "poll", "return", "feed", "refeed", "pump",
             "await", "collect", "fallback", "drain", "drained", "ended"}
  /\ resume \in {"idle", "refeed", "await", "collect", "drain", "drained"}
  /\ backend \in DOMAIN Start /\ draining \in BOOLEAN
  /\ frame \in 0 .. MaxFrames /\ count \in 0 .. KeyInterval
  /\ slots \in [Slot -> [input : 0 .. MaxFrames, out : Unit, event : BOOLEAN]]
  /\ pending \in Seq(Slot) /\ nextSlot \in Slot /\ ready \in 0 .. Len(pending)
  /\ gpu \in Seq(Slot) /\ held \subseteq Slot
  /\ inside \in Seq([pix : 0 .. MaxFrames, key : BOOLEAN, seq : 0 .. KeyInterval])
  /\ done \in 0 .. Len(inside)
  /\ events \in Seq({"need", "have", "drained"}) /\ requests \in 0 .. Latency + 1
  /\ ids \in Seq(0 .. MaxFrames)
  /\ last \in Unit /\ limited \in BOOLEAN /\ steady \in BOOLEAN

\* A unit is sent under the id of the frame its bits show: no input buffer or metadata
\* of a slot is overwritten before the GPU is done with it and its output is sent, and
\* the ids that wait for a transform stay in step with its outputs.
SentUnderItsId == last.id = last.pix

\* Units leave in the order in which the encoder made them and none is left out, unless
\* the next one sent is a key unit: the client can decode whatever follows, also across
\* the fallback, which abandons the units in flight.
UnitsDecodable ==
  [][last' # last => last'.key \/ (last # NoUnit /\ last'.seq = NextCount(last.seq))]_vars

\* A newer frame is never followed by an older one, also across the fallback.
NeverBack == [][last'.id >= last.id]_vars

\* A drain returns when the newest frame given to the encoder has been sent.
DrainSendsAll == pc = "drained" => last.id = frame

\* Every frame given to the encoder is sent, or a newer one is, while the worker goes
\* on refreshing - as long as the GPU neither asks for more input nor refuses an output
\* whose event has fired, after which readyOutputs_ or the event is never made up for.
FrameIsSent ==
  \A n \in 1 .. MaxFrames :
    (frame = n /\ steady /\ ~limited) ~> (last.id >= n \/ pc = "ended")
=============================================================================
