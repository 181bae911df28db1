--------------------------- MODULE CapturePipeline ---------------------------
(***************************************************************************)
(* One SwapChainProcessor of the display driver (Driver.cpp): the          *)
(* swap-chain thread (RunCore, CaptureAndPublish) copies each acquired     *)
(* frame into one of two staging textures, maps the frame before it into   *)
(* one of three BGRA buffers, and queues the buffer; the conversion thread *)
(* (ConversionThreadMain) converts and publishes queued buffers.  The      *)
(* destructor ends both.  The operating system presents frames, and the    *)
(* host, which owns the shared ring, may be restarted at any time.         *)
(*                                                                         *)
(* A frame is the number of its presentation.  Condition variables are     *)
(* guards: every change that can make a waiting predicate true is followed *)
(* by a notification in the code.  Publication into the ring itself is the *)
(* subject of FrameRing; here it either appends to "published" or fails.   *)
(***************************************************************************)
EXTENDS Naturals, Sequences, FiniteSets, SequencesExt

CONSTANTS
  Buffers,     \* number of BGRA buffers, and places in the queue
  Sizes,       \* frame sizes, in bytes of a BGRA buffer
  MaxFrames,   \* bound: frames presented
  MaxRestarts, \* bound: restarts of the host
  Faults       \* calls that may fail: "start", "swapchain", "format", "finish",
               \* "texture", "alloc", "map", "publish"

ASSUME PipelineAssumption ==
  /\ Buffers \in Nat \ {0}
  /\ Sizes \subseteq Nat \ {0} /\ Sizes # {}
  /\ MaxFrames \in Nat /\ MaxRestarts \in Nat
  /\ Faults \subseteq {"start", "swapchain", "format", "finish", "texture", "alloc", "map", "publish"}

Buffer  == 1 .. Buffers
Texture == {0, 1}                 \* m_StagingTextures
None    == [id |-> 0, size |-> 0, tex |-> 0]
NoWork  == [id |-> 0, buf |-> 0]

VARIABLES
  \* the swap-chain thread
  cpc,          \* its step
  site,         \* the call site of MapAndQueueStagingFrame it is in
  cur, arg,     \* frame being captured, frame being mapped
  buf,          \* bufferIndex of the mapped frame
  tex, texSize, wIdx,          \* staging contents, m_StagingWidth/Height, m_StagingWriteIndex
  pending,      \* m_PendingStagingFrame, None when m_HasPendingStagingFrame is false
  hasPublished, \* m_HasPublishedFrame
  \* the BGRA buffers and their queue, under m_BgraMutex
  bytes,        \* m_BgraBufferBytes, 0 when the buffers are not allocated
  content, inUse, queue, stop, failed,
  \* the conversion thread
  vpc, work,
  \* the view of the ring, shared by both threads without a lock
  view, valid, restarts,
  \* the rest of the processor and the operating system
  dpc, terminate, avail, presented,
  calm,         \* whether, in this behaviour, every call succeeds and the host stays
  published     \* the frames published so far, in order

capture == <<cpc, site, cur, arg, buf, tex, texSize, wIdx, pending, hasPublished>>
pool    == <<bytes, content, inUse, queue, stop, failed>>
convert == <<vpc, work>>
ring    == <<view, valid, restarts>>
outside == <<dpc, terminate, avail, presented, calm>>
vars    == <<capture, pool, convert, ring, outside, published>>

Fails(call) == ~calm /\ call \in Faults

CaptureSteps == {"start", "acquire", "wait", "ensure", "reopen", "resize", "staging",
  "buffers", "copy", "mqBuffers", "mqAcquire", "mqMap", "mqSync", "mqWrite", "mqEnqueue",
  "endLoop", "stop", "join", "close", "done"}
ConvertSteps == {"none", "idle", "begin", "convert", "release", "failing", "failRelease", "exited"}

\* WaitForConversionIdle: the predicate its caller waits for.  (Mutants: the caller
\* does not wait; a failed conversion does not end the wait.)
AllReturned   == queue = <<>> /\ \A b \in Buffer : ~inUse[b]
AlwaysIdle    == TRUE
IdleUnhurried == vpc = "none" \/ AllReturned
Idle          == failed \/ vpc = "none" \/ AllReturned

Release(b) == inUse' = [inUse EXCEPT ![b] = FALSE]

----------------------------------------------------------------------------
(* MapAndQueueStagingFrame, called from four places.                       *)

Call(from, frame) ==
  /\ site' = from
  /\ arg' = frame
  /\ cpc' = "mqBuffers"

\* The caller's code after the call.
Return(ok) ==
  \/ /\ site = "resize"
     /\ IF ok THEN pending' = None /\ cpc' = "staging"
              ELSE cpc' = "endLoop" /\ UNCHANGED pending
     /\ UNCHANGED hasPublished
  \/ /\ site = "first"
     /\ IF ok THEN hasPublished' = TRUE /\ cpc' = "acquire"
              ELSE cpc' = "endLoop" /\ UNCHANGED hasPublished
     /\ UNCHANGED pending
  \/ /\ site = "pending"
     /\ IF ok THEN pending' = cur /\ cpc' = "acquire"
              ELSE cpc' = "endLoop" /\ UNCHANGED pending
     /\ UNCHANGED hasPublished
  \/ /\ site = "flush"
     /\ pending' = None /\ cpc' = "stop"
     /\ UNCHANGED hasPublished

captureArgs == <<site, cur, arg, tex, texSize, wIdx>>

\* EnsureBgraBuffers: grown only, and only while no conversion is under way.
Allocated(size) == bytes >= size
Reallocate(size) ==
  /\ Idle
  /\ inUse' = [b \in Buffer |-> FALSE]
  /\ queue' = <<>>
  /\ content' = [b \in Buffer |-> 0]
  /\ bytes' = size
EnsureBuffers(size) ==
  \/ /\ Allocated(size)
     /\ UNCHANGED pool
  \/ /\ ~Allocated(size)
     /\ Reallocate(size)
     /\ UNCHANGED <<stop, failed>>

MapBuffers ==
  /\ cpc = "mqBuffers"
  /\ \/ /\ EnsureBuffers(arg.size)
        /\ cpc' = "mqAcquire"
        /\ UNCHANGED <<pending, hasPublished>>
     \/ /\ Fails("alloc") /\ ~Allocated(arg.size)
        /\ Reallocate(0) /\ UNCHANGED <<stop, failed>>
        /\ Return(FALSE)
  /\ UNCHANGED <<captureArgs, buf, convert, ring, outside, published>>

\* AcquireBgraBuffer: waits for a free buffer, or for the end of the conversion.
AcquireBuffer ==
  /\ cpc = "mqAcquire"
  /\ \/ /\ stop \/ failed
        /\ Return(FALSE)
        /\ UNCHANGED <<buf, inUse>>
     \/ /\ ~stop /\ ~failed
        /\ \E b \in Buffer :
             /\ ~inUse[b] /\ \A c \in 1 .. b - 1 : inUse[c]
             /\ inUse' = [inUse EXCEPT ![b] = TRUE]
             /\ buf' = b
        /\ cpc' = "mqMap"
        /\ UNCHANGED <<pending, hasPublished>>
  /\ UNCHANGED <<captureArgs, bytes, content, queue, stop, failed, convert, ring, outside, published>>

\* Map and row copy of the staging texture, then publish at once or queue.
MapTexture ==
  /\ cpc = "mqMap"
  /\ \/ /\ content' = [content EXCEPT ![buf] = tex[arg.tex]]
        /\ cpc' = IF hasPublished THEN "mqEnqueue" ELSE "mqSync"
        /\ UNCHANGED <<inUse, pending, hasPublished>>
     \/ /\ Fails("map")
        /\ Release(buf)
        /\ Return(FALSE)
        /\ UNCHANGED content
  /\ UNCHANGED <<captureArgs, buf, bytes, queue, stop, failed, convert, ring, outside, published>>

\* PublishBgraFrame on the swap-chain thread, up to the claim of a slot.
SyncPublish ==
  /\ cpc = "mqSync"
  /\ IF view
     THEN cpc' = "mqWrite" /\ UNCHANGED <<inUse, pending, hasPublished>>
     ELSE Release(buf) /\ Return(FALSE)
  /\ UNCHANGED <<captureArgs, buf, bytes, content, queue, stop, failed, convert, ring, outside, published>>

SyncWrite ==
  /\ cpc = "mqWrite"
  /\ Release(buf)
  /\ \/ /\ published' = Append(published, content[buf])
        /\ Return(TRUE)
     \/ /\ Fails("publish")
        /\ Return(FALSE)
        /\ UNCHANGED published
  /\ UNCHANGED <<captureArgs, buf, bytes, content, queue, stop, failed, convert, ring, outside>>

Enqueue ==
  /\ cpc = "mqEnqueue"
  /\ IF stop \/ failed \/ Len(queue) >= Buffers
     THEN Release(buf) /\ Return(FALSE) /\ UNCHANGED queue
     ELSE queue' = Append(queue, [id |-> arg.id, buf |-> buf]) /\ Return(TRUE) /\ UNCHANGED inUse
  /\ UNCHANGED <<captureArgs, buf, bytes, content, stop, failed, convert, ring, outside, published>>

MapAndQueue == MapBuffers \/ AcquireBuffer \/ MapTexture \/ SyncPublish \/ SyncWrite \/ Enqueue

----------------------------------------------------------------------------
(* RunCore and CaptureAndPublish.                                          *)

Start ==
  /\ cpc = "start"
  /\ \/ /\ cpc' = "acquire"
        /\ vpc' = "idle"
     \/ /\ Fails("start")
        /\ cpc' = "done"
        /\ UNCHANGED vpc
  /\ UNCHANGED <<captureArgs, buf, pending, hasPublished, pool, work, ring, outside, published>>

\* IddCxSwapChainReleaseAndAcquireBuffer: a frame, E_PENDING, or a lost chain.
Acquire ==
  /\ cpc = "acquire"
  /\ \/ /\ avail # 0
        /\ cur' = [id |-> presented, size |-> avail, tex |-> 0]
        /\ avail' = 0
        /\ cpc' = "ensure"
     \/ /\ avail = 0
        /\ cpc' = "wait"
        /\ UNCHANGED <<cur, avail>>
     \/ /\ Fails("swapchain")
        /\ cpc' = "endLoop"
        /\ UNCHANGED <<cur, avail>>
  /\ UNCHANGED <<site, arg, buf, tex, texSize, wIdx, pending, hasPublished, pool, convert, ring,
                 dpc, terminate, presented, calm, published>>

\* WaitForMultipleObjects: the new-frame event has precedence over terminate.
Wait ==
  /\ cpc = "wait"
  /\ \/ /\ avail # 0
        /\ cpc' = "acquire"
        /\ UNCHANGED terminate
     \/ /\ avail = 0
        /\ terminate
        /\ terminate' = FALSE
        /\ cpc' = "endLoop"
  /\ UNCHANGED <<captureArgs, buf, pending, hasPublished, pool, convert, ring,
                 dpc, avail, presented, calm, published>>

\* EnsureFrameRing: a mapped view whose header does not validate is unmapped,
\* without regard to what the conversion thread is doing with it.
RingUsable == view /\ valid
EnsureRing ==
  /\ cpc = "ensure"
  /\ IF RingUsable THEN cpc' = "resize" /\ UNCHANGED view
                      ELSE cpc' = "reopen" /\ view' = FALSE
  /\ UNCHANGED <<captureArgs, buf, pending, hasPublished, pool, convert, valid, restarts, outside, published>>

ReopenRing ==
  /\ cpc = "reopen"
  /\ IF valid THEN cpc' = "resize" /\ view' = TRUE
              ELSE cpc' = "endLoop" /\ UNCHANGED view
  /\ UNCHANGED <<captureArgs, buf, pending, hasPublished, pool, convert, valid, restarts, outside, published>>

\* A surface the pipeline cannot take ends the loop.  A pending frame of another
\* size is queued before the textures change.
FlushForResize ==
  /\ cpc = "resize"
  /\ \/ /\ pending # None /\ texSize # cur.size
        /\ Call("resize", pending)
     \/ /\ pending = None \/ texSize = cur.size
        /\ cpc' = "staging"
        /\ UNCHANGED <<site, arg>>
     \/ /\ Fails("format")
        /\ cpc' = "endLoop"
        /\ UNCHANGED <<site, arg>>
  /\ UNCHANGED <<cur, buf, tex, texSize, wIdx, pending, hasPublished, pool, convert, ring, outside, published>>

\* EnsureStagingTextures.
EnsureStaging ==
  /\ cpc = "staging"
  /\ \/ /\ texSize = cur.size
        /\ cpc' = "buffers"
        /\ UNCHANGED <<tex, texSize, wIdx, pending, hasPublished>>
     \/ /\ texSize # cur.size
        /\ Idle
        /\ tex' = [t \in Texture |-> 0]
        /\ wIdx' = 0 /\ pending' = None /\ hasPublished' = FALSE
        /\ \/ /\ texSize' = cur.size
              /\ cpc' = "buffers"
           \/ /\ Fails("texture")
              /\ texSize' = 0
              /\ cpc' = "endLoop"
  /\ UNCHANGED <<site, cur, arg, buf, pool, convert, ring, outside, published>>

EnsureBgra ==
  /\ cpc = "buffers"
  /\ \/ /\ EnsureBuffers(cur.size)
        /\ cpc' = "copy"
     \/ /\ Fails("alloc") /\ ~Allocated(cur.size)
        /\ Reallocate(0) /\ UNCHANGED <<stop, failed>>
        /\ cpc' = "endLoop"
  /\ UNCHANGED <<captureArgs, buf, pending, hasPublished, convert, ring, outside, published>>

PastEndIndex(t) == t + 1    \* (Mutants: the index never wraps; it never advances.)
SameIndex(t)    == t
NextIndex(t)    == 1 - t

\* CopyResource, FinishedProcessingFrame, and which frame is mapped now: the
\* first one itself, later ones one capture behind.
CopyFrame ==
  /\ cpc = "copy"
  /\ tex' = [tex EXCEPT ![wIdx] = cur.id]
  /\ LET this == [cur EXCEPT !.tex = wIdx]
     IN  \/ /\ wIdx' = NextIndex(wIdx)
            /\ cur' = this
            /\ \/ /\ ~hasPublished
                  /\ Call("first", this)
                  /\ UNCHANGED pending
               \/ /\ hasPublished /\ pending # None
                  /\ Call("pending", pending)
                  /\ UNCHANGED pending
               \/ /\ hasPublished /\ pending = None
                  /\ pending' = this
                  /\ cpc' = "acquire"
                  /\ UNCHANGED <<site, arg>>
         \/ /\ Fails("finish")
            /\ cpc' = "endLoop"
            /\ UNCHANGED <<site, cur, arg, wIdx, pending>>
  /\ UNCHANGED <<buf, texSize, hasPublished, pool, convert, ring, outside, published>>

\* After the loop: flush, StopConversionThread, CloseFrameRing.
SkipFlush == cpc' = "stop" /\ UNCHANGED <<site, arg>>   \* (Mutant.)
Flush ==
  IF pending # None THEN Call("flush", pending) ELSE cpc' = "stop" /\ UNCHANGED <<site, arg>>
LeaveLoop ==
  /\ cpc = "endLoop"
  /\ Flush
  /\ UNCHANGED <<cur, buf, tex, texSize, wIdx, pending, hasPublished, pool, convert, ring, outside, published>>

StopConversion ==
  /\ cpc = "stop"
  /\ stop' = TRUE
  /\ cpc' = "join"
  /\ UNCHANGED <<captureArgs, buf, pending, hasPublished, bytes, content, inUse, queue, failed,
                 convert, ring, outside, published>>

JoinConversion ==
  /\ cpc = "join"
  /\ vpc = "exited"
  /\ cpc' = "close"
  /\ UNCHANGED <<captureArgs, buf, pending, hasPublished, pool, convert, ring, outside, published>>

CloseRing ==
  /\ cpc = "close"
  /\ view' = FALSE
  /\ cpc' = "done"
  /\ UNCHANGED <<captureArgs, buf, pending, hasPublished, pool, convert, valid, restarts, outside, published>>

CaptureStep ==
  \/ Start \/ Acquire \/ Wait \/ EnsureRing \/ ReopenRing \/ FlushForResize \/ EnsureStaging
  \/ EnsureBgra \/ CopyFrame \/ MapAndQueue \/ LeaveLoop \/ StopConversion
  \/ JoinConversion \/ CloseRing

----------------------------------------------------------------------------
(* ConversionThreadMain.                                                   *)

\* The wait's result: nothing to do after a failure, all to do after a stop.
\* (Mutant: a stop leaves the queued frames.)
ExitAtOnce == failed \/ stop
MayExit    == failed \/ (stop /\ queue = <<>>)

TakeWork ==
  /\ vpc = "idle"
  /\ ~MayExit
  /\ queue # <<>>
  /\ work' = Head(queue)
  /\ queue' = Tail(queue)
  /\ vpc' = "begin"
  /\ UNCHANGED <<capture, bytes, content, inUse, stop, failed, ring, outside, published>>

ConvertExit ==
  /\ vpc = "idle"
  /\ MayExit
  /\ vpc' = "exited"
  /\ UNCHANGED <<capture, pool, work, ring, outside, published>>

\* PublishBgraFrame checks its buffer and m_FrameRing once, at its head.
BeginConvert ==
  /\ vpc = "begin"
  /\ vpc' = IF view /\ bytes > 0 THEN "convert" ELSE "failing"
  /\ UNCHANGED <<capture, pool, work, ring, outside, published>>

EndConvert ==
  /\ vpc = "convert"
  /\ \/ /\ published' = Append(published, content[work.buf])
        /\ vpc' = "release"
     \/ /\ Fails("publish")
        /\ vpc' = "failing"
        /\ UNCHANGED published
  /\ UNCHANGED <<capture, pool, work, ring, outside>>

ReleaseWork ==
  /\ vpc = "release"
  /\ Release(work.buf)
  /\ work' = NoWork
  /\ vpc' = "idle"
  /\ UNCHANGED <<capture, bytes, content, queue, stop, failed, ring, outside, published>>

\* A failed publication ends both threads.
ConvertFails ==
  /\ vpc = "failing"
  /\ failed' = TRUE /\ stop' = TRUE
  /\ vpc' = "failRelease"
  /\ UNCHANGED <<capture, bytes, content, inUse, queue, work, ring, outside, published>>

LeaveCaptureAlone == UNCHANGED terminate      \* (Mutant.)
WakeCapture       == terminate' = TRUE
ReleaseFailed ==
  /\ vpc = "failRelease"
  /\ Release(work.buf)
  /\ work' = NoWork
  /\ WakeCapture
  /\ vpc' = "exited"
  /\ UNCHANGED <<capture, bytes, content, queue, stop, failed, ring,
                 dpc, avail, presented, calm, published>>

ConvertStep ==
  TakeWork \/ ConvertExit \/ BeginConvert \/ EndConvert \/ ReleaseWork \/ ConvertFails \/ ReleaseFailed

----------------------------------------------------------------------------
(* The destructor, the operating system and the host.                      *)

\* ~SwapChainProcessor: SetEvent(m_TerminateEvent), then wait for m_Thread.
Destroy ==
  /\ dpc = "live"
  /\ dpc' = "closing"
  /\ terminate' = TRUE
  /\ UNCHANGED <<capture, pool, convert, ring, avail, presented, calm, published>>

Destroyed ==
  /\ dpc = "closing"
  /\ cpc = "done"
  /\ dpc' = "gone"
  /\ UNCHANGED <<capture, pool, convert, ring, terminate, avail, presented, calm, published>>

\* The desktop is drawn anew; an unassigned swap chain gets no more frames.
Present ==
  /\ dpc = "live"
  /\ avail = 0
  /\ presented < MaxFrames
  /\ presented' = presented + 1
  /\ avail' \in Sizes
  /\ UNCHANGED <<capture, pool, convert, ring, dpc, terminate, calm, published>>

\* A restarted host zeroes the ring header and sets it again (FrameRingHost).
HostZeroes ==
  /\ valid /\ ~calm
  /\ restarts < MaxRestarts
  /\ restarts' = restarts + 1
  /\ valid' = FALSE
  /\ UNCHANGED <<capture, pool, convert, view, outside, published>>

HostReady ==
  /\ ~valid
  /\ valid' = TRUE
  /\ UNCHANGED <<capture, pool, convert, view, restarts, outside, published>>

----------------------------------------------------------------------------
Init ==
  /\ cpc = "start" /\ site = "first" /\ cur = None /\ arg = None /\ buf = 1
  /\ tex = [t \in Texture |-> 0] /\ texSize = 0 /\ wIdx = 0
  /\ pending = None /\ hasPublished = FALSE
  /\ bytes = 0 /\ content = [b \in Buffer |-> 0] /\ inUse = [b \in Buffer |-> FALSE]
  /\ queue = <<>> /\ stop = FALSE /\ failed = FALSE
  /\ vpc = "none" /\ work = NoWork
  /\ view = FALSE /\ valid = TRUE /\ restarts = 0
  /\ dpc = "live" /\ terminate = FALSE /\ avail = 0 /\ presented = 0
  /\ calm \in BOOLEAN
  /\ published = <<>>

\* Everything has ended; nothing is left to do.
Finished == dpc = "gone" /\ valid /\ UNCHANGED vars

Next ==
  \/ CaptureStep \/ ConvertStep \/ Destroy \/ Destroyed \/ Present
  \/ HostZeroes \/ HostReady \/ Finished

\* The two threads, the destructor's return and the host's constructor keep
\* running; nothing makes the desktop change or the processor go away.
Fairness ==
  WF_vars(CaptureStep) /\ WF_vars(ConvertStep) /\ WF_vars(Destroyed) /\ WF_vars(HostReady)

Safety == Init /\ [][Next]_vars
Spec   == Safety /\ Fairness

----------------------------------------------------------------------------
(* Properties.                                                             *)

Frame == [id : 0 .. MaxFrames, size : Sizes \cup {0}, tex : Texture]

\* The shape of the state; no queue ever holds more than the buffers there are.
TypeOK ==
  /\ cpc \in CaptureSteps /\ site \in {"resize", "first", "pending", "flush"}
  /\ cur \in Frame /\ arg \in Frame /\ pending \in Frame
  /\ buf \in Buffer /\ wIdx \in Texture /\ texSize \in Sizes \cup {0}
  /\ tex \in [Texture -> 0 .. MaxFrames] /\ hasPublished \in BOOLEAN
  /\ bytes \in Sizes \cup {0} /\ content \in [Buffer -> 0 .. MaxFrames]
  /\ inUse \in [Buffer -> BOOLEAN] /\ stop \in BOOLEAN /\ failed \in BOOLEAN
  /\ queue \in Seq([id : 1 .. MaxFrames, buf : Buffer]) /\ Len(queue) <= Buffers
  /\ vpc \in ConvertSteps /\ work \in [id : 0 .. MaxFrames, buf : Buffer \cup {0}]
  /\ view \in BOOLEAN /\ valid \in BOOLEAN /\ restarts \in 0 .. MaxRestarts
  /\ dpc \in {"live", "closing", "gone"} /\ terminate \in BOOLEAN
  /\ avail \in Sizes \cup {0} /\ presented \in 0 .. MaxFrames /\ calm \in BOOLEAN
  /\ published \in Seq(1 .. MaxFrames)

\* Only one thread at a time is inside PublishBgraFrame, although no lock guards
\* its sequence and frame counters: the swap-chain thread publishes by itself only
\* when the conversion thread has nothing left.
SinglePublisher == ~(cpc = "mqWrite" /\ vpc \in {"begin", "convert"})

HeldByCapture == IF cpc \in {"mqMap", "mqSync", "mqWrite", "mqEnqueue"} THEN {buf} ELSE {}
HeldByConvert == IF vpc \in {"begin", "convert", "release", "failing", "failRelease"}
                 THEN {work.buf} ELSE {}
Queued == {queue[i].buf : i \in DOMAIN queue}

\* Until a publication fails, a buffer in use is with the swap-chain thread, in the
\* queue, or with the conversion thread: in exactly one place, so that none is
\* leaked and none is filled while it is queued or converted.
BuffersAccounted == ~failed =>
  /\ {b \in Buffer : inUse[b]} = HeldByCapture \cup HeldByConvert \cup Queued
  /\ HeldByCapture \cap (HeldByConvert \cup Queued) = {}
  /\ HeldByConvert \cap Queued = {}
  /\ Cardinality(Queued) = Len(queue)

\* What the ring gets are the captured frames in capture order, each once and with
\* its own pixels: neither the reuse of two textures and three buffers nor a change
\* of resolution mixes or reorders them.
PublishedInOrder ==
  /\ \A i, j \in DOMAIN published : i < j => published[i] < published[j]
  /\ vpc = "convert" => content[work.buf] = work.id /\ Allocated(1)

\* If no call fails and the host is not restarted, every frame acquired has been
\* published by the time the swap-chain thread has ended: the pending texture and
\* the queue are drained, resolution changes included.
DrainedAtShutdown == cpc = "done" /\ calm => ToSet(published) = 1 .. cur.id

\* Unassigning the swap chain always returns: neither thread waits for ever on the
\* buffers, the queue or the other thread, whatever call fails.
ShutdownReturns == (dpc = "closing") ~> (dpc = "gone")

\* A frame is published once a later one has been captured, or the processor ends.
PredecessorPublished ==
  \A n \in 1 .. MaxFrames - 1 :
    (cpc = "ensure" /\ cur.id > n /\ n \in {tex[t] : t \in Texture})
       ~> (n \in ToSet(published) \/ cpc = "done")

\* Nobody writes through the view of the ring after it has been unmapped.
ViewMappedWhileWriting == (cpc = "mqWrite" \/ vpc = "convert") => view

\* Every captured frame becomes visible, also the last one before the desktop
\* comes to rest.
EveryFramePublished ==
  \A n \in 1 .. MaxFrames :
    (cpc = "ensure" /\ cur.id = n) ~> (n \in ToSet(published) \/ cpc = "done")
=============================================================================
