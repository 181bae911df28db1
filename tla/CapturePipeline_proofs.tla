------------------------ MODULE CapturePipeline_proofs ------------------------
(***************************************************************************)
(* Theorems of CapturePipeline for every number of buffers, every set of   *)
(* sizes and faults, and every bound: the type invariant, that one thread  *)
(* publishes at a time, that every buffer is in one place, that the frames *)
(* are published in order, and that a shutdown drains the pipeline.        *)
(***************************************************************************)
EXTENDS MCCapture, PixelConversion_proofs, SequenceTheorems, FiniteSetTheorems, TLAPS

----------------------------------------------------------------------------
(* What the provers need of the constants, of sequences, and of steps that *)
(* several actions share.                                                  *)

\* The constants, the texture indices and the records that stand for no frame.
LEMMA Facts ==
  /\ Buffers \in Nat \ {0} /\ MaxFrames \in Nat /\ MaxRestarts \in Nat
  /\ Sizes \subseteq Nat \ {0} /\ Texture = {0, 1}
  /\ None \in Frame /\ None.id = 0 /\ NoWork = [id |-> 0, buf |-> 0]
  /\ \A b \in Buffer : b \in Nat \ {0}
BY PipelineAssumption DEF Texture, None, NoWork, Frame, Buffer

\* Sizes are positive.
LEMMA SizeFacts == \A s \in Sizes : s \in Nat /\ s > 0
BY PipelineAssumption

\* The first element of a sequence and the ones behind it.
LEMMA TailOf ==
  ASSUME NEW S, NEW s \in Seq(S), s # <<>>
  PROVE  /\ 1 \in DOMAIN s /\ Head(s) = s[1] /\ Head(s) \in S
         /\ Tail(s) \in Seq(S) /\ Len(Tail(s)) = Len(s) - 1
         /\ \A i \in DOMAIN Tail(s) :
              i \in Nat \ {0} /\ i + 1 \in DOMAIN s /\ Tail(s)[i] = s[i + 1]
         /\ \A i \in DOMAIN s : i = 1 \/ (i - 1 \in DOMAIN Tail(s) /\ s[i] = Tail(s)[i - 1])
BY HeadTailProperties, LenProperties

\* A sequence with one more element at its end.
LEMMA AppendTo ==
  ASSUME NEW S, NEW s \in Seq(S), NEW e \in S
  PROVE  /\ Append(s, e) \in Seq(S) /\ Len(Append(s, e)) = Len(s) + 1
         /\ DOMAIN Append(s, e) = DOMAIN s \cup {Len(s) + 1}
         /\ \A i \in DOMAIN s : i \in Nat /\ i <= Len(s) /\ Append(s, e)[i] = s[i]
         /\ Append(s, e)[Len(s) + 1] = e /\ Len(s) + 1 \notin DOMAIN s /\ Len(s) \in Nat
<1>1. /\ Append(s, e) \in Seq(S) /\ Len(Append(s, e)) = Len(s) + 1
      /\ \A i \in 1 .. Len(s) : Append(s, e)[i] = s[i]
      /\ Append(s, e)[Len(s) + 1] = e
  BY AppendProperties
<1>2. Len(s) \in Nat /\ DOMAIN s = 1 .. Len(s)
  BY LenProperties
<1>3. DOMAIN Append(s, e) = 1 .. Len(s) + 1
  BY <1>1, LenProperties
<1>4. DOMAIN Append(s, e) = DOMAIN s \cup {Len(s) + 1}
  BY <1>2, <1>3
<1>5. QED BY <1>1, <1>2, <1>4

\* A call that fails changes no more than the pending frame, which a flush gives up.
LEMMA ReturnFalse ==
  ASSUME Return(FALSE)
  PROVE  /\ hasPublished' = hasPublished
         /\ \/ site = "flush" /\ pending' = None /\ cpc' = "stop"
            \/ site # "flush" /\ pending' = pending /\ cpc' = "endLoop"
BY DEF Return

\* What the caller does after a call that succeeds.
LEMMA ReturnTrue ==
  ASSUME Return(TRUE)
  PROVE  \/ /\ site = "resize" /\ pending' = None /\ cpc' = "staging"
            /\ hasPublished' = hasPublished
         \/ site = "first" /\ hasPublished' = TRUE /\ cpc' = "acquire" /\ pending' = pending
         \/ /\ site = "pending" /\ pending' = cur /\ cpc' = "acquire"
            /\ hasPublished' = hasPublished
         \/ site = "flush" /\ pending' = None /\ cpc' = "stop" /\ hasPublished' = hasPublished
BY DEF Return

----------------------------------------------------------------------------
(* The inductive invariant.                                                *)

Mapping   == {"mqBuffers", "mqAcquire", "mqMap", "mqSync", "mqWrite", "mqEnqueue"}
Capturing == {"ensure", "reopen", "resize", "staging", "buffers", "copy"}
Ending    == {"join", "close", "done"}
Holding   == {"begin", "convert", "release", "failing", "failRelease"}

\* A failure and a stop, the ends of the threads, and the conversion thread's rest while
\* the swap-chain thread publishes by itself.
Lifecycle ==
  /\ failed => stop /\ vpc \in {"failRelease", "exited"}
  /\ vpc = "failRelease" => failed
  /\ ~failed /\ stop => cpc \in Ending
  /\ vpc = "exited" /\ ~failed => stop /\ queue = <<>>
  /\ vpc = "none" => cpc \in {"start", "done"}
  /\ cpc = "start" => vpc = "none" /\ ~hasPublished
  /\ cpc \in {"close", "done"} => vpc \in {"none", "exited"}
  /\ ~hasPublished /\ ~failed => queue = <<>> /\ vpc \in {"none", "idle", "exited"}
  /\ ~hasPublished /\ cpc \in {"mqMap", "mqSync", "mqWrite"} => ~failed

\* The frame being captured, and the frame a call maps.
Calls ==
  /\ cpc \in Capturing \/ (cpc \in Mapping /\ site # "flush") => cur.id > 0 /\ cur.size > 0
  /\ pending # None => hasPublished /\ pending.id > 0 /\ pending.size > 0
  /\ cpc \in Mapping => IF site = "first" THEN arg = cur /\ ~hasPublished
                                          ELSE arg = pending /\ pending # None
  /\ cpc \in {"mqSync", "mqWrite"} => ~hasPublished
  /\ cpc = "mqEnqueue" => hasPublished
  /\ cpc = "staging" /\ pending # None => texSize = cur.size
  /\ cpc \in {"mqAcquire", "mqMap", "mqSync", "mqWrite", "mqEnqueue"} => bytes > 0

\* A staging texture holds its frame until it is mapped, and the next frame goes into the
\* other one.
Textures ==
  /\ pending # None => tex[pending.tex] = pending.id
  /\ pending # None /\ cpc \in Capturing \cup {"acquire", "wait"} => pending.tex # wIdx
  /\ cpc \in Mapping /\ site \in {"first", "pending"} => tex[cur.tex] = cur.id /\ cur.tex # wIdx

\* A buffer holds its frame until it is converted.
Contents == ~failed =>
  /\ cpc \in {"mqSync", "mqWrite", "mqEnqueue"} => content[buf] = arg.id
  /\ \A i \in DOMAIN queue : content[queue[i].buf] = queue[i].id
  /\ vpc \in {"begin", "convert"} => content[work.buf] = work.id /\ bytes > 0
  /\ queue # <<>> => bytes > 0

\* Every buffer in use is in one place.
Accounts == ~failed =>
  /\ {b \in Buffer : inUse[b]} = HeldByCapture \cup HeldByConvert \cup Queued
  /\ HeldByCapture \cap (HeldByConvert \cup Queued) = {}
  /\ HeldByConvert \cap Queued = {}
  /\ \A i, j \in DOMAIN queue : queue[i].buf = queue[j].buf => i = j

\* The frames on their way to the ring, by place, and those that have reached it.
Fresh      == IF cpc \in Capturing \/ (cpc \in Mapping /\ site # "flush") THEN {cur.id} ELSE {}
Staged     == IF pending # None THEN {pending.id} ELSE {}
Waiting    == {queue[i].id : i \in DOMAIN queue}
Converting == IF vpc \in {"begin", "convert"} THEN {work.id} ELSE {}
Ids        == ToSet(published)

Below(A, B) == \A a \in A, b \in B : a < b
InLine ==
  /\ \A i, j \in DOMAIN published : i < j => published[i] < published[j]
  /\ \A i, j \in DOMAIN queue : i < j => queue[i].id < queue[j].id
  /\ Below(Ids, Converting \cup Waiting \cup Staged \cup Fresh)
  /\ Below(Converting, Waiting \cup Staged \cup Fresh)
  /\ Below(Waiting, Staged \cup Fresh)
  /\ Below(Staged, Fresh)
  /\ \A x \in Ids \cup Converting \cup Waiting \cup Staged \cup Fresh : 1 <= x /\ x <= cur.id
  /\ IF avail = 0 THEN presented = cur.id ELSE presented = cur.id + 1

\* Where no call fails and the host stays, no frame is given up.
Undisturbed == calm =>
  /\ valid /\ ~failed /\ vpc # "failing"
  /\ cpc \in (Capturing \ {"ensure", "reopen"}) \cup Mapping => view
  /\ pending # None \/ queue # <<>> \/ vpc \in {"begin", "convert"} => view
  /\ cpc \in {"stop", "join", "close", "done"} => pending = None
  /\ cpc = "done" => vpc = "exited"
  /\ 1 .. cur.id \subseteq Ids \cup Converting \cup Waiting \cup Staged \cup Fresh

IInv == TypeOK /\ Lifecycle /\ Calls /\ Textures /\ Contents /\ Accounts
        /\ InLine /\ Undisturbed

----------------------------------------------------------------------------
(* The type invariant, by the parts of the state.                          *)

CaptureOK ==
  /\ cpc \in CaptureSteps /\ site \in {"resize", "first", "pending", "flush"}
  /\ cur \in Frame /\ arg \in Frame /\ pending \in Frame
  /\ buf \in Buffer /\ wIdx \in Texture /\ texSize \in Sizes \cup {0}
  /\ tex \in [Texture -> 0 .. MaxFrames] /\ hasPublished \in BOOLEAN
Work == [id : 1 .. MaxFrames, buf : Buffer]
PoolOK ==
  /\ bytes \in Sizes \cup {0} /\ content \in [Buffer -> 0 .. MaxFrames]
  /\ inUse \in [Buffer -> BOOLEAN] /\ stop \in BOOLEAN /\ failed \in BOOLEAN
  /\ queue \in Seq(Work) /\ Len(queue) <= Buffers
ConvertOK == vpc \in ConvertSteps /\ work \in [id : 0 .. MaxFrames, buf : Buffer \cup {0}]
OutsideOK ==
  /\ view \in BOOLEAN /\ valid \in BOOLEAN /\ restarts \in 0 .. MaxRestarts
  /\ dpc \in {"live", "closing", "gone"} /\ terminate \in BOOLEAN
  /\ avail \in Sizes \cup {0} /\ presented \in 0 .. MaxFrames /\ calm \in BOOLEAN

\* The parts make up the type invariant.
LEMMA TypeParts ==
  TypeOK <=> CaptureOK /\ PoolOK /\ ConvertOK /\ OutsideOK /\ published \in Seq(1 .. MaxFrames)
BY Zenon DEF TypeOK, CaptureOK, PoolOK, ConvertOK, OutsideOK, Work

\* What the swap-chain thread leaves alone.
LEMMA CaptureFrame ==
  CaptureStep => UNCHANGED <<valid, restarts, dpc, presented, calm, failed, work>>
BY DEF CaptureStep, Start, Acquire, Wait, EnsureRing, ReopenRing, FlushForResize, EnsureStaging,
   EnsureBgra, CopyFrame, MapAndQueue, LeaveLoop, StopConversion, JoinConversion, CloseRing,
   MapBuffers, AcquireBuffer, MapTexture, SyncPublish, SyncWrite, Enqueue, EnsureBuffers,
   ring, outside, pool, convert

\* What the conversion thread leaves alone.
LEMMA ConvertFrame ==
  ConvertStep =>
    UNCHANGED <<capture, bytes, content, view, valid, restarts, dpc, avail, presented, calm>>
BY DEF ConvertStep, TakeWork, ConvertExit, BeginConvert, EndConvert, ReleaseWork, ConvertFails,
   ReleaseFailed, capture, pool, ring, outside

\* Steps outside the two threads, and what they leave alone.
OutsideStep == Destroy \/ Destroyed \/ Present \/ HostZeroes \/ HostReady \/ UNCHANGED vars
LEMMA OutsideFrame ==
  OutsideStep => UNCHANGED <<capture, pool, convert, view, calm, published>>
BY DEF OutsideStep, Destroy, Destroyed, Present, HostZeroes, HostReady, vars, ring, outside
LEMMA StepCases == [Next]_vars => CaptureStep \/ ConvertStep \/ OutsideStep
BY DEF Next, Finished, OutsideStep

\* The swap-chain thread's own state.
LEMMA NextCaptureOK == ASSUME IInv, [Next]_vars PROVE CaptureOK'
<1>0. CaptureOK /\ avail \in Sizes \cup {0} /\ presented \in 0 .. MaxFrames
  BY TypeParts DEF IInv, OutsideOK
<1> USE DEF captureArgs
<1>1. CASE Start \/ Wait \/ EnsureRing \/ ReopenRing
  BY <1>0, <1>1 DEF Start, Wait, EnsureRing, ReopenRing, CaptureOK, CaptureSteps
<1>2. CASE Acquire
  <2>1. cur' \in Frame
    BY <1>0, <1>2 DEF Acquire, CaptureOK, Frame, Texture
  <2>2. QED BY <1>0, <1>2, <2>1 DEF Acquire, CaptureOK, CaptureSteps
<1>3. CASE FlushForResize
  BY <1>0, <1>3 DEF FlushForResize, Call, CaptureOK, CaptureSteps
<1>4. CASE EnsureStaging
  <2>1. cur.size \in Sizes \cup {0} /\ 0 \in Texture /\ 0 \in 0 .. MaxFrames
    BY <1>0, Facts DEF CaptureOK, Frame
  <2>2. tex' \in [Texture -> 0 .. MaxFrames] /\ wIdx' \in Texture /\ texSize' \in Sizes \cup {0}
    BY <1>0, <1>4, <2>1 DEF EnsureStaging, CaptureOK
  <2>3. cpc' \in CaptureSteps /\ pending' \in Frame /\ hasPublished' \in BOOLEAN
    BY <1>0, <1>4, Facts DEF EnsureStaging, CaptureOK, CaptureSteps
  <2>4. QED BY <1>0, <1>4, <2>2, <2>3 DEF EnsureStaging, CaptureOK
<1>5. CASE EnsureBgra
  BY <1>0, <1>5 DEF EnsureBgra, CaptureOK, CaptureSteps
<1>6. CASE CopyFrame
  <2>1. tex' \in [Texture -> 0 .. MaxFrames]
    BY <1>0, <1>6 DEF CopyFrame, CaptureOK, Frame
  <2>2. [cur EXCEPT !.tex = wIdx] \in Frame
    BY <1>0 DEF CaptureOK, Frame
  <2>3. 1 - wIdx \in Texture
    BY <1>0, Facts DEF CaptureOK
  <2>4. /\ cur' \in Frame /\ wIdx' \in Texture /\ arg' \in Frame /\ pending' \in Frame
        /\ site' \in {"resize", "first", "pending", "flush"} /\ cpc' \in CaptureSteps
    BY <1>0, <1>6, <2>2, <2>3 DEF CopyFrame, NextIndex, Call, CaptureOK, CaptureSteps
  <2>5. QED BY <1>0, <1>6, <2>1, <2>4 DEF CopyFrame, CaptureOK
<1>7. CASE LeaveLoop
  BY <1>0, <1>7 DEF LeaveLoop, Flush, Call, CaptureOK, CaptureSteps
<1>8. CASE StopConversion \/ JoinConversion \/ CloseRing
  BY <1>0, <1>8 DEF StopConversion, JoinConversion, CloseRing, CaptureOK, CaptureSteps
<1>9. CASE MapAndQueue
  <2>1. \A ok \in BOOLEAN : Return(ok) =>
          cpc' \in CaptureSteps /\ pending' \in Frame /\ hasPublished' \in BOOLEAN
    BY <1>0, Facts DEF Return, CaptureOK, CaptureSteps
  <2>2. cpc' \in CaptureSteps /\ pending' \in Frame /\ hasPublished' \in BOOLEAN
    BY <1>0, <1>9, <2>1 DEF MapAndQueue, MapBuffers, AcquireBuffer, MapTexture, SyncPublish,
       SyncWrite, Enqueue, CaptureOK, CaptureSteps
  <2>3. buf' \in Buffer /\ UNCHANGED captureArgs
    BY <1>0, <1>9 DEF MapAndQueue, MapBuffers, AcquireBuffer, MapTexture, SyncPublish,
       SyncWrite, Enqueue, CaptureOK
  <2>4. QED BY <1>0, <2>2, <2>3 DEF CaptureOK
<1>10. CASE ConvertStep \/ OutsideStep
  BY <1>0, <1>10, ConvertFrame, OutsideFrame DEF capture, CaptureOK
<1>11. QED
  BY <1>1, <1>2, <1>3, <1>4, <1>5, <1>6, <1>7, <1>8, <1>9, <1>10, StepCases DEF CaptureStep

\* Buffers allocated anew.
LEMMA ReallocateType ==
  ASSUME NEW size \in Sizes \cup {0}, Reallocate(size), stop \in BOOLEAN, failed \in BOOLEAN,
         UNCHANGED <<stop, failed>>
  PROVE  PoolOK'
<1>1. <<>> \in Seq(Work) /\ Len(<<>>) <= Buffers
  BY Facts, EmptySeq
<1>2. QED BY <1>1, Facts DEF Reallocate, PoolOK

\* What is known of a frame that is mapped: it has an id, and its texture holds it.
LEMMA Mapped ==
  ASSUME IInv, cpc \in Mapping
  PROVE  /\ arg.id \in 1 .. MaxFrames /\ arg.size \in Sizes /\ arg.tex \in Texture
         /\ tex[arg.tex] = arg.id /\ site \in {"resize", "first", "pending", "flush"}
<1>1. arg \in Frame /\ site \in {"resize", "first", "pending", "flush"}
  BY TypeParts DEF IInv, CaptureOK
<1>2. arg.id > 0 /\ arg.size > 0
  BY <1>1 DEF IInv, Calls
<1>3. tex[arg.tex] = arg.id
  BY <1>1 DEF IInv, Calls, Textures
<1>4. QED BY <1>1, <1>2, <1>3, Facts DEF Frame

\* The buffers and their queue.
LEMMA NextPoolOK == ASSUME IInv, [Next]_vars PROVE PoolOK'
<1>0. PoolOK /\ CaptureOK
  BY TypeParts DEF IInv
<1>1. CASE MapBuffers \/ EnsureBgra
  <2>1. cpc \in Mapping => arg.size \in Sizes
    BY Mapped
  <2>2. cur.size \in Sizes \cup {0}
    BY <1>0 DEF CaptureOK, Frame
  <2>3. CASE UNCHANGED pool
    BY <1>0, <2>3 DEF pool, PoolOK
  <2>4. CASE UNCHANGED <<stop, failed>> /\ \E size \in Sizes \cup {0} : Reallocate(size)
    BY <1>0, <2>4, ReallocateType DEF PoolOK
  <2>5. QED
    BY <1>1, <2>1, <2>2, <2>3, <2>4 DEF MapBuffers, EnsureBgra, EnsureBuffers, Mapping
<1>2. CASE AcquireBuffer \/ SyncPublish \/ SyncWrite
  <2>1. inUse' \in [Buffer -> BOOLEAN]
    BY <1>0, <1>2 DEF AcquireBuffer, SyncPublish, SyncWrite, Release, PoolOK
  <2>2. UNCHANGED <<bytes, content, queue, stop, failed>>
    BY <1>2 DEF AcquireBuffer, SyncPublish, SyncWrite
  <2>3. QED BY <1>0, <2>1, <2>2 DEF PoolOK
<1>3. CASE MapTexture
  <2>1. arg.tex \in Texture /\ tex \in [Texture -> 0 .. MaxFrames]
    BY <1>0 DEF CaptureOK, Frame
  <2>2. inUse' \in [Buffer -> BOOLEAN] /\ content' \in [Buffer -> 0 .. MaxFrames]
    BY <1>0, <1>3, <2>1 DEF MapTexture, Release, PoolOK
  <2>3. UNCHANGED <<bytes, queue, stop, failed>>
    BY <1>3 DEF MapTexture
  <2>4. QED BY <1>0, <2>2, <2>3 DEF PoolOK
<1>4. CASE Enqueue
  <2>1. inUse' \in [Buffer -> BOOLEAN] /\ UNCHANGED <<bytes, content, stop, failed>>
    BY <1>0, <1>4 DEF Enqueue, Release, PoolOK
  <2>2. CASE queue' = queue
    BY <1>0, <2>1, <2>2 DEF PoolOK
  <2>3. CASE Len(queue) < Buffers /\ queue' = Append(queue, [id |-> arg.id, buf |-> buf])
    <3>1. [id |-> arg.id, buf |-> buf] \in Work /\ queue \in Seq(Work)
      BY <1>0, <1>4, Mapped DEF Enqueue, Mapping, CaptureOK, PoolOK, Work
    <3>2. queue' \in Seq(Work) /\ Len(queue') = Len(queue) + 1 /\ Len(queue) \in Nat
      BY <2>3, <3>1, AppendTo
    <3>3. QED BY <1>0, <2>1, <2>3, <3>2, Facts DEF PoolOK
  <2>4. Len(queue) \in Nat
    BY <1>0, LenProperties DEF PoolOK
  <2>5. \/ queue' = queue
        \/ ~(Len(queue) >= Buffers) /\ queue' = Append(queue, [id |-> arg.id, buf |-> buf])
    BY <1>4, Zenon DEF Enqueue
  <2>6. QED BY <2>2, <2>3, <2>4, <2>5, Facts
<1>5. CASE Start \/ Acquire \/ Wait \/ EnsureRing \/ ReopenRing \/ FlushForResize
           \/ EnsureStaging \/ CopyFrame \/ LeaveLoop \/ JoinConversion \/ CloseRing
  <2>1. UNCHANGED pool
    BY <1>5 DEF Start, Acquire, Wait, EnsureRing, ReopenRing, FlushForResize, EnsureStaging,
       CopyFrame, LeaveLoop, JoinConversion, CloseRing
  <2>2. QED BY <1>0, <2>1 DEF pool, PoolOK
<1>6. CASE StopConversion \/ ConvertFails
  BY <1>0, <1>6 DEF StopConversion, ConvertFails, PoolOK
<1>7. CASE TakeWork
  <2>1. Tail(queue) \in Seq(Work) /\ Len(Tail(queue)) = Len(queue) - 1 /\ Len(queue) \in Nat
    BY <1>0, <1>7, TailOf, LenProperties DEF TakeWork, PoolOK
  <2>2. QED BY <1>0, <1>7, <2>1, Facts DEF TakeWork, PoolOK
<1>8. CASE ReleaseWork \/ ReleaseFailed
  <2>1. inUse' \in [Buffer -> BOOLEAN] /\ UNCHANGED <<bytes, content, queue, stop, failed>>
    BY <1>0, <1>8 DEF ReleaseWork, ReleaseFailed, Release, PoolOK
  <2>2. QED BY <1>0, <2>1 DEF PoolOK
<1>9. CASE ConvertExit \/ BeginConvert \/ EndConvert \/ OutsideStep
  <2>1. UNCHANGED pool
    BY <1>9, OutsideFrame DEF ConvertExit, BeginConvert, EndConvert
  <2>2. QED BY <1>0, <2>1 DEF pool, PoolOK
<1>10. QED
  BY <1>1, <1>2, <1>3, <1>4, <1>5, <1>6, <1>7, <1>8, <1>9, StepCases
  DEF CaptureStep, ConvertStep, MapAndQueue

\* The conversion thread's own state.
LEMMA NextConvertOK == ASSUME IInv, [Next]_vars PROVE ConvertOK'
<1>0. ConvertOK /\ queue \in Seq(Work)
  BY TypeParts DEF IInv, PoolOK
<1>1. CASE CaptureStep \/ OutsideStep
  <2>1. CASE Start
    BY <1>0, <2>1 DEF Start, ConvertOK, ConvertSteps
  <2>2. CASE ~Start
    <3>1. UNCHANGED <<vpc, work>>
      BY <1>1, <2>2, OutsideFrame DEF CaptureStep, convert,
         Acquire, Wait, EnsureRing, ReopenRing, FlushForResize, EnsureStaging, EnsureBgra,
         CopyFrame, LeaveLoop, StopConversion, JoinConversion, CloseRing, MapAndQueue,
         MapBuffers, AcquireBuffer, MapTexture, SyncPublish, SyncWrite, Enqueue
    <3>2. QED BY <1>0, <3>1 DEF ConvertOK
  <2>3. QED BY <2>1, <2>2
<1>2. CASE TakeWork
  <2>1. Head(queue) \in Work
    BY <1>0, <1>2, TailOf DEF TakeWork
  <2>2. QED BY <1>2, <2>1, Facts DEF TakeWork, Work, ConvertOK, ConvertSteps
<1>3. CASE ConvertExit \/ BeginConvert \/ EndConvert \/ ConvertFails
  BY <1>0, <1>3 DEF ConvertExit, BeginConvert, EndConvert, ConvertFails, ConvertOK, ConvertSteps
<1>4. CASE ReleaseWork \/ ReleaseFailed
  BY <1>4, Facts DEF ReleaseWork, ReleaseFailed, ConvertOK, ConvertSteps
<1>5. QED BY <1>1, <1>2, <1>3, <1>4, StepCases DEF ConvertStep

\* The view, the host, the destructor and the operating system.
LEMMA NextOutsideOK == ASSUME IInv, [Next]_vars PROVE OutsideOK'
<1>0. OutsideOK
  BY TypeParts DEF IInv
<1>1. CASE CaptureStep
  <2>1. UNCHANGED <<valid, restarts, dpc, presented, calm>>
    BY <1>1, CaptureFrame
  <2>2. view' \in {view, TRUE, FALSE} /\ terminate' \in {terminate, FALSE}
        /\ avail' \in {avail, 0}
    BY <1>1 DEF CaptureStep, ring, outside, Start,
       Acquire, Wait, EnsureRing, ReopenRing, FlushForResize, EnsureStaging, EnsureBgra,
       CopyFrame, LeaveLoop, StopConversion, JoinConversion, CloseRing, MapAndQueue,
       MapBuffers, AcquireBuffer, MapTexture, SyncPublish, SyncWrite, Enqueue
  <2>3. QED BY <1>0, <2>1, <2>2 DEF OutsideOK
<1>2. CASE ConvertStep
  <2>1. terminate' \in {terminate, TRUE}
    BY <1>2 DEF ConvertStep, TakeWork, ConvertExit, BeginConvert, EndConvert, ReleaseWork,
       ConvertFails, ReleaseFailed, WakeCapture, outside
  <2>2. restarts' = restarts
    BY <1>2, ConvertFrame
  <2>3. QED BY <1>0, <1>2, <2>1, <2>2, ConvertFrame DEF OutsideOK
<1>3. CASE Destroy \/ Destroyed
  BY <1>0, <1>3 DEF Destroy, Destroyed, ring, OutsideOK
<1>4. CASE Present
  BY <1>0, <1>4, Facts DEF Present, ring, OutsideOK
<1>5. CASE HostZeroes \/ HostReady
  <2>1. UNCHANGED <<view, dpc, terminate, avail, presented, calm>> /\ valid' \in BOOLEAN
    BY <1>5 DEF HostZeroes, HostReady, outside
  <2>2. restarts' = restarts \/ (restarts < MaxRestarts /\ restarts' = restarts + 1)
    BY <1>5 DEF HostZeroes, HostReady
  <2>3. restarts' \in 0 .. MaxRestarts
    BY <1>0, <2>2, Facts DEF OutsideOK
  <2>4. QED BY <1>0, <2>1, <2>3 DEF OutsideOK
<1>6. CASE UNCHANGED vars
  BY <1>0, <1>6 DEF vars, ring, outside, OutsideOK
<1>7. QED BY <1>1, <1>2, <1>3, <1>4, <1>5, <1>6, StepCases DEF OutsideStep

\* A frame is published with its own pixels, those that its buffer holds, and by one step
\* of each thread only.
LEMMA Publishing ==
  ASSUME IInv, [Next]_vars
  PROVE  \/ published' = published
         \/ /\ cpc = "mqWrite" /\ SyncWrite /\ Return(TRUE)
            /\ ~failed /\ ~hasPublished /\ site = "first" /\ arg = cur
            /\ published' = Append(published, arg.id)
         \/ /\ vpc = "convert" /\ EndConvert /\ vpc' = "release" /\ ~failed
            /\ published' = Append(published, work.id)
<1>1. CASE SyncWrite
  <2>1. cpc = "mqWrite" /\ ~failed /\ ~hasPublished /\ site = "first" /\ arg = cur
        /\ content[buf] = arg.id
    BY <1>1 DEF SyncWrite, IInv, Lifecycle, Calls, Mapping, Contents
  <2>2. QED BY <1>1, <2>1 DEF SyncWrite
<1>2. CASE EndConvert
  <2>1. vpc = "convert" /\ ~failed /\ content[work.buf] = work.id
    BY <1>2 DEF EndConvert, IInv, Lifecycle, Contents
  <2>2. QED BY <1>2, <2>1 DEF EndConvert
<1>3. CASE CaptureStep /\ ~SyncWrite
  BY <1>3 DEF CaptureStep, Start,
     Acquire, Wait, EnsureRing, ReopenRing, FlushForResize, EnsureStaging, EnsureBgra,
     CopyFrame, LeaveLoop, StopConversion, JoinConversion, CloseRing, MapAndQueue,
     MapBuffers, AcquireBuffer, MapTexture, SyncPublish, Enqueue
<1>4. CASE ConvertStep /\ ~EndConvert
  BY <1>4 DEF ConvertStep, TakeWork, ConvertExit, BeginConvert, ReleaseWork, ConvertFails,
     ReleaseFailed
<1>5. CASE OutsideStep
  BY <1>5, OutsideFrame
<1>6. QED BY <1>1, <1>2, <1>3, <1>4, <1>5, StepCases

\* A frame with an id is a frame that was presented.
LEMMA WorkId == ASSUME IInv, vpc \in {"begin", "convert"} PROVE work.id \in 1 .. MaxFrames
<1>1. work.id \in 0 .. MaxFrames /\ work.id \in Converting
  BY TypeParts DEF IInv, ConvertOK, Converting
<1>2. 1 <= work.id
  BY <1>1 DEF IInv, InLine
<1>3. QED BY <1>1, <1>2, Facts

\* No step leaves the shape of the state.
LEMMA NextType == ASSUME IInv, [Next]_vars PROVE TypeOK'
<1>1. published' \in Seq(1 .. MaxFrames)
  <2>1. published \in Seq(1 .. MaxFrames)
    BY TypeParts DEF IInv
  <2>2. \/ published' = published
        \/ \E x \in 1 .. MaxFrames : published' = Append(published, x)
    BY Publishing, Mapped, WorkId DEF Mapping
  <2>3. ASSUME NEW x \in 1 .. MaxFrames, published' = Append(published, x)
        PROVE  published' \in Seq(1 .. MaxFrames)
    BY <2>1, <2>3, AppendTo
  <2>4. QED BY <2>1, <2>2, <2>3
<1>2. (CaptureOK /\ PoolOK /\ ConvertOK /\ OutsideOK)'
  BY NextCaptureOK, NextPoolOK, NextConvertOK, NextOutsideOK
<1>3. QED
  BY <1>1, <1>2, Zenon DEF TypeOK, CaptureOK, PoolOK, ConvertOK, OutsideOK, Work

----------------------------------------------------------------------------
(* The ends of the threads, and the frame that a call maps.                *)

\* When the swap-chain thread no longer waits for the conversion, nothing is queued, held
\* or in use.
LEMMA Resting ==
  ASSUME IInv, Idle, ~failed, vpc # "none"
  PROVE  queue = <<>> /\ vpc \in {"idle", "exited"} /\ \A b \in Buffer : ~inUse[b]
<1>1. queue = <<>> /\ \A b \in Buffer : ~inUse[b]
  BY DEF Idle, AllReturned
<1>2. HeldByConvert = {}
  BY <1>1 DEF IInv, Accounts
<1>3. vpc \in ConvertSteps
  BY TypeParts DEF IInv, ConvertOK
<1>4. QED BY <1>1, <1>2, <1>3 DEF HeldByConvert, ConvertSteps

\* The steps of a call leave the conversion thread alone, and go to the next step of the
\* call or back to the caller.
LEMMA MapAndQueueSteps ==
  ASSUME MapAndQueue
  PROVE  /\ cpc \in Mapping
         /\ UNCHANGED <<vpc, work, stop, failed, calm, avail, presented, view>>
         /\ UNCHANGED <<site, cur, arg, tex, texSize, wIdx>>
         /\ \/ cpc' \in Mapping /\ UNCHANGED <<pending, hasPublished>>
            \/ Return(TRUE) /\ cpc \in {"mqWrite", "mqEnqueue"}
            \/ Return(FALSE)
BY DEF MapAndQueue, MapBuffers, AcquireBuffer, MapTexture, SyncPublish, SyncWrite, Enqueue,
   EnsureBuffers, Mapping, pool, convert, outside, ring, captureArgs

\* The threads end as they should.
LEMMA NextLifecycle == ASSUME IInv, [Next]_vars PROVE Lifecycle'
<1>0. Lifecycle /\ vpc \in ConvertSteps /\ cpc \in CaptureSteps /\ hasPublished \in BOOLEAN
  BY TypeParts DEF IInv, ConvertOK, CaptureOK
<1> USE DEF Ending
<1>1. CASE Start
  BY <1>0, <1>1 DEF Start, Lifecycle, pool
<1>2. CASE Acquire \/ Wait \/ EnsureRing \/ ReopenRing \/ FlushForResize \/ CopyFrame
           \/ LeaveLoop
  <2>1. UNCHANGED <<queue, failed, stop, vpc, hasPublished>>
    BY <1>2 DEF Acquire, Wait, EnsureRing, ReopenRing, FlushForResize, CopyFrame, LeaveLoop,
       pool, convert
  <2>2. /\ cpc \in Capturing \cup {"acquire", "wait", "endLoop"}
        /\ cpc' \in Capturing \cup {"acquire", "wait", "endLoop", "mqBuffers", "stop"}
    BY <1>2 DEF Acquire, Wait, EnsureRing, ReopenRing, FlushForResize, CopyFrame, LeaveLoop,
       Flush, Call, Capturing
  <2>3. QED BY <1>0, <2>1, <2>2 DEF Lifecycle, Capturing
<1>3. CASE EnsureStaging
  <2>1. UNCHANGED <<queue, failed, stop, vpc>> /\ hasPublished' \in {hasPublished, FALSE}
        /\ cpc = "staging" /\ cpc' \in {"buffers", "endLoop"}
    BY <1>3 DEF EnsureStaging, pool, convert
  <2>2. hasPublished' # hasPublished /\ ~failed => queue = <<>> /\ vpc \in {"idle", "exited"}
    BY <1>0, <1>3, Resting DEF EnsureStaging, Lifecycle
  <2>3. QED BY <1>0, <2>1, <2>2 DEF Lifecycle
<1>4. CASE EnsureBgra
  <2>1. UNCHANGED <<failed, stop, vpc, hasPublished>> /\ queue' \in {queue, <<>>}
        /\ cpc = "buffers" /\ cpc' \in {"copy", "endLoop"}
    BY <1>4 DEF EnsureBgra, EnsureBuffers, Reallocate, pool, convert
  <2>2. QED BY <1>0, <2>1 DEF Lifecycle
<1>5. CASE MapBuffers \/ AcquireBuffer \/ MapTexture \/ SyncPublish \/ SyncWrite
  <2>1. /\ cpc \in Mapping /\ UNCHANGED <<vpc, stop, failed>>
        /\ cpc' \in Mapping \cup {"endLoop", "acquire", "staging", "stop"}
        /\ hasPublished' \in {hasPublished, TRUE}
    BY <1>5, MapAndQueueSteps, ReturnTrue, ReturnFalse DEF MapAndQueue
  <2>2. queue' \in {queue, <<>>}
    BY <1>5 DEF MapBuffers, AcquireBuffer, MapTexture, SyncPublish, SyncWrite, EnsureBuffers,
       Reallocate, pool
  <2>3. cpc' \in {"mqMap", "mqSync", "mqWrite"} =>
          \/ cpc = "mqAcquire" /\ ~failed
          \/ cpc \in {"mqMap", "mqSync", "mqWrite"} /\ hasPublished' = hasPublished
    BY <1>5, ReturnTrue, ReturnFalse DEF MapBuffers, AcquireBuffer, MapTexture, SyncPublish,
       SyncWrite
  <2>4. ~hasPublished' /\ cpc' \in {"mqMap", "mqSync", "mqWrite"} => ~failed'
    BY <1>0, <2>1, <2>3 DEF Lifecycle
  <2>5. cpc \notin {"start", "close", "done", "join"} /\ cpc' \notin {"start", "close", "done"}
    BY <2>1 DEF Mapping
  <2>6. ~hasPublished' => ~hasPublished
    BY <1>0, <2>1
  <2>7. QED BY <1>0, <2>1, <2>2, <2>4, <2>5, <2>6 DEF Lifecycle
<1>6. CASE Enqueue
  <2>1. /\ cpc = "mqEnqueue" /\ UNCHANGED <<vpc, stop, failed>>
        /\ cpc' \in {"endLoop", "acquire", "staging", "stop"}
        /\ hasPublished' = TRUE
    BY <1>6, ReturnTrue, ReturnFalse DEF Enqueue, convert, IInv, Calls
  <2>2. queue' = queue \/ (~stop /\ ~failed)
    BY <1>6 DEF Enqueue
  <2>3. QED BY <1>0, <2>1, <2>2 DEF Lifecycle
<1>7. CASE StopConversion
  BY <1>0, <1>7 DEF StopConversion, convert, Lifecycle
<1>8. CASE JoinConversion
  BY <1>0, <1>8 DEF JoinConversion, pool, convert, Lifecycle
<1>9. CASE CloseRing
  BY <1>0, <1>9 DEF CloseRing, pool, convert, Lifecycle
<1>10. CASE TakeWork
  BY <1>0, <1>10 DEF TakeWork, MayExit, capture, Lifecycle
<1>11. CASE ConvertExit
  BY <1>0, <1>11 DEF ConvertExit, MayExit, capture, pool, Lifecycle
<1>12. CASE BeginConvert \/ EndConvert
  BY <1>0, <1>12 DEF BeginConvert, EndConvert, capture, pool, Lifecycle
<1>13. CASE ReleaseWork
  BY <1>0, <1>13 DEF ReleaseWork, capture, Lifecycle
<1>14. CASE ConvertFails
  BY <1>0, <1>14 DEF ConvertFails, capture, Lifecycle
<1>15. CASE ReleaseFailed
  BY <1>0, <1>15 DEF ReleaseFailed, capture, Lifecycle
<1>16. CASE OutsideStep
  BY <1>0, <1>16, OutsideFrame DEF capture, pool, convert, Lifecycle
<1>17. QED
  BY <1>1, <1>2, <1>3, <1>4, <1>5, <1>6, <1>7, <1>8, <1>9, <1>10, <1>11, <1>12, <1>13,
     <1>14, <1>15, <1>16, StepCases
  DEF CaptureStep, ConvertStep, MapAndQueue

\* A call maps the frame that its caller means, and a frame that waits in a texture is one
\* that was captured.
LEMMA NextCalls == ASSUME IInv, [Next]_vars PROVE Calls'
<1>0. /\ Calls /\ CaptureOK /\ avail \in Sizes \cup {0} /\ presented \in Nat
      /\ bytes \in Sizes \cup {0} /\ None.id = 0
  BY TypeParts, Facts DEF IInv, OutsideOK, PoolOK
<1> USE DEF captureArgs
<1>1. CASE Start \/ Wait \/ EnsureRing \/ ReopenRing
  <2>1. UNCHANGED <<cur, pending, site, arg, hasPublished, bytes, texSize>>
    BY <1>1 DEF Start, Wait, EnsureRing, ReopenRing, pool
  <2>2. /\ cpc \in {"start", "wait", "ensure", "reopen"}
        /\ cpc' \in {"acquire", "endLoop", "done"}
           \/ (cpc \in {"ensure", "reopen"} /\ cpc' \in {"reopen", "resize"})
    BY <1>1 DEF Start, Wait, EnsureRing, ReopenRing
  <2>3. QED BY <1>0, <2>1, <2>2 DEF Calls, Capturing, Mapping
<1>2. CASE Acquire
  <2>1. UNCHANGED <<pending, site, arg, hasPublished, bytes, texSize>>
    BY <1>2 DEF Acquire, pool
  <2>2. cpc' \in {"wait", "endLoop"} \/ (cpc' = "ensure" /\ cur'.id > 0 /\ cur'.size > 0)
    <3>1. avail # 0 => presented > 0 /\ avail > 0
      BY <1>0, Facts DEF IInv, InLine, CaptureOK, Frame
    <3>2. QED BY <1>2, <3>1 DEF Acquire
  <2>3. QED BY <1>0, <2>1, <2>2 DEF Calls, Capturing, Mapping
<1>3. CASE FlushForResize
  BY <1>0, <1>3 DEF FlushForResize, Call, pool, Calls, Capturing, Mapping
<1>4. CASE EnsureStaging
  BY <1>0, <1>4 DEF EnsureStaging, pool, Calls, Capturing, Mapping
<1>5. CASE EnsureBgra
  BY <1>0, <1>5 DEF EnsureBgra, Calls, Capturing, Mapping
<1>6. CASE CopyFrame
  <2>1. cur.id > 0 /\ cur.size > 0 /\ cpc = "copy"
    BY <1>0, <1>6 DEF CopyFrame, Calls, Capturing
  <2>2. /\ UNCHANGED <<hasPublished, bytes, texSize>>
        /\ cur' \in {cur, [cur EXCEPT !.tex = wIdx]}
    BY <1>6 DEF CopyFrame, pool
  <2>3. cur'.id = cur.id /\ cur'.size = cur.size
    BY <1>0, <2>2 DEF CaptureOK, Frame
  <2>4. \/ cpc' = "mqBuffers" /\ site' = "first" /\ arg' = cur' /\ ~hasPublished
           /\ pending' = pending
        \/ /\ cpc' = "mqBuffers" /\ site' = "pending" /\ arg' = pending /\ pending # None
           /\ pending' = pending
        \/ cpc' = "acquire" /\ hasPublished /\ pending' = cur'
        \/ cpc' = "endLoop" /\ pending' = pending
    BY <1>6 DEF CopyFrame, Call
  <2>5. QED BY <1>0, <2>1, <2>2, <2>3, <2>4 DEF Calls, Capturing, Mapping
<1>7. CASE LeaveLoop
  BY <1>0, <1>7 DEF LeaveLoop, Flush, Call, pool, Calls, Capturing, Mapping
<1>8. CASE StopConversion \/ JoinConversion \/ CloseRing
  BY <1>0, <1>8 DEF StopConversion, JoinConversion, CloseRing, pool, Calls, Capturing, Mapping
<1>9. CASE MapAndQueue
  <2>1. UNCHANGED <<site, cur, arg, texSize>> /\ cpc \in Mapping
    BY <1>9, MapAndQueueSteps
  <2>2. CASE cpc' \in Mapping /\ UNCHANGED <<pending, hasPublished>>
    <3>1. cpc' \in {"mqSync", "mqWrite"} => ~hasPublished'
      BY <1>0, <1>9, <2>2, ReturnTrue, ReturnFalse DEF MapAndQueue, MapBuffers, AcquireBuffer,
         MapTexture, SyncPublish, SyncWrite, Enqueue, Calls, CaptureOK
    <3>2. cpc' = "mqEnqueue" => hasPublished'
      BY <1>0, <1>9, <2>2, ReturnTrue, ReturnFalse DEF MapAndQueue, MapBuffers, AcquireBuffer,
         MapTexture, SyncPublish, SyncWrite, Enqueue, Calls, CaptureOK
    <3>3. cpc' \in {"mqAcquire", "mqMap", "mqSync", "mqWrite", "mqEnqueue"} => bytes' > 0
      <4>1. CASE MapBuffers
        <5>1. arg.size \in Nat /\ arg.size > 0 /\ bytes \in Nat
          BY <1>0, <2>1, Mapped, SizeFacts
        <5>2. bytes' = arg.size \/ (bytes' = bytes /\ bytes >= arg.size)
          BY <2>2, <4>1, ReturnFalse DEF MapBuffers, EnsureBuffers, Reallocate, Allocated, pool,
             Mapping
        <5>3. QED BY <5>1, <5>2
      <4>2. CASE ~MapBuffers
        BY <1>0, <1>9, <4>2 DEF MapAndQueue, AcquireBuffer, MapTexture, SyncPublish, SyncWrite,
           Enqueue, Calls
      <4>3. QED BY <4>1, <4>2
    <3>4. QED BY <1>0, <2>1, <2>2, <3>1, <3>2, <3>3 DEF Calls, Mapping, Capturing
  <2>3. CASE Return(TRUE)
    <3>1. site # "flush" => cur.id > 0 /\ cur.size > 0
      BY <1>0, <2>1 DEF Calls
    <3>2. site # "first" => hasPublished
      BY <1>0, <2>1 DEF Calls
    <3>3. QED BY <1>0, <2>1, <2>3, <3>1, <3>2, ReturnTrue DEF Calls, Mapping, Capturing
  <2>4. CASE Return(FALSE)
    BY <1>0, <2>1, <2>4, ReturnFalse DEF Calls, Mapping, Capturing
  <2>5. QED BY <1>9, <2>2, <2>3, <2>4, MapAndQueueSteps
<1>10. CASE ConvertStep \/ OutsideStep
  BY <1>0, <1>10, ConvertFrame, OutsideFrame DEF capture, pool, Calls
<1>11. QED
  BY <1>1, <1>2, <1>3, <1>4, <1>5, <1>6, <1>7, <1>8, <1>9, <1>10, StepCases DEF CaptureStep

\* The texture of a frame is not written before the frame is mapped.
LEMMA NextTextures == ASSUME IInv, [Next]_vars PROVE Textures'
<1>0. Textures /\ Calls /\ CaptureOK
  BY TypeParts DEF IInv
<1> USE DEF captureArgs
<1>1. CASE CopyFrame
  <2>1. /\ tex' = [tex EXCEPT ![wIdx] = cur.id] /\ cpc = "copy" /\ wIdx \in Texture
        /\ tex \in [Texture -> 0 .. MaxFrames] /\ pending.tex \in Texture
    BY <1>0, <1>1 DEF CopyFrame, CaptureOK, Frame
  <2>2. tex'[wIdx] = cur.id
        /\ (pending # None => tex'[pending.tex] = pending.id /\ pending.tex # wIdx)
    BY <1>0, <2>1 DEF Textures, Capturing
  <2>3. \/ /\ wIdx' = 1 - wIdx /\ cur'.id = cur.id /\ cur'.tex = wIdx
           /\ \/ cpc' = "mqBuffers" /\ site' \in {"first", "pending"} /\ pending' = pending
              \/ cpc' = "acquire" /\ pending' = cur'
        \/ cpc' = "endLoop" /\ pending' = pending
    BY <1>0, <1>1 DEF CopyFrame, Call, NextIndex, CaptureOK, Frame
  <2>4. 1 - wIdx # wIdx
    BY <2>1, Facts
  <2>5. QED BY <2>2, <2>3, <2>4 DEF Textures, Mapping, Capturing
<1>2. CASE EnsureStaging
  <2>1. cpc = "staging" /\ cpc' \in {"buffers", "endLoop"} /\ UNCHANGED <<site, cur>>
    BY <1>2 DEF EnsureStaging
  <2>2. UNCHANGED <<tex, wIdx, pending>> \/ pending' = None
    BY <1>2 DEF EnsureStaging
  <2>3. QED BY <1>0, <2>1, <2>2 DEF Textures, Mapping, Capturing
<1>3. CASE Start \/ Acquire \/ Wait \/ EnsureRing \/ ReopenRing \/ FlushForResize \/ EnsureBgra
           \/ LeaveLoop \/ StopConversion \/ JoinConversion \/ CloseRing
  <2>1. UNCHANGED <<tex, wIdx, pending>>
    BY <1>3 DEF Start, Acquire, Wait, EnsureRing, ReopenRing, FlushForResize, EnsureBgra,
       LeaveLoop, StopConversion, JoinConversion, CloseRing
  <2>2. cpc' \in Mapping => site' \in {"resize", "flush"}
    BY <1>3 DEF Start, Acquire, Wait, EnsureRing, ReopenRing, FlushForResize, EnsureBgra,
       LeaveLoop, Flush, Call, StopConversion, JoinConversion, CloseRing, Mapping
  <2>3. cpc' \in Capturing \cup {"acquire", "wait"} =>
          cpc \in Capturing \cup {"acquire", "wait"} \/ pending = None
    <3>1. CASE Start
      BY <1>0, <3>1 DEF IInv, Start, Lifecycle, Calls
    <3>2. QED
      BY <1>3, <3>1 DEF Acquire, Wait, EnsureRing, ReopenRing, FlushForResize, EnsureBgra,
         LeaveLoop, Flush, Call, StopConversion, JoinConversion, CloseRing, Capturing
  <2>4. QED BY <1>0, <2>1, <2>2, <2>3 DEF Textures
<1>4. CASE MapAndQueue
  <2>1. UNCHANGED <<site, cur, tex, wIdx>> /\ cpc \in Mapping
    BY <1>4, MapAndQueueSteps
  <2>2. CASE cpc' \in Mapping /\ UNCHANGED <<pending, hasPublished>>
    BY <1>0, <2>1, <2>2 DEF Textures, Mapping, Capturing
  <2>3. CASE Return(TRUE)
    <3>1. site = "first" => pending = None
      BY <1>0, <2>1 DEF Calls
    <3>2. QED BY <1>0, <2>1, <2>3, <3>1, ReturnTrue DEF Textures, Mapping, Capturing
  <2>4. CASE Return(FALSE)
    BY <1>0, <2>1, <2>4, ReturnFalse DEF Textures, Mapping, Capturing
  <2>5. QED BY <1>4, <2>2, <2>3, <2>4, MapAndQueueSteps
<1>5. CASE ConvertStep \/ OutsideStep
  BY <1>0, <1>5, ConvertFrame, OutsideFrame DEF capture, Textures
<1>6. QED BY <1>1, <1>2, <1>3, <1>4, <1>5, StepCases DEF CaptureStep

----------------------------------------------------------------------------
(* The buffers, what they hold and where they are.                         *)

\* While nothing has failed, the swap-chain thread's buffer is not queued and not converted.
LEMMA Apart ==
  ASSUME IInv, ~failed
  PROVE  /\ HeldByCapture \subseteq Buffer /\ HeldByConvert \subseteq Buffer
         /\ Queued \subseteq Buffer
         /\ \A b \in HeldByCapture \cup HeldByConvert \cup Queued : inUse[b]
         /\ \A b \in Buffer : inUse[b] => b \in HeldByCapture \cup HeldByConvert \cup Queued
         /\ \A i \in DOMAIN queue : queue[i].buf \in Buffer /\ queue[i].buf \in Queued
BY DEF IInv, Accounts, Queued

\* A buffer keeps the pixels of its frame from the mapping to the publication.
LEMMA NextContents == ASSUME IInv, [Next]_vars PROVE Contents'
<1> SUFFICES ASSUME ~failed' PROVE Contents'
  BY DEF Contents
<1>0. Contents /\ CaptureOK /\ PoolOK /\ ConvertOK /\ Lifecycle
  BY TypeParts DEF IInv
<1> USE DEF captureArgs
<1>1. CASE MapBuffers \/ EnsureBgra
  <2>1. failed' = failed /\ UNCHANGED <<vpc, work>>
        /\ cpc' \notin {"mqSync", "mqWrite", "mqEnqueue"}
        /\ cpc \in {"mqBuffers", "buffers"}
    BY <1>1, ReturnFalse DEF MapBuffers, EnsureBgra, EnsureBuffers, pool, convert
  <2>2. CASE UNCHANGED pool
    BY <1>0, <2>1, <2>2 DEF Contents, pool
  <2>3. CASE \E size \in Nat : Reallocate(size)
    <3>1. vpc # "none"
      BY <1>0, <2>1 DEF Lifecycle
    <3>2. vpc \in {"idle", "exited"} /\ queue' = <<>>
      BY <2>1, <2>3, <3>1, Resting DEF Reallocate
    <3>3. DOMAIN queue' = {}
      BY <3>2
    <3>4. QED BY <2>1, <3>2, <3>3 DEF Contents
  <2>4. arg.size \in Nat /\ cur.size \in Nat
    BY <1>0, SizeFacts DEF CaptureOK, Frame
  <2>5. QED BY <1>1, <2>2, <2>3, <2>4 DEF MapBuffers, EnsureBgra, EnsureBuffers
<1>2. CASE MapTexture
  <2>1. /\ failed' = failed /\ UNCHANGED <<vpc, work, queue, buf, bytes, arg>> /\ ~failed
        /\ cpc = "mqMap"
    BY <1>2 DEF MapTexture, convert
  <2>2. CASE content' = content
    <3>1. cpc' \in {"mqSync", "mqWrite", "mqEnqueue"} =>
            content' = [content EXCEPT ![buf] = tex[arg.tex]]
      BY <1>2, ReturnFalse DEF MapTexture
    <3>2. content[buf] = tex[arg.tex] \/ cpc' \notin {"mqSync", "mqWrite", "mqEnqueue"}
      BY <1>0, <2>2, <3>1 DEF CaptureOK, PoolOK
    <3>3. tex[arg.tex] = arg.id
      BY <2>1, Mapped DEF Mapping
    <3>4. QED BY <1>0, <2>1, <2>2, <3>2, <3>3 DEF Contents
  <2>3. CASE content' = [content EXCEPT ![buf] = tex[arg.tex]]
    <3>1. tex[arg.tex] = arg.id /\ buf \in Buffer /\ content \in [Buffer -> 0 .. MaxFrames]
      BY <1>0, <2>1, Mapped DEF Mapping, CaptureOK, PoolOK
    <3>2. content'[buf] = arg.id /\ \A b \in Buffer : b # buf => content'[b] = content[b]
      BY <2>3, <3>1
    <3>3. buf \in HeldByCapture /\ HeldByCapture \cap (HeldByConvert \cup Queued) = {}
      BY <2>1 DEF HeldByCapture, IInv, Accounts
    <3>4. \A i \in DOMAIN queue : content'[queue[i].buf] = content[queue[i].buf]
      BY <2>1, <3>2, <3>3, Apart
    <3>5. vpc \in {"begin", "convert"} => content'[work.buf] = content[work.buf]
      <4>1. vpc \in {"begin", "convert"} => work.buf \in HeldByConvert
        BY DEF HeldByConvert
      <4>2. QED BY <2>1, <3>2, <3>3, <4>1, Apart
    <3>6. QED BY <1>0, <2>1, <3>2, <3>4, <3>5 DEF Contents
  <2>4. QED BY <1>2, <2>2, <2>3 DEF MapTexture
<1>3. CASE Enqueue
  <2>1. /\ failed' = failed /\ UNCHANGED <<vpc, work, content, buf, bytes, arg>>
        /\ cpc = "mqEnqueue"
        /\ ~failed /\ content[buf] = arg.id /\ bytes > 0
    BY <1>0, <1>3 DEF Enqueue, convert, Contents, IInv, Calls
  <2>2. cpc' \notin {"mqSync", "mqWrite", "mqEnqueue"}
    BY <1>3, ReturnTrue, ReturnFalse DEF Enqueue
  <2>3. CASE queue' = queue
    BY <1>0, <2>1, <2>2, <2>3 DEF Contents
  <2>4. CASE queue' = Append(queue, [id |-> arg.id, buf |-> buf])
    <3>1. [id |-> arg.id, buf |-> buf] \in Work /\ queue \in Seq(Work)
      BY <1>0, <2>1, Mapped DEF Mapping, CaptureOK, PoolOK, Work
    <3>2. \A i \in DOMAIN queue' : content[queue'[i].buf] = queue'[i].id
      BY <1>0, <2>1, <2>4, <3>1, AppendTo DEF Contents
    <3>3. QED BY <1>0, <2>1, <2>2, <3>2 DEF Contents
  <2>5. QED BY <1>3, <2>3, <2>4 DEF Enqueue
<1>4. CASE AcquireBuffer \/ SyncPublish \/ SyncWrite
  <2>1. /\ failed' = failed /\ UNCHANGED <<vpc, work, content, queue, bytes, arg>>
        /\ cpc \in Mapping
    BY <1>4 DEF AcquireBuffer, SyncPublish, SyncWrite, convert, Mapping
  <2>2. cpc' \in {"mqSync", "mqWrite", "mqEnqueue"} => cpc = "mqSync" /\ buf' = buf
    BY <1>4, ReturnTrue, ReturnFalse DEF AcquireBuffer, SyncPublish, SyncWrite
  <2>3. QED BY <1>0, <2>1, <2>2 DEF Contents
<1>5. CASE Start \/ Acquire \/ Wait \/ EnsureRing \/ ReopenRing \/ FlushForResize
           \/ EnsureStaging \/ CopyFrame \/ LeaveLoop \/ StopConversion \/ JoinConversion
           \/ CloseRing
  <2>1. UNCHANGED <<bytes, content, queue, failed, work>> /\ (vpc' = vpc \/ vpc' = "idle")
    BY <1>5 DEF Start, Acquire, Wait, EnsureRing, ReopenRing, FlushForResize, EnsureStaging,
       CopyFrame, LeaveLoop, StopConversion, JoinConversion, CloseRing, pool, convert
  <2>2. cpc' \notin {"mqSync", "mqWrite", "mqEnqueue"}
    BY <1>5 DEF Start, Acquire, Wait, EnsureRing, ReopenRing, FlushForResize, EnsureStaging,
       CopyFrame, LeaveLoop, Flush, Call, StopConversion, JoinConversion, CloseRing
  <2>3. QED BY <1>0, <2>1, <2>2 DEF Contents
<1>6. CASE TakeWork
  <2>1. /\ failed' = failed /\ UNCHANGED <<capture, bytes, content>> /\ queue # <<>>
        /\ work' = Head(queue) /\ queue' = Tail(queue) /\ queue \in Seq(Work) /\ ~failed
    BY <1>0, <1>6 DEF TakeWork, PoolOK
  <2>2. content[work'.buf] = work'.id /\ bytes > 0
    BY <1>0, <2>1, TailOf DEF Contents
  <2>3. \A i \in DOMAIN queue' : content[queue'[i].buf] = queue'[i].id
    BY <1>0, <2>1, TailOf DEF Contents
  <2>4. QED BY <1>0, <2>1, <2>2, <2>3 DEF Contents, capture
<1>7. CASE ConvertExit \/ BeginConvert \/ EndConvert \/ ReleaseWork \/ ConvertFails
           \/ ReleaseFailed
  <2>1. UNCHANGED <<capture, bytes, content, queue>> /\ (failed' = failed \/ failed')
    BY <1>7 DEF ConvertExit, BeginConvert, EndConvert, ReleaseWork, ConvertFails,
       ReleaseFailed, pool
  <2>2. vpc' \in {"begin", "convert"} => work' = work /\ vpc = "begin"
    BY <1>7 DEF ConvertExit, BeginConvert, EndConvert, ReleaseWork, ConvertFails, ReleaseFailed
  <2>3. QED BY <1>0, <2>1, <2>2 DEF Contents, capture
<1>8. CASE OutsideStep
  BY <1>0, <1>8, OutsideFrame DEF capture, pool, convert, Contents
<1>9. QED
  BY <1>1, <1>2, <1>3, <1>4, <1>5, <1>6, <1>7, <1>8, StepCases
  DEF CaptureStep, ConvertStep, MapAndQueue

\* A buffer in use is in one place: with the swap-chain thread, in the queue, or with the
\* conversion thread.
LEMMA NextAccounts == ASSUME IInv, [Next]_vars PROVE Accounts'
<1> SUFFICES ASSUME ~failed' PROVE Accounts'
  BY DEF Accounts
<1>0. Accounts /\ CaptureOK /\ PoolOK /\ ConvertOK /\ Lifecycle
  BY TypeParts DEF IInv
<1>00. inUse \in [Buffer -> BOOLEAN] /\ buf \in Buffer /\ queue \in Seq(Work)
       /\ cpc \in CaptureSteps
  BY <1>0 DEF CaptureOK, PoolOK
<1> USE DEF captureArgs
<1>1. CASE MapBuffers \/ EnsureBgra
  <2>1. failed' = failed /\ UNCHANGED <<vpc, work>> /\ cpc \in {"mqBuffers", "buffers"}
        /\ cpc' \in {"mqAcquire", "copy", "endLoop", "stop"}
    BY <1>1, ReturnFalse DEF MapBuffers, EnsureBgra, EnsureBuffers, pool, convert
  <2>2. HeldByCapture = {} /\ HeldByCapture' = {} /\ HeldByConvert' = HeldByConvert
    BY <2>1 DEF HeldByCapture, HeldByConvert
  <2>3. CASE UNCHANGED pool
    BY <1>0, <2>1, <2>2, <2>3 DEF Accounts, pool, Queued
  <2>4. CASE inUse' = [b \in Buffer |-> FALSE] /\ queue' = <<>> /\ Idle
    <3>1. vpc # "none"
      BY <1>0, <2>1 DEF Lifecycle
    <3>2. HeldByConvert = {}
      BY <2>1, <2>4, <3>1, Resting DEF HeldByConvert
    <3>3. DOMAIN queue' = {} /\ {b \in Buffer : inUse'[b]} = {}
      BY <2>4
    <3>4. Queued' = {}
      BY <3>3 DEF Queued
    <3>5. QED BY <2>2, <3>2, <3>3, <3>4 DEF Accounts
  <2>5. QED BY <1>1, <2>3, <2>4 DEF MapBuffers, EnsureBgra, EnsureBuffers, Reallocate
<1>2. CASE AcquireBuffer
  <2>1. failed' = failed /\ UNCHANGED <<vpc, work, queue>> /\ cpc = "mqAcquire"
    BY <1>2 DEF AcquireBuffer, convert
  <2>2. HeldByCapture = {} /\ HeldByConvert' = HeldByConvert /\ Queued' = Queued
    BY <2>1 DEF HeldByCapture, HeldByConvert, Queued
  <2>3. CASE Return(FALSE) /\ UNCHANGED inUse
    <3>1. HeldByCapture' = {}
      BY <2>3, ReturnFalse DEF HeldByCapture
    <3>2. QED BY <1>0, <2>1, <2>2, <2>3, <3>1 DEF Accounts
  <2>4. CASE \E b \in Buffer : ~inUse[b] /\ inUse' = [inUse EXCEPT ![b] = TRUE]
             /\ buf' = b /\ cpc' = "mqMap"
    <3>1. PICK b \in Buffer : ~inUse[b] /\ inUse' = [inUse EXCEPT ![b] = TRUE]
               /\ buf' = b /\ cpc' = "mqMap"
      BY <2>4
    <3>2. HeldByCapture' = {b}
          /\ {c \in Buffer : inUse'[c]} = {c \in Buffer : inUse[c]} \cup {b}
      BY <1>00, <3>1 DEF HeldByCapture
    <3>3. b \notin HeldByConvert \cup Queued
      BY <2>1, <3>1, Apart
    <3>4. QED BY <1>0, <2>1, <2>2, <3>2, <3>3 DEF Accounts
  <2>5. QED BY <1>2, <2>3, <2>4 DEF AcquireBuffer
<1>3. CASE MapTexture \/ SyncPublish \/ SyncWrite \/ Enqueue
  <2>1. failed' = failed /\ UNCHANGED <<vpc, work, buf>> /\ HeldByCapture = {buf}
        /\ cpc' \notin {"mqAcquire", "mqBuffers"}
    BY <1>3, ReturnTrue, ReturnFalse DEF MapTexture, SyncPublish, SyncWrite, Enqueue, convert,
       HeldByCapture
  <2>2. HeldByConvert' = HeldByConvert
    BY <2>1 DEF HeldByConvert
  <2>3. /\ {b \in Buffer : inUse[b]} = {buf} \cup HeldByConvert \cup Queued
        /\ buf \notin HeldByConvert \cup Queued
    BY <1>0, <2>1 DEF Accounts
  <2>4. CASE queue' = queue /\ inUse' = inUse /\ HeldByCapture' = {buf}
    <3>1. Queued' = Queued
      BY <2>4 DEF Queued
    <3>2. QED BY <1>0, <2>1, <2>2, <2>4, <3>1 DEF Accounts
  <2>5. CASE queue' = queue /\ Release(buf) /\ HeldByCapture' = {}
    <3>1. Queued' = Queued
      BY <2>5 DEF Queued
    <3>2. {b \in Buffer : inUse'[b]} = {b \in Buffer : inUse[b]} \ {buf}
      BY <1>00, <2>5 DEF Release
    <3>3. {b \in Buffer : inUse'[b]} = HeldByConvert \cup Queued
      BY <2>3, <3>2
    <3>4. QED BY <1>0, <2>1, <2>2, <2>5, <3>1, <3>3 DEF Accounts
  <2>6. CASE /\ queue' = Append(queue, [id |-> arg.id, buf |-> buf]) /\ inUse' = inUse
             /\ HeldByCapture' = {} /\ Enqueue
    <3>1. [id |-> arg.id, buf |-> buf] \in Work
      BY <1>00, <2>6, Mapped DEF Enqueue, Mapping, Work
    <3>2. Queued' = Queued \cup {buf}
      BY <1>00, <2>6, <3>1, AppendTo DEF Queued
    <3>3. \A i, j \in DOMAIN queue' : queue'[i].buf = queue'[j].buf => i = j
      <4>1. \A i \in DOMAIN queue : queue'[i] = queue[i] /\ queue[i].buf # buf
        BY <1>00, <2>3, <2>6, <3>1, AppendTo DEF Queued
      <4>2. /\ DOMAIN queue' = DOMAIN queue \cup {Len(queue) + 1}
            /\ queue'[Len(queue) + 1].buf = buf
        BY <1>00, <2>6, <3>1, AppendTo
      <4>3. QED BY <1>0, <2>1, <4>1, <4>2 DEF Accounts
    <3>4. QED BY <1>0, <2>1, <2>2, <2>3, <2>6, <3>2, <3>3 DEF Accounts
  <2>7. Return(FALSE) \/ Return(TRUE) => HeldByCapture' = {}
    BY ReturnTrue, ReturnFalse DEF HeldByCapture
  <2>8. \/ queue' = queue /\ inUse' = inUse /\ cpc' \in {"mqSync", "mqWrite", "mqEnqueue"}
        \/ queue' = queue /\ Release(buf) /\ (Return(FALSE) \/ Return(TRUE))
        \/ /\ queue' = Append(queue, [id |-> arg.id, buf |-> buf]) /\ inUse' = inUse
           /\ Return(TRUE) /\ Enqueue
    BY <1>3 DEF MapTexture, SyncPublish, SyncWrite, Enqueue
  <2>9. cpc' \in {"mqSync", "mqWrite", "mqEnqueue"} => HeldByCapture' = {buf}
    BY <2>1 DEF HeldByCapture
  <2>10. QED BY <2>4, <2>5, <2>6, <2>7, <2>8, <2>9
<1>4. CASE Start \/ Acquire \/ Wait \/ EnsureRing \/ ReopenRing \/ FlushForResize
           \/ EnsureStaging \/ CopyFrame \/ LeaveLoop \/ StopConversion \/ JoinConversion
           \/ CloseRing
  <2>1. /\ UNCHANGED <<inUse, queue, failed, work>>
        /\ vpc' = vpc \/ (vpc = "none" /\ vpc' = "idle")
    BY <1>0, <1>4 DEF Start, Acquire, Wait, EnsureRing, ReopenRing, FlushForResize,
       EnsureStaging,
       CopyFrame, LeaveLoop, StopConversion, JoinConversion, CloseRing, pool, convert, Lifecycle
  <2>2. /\ cpc \notin {"mqMap", "mqSync", "mqWrite", "mqEnqueue"}
        /\ cpc' \notin {"mqMap", "mqSync", "mqWrite", "mqEnqueue"}
    BY <1>4 DEF Start, Acquire, Wait, EnsureRing, ReopenRing, FlushForResize, EnsureStaging,
       CopyFrame, LeaveLoop, Flush, Call, StopConversion, JoinConversion, CloseRing
  <2>3. /\ HeldByCapture = {} /\ HeldByCapture' = {} /\ HeldByConvert' = HeldByConvert
        /\ Queued' = Queued
    BY <2>1, <2>2 DEF HeldByCapture, HeldByConvert, Queued
  <2>4. QED BY <1>0, <2>1, <2>3 DEF Accounts
<1>5. CASE TakeWork
  <2>1. /\ failed' = failed /\ UNCHANGED <<capture, inUse>> /\ queue # <<>> /\ vpc = "idle"
        /\ work' = Head(queue) /\ queue' = Tail(queue) /\ vpc' = "begin"
    BY <1>5 DEF TakeWork
  <2>2. HeldByCapture' = HeldByCapture /\ HeldByConvert = {} /\ HeldByConvert' = {queue[1].buf}
    BY <1>00, <2>1, TailOf DEF HeldByCapture, HeldByConvert, capture
  <2>3. Queued = Queued' \cup {queue[1].buf}
    <3>1. /\ 1 \in DOMAIN queue
          /\ \A i \in DOMAIN queue' : i + 1 \in DOMAIN queue /\ queue'[i] = queue[i + 1]
          /\ \A i \in DOMAIN queue :
               i = 1 \/ (i - 1 \in DOMAIN queue' /\ queue[i] = queue'[i - 1])
      BY <1>00, <2>1, TailOf
    <3>2. Queued' \cup {queue[1].buf} \subseteq Queued
      BY <3>1 DEF Queued
    <3>3. \A i \in DOMAIN queue : queue[i].buf \in Queued' \cup {queue[1].buf}
      BY <3>1 DEF Queued
    <3>4. QED BY <3>2, <3>3 DEF Queued
  <2>4. /\ queue[1].buf \notin Queued'
        /\ \A i, j \in DOMAIN queue' : queue'[i].buf = queue'[j].buf => i = j
    <3>1. \A i, j \in DOMAIN queue : queue[i].buf = queue[j].buf => i = j
      BY <1>0, <2>1 DEF Accounts
    <3>2. /\ 1 \in DOMAIN queue
          /\ \A i \in DOMAIN queue' :
               i \in Nat \ {0} /\ i + 1 \in DOMAIN queue /\ queue'[i] = queue[i + 1]
      BY <1>00, <2>1, TailOf
    <3>3. \A i \in DOMAIN queue' : queue'[i].buf # queue[1].buf
      BY <3>1, <3>2
    <3>4. \A i, j \in DOMAIN queue' : queue'[i].buf = queue'[j].buf => i = j
      BY <3>1, <3>2
    <3>5. QED BY <3>3, <3>4 DEF Queued
  <2>5. QED BY <1>0, <2>1, <2>2, <2>3, <2>4 DEF Accounts
<1>6. CASE ReleaseWork
  <2>1. failed' = failed /\ UNCHANGED <<capture, queue>> /\ Release(work.buf)
        /\ vpc = "release" /\ vpc' = "idle"
    BY <1>6 DEF ReleaseWork
  <2>2. HeldByCapture' = HeldByCapture /\ HeldByConvert = {work.buf}
        /\ HeldByConvert' = {} /\ Queued' = Queued
    BY <2>1 DEF HeldByCapture, HeldByConvert, capture, Queued
  <2>3. {b \in Buffer : inUse'[b]} = {b \in Buffer : inUse[b]} \ {work.buf}
    BY <1>00, <2>1 DEF Release
  <2>4. QED BY <1>0, <2>1, <2>2, <2>3 DEF Accounts
<1>7. CASE ConvertExit \/ BeginConvert \/ EndConvert
  <2>1. UNCHANGED <<capture, inUse, queue, failed, work>>
    BY <1>7 DEF ConvertExit, BeginConvert, EndConvert, pool
  <2>2. HeldByCapture' = HeldByCapture /\ HeldByConvert' = HeldByConvert /\ Queued' = Queued
    BY <1>7, <2>1 DEF ConvertExit, BeginConvert, EndConvert, HeldByCapture, HeldByConvert,
       capture, Queued
  <2>3. QED BY <1>0, <2>1, <2>2 DEF Accounts
<1>8. CASE ConvertFails \/ ReleaseFailed
  BY <1>0, <1>8 DEF ConvertFails, ReleaseFailed, Lifecycle
<1>9. CASE OutsideStep
  BY <1>0, <1>9, OutsideFrame
  DEF capture, pool, convert, Accounts, HeldByCapture, HeldByConvert, Queued
<1>10. QED
  BY <1>1, <1>2, <1>3, <1>4, <1>5, <1>6, <1>7, <1>8, <1>9, StepCases
  DEF CaptureStep, ConvertStep, MapAndQueue

----------------------------------------------------------------------------
(* The frames keep their order on the way to the ring.                     *)

\* The frames on their way, by the place they have reached.
Line(P, V, W, S, F) ==
  /\ Below(P, V \cup W \cup S \cup F) /\ Below(V, W \cup S \cup F)
  /\ Below(W, S \cup F) /\ Below(S, F)

\* A place may lose frames, or all of them.
LEMMA LineShrinks ==
  ASSUME NEW P, NEW V, NEW W, NEW S, NEW F, Line(P, V, W, S, F),
         NEW P2 \in SUBSET P, NEW V2 \in SUBSET V, NEW W2 \in SUBSET W,
         NEW S2 \in SUBSET S, NEW F2 \in SUBSET F
  PROVE  Line(P2, V2, W2, S2, F2)
BY Zenon DEF Line, Below

\* The swap-chain thread publishes the frame it has captured.
LEMMA LinePublishes ==
  ASSUME NEW P, NEW x, NEW P2 \in SUBSET (P \cup {x}), Line(P, {}, {}, {}, {x})
  PROVE  Line(P2, {}, {}, {}, {})
BY DEF Line, Below

\* The conversion thread publishes the frame it has converted.
LEMMA LineConverts ==
  ASSUME NEW P, NEW x, NEW W, NEW S, NEW F, NEW P2 \in SUBSET (P \cup {x}),
         Line(P, {x}, W, S, F)
  PROVE  Line(P2, {}, W, S, F)
BY DEF Line, Below

\* The conversion thread takes the first frame of the queue.
LEMMA LineTakes ==
  ASSUME NEW P, NEW x, NEW W, NEW S, NEW F, Line(P, {}, W, S, F), x \in W,
         NEW W2 \in SUBSET W, Below({x}, W2)
  PROVE  Line(P, {x}, W2, S, F)
BY DEF Line, Below

\* The frame that was staged is queued.
LEMMA LineQueues ==
  ASSUME NEW P, NEW V, NEW x, NEW W, NEW F, NEW W2 \in SUBSET (W \cup {x}),
         Line(P, V, W, {x}, F)
  PROVE  Line(P, V, W2, {}, F)
BY DEF Line, Below

\* The frame that was captured is staged.
LEMMA LineStages ==
  ASSUME NEW P, NEW V, NEW W, NEW x, Line(P, V, W, {}, {x})
  PROVE  Line(P, V, W, {x}, {})
BY DEF Line, Below

\* A new frame is captured.
LEMMA LineCaptures ==
  ASSUME NEW P, NEW V, NEW W, NEW S, NEW x, Line(P, V, W, S, {}),
         \A y \in P \cup V \cup W \cup S : y < x
  PROVE  Line(P, V, W, S, {x})
BY DEF Line, Below

\* All frames on their way; their ids run from 1 to the last one captured.
Under == Ids \cup Converting \cup Waiting \cup Staged \cup Fresh
Known == \A x \in Under : 1 <= x /\ x <= cur.id

\* Published frames: one more at the end, behind all others.
LEMMA PublishedGrows ==
  ASSUME NEW s \in Seq(1 .. MaxFrames), NEW x \in 1 .. MaxFrames,
         \A i, j \in DOMAIN s : i < j => s[i] < s[j], Below(ToSet(s), {x})
  PROVE  /\ \A i, j \in DOMAIN Append(s, x) : i < j => Append(s, x)[i] < Append(s, x)[j]
         /\ ToSet(Append(s, x)) = ToSet(s) \cup {x}
<1> DEFINE t == Append(s, x)
<1>1. /\ DOMAIN t = DOMAIN s \cup {Len(s) + 1} /\ t[Len(s) + 1] = x
      /\ \A i \in DOMAIN s : i \in Nat /\ i <= Len(s) /\ t[i] = s[i]
      /\ Len(s) \in Nat
  BY AppendTo
<1>2. \A i \in DOMAIN s : s[i] < x
  BY DEF ToSet, Below
<1>3. \A i, j \in DOMAIN t : i < j => t[i] < t[j]
  <2> SUFFICES ASSUME NEW i \in DOMAIN t, NEW j \in DOMAIN t, i < j PROVE t[i] < t[j]
    OBVIOUS
  <2>1. i \in DOMAIN s
    BY <1>1
  <2>2. CASE j \in DOMAIN s
    BY <1>1, <2>1, <2>2
  <2>3. CASE j = Len(s) + 1
    BY <1>1, <1>2, <2>1, <2>3
  <2>4. QED BY <1>1, <2>2, <2>3
<1>4. ToSet(t) \subseteq ToSet(s) \cup {x} /\ ToSet(s) \cup {x} \subseteq ToSet(t)
  BY <1>1 DEF ToSet
<1>5. QED BY <1>3, <1>4

\* The queue: one more frame at the end, behind all others.
LEMMA QueueGrows ==
  ASSUME NEW q \in Seq(Work), NEW e \in Work,
         \A i, j \in DOMAIN q : i < j => q[i].id < q[j].id,
         \A i \in DOMAIN q : q[i].id < e.id
  PROVE  /\ \A i, j \in DOMAIN Append(q, e) : i < j => Append(q, e)[i].id < Append(q, e)[j].id
         /\ {Append(q, e)[i].id : i \in DOMAIN Append(q, e)}
            \subseteq {q[i].id : i \in DOMAIN q} \cup {e.id}
         /\ {q[i].id : i \in DOMAIN q} \cup {e.id}
            \subseteq {Append(q, e)[i].id : i \in DOMAIN Append(q, e)}
<1> DEFINE t == Append(q, e)
<1>1. /\ DOMAIN t = DOMAIN q \cup {Len(q) + 1} /\ t[Len(q) + 1] = e
      /\ \A i \in DOMAIN q : i \in Nat /\ i <= Len(q) /\ t[i] = q[i]
      /\ Len(q) \in Nat
  BY AppendTo
<1> HIDE DEF t
<1>2. \A i, j \in DOMAIN t : i < j => t[i].id < t[j].id
  <2> SUFFICES ASSUME NEW i \in DOMAIN t, NEW j \in DOMAIN t, i < j PROVE t[i].id < t[j].id
    OBVIOUS
  <2>1. i \in DOMAIN q
    BY <1>1
  <2>2. CASE j \in DOMAIN q
    BY <1>1, <2>1, <2>2
  <2>3. CASE j = Len(q) + 1
    BY <1>1, <2>1, <2>3
  <2>4. QED BY <1>1, <2>2, <2>3
<1>3. /\ {t[i].id : i \in DOMAIN t} \subseteq {q[i].id : i \in DOMAIN q} \cup {e.id}
      /\ {q[i].id : i \in DOMAIN q} \cup {e.id} \subseteq {t[i].id : i \in DOMAIN t}
  BY <1>1
<1>4. QED BY <1>2, <1>3 DEF t

\* What InLine says, in these terms, before and after a step.
LEMMA InLineParts ==
  /\ InLine <=>
       /\ \A i, j \in DOMAIN published : i < j => published[i] < published[j]
       /\ \A i, j \in DOMAIN queue : i < j => queue[i].id < queue[j].id
       /\ Line(Ids, Converting, Waiting, Staged, Fresh) /\ Known
       /\ IF avail = 0 THEN presented = cur.id ELSE presented = cur.id + 1
  /\ InLine' <=>
       /\ \A i, j \in DOMAIN published' : i < j => published'[i] < published'[j]
       /\ \A i, j \in DOMAIN queue' : i < j => queue'[i].id < queue'[j].id
       /\ Line(Ids', Converting', Waiting', Staged', Fresh') /\ Known'
       /\ IF avail' = 0 THEN presented' = cur'.id ELSE presented' = cur'.id + 1
BY DEF InLine, Line, Known, Under

\* A step that at most gives up frames.
LEMMA QuietInLine ==
  ASSUME InLine, published' = published, queue' \in {queue, <<>>},
         Converting' \subseteq Converting, Staged' \subseteq Staged, Fresh' \subseteq Fresh,
         cur'.id = cur.id, UNCHANGED <<avail, presented>>
  PROVE  InLine'
<1>1. Ids' \subseteq Ids
  BY DEF Ids
<1>2. Waiting' \subseteq Waiting
      /\ \A i, j \in DOMAIN queue' : i < j => queue'[i].id < queue'[j].id
  <2>1. CASE queue' = queue
    BY <2>1, InLineParts DEF Waiting
  <2>2. CASE queue' = <<>>
    <3>1. DOMAIN queue' = {}
      BY <2>2
    <3>2. QED BY <3>1 DEF Waiting
  <2>3. QED BY <2>1, <2>2
<1>3. Line(Ids', Converting', Waiting', Staged', Fresh')
  BY <1>1, <1>2, LineShrinks, InLineParts
<1>4. Known'
  <2>1. Under' \subseteq Under
    BY <1>1, <1>2 DEF Under
  <2>2. QED BY <2>1, InLineParts DEF Known
<1>5. QED BY <1>2, <1>3, <1>4, InLineParts
\* Frames are numbers.
LEMMA UnderNat == ASSUME IInv PROVE Under \subseteq Nat /\ cur.id \in Nat /\ pending.id \in Nat
<1>1. CaptureOK /\ queue \in Seq(Work) /\ ConvertOK /\ published \in Seq(1 .. MaxFrames)
  BY TypeParts DEF IInv, PoolOK
<1>2. cur.id \in Nat /\ pending.id \in Nat /\ work.id \in Nat
  BY <1>1, Facts DEF CaptureOK, ConvertOK, Frame
<1>3. \A i \in DOMAIN queue : queue[i] \in Work
  BY <1>1, ElementOfSeq, LenProperties
<1>4. \A i \in DOMAIN published : published[i] \in 1 .. MaxFrames
  BY <1>1, ElementOfSeq, LenProperties
<1>5. Ids \subseteq Nat /\ Waiting \subseteq Nat
  BY <1>3, <1>4, Facts DEF Ids, ToSet, Waiting, Work
<1>6. QED BY <1>2, <1>5 DEF Under, Converting, Staged, Fresh


\* The swap-chain thread captures the next frame.
LEMMA AcquireInLine == ASSUME IInv, Acquire, avail # 0, avail' = 0 PROVE InLine'
<1>1. /\ cpc = "acquire" /\ UNCHANGED <<site, pending, queue, published, vpc, work, presented>>
      /\ InLine /\ cur.id \in Nat
  BY TypeParts, Facts DEF Acquire, pool, convert, IInv, CaptureOK, Frame
<1>2. cpc' = "ensure" /\ cur'.id = presented /\ presented = cur.id + 1
  BY <1>1, InLineParts DEF Acquire
<1>3. Fresh = {} /\ Fresh' = {presented}
  BY <1>1, <1>2 DEF Fresh, Capturing, Mapping
<1>4. Ids' = Ids /\ Converting' = Converting /\ Waiting' = Waiting /\ Staged' = Staged
  BY <1>1 DEF Ids, Converting, Waiting, Staged
<1>5. /\ Line(Ids, Converting, Waiting, Staged, {}) /\ \A y \in Under : 1 <= y /\ y <= cur.id
      /\ \A i, j \in DOMAIN published : i < j => published[i] < published[j]
      /\ \A i, j \in DOMAIN queue : i < j => queue[i].id < queue[j].id
  BY <1>1, <1>3, InLineParts DEF Known
<1>6. \A y \in Ids \cup Converting \cup Waiting \cup Staged : y \in Int /\ 1 <= y
      /\ y < presented
  <2>1. SUFFICES ASSUME NEW y \in Ids \cup Converting \cup Waiting \cup Staged
                 PROVE  y \in Int /\ 1 <= y /\ y < presented
    OBVIOUS
  <2>2. 1 <= y /\ y <= cur.id
    BY <1>5 DEF Under
  <2>3. y \in Int
    BY UnderNat DEF Under
  <2>4. QED BY <1>1, <1>2, <2>2, <2>3
<1>7. Line(Ids, Converting, Waiting, Staged, {presented})
  BY <1>5, <1>6, LineCaptures
<1>8. Known'
  BY <1>1, <1>2, <1>3, <1>4, <1>6 DEF Known, Under
<1>9. QED BY <1>1, <1>2, <1>3, <1>4, <1>5, <1>7, <1>8, InLineParts

\* A frame that is copied is mapped at once, or staged in the place of the one before it.
LEMMA CopyInLine == ASSUME IInv, CopyFrame PROVE InLine'
<1>1. /\ cpc = "copy" /\ cur \in Frame /\ InLine
      /\ UNCHANGED <<queue, published, vpc, work, avail, presented>>
  BY TypeParts DEF CopyFrame, pool, convert, outside, IInv, CaptureOK
<1>2. Converting' \subseteq Converting /\ Fresh = {cur.id}
  BY <1>1 DEF Converting, Fresh, Capturing
<1>3. \/ cur'.id = cur.id /\ cpc' = "mqBuffers" /\ pending' = pending
      \/ cur'.id = cur.id /\ cpc' = "acquire" /\ pending = None /\ pending' = cur'
      \/ cur'.id = cur.id /\ cpc' = "endLoop" /\ pending' = pending
  BY <1>1 DEF CopyFrame, Call, Frame
<1>4. CASE pending' = pending
  <2>1. Staged' \subseteq Staged /\ Fresh' \subseteq Fresh
    BY <1>2, <1>3, <1>4 DEF Staged, Fresh
  <2>2. QED BY <1>1, <1>2, <1>3, <2>1, QuietInLine
<1>5. CASE cur'.id = cur.id /\ cpc' = "acquire" /\ pending = None /\ pending' = cur'
  <2>1. cur.id > 0 /\ None.id = 0
    BY <1>1, Facts DEF IInv, Calls, Capturing
  <2>2. Staged = {} /\ Staged' = {cur.id} /\ Fresh' = {}
    BY <1>5, <2>1 DEF Staged, Fresh, Capturing, Mapping
  <2>3. Ids' = Ids /\ Converting' = Converting /\ Waiting' = Waiting
    BY <1>1 DEF Ids, Converting, Waiting
  <2>4. Line(Ids', Converting', Waiting', Staged', Fresh')
    BY <1>1, <1>2, <2>2, <2>3, LineStages, InLineParts
  <2>5. Known'
    BY <1>1, <1>2, <1>5, <2>2, <2>3, InLineParts DEF Known, Under
  <2>6. QED BY <1>1, <1>5, <2>4, <2>5, InLineParts
<1>6. QED BY <1>3, <1>4, <1>5

\* The swap-chain thread publishes the frame it has captured, with none before it.
LEMMA WriteInLine ==
  ASSUME IInv, SyncWrite, Return(TRUE), published' = Append(published, arg.id), site = "first",
         arg = cur, ~failed, ~hasPublished
  PROVE  /\ InLine' /\ Ids' = Ids \cup {cur.id} /\ Under \subseteq Under'
<1>1. /\ cpc = "mqWrite" /\ cpc' = "acquire" /\ pending' = pending /\ InLine
      /\ UNCHANGED <<queue, vpc, work, avail, presented, cur, site>>
  BY ReturnTrue DEF SyncWrite, pool, convert, outside, captureArgs, IInv
<1>2. queue = <<>> /\ vpc \notin {"begin", "convert"} /\ pending = None
  BY DEF IInv, Lifecycle, Calls
<1>3. DOMAIN queue = {}
  BY <1>2
<1>4. /\ Converting = {} /\ Waiting = {} /\ Staged = {} /\ Fresh = {cur.id}
      /\ Converting' = {} /\ Waiting' = {} /\ Staged' = {} /\ Fresh' = {}
  BY <1>1, <1>2, <1>3 DEF Converting, Waiting, Staged, Fresh, Mapping, Capturing
<1>5. published \in Seq(1 .. MaxFrames) /\ cur.id \in 1 .. MaxFrames
  BY <1>1, Mapped, TypeParts DEF IInv, Mapping
<1>6. Line(Ids, {}, {}, {}, {cur.id}) /\ Known
      /\ \A i, j \in DOMAIN published : i < j => published[i] < published[j]
  BY <1>1, <1>4, InLineParts
<1>7. Below(ToSet(published), {cur.id})
  BY <1>6 DEF Line, Ids
<1>8. Ids' = Ids \cup {cur.id}
      /\ \A i, j \in DOMAIN published' : i < j => published'[i] < published'[j]
  BY <1>5, <1>6, <1>7, PublishedGrows DEF Ids
<1>9. Line(Ids', Converting', Waiting', Staged', Fresh')
  BY <1>4, <1>6, <1>8, LinePublishes
<1>10. Known' /\ Under \subseteq Under'
  BY <1>1, <1>4, <1>6, <1>8 DEF Known, Under
<1>11. IF avail' = 0 THEN presented' = cur'.id ELSE presented' = cur'.id + 1
  BY <1>1, InLineParts
<1>12. QED BY <1>1, <1>3, <1>8, <1>9, <1>10, <1>11, InLineParts

\* The swap-chain thread queues the frame that was staged, and stages the one it has
\* captured if it came from there.
LEMMA EnqueueInLine ==
  ASSUME IInv, Enqueue, Return(TRUE), queue' = Append(queue, [id |-> arg.id, buf |-> buf])
  PROVE  InLine' /\ Under \subseteq Under'
<1>1. /\ cpc = "mqEnqueue" /\ hasPublished /\ pending # None /\ arg = pending /\ site # "first"
      /\ UNCHANGED <<published, vpc, work, avail, presented, cur, site>> /\ InLine
      /\ (site # "flush" => cur.id > 0)
  BY DEF Enqueue, convert, outside, captureArgs, IInv, Calls, Mapping
<1>2. \/ site = "resize" /\ pending' = None /\ cpc' = "staging"
      \/ site = "pending" /\ pending' = cur /\ cpc' = "acquire"
      \/ site = "flush" /\ pending' = None /\ cpc' = "stop"
  BY <1>1, ReturnTrue
<1>3. queue \in Seq(Work) /\ [id |-> arg.id, buf |-> buf] \in Work
  BY <1>1, Mapped, TypeParts DEF IInv, PoolOK, CaptureOK, Mapping, Work
<1>4. Staged = {arg.id} /\ Ids' = Ids /\ Converting' = Converting
  BY <1>1 DEF Staged, Ids, Converting
<1>5. Line(Ids, Converting, Waiting, {arg.id}, Fresh) /\ Known
  BY <1>1, <1>4, InLineParts
<1>6. \A i \in DOMAIN queue : queue[i].id < arg.id
  BY <1>5 DEF Line, Below, Waiting
<1>7. Waiting' = Waiting \cup {arg.id}
      /\ \A i, j \in DOMAIN queue' : i < j => queue'[i].id < queue'[j].id
  <2> DEFINE e == [id |-> arg.id, buf |-> buf]
  <2>1. e \in Work /\ e.id = arg.id
    BY <1>3
  <2>2. \A i, j \in DOMAIN queue : i < j => queue[i].id < queue[j].id
    BY <1>1, InLineParts
  <2>3. queue' = Append(queue, e)
    OBVIOUS
  <2> HIDE DEF e
  <2>4. QED BY <1>3, <1>6, <2>1, <2>2, <2>3, QueueGrows DEF Waiting
<1>8. \/ Staged' = {} /\ Fresh' = Fresh
      \/ Staged' = {cur.id} /\ Fresh = {cur.id} /\ Fresh' = {}
  BY <1>1, <1>2, Facts DEF Staged, Fresh, Mapping, Capturing
<1>9. Line(Ids', Converting', Waiting', Staged', Fresh')
  <2>1. Line(Ids, Converting, Waiting', {}, Fresh)
    BY <1>5, <1>7, LineQueues
  <2>2. CASE Staged' = {} /\ Fresh' = Fresh
    BY <1>4, <2>1, <2>2
  <2>3. CASE Staged' = {cur.id} /\ Fresh = {cur.id} /\ Fresh' = {}
    BY <1>4, <2>1, <2>3, LineStages
  <2>4. QED BY <1>8, <2>2, <2>3
<1>10. Under' \subseteq Under /\ Under \subseteq Under'
  BY <1>4, <1>7, <1>8 DEF Under
<1>11. Known'
  BY <1>1, <1>5, <1>10 DEF Known
<1>12. IF avail' = 0 THEN presented' = cur'.id ELSE presented' = cur'.id + 1
  BY <1>1, InLineParts
<1>13. \A i, j \in DOMAIN published' : i < j => published'[i] < published'[j]
  BY <1>1, InLineParts
<1>14. QED BY <1>7, <1>9, <1>10, <1>11, <1>12, <1>13, InLineParts

\* The conversion thread takes the first queued frame.
LEMMA TakeInLine == ASSUME IInv, TakeWork PROVE InLine' /\ Under \subseteq Under'
<1>1. /\ vpc = "idle" /\ vpc' = "begin" /\ work' = Head(queue) /\ queue' = Tail(queue)
      /\ queue # <<>> /\ UNCHANGED <<capture, published, avail, presented>> /\ InLine
  BY DEF TakeWork, outside, IInv
<1>2. queue \in Seq(Work)
  BY TypeParts DEF IInv, PoolOK
<1>3. /\ 1 \in DOMAIN queue /\ work' = queue[1]
      /\ \A i \in DOMAIN queue' :
           i \in Nat \ {0} /\ i + 1 \in DOMAIN queue /\ queue'[i] = queue[i + 1]
      /\ \A i \in DOMAIN queue : i = 1 \/ (i - 1 \in DOMAIN queue' /\ queue[i] = queue'[i - 1])
  BY <1>1, <1>2, TailOf
<1>4. \A i, j \in DOMAIN queue : i < j => queue[i].id < queue[j].id
  BY <1>1, InLineParts
<1>5. \A i, j \in DOMAIN queue' : i < j => queue'[i].id < queue'[j].id
  BY <1>3, <1>4
<1>6. Converting = {} /\ Converting' = {queue[1].id}
  BY <1>1, <1>3 DEF Converting
<1>7. Waiting' \subseteq Waiting /\ queue[1].id \in Waiting /\ Below({queue[1].id}, Waiting')
  BY <1>3, <1>4 DEF Waiting, Below
<1>8. \A i \in DOMAIN queue : queue[i].id \in Waiting' \cup {queue[1].id}
  BY <1>3 DEF Waiting
<1>9. Waiting \subseteq Waiting' \cup {queue[1].id}
  BY <1>8 DEF Waiting
<1>10. Ids' = Ids /\ Staged' = Staged /\ Fresh' = Fresh
  BY <1>1 DEF Ids, Staged, Fresh, capture
<1>11. Line(Ids', Converting', Waiting', Staged', Fresh')
  <2>1. Line(Ids, {}, Waiting, Staged, Fresh)
    BY <1>1, <1>6, InLineParts
  <2>2. QED BY <1>6, <1>7, <1>10, <2>1, LineTakes
<1>12. Under \subseteq Under' /\ Under' \subseteq Under
  BY <1>6, <1>7, <1>9, <1>10 DEF Under
<1>13. Known' /\ cur' = cur
  BY <1>1, <1>12, InLineParts DEF Known, capture
<1>14. IF avail' = 0 THEN presented' = cur'.id ELSE presented' = cur'.id + 1
  BY <1>1, <1>13, InLineParts
<1>15. \A i, j \in DOMAIN published' : i < j => published'[i] < published'[j]
  BY <1>1, InLineParts
<1>16. QED BY <1>5, <1>11, <1>12, <1>13, <1>14, <1>15, InLineParts

\* The conversion thread publishes the frame it has converted.
LEMMA ConvertInLine ==
  ASSUME IInv, EndConvert, vpc' = "release", published' = Append(published, work.id)
  PROVE  InLine' /\ Under \subseteq Under'
<1>1. vpc = "convert" /\ UNCHANGED <<capture, queue, work, avail, presented>> /\ InLine
  BY DEF EndConvert, pool, outside, IInv
<1>2. Converting = {work.id} /\ Converting' = {}
  BY <1>1 DEF Converting
<1>3. published \in Seq(1 .. MaxFrames) /\ work.id \in 1 .. MaxFrames
  BY <1>1, WorkId, TypeParts DEF IInv
<1>4. /\ Line(Ids, {work.id}, Waiting, Staged, Fresh) /\ Known
      /\ \A i, j \in DOMAIN published : i < j => published[i] < published[j]
  BY <1>1, <1>2, InLineParts
<1>5. Below(ToSet(published), {work.id})
  BY <1>4 DEF Line, Ids, Below
<1>6. /\ Ids' = Ids \cup {work.id}
      /\ \A i, j \in DOMAIN published' : i < j => published'[i] < published'[j]
  BY <1>3, <1>4, <1>5, PublishedGrows DEF Ids
<1>7. Waiting' = Waiting /\ Staged' = Staged /\ Fresh' = Fresh /\ cur' = cur
  BY <1>1 DEF Waiting, Staged, Fresh, capture
<1>8. Line(Ids', Converting', Waiting', Staged', Fresh')
  BY <1>2, <1>4, <1>6, <1>7, LineConverts
<1>9. Under \subseteq Under' /\ Under' \subseteq Under
  BY <1>2, <1>6, <1>7 DEF Under
<1>10. Known'
  BY <1>4, <1>7, <1>9 DEF Known
<1>11. IF avail' = 0 THEN presented' = cur'.id ELSE presented' = cur'.id + 1
  BY <1>1, <1>7, InLineParts
<1>12. \A i, j \in DOMAIN queue' : i < j => queue'[i].id < queue'[j].id
  BY <1>1, InLineParts
<1>13. QED BY <1>6, <1>8, <1>9, <1>10, <1>11, <1>12, InLineParts

\* The order is kept by every step.
LEMMA NextInLine == ASSUME IInv, [Next]_vars PROVE InLine'
<1>0. InLine /\ CaptureOK /\ cpc \in CaptureSteps
  BY TypeParts DEF IInv, CaptureOK
<1> USE DEF captureArgs
<1>1. CASE Acquire /\ avail # 0 /\ avail' = 0
  BY <1>1, AcquireInLine
<1>2. CASE CopyFrame
  BY <1>2, CopyInLine
<1>3. CASE \/ Acquire /\ ~(avail # 0 /\ avail' = 0)
           \/ Start \/ Wait \/ EnsureRing \/ ReopenRing \/ FlushForResize \/ EnsureStaging
           \/ EnsureBgra \/ LeaveLoop \/ StopConversion \/ JoinConversion \/ CloseRing
  <2>1. /\ UNCHANGED <<published, cur, avail, presented, work>> /\ queue' \in {queue, <<>>}
        /\ pending' \in {pending, None} /\ vpc' \in {vpc, "idle"}
    BY <1>3 DEF Acquire, Start, Wait, EnsureRing, ReopenRing, FlushForResize, EnsureStaging,
       EnsureBgra, EnsureBuffers, Reallocate, LeaveLoop, StopConversion, JoinConversion,
       CloseRing,
       pool, convert, outside
  <2>2. Staged' \subseteq Staged /\ Converting' \subseteq Converting
    BY <2>1 DEF Staged, Converting
  <2>3. \/ cpc' \notin Capturing \cup Mapping
        \/ cpc' \in Mapping /\ site' = "flush"
        \/ cpc \in Capturing
    BY <1>3 DEF Acquire, Start, Wait, EnsureRing, ReopenRing, FlushForResize, EnsureStaging,
       EnsureBgra, LeaveLoop, Flush, Call, StopConversion, JoinConversion, CloseRing,
       Capturing, Mapping
  <2>4. Fresh' \subseteq Fresh
    BY <2>1, <2>3 DEF Fresh, Capturing, Mapping
  <2>5. QED BY <1>0, <2>1, <2>2, <2>4, QuietInLine
<1>4. CASE MapAndQueue
  <2>1. /\ cpc \in Mapping /\ UNCHANGED <<vpc, work, avail, presented, site, cur>>
        /\ \/ cpc' \in Mapping /\ pending' = pending
           \/ Return(TRUE)
           \/ Return(FALSE)
    BY <1>4, MapAndQueueSteps
  <2>2. Converting' \subseteq Converting
    BY <2>1 DEF Converting
  <2>3. CASE /\ queue' \in {queue, <<>>} /\ published' = published
             /\ (cpc' \in Mapping /\ pending' = pending) \/ Return(FALSE)
    <3>1. \/ cpc' \in Mapping /\ pending' = pending
          \/ cpc' \in {"stop", "endLoop"} /\ pending' \in {pending, None}
      BY <2>3, ReturnFalse
    <3>2. Staged' \subseteq Staged /\ Fresh' \subseteq Fresh
      BY <2>1, <3>1 DEF Staged, Fresh, Capturing, Mapping
    <3>3. QED BY <1>0, <2>1, <2>2, <2>3, <3>2, QuietInLine
  <2>4. CASE SyncWrite /\ Return(TRUE) /\ published' = Append(published, content[buf])
    <3>1. /\ ~failed /\ ~hasPublished /\ site = "first" /\ arg = cur /\ content[buf] = arg.id
      BY <2>4 DEF SyncWrite, IInv, Lifecycle, Calls, Contents, Mapping
    <3>2. QED BY <2>4, <3>1, WriteInLine
  <2>5. CASE /\ Enqueue /\ Return(TRUE)
             /\ queue' = Append(queue, [id |-> arg.id, buf |-> buf])
    BY <2>5, EnqueueInLine
  <2>6. CASE MapBuffers \/ AcquireBuffer \/ MapTexture \/ SyncPublish
    <3>1. /\ queue' \in {queue, <<>>} /\ published' = published
          /\ (cpc' \in Mapping /\ pending' = pending) \/ Return(FALSE)
      BY <2>6 DEF MapBuffers, AcquireBuffer, MapTexture, SyncPublish, EnsureBuffers, Reallocate,
         pool, Mapping
    <3>2. QED BY <2>3, <3>1
  <2>7. CASE SyncWrite
    <3>1. queue' = queue
          /\ \/ Return(TRUE) /\ published' = Append(published, content[buf])
             \/ Return(FALSE) /\ published' = published
      BY <2>7 DEF SyncWrite
    <3>2. QED BY <2>3, <2>4, <2>7, <3>1
  <2>8. CASE Enqueue
    <3>1. published' = published
          /\ \/ Return(TRUE) /\ queue' = Append(queue, [id |-> arg.id, buf |-> buf])
             \/ Return(FALSE) /\ queue' = queue
      BY <2>8 DEF Enqueue
    <3>2. QED BY <2>3, <2>5, <2>8, <3>1
  <2>9. QED BY <1>4, <2>6, <2>7, <2>8 DEF MapAndQueue
<1>5. CASE TakeWork
  BY <1>5, TakeInLine
<1>6. CASE EndConvert /\ vpc' = "release"
  <2>1. published' = Append(published, content[work.buf]) /\ vpc = "convert"
    BY <1>6 DEF EndConvert
  <2>2. content[work.buf] = work.id
    BY <2>1 DEF IInv, Lifecycle, Contents
  <2>3. QED BY <1>6, <2>1, <2>2, ConvertInLine
<1>7. CASE ConvertStep /\ ~TakeWork /\ ~(EndConvert /\ vpc' = "release")
  <2>1. UNCHANGED <<capture, queue, published, avail, presented>>
    BY <1>7 DEF ConvertStep, ConvertExit, BeginConvert, EndConvert, ReleaseWork, ConvertFails,
       ReleaseFailed, pool, outside
  <2>2. vpc' \in {"begin", "convert"} => vpc = "begin" /\ work' = work
    BY <1>7 DEF ConvertStep, ConvertExit, BeginConvert, EndConvert, ReleaseWork, ConvertFails,
       ReleaseFailed
  <2>3. Staged' \subseteq Staged /\ Fresh' \subseteq Fresh /\ Converting' \subseteq Converting
    BY <2>1, <2>2 DEF Staged, Fresh, Converting, capture
  <2>4. QED BY <1>0, <2>1, <2>3, QuietInLine DEF capture
<1>8. CASE OutsideStep
  <2>1. UNCHANGED <<capture, pool, convert, published>>
    BY <1>8, OutsideFrame
  <2>2. UNCHANGED <<cur, queue>> /\ Staged' \subseteq Staged /\ Fresh' \subseteq Fresh
        /\ Converting' \subseteq Converting
    BY <2>1 DEF Staged, Fresh, Converting, capture, pool, convert
  <2>3. CASE Present
    <3>1. presented = cur.id /\ presented' = presented + 1 /\ avail' # 0
      BY <1>0, <2>3, SizeFacts, InLineParts DEF Present
    <3>2. /\ Ids' = Ids /\ Waiting' = Waiting /\ Staged' = Staged /\ Fresh' = Fresh
          /\ Converting' = Converting /\ cur' = cur /\ queue' = queue /\ published' = published
      BY <2>1 DEF Ids, Waiting, Staged, Fresh, Converting, capture, pool, convert
    <3>3. Known' /\ Line(Ids', Converting', Waiting', Staged', Fresh')
      BY <1>0, <3>2, InLineParts DEF Known, Under
    <3>4. QED BY <1>0, <3>1, <3>2, <3>3, InLineParts
  <2>4. CASE ~Present
    <3>1. UNCHANGED <<avail, presented>>
      BY <1>8, <2>4 DEF OutsideStep, Destroy, Destroyed, HostZeroes, HostReady, vars, outside
    <3>2. QED BY <1>0, <2>1, <2>2, <3>1, QuietInLine
  <2>5. QED BY <2>3, <2>4
<1>9. QED
  BY <1>1, <1>2, <1>3, <1>4, <1>5, <1>6, <1>7, <1>8, StepCases DEF CaptureStep, ConvertStep

----------------------------------------------------------------------------
(* The room in the queue, and the frames of an undisturbed behaviour.      *)

\* The first n numbers are n.
LEMMA FirstNumbers ==
  ASSUME NEW n \in Nat
  PROVE  IsFiniteSet(1 .. n) /\ Cardinality(1 .. n) = n
<1>1. n \in Int /\ 1 \in Int
  OBVIOUS
<1>2. IsFiniteSet(1 .. n) /\ Cardinality(1 .. n) = IF 1 > n THEN 0 ELSE n - 1 + 1
  BY ONLY <1>1, FS_Interval
<1>3. QED BY <1>2

\* Every queued frame has a buffer of its own.
LEMMA QueuedCount ==
  ASSUME IInv, ~failed
  PROVE  IsFiniteSet(Queued) /\ Cardinality(Queued) = Len(queue) /\ Len(queue) \in Nat
<1> DEFINE f == [i \in DOMAIN queue |-> queue[i].buf]
<1>1. Len(queue) \in Nat /\ DOMAIN queue = 1 .. Len(queue)
  BY TypeParts, LenProperties DEF IInv, PoolOK
<1>2. f \in Surjection(DOMAIN queue, Queued)
  BY DEF Surjection, Queued
<1>3. \A i, j \in DOMAIN queue : queue[i].buf = queue[j].buf => i = j
  BY DEF IInv, Accounts
<1>4. f \in Injection(DOMAIN queue, Queued)
  BY <1>3 DEF Injection, IsInjective, Queued
<1>5. IsFiniteSet(DOMAIN queue) /\ Cardinality(DOMAIN queue) = Len(queue)
  BY <1>1, FirstNumbers
<1>6. QED BY <1>1, <1>2, <1>4, <1>5, FS_Surjection

\* While nothing has failed, the queue has room for the buffer that the swap-chain thread
\* holds.
LEMMA Room == ASSUME IInv, ~failed, cpc = "mqEnqueue" PROVE Len(queue) < Buffers
<1>1. IsFiniteSet(Queued) /\ Cardinality(Queued) = Len(queue) /\ Len(queue) \in Nat
  BY QueuedCount
<1>2. buf \notin Queued /\ buf \in Buffer /\ Queued \subseteq Buffer
  BY Apart DEF IInv, Accounts, HeldByCapture
<1>3. Cardinality(Queued \cup {buf}) = Len(queue) + 1
  BY <1>1, <1>2, FS_AddElement
<1>4. IsFiniteSet(Buffer) /\ Cardinality(Buffer) = Buffers
  BY Facts, FirstNumbers DEF Buffer
<1>5. Cardinality(Queued \cup {buf}) <= Cardinality(Buffer)
  BY <1>2, <1>4, FS_Subset
<1>6. QED BY <1>1, <1>3, <1>4, <1>5, Facts

\* In an undisturbed behaviour a call goes on to its next step, or ends well.
LEMMA CalmCall ==
  ASSUME IInv, calm, MapAndQueue
  PROVE  \/ /\ cpc' \in Mapping /\ UNCHANGED <<pending, queue, published>>
         \/ /\ SyncWrite /\ Return(TRUE) /\ published' = Append(published, arg.id)
            /\ site = "first" /\ arg = cur /\ ~hasPublished /\ UNCHANGED queue
         \/ /\ Enqueue /\ Return(TRUE) /\ queue' = Append(queue, [id |-> arg.id, buf |-> buf])
            /\ UNCHANGED published
<1>1. /\ calm /\ ~failed /\ cpc \in Mapping /\ \A c : ~Fails(c)
      /\ (cpc \in Mapping => view)
  BY MapAndQueueSteps DEF IInv, Undisturbed, Fails
<1>2. ~stop /\ vpc # "none"
  BY <1>1 DEF IInv, Lifecycle, Mapping, Ending
<1>3. CASE MapBuffers
  <2>1. EnsureBuffers(arg.size) /\ cpc' = "mqAcquire" /\ pending' = pending
        /\ published' = published
    BY <1>1, <1>3 DEF MapBuffers
  <2>2. queue' = queue
    BY <1>1, <1>2, <2>1, Resting DEF EnsureBuffers, Reallocate, pool
  <2>3. QED BY <2>1, <2>2 DEF Mapping
<1>4. CASE AcquireBuffer
  BY <1>1, <1>2, <1>4 DEF AcquireBuffer, Mapping
<1>5. CASE MapTexture
  BY <1>1, <1>5 DEF MapTexture, Mapping
<1>6. CASE SyncPublish
  BY <1>1, <1>6 DEF SyncPublish, Mapping
<1>7. CASE SyncWrite
  <2>1. cpc = "mqWrite" /\ Return(TRUE) /\ published' = Append(published, content[buf])
        /\ queue' = queue
    BY <1>1, <1>7 DEF SyncWrite
  <2>2. site = "first" /\ arg = cur /\ ~hasPublished /\ content[buf] = arg.id
    BY <1>1, <2>1 DEF IInv, Calls, Contents, Mapping
  <2>3. QED BY <1>7, <2>1, <2>2
<1>8. CASE Enqueue
  <2>1. ~(Len(queue) >= Buffers)
    BY <1>1, <1>8, Room, QueuedCount, Facts DEF Enqueue
  <2>2. QED BY <1>1, <1>2, <1>8, <2>1 DEF Enqueue
<1>9. QED BY <1>3, <1>4, <1>5, <1>6, <1>7, <1>8 DEF MapAndQueue

\* In an undisturbed behaviour no step of the swap-chain thread other than a call loses a
\* frame, and each frame acquired is added.
LEMMA CalmCapture ==
  ASSUME IInv, calm, CaptureStep, ~MapAndQueue
  PROVE  /\ UNCHANGED <<published, queue, work>> /\ Converting' = Converting
         /\ \/ cur'.id = cur.id /\ Under \subseteq Under'
            \/ cur'.id = cur.id + 1 /\ Under \cup {cur'.id} \subseteq Under'
<1>1. /\ ~failed /\ \A c : ~Fails(c) /\ CaptureOK /\ cpc \in CaptureSteps
  BY TypeParts DEF IInv, Undisturbed, Fails, CaptureOK
<1>2. UNCHANGED <<published, work>> /\ Converting' = Converting
  <2>1. published' = published /\ vpc' \in {vpc, "idle"} /\ (vpc' # vpc => vpc = "none")
    BY DEF IInv, Lifecycle, CaptureStep, Start, Acquire, Wait, EnsureRing, ReopenRing,
       FlushForResize, EnsureStaging, EnsureBgra, CopyFrame, LeaveLoop, StopConversion,
       JoinConversion, CloseRing, convert
  <2>2. QED BY <2>1, CaptureFrame DEF Converting
<1>3. queue' = queue
  <2>1. CASE EnsureBgra
    <3>1. vpc # "none" /\ EnsureBuffers(cur.size)
      BY <1>1, <2>1 DEF EnsureBgra, IInv, Lifecycle
    <3>2. QED BY <1>1, <3>1, Resting DEF EnsureBuffers, Reallocate, pool
  <2>2. CASE ~EnsureBgra
    BY <2>2 DEF CaptureStep, Start, Acquire, Wait, EnsureRing, ReopenRing,
       FlushForResize, EnsureStaging, CopyFrame, LeaveLoop, StopConversion,
       JoinConversion, CloseRing, pool
  <2>3. QED BY <2>1, <2>2
<1>4. Ids' = Ids /\ Waiting' = Waiting
  BY <1>2, <1>3 DEF Ids, Waiting
<1>5. /\ \/ cur'.id = cur.id /\ Staged \cup Fresh \subseteq Staged' \cup Fresh'
         \/ /\ cur'.id = cur.id + 1
            /\ Staged \cup Fresh \cup {cur'.id} \subseteq Staged' \cup Fresh'
  <2>1. CASE Acquire
    <3>1. pending' = pending /\ cpc = "acquire"
          /\ (cur' = cur \/ (cpc' = "ensure" /\ cur'.id = presented /\ avail # 0))
      BY <2>1 DEF Acquire
    <3>2. Staged' = Staged /\ Fresh = {}
      BY <3>1 DEF Staged, Fresh, Capturing, Mapping
    <3>3. avail # 0 => presented = cur.id + 1
      BY InLineParts DEF IInv
    <3>4. cpc' = "ensure" => Fresh' = {cur'.id}
      BY DEF Fresh, Capturing
    <3>5. QED BY <3>1, <3>2, <3>3, <3>4
  <2>2. CASE CopyFrame
    <3>1. /\ cpc = "copy" /\ cur'.id = cur.id /\ cur.id > 0 /\ None.id = 0
          /\ \/ cpc' = "mqBuffers" /\ site' \in {"first", "pending"} /\ pending' = pending
             \/ cpc' = "acquire" /\ pending = None /\ pending' = cur'
      BY <1>1, <2>2, Facts DEF CopyFrame, Call, CaptureOK, Frame, IInv, Calls, Capturing
    <3>2. Fresh = {cur.id}
      BY <3>1 DEF Fresh, Capturing
    <3>3. CASE cpc' = "mqBuffers" /\ site' \in {"first", "pending"} /\ pending' = pending
      BY <3>1, <3>2, <3>3 DEF Staged, Fresh, Mapping
    <3>4. CASE cpc' = "acquire" /\ pending = None /\ pending' = cur'
      BY <3>1, <3>2, <3>4 DEF Staged
    <3>5. QED BY <3>1, <3>3, <3>4
  <2>3. CASE \/ Start \/ Wait \/ EnsureRing \/ ReopenRing \/ FlushForResize \/ EnsureStaging
             \/ EnsureBgra \/ LeaveLoop \/ StopConversion \/ JoinConversion \/ CloseRing
    <3>1. cur' = cur
      BY <2>3 DEF Start, Wait, EnsureRing, ReopenRing, FlushForResize, EnsureStaging,
         EnsureBgra, LeaveLoop, StopConversion, JoinConversion, CloseRing, captureArgs
    <3>2. pending' = pending
      <4>1. CASE EnsureStaging
        BY <4>1 DEF EnsureStaging, IInv, Calls
      <4>2. QED
        BY <2>3, <4>1 DEF Start, Wait, EnsureRing, ReopenRing, FlushForResize,
           EnsureBgra, LeaveLoop, StopConversion, JoinConversion, CloseRing
    <3>3. \/ cpc \notin Capturing \cup Mapping
          \/ cpc' \in Capturing
          \/ cpc' \in Mapping /\ site' = "resize"
      BY <1>1, <2>3 DEF Start, Wait, EnsureRing, ReopenRing, FlushForResize, EnsureStaging,
         EnsureBgra, LeaveLoop, StopConversion, JoinConversion, CloseRing, Call, IInv,
         Undisturbed, Capturing, Mapping
    <3>4. Staged' = Staged /\ Fresh \subseteq Fresh'
      BY <3>1, <3>2, <3>3 DEF Staged, Fresh
    <3>5. QED BY <3>1, <3>4
  <2>4. QED BY <2>1, <2>2, <2>3 DEF CaptureStep
<1>6. QED BY <1>2, <1>3, <1>4, <1>5 DEF Under

\* What an undisturbed behaviour keeps beside its frames.
Steady == calm =>
  /\ valid /\ ~failed /\ vpc # "failing"
  /\ cpc \in (Capturing \ {"ensure", "reopen"}) \cup Mapping => view
  /\ pending # None \/ queue # <<>> \/ vpc \in {"begin", "convert"} => view
  /\ cpc \in {"stop", "join", "close", "done"} => pending = None
  /\ cpc = "done" => vpc = "exited"
Covered == calm => 1 .. cur.id \subseteq Under

\* Undisturbed is the two together.
LEMMA UndisturbedParts ==
  /\ Undisturbed <=> Steady /\ Covered
  /\ Undisturbed' <=> Steady' /\ Covered'
BY DEF Undisturbed, Steady, Covered, Under

\* Without failures and restarts the view stays until the end.
LEMMA NextSteady == ASSUME IInv, [Next]_vars PROVE Steady'
<1> SUFFICES ASSUME calm' PROVE Steady'
  BY DEF Steady
<1>0. calm
  <2>1. calm' = calm
    BY StepCases, CaptureFrame, ConvertFrame, OutsideFrame, Zenon
  <2>2. QED BY <2>1
<1>1. Steady /\ cpc \in CaptureSteps /\ vpc \in ConvertSteps /\ \A c : ~Fails(c)
  BY <1>0, UndisturbedParts, TypeParts DEF IInv, CaptureOK, ConvertOK, Fails
<1>2. CASE CaptureStep /\ ~MapAndQueue
  <2>1. UNCHANGED <<valid, failed, queue>>
    BY <1>0, <1>2, CalmCapture, CaptureFrame
  <2>2. CASE Start \/ Acquire \/ Wait
    <3>1. /\ cpc' \in {"acquire", "wait", "ensure", "endLoop"} /\ UNCHANGED <<pending, view>>
          /\ vpc' = vpc \/ vpc' = "idle"
      BY <1>1, <2>2 DEF Start, Acquire, Wait, ring, convert
    <3>2. QED BY <1>0, <1>1, <2>1, <3>1 DEF Steady, Capturing, Mapping
  <2>3. CASE EnsureRing \/ ReopenRing
    BY <1>0, <1>1, <2>1, <2>3 DEF Steady, EnsureRing, ReopenRing, RingUsable, convert,
       Capturing, Mapping
  <2>4. CASE FlushForResize \/ EnsureStaging \/ EnsureBgra \/ CopyFrame
    <3>1. /\ cpc \in Capturing \ {"ensure", "reopen"} /\ UNCHANGED <<view, vpc>>
          /\ cpc' \in Capturing \cup {"mqBuffers", "acquire"}
      BY <1>1, <2>4 DEF FlushForResize, EnsureStaging, EnsureBgra, CopyFrame, Call, ring,
         convert,
         Capturing
    <3>2. QED BY <1>0, <1>1, <2>1, <3>1 DEF Steady, Capturing, Mapping
  <2>5. CASE LeaveLoop
    <3>1. /\ UNCHANGED <<view, vpc, pending>> /\ cpc = "endLoop"
          /\ (cpc' = "mqBuffers" /\ pending # None) \/ (cpc' = "stop" /\ pending = None)
      BY <2>5 DEF LeaveLoop, Flush, Call, ring, convert
    <3>2. QED BY <1>0, <1>1, <2>1, <3>1 DEF Steady, Capturing, Mapping
  <2>6. CASE StopConversion \/ JoinConversion
    <3>1. /\ UNCHANGED <<view, vpc, pending>> /\ cpc \in {"stop", "join"}
          /\ cpc' \in {"join", "close"}
      BY <2>6 DEF StopConversion, JoinConversion, ring, convert
    <3>2. QED BY <1>0, <1>1, <2>1, <3>1 DEF Steady, Capturing, Mapping
  <2>7. CASE CloseRing
    <3>1. UNCHANGED <<vpc, pending>> /\ cpc = "close" /\ cpc' = "done"
      BY <2>7 DEF CloseRing, convert
    <3>2. vpc = "exited" /\ pending = None /\ queue = <<>>
      BY <1>0, <1>1, <3>1 DEF IInv, Lifecycle, Steady
    <3>3. QED BY <1>0, <1>1, <2>1, <3>1, <3>2 DEF Steady, Capturing, Mapping
  <2>8. QED BY <1>2, <2>2, <2>3, <2>4, <2>5, <2>6, <2>7 DEF CaptureStep
<1>3. CASE MapAndQueue
  <2>1. cpc \in Mapping /\ UNCHANGED <<vpc, failed, view, valid>>
    BY <1>3, MapAndQueueSteps, CaptureFrame DEF CaptureStep
  <2>2. cpc' \notin {"join", "close", "done"} /\ (cpc' = "stop" => pending' = None)
    BY <1>0, <1>3, CalmCall, ReturnTrue DEF Mapping
  <2>3. view
    BY <1>0, <1>1, <2>1 DEF Steady
  <2>4. QED BY <1>0, <1>1, <2>1, <2>2, <2>3 DEF Steady
<1>4. CASE ConvertStep
  <2>1. UNCHANGED <<capture, view, valid>>
    BY <1>4, ConvertFrame
  <2>2. queue' # <<>> => queue # <<>>
    BY <1>4 DEF ConvertStep, TakeWork, ConvertExit, BeginConvert, EndConvert, ReleaseWork,
       ConvertFails, ReleaseFailed, pool
  <2>3. vpc' \in {"begin", "convert"} => vpc \in {"begin", "convert"} \/ queue # <<>>
    BY <1>4 DEF ConvertStep, TakeWork, ConvertExit, BeginConvert, EndConvert, ReleaseWork,
       ConvertFails, ReleaseFailed
  <2>4. vpc # "exited" /\ ~failed'
    BY <1>0, <1>1, <1>4 DEF Steady, ConvertStep, TakeWork, ConvertExit, BeginConvert,
       EndConvert,
       ReleaseWork, ConvertFails, ReleaseFailed, pool
  <2>5. vpc' # "failing"
    <3>1. vpc = "begin" => view /\ bytes > 0
      BY <1>0, <1>1 DEF Steady, IInv, Contents
    <3>2. QED BY <1>1, <1>4, <3>1 DEF ConvertStep, TakeWork, ConvertExit, BeginConvert,
          EndConvert,
       ReleaseWork, ConvertFails, ReleaseFailed
  <2>6. QED BY <1>0, <1>1, <2>1, <2>2, <2>3, <2>4, <2>5 DEF Steady, capture
<1>5. CASE OutsideStep
  <2>1. UNCHANGED <<capture, pool, convert, view>>
    BY <1>5, OutsideFrame
  <2>2. valid'
    BY <1>0, <1>1, <1>5 DEF Steady, OutsideStep, Destroy, Destroyed, Present, HostZeroes,
       HostReady, vars, ring
  <2>3. QED BY <1>0, <1>1, <2>1, <2>2 DEF Steady, capture, pool, convert
<1>6. QED BY <1>2, <1>3, <1>4, <1>5, StepCases

\* A frame that was captured in an undisturbed behaviour stays on its way until it is
\* published, and after.
LEMMA NextCovered == ASSUME IInv, [Next]_vars PROVE Covered'
<1> SUFFICES ASSUME calm' PROVE Covered'
  BY DEF Covered
<1>0. calm /\ \A c : ~Fails(c)
  BY StepCases, CaptureFrame, ConvertFrame, OutsideFrame DEF Fails
<1>1. 1 .. cur.id \subseteq Under /\ cur.id \in Nat /\ Steady
  BY <1>0, UndisturbedParts, UnderNat DEF IInv, Covered
<1>2. ASSUME cur'.id = cur.id, Under \subseteq Under' PROVE Covered'
  BY <1>1, <1>2 DEF Covered
<1>3. ASSUME cur'.id = cur.id + 1, Under \cup {cur'.id} \subseteq Under' PROVE Covered'
  BY <1>1, <1>3 DEF Covered
<1>4. CASE CaptureStep /\ ~MapAndQueue
  BY <1>0, <1>2, <1>3, <1>4, CalmCapture
<1>5. CASE MapAndQueue
  <2>1. UNCHANGED <<site, cur, vpc, work>> /\ cpc \in Mapping
    BY <1>5, MapAndQueueSteps
  <2>2. CASE cpc' \in Mapping /\ UNCHANGED <<pending, queue, published>>
    <3>1. Ids' = Ids /\ Converting' = Converting /\ Waiting' = Waiting /\ Staged' = Staged
      BY <2>1, <2>2 DEF Ids, Converting, Waiting, Staged
    <3>2. Fresh \subseteq Fresh'
      BY <2>1, <2>2 DEF Fresh, Capturing, Mapping
    <3>3. Under \subseteq Under'
      BY <3>1, <3>2 DEF Under
    <3>4. QED BY <1>2, <2>1, <3>3
  <2>3. CASE SyncWrite /\ Return(TRUE) /\ published' = Append(published, arg.id)
             /\ site = "first" /\ arg = cur /\ ~hasPublished
    <3>1. Under \subseteq Under'
      BY <1>0, <1>1, <2>3, WriteInLine DEF Steady
    <3>2. QED BY <1>2, <2>1, <3>1
  <2>4. CASE Enqueue /\ Return(TRUE) /\ queue' = Append(queue, [id |-> arg.id, buf |-> buf])
    BY <1>2, <2>1, <2>4, EnqueueInLine
  <2>5. QED BY <1>0, <1>5, <2>2, <2>3, <2>4, CalmCall
<1>6. CASE TakeWork
  BY <1>2, <1>6, TakeInLine DEF TakeWork, capture
<1>7. CASE EndConvert
  <2>1. vpc = "convert" /\ vpc' = "release" /\ published' = Append(published, content[work.buf])
    BY <1>0, <1>7 DEF EndConvert
  <2>2. content[work.buf] = work.id
    BY <1>0, <1>1, <2>1 DEF IInv, Contents, Steady
  <2>3. QED BY <1>2, <1>7, <2>1, <2>2, ConvertInLine DEF EndConvert, capture
<1>8. CASE ConvertExit \/ BeginConvert \/ ReleaseWork \/ ConvertFails \/ ReleaseFailed
  <2>1. UNCHANGED <<capture, queue, published>>
    BY <1>8 DEF ConvertExit, BeginConvert, ReleaseWork, ConvertFails, ReleaseFailed, pool
  <2>2. Converting \subseteq Converting'
    <3>1. vpc = "begin" => view /\ bytes > 0
      BY <1>0, <1>1 DEF Steady, IInv, Contents
    <3>2. vpc \in {"begin", "convert"} => vpc' = "convert" /\ work' = work
      BY <1>8, <3>1 DEF ConvertExit, BeginConvert, ReleaseWork, ConvertFails, ReleaseFailed
    <3>3. QED BY <3>2 DEF Converting
  <2>3. Under \subseteq Under' /\ cur' = cur
    BY <2>1, <2>2 DEF Under, Ids, Waiting, Staged, Fresh, capture
  <2>4. QED BY <1>2, <2>3
<1>9. CASE OutsideStep
  <2>1. Under \subseteq Under' /\ cur' = cur
    BY <1>9, OutsideFrame DEF Under, Ids, Converting, Waiting, Staged, Fresh, capture, pool,
       convert
  <2>2. QED BY <1>2, <2>1
<1>10. QED
  BY <1>4, <1>5, <1>6, <1>7, <1>8, <1>9, StepCases DEF ConvertStep

----------------------------------------------------------------------------
(* The theorems.                                                           *)

\* The initial states.
LEMMA InitInv == ASSUME Init PROVE IInv
<1>1. TypeOK
  <2>1. 1 \in Buffer /\ 0 \in 0 .. MaxFrames /\ 0 \in 0 .. MaxRestarts
    BY Facts DEF Buffer
  <2>2. CaptureOK
    BY <2>1, Facts DEF Init, CaptureOK, CaptureSteps
  <2>3. ConvertOK /\ OutsideOK
    BY <2>1, Facts DEF Init, ConvertOK, OutsideOK, ConvertSteps
  <2>4. PoolOK
    <3>1. <<>> \in Seq(Work) /\ Len(<<>>) <= Buffers
      BY Facts, EmptySeq
    <3>2. content \in [Buffer -> 0 .. MaxFrames] /\ inUse \in [Buffer -> BOOLEAN]
      BY <2>1 DEF Init
    <3>3. QED BY <3>1, <3>2 DEF Init, PoolOK
  <2>5. published \in Seq(1 .. MaxFrames)
    BY EmptySeq DEF Init
  <2>6. QED BY <2>2, <2>3, <2>4, <2>5, TypeParts
<1>2. Lifecycle /\ Calls /\ Textures
  BY DEF Init, Lifecycle, Calls, Textures, Ending, Capturing, Mapping
<1>3. DOMAIN queue = {} /\ DOMAIN published = {} /\ {b \in Buffer : inUse[b]} = {}
  BY DEF Init
<1>4. HeldByCapture = {} /\ HeldByConvert = {} /\ Queued = {}
  BY <1>3 DEF Init, HeldByCapture, HeldByConvert, Queued
<1>5. Contents /\ Accounts
  BY <1>3, <1>4 DEF Init, Contents, Accounts
<1>6. Under = {} /\ Ids = {} /\ Converting = {} /\ Waiting = {} /\ Staged = {} /\ Fresh = {}
  BY <1>3 DEF Init, Under, Ids, ToSet, Converting, Waiting, Staged, Fresh, Capturing, Mapping
<1>7. InLine
  BY <1>3, <1>6, Facts DEF Init, InLine, Below
<1>8. Undisturbed
  <2>1. cur.id = 0 /\ 1 .. 0 = {}
    BY Facts DEF Init
  <2>2. QED BY <1>6, <2>1 DEF Init, Undisturbed, Capturing, Mapping
<1>9. QED BY <1>1, <1>2, <1>5, <1>7, <1>8 DEF IInv

\* The invariant is inductive.
LEMMA NextInv == ASSUME IInv, [Next]_vars PROVE IInv'
<1>1. TypeOK' /\ Lifecycle' /\ Calls' /\ Textures' /\ Contents' /\ Accounts' /\ InLine'
  BY NextType, NextLifecycle, NextCalls, NextTextures, NextContents, NextAccounts, NextInLine
<1>2. Undisturbed'
  BY NextSteady, NextCovered, UndisturbedParts
<1>3. QED BY <1>1, <1>2 DEF IInv

\* The inductive invariant holds in every reachable state.
LEMMA Invariant == Spec => []IInv
<1>1. Init => IInv
  BY InitInv
<1>2. IInv /\ [Next]_vars => IInv'
  BY NextInv
<1>3. QED BY <1>1, <1>2, PTL DEF Spec, Safety

\* The shape of the state; the queue never holds more than the buffers there are.
THEOREM TypeCorrect == Spec => []TypeOK
<1>1. IInv => TypeOK
  BY DEF IInv
<1>2. QED BY <1>1, Invariant, PTL

\* Whatever fails and however the two threads interleave, one thread at a time is inside
\* PublishBgraFrame.
THEOREM OnePublisher == Spec => []SinglePublisher
<1>1. IInv => SinglePublisher
  BY DEF IInv, Lifecycle, Calls, SinglePublisher
<1>2. QED BY <1>1, Invariant, PTL

\* Until a publication fails, every buffer in use is in exactly one place.
THEOREM Accounted == Spec => []BuffersAccounted
<1>1. ASSUME IInv PROVE BuffersAccounted
  BY <1>1, QueuedCount DEF IInv, Accounts, BuffersAccounted
<1>2. QED BY <1>1, Invariant, PTL

\* The ring gets the captured frames in capture order, each once and with its own pixels.
THEOREM InOrder == Spec => []PublishedInOrder
<1>1. ASSUME IInv PROVE PublishedInOrder
  <2>1. bytes \in Nat
    BY <1>1, TypeParts, SizeFacts DEF IInv, PoolOK
  <2>2. vpc = "convert" => content[work.buf] = work.id /\ bytes > 0
    BY <1>1 DEF IInv, Lifecycle, Contents
  <2>3. \A i, j \in DOMAIN published : i < j => published[i] < published[j]
    BY <1>1 DEF IInv, InLine
  <2>4. QED BY <2>1, <2>2, <2>3 DEF PublishedInOrder, Allocated
<1>2. QED BY <1>1, Invariant, PTL

\* Where no call fails and the host stays, every captured frame has been published when
\* the swap-chain thread has ended.
THEOREM Drained == Spec => []DrainedAtShutdown
<1>1. ASSUME IInv PROVE DrainedAtShutdown
  <2> SUFFICES ASSUME cpc = "done", calm PROVE ToSet(published) = 1 .. cur.id
    BY DEF DrainedAtShutdown
  <2>1. pending = None /\ vpc = "exited" /\ ~failed /\ 1 .. cur.id \subseteq Under
    BY <1>1, UndisturbedParts DEF IInv, Steady, Covered
  <2>2. queue = <<>>
    BY <1>1, <2>1 DEF IInv, Lifecycle
  <2>3. Converting = {} /\ Waiting = {} /\ Staged = {} /\ Fresh = {}
    BY <2>1, <2>2 DEF Converting, Waiting, Staged, Fresh, Capturing, Mapping
  <2>4. Under = Ids /\ Under \subseteq Nat /\ cur.id \in Nat
    BY <1>1, <2>3, UnderNat DEF Under
  <2>5. \A x \in Under : 1 <= x /\ x <= cur.id
    BY <1>1, InLineParts DEF IInv, Known
  <2>6. Ids = 1 .. cur.id
    <3>1. \A x \in Ids : x \in 1 .. cur.id
      BY <2>4, <2>5
    <3>2. QED BY <2>1, <2>4, <3>1
  <2>7. QED BY <2>6 DEF Ids
<1>2. QED BY <1>1, Invariant, PTL

----------------------------------------------------------------------------
(* What the published frames show.                                         *)

\* The pictures MCCapture gives the frames are pictures.
LEMMA LevelIsByte ==
  ASSUME NEW kind \in Nat, NEW n \in Nat
  PROVE  Level(kind, n) \in Byte
<1>1. (n \div 3 + n) % 2 \in {0, 1}
  OBVIOUS
<1>2. 255 * ((n \div 3 + n) % 2) \in 0 .. 255
  BY <1>1
<1>3. n * (23 + 37 * kind) \in Nat
  OBVIOUS
<1>4. (n * (23 + 37 * kind)) % 256 \in 0 .. 255
  BY <1>3
<1>5. QED BY <1>2, <1>4 DEF Level, Byte

LEMMA PicturesAre ==
  ASSUME NEW kind \in Nat, NEW pic \in Pictures(kind)
  PROVE  IsPicture(pic)
<1>1. PICK w \in Widths, h \in Heights : pic = Picture(kind, w, h)
  BY DEF Pictures
<1>2. w \in Nat /\ w % 2 = 0 /\ h \in Nat /\ h % 2 = 0
  BY DEF Widths, Heights
<1> DEFINE pixel(x, y) == [b |-> Level(kind, 5 * x + 3 * y), g |-> Level(kind, 7 * x + y + 1),
                           r |-> Level(kind, x + 11 * y + 2)]
<1>3. ASSUME NEW x \in 1 .. w, NEW y \in 1 .. h
      PROVE  pixel(x, y) \in Pixel
  <2>1. 5 * x + 3 * y \in Nat /\ 7 * x + y + 1 \in Nat /\ x + 11 * y + 2 \in Nat
    BY <1>2
  <2>2. QED BY <2>1, LevelIsByte DEF Pixel
<1>4. pic = [y \in 1 .. h |-> [x \in 1 .. w |-> pixel(x, y)]]
  BY <1>1 DEF Picture
<1> HIDE DEF pixel
<1>5. \A y \in 1 .. h : [x \in 1 .. w |-> pixel(x, y)] \in Seq(Pixel)
                        /\ Len([x \in 1 .. w |-> pixel(x, y)]) = w
  BY <1>2, <1>3
<1> DEFINE row(y) == [x \in 1 .. w |-> pixel(x, y)]
<1> HIDE DEF row
<1>6. pic = [y \in 1 .. h |-> row(y)] /\ \A y \in 1 .. h : row(y) \in Seq(Pixel) /\ Len(row(y)) = w
  BY <1>4, <1>5 DEF row
<1>7. pic \in Seq(Seq(Pixel)) /\ Len(pic) = h /\ DOMAIN pic = 1 .. h /\ \A y \in 1 .. h : pic[y] = row(y)
  BY ONLY <1>2, <1>6
<1>8. QED BY <1>2, <1>6, <1>7 DEF IsPicture

\* Whichever instructions the processor has and wherever a row's vectors end, every byte
\* of a published payload is what the formulas make of the pixels there, and in range.
THEOREM ConversionsAgree == Spec => []PathsAgree
<1>1. ASSUME NEW n \in 1 .. MaxFrames, NEW pic \in Pictures(n), NEW avx2 \in BOOLEAN
      PROVE  Convert(avx2, pic) = Reference(pic) /\ WithinRange(Convert(avx2, pic))
  <2>1. n \in Nat
    BY Facts
  <2>2. IsPicture(pic)
    BY <2>1, PicturesAre
  <2>3. QED BY <2>2, PicturesAgree
<1>2. Differing = {}
  BY <1>1, Zenon DEF Differing
<1>3. OutOfRange = {}
  <2>1. ASSUME NEW low, NEW high, NEW plane, Within(low, high, plane)
        PROVE  ~Leaving(low, high, plane)
    BY <2>1, Zenon DEF Within, Leaving
  <2>2. ASSUME NEW n \in 1 .. MaxFrames, NEW pic \in Pictures(n), NEW avx2 \in BOOLEAN
        PROVE  ~(Leaving(16, 235, Convert(avx2, pic).y) \/ Leaving(16, 240, Convert(avx2, pic).uv))
    BY <1>1, <2>1, ZenonT(30) DEF WithinRange
  <2>3. QED BY <2>2, ZenonT(30) DEF OutOfRange
<1>4. PathsAgree
  BY <1>2, <1>3 DEF PathsAgree
<1>5. QED BY <1>4, PTL
=============================================================================
