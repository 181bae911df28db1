------------------------- MODULE VideoEncoder_proofs -------------------------
(***************************************************************************)
(* Theorems of VideoEncoder for every number of slots, every key interval, *)
(* every latency and every number of frames: the type invariant, that a    *)
(* unit is sent under the id of the frame its bits show, that units leave  *)
(* in the order and without the gaps that would make them undecodable,     *)
(* that none is older than the one before it, and that a drain returns     *)
(* when the newest frame has been sent.                                    *)
(***************************************************************************)
EXTENDS VideoEncoder, SequenceTheorems, FiniteSetTheorems, TLAPS

----------------------------------------------------------------------------
(* The constants, sequences and counted sets.                              *)

\* The constants.
LEMMA Facts ==
  /\ SlotCount \in Nat \ {0} /\ KeyInterval \in Nat \ {0} /\ MaxFrames \in Nat \ {0}
  /\ Latency \in Nat /\ 0 \in Slot
  /\ \A s \in Slot : s \in Nat /\ s < SlotCount
BY EncoderAssumption DEF Slot

\* The encoders and where they begin.
LEMMA Backends ==
  /\ DOMAIN Start = {"nvenc", "hardware", "software"}
  /\ Start["nvenc"] = "room" /\ Start["hardware"] = "await" /\ Start["software"] = "feed"
BY DEF Start

\* The records that stand for nothing, and the ones in an initial slot.
LEMMA Empty == NoUnit \in Unit /\ EmptySlot.out = NoUnit /\ ~EmptySlot.event
BY Facts DEF NoUnit, EmptySlot, Unit

\* The slot behind the last one is the first.
LEMMA Following ==
  ASSUME NEW s \in Slot
  PROVE  FollowingSlot(s) \in Slot /\ FollowingSlot(s) = IF s = SlotCount - 1 THEN 0 ELSE s + 1
<1>1. s \in Nat /\ s < SlotCount /\ SlotCount \in Nat \ {0}
  BY Facts
<1>2. CASE s = SlotCount - 1
  <2>1. SlotCount % SlotCount = 0
    BY <1>1
  <2>2. QED BY <1>1, <1>2, <2>1 DEF FollowingSlot, Slot
<1>3. CASE s + 1 < SlotCount
  <2>1. (s + 1) % SlotCount = s + 1
    BY <1>1, <1>3
  <2>2. QED BY <1>1, <1>3, <2>1 DEF FollowingSlot, Slot
<1>4. QED BY <1>1, <1>2, <1>3

\* The count of encoded frames runs from 1 to the key interval.
LEMMA Counting == ASSUME NEW n \in Nat PROVE NextCount(n) \in 1 .. KeyInterval
<1>1. n % KeyInterval \in 0 .. KeyInterval - 1
  BY Facts
<1>2. QED BY <1>1, Facts DEF NextCount

\* The first element of a sequence and the ones behind it.
LEMMA TailOf ==
  ASSUME NEW S, NEW s \in Seq(S), s # <<>>
  PROVE  /\ 1 \in DOMAIN s /\ Head(s) = s[1] /\ Head(s) \in S /\ Len(s) \in Nat \ {0}
         /\ Tail(s) \in Seq(S) /\ Len(Tail(s)) = Len(s) - 1
         /\ DOMAIN Tail(s) = 1 .. Len(s) - 1 /\ DOMAIN s = 1 .. Len(s)
         /\ \A i \in 1 .. Len(s) - 1 : Tail(s)[i] = s[i + 1]
BY HeadTailProperties, LenProperties

\* A sequence with one more element at its end.
LEMMA AppendTo ==
  ASSUME NEW S, NEW s \in Seq(S), NEW e \in S
  PROVE  /\ Append(s, e) \in Seq(S) /\ Len(Append(s, e)) = Len(s) + 1 /\ Len(s) \in Nat
         /\ DOMAIN Append(s, e) = 1 .. Len(s) + 1 /\ DOMAIN s = 1 .. Len(s)
         /\ \A i \in 1 .. Len(s) : Append(s, e)[i] = s[i]
         /\ Append(s, e)[Len(s) + 1] = e
BY AppendProperties, LenProperties

----------------------------------------------------------------------------
(* The inductive invariant.                                                *)

\* Where each encoder's worker can be, and where it is on the way to Drain's end.
Steps(b) ==
  IF b = "nvenc" THEN {"room", "copy", "submit", "poll", "return", "drain", "fallback"}
  ELSE IF b = "hardware" THEN {"await", "collect", "pump", "drain", "fallback"}
  ELSE {"feed", "refeed", "pump"}
Resumes(b) ==
  IF b = "hardware" THEN {"await", "collect", "drain"} ELSE {"idle", "refeed", "drained"}
Places ==
  /\ pc \in Steps(backend) \cup {"idle", "drained", "ended"}
  /\ pc = "pump" => resume \in Resumes(backend)
  /\ draining => pc \in {"pump", "drain", "collect", "drained", "ended"}
  /\ pc = "drain" \/ pc = "drained" => draining
  /\ pc = "pump" /\ draining => resume \in {"collect", "drain", "drained"}
  /\ pc = "pump" /\ resume \in {"drain", "drained"} => draining
  /\ frame = 0 => pc \in {"idle", "ended"}

\* What an encoder leaves unused, and what is left when a drain is over.
Unused ==
  /\ backend = "nvenc" => inside = <<>> /\ ids = <<>>
  /\ backend # "nvenc" => pending = <<>> /\ gpu = <<>>
  /\ backend # "hardware" => done = 0 /\ events = <<>>
  /\ pc = "drained" => pending = <<>> /\ inside = <<>>

\* The hardware transform asks for no more input than it has room for, and a drain ends
\* behind all its outputs.
Events ==
  /\ requests + Cardinality(NeedsQueued) <= Latency + 1
  /\ done > 0 => pc \in {"pump", "fallback", "ended"} \/ "have" \in ToSet(events)
  /\ "drained" \in ToSet(events) => draining
  /\ draining /\ backend = "hardware" /\ pc # "ended"
     /\ ("drained" \in ToSet(events) \/ pc = "collect" \/ (pc = "pump" /\ resume = "collect"))
       => done = Len(inside)

\* The slots are used in turn: those in the pipeline are the ones before the next slot,
\* those that the GPU has not completed are the last of them.
Back(n, k)   == IF n >= k THEN n - k ELSE n - k + SlotCount
Behind(n, s) == \A i \in 1 .. Len(s) : s[i] = Back(n, Len(s) + 1 - i)
Pipeline ==
  /\ Behind(nextSlot, pending) /\ Behind(nextSlot, gpu)
  /\ Len(gpu) <= Len(pending) /\ Len(pending) <= SlotCount
  /\ pc \in {"copy", "submit"} => Len(pending) < SlotCount
  /\ \A s \in Slot : slots[s].event => s \in ToSet(pending) /\ s \notin ToSet(gpu)
  /\ \A s \in ToSet(gpu) : slots[s].input = slots[s].out.id
  /\ \A s \in ToSet(pending) : s \in ToSet(gpu) \/ slots[s].out.pix = slots[s].out.id
  /\ pc = "submit" => slots[nextSlot].input = frame

\* The ids that wait for a transform are those of the frames in it, with one more for a
\* frame that it has not accepted yet.
Lost    == {"fallback", "ended"}
OneMore == IF pc = "refeed" \/ (pc = "pump" /\ resume = "refeed") THEN 1 ELSE 0
Paired(s, t, more, f) ==
  /\ Len(s) = Len(t) + more
  /\ \A i \in 1 .. Len(t) : s[i] = t[i].pix
  /\ more = 1 => s[Len(s)] = f
InStep ==
  /\ pc \notin Lost => Paired(ids, inside, OneMore, frame)
  /\ last.id = last.pix

\* The units made and not sent, in the order in which they were made: each follows the one
\* before it, the first one the last that was sent.
WayLen == IF backend = "nvenc" THEN Len(pending) ELSE Len(inside)
OfUnit(u)  == [id |-> u.id, key |-> u.key, seq |-> u.seq]
OfFrame(u) == [id |-> u.pix, key |-> u.key, seq |-> u.seq]
OnWay ==
  [i \in 1 .. WayLen |-> IF backend = "nvenc" THEN OfUnit(slots[pending[i]].out)
                                              ELSE OfFrame(inside[i])]
LastSent == OfUnit(last)
Follows(u, v) == u.id <= v.id /\ v.id > 0 /\ (v.key \/ (u.id > 0 /\ v.seq = NextCount(u.seq)))
Linked(u, w, n) ==
  /\ n > 0 => Follows(u, w[1])
  /\ \A i \in 1 .. n - 1 : Follows(w[i], w[i + 1])
Newer(u, w, n) == IF n = 0 THEN u ELSE w[n]
Latest  == Newer(LastSent, OnWay, WayLen)
Entered == {"idle", "poll", "return", "drain", "drained", "collect"}
Given   == pc \in Entered \/ (pc = "pump" /\ resume \notin {"await", "refeed"})
Chain ==
  /\ last.id <= frame
  /\ pc \notin Lost =>
       /\ Linked(LastSent, OnWay, WayLen)
       /\ \A i \in 1 .. WayLen : OnWay[i].id <= frame
       /\ pc \in {"poll", "return"} => Latest.id > 0 /\ Latest.seq = count
       /\ pc \notin {"poll", "return"} =>
            count = 0 \/ (Latest.id > 0 /\ count = NextCount(Latest.seq))
       /\ Given => Latest.id = frame

IInv == TypeOK /\ Places /\ Unused /\ Events /\ Pipeline /\ InStep /\ Chain
----------------------------------------------------------------------------
(* What the worker's steps have in common.                                 *)

WorkerOK ==
  /\ pc \in {"idle", "room", "copy", "submit", "poll", "return", "feed", "refeed", "pump",
             "await", "collect", "fallback", "drain", "drained", "ended"}
  /\ resume \in {"idle", "refeed", "await", "collect", "drain", "drained"}
  /\ backend \in DOMAIN Start /\ draining \in BOOLEAN
  /\ frame \in 0 .. MaxFrames /\ count \in 0 .. KeyInterval
  /\ limited \in BOOLEAN /\ steady \in BOOLEAN
SlotState == [input : 0 .. MaxFrames, out : Unit, event : BOOLEAN]
NvencOK ==
  /\ slots \in [Slot -> SlotState]
  /\ pending \in Seq(Slot) /\ nextSlot \in Slot /\ ready \in 0 .. Len(pending)
  /\ gpu \in Seq(Slot) /\ held \subseteq Slot
Inside == [pix : 0 .. MaxFrames, key : BOOLEAN, seq : 0 .. KeyInterval]
Event  == {"need", "have", "drained"}
TransformOK ==
  /\ inside \in Seq(Inside) /\ done \in 0 .. Len(inside)
  /\ events \in Seq(Event) /\ requests \in 0 .. Latency + 1
  /\ ids \in Seq(0 .. MaxFrames)

\* The parts make up the type invariant.
LEMMA TypeParts ==
  /\ TypeOK <=> WorkerOK /\ NvencOK /\ TransformOK /\ last \in Unit
  /\ TypeOK' <=> WorkerOK' /\ NvencOK' /\ TransformOK' /\ last' \in Unit
BY Zenon DEF TypeOK, WorkerOK, NvencOK, TransformOK, SlotState, Inside, Event

\* An exception leads to the fallback or to the end.
LEMMA Throwing ==
  Throw => pc' \in {"fallback", "ended"}
      /\ (pc' = "fallback" => backend # "software" /\ ~draining)
BY DEF Throw

\* The three ways to look for an output: it is sent, it is lost with the stream, or it
\* stays where it is.
Sends ==
  /\ last' = slots[Oldest].out /\ pending' = Tail(pending) /\ ready' = ready - 1
  /\ slots' = [slots EXCEPT ![Oldest].event = FALSE] /\ pc' = pc
Drops ==
  /\ last' = last /\ pending' = Tail(pending) /\ ready' = ready - 1
  /\ slots' = [slots EXCEPT ![Oldest].event = FALSE] /\ pc' = "ended"
Keeps ==
  /\ pending' = pending /\ ready' = ready
  /\ slots' = [slots EXCEPT ![Oldest].event = FALSE] \/ slots' = slots
  /\ \/ last' = last
     \/ last' = slots[Oldest].out /\ slots[Oldest].event /\ pc' \in Lost
  /\ \/ pc' = (IF pc = "poll" THEN "return" ELSE pc)
     \/ pc' \in Lost /\ (pc' = "fallback" => backend # "software" /\ ~draining)
LEMMA Polling ==
  ASSUME Poll
  PROVE  /\ pending # <<>> /\ ready # 0
         /\ UNCHANGED <<worker, nextSlot, gpu, held, transform, modes>>
         /\ (slots[Oldest].event /\ (Sends \/ Drops)) \/ Keeps
<1>1. CASE LockOutput
  BY <1>1, Throwing DEF LockOutput, NotReady, NothingReady, Sends, Drops, Keeps, Lost
<1>2. CASE ~NothingReady /\ Fails
  BY <1>2, Throwing DEF NothingReady, Fails, Keeps, Lost, nvenc
<1>3. QED BY <1>1, <1>2 DEF Poll

\* The steps of EncodeFrame and Drain of the first encoder, by what they do.
PollStep   == pc \in {"room", "submit", "poll", "drain"} /\ Poll
OtherFails == pc \in {"copy", "submit", "refeed", "await", "collect", "drain", "pump"} /\ Fails
Goes ==
  /\ UNCHANGED <<worker, nvenc, transform, last, modes>>
  /\ \/ pc = "room" /\ HasRoom /\ pc' = "copy"
     \/ pc = "poll" /\ pc' = "return"
     \/ pc = "drain" /\ backend = "nvenc" /\ pending = <<>> /\ pc' = "drained"
     \/ pc = "pump" /\ HasOutput /\ pc' = "ended"
     \/ pc = "pump" /\ WantsMore /\ pc' = resume
     \/ pc = "collect" /\ events = <<>> /\ pc' = IF draining THEN "drained" ELSE "idle"
Copies ==
  /\ pc = "copy" /\ pc' = "submit"
  /\ slots' = [slots EXCEPT ![nextSlot].input = frame]
  /\ UNCHANGED <<worker, pending, nextSlot, ready, gpu, held, transform, last, modes>>
Submits == pc = "submit" /\ \E more \in BOOLEAN : Submit(more)
Pumps ==
  /\ pc = "pump" /\ HasOutput
  /\ last' = [id |-> OldestId, pix |-> Head(inside).pix, key |-> Head(inside).key,
              seq |-> Head(inside).seq]
  /\ inside' = Tail(inside)
  /\ done' = IF backend = "hardware" THEN done - 1 ELSE done
  /\ ids' = IF ids = <<>> THEN ids ELSE Tail(ids)
  /\ UNCHANGED <<pc, worker, nvenc, resume, events, requests, modes>>
Takes == pc \in {"await", "collect", "drain"} /\ ProcessAsyncEvent
Requested ==
  /\ pc = "await" /\ requests > 0 /\ requests' = requests - 1
  /\ ids' = Append(ids, frame)
  /\ Accept("collect") \/ (Throw /\ UNCHANGED <<resume, inside, count>>)
  /\ UNCHANGED <<backend, draining, frame, nvenc, done, events, last, modes>>

\* The cases of a step.
LEMMA StepCases ==
  ASSUME WorkerOK, [Next]_vars
  PROVE  \/ \E f \in {frame, frame + 1} : Encode(f) /\ f > 0 /\ f <= MaxFrames
         \/ Drain \/ Flush \/ PollStep \/ OtherFails \/ Goes \/ Copies \/ Submits \/ Return
         \/ GpuCompletes \/ Feed \/ FeedAgain \/ Pumps \/ Takes \/ Requested
         \/ Fallback \/ HardwareStep \/ UNCHANGED vars
<1>1. CASE EncodeNew \/ EncodeRefresh
  BY <1>1, Facts DEF EncodeNew, EncodeRefresh, WorkerOK
<1>2. CASE NvencStep
  BY <1>2 DEF NvencStep, WaitForRoom, CopyInput, SubmitPicture, PollAfterSubmit, DrainNvenc,
     PollStep, OtherFails, Goes, Copies, Submits, Step, Drained
<1>3. CASE TransformStep
  <2>1. CASE PumpOutput
    BY <2>1 DEF PumpOutput, Pumps, Goes, OtherFails, Step
  <2>2. CASE WaitForInput
    BY <2>2 DEF WaitForInput, Takes, OtherFails, Requested
  <2>3. CASE DrainAvailableEvents \/ DrainTransform
    BY <2>3 DEF DrainAvailableEvents, DrainTransform, Takes, OtherFails, Goes, Step
  <2>4. QED BY <1>3, <2>1, <2>2, <2>3 DEF TransformStep
<1>4. QED BY <1>1, <1>2, <1>3 DEF Next

----------------------------------------------------------------------------
(* The events that wait.                                                   *)

Needs(s) == {i \in DOMAIN s : s[i] = "need"}

\* The requests for input among the events are finitely many.
LEMMA NeedsFinite ==
  ASSUME NEW s \in Seq(Event)
  PROVE  /\ IsFiniteSet(Needs(s)) /\ Cardinality(Needs(s)) \in Nat
         /\ Needs(s) \subseteq 1 .. Len(s)
<1>1. Len(s) \in Nat /\ DOMAIN s = 1 .. Len(s)
  BY LenProperties
<1>2. IsFiniteSet(1 .. Len(s))
  BY <1>1, FS_Interval
<1>3. Needs(s) \subseteq 1 .. Len(s)
  BY <1>1 DEF Needs
<1>4. QED BY <1>2, <1>3, FS_Subset, FS_CardinalityType

\* An event at the end of the queue is one more if it is such a request.
LEMMA NeedsAppend ==
  ASSUME NEW s \in Seq(Event), NEW e \in Event
  PROVE  Cardinality(Needs(Append(s, e))) = Cardinality(Needs(s)) + IF e = "need" THEN 1 ELSE 0
<1>1. /\ DOMAIN Append(s, e) = 1 .. Len(s) + 1 /\ DOMAIN s = 1 .. Len(s) /\ Len(s) \in Nat
      /\ \A i \in 1 .. Len(s) : Append(s, e)[i] = s[i]
      /\ Append(s, e)[Len(s) + 1] = e
  BY AppendTo
<1>2. CASE e = "need"
  <2>1. Needs(Append(s, e)) = Needs(s) \cup {Len(s) + 1}
    BY <1>1, <1>2 DEF Needs
  <2>2. Len(s) + 1 \notin Needs(s)
    BY <1>1 DEF Needs
  <2>3. QED BY <1>2, <2>1, <2>2, NeedsFinite, FS_AddElement
<1>3. CASE e # "need"
  <2>1. Needs(Append(s, e)) = Needs(s)
    BY <1>1, <1>3 DEF Needs
  <2>2. QED BY <1>3, <2>1, NeedsFinite
<1>4. QED BY <1>2, <1>3

\* An event taken from the queue is one less if it was such a request.
LEMMA NeedsTail ==
  ASSUME NEW s \in Seq(Event), s # <<>>
  PROVE  Cardinality(Needs(s)) = Cardinality(Needs(Tail(s))) + IF Head(s) = "need" THEN 1 ELSE 0
<1>1. /\ Head(s) = s[1] /\ Len(s) \in Nat \ {0}
      /\ DOMAIN Tail(s) = 1 .. Len(s) - 1 /\ DOMAIN s = 1 .. Len(s)
      /\ \A i \in 1 .. Len(s) - 1 : Tail(s)[i] = s[i + 1]
      /\ Tail(s) \in Seq(Event)
  BY TailOf
<1> DEFINE Rest == Needs(s) \ {1}
           f    == [i \in Needs(Tail(s)) |-> i + 1]
<1>2. Rest \subseteq Needs(s) /\ IsFiniteSet(Rest) /\ IsFiniteSet(Needs(Tail(s)))
  BY <1>1, NeedsFinite, FS_Subset
<1>3. \A i \in Needs(Tail(s)) : i \in Nat /\ i + 1 \in Rest
  BY <1>1 DEF Needs
<1>4. \A i \in Rest : i \in Nat /\ i - 1 \in Needs(Tail(s)) /\ (i - 1) + 1 = i
  BY <1>1 DEF Needs
<1>5. f \in [Needs(Tail(s)) -> Rest]
  BY <1>3
<1>6. \A a, b \in Needs(Tail(s)) : f[a] = f[b] => a = b
  BY <1>3
<1>7. \A t \in Rest : \E a \in Needs(Tail(s)) : f[a] = t
  BY <1>4
<1>8. f \in Bijection(Needs(Tail(s)), Rest)
  <2> HIDE DEF f, Rest
  <2>1. DOMAIN f = Needs(Tail(s))
    BY <1>5
  <2>2. f \in Injection(Needs(Tail(s)), Rest)
    BY <1>5, <1>6, <2>1 DEF Injection, IsInjective
  <2>3. f \in Surjection(Needs(Tail(s)), Rest)
    BY <1>5, <1>7 DEF Surjection
  <2>4. QED BY <2>2, <2>3 DEF Bijection
<1>9. Cardinality(Needs(Tail(s))) = Cardinality(Rest)
  <2> HIDE DEF f, Rest
  <2>1. ExistsBijection(Needs(Tail(s)), Rest)
    BY <1>8 DEF ExistsBijection
  <2>2. QED BY <1>2, <2>1, FS_Bijection
<1>10. CASE Head(s) = "need"
  <2>1. 1 \in Needs(s)
    BY <1>1, <1>10 DEF Needs
  <2>2. Cardinality(Rest) = Cardinality(Needs(s)) - 1
    BY <2>1, NeedsFinite, FS_RemoveElement
  <2>3. Cardinality(Needs(s)) \in Nat
    BY NeedsFinite
  <2>4. QED BY <1>9, <1>10, <2>2, <2>3
<1>11. CASE Head(s) # "need"
  <2>1. Rest = Needs(s)
    BY <1>1, <1>11 DEF Needs
  <2>2. Cardinality(Needs(s)) \in Nat
    BY NeedsFinite
  <2>3. Cardinality(Needs(Tail(s))) = Cardinality(Needs(s))
    BY <1>9, <2>1
  <2> HIDE DEF Rest
  <2>4. QED BY <1>11, <2>2, <2>3
<1>12. QED BY <1>10, <1>11

\* The same for the event queue.
LEMMA NeedFirst ==
  ASSUME TransformOK
  PROVE  /\ Cardinality(NeedsQueued) \in Nat
         /\ events # <<>> /\ events' = Tail(events) =>
              /\ Cardinality(NeedsQueued') \in Nat
              /\ Cardinality(NeedsQueued) =
                   Cardinality(NeedsQueued') + IF Head(events) = "need" THEN 1 ELSE 0
         /\ \A e \in Event : events' = Append(events, e) =>
              Cardinality(NeedsQueued') =
                Cardinality(NeedsQueued) + IF e = "need" THEN 1 ELSE 0
<1>1. NeedsQueued = Needs(events) /\ NeedsQueued' = Needs(events')
  BY DEF NeedsQueued, Needs
<1>2. events \in Seq(Event)
  BY DEF TransformOK
<1>3. events # <<>> => Tail(events) \in Seq(Event)
  BY <1>2, TailOf
<1>4. QED BY <1>1, <1>2, <1>3, NeedsFinite, NeedsAppend, NeedsTail

----------------------------------------------------------------------------
(* The type invariant, by the parts of the state.                          *)

\* What each step leaves alone.
LEMMA Still ==
  /\ \A f : Encode(f) => UNCHANGED <<nvenc, transform, last>>
  /\ Drain => UNCHANGED <<nvenc, inside, done, events, requests, ids, last>>
  /\ Flush => UNCHANGED <<worker, nvenc, resume, events, requests, last>>
  /\ PollStep => UNCHANGED <<worker, nextSlot, gpu, held, transform>>
  /\ OtherFails => UNCHANGED <<worker, nvenc, transform, last>>
  /\ Goes => UNCHANGED <<worker, nvenc, transform, last>>
  /\ Copies => UNCHANGED <<worker, pending, nextSlot, ready, gpu, held, transform, last>>
  /\ Submits => UNCHANGED <<worker, transform, last>>
  /\ Return => UNCHANGED <<backend, draining, frame, nvenc, transform, last>>
  /\ GpuCompletes => UNCHANGED <<pc, worker, pending, nextSlot, ready, held, transform, last>>
  /\ Feed \/ FeedAgain
      => UNCHANGED <<backend, draining, frame, nvenc, done, events, requests, last>>
  /\ Pumps => UNCHANGED <<pc, worker, nvenc, resume, events, requests>>
  /\ Takes => UNCHANGED <<worker, nvenc, inside, done, ids, last>>
  /\ Requested => UNCHANGED <<backend, draining, frame, nvenc, done, events, last>>
  /\ Fallback => UNCHANGED <<draining, frame, resume, last>>
  /\ HardwareStep => UNCHANGED <<pc, worker, nvenc, resume, inside, requests, ids, last>>
BY Polling DEF Encode, Drain, Flush, PollStep, OtherFails, Fails, Goes, Copies, Submits,
   Submit, Return,
   GpuCompletes, Feed, FeedAgain, Pumps, Takes, ProcessAsyncEvent, Requested, Fallback,
   HardwareStep

\* The worker.
LEMMA NextWorkerOK == ASSUME WorkerOK, TransformOK, Places, [Next]_vars PROVE WorkerOK'
<1>0. UNCHANGED modes
  BY StepCases, Polling
     DEF Encode, Drain, Flush, PollStep, OtherFails, Fails, Goes, Copies, Submits,
     Submit, Return, GpuCompletes, Feed, FeedAgain, Pumps, Takes, ProcessAsyncEvent, Requested,
     Fallback, HardwareStep, vars
<1> USE DEF WorkerOK, worker, modes, transform
<1>1. ASSUME NEW f \in 1 .. MaxFrames, Encode(f) PROVE WorkerOK'
  BY <1>0, <1>1, Backends, Still DEF Encode
<1>2. CASE Drain \/ Flush \/ Goes \/ OtherFails \/ Copies
  BY ZenonT(30), <1>0, <1>2, Still, Throwing DEF Drain, Flush, Goes, OtherFails, Fails, Copies
<1>3. CASE PollStep
  BY <1>0, <1>3, Polling, Still DEF PollStep, Sends, Drops, Keeps, Lost
<1>4. CASE Submits \/ GpuCompletes \/ Pumps \/ HardwareStep
  BY <1>0, <1>4, Still DEF Submits, Submit
<1>5. CASE Return
  <2>1. NextCount(count) \in 0 .. KeyInterval
    BY Counting, Facts
  <2>2. QED BY <1>0, <1>5, <2>1 DEF Return, transform
<1>6. CASE Feed \/ FeedAgain \/ Requested
  <2>1. NextCount(count) \in 0 .. KeyInterval
    BY Counting, Facts
  <2>2. count' \in 0 .. KeyInterval /\ UNCHANGED <<backend, draining, frame>>
    BY <1>6, <2>1 DEF Feed, FeedAgain, Requested, Accept
  <2>3. /\ pc' \in {"pump", "idle", "collect", "fallback", "ended"}
        /\ resume' \in {resume, "refeed", "idle", "collect"}
    BY <1>6, Throwing DEF Feed, FeedAgain, Requested, Accept
  <2>4. QED BY <1>0, <2>2, <2>3
<1>7. CASE Takes
  <2>1. Head(events) \in {"need", "have", "drained"}
    BY <1>7, TailOf DEF Takes, ProcessAsyncEvent, TransformOK, Event
  <2>2. pc' \in {pc, "pump", "collect"} /\ resume' \in {resume, pc}
    BY <1>7, <2>1 DEF Takes, ProcessAsyncEvent
  <2>3. pc \in {"await", "collect", "drain"} /\ UNCHANGED <<worker, modes>>
    BY <1>0, <1>7 DEF Takes, ProcessAsyncEvent
  <2>4. QED BY <2>2, <2>3
<1>8. CASE Fallback
  BY <1>0, <1>8, Backends, Still, Facts DEF Fallback, ResetTransform
<1>9. CASE UNCHANGED vars
  BY <1>9 DEF vars
<1>10. QED
  BY <1>1, <1>2, <1>3, <1>4, <1>5, <1>6, <1>7, <1>8, <1>9, StepCases, Facts

\* The slots.
LEMMA NextNvencOK == ASSUME TypeOK, [Next]_vars PROVE NvencOK'
<1>0. NvencOK /\ WorkerOK /\ \A s \in Slot : slots[s] \in SlotState
  BY TypeParts DEF NvencOK
<1> USE DEF nvenc
<1>1. ASSUME UNCHANGED nvenc PROVE NvencOK'
  BY <1>0, <1>1 DEF NvencOK
<1>2. CASE PollStep
  <2>1. pending # <<>> /\ ready # 0 /\ UNCHANGED <<nextSlot, gpu, held>>
    BY <1>2, Polling DEF PollStep
  <2>2. slots' \in [Slot -> SlotState]
    BY <1>0, <1>2, Polling DEF PollStep, Sends, Drops, Keeps, NvencOK, SlotState
  <2>3. (pending' = Tail(pending) /\ ready' = ready - 1)
            \/ (pending' = pending /\ ready' = ready)
    BY <1>2, Polling DEF PollStep, Sends, Drops, Keeps
  <2>4. Tail(pending) \in Seq(Slot) /\ Len(Tail(pending)) = Len(pending) - 1
            /\ Len(pending) \in Nat
    BY <1>0, <2>1, TailOf DEF NvencOK
  <2>5. pending' \in Seq(Slot) /\ ready' \in 0 .. Len(pending')
    <3>1. ready \in 0 .. Len(pending) /\ pending \in Seq(Slot)
      BY <1>0 DEF NvencOK
    <3>2. CASE pending' = Tail(pending) /\ ready' = ready - 1
      BY <2>1, <2>4, <3>1, <3>2
    <3>3. QED BY <2>3, <3>1, <3>2
  <2>6. QED BY <1>0, <2>1, <2>2, <2>5 DEF NvencOK
<1>3. CASE Copies
  BY <1>0, <1>3 DEF Copies, NvencOK, WorkerOK, SlotState
<1>4. CASE Submits
  <2>1. [id |-> frame, pix |-> 0, key |-> IsKey(count), seq |-> count] \in Unit
    BY <1>0, Facts DEF WorkerOK, Unit, IsKey
  <2>2. slots' \in [Slot -> SlotState]
    BY ZenonT(30), <1>0, <1>4, <2>1 DEF Submits, Submit, NvencOK, SlotState
  <2>3. pending' \in Seq(Slot) /\ Len(pending') = Len(pending) + 1 /\ gpu' \in Seq(Slot)
            /\ Len(pending) \in Nat
    BY <1>0, <1>4, AppendTo DEF Submits, Submit, NvencOK
  <2>4. nextSlot' \in Slot /\ held' \subseteq Slot
    BY <1>0, <1>4, Following DEF Submits, Submit, NvencOK
  <2>5. ready' \in 0 .. Len(pending')
    BY <1>0, <1>4, <2>3 DEF Submits, Submit, OneMoreReady, NvencOK
  <2>6. QED BY <2>2, <2>3, <2>4, <2>5 DEF NvencOK
<1>5. CASE GpuCompletes
  <2>1. Head(gpu) \in Slot /\ Tail(gpu) \in Seq(Slot)
    BY <1>0, <1>5, TailOf DEF GpuCompletes, NvencOK
  <2>2. slots' = [slots EXCEPT ![Head(gpu)].out.pix = slots[Head(gpu)].input,
            ![Head(gpu)].event = TRUE]
    BY <1>5 DEF GpuCompletes
  <2>3. slots' \in [Slot -> SlotState]
    BY ZenonT(30), <1>0, <2>1, <2>2 DEF NvencOK, SlotState, Unit
  <2>4. QED BY <1>0, <1>5, <2>1, <2>3 DEF GpuCompletes, NvencOK
<1>6. CASE Fallback
  <2>1. EmptySlot \in SlotState
    BY Empty, Facts DEF EmptySlot, SlotState
  <2>2. <<>> \in Seq(Slot) /\ Len(<<>>) = 0
    BY EmptySeq
  <2>3. QED BY <1>6, <2>1, <2>2, Facts DEF Fallback, ResetNvenc, NvencOK
<1>7. QED
  BY <1>0, <1>1, <1>2, <1>3, <1>4, <1>5, <1>6, StepCases, Still DEF vars

\* The units in a transform, its events and the ids that wait.
LEMMA NextTransformOK == ASSUME IInv, [Next]_vars PROVE TransformOK'
<1>0. TransformOK /\ WorkerOK /\ Places /\ Unused
  BY TypeParts DEF IInv
<1> USE DEF transform
<1>1. ASSUME UNCHANGED <<inside, done, events, requests, ids>> PROVE TransformOK'
  BY <1>0, <1>1 DEF TransformOK
<1>2. CASE Flush
  <2>1. <<>> \in Seq(Inside) /\ <<>> \in Seq(0 .. MaxFrames) /\ Len(<<>>) = 0
    BY EmptySeq
  <2>2. QED BY <1>0, <1>2, <2>1 DEF Flush, TransformOK
<1>3. CASE Feed \/ FeedAgain \/ Requested
  <2>1. [pix |-> frame, key |-> count = 0, seq |-> count] \in Inside
    BY <1>0 DEF WorkerOK, Inside
  <2>2. inside' = inside \/ inside' = Append(inside,
            [pix |-> frame, key |-> count = 0, seq |-> count])
    BY <1>3 DEF Feed, FeedAgain, Requested, Accept
  <2>3. inside' \in Seq(Inside) /\ Len(inside') >= Len(inside) /\ Len(inside) \in Nat
          /\ Len(inside') \in Nat
    <3>1. inside \in Seq(Inside)
      BY <1>0 DEF TransformOK
    <3>2. Len(inside) \in Nat
      BY <3>1, LenProperties
    <3> DEFINE e == [pix |-> frame, key |-> count = 0, seq |-> count]
    <3>3. Append(inside, e) \in Seq(Inside) /\ Len(Append(inside, e)) = Len(inside) + 1
      <4> HIDE DEF e
      <4>1. e \in Inside
        BY <2>1 DEF e
      <4>2. QED BY <3>1, <4>1, AppendTo
    <3>4. QED BY <2>2, <3>1, <3>2, <3>3
  <2>4. ids' \in Seq(0 .. MaxFrames)
    <3>1. ids \in Seq(0 .. MaxFrames) /\ frame \in 0 .. MaxFrames
      BY <1>0 DEF TransformOK, WorkerOK
    <3>2. Append(ids, frame) \in Seq(0 .. MaxFrames)
      BY <3>1, AppendTo
    <3>3. ids' = ids \/ ids' = Append(ids, frame)
      BY <1>3 DEF Feed, FeedAgain, Requested
    <3>4. QED BY <3>1, <3>2, <3>3
  <2>5. UNCHANGED <<done, events>>
            /\ (requests' = requests \/ (requests > 0 /\ requests' = requests - 1))
    BY <1>3 DEF Feed, FeedAgain, Requested
  <2>6. QED BY <1>0, <2>3, <2>4, <2>5, Facts DEF TransformOK
<1>4. CASE Pumps
  <2>1. inside # <<>> /\ (backend = "hardware" => done > 0)
            /\ (backend # "hardware" => done = 0)
    BY <1>0, <1>4 DEF Pumps, HasOutput, Unused, TransformOK
  <2>2. inside' \in Seq(Inside) /\ Len(inside') = Len(inside) - 1 /\ Len(inside) \in Nat \ {0}
    BY <1>0, <1>4, <2>1, TailOf DEF Pumps, TransformOK
  <2>3. ids' \in Seq(0 .. MaxFrames)
    BY <1>0, <1>4, TailOf DEF Pumps, TransformOK
  <2>4. done' \in 0 .. Len(inside')
    BY <1>0, <1>4, <2>1, <2>2 DEF Pumps, TransformOK
  <2>5. QED BY <1>0, <1>4, <2>2, <2>3, <2>4 DEF Pumps, TransformOK
<1>5. CASE Takes
  <2>1. events' \in Seq(Event) /\ UNCHANGED <<inside, done, ids>>
    BY <1>0, <1>5, TailOf DEF Takes, ProcessAsyncEvent, TransformOK
  <2>2. requests' = requests \/ (Head(events) = "need" /\ requests' = requests + 1)
    <3>1. Head(events) \in Event
      BY <1>0, <1>5, TailOf DEF Takes, ProcessAsyncEvent, TransformOK
    <3>2. QED BY <1>5, <3>1 DEF Takes, ProcessAsyncEvent, Event
  <2>3. Head(events) = "need" => requests + 1 <= Latency + 1
    <3>1. events # <<>> /\ events' = Tail(events)
      BY <1>5 DEF Takes, ProcessAsyncEvent
    <3>2. requests \in Nat /\ requests + Cardinality(NeedsQueued) <= Latency + 1
      BY <1>0 DEF IInv, Events, TransformOK
    <3> DEFINE n == Cardinality(NeedsQueued)
               m == Cardinality(NeedsQueued')
    <3>3. n \in Nat /\ m \in Nat /\ (Head(events) = "need" => n = m + 1)
      BY <1>0, <3>1, NeedFirst
    <3> HIDE DEF n, m
    <3>4. requests + n <= Latency + 1
      BY <3>2 DEF n
    <3>5. QED BY <3>2, <3>3, <3>4, Facts
  <2>4. QED BY <1>0, <2>1, <2>2, <2>3, Facts DEF TransformOK
<1>6. CASE Fallback
  <2>1. <<>> \in Seq(Inside) /\ <<>> \in Seq(0 .. MaxFrames) /\ <<>> \in Seq(Event)
            /\ Len(<<>>) = 0
    BY EmptySeq
  <2>2. QED BY <1>6, <2>1, Facts DEF Fallback, ResetTransform, TransformOK
<1>7. CASE HardwareStep
  <2>1. Len(inside) \in Nat
    BY <1>0, LenProperties DEF TransformOK
  <2>2. \/ done' = done
        \/ done < Len(inside) /\ done' = done + 1
    BY <1>7 DEF HardwareStep, AsksForInput, FinishesUnit, FinishesDrain
  <2>3. \E e \in Event : events' = Append(events, e)
    BY <1>7 DEF HardwareStep, AsksForInput, FinishesUnit, FinishesDrain, Event
  <2>4. events' \in Seq(Event)
    BY <1>0, <2>3, AppendTo DEF TransformOK
  <2>5. UNCHANGED <<inside, requests, ids>>
    BY <1>7 DEF HardwareStep
  <2>6. QED BY <1>0, <2>1, <2>2, <2>4, <2>5 DEF TransformOK
<1>8. QED
  BY <1>0, <1>1, <1>2, <1>3, <1>4, <1>5, <1>6, <1>7, StepCases, Still DEF vars

----------------------------------------------------------------------------
(* Where the worker is.                                                    *)

\* The places of each encoder's worker, one by one.
LEMMA StepsOf ==
  ASSUME WorkerOK
  PROVE  /\ backend = "nvenc" => Steps(backend) =
              {"room", "copy", "submit", "poll", "return", "drain", "fallback"}
         /\ backend = "hardware" => Steps(backend) =
              {"await", "collect", "pump", "drain", "fallback"}
         /\ backend = "software" => Steps(backend) = {"feed", "refeed", "pump"}
         /\ backend \in {"nvenc", "hardware", "software"}
BY Backends DEF Steps, WorkerOK

\* An exception leaves the worker where its encoder's worker can be.
LEMMA PlaceOfFailure ==
  ASSUME WorkerOK, Places, pc \notin {"idle", "ended"}, UNCHANGED <<backend, draining, frame>>,
         pc' \in Lost, pc' = "fallback" => backend # "software" /\ ~draining
  PROVE  Places'
BY StepsOf DEF Places, Lost, Steps, WorkerOK

\* A step leaves the worker where its encoder's worker can be.
LEMMA NextPlaces == ASSUME IInv, [Next]_vars PROVE Places'
<1>0. WorkerOK /\ TransformOK /\ Places /\ Unused
  BY TypeParts DEF IInv
<1>1. ASSUME UNCHANGED <<pc, resume, worker>> PROVE Places'
  BY <1>0, <1>1 DEF Places, Steps, Resumes, worker
<1> USE DEF worker
<1>2. ASSUME NEW f \in {frame, frame + 1}, Encode(f), f > 0 PROVE Places'
  BY <1>0, <1>2, Backends, StepsOf DEF Encode, Places, Steps
<1>3. CASE Drain
  BY <1>0, <1>3, StepsOf DEF Drain, Places, Steps, Resumes
<1>4. CASE Flush
  BY <1>0, <1>4 DEF Flush, Places
<1>5. CASE PollStep
  <2>1. UNCHANGED <<backend, draining, frame>> /\ pc \notin {"idle", "ended"}
    BY <1>5, Polling DEF PollStep
  <2>2. \/ pc' = pc
        \/ pc = "poll" /\ pc' = "return"
        \/ pc' \in Lost /\ (pc' = "fallback" => backend # "software" /\ ~draining)
    BY <1>5, Polling DEF PollStep, Sends, Drops, Keeps, Lost
  <2>3. resume' = resume
    BY <1>5, Polling DEF PollStep, transform
  <2>4. CASE pc = "poll" /\ pc' = "return"
    BY <1>0, <2>1, <2>4, StepsOf DEF Places, Steps
  <2>5. QED BY <1>0, <1>1, <2>1, <2>2, <2>3, <2>4, PlaceOfFailure, Polling, <1>5 DEF PollStep
<1>6. CASE OtherFails
  BY <1>0, <1>6, PlaceOfFailure, Throwing DEF OtherFails, Fails, Lost
<1>7. CASE Goes
  <2>1. UNCHANGED <<backend, draining, frame>>
    BY <1>7 DEF Goes
  <2>2. CASE pc = "pump" /\ pc' = resume
    BY <1>0, <2>1, <2>2, StepsOf DEF Places, Resumes, Steps
  <2>3. CASE pc # "pump" \/ pc' = "ended"
    BY <1>0, <1>7, <2>1, <2>3, StepsOf DEF Goes, Places, Steps
  <2>4. QED BY <1>7, <2>2, <2>3 DEF Goes
<1>8. CASE Copies \/ Submits \/ Return
  BY <1>0, <1>8, StepsOf DEF Copies, Submits, Submit, Return, Places, Steps
<1>9. CASE Feed \/ FeedAgain
  <2>1. UNCHANGED <<backend, draining, frame>> /\ pc \in {"feed", "refeed"}
    BY <1>9 DEF Feed, FeedAgain
  <2>2. backend = "software" /\ ~draining
    BY <1>0, <2>1, StepsOf DEF Places, Steps
  <2>3. \/ pc' = "pump" /\ resume' \in {"idle", "refeed"}
        \/ pc' \in Lost /\ (pc' = "fallback" => backend # "software" /\ ~draining)
    BY <1>9, <2>2, Throwing DEF Feed, FeedAgain, Accept, Lost
  <2>4. CASE pc' = "pump" /\ resume' \in {"idle", "refeed"}
    BY <1>0, <2>1, <2>2, <2>4 DEF Places, Steps, Resumes
  <2>5. QED BY <1>0, <2>1, <2>3, <2>4, PlaceOfFailure
<1>10. CASE Pumps
  BY <1>1, <1>10 DEF Pumps
<1>11. CASE Takes
  <2>1. Head(events) \in {"need", "have", "drained"}
    BY <1>0, <1>11, TailOf DEF Takes, ProcessAsyncEvent, TransformOK, Event
  <2>2. backend = "hardware" /\ UNCHANGED <<backend, draining, frame>>
    BY <1>0, <1>11, StepsOf DEF Takes, ProcessAsyncEvent, Unused
  <2>3. \/ UNCHANGED <<pc, resume, worker>>
        \/ pc' = "pump" /\ resume' = pc
        \/ pc' = "collect" /\ resume' = resume
    BY <1>11, <2>1 DEF Takes, ProcessAsyncEvent
  <2>4. pc \in {"await", "collect", "drain"}
    BY <1>11 DEF Takes
  <2>5. QED BY <1>0, <1>1, <2>2, <2>3, <2>4 DEF Places, Steps, Resumes
<1>12. CASE Requested
  <2>1. UNCHANGED <<backend, draining, frame>> /\ pc = "await"
    BY <1>12 DEF Requested
  <2>2. backend = "hardware" /\ ~draining
    BY <1>0, <2>1, StepsOf DEF Places, Steps
  <2>3. \/ pc' = "collect"
        \/ pc' \in Lost /\ (pc' = "fallback" => backend # "software" /\ ~draining)
    BY <1>12, <2>2, Throwing DEF Requested, Accept, Lost
  <2>4. CASE pc' = "collect"
    BY <1>0, <2>1, <2>2, <2>4 DEF Places, Steps
  <2>5. QED BY <1>0, <2>1, <2>3, <2>4, PlaceOfFailure
<1>13. CASE Fallback
  BY <1>0, <1>13 DEF Fallback, Places, Steps
<1>14. CASE GpuCompletes \/ HardwareStep
  BY <1>1, <1>14, Still DEF transform
<1>15. CASE UNCHANGED vars
  BY <1>1, <1>15 DEF vars, transform
<1>16. QED
  BY <1>0, <1>2, <1>3, <1>4, <1>5, <1>6, <1>7, <1>8, <1>9, <1>10, <1>11, <1>12, <1>13, <1>14,
     <1>15, StepCases

\* A step of one encoder leaves what it does not use empty, and a drain ends when nothing is
\* left to send.
LEMMA NextUnused == ASSUME IInv, [Next]_vars PROVE Unused'
<1>0. WorkerOK /\ TransformOK /\ NvencOK /\ Places /\ Unused
  BY TypeParts DEF IInv
<1> USE DEF worker, nvenc, transform
<1>1. ASSUME UNCHANGED <<backend, inside, ids, pending, gpu, done, events>>,
             pc' = "drained" => pc = "drained"
      PROVE  Unused'
  BY <1>0, <1>1 DEF Unused
<1>2. ASSUME NEW f \in {frame, frame + 1}, Encode(f) PROVE Unused'
  BY <1>0, <1>1, <1>2, Backends DEF Encode, WorkerOK
<1>3. CASE Drain
  BY <1>1, <1>3 DEF Drain
<1>4. CASE Flush
  BY <1>0, <1>4 DEF Flush, Unused
<1>5. CASE PollStep
  <2>1. UNCHANGED <<backend, gpu, inside, ids, done, events>>
    BY <1>5, Polling DEF PollStep
  <2>2. pending # <<>> /\ (backend # "nvenc" => pending' = pending)
    BY <1>0, <1>5, Polling DEF PollStep, Unused
  <2>3. pc' # "drained"
    BY <1>5, Polling DEF PollStep, Sends, Drops, Keeps, Lost
  <2>4. backend = "nvenc"
    BY <1>0, <2>2 DEF Unused
  <2>5. QED BY <1>0, <2>1, <2>3, <2>4 DEF Unused
<1>6. CASE OtherFails
  BY <1>1, <1>6, Throwing DEF OtherFails, Fails
<1>7. CASE Goes
  <2>1. UNCHANGED <<backend, inside, ids, pending, gpu, done, events>>
    BY <1>7 DEF Goes
  <2>2. pc' = "drained" => pc = "drained" \/ (pending = <<>> /\ inside = <<>>)
    <3>1. CASE pc = "pump" /\ WantsMore /\ pc' = resume
      <4>1. pc' = "drained" => backend = "software" /\ draining
        BY <1>0, <3>1, StepsOf DEF Places, Resumes
      <4>2. pc' = "drained" => Len(inside) <= 0
        BY <3>1, <4>1 DEF WantsMore
      <4>3. Len(inside) \in Nat /\ (Len(inside) = 0 => inside = <<>>)
        BY <1>0, LenProperties, EmptySeq DEF TransformOK
      <4>4. QED BY <1>0, <4>1, <4>2, <4>3 DEF Unused
    <3>2. CASE pc = "collect" /\ events = <<>> /\ pc' = IF draining THEN "drained" ELSE "idle"
      <4>1. backend = "hardware"
        BY <1>0, <3>2, StepsOf DEF Places
      <4>2. pc' = "drained" => done = Len(inside) /\ ~(done > 0)
        BY <3>2, <4>1 DEF IInv, Events, ToSet
      <4>3. Len(inside) \in Nat /\ (Len(inside) = 0 => inside = <<>>)
        BY <1>0, LenProperties, EmptySeq DEF TransformOK
      <4>4. QED BY <1>0, <4>1, <4>2, <4>3 DEF Unused, TransformOK
    <3>3. CASE pc = "drain" /\ backend = "nvenc" /\ pending = <<>> /\ pc' = "drained"
      BY <1>0, <3>3 DEF Unused
    <3>4. QED BY <1>7, <3>1, <3>2, <3>3 DEF Goes
  <2>3. QED BY <1>0, <2>1, <2>2 DEF Unused
<1>8. CASE Copies \/ Return
  BY <1>1, <1>8 DEF Copies, Return
<1>9. CASE Submits
  <2>1. backend = "nvenc" /\ pc' # "drained"
    BY <1>0, <1>9, StepsOf DEF Places, Submits, Submit
  <2>2. QED BY <1>0, <1>9, <2>1 DEF Unused, Submits, Submit
<1>10. CASE Feed \/ FeedAgain \/ Requested
  <2>1. backend # "nvenc" /\ pc' # "drained"
    BY <1>0, <1>10, StepsOf, Throwing DEF Places, Feed, FeedAgain, Requested, Accept
  <2>2. QED BY <1>0, <1>10, <2>1 DEF Unused, Feed, FeedAgain, Requested
<1>11. CASE Pumps
  <2>1. backend # "nvenc" /\ pc' # "drained"
    BY <1>0, <1>11, StepsOf DEF Places, Pumps
  <2>2. QED BY <1>0, <1>11, <2>1 DEF Unused, Pumps
<1>12. CASE Takes
  <2>1. backend = "hardware"
    BY <1>0, <1>12 DEF Unused, Takes, ProcessAsyncEvent
  <2>2. Head(events) \in {"need", "have", "drained"}
    BY <1>0, <1>12, TailOf DEF Takes, ProcessAsyncEvent, TransformOK, Event
  <2>3. pc' # "drained"
    BY <1>12, <2>2 DEF Takes, ProcessAsyncEvent
  <2>4. QED BY <1>0, <1>12, <2>1, <2>3 DEF Unused, Takes, ProcessAsyncEvent
<1>13. CASE Fallback
  BY <1>13 DEF Fallback, ResetNvenc, ResetTransform, Unused
<1>14. CASE GpuCompletes
  BY <1>0, <1>14 DEF GpuCompletes, Unused
<1>15. CASE HardwareStep
  BY <1>0, <1>15 DEF HardwareStep, Unused
<1>16. CASE UNCHANGED vars
  BY <1>1, <1>16 DEF vars
<1>17. QED
  BY <1>0, <1>2, <1>3, <1>4, <1>5, <1>6, <1>7, <1>8, <1>9, <1>10, <1>11, <1>12, <1>13, <1>14,
     <1>15, <1>16, StepCases

----------------------------------------------------------------------------
(* The slots in the pipeline.                                              *)

\* The slots before a slot, counted backwards, are different from each other.
LEMMA Backwards ==
  ASSUME NEW n \in Slot
  PROVE  /\ \A k \in 1 .. SlotCount : Back(n, k) \in Slot
         /\ \A j, k \in 1 .. SlotCount : Back(n, j) = Back(n, k) => j = k
         /\ \A k \in 1 .. SlotCount - 1 : Back(n, k) # n
         /\ Back(FollowingSlot(n), 1) = n
         /\ \A k \in 1 .. SlotCount - 1 : Back(FollowingSlot(n), k + 1) = Back(n, k)
<1>1. n \in Nat /\ n < SlotCount /\ SlotCount \in Nat \ {0}
  BY Facts
<1>2. FollowingSlot(n) = IF n = SlotCount - 1 THEN 0 ELSE n + 1
  BY Following
<1>3. \A k \in 1 .. SlotCount : Back(n, k) \in Slot
  BY <1>1 DEF Back, Slot
<1>4. \A j, k \in 1 .. SlotCount : Back(n, j) = Back(n, k) => j = k
  BY <1>1 DEF Back
<1>5. \A k \in 1 .. SlotCount - 1 : Back(n, k) # n
  BY <1>1 DEF Back
<1>6. Back(FollowingSlot(n), 1) = n
  BY <1>1, <1>2 DEF Back
<1>7. \A k \in 1 .. SlotCount - 1 : Back(FollowingSlot(n), k + 1) = Back(n, k)
  BY <1>1, <1>2 DEF Back
<1>8. QED BY <1>3, <1>4, <1>5, <1>6, <1>7

\* The oldest slot leaves.
LEMMA BehindTail ==
  ASSUME NEW n \in Slot, NEW s \in Seq(Slot), Behind(n, s), s # <<>>, Len(s) <= SlotCount
  PROVE  /\ Behind(n, Tail(s))
         /\ Head(s) \notin ToSet(Tail(s)) /\ Head(s) \in ToSet(s)
             /\ ToSet(Tail(s)) \subseteq ToSet(s)
         /\ \A t \in ToSet(s) : t = Head(s) \/ t \in ToSet(Tail(s))
<1>1. /\ Head(s) = s[1] /\ Len(s) \in Nat \ {0} /\ Len(Tail(s)) = Len(s) - 1
      /\ DOMAIN Tail(s) = 1 .. Len(s) - 1 /\ DOMAIN s = 1 .. Len(s)
      /\ \A i \in 1 .. Len(s) - 1 : Tail(s)[i] = s[i + 1]
  BY TailOf
<1>2. PICK m \in Nat : Len(s) = m + 1 /\ m < SlotCount
  <2>1. Len(s) - 1 \in Nat /\ Len(s) = (Len(s) - 1) + 1 /\ Len(s) - 1 < SlotCount
    BY <1>1, Facts
  <2>2. QED BY <2>1
<1>3. /\ Len(Tail(s)) = m /\ DOMAIN Tail(s) = 1 .. m /\ DOMAIN s = 1 .. m + 1
      /\ \A i \in 1 .. m : Tail(s)[i] = s[i + 1]
  BY <1>1, <1>2
<1>4. \A i \in 1 .. m + 1 : s[i] = Back(n, (m + 1) + 1 - i)
  BY <1>2 DEF Behind
<1>5. \A i \in 1 .. m : i + 1 \in 1 .. m + 1 /\ (m + 1) + 1 - (i + 1) = m + 1 - i
  OBVIOUS
<1>6. \A i \in 1 .. m : Tail(s)[i] = Back(n, m + 1 - i)
  <2>1. TAKE i \in 1 .. m
  <2>2. i + 1 \in 1 .. m + 1 /\ (m + 1) + 1 - (i + 1) = m + 1 - i
    BY <1>5
  <2>3. Tail(s)[i] = s[i + 1] /\ s[i + 1] = Back(n, (m + 1) + 1 - (i + 1))
    BY <1>3, <1>4, <2>2
  <2>4. QED BY <2>2, <2>3
<1>7. Behind(n, Tail(s))
  BY <1>3, <1>6 DEF Behind
<1>8. \A i \in 1 .. m : Tail(s)[i] # s[1]
  <2>1. TAKE i \in 1 .. m
  <2> DEFINE k == m + 1 - i
             l == m + 1
  <2>2. k \in 1 .. SlotCount /\ l \in 1 .. SlotCount /\ k # l
    BY <1>2, Facts
  <2>3. 1 \in 1 .. m + 1 /\ (m + 1) + 1 - 1 = m + 1
    OBVIOUS
  <2>4. s[1] = Back(n, l) /\ Tail(s)[i] = Back(n, k)
    BY <1>4, <1>6, <2>3
  <2> HIDE DEF k, l
  <2>5. \A a, b \in 1 .. SlotCount : Back(n, a) = Back(n, b) => a = b
    BY Backwards
  <2>6. Back(n, k) # Back(n, l)
    BY <2>2, <2>5
  <2>7. QED BY <2>4, <2>6
<1>9. Head(s) \notin ToSet(Tail(s))
  BY <1>1, <1>3, <1>8 DEF ToSet
<1>10. Head(s) \in ToSet(s) /\ ToSet(Tail(s)) \subseteq ToSet(s)
  BY <1>1 DEF ToSet
<1>11. ASSUME NEW t \in ToSet(s) PROVE t = Head(s) \/ t \in ToSet(Tail(s))
  <2>1. PICK j \in 1 .. m + 1 : s[j] = t
    BY <1>3 DEF ToSet
  <2>2. CASE j = 1
    BY <1>1, <2>1, <2>2
  <2>3. CASE j # 1
    <3>1. j - 1 \in 1 .. m /\ (j - 1) + 1 = j
      BY <2>3
    <3>2. Tail(s)[j - 1] = t
      BY <1>3, <2>1, <3>1
    <3>3. QED BY <1>3, <3>1, <3>2 DEF ToSet
  <2>4. QED BY <2>2, <2>3
<1>12. QED BY <1>7, <1>9, <1>10, <1>11

\* The next slot enters.
LEMMA BehindAppend ==
  ASSUME NEW n \in Slot, NEW s \in Seq(Slot), Behind(n, s), Len(s) < SlotCount
  PROVE  /\ Behind(FollowingSlot(n), Append(s, n))
         /\ n \notin ToSet(s) /\ n \in ToSet(Append(s, n))
             /\ ToSet(s) \subseteq ToSet(Append(s, n))
         /\ \A t \in ToSet(Append(s, n)) : t = n \/ t \in ToSet(s)
<1>1. /\ Len(Append(s, n)) = Len(s) + 1 /\ Len(s) \in Nat
      /\ DOMAIN Append(s, n) = 1 .. Len(s) + 1 /\ DOMAIN s = 1 .. Len(s)
      /\ \A i \in 1 .. Len(s) : Append(s, n)[i] = s[i]
      /\ Append(s, n)[Len(s) + 1] = n
  BY AppendTo
<1>2. \A i \in 1 .. Len(s) : s[i] = Back(n, Len(s) + 1 - i)
  BY DEF Behind
<1>3. \A i \in 1 .. Len(s) : Len(s) + 1 - i \in 1 .. SlotCount - 1
  BY <1>1, Facts
<1>4. n \notin ToSet(s)
  BY <1>1, <1>2, <1>3, Backwards DEF ToSet
<1>5. Behind(FollowingSlot(n), Append(s, n))
  <2>1. ASSUME NEW i \in 1 .. Len(s)
        PROVE  Append(s, n)[i] = Back(FollowingSlot(n), Len(s) + 1 + 1 - i)
    <3>1. Back(FollowingSlot(n), (Len(s) + 1 - i) + 1) = Back(n, Len(s) + 1 - i)
      BY <1>3, Backwards
    <3>2. (Len(s) + 1 - i) + 1 = Len(s) + 1 + 1 - i
      BY <1>1
    <3>3. QED BY <1>1, <1>2, <3>1, <3>2
  <2>2. Append(s, n)[Len(s) + 1] = Back(FollowingSlot(n), 1)
    BY <1>1, Backwards
  <2>3. Len(s) + 1 + 1 - (Len(s) + 1) = 1
    BY <1>1
  <2>4. QED BY <1>1, <2>1, <2>2, <2>3 DEF Behind
<1>6. n \in ToSet(Append(s, n)) /\ ToSet(s) \subseteq ToSet(Append(s, n))
  BY <1>1 DEF ToSet
<1>7. \A t \in ToSet(Append(s, n)) : t = n \/ t \in ToSet(s)
  BY <1>1 DEF ToSet
<1>8. QED BY <1>4, <1>5, <1>6, <1>7

\* The slots not completed are among those in the pipeline, and the oldest of these is one
\* of them only if all are.
LEMMA BehindPart ==
  ASSUME NEW n \in Slot, NEW p \in Seq(Slot), NEW g \in Seq(Slot),
         Behind(n, p), Behind(n, g), Len(g) <= Len(p)
  PROVE  /\ ToSet(g) \subseteq ToSet(p)
         /\ g # <<>> /\ Len(g) = Len(p) => p[1] \in ToSet(g)
<1>1. /\ Len(p) \in Nat /\ Len(g) \in Nat
      /\ DOMAIN p = 1 .. Len(p) /\ DOMAIN g = 1 .. Len(g) /\ (g # <<>> => Len(g) > 0)
  BY LenProperties, EmptySeq
<1>2. /\ \A i \in 1 .. Len(p) : p[i] = Back(n, Len(p) + 1 - i)
      /\ \A i \in 1 .. Len(g) : g[i] = Back(n, Len(g) + 1 - i)
  BY DEF Behind
<1>3. ASSUME NEW i \in 1 .. Len(g) PROVE g[i] \in ToSet(p)
  <2>1. /\ Len(p) - Len(g) + i \in 1 .. Len(p)
        /\ Len(p) + 1 - (Len(p) - Len(g) + i) = Len(g) + 1 - i
    BY <1>1, <1>3
  <2>2. p[Len(p) - Len(g) + i] = g[i]
    BY <1>2, <2>1
  <2>3. QED BY <1>1, <2>1, <2>2 DEF ToSet
<1>4. ToSet(g) \subseteq ToSet(p)
  BY <1>1, <1>3 DEF ToSet
<1>5. ASSUME g # <<>>, Len(g) = Len(p) PROVE p[1] \in ToSet(g)
  <2>1. 1 \in 1 .. Len(g)
    BY <1>1, <1>5
  <2>2. p[1] = g[1]
    BY <1>2, <1>5, <2>1
  <2>3. QED BY <1>1, <2>1, <2>2 DEF ToSet
<1>6. QED BY <1>4, <1>5

\* The slots in the pipeline are slots, and those not completed are among them.
LEMMA InPipeline ==
  ASSUME NvencOK, Pipeline
  PROVE  /\ ToSet(pending) \subseteq Slot /\ ToSet(gpu) \subseteq ToSet(pending)
         /\ pending # <<>> => Oldest = Head(pending) /\ Oldest \in ToSet(pending)
<1>1. pending \in Seq(Slot) /\ gpu \in Seq(Slot)
  BY DEF NvencOK
<1>2. ToSet(pending) \subseteq Slot
  BY <1>1, LenProperties DEF ToSet
<1>3. ToSet(gpu) \subseteq ToSet(pending)
  BY <1>1, BehindPart DEF Pipeline, NvencOK
<1>4. pending # <<>> => Oldest = Head(pending) /\ Oldest \in ToSet(pending)
  BY <1>1, TailOf DEF Oldest, ToSet
<1>5. QED BY <1>2, <1>3, <1>4

\* A copy is made where the next slot is free.
LEMMA CopyRoom ==
  ASSUME IInv, [Next]_vars
  PROVE  /\ pc' = "copy" => pc = "copy" \/ (pc = "room" /\ HasRoom /\ UNCHANGED nvenc)
         /\ pc' = "submit" => (pc = "submit" /\ (PollStep \/ UNCHANGED pending)) \/ Copies
         /\ pc' \in {"copy", "submit"} => UNCHANGED frame
<1>0. WorkerOK /\ TransformOK /\ Places
  BY TypeParts DEF IInv
<1>1. CASE UNCHANGED <<pc, frame, pending>>
  BY <1>1
<1>2. ASSUME NEW f \in {frame, frame + 1}, Encode(f) PROVE pc' \notin {"copy", "submit"}
  BY <1>0, <1>2, Backends DEF Encode, WorkerOK
<1>3. CASE Drain \/ Flush \/ OtherFails \/ Return \/ Feed \/ FeedAgain \/ Requested \/ Fallback
  <2>1. pc' \notin {"copy", "submit"}
    BY <1>3, Throwing DEF Drain, Flush, OtherFails, Fails, Return, Feed, FeedAgain, Requested,
       Fallback, Accept
  <2>2. QED BY <2>1
<1>4. CASE PollStep
  BY <1>4, Polling DEF PollStep, Sends, Drops, Keeps, Lost, worker
<1>5. CASE Goes
  <2>1. CASE pc = "pump" /\ pc' = resume
    BY <1>0, <2>1, StepsOf DEF Places, WorkerOK
  <2>2. CASE pc # "pump" \/ pc' = "ended"
    BY <1>5, <2>2 DEF Goes, worker
  <2>3. QED BY <1>5, <2>1, <2>2 DEF Goes
<1>6. CASE Copies
  BY <1>6 DEF Copies, worker
<1>7. CASE Submits
  BY <1>7 DEF Submits, Submit
<1>8. CASE Takes
  <2>1. Head(events) \in {"need", "have", "drained"}
    BY <1>0, <1>8, TailOf DEF Takes, ProcessAsyncEvent, TransformOK, Event
  <2>2. pc' \notin {"copy", "submit"}
    BY <1>8, <2>1 DEF Takes, ProcessAsyncEvent
  <2>3. QED BY <2>2
<1>9. CASE GpuCompletes \/ Pumps \/ HardwareStep \/ UNCHANGED vars
  <2>1. UNCHANGED <<pc, frame, pending>>
    BY <1>9, Still DEF worker, nvenc, vars
  <2>2. QED BY <1>1, <2>1
<1>10. QED
  BY <1>0, <1>2, <1>3, <1>4, <1>5, <1>6, <1>7, <1>8, <1>9, StepCases

\* A step keeps the slots in turn and their contents in step with their ids.
LEMMA NextPipeline == ASSUME IInv, [Next]_vars PROVE Pipeline'
<1>0. NvencOK /\ WorkerOK /\ Pipeline /\ Places
  BY TypeParts DEF IInv
<1>1. /\ pending \in Seq(Slot) /\ gpu \in Seq(Slot) /\ nextSlot \in Slot
      /\ slots \in [Slot -> SlotState]
  BY <1>0 DEF NvencOK
<1>2. /\ Behind(nextSlot, pending) /\ Behind(nextSlot, gpu)
      /\ Len(gpu) <= Len(pending) /\ Len(pending) <= SlotCount
      /\ Len(gpu) \in Nat /\ Len(pending) \in Nat
  BY <1>0, <1>1, LenProperties DEF Pipeline
<1>3. /\ ToSet(pending) \subseteq Slot /\ ToSet(gpu) \subseteq ToSet(pending)
      /\ pending # <<>> => Oldest = Head(pending) /\ Oldest \in ToSet(pending)
  BY <1>0, InPipeline
<1>4. /\ \A s \in Slot : slots[s].event => s \in ToSet(pending) /\ s \notin ToSet(gpu)
      /\ \A s \in ToSet(gpu) : slots[s].input = slots[s].out.id
      /\ \A s \in ToSet(pending) : s \in ToSet(gpu) \/ slots[s].out.pix = slots[s].out.id
  BY <1>0 DEF Pipeline
<1>5. ASSUME UNCHANGED nvenc PROVE Pipeline'
  <2>1. pc' \in {"copy", "submit"} => Len(pending) < SlotCount
    <3>1. Copies => pc = "copy"
      BY DEF Copies
    <3>2. QED BY <1>0, <3>1, CopyRoom DEF Pipeline, HasRoom
  <2>2. pc' = "submit" => slots'[nextSlot].input = frame'
    <3>1. Copies => slots'[nextSlot].input = frame'
      BY <1>1 DEF Copies, worker, SlotState
    <3>2. QED BY <1>0, <1>5, <3>1, CopyRoom DEF Pipeline, nvenc
  <2>3. QED BY <1>0, <1>5, <2>1, <2>2 DEF Pipeline, nvenc
<1>6. CASE PollStep
  <2>1. pending # <<>> /\ UNCHANGED <<nextSlot, gpu, frame>>
    BY <1>6, Polling DEF PollStep, worker
  <2>2. Oldest = Head(pending) /\ Oldest \in Slot
    BY <1>3, <2>1
  <2>3. CASE Keeps
    <3>1. pending' = pending
      BY <2>3 DEF Keeps
    <3>2. \A s \in Slot : (slots'[s].event => slots[s].event)
                          /\ slots'[s].input = slots[s].input /\ slots'[s].out = slots[s].out
      <4>1. CASE slots' = [slots EXCEPT ![Oldest].event = FALSE]
        BY <1>1, <2>2, <4>1 DEF SlotState
      <4>2. CASE slots' = slots
        BY <4>2
      <4>3. QED BY <2>3, <4>1, <4>2 DEF Keeps
    <3>3. pc' \in {"copy", "submit"} => pc' = pc
      BY <1>6, <2>3 DEF Keeps, Lost, PollStep
    <3>4. QED BY <1>0, <1>1, <1>3, <2>1, <3>1, <3>2, <3>3 DEF Pipeline
  <2>4. CASE slots[Oldest].event /\ (Sends \/ Drops)
    <3>1. pending' = Tail(pending) /\ slots' = [slots EXCEPT ![Oldest].event = FALSE]
      BY <2>4 DEF Sends, Drops
    <3>2. /\ slots'[Oldest].event = FALSE
          /\ \A s \in Slot : (slots'[s].event => slots[s].event)
                             /\ slots'[s].input = slots[s].input /\ slots'[s].out = slots[s].out
      BY <1>1, <2>2, <3>1 DEF SlotState
    <3>3. pc' \in {"copy", "submit"} => pc' = pc
      BY <2>4 DEF Sends, Drops
    <3>4. Oldest \notin ToSet(gpu)
      BY <1>4, <2>2, <2>4
    <3>5. /\ Behind(nextSlot, Tail(pending))
          /\ Oldest \notin ToSet(Tail(pending)) /\ ToSet(Tail(pending)) \subseteq ToSet(pending)
          /\ \A t \in ToSet(pending) : t = Oldest \/ t \in ToSet(Tail(pending))
      BY <1>1, <1>2, <2>1, <2>2, BehindTail
    <3>6. Len(Tail(pending)) = Len(pending) - 1 /\ Len(pending) > 0
      BY <1>1, <2>1, TailOf
    <3>7. Len(gpu) <= Len(Tail(pending))
      <4>1. CASE gpu = <<>>
        BY <1>2, <3>6, <4>1, EmptySeq
      <4>2. CASE gpu # <<>>
        <5>1. Len(gpu) # Len(pending)
          BY <1>1, <1>2, <3>4, <4>2, BehindPart DEF Oldest
        <5>2. QED BY <1>2, <3>6, <5>1
      <4>3. QED BY <4>1, <4>2
    <3>8. \A s \in Slot : slots'[s].event => s \in ToSet(pending') /\ s \notin ToSet(gpu')
      BY <1>4, <2>1, <3>1, <3>2, <3>5
    <3>9. /\ \A s \in ToSet(gpu') : slots'[s].input = slots'[s].out.id
          /\ \A s \in ToSet(pending') : s \in ToSet(gpu')
              \/ slots'[s].out.pix = slots'[s].out.id
      BY <1>3, <1>4, <2>1, <3>1, <3>2, <3>5
    <3>10. pc' \in {"copy", "submit"} => Len(pending') < SlotCount
      BY <1>2, <3>1, <3>6, Facts
    <3>11. pc' = "submit" => slots'[nextSlot'].input = frame'
      BY <1>0, <1>1, <2>1, <3>2, <3>3 DEF Pipeline
    <3>12. Len(pending') <= SlotCount
      BY <1>2, <3>1, <3>6, Facts
    <3>13. QED
      BY <1>2, <2>1, <3>1, <3>5, <3>7, <3>8, <3>9, <3>10, <3>11, <3>12 DEF Pipeline
  <2>5. QED BY <1>6, <2>3, <2>4, Polling DEF PollStep
<1>7. CASE Copies
  <2>1. UNCHANGED <<pending, nextSlot, gpu, frame>> /\ pc = "copy" /\ pc' = "submit"
    BY <1>7 DEF Copies, worker
  <2>2. Len(pending) < SlotCount
    BY <1>0, <2>1 DEF Pipeline
  <2>3. nextSlot \notin ToSet(pending)
    BY <1>1, <1>2, <2>2, BehindAppend
  <2>4. /\ slots'[nextSlot].input = frame
        /\ \A s \in Slot : slots'[s].event = slots[s].event /\ slots'[s].out = slots[s].out
                           /\ (s # nextSlot => slots'[s].input = slots[s].input)
    BY <1>1, <1>7 DEF Copies, SlotState
  <2>5. QED BY <1>2, <1>3, <1>4, <2>1, <2>2, <2>3, <2>4 DEF Pipeline
<1>8. CASE Submits
  <2> DEFINE u == [id |-> frame, pix |-> 0, key |-> IsKey(count), seq |-> count]
  <2>1. /\ pc = "submit" /\ pc' \in {"poll", "return"} /\ UNCHANGED worker
        /\ slots' = [slots EXCEPT ![nextSlot].out = u]
        /\ pending' = Append(pending, nextSlot) /\ gpu' = Append(gpu, nextSlot)
        /\ nextSlot' = FollowingSlot(nextSlot)
    BY <1>8 DEF Submits, Submit
  <2>2. Len(pending) < SlotCount /\ slots[nextSlot].input = frame
    BY <1>0, <2>1 DEF Pipeline
  <2>3. /\ Behind(FollowingSlot(nextSlot), Append(pending, nextSlot))
        /\ nextSlot \notin ToSet(pending) /\ nextSlot \in ToSet(Append(pending, nextSlot))
        /\ ToSet(pending) \subseteq ToSet(Append(pending, nextSlot))
        /\ \A t \in ToSet(Append(pending, nextSlot)) : t = nextSlot \/ t \in ToSet(pending)
    BY <1>1, <1>2, <2>2, BehindAppend
  <2>4. Len(gpu) < SlotCount
    BY <1>2, <2>2, Facts
  <2>5. /\ Behind(FollowingSlot(nextSlot), Append(gpu, nextSlot))
        /\ nextSlot \in ToSet(Append(gpu, nextSlot))
        /\ ToSet(gpu) \subseteq ToSet(Append(gpu, nextSlot))
        /\ \A t \in ToSet(Append(gpu, nextSlot)) : t = nextSlot \/ t \in ToSet(gpu)
    BY <1>1, <1>2, <2>4, BehindAppend
  <2>6. Len(Append(pending, nextSlot)) = Len(pending) + 1
            /\ Len(Append(gpu, nextSlot)) = Len(gpu) + 1
    BY <1>1, AppendTo
  <2>7. /\ slots'[nextSlot].out.id = frame
        /\ \A s \in Slot : slots'[s].event = slots[s].event /\ slots'[s].input = slots[s].input
                           /\ (s # nextSlot => slots'[s].out = slots[s].out)
    BY <1>1, <2>1 DEF SlotState
  <2> HIDE DEF u
  <2>8. \A s \in Slot : slots'[s].event => s \in ToSet(pending') /\ s \notin ToSet(gpu')
    BY <1>4, <2>1, <2>3, <2>5, <2>7
  <2>9. \A s \in ToSet(gpu') : slots'[s].input = slots'[s].out.id
    BY <1>1, <1>3, <1>4, <2>1, <2>2, <2>3, <2>5, <2>7
  <2>10. \A s \in ToSet(pending') : s \in ToSet(gpu') \/ slots'[s].out.pix = slots'[s].out.id
    BY <1>3, <1>4, <2>1, <2>3, <2>5, <2>7
  <2>11. Len(gpu') <= Len(pending') /\ Len(pending') <= SlotCount
    BY <1>2, <2>1, <2>2, <2>6, Facts
  <2>12. QED BY <2>1, <2>3, <2>5, <2>8, <2>9, <2>10, <2>11 DEF Pipeline
<1>9. CASE GpuCompletes
  <2> DEFINE h == Head(gpu)
  <2>1. /\ gpu # <<>> /\ gpu' = Tail(gpu) /\ UNCHANGED <<pc, frame, pending, nextSlot>>
        /\ slots' = [slots EXCEPT ![h].out.pix = slots[h].input, ![h].event = TRUE]
    BY <1>9 DEF GpuCompletes, worker
  <2>2. Len(gpu) <= SlotCount
    BY <1>2, Facts
  <2>3. /\ Behind(nextSlot, Tail(gpu))
        /\ h \notin ToSet(Tail(gpu)) /\ h \in ToSet(gpu)
            /\ ToSet(Tail(gpu)) \subseteq ToSet(gpu)
        /\ \A t \in ToSet(gpu) : t = h \/ t \in ToSet(Tail(gpu))
    BY <1>1, <1>2, <2>1, <2>2, BehindTail
  <2>4. Len(Tail(gpu)) = Len(gpu) - 1
    BY <1>1, <2>1, TailOf
  <2>5. h \in Slot
    BY <1>3, <2>3
  <2>6. /\ slots'[h].event /\ slots'[h].out.pix = slots[h].input
        /\ \A s \in Slot : s # h => slots'[s] = slots[s]
        /\ \A s \in Slot : slots'[s].input = slots[s].input
            /\ slots'[s].out.id = slots[s].out.id
    BY <1>1, <2>1, <2>5 DEF SlotState, Unit
  <2> HIDE DEF h
  <2>7. \A s \in Slot : slots'[s].event => s \in ToSet(pending') /\ s \notin ToSet(gpu')
    BY <1>3, <1>4, <2>1, <2>3, <2>6
  <2>8. \A s \in ToSet(gpu') : slots'[s].input = slots'[s].out.id
    <3>1. TAKE s \in ToSet(gpu')
    <3>2. s \in ToSet(gpu) /\ s \in Slot
      BY <1>3, <2>1, <2>3, <3>1
    <3>3. slots'[s].input = slots[s].input /\ slots'[s].out.id = slots[s].out.id
      BY <2>6, <3>2
    <3>4. QED BY <1>4, <3>2, <3>3
  <2>9. \A s \in ToSet(pending') : s \in ToSet(gpu') \/ slots'[s].out.pix = slots'[s].out.id
    <3>1. TAKE s \in ToSet(pending')
    <3>2. s \in ToSet(pending) /\ s \in Slot
      BY <1>3, <2>1, <3>1
    <3>3. CASE s = h
      BY <1>4, <2>3, <2>5, <2>6, <3>3
    <3>4. CASE s # h
      BY <1>4, <2>1, <2>3, <2>6, <3>2, <3>4
    <3>5. QED BY <3>3, <3>4
  <2>10. Len(gpu') <= Len(pending') /\ Len(pending') <= SlotCount
    BY <1>2, <2>1, <2>4
  <2>11. pc' = "submit" => slots'[nextSlot'].input = frame'
    BY <1>0, <1>1, <2>1, <2>6 DEF Pipeline
  <2>12. pc' \in {"copy", "submit"} => Len(pending') < SlotCount
    BY <1>0, <2>1 DEF Pipeline
  <2>13. QED BY <1>2, <2>1, <2>3, <2>7, <2>8, <2>9, <2>10, <2>11, <2>12 DEF Pipeline
<1>10. CASE Fallback
  <2>1. /\ pending' = <<>> /\ gpu' = <<>> /\ nextSlot' = 0 /\ pc' \in {"feed", "ended"}
        /\ slots' = [s \in Slot |-> EmptySlot]
    BY <1>10 DEF Fallback, ResetNvenc
  <2>2. Len(<<>>) = 0 /\ ToSet(<<>>) = {}
    BY DEF ToSet
  <2>3. QED BY <2>1, <2>2, Empty, Facts DEF Pipeline, Behind
<1>11. QED
  BY <1>0, <1>5, <1>6, <1>7, <1>8, <1>9, <1>10, StepCases, Still DEF vars, nvenc

----------------------------------------------------------------------------
(* The events of the hardware transform.                                   *)

\* What is in a sequence when an element enters or leaves.
LEMMA InSequence ==
  ASSUME NEW S, NEW s \in Seq(S)
  PROVE  /\ \A e \in S : /\ e \in ToSet(Append(s, e)) /\ ToSet(s) \subseteq ToSet(Append(s, e))
                         /\ \A t \in ToSet(Append(s, e)) : t = e \/ t \in ToSet(s)
         /\ s # <<>> => /\ ToSet(Tail(s)) \subseteq ToSet(s)
                        /\ \A t \in ToSet(s) : t = Head(s) \/ t \in ToSet(Tail(s))
                        /\ Head(s) \in ToSet(s)
<1>1. ASSUME NEW e \in S
      PROVE  /\ e \in ToSet(Append(s, e)) /\ ToSet(s) \subseteq ToSet(Append(s, e))
             /\ \A t \in ToSet(Append(s, e)) : t = e \/ t \in ToSet(s)
  <2>1. /\ DOMAIN Append(s, e) = 1 .. Len(s) + 1 /\ DOMAIN s = 1 .. Len(s) /\ Len(s) \in Nat
        /\ \A i \in 1 .. Len(s) : Append(s, e)[i] = s[i]
        /\ Append(s, e)[Len(s) + 1] = e
    BY AppendTo
  <2>2. QED BY <2>1 DEF ToSet
<1>2. ASSUME s # <<>>
      PROVE  /\ ToSet(Tail(s)) \subseteq ToSet(s) /\ Head(s) \in ToSet(s)
             /\ \A t \in ToSet(s) : t = Head(s) \/ t \in ToSet(Tail(s))
  <2>1. /\ Head(s) = s[1] /\ Len(s) \in Nat \ {0}
        /\ DOMAIN Tail(s) = 1 .. Len(s) - 1 /\ DOMAIN s = 1 .. Len(s)
        /\ \A i \in 1 .. Len(s) - 1 : Tail(s)[i] = s[i + 1]
    BY <1>2, TailOf
  <2>2. ToSet(Tail(s)) \subseteq ToSet(s) /\ Head(s) \in ToSet(s)
    BY <2>1 DEF ToSet
  <2>3. ASSUME NEW t \in ToSet(s) PROVE t = Head(s) \/ t \in ToSet(Tail(s))
    <3>1. PICK j \in 1 .. Len(s) : s[j] = t
      BY <2>1 DEF ToSet
    <3>2. CASE j = 1
      BY <2>1, <3>1, <3>2
    <3>3. CASE j # 1
      <4>1. j - 1 \in 1 .. Len(s) - 1 /\ (j - 1) + 1 = j
        BY <2>1, <3>3
      <4>2. Tail(s)[j - 1] = t
        BY <2>1, <3>1, <4>1
      <4>3. QED BY <2>1, <4>1, <4>2 DEF ToSet
    <3>4. QED BY <3>2, <3>3
  <2>4. QED BY <2>2, <2>3
<1>3. QED BY <1>1, <1>2

\* The hardware transform asks for no more than it has room for.
LEMMA NextRequests ==
  ASSUME IInv, [Next]_vars PROVE (requests + Cardinality(NeedsQueued) <= Latency + 1)'
<1>0. TransformOK /\ WorkerOK /\ requests \in Nat
  BY TypeParts DEF IInv, TransformOK
<1> DEFINE n == Cardinality(NeedsQueued)
           m == Cardinality(NeedsQueued')
<1>1. requests + n <= Latency + 1 /\ n \in Nat
  BY <1>0, NeedFirst DEF IInv, Events
<1>2. UNCHANGED events => m = n
  BY DEF NeedsQueued
<1>3. UNCHANGED <<events, requests>> => requests' + m <= Latency + 1
  BY <1>1, <1>2
<1>4. CASE Takes
  <2>1. events # <<>> /\ events' = Tail(events)
    BY <1>4 DEF Takes, ProcessAsyncEvent
  <2>2. m \in Nat /\ n = m + IF Head(events) = "need" THEN 1 ELSE 0
    BY <1>0, <2>1, NeedFirst
  <2>3. Head(events) \in Event
    BY <1>0, <2>1, TailOf DEF TransformOK
  <2>4. requests' = requests + IF Head(events) = "need" THEN 1 ELSE 0
    <3>1. CASE Head(events) = "need"
      BY <1>4, <3>1 DEF Takes, ProcessAsyncEvent
    <3>2. CASE Head(events) \in {"have", "drained"}
      <4>1. requests' = requests
        BY <1>4, <3>2 DEF Takes, ProcessAsyncEvent
      <4>2. QED BY <1>0, <3>2, <4>1
    <3>3. QED BY <2>3, <3>1, <3>2 DEF Event
  <2> HIDE DEF n, m
  <2>5. requests' + m <= Latency + 1
    BY <1>0, <1>1, <2>2, <2>4, Facts
  <2>6. QED BY <2>5 DEF m
<1>5. CASE Requested
  <2>1. requests' = requests - 1 /\ requests > 0 /\ m = n
    BY <1>2, <1>5 DEF Requested
  <2> HIDE DEF n, m
  <2>2. requests' + m <= Latency + 1
    BY <1>0, <1>1, <2>1, Facts
  <2>3. QED BY <2>2 DEF m
<1>6. CASE Fallback
  <2>1. requests' = 0 /\ events' = <<>>
    BY <1>6 DEF Fallback, ResetTransform
  <2>2. NeedsQueued' = {}
    BY <2>1 DEF NeedsQueued
  <2>3. QED BY <2>1, <2>2, FS_EmptySet, Facts
<1>7. CASE HardwareStep
  <2>1. UNCHANGED requests
    BY <1>7 DEF HardwareStep
  <2>2. CASE AsksForInput
    <3>1. Len(inside) + requests + n <= Latency /\ Len(inside) \in Nat
      BY <1>0, <2>2, LenProperties DEF AsksForInput, TransformOK
    <3>2. m = n + 1
      BY <1>0, <2>2, NeedFirst DEF AsksForInput, Event
    <3> HIDE DEF n, m
    <3>3. requests' + m <= Latency + 1
      BY <1>0, <1>1, <2>1, <3>1, <3>2, Facts
    <3>4. QED BY <3>3 DEF m
  <2>3. CASE FinishesUnit \/ FinishesDrain
    <3>1. m = n + 0
      BY <1>0, <2>3, NeedFirst DEF FinishesUnit, FinishesDrain, Event
    <3> HIDE DEF n, m
    <3>2. requests' + m <= Latency + 1
      BY <1>0, <1>1, <2>1, <3>1, Facts
    <3>3. QED BY <3>2 DEF m
  <2>4. QED BY <1>7, <2>2, <2>3 DEF HardwareStep
<1>8. QED
  <2>1. Takes \/ Requested \/ Fallback \/ HardwareStep \/ UNCHANGED <<events, requests>>
    <3>1. Feed \/ FeedAgain => UNCHANGED <<events, requests>>
      BY DEF Feed, FeedAgain
    <3>2. QED BY <1>0, <3>1, StepCases, Still DEF transform, vars
  <2>2. QED BY <1>3, <1>4, <1>5, <1>6, <1>7, <2>1

\* The other parts of Events.
LEMMA NextEvents == ASSUME IInv, [Next]_vars PROVE Events'
<1>0. TransformOK /\ WorkerOK /\ Events /\ Places /\ Unused /\ events \in Seq(Event)
  BY TypeParts DEF IInv, TransformOK
<1>00. /\ done \in Nat /\ Len(inside) \in Nat /\ done <= Len(inside)
       /\ done > 0 => pc \in {"pump", "fallback", "ended"} \/ "have" \in ToSet(events)
       /\ "drained" \in ToSet(events) => draining
       /\ draining /\ backend = "hardware" /\ pc # "ended"
          /\ ("drained" \in ToSet(events) \/ pc = "collect"
              \/ (pc = "pump" /\ resume = "collect"))
            => done = Len(inside)
  BY <1>0, LenProperties DEF TransformOK, Events
<1> DEFINE AtEnd == "drained" \in ToSet(events) \/ pc = "collect"
               \/ (pc = "pump" /\ resume = "collect")
           Haves == done > 0 => pc \in {"pump", "fallback", "ended"} \/ "have" \in ToSet(events)
           Ends == "drained" \in ToSet(events) => draining
           All  == draining /\ backend = "hardware" /\ pc # "ended" /\ AtEnd
               => done = Len(inside)
<1>1. SUFFICES Haves' /\ Ends' /\ All'
  BY NextRequests DEF Events
<1>2. ASSUME UNCHANGED <<done, events, draining, inside, backend, pc, resume>>
      PROVE  Haves' /\ Ends' /\ All'
  BY <1>00, <1>2
<1>3. ASSUME UNCHANGED <<done, events>>, ~draining, ~draining', pc # "pump" \/ done = 0,
             pc # "fallback", pc # "ended"
      PROVE  Haves' /\ Ends' /\ All'
  BY <1>00, <1>3
<1> USE DEF worker, transform
<1>4. CASE \E f \in {frame, frame + 1} : Encode(f)
  <2>1. UNCHANGED <<done, events, draining>> /\ pc = "idle"
    BY <1>4 DEF Encode
  <2>2. ~draining
    BY <1>0, <2>1 DEF Places
  <2>3. QED BY <1>3, <2>1, <2>2
<1>5. CASE Drain
  <2>1. UNCHANGED <<done, events, backend, inside>> /\ pc = "idle" /\ draining'
    BY <1>5 DEF Drain
  <2>2. ~draining /\ "drained" \notin ToSet(events)
    BY <1>0, <1>00, <2>1 DEF Places
  <2>3. backend = "hardware" => pc' = "drain"
    BY <1>5 DEF Drain
  <2>4. QED BY <1>00, <2>1, <2>2, <2>3
<1>6. CASE Flush
  BY <1>00, <1>6 DEF Flush
<1>7. CASE PollStep \/ Copies \/ Submits \/ Return \/ GpuCompletes
  <2>1. UNCHANGED <<done, events, draining, inside, backend>>
    BY <1>7, Still, Polling
  <2>2. backend = "nvenc" \/ UNCHANGED <<pc, resume>>
    BY <1>0, <1>7, StepsOf, Polling, Still DEF Places, PollStep, Copies, Submits, Return, Unused
  <2>3. backend = "nvenc" => done = 0 /\ events = <<>>
    BY <1>0 DEF Unused
  <2>4. QED BY <1>2, <1>00, <2>1, <2>2, <2>3
<1>8. CASE OtherFails
  <2>1. UNCHANGED <<done, events, draining, inside, backend>> /\ pc' \in {"fallback", "ended"}
        /\ (pc' = "fallback" => ~draining)
    BY <1>8, Throwing DEF OtherFails, Fails
  <2>2. QED BY <1>00, <2>1
<1>9. CASE Goes
  <2>1. UNCHANGED <<done, events, draining, inside, backend, resume>>
    BY <1>9 DEF Goes
  <2>2. CASE pc' = "ended"
    BY <1>00, <2>1, <2>2
  <2>3. CASE pc = "pump" /\ WantsMore /\ pc' = resume
    <3>1. done = 0
      BY <1>0, <2>3 DEF WantsMore, Unused
    <3>2. QED BY <1>00, <2>1, <2>3, <3>1
  <2>4. CASE pc \in {"room", "poll", "drain"} /\ pc' \in {"copy", "return", "drained"}
    BY <1>00, <2>1, <2>4
  <2>5. CASE pc = "collect" /\ pc' \in {"drained", "idle"}
    BY <1>00, <2>1, <2>5
  <2>6. QED BY <1>9, <2>2, <2>3, <2>4, <2>5 DEF Goes
<1>10. CASE Feed \/ FeedAgain
  <2>1. backend = "software" /\ UNCHANGED <<done, events, draining, backend>> /\ ~draining
    BY <1>0, <1>10, StepsOf DEF Places, Feed, FeedAgain
  <2>2. QED BY <1>0, <1>00, <2>1 DEF Unused
<1>11. CASE Pumps
  <2>1. UNCHANGED <<pc, resume, events, draining, backend>> /\ pc = "pump"
            /\ inside' = Tail(inside)
        /\ HasOutput /\ done' = IF backend = "hardware" THEN done - 1 ELSE done
    BY <1>11 DEF Pumps
  <2>2. inside # <<>> => Len(Tail(inside)) = Len(inside) - 1
    BY <1>0, TailOf DEF TransformOK
  <2>3. backend = "hardware" => inside # <<>> /\ done > 0
    BY <1>00, <2>1 DEF HasOutput
  <2>4. QED BY <1>00, <2>1, <2>2, <2>3
<1>12. CASE Takes
  <2>1. /\ pc \in {"await", "collect", "drain"} /\ events # <<>> /\ events' = Tail(events)
        /\ UNCHANGED <<draining, backend, inside, done>>
    BY <1>12 DEF Takes, ProcessAsyncEvent
  <2>2. Head(events) \in {"need", "have", "drained"}
    BY <1>0, <2>1, TailOf DEF Event
  <2>3. /\ ToSet(Tail(events)) \subseteq ToSet(events)
        /\ \A t \in ToSet(events) : t = Head(events) \/ t \in ToSet(Tail(events))
        /\ Head(events) \in ToSet(events)
    BY <1>0, <2>1, InSequence
  <2>4. /\ Head(events) = "need" => UNCHANGED <<pc, resume>>
        /\ Head(events) = "have" => pc' = "pump" /\ resume' = pc
        /\ Head(events) = "drained" => pc' = "collect"
    BY <1>12 DEF Takes, ProcessAsyncEvent
  <2>5. Haves'
    BY <1>00, <2>1, <2>2, <2>3, <2>4
  <2>6. Ends'
    BY <1>00, <2>1, <2>3
  <2>7. All'
    BY <1>00, <2>1, <2>2, <2>3, <2>4
  <2>8. QED BY <2>5, <2>6, <2>7
<1>13. CASE Requested
  <2>1. UNCHANGED <<done, events, draining>> /\ pc = "await"
    BY <1>13 DEF Requested
  <2>2. ~draining
    BY <1>0, <2>1 DEF Places
  <2>3. QED BY <1>3, <2>1, <2>2
<1>14. CASE Fallback
  BY <1>0, <1>14 DEF Fallback, ResetTransform, Places, ToSet
<1>15. CASE HardwareStep
  <2>1. UNCHANGED <<pc, draining, backend, resume, inside>> /\ pc # "ended"
    BY <1>15 DEF HardwareStep
  <2>2. \A e \in Event : events' = Append(events, e) =>
          /\ e \in ToSet(events') /\ ToSet(events) \subseteq ToSet(events')
          /\ \A t \in ToSet(events') : t = e \/ t \in ToSet(events)
    BY <1>0, InSequence
  <2>3. CASE AsksForInput
    <3>1. ~draining /\ UNCHANGED done /\ events' = Append(events, "need") /\ "need" \in Event
      BY <2>3 DEF AsksForInput, Event
    <3>2. QED BY <1>00, <2>1, <2>2, <3>1
  <2>4. CASE FinishesUnit
    <3>1. done < Len(inside) /\ events' = Append(events, "have") /\ "have" \in Event
      BY <2>4 DEF FinishesUnit, Event
    <3>2. QED BY <1>00, <1>15, <2>1, <2>2, <3>1 DEF HardwareStep
  <2>5. CASE FinishesDrain
    <3>1. pc = "drain" /\ UNCHANGED done /\ done = Len(inside)
          /\ events' = Append(events, "drained") /\ "drained" \in Event
      BY <2>5 DEF FinishesDrain, Event
    <3>2. draining
      BY <1>0, <3>1 DEF Places
    <3>3. QED BY <1>00, <2>1, <2>2, <3>1, <3>2
  <2>6. QED BY <1>15, <2>3, <2>4, <2>5 DEF HardwareStep
<1>16. CASE UNCHANGED vars
  BY <1>2, <1>16 DEF vars
<1>17. QED
  BY <1>0, <1>4, <1>5, <1>6, <1>7, <1>8, <1>9, <1>10, <1>11, <1>12, <1>13, <1>14,
     <1>15, <1>16, StepCases

----------------------------------------------------------------------------
(* The ids that wait for a transform.                                      *)

\* Ids and frames leave together.
LEMMA PairedTail ==
  ASSUME NEW S, NEW T, NEW s \in Seq(S), NEW t \in Seq(T), NEW more \in {0, 1}, NEW f,
         Paired(s, t, more, f), t # <<>>
  PROVE  s # <<>> /\ Head(s) = Head(t).pix /\ Paired(Tail(s), Tail(t), more, f)
<1>1. /\ Len(t) \in Nat \ {0} /\ Head(t) = t[1] /\ Len(Tail(t)) = Len(t) - 1
      /\ \A i \in 1 .. Len(t) - 1 : Tail(t)[i] = t[i + 1]
  BY TailOf
<1>2. /\ Len(s) = Len(t) + more /\ \A i \in 1 .. Len(t) : s[i] = t[i].pix
      /\ more = 1 => s[Len(s)] = f
  BY DEF Paired
<1>3. Len(s) # 0 /\ s # <<>>
  BY <1>1, <1>2, EmptySeq
<1>4. /\ Head(s) = s[1] /\ Len(Tail(s)) = Len(s) - 1
      /\ \A i \in 1 .. Len(s) - 1 : Tail(s)[i] = s[i + 1]
  BY <1>3, TailOf
<1>5. PICK n \in Nat : Len(t) = n + 1
  <2>1. Len(t) - 1 \in Nat /\ Len(t) = (Len(t) - 1) + 1
    BY <1>1
  <2>2. QED BY <2>1
<1>6. Len(Tail(t)) = n /\ Len(Tail(s)) = n + more /\ Len(s) = n + more + 1
  BY <1>1, <1>2, <1>4, <1>5
<1>7. \A i \in 1 .. n : Tail(s)[i] = Tail(t)[i].pix
  <2>1. TAKE i \in 1 .. n
  <2>2. i + 1 \in 1 .. n + 1 /\ i \in 1 .. n + more
    OBVIOUS
  <2>3. Tail(t)[i] = t[i + 1] /\ Tail(s)[i] = s[i + 1] /\ s[i + 1] = t[i + 1].pix
    BY <1>1, <1>2, <1>4, <1>5, <1>6, <2>2
  <2>4. QED BY <2>3
<1>8. ASSUME more = 1 PROVE Tail(s)[n + 1] = f
  <2>1. n + 1 \in 1 .. n + more
    BY <1>8
  <2>2. Tail(s)[n + 1] = s[n + 1 + 1]
    BY <1>4, <1>6, <2>1
  <2>3. QED BY <1>2, <1>6, <1>8, <2>2
<1>9. Head(s) = Head(t).pix
  BY <1>1, <1>2, <1>4
<1>10. QED BY <1>3, <1>6, <1>7, <1>8, <1>9 DEF Paired

\* An id and its frame enter, one behind the other or both at once.
LEMMA PairedAppend ==
  ASSUME NEW S, NEW T, NEW s \in Seq(S), NEW t \in Seq(T), NEW f \in S, NEW g, NEW u \in T,
      u.pix = f
  PROVE  /\ Paired(s, t, 0, g) => /\ Paired(Append(s, f), t, 1, f)
                                  /\ Paired(Append(s, f), Append(t, u), 0, f)
         /\ Paired(s, t, 1, f) => Paired(s, Append(t, u), 0, f)
<1>1. /\ Len(Append(s, f)) = Len(s) + 1 /\ Len(s) \in Nat
      /\ \A i \in 1 .. Len(s) : Append(s, f)[i] = s[i]
      /\ Append(s, f)[Len(s) + 1] = f
  BY AppendTo
<1>2. /\ Len(Append(t, u)) = Len(t) + 1 /\ Len(t) \in Nat
      /\ \A i \in 1 .. Len(t) : Append(t, u)[i] = t[i]
      /\ Append(t, u)[Len(t) + 1] = u
  BY AppendTo
<1>3. ASSUME Paired(s, t, 0, g) PROVE Paired(Append(s, f), t, 1, f)
  BY <1>1, <1>2, <1>3 DEF Paired
<1>4. ASSUME Paired(s, t, 0, g) PROVE Paired(Append(s, f), Append(t, u), 0, f)
  <2>1. Len(s) = Len(t) /\ \A i \in 1 .. Len(t) : s[i] = t[i].pix
    BY <1>2, <1>4 DEF Paired
  <2>2. \A i \in 1 .. Len(t) + 1 : i \in 1 .. Len(t) \/ i = Len(t) + 1
    BY <1>2
  <2>3. \A i \in 1 .. Len(t) + 1 : Append(s, f)[i] = Append(t, u)[i].pix
    BY <1>1, <1>2, <2>1, <2>2
  <2>4. QED BY <1>1, <1>2, <2>1, <2>3 DEF Paired
<1>5. ASSUME Paired(s, t, 1, f) PROVE Paired(s, Append(t, u), 0, f)
  <2>1. Len(s) = Len(t) + 1 /\ s[Len(t) + 1] = f /\ \A i \in 1 .. Len(t) : s[i] = t[i].pix
    BY <1>2, <1>5 DEF Paired
  <2>2. \A i \in 1 .. Len(t) + 1 : i \in 1 .. Len(t) \/ i = Len(t) + 1
    BY <1>2
  <2>3. \A i \in 1 .. Len(t) + 1 : s[i] = Append(t, u)[i].pix
    BY <1>1, <1>2, <2>1, <2>2
  <2>4. QED BY <1>1, <1>2, <2>1, <2>3 DEF Paired
<1>6. QED BY <1>3, <1>4, <1>5

\* An output that can be had shows the frame it is sent under.
LEMMA Completed ==
  ASSUME NvencOK, Pipeline, pending # <<>>, slots[Oldest].event
  PROVE  Oldest \in Slot /\ Oldest = Head(pending)
      /\ slots[Oldest].out.id = slots[Oldest].out.pix
BY InPipeline DEF Pipeline

\* What is sent shows the frame it is sent under.
LEMMA NextSent == ASSUME IInv, [Next]_vars PROVE last'.id = last'.pix
<1>0. NvencOK /\ WorkerOK /\ TransformOK /\ Pipeline /\ InStep
  BY TypeParts DEF IInv
<1>1. UNCHANGED last => last'.id = last'.pix
  BY <1>0 DEF InStep
<1>2. CASE PollStep
  BY <1>0, <1>1, <1>2, Polling, Completed DEF PollStep, Sends, Drops, Keeps
<1>3. CASE Pumps
  <2>1. Paired(ids, inside, OneMore, frame) /\ OneMore \in {0, 1}
    BY <1>0, <1>3 DEF Pumps, InStep, Lost, OneMore
  <2>2. inside \in Seq(Inside) /\ ids \in Seq(0 .. MaxFrames) /\ inside # <<>>
    BY <1>0, <1>3, EmptySeq DEF Pumps, HasOutput, TransformOK
  <2>3. ids # <<>> /\ Head(ids) = Head(inside).pix
    BY <2>1, <2>2, PairedTail
  <2>4. last'.id = OldestId /\ last'.pix = Head(inside).pix
    BY <1>3 DEF Pumps
  <2>5. QED BY <2>3, <2>4 DEF OldestId
<1>4. QED BY <1>0, <1>1, <1>2, <1>3, StepCases, Still DEF vars

\* A step keeps the ids in step with the frames in the transform.
LEMMA NextInStep == ASSUME IInv, [Next]_vars PROVE InStep'
<1>0. WorkerOK /\ TransformOK /\ InStep /\ Places /\ Unused
  BY TypeParts DEF IInv
<1>1. inside \in Seq(Inside) /\ ids \in Seq(0 .. MaxFrames) /\ frame \in 0 .. MaxFrames
  BY <1>0 DEF WorkerOK, TransformOK
<1>2. pc \notin Lost => Paired(ids, inside, OneMore, frame)
  BY <1>0 DEF InStep
<1>3. SUFFICES ASSUME pc' \notin Lost PROVE Paired(ids', inside', OneMore', frame')
  BY NextSent DEF InStep
<1>4. ASSUME UNCHANGED <<ids, inside>>, pc \notin Lost, OneMore' = OneMore,
             UNCHANGED frame \/ OneMore = 0
      PROVE  Paired(ids', inside', OneMore', frame')
  BY <1>2, <1>4 DEF Paired
<1> USE DEF worker, transform
<1>5. ASSUME UNCHANGED <<ids, inside>>, pc \notin Lost, pc \notin {"pump", "refeed"},
             pc' = "refeed" => FALSE, pc' = "pump" => resume' # "refeed"
      PROVE  Paired(ids', inside', OneMore', frame')
  BY <1>4, <1>5 DEF OneMore
<1>6. CASE \E f \in {frame, frame + 1} : Encode(f)
  BY <1>0, <1>5, <1>6, Backends DEF Encode, Lost, WorkerOK
<1>7. CASE Drain
  BY <1>5, <1>7 DEF Drain, Lost
<1>8. CASE PollStep
  <2>1. UNCHANGED <<ids, inside>> /\ pc \in {"room", "submit", "poll", "drain"}
    BY <1>8, Polling DEF PollStep
  <2>2. pc' \in {"room", "submit", "poll", "drain", "return"}
    BY <1>3, <1>8, Polling DEF PollStep, Sends, Drops, Keeps, Lost
  <2>3. QED BY <1>5, <2>1, <2>2 DEF Lost
<1>9. CASE Flush \/ OtherFails
  BY <1>3, <1>9, Throwing DEF Flush, OtherFails, Fails, Lost
<1>10. CASE Goes
  <2>1. UNCHANGED <<ids, inside, frame, resume>>
    BY <1>10 DEF Goes
  <2>2. CASE pc = "pump" /\ pc' = resume
    BY <1>0, <1>4, <2>1, <2>2 DEF OneMore, Lost, WorkerOK
  <2>3. CASE pc \in {"room", "poll", "drain", "collect"}
            /\ pc' \in {"copy", "return", "drained", "idle"}
    BY <1>5, <2>1, <2>3 DEF Lost
  <2>4. QED BY <1>3, <1>10, <2>2, <2>3 DEF Goes, Lost
<1>11. CASE Copies \/ Submits \/ Return
  BY <1>5, <1>11 DEF Copies, Submits, Submit, Return, Lost
<1>12. CASE GpuCompletes \/ HardwareStep \/ UNCHANGED vars
  <2>1. UNCHANGED <<ids, inside, frame, pc, resume>>
    BY <1>12, Still DEF vars
  <2>2. QED BY <1>3, <1>4, <2>1 DEF OneMore
<1>13. CASE Takes
  <2>1. Head(events) \in {"need", "have", "drained"}
    BY <1>0, <1>13, TailOf DEF Takes, ProcessAsyncEvent, TransformOK, Event
  <2>2. /\ UNCHANGED <<ids, inside>> /\ pc \in {"await", "collect", "drain"}
        /\ pc' = pc \/ (pc' = "pump" /\ resume' = pc) \/ pc' = "collect"
    BY <1>13, <2>1 DEF Takes, ProcessAsyncEvent
  <2>3. QED BY <1>5, <2>2 DEF Lost
<1> DEFINE u == [pix |-> frame, key |-> count = 0, seq |-> count]
<1>14. u \in Inside /\ u.pix = frame
  BY <1>0 DEF Inside, WorkerOK
<1>15. CASE Feed \/ Requested
  <2>1. ids' = Append(ids, frame) /\ frame' = frame /\ pc \in {"feed", "await"}
    BY <1>15 DEF Feed, Requested
  <2>2. Paired(ids, inside, 0, frame)
    BY <1>2, <2>1 DEF OneMore, Lost
  <2>3. \/ inside' = Append(inside, u) /\ OneMore' = 0
        \/ inside' = inside /\ OneMore' = 1
    <3>1. CASE Feed
      BY <1>3, <3>1, Throwing DEF Feed, Accept, OneMore, Lost
    <3>2. CASE Requested
      <4>1. backend = "hardware"
        BY <1>0, <3>2, StepsOf DEF Places, Requested
      <4>2. QED BY <1>3, <3>2, <4>1, Throwing DEF Requested, Accept, OneMore, Lost
    <3>3. QED BY <1>15, <3>1, <3>2
  <2> HIDE DEF u
  <2>4. /\ Paired(Append(ids, frame), inside, 1, frame)
        /\ Paired(Append(ids, frame), Append(inside, u), 0, frame)
    BY <1>1, <1>14, <2>2, PairedAppend
  <2>5. QED BY <2>1, <2>3, <2>4
<1>16. CASE FeedAgain
  <2>1. ids' = ids /\ frame' = frame /\ pc = "refeed"
    BY <1>16 DEF FeedAgain
  <2>2. Paired(ids, inside, 1, frame)
    BY <1>2, <2>1 DEF OneMore, Lost
  <2>3. inside' = Append(inside, u) /\ OneMore' = 0
    BY <1>3, <1>16, Throwing DEF FeedAgain, Accept, OneMore, Lost
  <2> HIDE DEF u
  <2>4. Paired(ids, Append(inside, u), 0, frame)
    BY <1>1, <1>14, <2>2, PairedAppend
  <2>5. QED BY <2>1, <2>3, <2>4
<1>17. CASE Pumps
  <2>1. /\ pc = "pump" /\ UNCHANGED <<pc, resume, frame>> /\ inside' = Tail(inside)
        /\ ids' = IF ids = <<>> THEN ids ELSE Tail(ids)
    BY <1>17 DEF Pumps
  <2>2. inside # <<>>
    BY <1>0, <1>17, EmptySeq DEF Pumps, HasOutput, TransformOK
  <2>3. Paired(ids, inside, OneMore, frame) /\ OneMore \in {0, 1} /\ OneMore' = OneMore
    BY <1>2, <2>1 DEF OneMore, Lost
  <2>4. ids # <<>> /\ Paired(Tail(ids), Tail(inside), OneMore, frame)
    BY <1>1, <2>2, <2>3, PairedTail
  <2>5. QED BY <2>1, <2>3, <2>4
<1>18. CASE Fallback
  <2>1. ids' = <<>> /\ inside' = <<>> /\ OneMore' = 0
    BY <1>3, <1>18 DEF Fallback, ResetTransform, OneMore, Lost
  <2>2. Len(<<>>) = 0
    BY EmptySeq
  <2>3. QED BY <2>1, <2>2 DEF Paired
<1>19. QED
  BY <1>0, <1>6, <1>7, <1>8, <1>9, <1>10, <1>11, <1>12, <1>13, <1>15, <1>16, <1>17, <1>18,
     StepCases

----------------------------------------------------------------------------
(* The units made and not sent.                                            *)

\* The oldest unit leaves.
LEMMA LinkedTail ==
  ASSUME NEW u, NEW w, NEW x, NEW n \in Nat, n > 0, Linked(u, w, n),
         \A i \in 1 .. n - 1 : x[i] = w[i + 1]
  PROVE  /\ Linked(w[1], x, n - 1) /\ Newer(w[1], x, n - 1) = Newer(u, w, n)
         /\ Follows(u, w[1])
<1>1. PICK m \in Nat : n = m + 1
  <2>1. n - 1 \in Nat /\ n = (n - 1) + 1
    OBVIOUS
  <2>2. QED BY <2>1
<1>2. /\ \A i \in 1 .. m : x[i] = w[i + 1] /\ Follows(w[i], w[i + 1])
      /\ Follows(u, w[1])
  BY <1>1 DEF Linked
<1>3. Linked(w[1], x, m)
  <2>1. m > 0 => Follows(w[1], x[1])
    BY <1>2
  <2>2. ASSUME NEW i \in 1 .. m - 1 PROVE Follows(x[i], x[i + 1])
    <3>1. i \in 1 .. m /\ i + 1 \in 1 .. m
      BY <2>2
    <3>2. x[i] = w[i + 1] /\ x[i + 1] = w[i + 1 + 1] /\ Follows(w[i + 1], w[i + 1 + 1])
      BY <1>2, <3>1
    <3>3. QED BY <3>2
  <2>3. QED BY <2>1, <2>2 DEF Linked
<1>4. Newer(w[1], x, m) = w[m + 1]
  BY <1>2 DEF Newer
<1>5. QED BY <1>1, <1>2, <1>3, <1>4 DEF Newer

\* A unit that follows the newest one enters.
LEMMA LinkedAppend ==
  ASSUME NEW u, NEW w, NEW x, NEW n \in Nat, NEW e, Linked(u, w, n),
         \A i \in 1 .. n : x[i] = w[i], x[n + 1] = e, Follows(Newer(u, w, n), e)
  PROVE  Linked(u, x, n + 1) /\ Newer(u, x, n + 1) = e
<1>1. n + 1 > 0 => Follows(u, x[1])
  BY DEF Linked, Newer
<1>2. ASSUME NEW i \in 1 .. n PROVE Follows(x[i], x[i + 1])
  <2>1. CASE i = n
    BY <2>1 DEF Newer
  <2>2. CASE i < n
    <3>1. i \in 1 .. n - 1 /\ i + 1 \in 1 .. n
      BY <2>2
    <3>2. QED BY <3>1 DEF Linked
  <2>3. QED BY <2>1, <2>2
<1>3. n + 1 - 1 = n
  OBVIOUS
<1>4. QED BY <1>1, <1>2, <1>3 DEF Linked, Newer

\* Nothing enters or leaves.
LEMMA LinkedSame ==
  ASSUME NEW u, NEW w, NEW x, NEW n \in Nat, Linked(u, w, n), \A i \in 1 .. n : x[i] = w[i]
  PROVE  Linked(u, x, n) /\ Newer(u, x, n) = Newer(u, w, n)
<1>1. n > 0 => Follows(u, x[1])
  BY DEF Linked
<1>2. ASSUME NEW i \in 1 .. n - 1 PROVE Follows(x[i], x[i + 1])
  <2>1. i \in 1 .. n /\ i + 1 \in 1 .. n
    BY <1>2
  <2>2. QED BY <1>2, <2>1 DEF Linked
<1>3. QED BY <1>1, <1>2 DEF Linked, Newer

\* The units on their way are those of the slots in the pipeline or of the transform.
LEMMA OnWayAt ==
  /\ backend = "nvenc" => /\ WayLen = Len(pending)
                          /\ \A i \in 1 .. Len(pending) : OnWay[i] = OfUnit(slots[pending[i]].out)
  /\ backend # "nvenc" => /\ WayLen = Len(inside)
                          /\ \A i \in 1 .. Len(inside) : OnWay[i] = OfFrame(inside[i])
BY DEF OnWay, WayLen

\* The same after a step.
LEMMA OnWayNext ==
  /\ backend' = "nvenc" => /\ WayLen' = Len(pending')
                           /\ \A i \in 1 .. Len(pending') :
                                (OnWay')[i] = OfUnit(slots'[pending'[i]].out)
  /\ backend' # "nvenc" => /\ WayLen' = Len(inside')
                           /\ \A i \in 1 .. Len(inside') : (OnWay')[i] = OfFrame(inside'[i])
BY DEF OnWay, WayLen, OfUnit, OfFrame

\* How the units on their way change: not at all, the oldest is sent, or one enters.
Kept == LastSent' = LastSent /\ WayLen' = WayLen
    /\ \A i \in 1 .. WayLen : (OnWay')[i] = OnWay[i]
Sent ==
  /\ WayLen > 0 /\ WayLen' = WayLen - 1 /\ LastSent' = OnWay[1]
  /\ \A i \in 1 .. WayLen - 1 : (OnWay')[i] = OnWay[i + 1]
Added ==
  /\ LastSent' = LastSent /\ WayLen' = WayLen + 1
  /\ \A i \in 1 .. WayLen : (OnWay')[i] = OnWay[i]
  /\ \E key \in BOOLEAN : /\ (OnWay')[WayLen + 1] = [id |-> frame, key |-> key, seq |-> count]
                          /\ count = 0 => key

\* Steps that leave the outputs of the slots and the transform alone.
LEMMA KeptBy ==
  ASSUME UNCHANGED <<backend, last>>,
         backend = "nvenc" => /\ pending' = pending
                              /\ \A s \in ToSet(pending) : OfUnit(slots'[s].out) = OfUnit(slots[s].out),
         backend # "nvenc" => inside' = inside,
         pending \in Seq(Slot)
  PROVE  Kept
<1>1. LastSent' = LastSent
  BY DEF LastSent, OfUnit
<1>2. CASE backend = "nvenc"
  <2>1. \A i \in 1 .. Len(pending) : pending[i] \in ToSet(pending)
    BY LenProperties DEF ToSet
  <2>2. \A i \in 1 .. Len(pending) :
          OfUnit(slots'[pending'[i]].out) = OfUnit(slots[pending[i]].out)
    BY <1>2, <2>1
  <2>3. QED BY <1>1, <1>2, <2>2, OnWayAt, OnWayNext DEF Kept
<1>3. CASE backend # "nvenc"
  BY <1>1, <1>3, OnWayAt, OnWayNext DEF Kept
<1>4. QED BY <1>2, <1>3

\* An output is sent, or looked for in vain.
LEMMA WayOfPoll ==
  ASSUME IInv, PollStep
  PROVE  /\ pc' \notin Lost => Kept \/ Sent
         /\ last' = last \/ (WayLen > 0 /\ LastSent' = OnWay[1])
<1>0. NvencOK /\ WorkerOK /\ Pipeline /\ Unused
  BY TypeParts DEF IInv
<1>1. /\ pending # <<>> /\ UNCHANGED backend
      /\ (slots[Oldest].event /\ (Sends \/ Drops)) \/ Keeps
  BY Polling DEF PollStep, worker
<1>2. pending \in Seq(Slot) /\ slots \in [Slot -> SlotState]
  BY <1>0 DEF NvencOK
<1>3. backend = "nvenc" /\ Oldest = pending[1] /\ Oldest \in Slot
  BY <1>0, <1>1, InPipeline DEF Unused, Oldest
<1>4. \A s \in Slot : slots'[s].out = slots[s].out
  <2>1. CASE slots' = [slots EXCEPT ![Oldest].event = FALSE]
    BY <1>2, <1>3, <2>1 DEF SlotState
  <2>2. QED BY <1>1, <2>1 DEF Keeps, Sends, Drops
<1>5. /\ Len(pending) \in Nat \ {0} /\ Len(Tail(pending)) = Len(pending) - 1
      /\ \A i \in 1 .. Len(pending) - 1 : Tail(pending)[i] = pending[i + 1]
      /\ \A i \in 1 .. Len(pending) : pending[i] \in Slot
  BY <1>1, <1>2, TailOf, ElementOfSeq
<1>6. WayLen = Len(pending) /\ OnWay[1] = OfUnit(slots[Oldest].out)
  BY <1>3, <1>5, OnWayAt
<1>7. last' = last \/ (WayLen > 0 /\ LastSent' = OnWay[1])
  <2>1. last' = last \/ last' = slots[Oldest].out
    BY <1>1 DEF Keeps, Sends, Drops
  <2>2. last' = slots[Oldest].out => LastSent' = OfUnit(slots[Oldest].out)
    BY DEF LastSent, OfUnit
  <2>3. QED BY <1>5, <1>6, <2>1, <2>2
<1>8. ASSUME pc' \notin Lost PROVE Kept \/ Sent
  <2>1. CASE Keeps
    <3>1. last' = last /\ pending' = pending
      BY <1>8, <2>1 DEF Keeps
    <3>2. \A s \in ToSet(pending) : OfUnit(slots'[s].out) = OfUnit(slots[s].out)
      BY <1>0, <1>4, InPipeline
    <3>3. Kept
      BY <1>1, <1>2, <1>3, <3>1, <3>2, KeptBy
    <3>4. QED BY <3>3
  <2>2. CASE Sends
    <3>1. LastSent' = OfUnit(slots[Oldest].out) /\ pending' = Tail(pending)
      BY <2>2 DEF Sends, LastSent, OfUnit
    <3>2. WayLen' = WayLen - 1
      BY <1>1, <1>3, <1>5, <1>6, <3>1, OnWayNext
    <3>3. ASSUME NEW i \in 1 .. WayLen - 1 PROVE (OnWay')[i] = OnWay[i + 1]
      <4>1. i \in 1 .. Len(pending') /\ i + 1 \in 1 .. Len(pending)
                /\ pending'[i] = pending[i + 1]
        BY <1>5, <1>6, <3>1, <3>3
      <4>2. (OnWay')[i] = OfUnit(slots'[pending'[i]].out)
        BY <1>1, <1>3, <4>1, OnWayNext
      <4>3. OnWay[i + 1] = OfUnit(slots[pending[i + 1]].out)
        BY <1>3, <4>1, OnWayAt
      <4>4. QED BY <1>4, <1>5, <4>1, <4>2, <4>3
    <3>4. QED BY <1>5, <1>6, <3>1, <3>2, <3>3 DEF Sent
  <2>3. QED BY <1>1, <1>8, <2>1, <2>2 DEF Drops, Lost
<1>9. QED BY <1>7, <1>8

\* A picture enters the pipeline.
LEMMA WayOfSubmit == ASSUME IInv, Submits PROVE Added
<1>0. NvencOK /\ WorkerOK /\ Pipeline /\ Places /\ Unused
  BY TypeParts DEF IInv
<1> DEFINE u == [id |-> frame, pix |-> 0, key |-> IsKey(count), seq |-> count]
<1>1. /\ pc = "submit" /\ UNCHANGED <<backend, last>>
      /\ slots' = [slots EXCEPT ![nextSlot].out = u] /\ pending' = Append(pending, nextSlot)
  BY DEF Submits, Submit, worker
<1>2. /\ pending \in Seq(Slot) /\ slots \in [Slot -> SlotState] /\ nextSlot \in Slot
      /\ Behind(nextSlot, pending) /\ Len(pending) < SlotCount
  BY <1>0, <1>1 DEF NvencOK, Pipeline
<1>3. backend = "nvenc"
  BY <1>0, <1>1, StepsOf DEF Places
<1>4. /\ Len(Append(pending, nextSlot)) = Len(pending) + 1 /\ Len(pending) \in Nat
      /\ \A i \in 1 .. Len(pending) : Append(pending, nextSlot)[i] = pending[i]
      /\ Append(pending, nextSlot)[Len(pending) + 1] = nextSlot
  BY <1>2, AppendTo
<1>5. /\ slots'[nextSlot].out = u
      /\ \A s \in Slot \ {nextSlot} : slots'[s].out = slots[s].out
  BY <1>1, <1>2 DEF SlotState
<1>6. nextSlot \notin ToSet(pending)
  BY <1>2, BehindAppend
<1>7. \A i \in 1 .. Len(pending) : pending[i] \in Slot \ {nextSlot}
  BY <1>2, <1>6, LenProperties, ElementOfSeq DEF ToSet
<1>8. OfUnit(u) = [id |-> frame, key |-> IsKey(count), seq |-> count]
  BY DEF OfUnit
<1> HIDE DEF u
<1>9. WayLen = Len(pending) /\ WayLen' = Len(pending) + 1
  BY <1>1, <1>3, <1>4, OnWayAt, OnWayNext
<1>10. ASSUME NEW i \in 1 .. Len(pending) PROVE (OnWay')[i] = OnWay[i]
  <2>1. i \in 1 .. Len(pending') /\ pending'[i] = pending[i]
    BY <1>1, <1>4, <1>10
  <2>2. (OnWay')[i] = OfUnit(slots'[pending[i]].out)
    BY <1>1, <1>3, <2>1, OnWayNext
  <2>3. OnWay[i] = OfUnit(slots[pending[i]].out)
    BY <1>3, OnWayAt
  <2>4. QED BY <1>5, <1>7, <2>2, <2>3
<1>11. (OnWay')[Len(pending) + 1] = OfUnit(u)
  <2>1. Len(pending) + 1 \in 1 .. Len(pending') /\ pending'[Len(pending) + 1] = nextSlot
    BY <1>1, <1>4
  <2>2. (OnWay')[Len(pending) + 1] = OfUnit(slots'[nextSlot].out)
    BY <1>1, <1>3, <2>1, OnWayNext
  <2>3. QED BY <1>5, <2>2
<1>12. LastSent' = LastSent
  BY <1>1 DEF LastSent, OfUnit
<1>13. IsKey(count) \in BOOLEAN /\ (count = 0 => IsKey(count))
  <2>1. 0 % KeyInterval = 0
    BY Facts
  <2>2. QED BY <2>1 DEF IsKey
<1>14. QED BY <1>8, <1>9, <1>10, <1>11, <1>12, <1>13 DEF Added

\* A transform accepts a frame, or does not.
LEMMA WayOfFrame ==
  ASSUME IInv, Feed \/ FeedAgain \/ Requested
  PROVE  /\ UNCHANGED <<inside, last>> => Kept
         /\ \A at : Accept(at) => Added
<1>0. NvencOK /\ TransformOK /\ WorkerOK /\ Places
  BY TypeParts DEF IInv
<1>1. UNCHANGED <<backend, last>> /\ pc \in {"feed", "refeed", "await"}
  BY DEF Feed, FeedAgain, Requested
<1>2. backend # "nvenc"
  BY <1>0, <1>1, StepsOf DEF Places
<1>3. inside' = inside => Kept
  BY <1>0, <1>1, <1>2, KeptBy DEF NvencOK
<1>4. ASSUME NEW at, Accept(at) PROVE Added
  <2> DEFINE u == [pix |-> frame, key |-> count = 0, seq |-> count]
  <2>1. inside' = Append(inside, u)
    BY <1>4 DEF Accept
  <2>2. u \in Inside /\ inside \in Seq(Inside)
    BY <1>0 DEF Inside, WorkerOK, TransformOK
  <2>3. OfFrame(u) = [id |-> frame, key |-> count = 0, seq |-> count]
    BY DEF OfFrame
  <2> HIDE DEF u
  <2>4. /\ Len(Append(inside, u)) = Len(inside) + 1 /\ Len(inside) \in Nat
        /\ \A i \in 1 .. Len(inside) : Append(inside, u)[i] = inside[i]
        /\ Append(inside, u)[Len(inside) + 1] = u
    BY <2>2, AppendTo
  <2>5. WayLen = Len(inside) /\ WayLen' = Len(inside) + 1
    BY <1>1, <1>2, <2>1, <2>4, OnWayAt, OnWayNext
  <2>6. ASSUME NEW i \in 1 .. Len(inside) PROVE (OnWay')[i] = OnWay[i]
    <3>1. i \in 1 .. Len(inside') /\ inside'[i] = inside[i]
      BY <2>1, <2>4, <2>6
    <3>2. (OnWay')[i] = OfFrame(inside'[i]) /\ OnWay[i] = OfFrame(inside[i])
      BY <1>1, <1>2, <3>1, OnWayAt, OnWayNext
    <3>3. QED BY <3>1, <3>2
  <2>7. (OnWay')[Len(inside) + 1] = OfFrame(u)
    <3>1. Len(inside) + 1 \in 1 .. Len(inside') /\ inside'[Len(inside) + 1] = u
      BY <2>1, <2>4
    <3>2. (OnWay')[Len(inside) + 1] = OfFrame(inside'[Len(inside) + 1])
      BY <1>1, <1>2, <3>1, OnWayNext
    <3>3. QED BY <3>1, <3>2
  <2>8. LastSent' = LastSent
    BY <1>1 DEF LastSent, OfUnit
  <2>9. QED
    <3>1. (count = 0) \in BOOLEAN /\ (count = 0 => (count = 0))
      OBVIOUS
    <3>2. QED BY <2>3, <2>5, <2>6, <2>7, <2>8, <3>1 DEF Added
<1>5. QED BY <1>1, <1>3, <1>4

\* An output of a transform is sent.
LEMMA WayOfPump == ASSUME IInv, Pumps PROVE Sent
<1>0. TransformOK /\ WorkerOK /\ Places /\ InStep
  BY TypeParts DEF IInv
<1>1. /\ pc = "pump" /\ UNCHANGED backend /\ inside' = Tail(inside)
      /\ last' = [id |-> OldestId, pix |-> Head(inside).pix, key |-> Head(inside).key,
                  seq |-> Head(inside).seq]
  BY DEF Pumps, worker
<1>2. backend # "nvenc"
  BY <1>0, <1>1, StepsOf DEF Places
<1>3. inside \in Seq(Inside) /\ ids \in Seq(0 .. MaxFrames) /\ inside # <<>>
  BY <1>0, EmptySeq DEF Pumps, HasOutput, TransformOK
<1>4. Paired(ids, inside, OneMore, frame) /\ OneMore \in {0, 1}
  BY <1>0, <1>1 DEF InStep, Lost, OneMore
<1>5. ids # <<>> /\ Head(ids) = Head(inside).pix
  BY <1>3, <1>4, PairedTail
<1>6. LastSent' = OfFrame(Head(inside))
  BY <1>1, <1>5 DEF LastSent, OfUnit, OfFrame, OldestId
<1>7. /\ Len(inside) \in Nat \ {0} /\ Len(Tail(inside)) = Len(inside) - 1
          /\ Head(inside) = inside[1]
      /\ \A i \in 1 .. Len(inside) - 1 : Tail(inside)[i] = inside[i + 1]
  BY <1>3, TailOf
<1>8. WayLen = Len(inside) /\ WayLen' = Len(inside) - 1 /\ OnWay[1] = OfFrame(inside[1])
  BY <1>1, <1>2, <1>7, OnWayAt, OnWayNext
<1>9. ASSUME NEW i \in 1 .. Len(inside) - 1 PROVE (OnWay')[i] = OnWay[i + 1]
  <2>1. i \in 1 .. Len(inside') /\ i + 1 \in 1 .. Len(inside) /\ inside'[i] = inside[i + 1]
    BY <1>1, <1>7, <1>9
  <2>2. (OnWay')[i] = OfFrame(inside'[i]) /\ OnWay[i + 1] = OfFrame(inside[i + 1])
    BY <1>1, <1>2, <2>1, OnWayAt, OnWayNext
  <2>3. QED BY <2>1, <2>2
<1>10. QED BY <1>6, <1>7, <1>8, <1>9 DEF Sent

\* What a step that gives the encoder no frame does to the worker.
Spoken == {"poll", "return"}
Onward ==
  /\ frame' \in {frame, frame + 1}
  /\ pc' \in Spoken => pc \in Spoken /\ count' = count
  /\ pc' \notin Spoken =>
       (pc \notin Spoken /\ count' = count) \/ (pc = "return" /\ count' = NextCount(count))
  /\ Given' => Given /\ frame' = frame

\* What a step that gives it a frame does.
Entering ==
  /\ frame' = frame /\ frame > 0 /\ pc \notin Spoken
  /\ pc' \in Spoken => count' = count
  /\ pc' \notin Spoken => count' = NextCount(count)

\* Steps that change neither the count nor, in a way that matters, the place.
LEMMA OnwardBy ==
  ASSUME UNCHANGED <<frame, count>>,
         pc' \in Spoken => pc \in Spoken, pc \in Spoken => pc' \in Spoken, Given' => Given
  PROVE  Onward
BY DEF Onward

\* Every step either gives the encoder a frame, or moves it on, or falls back.
LEMMA WayStep ==
  ASSUME IInv, [Next]_vars, pc' \notin Lost
  PROVE  \/ pc \notin Lost /\ Onward /\ (Kept \/ Sent)
         \/ pc \notin Lost /\ Entering /\ Added
         \/ Fallback
<1>0. NvencOK /\ TransformOK /\ WorkerOK /\ Pipeline /\ Places /\ Unused /\ Events
  BY TypeParts DEF IInv
<1>1. ASSUME UNCHANGED <<backend, last, pending, inside>>,
             \A s \in Slot : OfUnit(slots'[s].out) = OfUnit(slots[s].out)
      PROVE  Kept
  BY <1>0, <1>1, KeptBy, InPipeline DEF NvencOK
<1> USE DEF worker, nvenc, transform
<1>2. UNCHANGED <<backend, last, nvenc, inside>> => Kept
  BY <1>1
<1>3. CASE \E f \in {frame, frame + 1} : Encode(f)
  <2>1. pc = "idle" /\ UNCHANGED <<backend, last, nvenc, inside, count>>
            /\ frame' \in {frame, frame + 1}
    BY <1>3 DEF Encode
  <2>2. pc' \in {"room", "await", "feed"}
    BY <1>0, <1>3, Backends DEF Encode, WorkerOK
  <2>3. QED BY <1>2, <2>1, <2>2 DEF Onward, Spoken, Given, Entered, Lost
<1>4. CASE Drain
  <2>1. /\ pc = "idle" /\ UNCHANGED <<backend, last, nvenc, inside, count, frame>>
        /\ pc' = "drain" \/ (pc' = "pump" /\ resume' = "drained")
    BY <1>4 DEF Drain
  <2>2. QED BY <1>2, <2>1, OnwardBy DEF Spoken, Given, Entered, Lost
<1>5. CASE Flush \/ OtherFails
  BY <1>5, Throwing DEF Flush, OtherFails, Fails, Lost
<1>6. CASE PollStep
  <2>1. /\ pc \in {"room", "submit", "poll", "drain"} /\ UNCHANGED <<frame, count>>
        /\ pc' = pc \/ (pc = "poll" /\ pc' = "return")
    BY <1>6, Polling DEF PollStep, Sends, Drops, Keeps, Lost
  <2>2. QED BY <1>0, <1>6, <2>1, OnwardBy, WayOfPoll DEF Spoken, Given, Entered, Lost
<1>7. CASE Goes
  <2>1. UNCHANGED <<backend, last, nvenc, inside, frame, count, resume>>
    BY <1>7 DEF Goes
  <2>2. CASE pc = "pump" /\ pc' = resume
    BY <1>0, <1>2, <2>1, <2>2, OnwardBy DEF Spoken, Given, Entered, Lost, WorkerOK
  <2>3. CASE pc = "room" /\ pc' = "copy"
    BY <1>2, <2>1, <2>3, OnwardBy DEF Spoken, Given, Entered, Lost
  <2>4. CASE \/ pc = "poll" /\ pc' = "return"
             \/ pc \in {"drain", "collect"} /\ pc' \in {"drained", "idle"}
    BY <1>2, <2>1, <2>4, OnwardBy DEF Spoken, Given, Entered, Lost
  <2>5. QED BY <1>7, <2>2, <2>3, <2>4 DEF Goes, Lost
<1>8. CASE Copies
  <2>1. /\ pc = "copy" /\ pc' = "submit" /\ slots' = [slots EXCEPT ![nextSlot].input = frame]
        /\ UNCHANGED <<backend, last, pending, inside, frame, count>>
    BY <1>8 DEF Copies
  <2>2. \A s \in Slot : slots'[s].out = slots[s].out
    BY <1>0, <2>1 DEF NvencOK, SlotState
  <2>3. QED BY <1>1, <2>1, <2>2, OnwardBy DEF Spoken, Given, Entered, Lost
<1>9. CASE Submits
  <2>1. pc = "submit" /\ pc' \in {"poll", "return"} /\ UNCHANGED <<frame, count>>
    BY <1>9 DEF Submits, Submit
  <2>2. frame > 0
    BY <1>0, <2>1 DEF Places, WorkerOK
  <2>3. QED BY <1>9, <2>1, <2>2, WayOfSubmit DEF Entering, Spoken, Lost
<1>10. CASE Return
  <2>1. pc = "return" /\ pc' = "idle" /\ count' = NextCount(count)
        /\ UNCHANGED <<backend, last, nvenc, inside, frame>>
    BY <1>10 DEF Return
  <2>2. QED BY <1>2, <2>1 DEF Onward, Spoken, Given, Entered, Lost
<1>11. CASE GpuCompletes
  <2> DEFINE h == Head(gpu)
  <2>1. /\ gpu # <<>> /\ UNCHANGED <<pc, backend, last, pending, inside, frame, count, resume>>
        /\ slots' = [slots EXCEPT ![h].out.pix = slots[h].input, ![h].event = TRUE]
    BY <1>11 DEF GpuCompletes
  <2>2. h \in Slot
    BY <1>0, <2>1, TailOf DEF NvencOK
  <2> HIDE DEF h
  <2>3. \A s \in Slot : OfUnit(slots'[s].out) = OfUnit(slots[s].out)
    BY <1>0, <2>1, <2>2 DEF NvencOK, SlotState, OfUnit, Unit
  <2>4. Given' = Given
    BY <2>1 DEF Given
  <2>5. QED BY <1>1, <2>1, <2>3, <2>4, OnwardBy
<1>12. CASE Feed \/ FeedAgain \/ Requested
  <2>1. pc \in {"feed", "refeed", "await"} /\ UNCHANGED <<frame, last>>
    BY <1>12 DEF Feed, FeedAgain, Requested
  <2>2. frame > 0
    BY <1>0, <2>1 DEF Places, WorkerOK
  <2>3. \/ pc' = "pump" /\ resume' = "refeed" /\ UNCHANGED <<inside, count>>
        \/ /\ \E at : Accept(at)
           /\ pc' \in {"pump", "idle", "collect"} /\ count' = NextCount(count)
    BY <1>12, Throwing DEF Feed, FeedAgain, Requested, Accept, Lost
  <2>4. CASE pc' = "pump" /\ resume' = "refeed" /\ UNCHANGED <<inside, count>>
    BY <1>12, <2>1, <2>4, OnwardBy, WayOfFrame DEF Spoken, Given, Entered, Lost
  <2>5. CASE /\ \E at : Accept(at)
             /\ pc' \in {"pump", "idle", "collect"} /\ count' = NextCount(count)
    BY <1>12, <2>1, <2>2, <2>5, WayOfFrame DEF Entering, Spoken, Lost
  <2>6. QED BY <2>3, <2>4, <2>5
<1>13. CASE Pumps
  <2>1. UNCHANGED <<pc, resume, frame, count>>
    BY <1>13 DEF Pumps
  <2>2. Given' = Given
    BY <2>1 DEF Given
  <2>3. QED BY <1>13, <2>1, <2>2, OnwardBy, WayOfPump
<1>14. CASE Takes
  <2>1. Head(events) \in {"need", "have", "drained"} /\ Head(events) \in ToSet(events)
    BY <1>0, <1>14, TailOf, InSequence DEF Takes, ProcessAsyncEvent, TransformOK, Event
  <2>2. /\ UNCHANGED <<backend, last, nvenc, inside, frame, count>>
        /\ pc \in {"await", "collect", "drain"}
        /\ \/ UNCHANGED <<pc, resume>>
           \/ pc' = "pump" /\ resume' = pc
           \/ pc' = "collect" /\ Head(events) = "drained"
    BY <1>14, <2>1 DEF Takes, ProcessAsyncEvent
  <2>3. Head(events) = "drained" => pc # "await"
    BY <1>0, <2>1 DEF Events, Places
  <2>4. Given' => Given
    BY <2>2, <2>3 DEF Given, Entered
  <2>5. QED BY <1>2, <2>2, <2>4, OnwardBy DEF Spoken, Lost
<1>15. CASE HardwareStep \/ UNCHANGED vars
  <2>1. UNCHANGED <<pc, resume, backend, last, nvenc, inside, frame, count>>
    BY <1>15 DEF HardwareStep, vars
  <2>2. Given' = Given
    BY <2>1 DEF Given
  <2>3. QED BY <1>2, <2>1, <2>2, OnwardBy
<1>16. QED
  BY <1>0, <1>3, <1>4, <1>5, <1>6, <1>7, <1>8, <1>9, <1>10, <1>11, <1>12, <1>13, <1>14, <1>15,
     StepCases

\* What is sent is the oldest unit on its way.
LEMMA LastStep ==
  ASSUME IInv, [Next]_vars
  PROVE  last' = last \/ (pc \notin Lost /\ WayLen > 0 /\ LastSent' = OnWay[1])
<1>0. WorkerOK
  BY TypeParts DEF IInv
<1>1. CASE PollStep
  BY <1>1, WayOfPoll DEF PollStep, Lost
<1>2. CASE Pumps
  BY <1>2, WayOfPump DEF Sent, Pumps, Lost
<1>3. QED BY <1>0, <1>1, <1>2, StepCases, Still DEF vars

\* The number of units on their way.
LEMMA WayLenOK ==
  ASSUME TypeOK
  PROVE  /\ WayLen \in Nat /\ LastSent.id \in Nat /\ frame \in Nat /\ count \in Nat
         /\ \A i \in 1 .. WayLen : OnWay[i].id \in Nat
<1>0. NvencOK /\ TransformOK /\ WorkerOK /\ last \in Unit
  BY TypeParts
<1>1. LastSent.id \in Nat /\ frame \in Nat /\ count \in Nat
  BY <1>0 DEF LastSent, OfUnit, Unit, WorkerOK
<1>2. WayLen \in Nat
  BY <1>0, LenProperties DEF WayLen, NvencOK, TransformOK
<1>3. CASE backend = "nvenc"
  <2>1. \A i \in 1 .. Len(pending) : slots[pending[i]].out \in Unit
    BY <1>0, ElementOfSeq DEF NvencOK, SlotState
  <2>2. \A i \in 1 .. Len(pending) : OnWay[i].id = slots[pending[i]].out.id
    <3>1. \A u : OfUnit(u).id = u.id
      BY DEF OfUnit
    <3>2. QED BY <1>3, <3>1, OnWayAt
  <2>3. QED BY <1>1, <1>2, <1>3, <2>1, <2>2, OnWayAt DEF Unit
<1>4. CASE backend # "nvenc"
  <2>1. \A i \in 1 .. Len(inside) : inside[i] \in Inside
    BY <1>0, ElementOfSeq DEF TransformOK
  <2>2. \A i \in 1 .. Len(inside) : OnWay[i].id = inside[i].pix
    <3>1. \A u : OfFrame(u).id = u.pix
      BY DEF OfFrame
    <3>2. QED BY <1>4, <3>1, OnWayAt
  <2>3. QED BY <1>1, <1>2, <1>4, <2>1, <2>2, OnWayAt DEF Inside
<1>5. QED BY <1>3, <1>4

\* No unit is newer than the frame the encoder was given last.
LEMMA NextOld == ASSUME IInv, [Next]_vars PROVE last'.id <= frame'
<1>0. /\ last.id <= frame /\ TypeOK /\ WorkerOK
      /\ pc \notin Lost => \A i \in 1 .. WayLen : OnWay[i].id <= frame
  BY TypeParts DEF IInv, Chain
<1>1. frame' = frame \/ (frame' = frame + 1 /\ last' = last)
  BY <1>0, StepCases, Still, Polling
     DEF Encode, PollStep, Submits, Submit, Goes, Copies, Return, Pumps, Takes,
         ProcessAsyncEvent, Requested, Feed, FeedAgain, OtherFails, Fails, Flush, Drain,
         Fallback,
         HardwareStep, GpuCompletes, vars, worker
<1>2. WayLen \in Nat /\ LastSent.id \in Nat /\ frame \in Nat
  BY <1>0, WayLenOK
<1>3. LastSent.id = last.id /\ LastSent'.id = last'.id
  BY DEF LastSent, OfUnit
<1>4. CASE last' = last
  BY <1>0, <1>1, <1>2, <1>3, <1>4
<1>5. CASE pc \notin Lost /\ WayLen > 0 /\ LastSent' = OnWay[1]
  BY <1>0, <1>1, <1>2, <1>3, <1>4, <1>5
<1>6. QED BY <1>4, <1>5, LastStep

\* A step keeps the units on their way in order and without gaps.
LEMMA NextChain == ASSUME IInv, [Next]_vars PROVE Chain'
<1>1. SUFFICES ASSUME pc' \notin Lost
               PROVE  /\ Linked(LastSent', OnWay', WayLen')
                      /\ \A i \in 1 .. WayLen' : (OnWay')[i].id <= frame'
                      /\ pc' \in Spoken => Latest'.id > 0 /\ Latest'.seq = count'
                      /\ pc' \notin Spoken =>
                           count' = 0 \/ (Latest'.id > 0 /\ count' = NextCount(Latest'.seq))
                      /\ Given' => Latest'.id = frame'
  BY NextOld DEF Chain, Spoken
<1>2. pc \notin Lost =>
        /\ Linked(LastSent, OnWay, WayLen)
        /\ \A i \in 1 .. WayLen : OnWay[i].id <= frame
        /\ pc \in Spoken => Latest.id > 0 /\ Latest.seq = count
        /\ pc \notin Spoken => count = 0 \/ (Latest.id > 0 /\ count = NextCount(Latest.seq))
        /\ Given => Latest.id = frame
  BY DEF IInv, Chain, Spoken
<1>3. /\ WayLen \in Nat /\ LastSent.id \in Nat /\ frame \in Nat /\ count \in Nat
      /\ \A i \in 1 .. WayLen : OnWay[i].id \in Nat
  BY WayLenOK DEF IInv
<1>4. Latest = Newer(LastSent, OnWay, WayLen) /\ Latest' = Newer(LastSent', OnWay', WayLen')
  BY DEF Latest
<1>5. CASE pc \notin Lost /\ Onward /\ (Kept \/ Sent)
  <2>1. /\ Linked(LastSent', OnWay', WayLen') /\ Latest' = Latest
        /\ \A i \in 1 .. WayLen' : \E j \in 1 .. WayLen : (OnWay')[i] = OnWay[j]
    <3>1. CASE Kept
      <4>1. LastSent' = LastSent /\ WayLen' = WayLen
                /\ \A i \in 1 .. WayLen : (OnWay')[i] = OnWay[i]
        BY <3>1 DEF Kept
      <4>2. /\ Linked(LastSent, OnWay', WayLen)
            /\ Newer(LastSent, OnWay', WayLen) = Newer(LastSent, OnWay, WayLen)
        BY <1>2, <1>3, <1>5, <4>1, LinkedSame
      <4>3. QED BY <1>4, <4>1, <4>2
    <3>2. CASE Sent
      <4>1. /\ WayLen > 0 /\ WayLen' = WayLen - 1 /\ LastSent' = OnWay[1]
            /\ \A i \in 1 .. WayLen - 1 : (OnWay')[i] = OnWay[i + 1]
        BY <3>2 DEF Sent
      <4>2. /\ Linked(OnWay[1], OnWay', WayLen - 1)
            /\ Newer(OnWay[1], OnWay', WayLen - 1) = Newer(LastSent, OnWay, WayLen)
        BY <1>2, <1>3, <1>5, <4>1, LinkedTail
      <4>3. \A i \in 1 .. WayLen - 1 : i + 1 \in 1 .. WayLen
        BY <1>3
      <4>4. QED BY <1>4, <4>1, <4>2, <4>3
    <3>3. QED BY <1>5, <3>1, <3>2
  <2>2. \A i \in 1 .. WayLen' : (OnWay')[i].id <= frame'
    <3>1. TAKE i \in 1 .. WayLen'
    <3>2. PICK j \in 1 .. WayLen : (OnWay')[i] = OnWay[j]
      BY <2>1
    <3>3. OnWay[j].id <= frame /\ OnWay[j].id \in Nat
      BY <1>2, <1>3, <1>5
    <3>4. frame' \in {frame, frame + 1}
      BY <1>5 DEF Onward
    <3>5. QED BY <1>3, <3>2, <3>3, <3>4
  <2>3. QED BY <1>2, <1>5, <2>1, <2>2 DEF Onward, Spoken
<1>6. CASE pc \notin Lost /\ Entering /\ Added
  <2>1. PICK key \in BOOLEAN :
          /\ (OnWay')[WayLen + 1] = [id |-> frame, key |-> key, seq |-> count]
          /\ count = 0 => key
    BY <1>6 DEF Added
  <2> DEFINE e == [id |-> frame, key |-> key, seq |-> count]
  <2>2. e.id = frame /\ e.seq = count /\ (count = 0 => e.key)
    BY <2>1
  <2>3. (OnWay')[WayLen + 1] = e
    BY <2>1
  <2> HIDE DEF e
  <2>4. /\ LastSent' = LastSent /\ WayLen' = WayLen + 1
        /\ \A i \in 1 .. WayLen : (OnWay')[i] = OnWay[i]
    BY <1>6 DEF Added
  <2>5. /\ frame' = frame /\ frame > 0 /\ pc \notin Spoken
        /\ pc' \in Spoken => count' = count
        /\ pc' \notin Spoken => count' = NextCount(count)
    BY <1>6 DEF Entering
  <2>6. Latest.id <= frame
    <3>1. LastSent.id <= frame
      BY DEF IInv, Chain, LastSent, OfUnit
    <3>2. QED BY <1>2, <1>3, <1>4, <1>6, <3>1 DEF Newer
  <2>7. Follows(Newer(LastSent, OnWay, WayLen), e)
    BY <1>2, <1>4, <1>6, <2>2, <2>5, <2>6 DEF Follows
  <2>8. Linked(LastSent, OnWay', WayLen + 1) /\ Newer(LastSent, OnWay', WayLen + 1) = e
    BY <1>2, <1>3, <1>6, <2>3, <2>4, <2>7, LinkedAppend
  <2>9. \A i \in 1 .. WayLen' : (OnWay')[i].id <= frame'
    <3>1. TAKE i \in 1 .. WayLen'
    <3>2. CASE i = WayLen + 1
      BY <1>3, <2>2, <2>3, <2>5, <3>2
    <3>3. CASE i \in 1 .. WayLen
      BY <1>2, <1>6, <2>4, <2>5, <3>3
    <3>4. QED BY <1>3, <2>4, <3>2, <3>3
  <2>10. Latest' = e
    BY <1>4, <2>4, <2>8
  <2>11. QED BY <2>2, <2>4, <2>5, <2>8, <2>9, <2>10
<1>7. CASE Fallback
  <2>1. /\ backend' = "software" /\ inside' = <<>> /\ count' = 0 /\ pc' = "feed"
    BY <1>1, <1>7 DEF Fallback, ResetTransform, Lost
  <2>2. WayLen' = 0
    BY <2>1, EmptySeq, OnWayNext
  <2>3. ~Given'
    BY <2>1 DEF Given, Entered
  <2>4. QED BY <2>1, <2>2, <2>3 DEF Linked, Spoken
<1>8. QED BY <1>1, <1>5, <1>6, <1>7, WayStep

----------------------------------------------------------------------------
(* The theorems.                                                           *)

\* The inductive invariant holds initially.
LEMMA InitInv == Init => IInv
<1> SUFFICES ASSUME Init PROVE IInv
  OBVIOUS
<1>1. /\ pc = "idle" /\ resume = "idle" /\ backend \in DOMAIN Start /\ draining = FALSE
      /\ frame = 0 /\ count = 0 /\ last = NoUnit /\ limited \in BOOLEAN /\ steady \in BOOLEAN
      /\ slots = [s \in Slot |-> EmptySlot] /\ pending = <<>> /\ nextSlot = 0 /\ ready = 0
      /\ gpu = <<>> /\ held = {}
      /\ inside = <<>> /\ done = 0 /\ events = <<>> /\ requests = 0 /\ ids = <<>>
  BY DEF Init, InitNvenc, InitTransform
<1>2. \A S : <<>> \in Seq(S)
  BY EmptySeq
<1>3. Len(<<>>) = 0 /\ ToSet(<<>>) = {}
  BY DEF ToSet
<1>4. TypeOK
  <2>1. WorkerOK
    BY <1>1, Facts DEF WorkerOK
  <2>2. EmptySlot \in SlotState
    BY Empty, Facts DEF EmptySlot, SlotState
  <2>3. NvencOK
    BY <1>1, <1>2, <1>3, <2>2, Facts DEF NvencOK
  <2>4. TransformOK
    BY <1>1, <1>2, <1>3, Facts DEF TransformOK
  <2>5. last \in Unit
    BY <1>1, Empty
  <2>6. QED BY <2>1, <2>3, <2>4, <2>5, TypeParts
<1>5. Places /\ Unused
  BY <1>1 DEF Places, Unused
<1>6. Events
  <2>1. NeedsQueued = {}
    BY <1>1 DEF NeedsQueued
  <2>2. QED BY <1>1, <1>3, <2>1, FS_EmptySet, Facts DEF Events
<1>7. Pipeline
  BY <1>1, <1>3, Empty, Facts DEF Pipeline, Behind
<1>8. InStep
  BY <1>1, <1>3 DEF InStep, Paired, OneMore, NoUnit
<1>9. Chain
  <2>1. WayLen = 0
    BY <1>1, <1>3 DEF WayLen
  <2>2. LastSent.id = 0 /\ last.id = 0
    BY <1>1 DEF LastSent, OfUnit, NoUnit
  <2>3. Latest.id = 0
    BY <2>1, <2>2 DEF Latest, Newer
  <2>4. QED BY <1>1, <2>1, <2>2, <2>3 DEF Chain, Linked
<1>10. QED BY <1>4, <1>5, <1>6, <1>7, <1>8, <1>9 DEF IInv

\* A unit that is sent has the shape of one.
LEMMA NextLastOK == ASSUME TypeOK, [Next]_vars PROVE last' \in Unit
<1>0. NvencOK /\ TransformOK /\ WorkerOK /\ last \in Unit
  BY TypeParts
<1>1. CASE PollStep
  <2>1. pending # <<>> /\ last' \in {last, slots[Oldest].out}
    BY <1>1, Polling DEF PollStep, Keeps, Sends, Drops
  <2>2. Oldest \in Slot
    BY <1>0, <2>1, TailOf DEF NvencOK, Oldest
  <2>3. QED BY <1>0, <2>1, <2>2 DEF NvencOK, SlotState
<1>2. CASE Pumps
  <2>1. inside \in Seq(Inside) /\ ids \in Seq(0 .. MaxFrames) /\ inside # <<>>
    BY <1>0, <1>2, EmptySeq DEF Pumps, HasOutput, TransformOK
  <2>2. Head(inside) \in Inside
    BY <2>1, TailOf
  <2>3. OldestId \in 0 .. MaxFrames
    BY <2>1, TailOf, Facts DEF OldestId
  <2>4. last' = [id |-> OldestId, pix |-> Head(inside).pix, key |-> Head(inside).key,
                 seq |-> Head(inside).seq]
    BY <1>2 DEF Pumps
  <2>5. QED BY <2>2, <2>3, <2>4 DEF Inside, Unit
<1>3. QED BY <1>0, <1>1, <1>2, StepCases, Still DEF vars

\* Every step preserves it.
LEMMA NextInv == IInv /\ [Next]_vars => IInv'
<1> SUFFICES ASSUME IInv, [Next]_vars PROVE IInv'
  OBVIOUS
<1>1. TypeOK'
  <2>1. WorkerOK /\ NvencOK /\ TransformOK /\ Places /\ TypeOK
    BY TypeParts DEF IInv
  <2>2. WorkerOK' /\ NvencOK' /\ TransformOK' /\ last' \in Unit
    BY <2>1, NextWorkerOK, NextNvencOK, NextTransformOK, NextLastOK
  <2>3. QED BY <2>2, TypeParts
<1>2. QED
  BY <1>1, NextPlaces, NextUnused, NextEvents, NextPipeline, NextInStep, NextChain DEF IInv

\* The inductive invariant holds.
LEMMA Invariant == Safety => []IInv
BY InitInv, NextInv, PTL DEF Safety

\* Type correctness: no event queue, slot or count leaves its range; the hardware transform
\* is never owed more requests than it has room for.
THEOREM TypeCorrect == Spec => []TypeOK
<1>1. IInv => TypeOK
  BY DEF IInv
<1>2. QED BY <1>1, Invariant, PTL DEF Spec

\* A unit is sent under the id of the frame its bits show, for any number of slots, any
\* latency and through any fallback.
THEOREM SentUnder == Spec => []SentUnderItsId
<1>1. IInv => SentUnderItsId
  BY DEF IInv, InStep, SentUnderItsId
<1>2. QED BY <1>1, Invariant, PTL DEF Spec

\* A drain returns when the newest frame given to the encoder has been sent.
THEOREM DrainSends == Spec => []DrainSendsAll
<1>1. ASSUME IInv, pc = "drained" PROVE last.id = frame
  <2>1. pending = <<>> /\ inside = <<>>
    BY <1>1 DEF IInv, Unused
  <2>2. WayLen = 0
    BY <2>1, EmptySeq DEF WayLen
  <2>3. Latest = LastSent
    BY <2>2 DEF Latest, Newer
  <2>4. Latest.id = frame
    BY <1>1 DEF IInv, Chain, Given, Entered, Lost
  <2>5. QED BY <2>3, <2>4 DEF LastSent, OfUnit
<1>2. IInv => DrainSendsAll
  BY <1>1 DEF DrainSendsAll
<1>3. QED BY <1>2, Invariant, PTL DEF Spec

\* What a step sends follows what was sent before it.
LEMMA SentFollows ==
  ASSUME IInv, [Next]_vars, last' # last
  PROVE  Follows(LastSent, LastSent')
<1>1. pc \notin Lost /\ WayLen > 0 /\ LastSent' = OnWay[1]
  BY LastStep
<1>2. Follows(LastSent, OnWay[1])
  BY <1>1 DEF IInv, Chain, Linked
<1>3. QED BY <1>1, <1>2

\* Units leave in the order in which the encoder made them and none is left out, unless the
\* next one sent is a key unit.
THEOREM Decodable == Spec => UnitsDecodable
<1>1. IInv /\ [Next]_vars =>
        [last' # last => last'.key \/ (last # NoUnit /\ last'.seq = NextCount(last.seq))]_vars
  <2> SUFFICES ASSUME IInv, [Next]_vars, last' # last
               PROVE  last'.key \/ (last # NoUnit /\ last'.seq = NextCount(last.seq))
    OBVIOUS
  <2>1. Follows(LastSent, LastSent')
    BY SentFollows
  <2>2. /\ LastSent'.key = last'.key /\ LastSent'.seq = last'.seq
        /\ LastSent.id = last.id /\ LastSent.seq = last.seq
    BY DEF LastSent, OfUnit
  <2>3. ~(0 > 0)
    OBVIOUS
  <2>4. QED BY <2>1, <2>2, <2>3 DEF Follows, NoUnit
<1>2. QED BY <1>1, Invariant, PTL DEF Spec, Safety, UnitsDecodable

\* A newer frame is never followed by an older one, also across the fallback.
THEOREM Forward == Spec => NeverBack
<1>1. IInv /\ [Next]_vars => [last'.id >= last.id]_vars
  <2> SUFFICES ASSUME IInv, [Next]_vars PROVE last'.id >= last.id
    OBVIOUS
  <2>1. LastSent.id = last.id /\ LastSent'.id = last'.id /\ LastSent.id \in Nat
    BY WayLenOK DEF IInv, LastSent, OfUnit
  <2>2. TypeOK'
    BY NextInv DEF IInv
  <2>3. last'.id \in Nat
    BY <2>2, TypeParts DEF Unit
  <2>4. CASE last' = last
    BY <2>1, <2>4
  <2>5. CASE last' # last
    BY <2>1, <2>3, <2>5, SentFollows DEF Follows
  <2>6. QED BY <2>4, <2>5
<1>2. QED BY <1>1, Invariant, PTL DEF Spec, Safety, NeverBack
=============================================================================
