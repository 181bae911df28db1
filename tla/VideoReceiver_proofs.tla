------------------------- MODULE VideoReceiver_proofs -------------------------
(***************************************************************************)
(* Theorems of VideoReceiver for every queue size, key interval and bound: *)
(* the type invariant, that a stream which ends on its own reports why,    *)
(* that the queue keeps an IDR, and that a lost unit is noticed; and of    *)
(* MCReceiver for every size of a byte: that units and packets are read    *)
(* back as what they are.                                                  *)
(***************************************************************************)
EXTENDS MCReceiver, PacketFormat_proofs, SequenceTheorems, TLAPS

----------------------------------------------------------------------------
(* Sequences and steps that several actions share.                         *)

\* The first element of a sequence and the ones behind it.
LEMMA TailOf ==
  ASSUME NEW S, NEW s \in Seq(S), s # <<>>
  PROVE  /\ 1 \in DOMAIN s /\ Head(s) = s[1] /\ Head(s) \in S
         /\ Tail(s) \in Seq(S) /\ Len(Tail(s)) = Len(s) - 1
         /\ \A i \in DOMAIN Tail(s) : i + 1 \in DOMAIN s /\ Tail(s)[i] = s[i + 1]
BY HeadTailProperties, LenProperties

\* A sequence with one more element at its end.
LEMMA AppendTo ==
  ASSUME NEW S, NEW s \in Seq(S), NEW e \in S
  PROVE  /\ Append(s, e) \in Seq(S) /\ Len(Append(s, e)) = Len(s) + 1
         /\ DOMAIN Append(s, e) = DOMAIN s \cup {Len(s) + 1}
         /\ \A i \in DOMAIN s : i <= Len(s) /\ Append(s, e)[i] = s[i]
         /\ Append(s, e)[Len(s) + 1] = e
<1>1. /\ Append(s, e) \in Seq(S) /\ Len(Append(s, e)) = Len(s) + 1
      /\ \A i \in 1 .. Len(s) : Append(s, e)[i] = s[i]
      /\ Append(s, e)[Len(s) + 1] = e
  BY AppendProperties
<1>2. Len(s) \in Nat /\ DOMAIN s = 1 .. Len(s)
  BY LenProperties
<1>3. DOMAIN Append(s, e) = 1 .. Len(s) + 1
  BY <1>1, LenProperties
<1>4. DOMAIN Append(s, e) = DOMAIN s \cup {Len(s) + 1}
  BY <1>2, <1>3
<1>5. QED BY <1>1, <1>2, <1>4

\* The packets that stand for no unit, and what the limits are.
LEMMA PacketFacts ==
  /\ Heartbeat \in Packets /\ NoUnit \in Packets
  /\ MaxUnits \in Nat /\ MaxId \in Nat \ {0} /\ MaxRefreshes \in Nat /\ MaxStarved \in Nat
  /\ MaxPending \in Nat \ {0} /\ WireCap \in Nat \ {0} /\ KeyInterval \in Nat \ {0}
BY ReceiverAssumption DEF Packets, Heartbeat, NoUnit

\* A queue that is offered a unit holds some of its units, and that one at most.
LEMMA OfferType ==
  ASSUME TypeOK, NEW f \in Packets, Offer(f)
  PROVE  queue' \in Seq(Packets) /\ Len(queue') <= MaxPending
<1>0. queue \in Seq(Packets) /\ Len(queue) <= MaxPending /\ Len(queue) \in Nat
  BY LenProperties DEF TypeOK
<1>1. CASE queue' = queue
  BY <1>0, <1>1
<1>2. CASE ~Full /\ queue' = Append(queue, f)
  BY <1>0, <1>2, AppendTo, PacketFacts DEF Full
<1>3. CASE Full /\ queue' = Append(Tail(queue), f)
  <2>1. queue # <<>>
    BY <1>0, <1>3, EmptySeq, PacketFacts DEF Full
  <2>2. Tail(queue) \in Seq(Packets) /\ Len(Tail(queue)) = Len(queue) - 1
    BY <1>0, <2>1, TailOf
  <2>3. QED BY <1>0, <1>3, <2>2, AppendTo
<1>4. QED BY <1>1, <1>2, <1>3 DEF Offer

\* A read takes the first packet off the wire, and a unit among them becomes the frame.
LEMMA ReceiveType ==
  ASSUME TypeOK, NEW next, Receive(next)
  PROVE  /\ wire' \in Seq(Packets) /\ Len(wire') <= WireCap /\ frame' \in Packets
         /\ rpc' \in {next, "first", "loop"}
<1>1. /\ Head(wire) \in Packets /\ Tail(wire) \in Seq(Packets) /\ Len(Tail(wire)) = Len(wire) - 1
      /\ Len(wire) \in Nat
  BY TailOf, LenProperties DEF Receive, TypeOK
<1>2. QED BY <1>1, PacketFacts DEF Receive, TypeOK

\* A packet put on the wire.
LEMMA WireType ==
  ASSUME TypeOK, CanSend, NEW p \in Packets, wire' = Append(wire, p)
  PROVE  wire' \in Seq(Packets) /\ Len(wire') <= WireCap
BY AppendTo, LenProperties, PacketFacts DEF TypeOK, CanSend

\* A unit put on the wire.
LEMMA SendType ==
  ASSUME TypeOK, NEW id \in 0 .. MaxId, Send(id), refreshes' \in 0 .. MaxRefreshes
  PROVE  TypeOK'
<1> DEFINE v == [kind |-> "video", n |-> units, id |-> id, idr |-> units % KeyInterval = 0]
<1>1. v \in Packets
  BY PacketFacts DEF TypeOK, Send, Packets
<1>2. wire' \in Seq(Packets) /\ Len(wire') <= WireCap
  BY <1>1, WireType DEF Send
<1>3. units' \in 0 .. MaxUnits /\ lastId' \in 0 .. MaxId
  BY PacketFacts DEF TypeOK, Send
<1>4. QED BY <1>2, <1>3 DEF TypeOK, Send, recv, decoder, control

LEMMA InitType == Init => TypeOK
<1> SUFFICES ASSUME Init PROVE TypeOK
  OBVIOUS
<1>1. <<>> \in Seq(Packets) /\ Len(<<>>) = 0
  BY EmptySeq
<1>2. /\ wire \in Seq(Packets) /\ Len(wire) <= WireCap
      /\ queue \in Seq(Packets) /\ Len(queue) <= MaxPending
  BY <1>1, PacketFacts DEF Init
<1>3. /\ frame \in Packets /\ unit \in Packets /\ last \in -1 .. MaxUnits - 1
      /\ starved \in 0 .. MaxStarved
  BY PacketFacts DEF Init
<1>4. units \in 0 .. MaxUnits /\ lastId \in 0 .. MaxId /\ refreshes \in 0 .. MaxRefreshes
  BY PacketFacts DEF Init
<1>5. lastFrameId \in -1 .. MaxId
  BY PacketFacts DEF Init
<1>6. QED BY <1>2, <1>3, <1>4, <1>5, Zenon DEF Init, TypeOK

----------------------------------------------------------------------------
(* The type invariant.                                                     *)

\* No step leaves the shape of the state.
LEMMA NextType == TypeOK /\ [Next]_vars => TypeOK'
<1> SUFFICES ASSUME TypeOK, [Next]_vars PROVE TypeOK'
  OBVIOUS
<1> USE DEF host, recv, decoder, control
<1>1. CASE SendNew
  <2>1. PICK step \in {1, 2} : lastId + step <= MaxId /\ Send(lastId + step)
    BY <1>1 DEF SendNew
  <2>2. lastId + step \in 0 .. MaxId
    BY <2>1, PacketFacts DEF TypeOK
  <2>3. QED BY <1>1, <2>1, <2>2, SendType DEF SendNew, TypeOK
<1>2. CASE SendRefresh
  BY <1>2, SendType, PacketFacts DEF SendRefresh, TypeOK
<1>3. CASE SendHeartbeat
  BY <1>3, WireType, PacketFacts DEF SendHeartbeat, TypeOK
<1>4. CASE HostCloses
  BY <1>4 DEF HostCloses, TypeOK
<1>5. CASE ReadFirst
  BY <1>5, ReceiveType DEF ReadFirst, TypeOK
<1>6. CASE StartDecoder
  BY <1>6 DEF StartDecoder, TypeOK
<1>7. CASE OfferFirst
  <2>1. queue' \in Seq(Packets) /\ Len(queue') <= MaxPending
    BY <1>7, OfferType DEF OfferFirst, TypeOK
  <2>2. QED BY <1>7, <2>1, PacketFacts DEF OfferFirst, TypeOK
<1>8. CASE LoopHead
  BY <1>8 DEF LoopHead, TypeOK, Throw
<1>9. CASE ReadNext
  BY <1>9, ReceiveType DEF ReadNext, TypeOK, Throw
<1>10. CASE OfferFrame
  <2>1. queue' \in Seq(Packets) /\ Len(queue') <= MaxPending
    BY <1>10, OfferType DEF OfferFrame, TypeOK
  <2>2. QED BY <1>10, <2>1, PacketFacts DEF OfferFrame, TypeOK
<1>11. CASE Finally
  BY <1>11, EmptySeq, PacketFacts DEF Finally, Shut, TypeOK
<1>12. CASE JoinDecoder
  BY <1>12 DEF JoinDecoder, TypeOK
<1>13. CASE JoinWatchdog
  BY <1>13 DEF JoinWatchdog, TypeOK
<1>14. CASE TakeFrame
  <2>1. CASE queue # <<>> /\ unit' = Head(queue) /\ queue' = Tail(queue) /\ dpc' = "decode"
    <3>1. unit' \in Packets /\ queue' \in Seq(Packets) /\ Len(queue') <= MaxPending
      BY <2>1, TailOf, LenProperties, PacketFacts DEF TypeOK
    <3>2. QED BY <1>14, <2>1, <3>1 DEF TakeFrame, TypeOK
  <2>2. CASE dpc' = "release" /\ UNCHANGED <<unit, queue>>
    BY <1>14, <2>2 DEF TakeFrame, TypeOK
  <2>3. QED BY <1>14, <2>1, <2>2 DEF TakeFrame
<1>15. CASE TakeInterrupted
  BY <1>15 DEF TakeInterrupted, Blame, TypeOK
<1>16. CASE Decode
  <2>1. unit.id \in 0 .. MaxId /\ unit.n \in -1 .. MaxUnits - 1 /\ unit.idr \in BOOLEAN
    BY DEF TypeOK, Packets
  <2>2. lastFrameId' \in -1 .. MaxId /\ waiting' \in BOOLEAN /\ unit' \in Packets
    BY <1>16, <2>1, PacketFacts DEF Decode, TypeOK, Gap
  <2>3. starved' \in 0 .. MaxStarved
    BY <1>16, PacketFacts DEF Decode, TypeOK
  <2>4. last' \in -1 .. MaxUnits - 1 /\ chain' \in {"none", "clean", "broken"}
    BY <1>16, <2>1 DEF Decode, TypeOK, Reference
  <2>5. /\ failure' \in {"none", "codec", "interrupted", "watchdog"}
        /\ dpc' \in {"take", "failing"}
    BY <1>16 DEF Decode, TypeOK, Blame
  <2>6. QED BY <1>16, <2>2, <2>3, <2>4, <2>5 DEF Decode, TypeOK
<1>17. CASE DecoderCloses
  BY <1>17, EmptySeq, PacketFacts DEF DecoderCloses, Shut, TypeOK
<1>18. CASE ReleaseCodec
  BY <1>18 DEF ReleaseCodec, TypeOK
<1>19. CASE WatchdogFires
  BY <1>19 DEF WatchdogFires, Blame, TypeOK
<1>20. CASE WatchdogCloses
  BY <1>20, EmptySeq, PacketFacts DEF WatchdogCloses, Shut, TypeOK
<1>21. CASE WatchdogEnds
  BY <1>21 DEF WatchdogEnds, TypeOK
<1>22. CASE RequestStop
  BY <1>22 DEF RequestStop, TypeOK
<1>23. CASE Close
  BY <1>23, EmptySeq, PacketFacts DEF Close, Shut, TypeOK
<1>24. CASE UNCHANGED vars
  BY <1>24 DEF vars, TypeOK
<1>25. QED
  BY <1>1, <1>2, <1>3, <1>4, <1>5, <1>6, <1>7, <1>8, <1>9, <1>10, <1>11, <1>12, <1>13,
     <1>14, <1>15, <1>16, <1>17, <1>18, <1>19, <1>20, <1>21, <1>22, <1>23, <1>24
  DEF Next, HostStep, ReceiverStep, DecoderStep, WatchdogStep

\* The shape of the state, whatever the bounds, the sizes and the schedule.
THEOREM TypeCorrect == Spec => []TypeOK
BY InitType, NextType, PTL DEF Spec, Safety

----------------------------------------------------------------------------
(* What the other invariants rest on.                                      *)

\* Whoever closes the stream leaves a reason behind, unless close() did it.
Reasons ==
  /\ cpc # "idle" => stopRequested
  /\ wpc = "failing" => failure # "none"
  /\ ~stopRequested =>
       /\ dpc = "failing" => failure # "none"
       /\ closed => error # "none" \/ failure # "none"
       /\ rpc \in {"finally", "joinDecoder", "joinWatchdog"} =>
            error # "none" \/ failure # "none"
       /\ rpc = "returned" => error # "none"

\* The units under way, by the place they have reached, the last one the codec had while
\* it holds all that the next one refers to, and the one to be encoded next.
Video(s) == {s[i] : i \in {j \in DOMAIN s : s[j].kind = "video"}}
Offered  == IF rpc \in {"start", "offerFirst", "offer"} THEN {frame} ELSE {}
Held     == IF dpc = "decode" THEN {unit} ELSE {}
Given    == IF dpc \in {"take", "decode"} /\ ~waiting /\ chain = "clean" /\ starved = 0
              THEN {[n |-> last, id |-> lastFrameId]} ELSE {}
NextUnit == [n |-> units, id |-> lastId + 1]
Once     == refreshes = 0

\* One unit was encoded before another; while every frame is encoded once, their ids
\* are at least as far apart as the units.
Before(once, a, b) == a.n < b.n /\ (once => b.n - a.n <= b.id - a.id)
Ahead(once, A, B)  == \A a \in A, b \in B : Before(once, a, b)
Sorted(once, s) ==
  \A i, j \in DOMAIN s :
    i < j /\ s[i].kind = "video" /\ s[j].kind = "video" => Before(once, s[i], s[j])

\* The units are in the order of their encoding along the whole way to the codec.
Line(once, G, H, Q, O, W, N) ==
  /\ Ahead(once, G, H \cup Q \cup O \cup W \cup {N})
  /\ Ahead(once, H, Q \cup O \cup W \cup {N})
  /\ Ahead(once, Q, O \cup W \cup {N})
  /\ Ahead(once, O, W \cup {N})
  /\ Ahead(once, W, {N})
InLine ==
  /\ \A i \in DOMAIN queue : queue[i].kind = "video"
  /\ \A u \in Offered : u.kind = "video"
  /\ Sorted(Once, wire) /\ Sorted(Once, queue)
  /\ Line(Once, Given, Held, Video(queue), Offered, Video(wire), NextUnit)

\* The codec refers to units only after the first packet, and to one with a frame id.
Referenced ==
  /\ rpc \in {"first", "start"} => dpc = "none" /\ chain = "none"
  /\ chain = "clean" => lastFrameId >= 0

IInv == TypeOK /\ Reasons /\ InLine /\ Referenced /\ LossNoticed

----------------------------------------------------------------------------
(* A stream that ends on its own reports why.                              *)

\* No step that closes the stream, or leaves the loop, is without a reason.
LEMMA NextReasons == TypeOK /\ Reasons /\ [Next]_vars => Reasons'
<1> SUFFICES ASSUME TypeOK, Reasons, [Next]_vars PROVE Reasons'
  OBVIOUS
<1> USE DEF Reasons, host, recv, decoder, control
<1>1. CASE SendNew \/ SendRefresh \/ SendHeartbeat \/ HostCloses
  BY <1>1 DEF SendNew, SendRefresh, SendHeartbeat, HostCloses, Send
<1>2. CASE ReadFirst \/ ReadNext
  BY <1>2 DEF ReadFirst, ReadNext, Receive, Throw
<1>3. CASE StartDecoder
  BY <1>3 DEF StartDecoder
<1>4. CASE OfferFirst \/ OfferFrame
  BY <1>4 DEF OfferFirst, OfferFrame
<1>5. CASE LoopHead
  BY <1>5 DEF LoopHead, Throw
<1>6. CASE Finally
  BY <1>6 DEF Finally, Shut
<1>7. CASE JoinDecoder \/ JoinWatchdog
  BY <1>7 DEF JoinDecoder, JoinWatchdog
<1>8. CASE TakeFrame \/ TakeInterrupted \/ ReleaseCodec
  BY <1>8 DEF TakeFrame, TakeInterrupted, ReleaseCodec, Blame
<1>9. CASE Decode
  BY <1>9 DEF Decode, Blame
<1>10. CASE DecoderCloses
  BY <1>10 DEF DecoderCloses, Shut
<1>11. CASE WatchdogFires
  BY <1>11 DEF WatchdogFires, Blame
<1>12. CASE WatchdogCloses \/ WatchdogEnds
  BY <1>12 DEF WatchdogCloses, WatchdogEnds, Shut
<1>13. CASE RequestStop \/ Close
  BY <1>13 DEF RequestStop, Close, Shut
<1>14. CASE UNCHANGED vars
  BY <1>14 DEF vars
<1>15. QED
  BY <1>1, <1>2, <1>3, <1>4, <1>5, <1>6, <1>7, <1>8, <1>9, <1>10, <1>11, <1>12, <1>13, <1>14
  DEF Next, HostStep, ReceiverStep, DecoderStep, WatchdogStep

\* run() never returns as if it had been stopped after something else ended the stream.
THEOREM Reported == Spec => []FailureReported
<1>1. Init => Reasons
  BY DEF Init, Reasons
<1>2. Reasons => FailureReported
  BY DEF Reasons, FailureReported
<1>3. QED
  BY <1>1, <1>2, InitType, NextType, NextReasons, PTL DEF Spec, Safety

----------------------------------------------------------------------------
(* The units keep their order on the way to the codec.                     *)

\* A place may lose units, or all of them.
LEMMA LineShrinks ==
  ASSUME NEW once \in BOOLEAN, NEW G, NEW H, NEW Q, NEW O, NEW W, NEW N,
         Line(once, G, H, Q, O, W, N),
         NEW G2 \in SUBSET G, NEW H2 \in SUBSET H, NEW Q2 \in SUBSET Q,
         NEW O2 \in SUBSET O, NEW W2 \in SUBSET W
  PROVE  Line(once, G2, H2, Q2, O2, W2, N)
BY Zenon DEF Line, Ahead

\* The first unit on the wire becomes the frame, ahead of the ones behind it.
LEMMA LineReads ==
  ASSUME NEW once \in BOOLEAN, NEW G, NEW H, NEW Q, NEW W, NEW N,
         Line(once, G, H, Q, {}, W, N),
         NEW u \in W, NEW W2 \in SUBSET W, Ahead(once, {u}, W2)
  PROVE  Line(once, G, H, Q, {u}, W2, N)
BY DEF Line, Ahead

\* The frame enters the queue, whatever the queue gives up for it.
LEMMA LineOffers ==
  ASSUME NEW once \in BOOLEAN, NEW G, NEW H, NEW Q, NEW u, NEW W, NEW N,
         Line(once, G, H, Q, {u}, W, N),
         NEW Q2 \in SUBSET (Q \cup {u})
  PROVE  Line(once, G, H, Q2, {}, W, N)
BY DEF Line, Ahead

\* The decoder takes the first unit of the queue.
LEMMA LineTakes ==
  ASSUME NEW once \in BOOLEAN, NEW G, NEW Q, NEW O, NEW W, NEW N,
         Line(once, G, {}, Q, O, W, N),
         NEW u \in Q, NEW Q2 \in SUBSET Q, Ahead(once, {u}, Q2)
  PROVE  Line(once, G, {u}, Q2, O, W, N)
BY DEF Line, Ahead

\* The codec is given the unit that the decoder held.
LEMMA LineGives ==
  ASSUME NEW once \in BOOLEAN, NEW G, NEW u, NEW Q, NEW O, NEW W, NEW N,
         Line(once, G, {u}, Q, O, W, N),
         NEW G2 \in SUBSET {[n |-> u.n, id |-> u.id]}
  PROVE  Line(once, G2, {}, Q, O, W, N)
BY DEF Line, Ahead, Before

\* A new unit is behind all that are under way, and ahead of the next one.
LEMMA LineGrows ==
  ASSUME NEW once \in BOOLEAN, NEW once2 \in BOOLEAN, once2 => once,
         NEW G, NEW H, NEW Q, NEW O, NEW W, NEW n \in Int, NEW id \in Int,
         Line(once, G, H, Q, O, W, [n |-> n, id |-> id + 1]),
         \A x \in G \cup H \cup Q \cup O \cup W : x.n \in Int /\ x.id \in Int,
         NEW v, v.n = n, v.id \in Int, once2 => v.id >= id + 1,
         NEW W2 \in SUBSET (W \cup {v})
  PROVE  Line(once2, G, H, Q, O, W2, [n |-> n + 1, id |-> v.id + 1])
<1> DEFINE Old == G \cup H \cup Q \cup O \cup W
           N   == [n |-> n, id |-> id + 1]
           N2  == [n |-> n + 1, id |-> v.id + 1]
<1>1. \A x \in Old : Before(once, x, N)
  BY DEF Line, Ahead
<1>2. \A x \in Old : Before(once2, x, v) /\ Before(once2, x, N2)
  BY <1>1 DEF Before
<1>3. Before(once2, v, N2)
  BY DEF Before
<1>4. \A x, y : Before(once, x, y) => Before(once2, x, y)
  BY DEF Before
<1> HIDE DEF Old, N, N2
<1>5. /\ Ahead(once2, G, H \cup Q \cup O \cup W) /\ Ahead(once2, H, Q \cup O \cup W)
      /\ Ahead(once2, Q, O \cup W) /\ Ahead(once2, O, W)
  BY <1>4, Zenon DEF Line, Ahead
<1>6. ASSUME NEW x, \A y \in Old : Before(once2, y, x)
      PROVE  Line(once2, G, H, Q, O, W, x)
  BY <1>5, <1>6, Zenon DEF Line, Ahead, Old
<1>7. Line(once2, G, H, Q, O, W, v)
  BY <1>2, <1>6
<1>8. Line(once2, G, H, Q, O, W, N2)
  BY <1>2, <1>6
<1>9. Ahead(once2, W2, {N2})
  BY <1>3, <1>8 DEF Line, Ahead
<1>10. /\ Ahead(once2, G, H \cup Q \cup O \cup W2 \cup {N2})
      /\ Ahead(once2, H, Q \cup O \cup W2 \cup {N2})
  BY <1>7, <1>8, Zenon DEF Line, Ahead
<1>11. Ahead(once2, Q, O \cup W2 \cup {N2}) /\ Ahead(once2, O, W2 \cup {N2})
  BY <1>7, <1>8, Zenon DEF Line, Ahead
<1>12. Line(once2, G, H, Q, O, W2, N2)
  BY <1>9, <1>10, <1>11 DEF Line
<1>13. QED BY <1>12 DEF N2

\* What holds of the first unit of a sequence in order, and of the sequence behind it.
LEMMA SortedTail ==
  ASSUME NEW once \in BOOLEAN, NEW S, NEW s \in Seq(S), s # <<>>, Sorted(once, s)
  PROVE  /\ Sorted(once, Tail(s)) /\ Video(Tail(s)) \subseteq Video(s)
         /\ Head(s).kind = "video" =>
              Head(s) \in Video(s) /\ Ahead(once, {Head(s)}, Video(Tail(s)))
<1>1. /\ 1 \in DOMAIN s /\ Head(s) = s[1]
      /\ \A i \in DOMAIN Tail(s) : i + 1 \in DOMAIN s /\ Tail(s)[i] = s[i + 1]
  BY TailOf
<1>2. DOMAIN Tail(s) \subseteq Nat \ {0}
  BY TailOf, LenProperties
<1>3. Sorted(once, Tail(s))
  BY <1>1, <1>2 DEF Sorted
<1>4. Video(Tail(s)) \subseteq Video(s)
  BY <1>1 DEF Video
<1>5. ASSUME Head(s).kind = "video", NEW i \in DOMAIN Tail(s), Tail(s)[i].kind = "video"
      PROVE  Before(once, Head(s), Tail(s)[i])
  BY <1>1, <1>2, <1>5 DEF Sorted
<1>6. QED BY <1>1, <1>3, <1>4, <1>5 DEF Ahead, Video

\* A sequence in order stays so when a unit behind all of its units is put at its end.
LEMMA SortedAppend ==
  ASSUME NEW once \in BOOLEAN, NEW S, NEW s \in Seq(S), NEW u \in S, Sorted(once, s),
         u.kind = "video" => Ahead(once, Video(s), {u})
  PROVE  /\ Sorted(once, Append(s, u)) /\ Video(Append(s, u)) \subseteq Video(s) \cup {u}
         /\ u.kind # "video" => Video(Append(s, u)) \subseteq Video(s)
<1> DEFINE t == Append(s, u)
<1>1. /\ DOMAIN t = DOMAIN s \cup {Len(s) + 1}
      /\ \A i \in DOMAIN s : i \in Nat /\ i <= Len(s) /\ t[i] = s[i]
      /\ t[Len(s) + 1] = u /\ Len(s) \in Nat
  BY AppendTo, LenProperties
<1>2. \A i \in DOMAIN s : s[i].kind = "video" /\ u.kind = "video" => Before(once, s[i], u)
  BY DEF Ahead, Video
<1>3. ASSUME NEW i \in DOMAIN t, NEW j \in DOMAIN t, i < j,
             t[i].kind = "video", t[j].kind = "video"
      PROVE  Before(once, t[i], t[j])
  <2>1. i \in DOMAIN s
    BY <1>1, <1>3
  <2>2. CASE j \in DOMAIN s
    BY <1>1, <1>3, <2>1, <2>2 DEF Sorted
  <2>3. CASE j = Len(s) + 1
    BY <1>1, <1>2, <1>3, <2>1, <2>3
  <2>4. QED BY <1>1, <2>2, <2>3
<1>4. Sorted(once, t)
  BY <1>3 DEF Sorted
<1>5. Video(t) \subseteq Video(s) \cup {u}
  BY <1>1 DEF Video
<1>6. u.kind # "video" => Video(t) \subseteq Video(s)
  BY <1>1 DEF Video
<1>7. QED BY <1>4, <1>5, <1>6

\* The numbers and ids of the units under way are integers.
LEMMA PlacesType ==
  ASSUME TypeOK
  PROVE  /\ \A x \in Given \cup Held \cup Video(queue) \cup Offered \cup Video(wire) :
              x.n \in Int /\ x.id \in Int
         /\ units \in Int /\ lastId \in Int /\ Once \in BOOLEAN
<1>1. \A x \in Packets : x.n \in Int /\ x.id \in Int
  BY DEF Packets
<1>2. \A x \in Video(queue) \cup Video(wire) : x \in Packets
  BY ElementOfSeq, LenProperties DEF Video, TypeOK
<1>3. \A x \in Held \cup Offered : x \in Packets
  BY DEF Held, Offered, TypeOK
<1>4. \A x \in Given : x.n \in Int /\ x.id \in Int
  BY DEF Given, TypeOK
<1>5. QED BY <1>1, <1>2, <1>3, <1>4 DEF TypeOK, Once

\* A unit that the host sends.
LEMMA SendInLine ==
  ASSUME TypeOK, InLine, NEW id \in 0 .. MaxId, Send(id),
         Once' => Once /\ id >= lastId + 1
  PROVE  InLine'
<1> DEFINE v == [kind |-> "video", n |-> units, id |-> id, idr |-> units % KeyInterval = 0]
<1> USE DEF recv, decoder, control
<1>1. v \in Packets /\ wire \in Seq(Packets) /\ wire' = Append(wire, v)
  <2>1. wire \in Seq(Packets) /\ wire' = Append(wire, v) /\ units < MaxUnits /\ units \in Nat
    BY PacketFacts DEF TypeOK, Send
  <2>2. v \in Packets
    BY PacketFacts, <2>1 DEF Packets
  <2>3. QED BY ONLY <2>1, <2>2
<1>2. Once \in BOOLEAN /\ Once' \in BOOLEAN
  BY DEF Once
<1>3. Line(Once', Given, Held, Video(queue), Offered, Video(wire) \cup {v},
           [n |-> units + 1, id |-> id + 1])
  <2>1. Line(Once, Given, Held, Video(queue), Offered, Video(wire),
             [n |-> units, id |-> lastId + 1])
    BY DEF InLine, NextUnit
  <2>2. v.n = units /\ v.id = id /\ id \in Int
    OBVIOUS
  <2> HIDE DEF v
  <2>3. Line(Once', Given, Held, Video(queue), Offered, Video(wire) \cup {v},
             [n |-> units + 1, id |-> v.id + 1])
    BY <1>2, <2>1, <2>2, PlacesType, LineGrows
  <2>4. QED BY <2>2, <2>3
<1>4. /\ Sorted(Once', wire) /\ Sorted(Once', queue)
      /\ Ahead(Once', Video(wire), {v})
  <2>1. \A s : Sorted(Once, s) => Sorted(Once', s)
    BY <1>2 DEF Sorted, Before
  <2>2. Ahead(Once', Video(wire), {v})
    <3>1. \A x \in Video(wire) : Before(Once, x, NextUnit) /\ x.n \in Int /\ x.id \in Int
      BY PlacesType DEF InLine, Line, Ahead
    <3>2. QED BY <3>1, PlacesType DEF Ahead, Before, NextUnit
  <2>3. QED BY <2>1, <2>2 DEF InLine
<1>5. Sorted(Once', wire') /\ Video(wire') \subseteq Video(wire) \cup {v}
  BY <1>1, <1>2, <1>4, SortedAppend
<1>6. /\ Given' = Given /\ Held' = Held /\ Video(queue)' = Video(queue) /\ Offered' = Offered
      /\ queue' = queue
      /\ NextUnit' = [n |-> units + 1, id |-> id + 1]
  BY DEF Send, Given, Held, Offered, NextUnit, Video
<1>7. Line(Once', Given', Held', Video(queue)', Offered', Video(wire'), NextUnit')
  BY <1>2, <1>3, <1>5, <1>6, LineShrinks
<1>8. QED BY <1>4, <1>5, <1>6, <1>7 DEF InLine, Video

\* A step of which no place gains a unit.
LEMMA QuietInLine ==
  ASSUME TypeOK, InLine, UNCHANGED <<units, lastId, refreshes>>,
         Given' \in SUBSET Given, Held' \in SUBSET Held, Offered' \in SUBSET Offered,
         wire' = wire, queue' \in {queue, <<>>}
  PROVE  InLine'
<1>1. Once' = Once /\ Once \in BOOLEAN /\ NextUnit' = NextUnit /\ Video(wire)' = Video(wire)
  BY DEF Once, NextUnit, Video
<1>2. Video(queue)' \subseteq Video(queue) /\ Sorted(Once', queue')
      /\ \A i \in DOMAIN queue' : queue'[i].kind = "video"
  BY <1>1 DEF Video, Sorted, InLine
<1>3. Line(Once, Given', Held', Video(queue)', Offered', Video(wire)', NextUnit)
  BY <1>1, <1>2, LineShrinks DEF InLine
<1>4. QED BY <1>1, <1>2, <1>3 DEF InLine

\* A read moves the first unit of the wire to the frame.
LEMMA ReceiveInLine ==
  ASSUME TypeOK, InLine, rpc \in {"first", "read"}, NEW next \in {"start", "offer"},
         Receive(next),
         UNCHANGED <<units, lastId, refreshes, queue, Given, Held>>
  PROVE  InLine'
<1>1. Once' = Once /\ Once \in BOOLEAN /\ NextUnit' = NextUnit /\ Video(queue)' = Video(queue)
  BY DEF Once, NextUnit, Video
<1>2. wire \in Seq(Packets) /\ wire # <<>> /\ wire' = Tail(wire) /\ Sorted(Once, wire)
  BY DEF TypeOK, InLine, Receive
<1>3. /\ Sorted(Once, wire') /\ Video(wire') \subseteq Video(wire)
      /\ Head(wire).kind = "video" =>
           Head(wire) \in Video(wire) /\ Ahead(Once, {Head(wire)}, Video(wire'))
  BY <1>1, <1>2, SortedTail
<1>4. Line(Once, Given, Held, Video(queue), {}, Video(wire), NextUnit)
  BY DEF InLine, Offered
<1>5. CASE Head(wire).kind = "video"
  <2>1. Offered' = {Head(wire)}
    BY <1>5 DEF Receive, Offered
  <2>2. Line(Once, Given, Held, Video(queue), Offered', Video(wire'), NextUnit)
    BY <1>1, <1>3, <1>4, <1>5, <2>1, LineReads
  <2>3. QED BY <1>1, <1>3, <1>5, <2>1, <2>2 DEF InLine, Video
<1>6. CASE Head(wire).kind # "video"
  <2>1. Offered' = {}
    BY <1>6 DEF Receive, Offered
  <2>2. Line(Once, Given, Held, Video(queue), Offered', Video(wire'), NextUnit)
    BY <1>1, <1>3, <1>4, <2>1, LineShrinks
  <2>3. QED BY <1>1, <1>3, <2>1, <2>2 DEF InLine, Video
<1>7. QED BY <1>5, <1>6

\* The queue that is offered the frame, and the units it may hold then.
LEMMA OfferInLine ==
  ASSUME TypeOK, InLine, rpc \in {"offerFirst", "offer"}, Offer(frame), rpc' = "loop",
         UNCHANGED <<units, lastId, refreshes, wire, Given, Held>>
  PROVE  InLine'
<1>1. /\ Once' = Once /\ Once \in BOOLEAN /\ NextUnit' = NextUnit /\ Video(wire)' = Video(wire)
      /\ Offered = {frame} /\ Offered' = {} /\ frame.kind = "video"
  BY DEF Once, NextUnit, Video, Offered, InLine
<1>2. /\ queue \in Seq(Packets) /\ frame \in Packets /\ Sorted(Once, queue)
      /\ Ahead(Once, Video(queue), {frame})
      /\ \A i \in DOMAIN queue : queue[i].kind = "video"
  BY <1>1 DEF TypeOK, InLine, Line, Ahead
<1>3. /\ Sorted(Once, queue') /\ Video(queue') \subseteq Video(queue) \cup {frame}
      /\ \A i \in DOMAIN queue' : queue'[i].kind = "video"
  <2>1. CASE queue' = queue
    BY <1>2, <2>1
  <2>2. CASE queue' = Append(queue, frame)
    <3>1. \A i \in DOMAIN queue' : queue'[i].kind = "video"
      BY <1>1, <1>2, <2>2, AppendTo
    <3>2. QED BY <1>1, <1>2, <2>2, <3>1, SortedAppend
  <2>3. CASE queue # <<>> /\ queue' = Append(Tail(queue), frame)
    <3>1. /\ Tail(queue) \in Seq(Packets) /\ Sorted(Once, Tail(queue))
          /\ Video(Tail(queue)) \subseteq Video(queue)
      BY <1>1, <1>2, <2>3, SortedTail, TailOf
    <3>2. \A i \in DOMAIN Tail(queue) : Tail(queue)[i].kind = "video"
      BY <1>2, <2>3, TailOf
    <3>3. Ahead(Once, Video(Tail(queue)), {frame})
      BY <1>2, <3>1 DEF Ahead
    <3>4. Sorted(Once, queue') /\ Video(queue') \subseteq Video(Tail(queue)) \cup {frame}
      BY <1>1, <1>2, <2>3, <3>1, <3>3, SortedAppend
    <3>5. \A i \in DOMAIN queue' : queue'[i].kind = "video"
      BY <1>1, <1>2, <2>3, <3>1, <3>2, AppendTo
    <3>6. QED BY <3>1, <3>4, <3>5
  <2>4. ~(~Full) => queue # <<>>
    BY <1>2, EmptySeq, PacketFacts DEF Full
  <2>5. QED BY <2>1, <2>2, <2>3, <2>4 DEF Offer
<1>4. Line(Once, Given, Held, Video(queue), {frame}, Video(wire), NextUnit)
  BY <1>1 DEF InLine
<1>5. Line(Once, Given, Held, Video(queue'), {}, Video(wire), NextUnit)
  BY <1>1, <1>3, <1>4, LineOffers
<1>6. QED BY <1>1, <1>3, <1>5 DEF InLine, Video

\* Every step keeps the units in line, and knows what the codec refers to.
LEMMA NextInLine == TypeOK /\ InLine /\ Referenced /\ [Next]_vars => InLine' /\ Referenced'
<1> SUFFICES ASSUME TypeOK, InLine, Referenced, [Next]_vars PROVE InLine' /\ Referenced'
  OBVIOUS
<1> USE DEF host, recv, decoder, control
<1>1. CASE SendNew
  <2>1. PICK step \in {1, 2} : lastId + step <= MaxId /\ Send(lastId + step)
    BY <1>1 DEF SendNew
  <2>2. lastId + step \in 0 .. MaxId /\ lastId + step >= lastId + 1 /\ Once' = Once
    BY <1>1, <2>1, PacketFacts DEF TypeOK, SendNew, Once
  <2>3. QED BY <2>1, <2>2, SendInLine DEF Send, Referenced
<1>2. CASE SendRefresh
  <2>1. ~Once' /\ lastId \in 0 .. MaxId
    BY <1>2 DEF SendRefresh, Once, TypeOK
  <2>2. QED BY <1>2, <2>1, SendInLine DEF SendRefresh, Send, Referenced
<1>3. CASE SendHeartbeat
  <2>1. wire' = Append(wire, Heartbeat) /\ Heartbeat \in Packets /\ wire \in Seq(Packets)
        /\ Heartbeat.kind # "video"
    BY <1>3, PacketFacts DEF SendHeartbeat, TypeOK, Heartbeat
  <2>2. Once' = Once /\ Once \in BOOLEAN /\ Sorted(Once, wire)
    BY <1>3 DEF SendHeartbeat, Once, InLine
  <2>3. Sorted(Once, wire') /\ Video(wire') \subseteq Video(wire)
    BY <2>1, <2>2, SortedAppend
  <2>4. /\ UNCHANGED <<Given, Held, Offered, NextUnit, queue>> /\ Video(queue)' = Video(queue)
        /\ Referenced'
    BY <1>3 DEF SendHeartbeat, Given, Held, Offered, NextUnit, Video, Referenced
  <2>5. Line(Once, Given', Held', Video(queue)', Offered', Video(wire'), NextUnit')
    BY <2>2, <2>3, <2>4, LineShrinks DEF InLine
  <2>6. QED BY <2>2, <2>3, <2>4, <2>5 DEF InLine, Video
<1>4. CASE ReadFirst
  <2>1. /\ UNCHANGED <<units, lastId, refreshes, queue, Given, Held>>
        /\ rpc = "first" /\ Referenced'
    BY <1>4 DEF ReadFirst, Given, Held, Referenced, Receive
  <2>2. CASE Receive("start")
    BY <2>1, <2>2, ReceiveInLine
  <2>3. CASE rpc' = "returned" /\ UNCHANGED <<frame, wire>>
    BY <2>1, <2>3, QuietInLine DEF Offered
  <2>4. QED BY <1>4, <2>2, <2>3 DEF ReadFirst
<1>5. CASE StartDecoder
  <2>1. /\ UNCHANGED <<units, lastId, refreshes, wire, queue>> /\ Given' = {}
        /\ Held' = {} /\ Offered' \in SUBSET Offered /\ Referenced'
    BY <1>5 DEF StartDecoder, Given, Held, Offered, Referenced
  <2>2. QED BY <2>1, QuietInLine
<1>6. CASE OfferFirst \/ OfferFrame
  BY <1>6, OfferInLine DEF OfferFirst, OfferFrame, Given, Held, Referenced
<1>7. CASE ReadNext
  <2>1. /\ UNCHANGED <<units, lastId, refreshes, queue, Given, Held>>
        /\ rpc = "read" /\ Referenced'
    BY <1>7 DEF ReadNext, Given, Held, Referenced, Receive
  <2>2. CASE Receive("offer")
    BY <2>1, <2>2, ReceiveInLine
  <2>3. CASE rpc' = "finally" /\ UNCHANGED <<frame, wire>>
    BY <2>1, <2>3, QuietInLine DEF Offered
  <2>4. QED BY <1>7, <2>2, <2>3 DEF ReadNext
<1>8. CASE TakeFrame
  <2>1. CASE queue # <<>> /\ unit' = Head(queue) /\ queue' = Tail(queue) /\ dpc' = "decode"
    <3>1. queue \in Seq(Packets) /\ Once' = Once /\ Once \in BOOLEAN /\ Sorted(Once, queue)
      BY <1>8 DEF TypeOK, InLine, Once, TakeFrame
    <3>2. Head(queue) = queue[1] /\ 1 \in DOMAIN queue
      BY <2>1, <3>1, TailOf
    <3>3. Head(queue).kind = "video"
      BY <3>2 DEF InLine
    <3>4. /\ Sorted(Once, queue') /\ Video(queue') \subseteq Video(queue)
          /\ Head(queue) \in Video(queue) /\ Ahead(Once, {Head(queue)}, Video(queue'))
      BY <2>1, <3>1, <3>3, SortedTail
    <3>5. \A i \in DOMAIN queue' : queue'[i].kind = "video"
      BY <2>1, <3>1, TailOf DEF InLine
    <3>6. /\ UNCHANGED <<Given, Offered, NextUnit, wire>> /\ Video(wire)' = Video(wire)
          /\ Held = {} /\ Held' = {Head(queue)} /\ Referenced'
      BY <1>8, <2>1 DEF TakeFrame, Given, Held, Offered, NextUnit, Video, Referenced
    <3>7. Line(Once, Given, Held', Video(queue'), Offered, Video(wire), NextUnit)
      BY <3>1, <3>4, <3>6, LineTakes DEF InLine
    <3>8. QED BY <3>1, <3>4, <3>5, <3>6, <3>7 DEF InLine, Video
  <2>2. CASE dpc' = "release" /\ UNCHANGED <<unit, queue>>
    BY <1>8, <2>2, QuietInLine DEF TakeFrame, Given, Held, Offered, Referenced
  <2>3. QED BY <1>8, <2>1, <2>2 DEF TakeFrame
<1>9. CASE Decode
  <2>1. /\ Once' = Once /\ Once \in BOOLEAN /\ UNCHANGED <<Offered, NextUnit, wire, queue>>
        /\ Video(wire)' = Video(wire) /\ Video(queue)' = Video(queue)
        /\ Held = {unit} /\ Held' = {}
    BY <1>9 DEF Decode, Once, Offered, NextUnit, Held, Video
  <2>2. Given' \subseteq {[n |-> unit.n, id |-> unit.id]}
    BY <1>9 DEF Decode, Given, TypeOK
  <2>3. Line(Once, Given, {unit}, Video(queue), Offered, Video(wire), NextUnit)
    BY <2>1 DEF InLine
  <2>4. Line(Once, Given', Held', Video(queue)', Offered', Video(wire)', NextUnit')
    BY <2>1, <2>2, <2>3, LineGives
  <2>5. Referenced'
    <3>1. unit.id >= 0
      BY DEF TypeOK, Packets
    <3>2. QED BY <1>9, <3>1 DEF Decode, Referenced
  <2>6. QED BY <2>1, <2>4, <2>5 DEF InLine
<1>10. CASE HostCloses
  BY <1>10, QuietInLine DEF HostCloses, Given, Held, Offered, Referenced
<1>11. CASE LoopHead \/ Finally \/ JoinDecoder \/ JoinWatchdog
  BY <1>11, QuietInLine DEF LoopHead, Finally, Shut, JoinDecoder, JoinWatchdog,
     Given, Held, Offered, Referenced
<1>12. CASE TakeInterrupted \/ DecoderCloses \/ ReleaseCodec
  BY <1>12, QuietInLine DEF TakeInterrupted, DecoderCloses, ReleaseCodec, Shut,
     Given, Held, Offered, Referenced
<1>13. CASE WatchdogFires \/ WatchdogCloses \/ WatchdogEnds \/ RequestStop \/ Close
  BY <1>13, QuietInLine DEF WatchdogFires, WatchdogCloses, WatchdogEnds, RequestStop, Close,
     Shut,
     Given, Held, Offered, Referenced
<1>14. CASE UNCHANGED vars
  BY <1>14, QuietInLine DEF vars, Given, Held, Offered, Referenced
<1>15. QED
  BY <1>1, <1>2, <1>3, <1>4, <1>5, <1>6, <1>7, <1>8, <1>9, <1>10, <1>11, <1>12, <1>13, <1>14
  DEF Next, HostStep, ReceiverStep, DecoderStep, WatchdogStep

----------------------------------------------------------------------------
(* A lost unit is noticed, and a queued IDR is kept.                       *)

\* The codec is not given a unit whose predecessor it has not had: between two units
\* that it is given one after the other no id is missing, hence no unit.
LEMMA NextLoss ==
  TypeOK /\ InLine /\ Referenced /\ LossNoticed /\ [Next]_vars => LossNoticed'
<1> SUFFICES ASSUME TypeOK, InLine, Referenced, LossNoticed, [Next]_vars,
                    starved' = 0, refreshes' = 0
             PROVE  chain' # "broken"
  BY DEF LossNoticed
<1> USE DEF host, recv, decoder, control
<1>1. CASE Decode
  <2>1. /\ refreshes = 0 /\ starved = 0 /\ chain # "broken"
        /\ chain' \in {chain, Reference(unit)} /\ dpc = "decode"
    BY <1>1 DEF Decode, LossNoticed, TypeOK
  <2>2. CASE chain' = Reference(unit) /\ ~unit.idr /\ chain = "clean" /\ ~waiting'
    <3>1. ~waiting /\ unit.id <= lastFrameId + 1
      <4>1. unit.id \in Int /\ lastFrameId \in Int /\ lastFrameId >= 0 /\ waiting \in BOOLEAN
        BY <2>2 DEF Referenced, TypeOK, Packets
      <4>2. ~(waiting \/ Gap(unit.id))
        BY <1>1, <2>2 DEF Decode
      <4>3. QED BY <4>1, <4>2 DEF Gap
    <3>2. [n |-> last, id |-> lastFrameId] \in Given /\ unit \in Held
      BY <2>1, <2>2, <3>1 DEF Given, Held
    <3>3. Before(Once, [n |-> last, id |-> lastFrameId], unit)
      BY <3>2 DEF InLine, Line, Ahead
    <3>4. unit.n = last + 1
      <4>1. unit.n \in Int /\ unit.id \in Int /\ last \in Int /\ lastFrameId \in Int
        BY DEF TypeOK, Packets
      <4>2. last < unit.n /\ (refreshes = 0 => unit.n - last <= unit.id - lastFrameId)
        BY ONLY <3>3 DEF Before, Once
      <4>3. QED BY ONLY <2>1, <3>1, <4>1, <4>2
    <3>5. QED BY <2>2, <3>4 DEF Reference
  <2>3. CASE chain' = chain \/ unit.idr \/ chain # "clean"
    BY <2>1, <2>3 DEF Reference, TypeOK
  <2>4. QED BY <1>1, <2>1, <2>2, <2>3 DEF Decode
<1>2. CASE ~Decode
  <2>1. chain' = chain /\ starved' = starved
    BY <1>2 DEF Next, HostStep, SendNew, SendRefresh, SendHeartbeat, HostCloses, Send,
       ReceiverStep, ReadFirst, StartDecoder, OfferFirst, LoopHead, ReadNext, OfferFrame,
       Finally, JoinDecoder, JoinWatchdog, DecoderStep, TakeFrame, TakeInterrupted,
       DecoderCloses, ReleaseCodec, WatchdogFires, WatchdogStep, WatchdogCloses, WatchdogEnds,
       RequestStop, Close, vars
  <2>2. refreshes = 0
    BY <1>2 DEF Next, HostStep, SendNew, SendRefresh, SendHeartbeat, HostCloses, Send,
       ReceiverStep, ReadFirst, StartDecoder, OfferFirst, LoopHead, ReadNext, OfferFrame,
       Finally, JoinDecoder, JoinWatchdog, DecoderStep, TakeFrame, TakeInterrupted,
       DecoderCloses, ReleaseCodec, WatchdogFires, WatchdogStep, WatchdogCloses, WatchdogEnds,
       RequestStop, Close, vars, TypeOK
  <2>3. QED BY <2>1, <2>2 DEF LossNoticed
<1>3. QED BY <1>1, <1>2

\* The inductive invariant holds from the start.
LEMMA InitInv == Init => IInv
<1> SUFFICES ASSUME Init PROVE IInv
  OBVIOUS
<1>1. Given = {} /\ Held = {} /\ Offered = {} /\ Once \in BOOLEAN
  BY DEF Init, Given, Held, Offered, Once
<1>2. DOMAIN wire = {} /\ DOMAIN queue = {}
  BY EmptySeq, LenProperties DEF Init
<1>3. Video(wire) = {} /\ Video(queue) = {} /\ Sorted(Once, wire) /\ Sorted(Once, queue)
  BY <1>2 DEF Video, Sorted
<1>4. InLine
  BY <1>1, <1>2, <1>3 DEF InLine, Line, Ahead
<1>5. QED
  BY <1>4, InitType DEF Init, IInv, Reasons, Referenced, LossNoticed

\* No step leaves the inductive invariant.
LEMMA NextInv == IInv /\ [Next]_vars => IInv'
BY NextType, NextReasons, NextInLine, NextLoss DEF IInv

\* While every frame is encoded once and the codec takes every unit, the frame ids tell
\* the decoder of every unit that the queue has lost.
THEOREM Noticed == Spec => []LossNoticed
<1>1. IInv => LossNoticed
  BY DEF IInv
<1>2. QED BY <1>1, InitInv, NextInv, PTL DEF Spec, Safety

\* What a step may do to a queued IDR.
LEMMA NextKeepsIdr ==
  ASSUME IInv, [Next]_vars, NEW i \in DOMAIN queue, queue[i].idr
  PROVE  \/ queue[i] \in ToSet(queue')
         \/ dpc' = "decode" /\ unit' = queue[i]
         \/ closed'
         \/ \E f \in ToSet(queue') : f.idr /\ f.n > queue[i].n
<1> USE DEF host, recv, decoder, control
<1>1. queue \in Seq(Packets) /\ frame \in Packets /\ i \in 1 .. Len(queue) /\ queue # <<>>
  <2>1. queue \in Seq(Packets) /\ frame \in Packets
    BY DEF IInv, TypeOK
  <2>2. i \in 1 .. Len(queue)
    BY <2>1, LenProperties
  <2>3. QED BY <2>1, <2>2, EmptySeq
<1>2. CASE queue' = queue
  BY <1>2 DEF ToSet
<1>3. i > 1 => queue[i] \in ToSet(Tail(queue))
  <2>1. i > 1 => i - 1 \in DOMAIN Tail(queue) /\ Tail(queue)[i - 1] = queue[i]
    BY <1>1, HeadTailProperties, LenProperties
  <2>2. QED BY <2>1 DEF ToSet
<1>4. ASSUME NEW s \in Seq(Packets), NEW f \in Packets
      PROVE  ToSet(s) \cup {f} \subseteq ToSet(Append(s, f))
  BY <1>4, AppendTo DEF ToSet
<1>5. CASE OfferFirst \/ OfferFrame
  <2>1. Offer(frame) /\ rpc \in {"offerFirst", "offer"}
    BY <1>5 DEF OfferFirst, OfferFrame
  <2>2. CASE queue' = Append(queue, frame)
    BY <1>1, <1>4, <2>2 DEF ToSet
  <2>3. CASE ~Refuse(frame) /\ queue' = Append(Tail(queue), frame)
    <3>1. Tail(queue) \in Seq(Packets) /\ Head(queue) = queue[1]
      BY <1>1, TailOf
    <3>2. CASE i > 1
      BY <1>1, <1>3, <1>4, <2>3, <3>1, <3>2
    <3>3. CASE i = 1
      <4>1. frame.idr /\ frame \in ToSet(queue')
        BY <1>1, <1>4, <2>3, <3>1, <3>3 DEF Refuse, Packets
      <4>2. queue[i] \in Video(queue) /\ frame \in Offered
        BY <2>1 DEF IInv, InLine, Video, Offered
      <4>3. queue[i].n < frame.n
        BY <4>2 DEF IInv, InLine, Line, Ahead, Before
      <4>4. queue[i].n \in Int /\ frame.n \in Int
        <5>1. queue[i] \in Packets
          BY <1>1, ElementOfSeq
        <5>2. QED BY <1>1, <5>1 DEF Packets
      <4>5. QED BY <4>1, <4>3, <4>4
    <3>4. QED BY <1>1, <3>2, <3>3
  <2>4. QED BY <1>2, <2>1, <2>2, <2>3 DEF Offer
<1>6. CASE TakeFrame
  <2>1. CASE unit' = Head(queue) /\ queue' = Tail(queue) /\ dpc' = "decode"
    BY <1>1, <1>3, <2>1, TailOf
  <2>2. QED BY <1>2, <1>6, <2>1 DEF TakeFrame
<1>7. CASE Finally \/ DecoderCloses \/ WatchdogCloses \/ Close
  BY <1>7 DEF Finally, DecoderCloses, WatchdogCloses, Close, Shut
<1>8. CASE SendNew \/ SendRefresh \/ SendHeartbeat \/ HostCloses
  BY <1>2, <1>8 DEF SendNew, SendRefresh, SendHeartbeat, HostCloses, Send
<1>9. CASE ReadFirst \/ StartDecoder \/ LoopHead \/ ReadNext \/ JoinDecoder \/ JoinWatchdog
  BY <1>2, <1>9 DEF ReadFirst, StartDecoder, LoopHead, ReadNext, JoinDecoder, JoinWatchdog
<1>10. CASE TakeInterrupted \/ Decode \/ ReleaseCodec
  BY <1>2, <1>10 DEF TakeInterrupted, Decode, ReleaseCodec
<1>11. CASE WatchdogFires \/ WatchdogEnds \/ RequestStop \/ UNCHANGED vars
  BY <1>2, <1>11 DEF WatchdogFires, WatchdogEnds, RequestStop, vars
<1>12. QED
  BY <1>5, <1>6, <1>7, <1>8, <1>9, <1>10, <1>11
  DEF Next, HostStep, ReceiverStep, DecoderStep, WatchdogStep

\* The queue gives up an IDR only to the decoder, with the stream, or for a later IDR.
THEOREM Kept == Spec => IdrKept
<1>1. IInv /\ [Next]_vars =>
        [\A i \in DOMAIN queue :
           queue[i].idr =>
             \/ queue[i] \in ToSet(queue')
             \/ dpc' = "decode" /\ unit' = queue[i]
             \/ closed'
             \/ \E f \in ToSet(queue') : f.idr /\ f.n > queue[i].n]_vars
  BY NextKeepsIdr
<1>2. QED
  BY <1>1, InitInv, NextInv, PTL DEF Spec, Safety, IdrKept

----------------------------------------------------------------------------
(* The packets on the wire.                                                *)

\* What the assumption on the format says of its constants.
LEMMA FormatFacts ==
  /\ ByteOK /\ FormatOK /\ CursorOK /\ Base \in Nat /\ Base >= 4
  /\ Types \in Nat /\ {Slice, Idr, Sps} \subseteq 0 .. Types - 1
  /\ Slice # Idr /\ Idr # Sps /\ Sps # Slice
  /\ Word \in Nat /\ DWord \in Nat /\ DWord > 511
  /\ MaxUnit \in Nat /\ MaxUnit >= 2 * Base + 36 /\ MaxSide \in 1 .. Word - 1 /\ MaxId < DWord
<1>1. /\ Base \in Nat /\ Base >= 4 /\ Base = 2 * (Base \div 2)
      /\ Types \in Nat /\ {Slice, Idr, Sps} \subseteq 0 .. Types - 1
      /\ Slice # Idr /\ Idr # Sps /\ Sps # Slice
      /\ Magic \in Nat /\ Magic < Word
      /\ MaxUnit \in 2 * Base + 36 .. ControlFlag - 1
      /\ MaxSide \in 1 .. Word - 1
      /\ MaxId < DWord
  BY FormatAssumption
<1>2. ByteOK
  BY ONLY <1>1 DEF ByteOK
<1>3. Word \in Nat /\ DWord \in Nat
  BY <1>2, Words
<1>4. ASSUME NEW k \in Nat, NEW j \in Nat, k >= j PROVE Base * k \in Nat /\ Base * k >= 4 * j
  BY ONLY <1>1, <1>4
<1>5. DWord > 511
  <2> DEFINE b2 == Base * Base
             b3 == Base * b2
             b4 == Base * b3
             b5 == Base * b4
             b6 == Base * b5
             b7 == Base * b6
             b8 == Base * b7
  <2>1. b2 \in Nat /\ b2 >= 16
    BY <1>1, <1>4
  <2> HIDE DEF b2
  <2>2. b3 \in Nat /\ b3 >= 64
    BY <1>4, <2>1
  <2> HIDE DEF b3
  <2>3. b4 \in Nat /\ b4 >= 256
    BY <1>4, <2>2
  <2> HIDE DEF b4
  <2>4. b5 \in Nat /\ b5 >= 1024
    BY <1>4, <2>3
  <2> HIDE DEF b5
  <2>5. b6 \in Nat /\ b6 >= 1024
    BY <1>4, <2>4
  <2> HIDE DEF b6
  <2>6. b7 \in Nat /\ b7 >= 1024
    BY <1>4, <2>5
  <2> HIDE DEF b7
  <2>7. b8 \in Nat /\ b8 >= 1024
    BY <1>4, <2>6
  <2>8. b8 = DWord
    BY Zenon DEF b8, b7, b6, b5, b4, b3, b2, DWord, Word
  <2> HIDE DEF b8
  <2>9. QED BY <2>7, <2>8
<1>6. ControlFlag \in Nat
  <2>1. Base \div 2 \in Nat
    BY ONLY <1>1
  <2> DEFINE h == Base \div 2
  <2> HIDE DEF h
  <2>2. ASSUME NEW i \in Nat, NEW j \in Nat PROVE i * j \in Nat
    OBVIOUS
  <2>3. Base * Base * Base * h \in Nat
    BY ONLY <1>1, <2>1, <2>2 DEF h
  <2>4. QED BY <2>3, Zenon DEF ControlFlag, h
<1>7. MaxUnit \in Nat /\ MaxUnit >= 2 * Base + 36 /\ MaxUnit < ControlFlag
  BY ONLY <1>1, <1>6
<1>8. FormatOK
  BY ONLY <1>1, <1>2, <1>7 DEF FormatOK
<1>9. CursorOK
  BY ONLY <1>1, <1>3, <1>7 DEF CursorOK
<1>10. QED BY ONLY <1>1, <1>2, <1>3, <1>5, <1>7, <1>8, <1>9

\* What follows the first byte of a unit.
IsBody(b) ==
  /\ b \in Seq(Nat) /\ Len(b) \in 1 .. 2 * Base - 1 /\ b[Len(b)] # 0
  /\ \A i \in 1 .. Len(b) - 2 : ~(b[i] = 0 /\ b[i + 1] = 0 /\ b[i + 2] = 1)

LEMMA BodiesAre ==
  /\ \A b \in Bodies : IsBody(b) /\ Len(b) <= 3
  /\ \A b \in LongBodies : IsBody(b)
  /\ IsBody(<<Top>>) /\ IsBody(<<Top, 1>>) /\ IsBody(<<Top, 0, 1>>)
<1>1. Base \in Nat /\ Base >= 4 /\ Top = Base - 1 /\ Top \in Nat /\ Top # 0 /\ Top # 1
  BY FormatFacts DEF Top
<1> HIDE DEF Top
<1>2. ASSUME NEW b \in Bodies PROVE IsBody(b) /\ Len(b) <= 3
  <2>1. PICK n \in 1 .. 3 : b \in [1 .. n -> {0, 1, Top}]
    BY DEF Bodies
  <2>2. /\ b[Len(b)] # 0
        /\ \A i \in 1 .. Len(b) - 2 : ~(b[i] = 0 /\ b[i + 1] = 0 /\ b[i + 2] # Top)
    BY DEF Bodies
  <2>3. b \in Seq(Nat) /\ Len(b) = n
    BY ONLY <1>1, <2>1
  <2>4. ASSUME NEW i \in 1 .. Len(b) - 2, b[i] = 0, b[i + 1] = 0, b[i + 2] = 1 PROVE FALSE
    BY ONLY <1>1, <2>2, <2>4
  <2>5. Len(b) \in 1 .. 2 * Base - 1 /\ Len(b) <= 3
    BY ONLY <1>1, <2>3, n \in 1 .. 3
  <2>6. QED BY ONLY <2>2, <2>3, <2>4, <2>5 DEF IsBody
<1>3. ASSUME NEW b \in LongBodies PROVE IsBody(b)
  <2>1. PICK n \in {Base - 2, Base - 1, 2 * Base - 2, 2 * Base - 1} : b = [i \in 1 .. n |-> Top]
    BY DEF LongBodies
  <2>2. n \in 1 .. 2 * Base - 1
    BY ONLY <1>1, <2>1
  <2>3. b \in Seq(Nat) /\ Len(b) = n /\ \A i \in 1 .. n : b[i] = Top
    BY ONLY <1>1, <2>1, <2>2
  <2>4. b[Len(b)] # 0
    BY ONLY <1>1, <2>2, <2>3
  <2>5. ASSUME NEW i \in 1 .. Len(b) - 2, b[i] = 0, b[i + 1] = 0, b[i + 2] = 1 PROVE FALSE
    <3>1. i \in 1 .. n
      BY ONLY <2>2, <2>3, i \in 1 .. Len(b) - 2
    <3>2. QED BY ONLY <1>1, <2>3, <2>5, <3>1
  <2>6. Len(b) \in 1 .. 2 * Base - 1
    BY ONLY <2>2, <2>3
  <2>7. QED BY ONLY <2>3, <2>4, <2>5, <2>6 DEF IsBody
<1>4. IsBody(<<Top>>) /\ IsBody(<<Top, 1>>) /\ IsBody(<<Top, 0, 1>>)
  BY ONLY <1>1 DEF IsBody
<1>5. QED BY <1>2, <1>3, <1>4

\* A unit of a type, as the code finds it.
IsUnit(u, t) ==
  /\ u \in Seq(Nat) /\ IsNal(u) /\ Len(u) \in 2 .. 2 * Base
  /\ \A type \in {Slice, Idr, Sps} : OfType(u, type) <=> type = t

LEMMA NalIs ==
  ASSUME NEW t \in {Slice, Idr, Sps}, NEW b, IsBody(b)
  PROVE  IsUnit(Nal(t, b), t) /\ Len(Nal(t, b)) = Len(b) + 1
<1>1. /\ Base \in Nat /\ Base >= 4 /\ Types \in Nat /\ {Slice, Idr, Sps} \subseteq 0 .. Types - 1
  BY FormatFacts
<1> DEFINE c == << Types + t >>
           u == Cat(c, b)
<1>2. /\ b \in Seq(Nat) /\ Len(b) \in 1 .. 2 * Base - 1 /\ b[Len(b)] # 0
      /\ \A i \in 1 .. Len(b) - 2 : ~(b[i] = 0 /\ b[i + 1] = 0 /\ b[i + 2] = 1)
  BY DEF IsBody
<1>3. c \in Seq(Nat) /\ Len(c) = 1 /\ c[1] = Types + t /\ t \in Nat /\ t < Types
  BY ONLY <1>1, t \in {Slice, Idr, Sps}
<1>4. u = Nal(t, b)
  BY Zenon DEF Nal, Cat
<1> HIDE DEF c
<1>5. /\ u \in Seq(Nat) /\ Len(u) = 1 + Len(b)
      /\ (\A i \in 1 .. 1 : u[i] = c[i]) /\ (\A i \in 1 .. Len(b) : u[1 + i] = b[i])
  <2>1. /\ u \in Seq(Nat) /\ Len(u) = Len(c) + Len(b)
        /\ (\A i \in 1 .. Len(c) : u[i] = c[i])
        /\ (\A i \in 1 .. Len(b) : u[Len(c) + i] = b[i])
    BY ONLY <1>2, <1>3, CatIs
  <2>2. QED BY <1>3, <2>1
<1> HIDE DEF u
<1>6. u[1] = Types + t /\ u[1] # 0
  BY ONLY <1>1, <1>3, <1>5
<1>7. Len(b) \in Nat /\ Len(b) >= 1 /\ Len(b) <= 2 * Base - 1
  BY ONLY <1>1, <1>2
<1>8. Len(u) \in 2 .. 2 * Base
  BY ONLY <1>1, <1>5, <1>7
<1>9. u[Len(u)] # 0
  <2>1. Len(b) \in 1 .. Len(b)
    BY ONLY <1>7
  <2>2. u[1 + Len(b)] = b[Len(b)]
    BY ONLY <1>5, <2>1
  <2>3. QED BY <1>2, <1>5, <2>2
<1>10. ASSUME NEW i \in 1 .. Len(u) - 2, u[i] = 0, u[i + 1] = 0, u[i + 2] = 1 PROVE FALSE
  <2>1. i # 1
    BY ONLY <1>6, <1>10
  <2> DEFINE j == i - 1
  <2>2. j \in 1 .. Len(b) - 2 /\ j \in 1 .. Len(b) /\ j + 1 \in 1 .. Len(b) /\ j + 2 \in 1 .. Len(b)
    BY ONLY <1>5, <1>7, <2>1, i \in 1 .. Len(u) - 2
  <2>3. i = 1 + j /\ i + 1 = 1 + (j + 1) /\ i + 2 = 1 + (j + 2)
    BY ONLY <1>5, <1>7, i \in 1 .. Len(u) - 2
  <2> HIDE DEF j
  <2>4. u[1 + j] = b[j] /\ u[1 + (j + 1)] = b[j + 1] /\ u[1 + (j + 2)] = b[j + 2]
    BY ONLY <1>5, <2>2, Zenon
  <2>5. b[j] = 0 /\ b[j + 1] = 0 /\ b[j + 2] = 1
    BY ONLY <1>10, <2>3, <2>4, Zenon
  <2>6. QED BY ONLY <1>2, <2>2, <2>5, Zenon
<1>11. IsNal(u)
  <2>1. Len(u) >= 1
    BY ONLY <1>5, <1>7
  <2>2. QED BY ONLY <1>5, <1>9, <1>10, <2>1 DEF IsNal
<1>12. ASSUME NEW type \in {Slice, Idr, Sps} PROVE OfType(u, type) <=> type = t
  <2>1. u[1] % Types = t
    BY ONLY <1>1, <1>3, <1>6
  <2>2. QED BY ONLY <2>1 DEF OfType
<1>13. QED BY ONLY <1>4, <1>5, <1>7, <1>8, <1>11, <1>12 DEF IsUnit

\* The units of a picture.
IsPicture(nals, idr) ==
  /\ nals \in Seq(Seq(Nat)) /\ Len(nals) \in 1 .. 3
  /\ \A k \in 1 .. Len(nals) : /\ nals[k] \in Seq(Nat) /\ IsNal(nals[k])
                               /\ Len(nals[k]) \in 2 .. 2 * Base
  /\ Len(nals) > 1 => \A k \in 1 .. Len(nals) : Len(nals[k]) <= 4
  /\ OfType(nals[1], IF idr THEN Sps ELSE Slice)
  /\ idr <=> \E k \in 1 .. Len(nals) : OfType(nals[k], Idr)

LEMMA PicturesAre ==
  ASSUME NEW idr \in BOOLEAN, NEW nals \in Pictures(idr)
  PROVE  IsPicture(nals, idr)
<1>1. Slice # Idr /\ Idr # Sps /\ Sps # Slice
  BY FormatFacts
<1>2. ASSUME NEW t \in {Slice, Idr, Sps}, NEW u, IsUnit(u, t)
      PROVE  /\ u \in Seq(Nat) /\ IsNal(u) /\ Len(u) \in 2 .. 2 * Base
             /\ OfType(u, t) /\ (OfType(u, Idr) <=> t = Idr)
  BY ONLY <1>2, t \in {Slice, Idr, Sps} DEF IsUnit
<1>3. ASSUME NEW b \in Bodies, NEW t \in {Slice, Idr, Sps}
      PROVE  IsUnit(Nal(t, b), t) /\ Len(Nal(t, b)) <= 4
  <2>1. IsBody(b) /\ Len(b) <= 3
    BY BodiesAre
  <2>2. IsUnit(Nal(t, b), t) /\ Len(Nal(t, b)) = Len(b) + 1
    BY <2>1, NalIs
  <2>3. Len(b) \in Nat
    BY <2>1 DEF IsBody
  <2>4. QED BY ONLY <2>1, <2>2, <2>3
<1>4. ASSUME NEW t \in {Slice, Idr, Sps}, NEW b \in {<<Top>>, <<Top, 1>>, <<Top, 0, 1>>}
      PROVE  IsUnit(Nal(t, b), t) /\ Len(Nal(t, b)) <= 4
  <2>1. IsBody(b)
    BY BodiesAre
  <2>2. IsUnit(Nal(t, b), t) /\ Len(Nal(t, b)) = Len(b) + 1
    BY <2>1, NalIs
  <2>3. Len(b) \in Nat /\ Len(b) <= 3
    <3>1. b = <<Top>> \/ b = <<Top, 1>> \/ b = <<Top, 0, 1>>
      OBVIOUS
    <3>2. Len(<<Top>>) = 1 /\ Len(<<Top, 1>>) = 2 /\ Len(<<Top, 0, 1>>) = 3
      OBVIOUS
    <3>3. Len(b) = 1 \/ Len(b) = 2 \/ Len(b) = 3
      BY ONLY <3>1, <3>2, Zenon
    <3> DEFINE v == Len(b)
    <3>4. v = 1 \/ v = 2 \/ v = 3
      BY <3>3
    <3> HIDE DEF v
    <3>5. v \in Nat /\ v <= 3
      BY ONLY <3>4
    <3>6. QED BY ONLY <3>5 DEF v
  <2>4. QED BY ONLY <2>2, <2>3
<1>5. ASSUME NEW u, IsUnit(u, Slice), nals = << u >>, ~idr PROVE IsPicture(nals, idr)
  <2>1. /\ u \in Seq(Nat) /\ IsNal(u) /\ Len(u) \in 2 .. 2 * Base
        /\ OfType(u, Slice) /\ ~OfType(u, Idr)
    BY <1>1, <1>2, <1>5
  <2>2. nals \in Seq(Seq(Nat)) /\ Len(nals) = 1 /\ nals[1] = u
    BY ONLY <1>5, <2>1
  <2>3. QED BY ONLY <1>5, <2>1, <2>2 DEF IsPicture
<1>6. ASSUME NEW u, NEW v, NEW t \in {Slice, Idr}, idr = (t = Idr),
             IsUnit(u, IF idr THEN Sps ELSE Slice), IsUnit(v, t), nals = << u, v >>,
             Len(u) <= 4, Len(v) <= 4
      PROVE  IsPicture(nals, idr)
  <2>1. /\ u \in Seq(Nat) /\ IsNal(u) /\ Len(u) \in 2 .. 2 * Base
        /\ OfType(u, IF idr THEN Sps ELSE Slice) /\ ~OfType(u, Idr)
    BY <1>1, <1>2, <1>6
  <2>2. /\ v \in Seq(Nat) /\ IsNal(v) /\ Len(v) \in 2 .. 2 * Base /\ (OfType(v, Idr) <=> idr)
    BY <1>2, <1>6
  <2>3. nals \in Seq(Seq(Nat)) /\ Len(nals) = 2 /\ nals[1] = u /\ nals[2] = v
    BY ONLY <1>6, <2>1, <2>2
  <2>4. \A k \in 1 .. Len(nals) : k = 1 \/ k = 2
    BY ONLY <2>3
  <2>5. idr <=> \E k \in 1 .. Len(nals) : OfType(nals[k], Idr)
    <3>1. 2 \in 1 .. Len(nals)
      BY ONLY <2>3
    <3>2. QED BY ONLY <2>1, <2>2, <2>3, <2>4, <3>1
  <2>6. \A k \in 1 .. Len(nals) : /\ nals[k] \in Seq(Nat) /\ IsNal(nals[k])
                                  /\ Len(nals[k]) \in 2 .. 2 * Base /\ Len(nals[k]) <= 4
    BY ONLY <1>6, <2>1, <2>2, <2>3, <2>4
  <2>7. Len(nals) \in 1 .. 3
    BY ONLY <2>3
  <2>8. OfType(nals[1], IF idr THEN Sps ELSE Slice)
    BY ONLY <2>1, <2>3
  <2>9. QED BY ONLY <2>3, <2>5, <2>6, <2>7, <2>8 DEF IsPicture
<1>7. ASSUME NEW u, NEW v, NEW w, IsUnit(u, Sps), IsUnit(v, Sps), IsUnit(w, Idr), idr,
             nals = << u, v, w >>, Len(u) <= 4, Len(v) <= 4, Len(w) <= 4
      PROVE  IsPicture(nals, idr)
  <2>1. /\ u \in Seq(Nat) /\ IsNal(u) /\ Len(u) \in 2 .. 2 * Base /\ OfType(u, Sps)
        /\ v \in Seq(Nat) /\ IsNal(v) /\ Len(v) \in 2 .. 2 * Base
        /\ w \in Seq(Nat) /\ IsNal(w) /\ Len(w) \in 2 .. 2 * Base /\ OfType(w, Idr)
    BY <1>2, <1>7
  <2>3. /\ nals \in Seq(Seq(Nat)) /\ Len(nals) = 3
        /\ nals[1] = u /\ nals[2] = v /\ nals[3] = w
    BY ONLY <1>7, <2>1
  <2>4. \A k \in 1 .. Len(nals) : k = 1 \/ k = 2 \/ k = 3
    BY ONLY <2>3
  <2>5. \E k \in 1 .. Len(nals) : OfType(nals[k], Idr)
    <3>1. 3 \in 1 .. Len(nals)
      BY ONLY <2>3
    <3>2. QED BY ONLY <2>1, <2>3, <3>1
  <2>6. \A k \in 1 .. Len(nals) : /\ nals[k] \in Seq(Nat) /\ IsNal(nals[k])
                                  /\ Len(nals[k]) \in 2 .. 2 * Base /\ Len(nals[k]) <= 4
    BY ONLY <1>7, <2>1, <2>3, <2>4
  <2>7. Len(nals) \in 1 .. 3
    BY ONLY <2>3
  <2>8. OfType(nals[1], IF idr THEN Sps ELSE Slice)
    BY ONLY <1>7, <2>1, <2>3
  <2>9. QED BY ONLY <1>7, <2>3, <2>5, <2>6, <2>7, <2>8 DEF IsPicture
<1>8. CASE idr
  <2>1. \/ \E b \in Bodies : nals = << Nal(Sps, <<Top, 1>>), Nal(Idr, b) >>
        \/ \E b \in Bodies : nals = << Nal(Sps, <<Top, 0, 1>>), Nal(Sps, b), Nal(Idr, <<Top>>) >>
    BY <1>8 DEF Pictures
  <2>2. ASSUME NEW b \in Bodies, nals = << Nal(Sps, <<Top, 1>>), Nal(Idr, b) >>
        PROVE  IsPicture(nals, idr)
    <3>1. IsUnit(Nal(Sps, <<Top, 1>>), Sps) /\ Len(Nal(Sps, <<Top, 1>>)) <= 4
      BY <1>4
    <3>2. IsUnit(Nal(Idr, b), Idr) /\ Len(Nal(Idr, b)) <= 4
      BY <1>3
    <3>3. QED BY <1>6, <1>8, <2>2, <3>1, <3>2
  <2>3. ASSUME NEW b \in Bodies,
               nals = << Nal(Sps, <<Top, 0, 1>>), Nal(Sps, b), Nal(Idr, <<Top>>) >>
        PROVE  IsPicture(nals, idr)
    <3>1. IsUnit(Nal(Sps, <<Top, 0, 1>>), Sps) /\ Len(Nal(Sps, <<Top, 0, 1>>)) <= 4
      BY <1>4
    <3>2. IsUnit(Nal(Sps, b), Sps) /\ Len(Nal(Sps, b)) <= 4
      BY <1>3
    <3>3. IsUnit(Nal(Idr, <<Top>>), Idr) /\ Len(Nal(Idr, <<Top>>)) <= 4
      BY <1>4
    <3>4. QED BY <1>7, <1>8, <2>3, <3>1, <3>2, <3>3
  <2>4. QED BY <2>1, <2>2, <2>3
<1>9. CASE ~idr
  <2>1. \/ \E b \in Bodies \cup LongBodies : nals = << Nal(Slice, b) >>
        \/ \E a, b \in Bodies : nals = << Nal(Slice, a), Nal(Slice, b) >>
    BY <1>9 DEF Pictures
  <2>2. ASSUME NEW b \in Bodies \cup LongBodies, nals = << Nal(Slice, b) >>
        PROVE  IsPicture(nals, idr)
    <3>1. IsUnit(Nal(Slice, b), Slice)
      BY BodiesAre, NalIs
    <3>2. QED BY <1>5, <1>9, <2>2, <3>1
  <2>3. ASSUME NEW a \in Bodies, NEW b \in Bodies, nals = << Nal(Slice, a), Nal(Slice, b) >>
        PROVE  IsPicture(nals, idr)
    <3>1. IsUnit(Nal(Slice, a), Slice) /\ Len(Nal(Slice, a)) <= 4
      BY <1>3
    <3>2. IsUnit(Nal(Slice, b), Slice) /\ Len(Nal(Slice, b)) <= 4
      BY <1>3
    <3>3. QED BY <1>1, <1>6, <1>9, <2>3, <3>1, <3>2
  <2>4. QED BY <2>1, <2>2, <2>3
<1>10. QED BY <1>8, <1>9

\* How long up to three parts are together.
LEMMA Total ==
  ASSUME NEW s, NEW ps, NEW at, Lays(s, ps, at), Len(ps) \in 1 .. 3,
         NEW c \in Nat, \A k \in 1 .. Len(ps) : Len(ps[k]) \in 1 .. c
  PROVE  /\ Len(s) \in 1 .. 3 * c
         /\ Len(ps) = 1 => Len(s) = Len(ps[1])
<1>1. /\ at \in [1 .. Len(ps) + 1 -> Nat] /\ at[1] = 0 /\ at[Len(ps) + 1] = Len(s)
      /\ \A k \in 1 .. Len(ps) : at[k + 1] = at[k] + Len(ps[k])
  BY DEF Lays
<1> DEFINE m == Len(ps)
           l(k) == Len(ps[k])
<1>2. /\ at[1] = 0 /\ at[m + 1] = Len(s) /\ \A k \in 1 .. m : at[k + 1] = at[k] + l(k)
      /\ m \in 1 .. 3 /\ \A k \in 1 .. m : l(k) \in 1 .. c
  BY <1>1
<1>3. l(1) = Len(ps[1])
  OBVIOUS
<1> HIDE DEF m, l
<1>4. at[1 + 1] = at[1] + l(1) /\ l(1) \in 1 .. c
  <2>1. 1 \in 1 .. m
    BY ONLY <1>2
  <2>2. QED BY ONLY <1>2, <2>1
<1>5. at[2] = l(1)
  BY ONLY <1>2, <1>4
<1>6. CASE m = 1
  <2>1. Len(s) = l(1)
    BY ONLY <1>2, <1>5, <1>6
  <2>2. l(1) \in 1 .. 3 * c
    BY ONLY <1>4, c \in Nat
  <2>3. QED BY <1>3, <2>1, <2>2
<1>7. ASSUME m # 1 PROVE at[3] = l(1) + l(2) /\ l(2) \in 1 .. c
  <2>1. 2 \in 1 .. m
    BY ONLY <1>2, <1>7
  <2>2. at[2 + 1] = at[2] + l(2) /\ l(2) \in 1 .. c
    BY ONLY <1>2, <2>1
  <2>3. QED BY ONLY <1>5, <2>2
<1>8. CASE m = 2
  <2>1. Len(s) = l(1) + l(2)
    BY ONLY <1>2, <1>7, <1>8
  <2>2. l(1) + l(2) \in 1 .. 3 * c
    BY ONLY <1>4, <1>7, <1>8, c \in Nat
  <2>3. QED BY <1>8, <2>1, <2>2 DEF m
<1>9. CASE m = 3
  <2>1. 3 \in 1 .. m
    BY ONLY <1>9
  <2>2. at[3 + 1] = at[3] + l(3) /\ l(3) \in 1 .. c
    BY ONLY <1>2, <2>1
  <2>3. Len(s) = (l(1) + l(2)) + l(3)
    BY ONLY <1>2, <1>7, <1>9, <2>2
  <2>4. (l(1) + l(2)) + l(3) \in 1 .. 3 * c
    BY ONLY <1>4, <1>7, <1>9, <2>2, c \in Nat
  <2>5. QED BY <1>9, <2>3, <2>4 DEF m
<1>10. QED BY ONLY <1>2, <1>6, <1>8, <1>9 DEF m

\* A picture with its start codes fits into a packet, and one with lengths of two bytes is
\* told from one with lengths of four.
LEMMA PictureFits ==
  ASSUME NEW nals, NEW idr, IsPicture(nals, idr)
  PROVE  /\ \A n \in {3, 4} : /\ Coded(nals, n) \in Seq(Nat) /\ Coded(nals, n) # <<>>
                              /\ Len(Coded(nals, n)) <= MaxUnit
         /\ InTwoBytes(nals)
         /\ ~LooksCoded(nals) => InFourBytes(nals)
<1>1. /\ ByteOK /\ Base \in Nat /\ Base >= 4 /\ Word \in Nat /\ MaxUnit \in Nat
      /\ MaxUnit >= 2 * Base + 36
  BY FormatFacts
<1>2. /\ nals \in Seq(Seq(Nat)) /\ Len(nals) \in 1 .. 3
      /\ \A k \in 1 .. Len(nals) : /\ nals[k] \in Seq(Nat) /\ IsNal(nals[k])
                                   /\ Len(nals[k]) \in 2 .. 2 * Base
      /\ Len(nals) > 1 => \A k \in 1 .. Len(nals) : Len(nals[k]) <= 4
  BY DEF IsPicture
<1> DEFINE m == Len(nals)
           l(k) == Len(nals[k])
<1>3. ASSUME NEW n \in {2, 3, 4}, NEW s, NEW ps, NEW at, Lays(s, ps, at), Len(ps) = Len(nals),
             \A k \in 1 .. Len(nals) : Len(ps[k]) = n + Len(nals[k])
      PROVE  Len(s) \in Nat /\ Len(s) >= 1 /\ (Len(s) = n + Len(nals[1]) \/ Len(s) <= 3 * (n + 4))
  <2>1. CASE m = 1
    <3>1. Len(ps) \in 1 .. 3 /\ Len(ps) = 1
      BY ONLY <1>3, <2>1 DEF m
    <3>2. n + 2 * Base \in Nat /\ \A k \in 1 .. Len(ps) : Len(ps[k]) \in 1 .. n + 2 * Base
      BY ONLY <1>1, <1>2, <1>3, n \in {2, 3, 4}
    <3>3. Len(s) = Len(ps[1]) /\ Len(s) \in 1 .. 3 * (n + 2 * Base)
      BY ONLY <1>3, <3>1, <3>2, Total
    <3>4. Len(ps[1]) = n + Len(nals[1])
      BY ONLY <1>3, <2>1 DEF m
    <3>5. Len(s) \in Nat /\ Len(s) >= 1
      BY ONLY <1>1, <3>3, n \in {2, 3, 4}
    <3>6. QED BY ONLY <3>3, <3>4, <3>5
  <2>2. CASE m # 1
    <3>0. Len(nals) \in 1 .. 3 /\ Len(nals) # 1 /\ Len(ps) = Len(nals)
      BY <1>2, <1>3, <2>2
    <3>1. Len(ps) \in 1 .. 3 /\ Len(nals) > 1
      BY ONLY <3>0
    <3>2. n + 4 \in Nat /\ \A k \in 1 .. Len(ps) : Len(ps[k]) \in 1 .. n + 4
      <4>1. \A k \in 1 .. Len(ps) : Len(nals[k]) \in 1 .. 4 /\ Len(ps[k]) = n + Len(nals[k])
        <5> SUFFICES ASSUME NEW k \in 1 .. Len(nals)
                     PROVE  Len(nals[k]) \in 1 .. 4 /\ Len(ps[k]) = n + Len(nals[k])
          BY <3>0
        <5>1. Len(nals[k]) \in 2 .. 2 * Base /\ Len(nals[k]) <= 4
          BY ONLY <1>2, <3>1, k \in 1 .. Len(nals)
        <5>2. Len(ps[k]) = n + Len(nals[k])
          BY <1>3
        <5>3. ASSUME NEW x \in 2 .. 2 * Base, x <= 4 PROVE x \in 1 .. 4
          BY ONLY <1>1, <5>3
        <5>4. QED BY ONLY <5>1, <5>2, <5>3, Zenon
      <4>2. \A x \in 1 .. 4 : n + x \in 1 .. n + 4
        BY ONLY n \in {2, 3, 4}
      <4>3. n + 4 \in Nat
        BY ONLY n \in {2, 3, 4}
      <4>4. QED BY ONLY <4>1, <4>2, <4>3
    <3>3. Len(s) \in 1 .. 3 * (n + 4)
      BY ONLY <1>3, <3>1, <3>2, Total
    <3>4. QED BY ONLY <3>3, n \in {2, 3, 4}
  <2>3. QED BY <2>1, <2>2
<1>4. /\ 1 \in 1 .. Len(nals)
      /\ Len(nals[1]) \in Nat /\ Len(nals[1]) >= 2 /\ Len(nals[1]) <= 2 * Base
  <2>0. Len(nals) \in 1 .. 3
    BY <1>2
  <2>1. 1 \in 1 .. Len(nals)
    BY ONLY <2>0
  <2>2. Len(nals[1]) \in 2 .. 2 * Base
    BY <1>2, <2>1
  <2>3. QED BY ONLY <1>1, <2>1, <2>2
<1>5. ASSUME NEW n \in {3, 4}
      PROVE  /\ Coded(nals, n) \in Seq(Nat) /\ Coded(nals, n) # <<>>
             /\ Len(Coded(nals, n)) <= MaxUnit
  <2> DEFINE s == Coded(nals, n)
             ps == [k \in 1 .. Len(nals) |-> Marked(nals[k], n)]
  <2>1. PICK at : IsCoded(s, nals, n, at)
    BY <1>2, CodedLays
  <2> HIDE DEF s
  <2>2. Lays(s, ps, at) /\ s \in Seq(Nat)
    BY <2>1 DEF IsCoded, Lays
  <2>3. Len(ps) = Len(nals) /\ \A k \in 1 .. Len(nals) : Len(ps[k]) = n + Len(nals[k])
    <3>1. \A k \in 1 .. Len(nals) : Len(Marked(nals[k], n)) = n + Len(nals[k])
      BY <1>2, MarkedIs
    <3>2. Len(ps) = Len(nals)
      BY <1>2
    <3>3. QED BY <3>1, <3>2
  <2> HIDE DEF ps
  <2>4. Len(s) \in Nat /\ Len(s) >= 1 /\ (Len(s) = n + Len(nals[1]) \/ Len(s) <= 3 * (n + 4))
    BY <1>3, <2>2, <2>3
  <2>5. Len(s) <= MaxUnit
    BY ONLY <1>1, <1>4, <2>4, n \in {3, 4}
  <2>6. s # <<>>
    BY <2>2, <2>4, EmptySeq
  <2>7. QED BY <2>2, <2>5, <2>6 DEF s
<1>6. ASSUME NEW k \in 1 .. Len(nals) PROVE Len(nals[k]) < Room(2) /\ Len(nals[k]) < Room(4)
  <2> DEFINE v == Len(nals[k])
  <2>1. v \in Nat /\ v <= 2 * Base
    BY ONLY <1>1, <1>2, <1>6
  <2> HIDE DEF v
  <2>2. Base * Base \in Nat /\ Base * Base >= 4 * Base
    BY ONLY <1>1
  <2> DEFINE b2 == Base * Base
             b3 == Base * b2
  <2> HIDE DEF b2
  <2>3. b2 \in Nat /\ b2 > v
    BY ONLY <1>1, <2>1, <2>2 DEF b2
  <2>4. b3 \in Nat /\ b3 >= b2
    BY ONLY <1>1, <2>3
  <2> HIDE DEF b3
  <2>5. Base * b3 \in Nat /\ Base * b3 >= b3
    BY ONLY <1>1, <2>4
  <2>6. Base * b3 = Word
    BY Zenon DEF Word, b2, b3
  <2>7. v < Word
    BY ONLY <1>1, <2>1, <2>3, <2>4, <2>5, <2>6
  <2>8. QED BY ONLY <2>3, <2>7 DEF Room, b2, v
<1>7. InTwoBytes(nals)
  <2> DEFINE s == Prefixed(nals, 2)
             ps == [k \in 1 .. Len(nals) |-> Lengthened(nals[k], 2)]
             v == Len(nals[1])
  <2>1. PICK at : IsPrefixed(s, nals, 2, at)
    BY <1>1, <1>2, <1>6, PrefixedLays
  <2> HIDE DEF s
  <2>2. Lays(s, ps, at) /\ s \in Seq(Nat)
    BY <2>1 DEF IsPrefixed, Lays
  <2>3. Len(ps) = Len(nals) /\ \A k \in 1 .. Len(nals) : Len(ps[k]) = 2 + Len(nals[k])
    <3>1. \A k \in 1 .. Len(nals) : Len(Lengthened(nals[k], 2)) = 2 + Len(nals[k])
      BY <1>1, <1>2, <1>6, LengthenedIs
    <3>2. Len(ps) = Len(nals)
      BY <1>2
    <3>3. QED BY <3>1, <3>2
  <2> HIDE DEF ps
  <2>4. Len(s) \in Nat /\ Len(s) >= 1 /\ (Len(s) = 2 + Len(nals[1]) \/ Len(s) <= 3 * (2 + 4))
    BY <1>3, <2>2, <2>3
  <2>5. v \in Nat /\ v >= 2 /\ (Len(s) <= 2 + v \/ Len(s) <= 18) /\ Len(s) \in Nat
    BY ONLY <1>4, <2>4
  <2> HIDE DEF v
  <2>6. Base * v \in Nat /\ Base * v >= 4 * v
    BY ONLY <1>1, <2>5
  <2> DEFINE w == Base * v
  <2> HIDE DEF w
  <2>7. Base * w \in Nat /\ Base * w >= 4 * w
    BY ONLY <1>1, <2>6 DEF w
  <2>8. Len(s) <= Base * w
    BY ONLY <1>1, <2>5, <2>6, <2>7 DEF w
  <2>9. Len(s) <= Base * (Base * Len(nals[1]))
    BY ONLY <2>8 DEF w, v
  <2>10. QED BY ONLY <1>6, <2>9 DEF InTwoBytes, s
<1>8. ASSUME ~LooksCoded(nals) PROVE InFourBytes(nals)
  <2>1. Len(nals[1]) \notin {1} \cup (Base .. 2 * Base - 1)
    BY <1>8 DEF LooksCoded
  <2>2. QED BY ONLY <1>6, <2>1 DEF InFourBytes
<1>9. QED BY <1>5, <1>7, <1>8

\* An encoder's output for a picture is one the general theorems are about.
LEMMA OutputIs ==
  ASSUME NEW nals, NEW idr, IsPicture(nals, idr), NEW out \in Outputs(nals)
  PROVE  IsOutput(out, nals)
<1>1. /\ InTwoBytes(nals) /\ (~LooksCoded(nals) => InFourBytes(nals))
  BY PictureFits
<1>2. \/ out = Coded(nals, 3) \/ out = Coded(nals, 4) \/ out = Prefixed(nals, 2)
      \/ ~LooksCoded(nals) /\ out = Prefixed(nals, 4)
  BY DEF Outputs
<1>3. 3 \in {3, 4} /\ 4 \in {3, 4}
  OBVIOUS
<1>4. QED BY ONLY <1>1, <1>2, <1>3, Zenon DEF IsOutput

\* No picture is lost.
LEMMA PictureFound ==
  ASSUME NEW nals, NEW idr \in BOOLEAN, IsPicture(nals, idr)
  PROVE  /\ FoundAgain(nals, idr)
         /\ \A n \in {3, 4} : (FindNalUnit(Coded(nals, n), Idr) # <<>>) = idr
<1>1. /\ ByteOK /\ nals \in Seq(Seq(Nat)) /\ Len(nals) \in 1 .. 3
      /\ \A k \in 1 .. Len(nals) : IsNal(nals[k]) /\ Len(nals[k]) \in 2 .. 2 * Base
      /\ OfType(nals[1], IF idr THEN Sps ELSE Slice)
      /\ idr <=> \E k \in 1 .. Len(nals) : OfType(nals[k], Idr)
  BY FormatFacts DEF IsPicture
<1>2. nals # <<>> /\ 1 \in 1 .. Len(nals)
  BY <1>1
<1>3. \A k \in 1 .. Len(nals) : IsNal(nals[k]) /\ Len(nals[k]) >= 2
  <2>1. Base \in Nat
    BY FormatFacts
  <2>2. QED BY <1>1, <2>1
<1>4. ASSUME NEW out, IsOutput(out, nals), NEW sent, sent = SendAnnexB(out)
      PROVE  /\ sent \in {Coded(nals, 3), Coded(nals, 4)}
             /\ ContainsNalType(sent, Idr) <=> idr
             /\ FindNalUnit(sent, Idr) # <<>> <=> idr
             /\ FindNalUnit(sent, IF idr THEN Sps ELSE Slice) = nals[1]
  <2>1. /\ sent \in {Coded(nals, 3), Coded(nals, 4)}
        /\ ContainsNalType(sent, Idr) <=> \E k \in 1 .. Len(nals) : OfType(nals[k], Idr)
        /\ FindNalUnit(sent, Idr) # <<>> <=> \E k \in 1 .. Len(nals) : OfType(nals[k], Idr)
    BY ONLY <1>1, <1>2, <1>3, <1>4, UnitFoundAgain
  <2> DEFINE t == IF idr THEN Sps ELSE Slice
  <2>2. OfType(nals[1], t)
    BY <1>1
  <2> HIDE DEF t
  <2>3. \A k \in 1 .. Len(nals) :
          OfType(nals[k], t) /\ (\A j \in 1 .. k - 1 : ~OfType(nals[j], t))
            => FindNalUnit(sent, t) = nals[k]
    BY ONLY <1>1, <1>2, <1>3, <1>4, UnitFoundAgain
  <2>4. \A j \in 1 .. 1 - 1 : ~OfType(nals[j], t)
    OBVIOUS
  <2>5. FindNalUnit(sent, t) = nals[1]
    BY ONLY <1>2, <2>2, <2>3, <2>4
  <2>6. QED BY <1>1, <2>1, <2>5 DEF t
<1>5. FoundAgain(nals, idr)
  <2> SUFFICES ASSUME NEW out \in Outputs(nals), NEW sent, sent = SendAnnexB(out)
               PROVE  /\ sent \in {Coded(nals, 3), Coded(nals, 4)}
                      /\ ContainsNalType(sent, Idr) = idr
                      /\ (FindNalUnit(sent, Idr) # <<>>) = idr
                      /\ FindNalUnit(sent, IF idr THEN Sps ELSE Slice) = nals[1]
    BY DEF FoundAgain
  <2>1. IsOutput(out, nals)
    BY OutputIs
  <2>2. ContainsNalType(sent, Idr) \in BOOLEAN
    BY DEF ContainsNalType
  <2>3. QED BY <1>4, <2>1, <2>2
<1>6. ASSUME NEW n \in {3, 4} PROVE (FindNalUnit(Coded(nals, n), Idr) # <<>>) = idr
  <2>1. SendAnnexB(Coded(nals, n)) = Coded(nals, n)
    <3>1. \A k \in 1 .. Len(nals) : IsNal(nals[k])
      BY <1>3
    <3>2. QED BY <1>1, <1>2, <3>1, SentWithStartCodes
  <2>2. IsOutput(Coded(nals, n), nals)
    BY Zenon DEF IsOutput
  <2>3. QED BY <1>4, <2>1, <2>2
<1>7. QED BY <1>5, <1>6

\* Every unit on the wire is found again by the client, however the encoder delimits the
\* picture it stands for and whatever the size of a byte: as a random access point exactly
\* if it is one, at the host too (SendAnnexB, main.cpp; findNalUnit, VideoDecoder).
THEOREM UnitsFound == Spec => []UnitsFoundAgain
<1>1. Lost = {}
  <2>1. ASSUME NEW idr \in BOOLEAN, NEW nals \in Pictures(idr) PROVE FoundAgain(nals, idr)
    BY PicturesAre, PictureFound
  <2>2. QED BY <2>1 DEF Lost
<1>2. UnitsFoundAgain
  BY <1>1 DEF UnitsFoundAgain
<1>3. QED BY <1>2, PTL

\* The payload of the packets is the picture's.
LEMMA PayloadIs ==
  ASSUME NEW idr \in BOOLEAN
  PROVE  /\ Payload(idr) \in Seq(Nat) /\ Payload(idr) # <<>> /\ Len(Payload(idr)) <= MaxUnit
         /\ (FindNalUnit(Payload(idr), Idr) # <<>>) = idr
<1> DEFINE nals == CHOOSE nals \in Pictures(idr) : TRUE
<1>1. Pictures(idr) # {}
  <2> DEFINE b == [i \in 1 .. 1 |-> 1]
  <2>1. b \in [1 .. 1 -> {0, 1, Top}] /\ Len(b) = 1 /\ b[1] = 1
    OBVIOUS
  <2>2. b \in UNION {[1 .. n -> {0, 1, Top}] : n \in 1 .. 3}
    BY <2>1
  <2> HIDE DEF b
  <2>3. b[Len(b)] # 0 /\ \A i \in 1 .. Len(b) - 2 : FALSE
    BY ONLY <2>1
  <2>4. b \in Bodies
    BY ONLY <2>2, <2>3 DEF Bodies
  <2>5. CASE idr
    <3>1. << Nal(Sps, <<Top, 1>>), Nal(Idr, b) >> \in Pictures(idr)
      BY <2>4, <2>5 DEF Pictures
    <3>2. QED BY <3>1
  <2>6. CASE ~idr
    <3>1. << Nal(Slice, b) >> \in Pictures(idr)
      BY <2>4, <2>6 DEF Pictures
    <3>2. QED BY <3>1
  <2>7. QED BY <2>5, <2>6
<1>2. nals \in Pictures(idr)
  BY <1>1
<1>3. Payload(idr) = Coded(nals, 4)
  BY Zenon DEF Payload
<1> HIDE DEF nals
<1>4. IsPicture(nals, idr)
  BY <1>2, PicturesAre
<1>5. 4 \in {3, 4}
  OBVIOUS
<1>6. /\ Coded(nals, 4) \in Seq(Nat) /\ Coded(nals, 4) # <<>> /\ Len(Coded(nals, 4)) <= MaxUnit
  BY ONLY <1>4, <1>5, PictureFits
<1>7. (FindNalUnit(Coded(nals, 4), Idr) # <<>>) = idr
  BY ONLY <1>4, <1>5, PictureFound, idr \in BOOLEAN
<1>8. QED BY ONLY <1>3, <1>6, <1>7, Zenon

\* The packets are what the host sends, and what the client is to make of them.
LEMMA PacketsAre ==
  ASSUME NEW id \in 0 .. MaxId, NEW idr \in BOOLEAN
  PROVE  /\ IsOfHost(Around, Seen) /\ IsOfHost(Bytes(id, idr), Read(id, idr))
         /\ Around \in Seq(Nat) /\ Bytes(id, idr) \in Seq(Nat)
<1>1. /\ ByteOK /\ FormatOK /\ CursorOK /\ Word \in Nat /\ DWord \in Nat /\ DWord > 511
      /\ MaxSide \in 1 .. Word - 1 /\ MaxId < DWord /\ MaxId \in Nat
  BY FormatFacts, ReceiverAssumption
<1>2. IsPointer(Cursor)
  <2>1. /\ Cursor.visible = TRUE /\ Cursor.x = MaxSide - 1 /\ Cursor.y = 0
        /\ Cursor.width = MaxSide /\ Cursor.height = 1 /\ Cursor.sequence = 511
    BY DEF Cursor
  <2>2. /\ MaxSide - 1 \in Nat /\ MaxSide - 1 < Word /\ 0 \in Nat /\ 0 < Word
        /\ MaxSide \in 1 .. MaxSide /\ 1 \in 1 .. MaxSide /\ 511 \in Nat /\ 511 < DWord
    BY ONLY <1>1
  <2>3. Cursor.visible \in BOOLEAN
    BY <2>1
  <2>4. Cursor.x \in Nat /\ Cursor.x < Word
    <3>1. Cursor.x = MaxSide - 1
      BY ONLY <2>1, Zenon
    <3>2. QED BY ONLY <2>2, <3>1, Zenon
  <2>5. Cursor.y \in Nat /\ Cursor.y < Word
    BY ONLY <2>1, <2>2, Zenon
  <2>6. Cursor.width \in 1 .. MaxSide /\ Cursor.height \in 1 .. MaxSide
    <3>1. Cursor.width = MaxSide /\ Cursor.height = 1
      BY ONLY <2>1, Zenon
    <3>2. QED BY ONLY <2>2, <3>1, Zenon
  <2>7. Cursor.sequence \in Nat /\ Cursor.sequence < DWord
    <3>1. Cursor.sequence = 511
      BY ONLY <2>1, Zenon
    <3>2. QED BY ONLY <2>2, <3>1, Zenon
  <2>8. QED BY ONLY <2>3, <2>4, <2>5, <2>6, <2>7, Zenon DEF IsPointer
<1>3. Seen = ReadOf(Cursor)
  BY DEF Seen, Cursor, ReadOf
<1>4. IsCursor(Around, Seen)
  <2>1. 5 \in Nat /\ 5 < DWord
    BY <1>1
  <2>2. QED BY ONLY <1>2, <1>3, <2>1, Zenon DEF IsCursor, Around
<1>5. Around \in Seq(Nat)
  <2>1. 5 \in Nat
    OBVIOUS
  <2>2. QED BY ONLY <1>1, <1>2, <2>1, CursorIs DEF Around
<1>6. CASE id = 0
  <2>1. Bytes(id, idr) = HeartbeatPacket /\ Read(id, idr) = [kind |-> "heartbeat"]
    BY <1>6 DEF Bytes, Read
  <2>2. IsHeartbeat(Bytes(id, idr), Read(id, idr))
    BY <2>1 DEF IsHeartbeat
  <2>3. HeartbeatPacket \in Seq(Nat)
    <3>1. <<>> \in Seq(Nat) /\ Len(<<>>) = 0 /\ 0 \in Nat
      OBVIOUS
    <3>2. Packet(0, 0, 0, <<>>) \in Seq(Nat)
      BY ONLY <1>1, <3>1, PacketIs
    <3>3. QED BY ONLY <3>1, <3>2, Zenon DEF HeartbeatPacket, VideoPacket
  <2>4. QED BY <1>4, <1>5, <2>1, <2>2, <2>3 DEF IsOfHost
<1>7. CASE id # 0
  <2> DEFINE p == Payload(idr)
  <2>1. /\ p \in Seq(Nat) /\ p # <<>> /\ Len(p) <= MaxUnit
        /\ (FindNalUnit(p, Idr) # <<>>) = idr
    BY PayloadIs
  <2>2. /\ Bytes(id, idr) = VideoPacket(id, 77, p)
        /\ Read(id, idr) = [kind |-> "video", id |-> id, time |-> 77, idr |-> idr, payload |-> p]
    BY <1>7, Zenon DEF Bytes, Read
  <2> HIDE DEF p
  <2>3. id \in Nat /\ id < DWord /\ 77 \in Nat /\ 77 < DWord
    BY ONLY <1>1, id \in 0 .. MaxId
  <2>4. IsVideo(Bytes(id, idr), Read(id, idr))
    <3>1. Read(id, idr) = [kind |-> "video", id |-> id, time |-> 77,
                           idr |-> FindNalUnit(p, Idr) # <<>>, payload |-> p]
      BY ONLY <2>1, <2>2, Zenon
    <3>2. QED BY ONLY <2>1, <2>2, <2>3, <3>1, Zenon DEF IsVideo
  <2>5. Bytes(id, idr) \in Seq(Nat)
    <3>1. Len(p) \in Nat
      BY <2>1
    <3>2. Packet(Len(p), id, 77, p) \in Seq(Nat)
      BY ONLY <1>1, <2>1, <2>3, <3>1, PacketIs
    <3>3. QED BY ONLY <2>2, <3>2, Zenon DEF VideoPacket
  <2>6. QED BY <1>4, <1>5, <2>4, <2>5 DEF IsOfHost
<1>8. QED BY <1>6, <1>7

\* The position sent lies within the stream.
InStream(position, left, right, size) == Scale(position, left, right, size) \in 0 .. size - 1

LEMMA Within ==
  ASSUME NEW position \in Int, NEW left \in Int, NEW right \in Int, NEW size \in Nat, size >= 1
  PROVE  InStream(position, left, right, size)
BY CursorInside DEF InStream

\* Whatever packet is on the wire, the client reads it and those around it as the host wrote
\* them, field by field, and nothing as a protocol error; and the position of the pointer in
\* one lies within the stream (PacketWriter, CursorTracker, main.cpp; StreamReceiver).
THEOREM PacketsRead == Spec => []PacketsReadBack
<1>1. Garbled = {}
  <2>1. ASSUME NEW id \in 0 .. MaxId, NEW idr \in BOOLEAN
        PROVE  ReadAll(FlattenSeq(<< Around, Bytes(id, idr), Around >>))
                 = << Seen, Read(id, idr), Seen >>
    <3> DEFINE a == Around
               b == Bytes(id, idr)
               x == Seen
               y == Read(id, idr)
               ps == << a, b, a >>
               rs == << x, y, x >>
               R == {x, y}
    <3>1. a \in Seq(Nat) /\ b \in Seq(Nat) /\ IsOfHost(a, x) /\ IsOfHost(b, y)
      BY PacketsAre
    <3>2. FormatOK /\ CursorOK
      BY FormatFacts
    <3> HIDE DEF a, b, x, y
    <3>3. ps \in Seq(Seq(Nat)) /\ rs \in Seq(R) /\ Len(rs) = Len(ps) /\ Len(ps) = 3
      BY ONLY <3>1
    <3>4. \A k \in 1 .. Len(ps) : IsOfHost(ps[k], rs[k])
      <4>1. \A k \in 1 .. Len(ps) : k = 1 \/ k = 2 \/ k = 3
        BY ONLY <3>3
      <4>2. /\ ps[1] = a /\ ps[2] = b /\ ps[3] = a
            /\ rs[1] = x /\ rs[2] = y /\ rs[3] = x
        OBVIOUS
      <4>3. QED BY ONLY <3>1, <4>1, <4>2, Zenon
    <3> HIDE DEF ps, rs, R
    <3>5. ReadAll(FlattenSeq(ps)) = rs
      BY ONLY <3>2, <3>3, <3>4, StreamReadsBack
    <3>6. QED BY <3>5, Zenon DEF ps, rs, a, b, x, y
  <2>2. QED BY <2>1 DEF Garbled
<1>2. CursorOutside = {}
  <2> DEFINE Inside(size, left, extent, d) == InStream(left + d, left, left + extent, size)
             Sizes == {1, 5, 100}
             Lefts == {-7, 0, 3}
             Extents == {0, 1, 4, 50, 100, 150}
             Places == -2 .. 152
  <2>1. ASSUME NEW size \in Sizes, NEW left \in Lefts, NEW extent \in Extents, NEW d \in Places
        PROVE  Inside(size, left, extent, d)
    <3> DEFINE p == left + d
               r == left + extent
    <3>1. p \in Int /\ r \in Int /\ left \in Int /\ size \in Nat /\ size >= 1
      OBVIOUS
    <3> HIDE DEF p, r
    <3>2. InStream(p, left, r, size)
      BY ONLY <3>1, Within
    <3>3. QED BY ONLY <3>2 DEF p, r
  <2>2. CursorOutside =
          {size \in Sizes : \E left \in Lefts, extent \in Extents, d \in Places :
                                ~Inside(size, left, extent, d)}
    BY Zenon DEF CursorOutside, InStream
  <2> HIDE DEF Inside, Sizes, Lefts, Extents, Places
  <2>3. QED BY ONLY <2>1, <2>2
<1>3. PacketsReadBack
  BY <1>1, <1>2 DEF PacketsReadBack
<1>4. QED BY <1>3, PTL
=============================================================================
