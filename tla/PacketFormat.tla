---------------------------- MODULE PacketFormat ----------------------------
(***************************************************************************)
(* What PacketWriter of the host puts on the wire and StreamReceiver and   *)
(* VideoDecoder of the client make of it: the packets, the access units in *)
(* them, and the pointer's position in a cursor packet.                    *)
(*                                                                         *)
(* A byte has Base values and a nal_unit_type Types of them, so that the   *)
(* cases that need hundreds of bytes happen in short sequences; the counts *)
(* of bytes in a field are those of the code.                              *)
(***************************************************************************)
EXTENDS Integers, Sequences, SequencesExt

CONSTANTS
  Base,     \* 256: the values of a byte, an even number
  Types,    \* 32, a divisor of Base: 0x1f and its complement split the first byte of a unit
  Magic,    \* kPacketMagic, MAGIC
  MaxUnit,  \* MAX_ACCESS_UNIT_BYTES
  MaxSide,  \* 16384: the largest width and height of a cursor packet
  Idr       \* 5: the nal_unit_type of a random access point

Header      == 24
ControlFlag == Base * Base * Base * (Base \div 2)   \* the top bit of a 32-bit length
CursorType  == 1
CursorBytes == 32

\* What fits into four and into eight bytes.
Word  == Base * (Base * (Base * Base))
DWord == Base * (Base * (Base * (Base * Word)))

\* WriteLe32 and WriteLe64 with n = 4 and 8, and a little-endian ByteBuffer.
Le(n, v) ==
  LET shifted[i \in 1 .. n] == IF i = 1 THEN v ELSE shifted[i - 1] \div Base
  IN  [i \in 1 .. n |-> shifted[i] % Base]
FromLe(s) ==
  LET from[i \in 1 .. Len(s) + 1] == IF i > Len(s) THEN 0 ELSE s[i] + Base * from[i + 1]
  IN  from[1]

----------------------------------------------------------------------------
(* The host.                                                               *)

\* SendPacketLocked.
Packet(length, id, time, payload) ==
  Le(4, Magic) \o Le(4, length) \o Le(8, id) \o Le(8, time) \o payload

VideoPacket(id, time, payload) == Packet(Len(payload), id, time, payload)
HeartbeatPacket == VideoPacket(0, 0, <<>>)

Unflagged(payload) == Len(payload)                   \* (Mutant.)
Flagged(payload)   == ControlFlag + Len(payload)
CursorPacket(time, c) ==
  LET payload == Le(4, CursorType) \o Le(4, 1) \o Le(4, IF c.visible THEN 1 ELSE 0)
                 \o Le(4, c.x) \o Le(4, c.y) \o Le(4, c.width) \o Le(4, c.height)
                 \o Le(8, c.sequence)
  IN  Packet(Flagged(payload), 0, time, payload)

\* CursorTracker::Poll: the position on a monitor of [left, right) to one in the stream.
Unclamped(v, low, high)  == v                        \* (Mutant.)
ClampTo(v, low, high)    == IF v < low THEN low ELSE IF v > high THEN high ELSE v
Scale(position, left, right, size) ==
  LET extent == IF right - left > 1 THEN right - left ELSE 1
  IN  (ClampTo(position - left, 0, extent - 1) * size) \div extent

\* The length of the start code at position i, 0 if there is none.
StartCode(s, i) ==
  IF i + 2 <= Len(s) /\ SubSeq(s, i, i + 2) = <<0, 0, 1>> THEN 3
  ELSE IF i + 3 <= Len(s) /\ SubSeq(s, i, i + 3) = <<0, 0, 0, 1>> THEN 4
  ELSE 0

HasShortStartCode(s)  == StartCode(s, 1) = 3          \* (Mutant.)
HasAnnexBStartCode(s) == StartCode(s, 1) # 0

ContainsNalType(s, type) ==
  \E i \in 1 .. Len(s) - 3 :
    LET nal == i + StartCode(s, i)
    IN  nal # i /\ nal <= Len(s) /\ s[nal] % Types = type

\* The NAL units behind big-endian lengths of n bytes, each with a start code; Invalid
\* unless the lengths account for the whole payload.
Invalid == << -1 >>
Converted(s, n) ==
  LET from[o \in 1 .. Len(s) + 1] ==
        IF o > Len(s) THEN <<>>
        ELSE IF o + n > Len(s) THEN Invalid
        ELSE LET length == FromLe(Reverse(SubSeq(s, o, o + n - 1)))
                 next   == o + n + length
             IN  IF length = 0 \/ next > Len(s) + 1 \/ from[next] = Invalid THEN Invalid
                 ELSE <<0, 0, 0, 1>> \o SubSeq(s, o + n, next - 1) \o from[next]
  IN  IF s = <<>> THEN Invalid ELSE from[1]
ConvertLengthPrefixed(s) ==
  IF Converted(s, 4) # Invalid THEN Converted(s, 4) ELSE Converted(s, 2)

\* The layouts of an encoder's output: start codes of n bytes, big-endian lengths of n.
Coded(nals, n) ==
  FlattenSeq([i \in DOMAIN nals |-> [j \in 1 .. n |-> IF j = n THEN 1 ELSE 0] \o nals[i]])
Prefixed(nals, n) ==
  FlattenSeq([i \in DOMAIN nals |-> Reverse(Le(n, Len(nals[i]))) \o nals[i]])

\* SendAnnexB: what it sends of the payload, Invalid if nothing.
SendAnnexB(s) == IF HasAnnexBStartCode(s) THEN s ELSE ConvertLengthPrefixed(s)

----------------------------------------------------------------------------
(* The client.                                                             *)

\* findNalUnit: the first unit of the type, without its start code; none is empty.
FindNalUnit(s, type) ==
  LET ends(nal) == {k \in nal .. Len(s) - 3 : StartCode(s, k) # 0}
      from[start \in 1 .. Len(s) + 1] ==
        IF start + 4 > Len(s) THEN <<>>
        ELSE IF StartCode(s, start) = 0 THEN from[start + 1]
        ELSE LET nal == start + StartCode(s, start)
                 end == IF ends(nal) = {} THEN Len(s) + 1
                        ELSE CHOOSE k \in ends(nal) : \A j \in ends(nal) : k <= j
             IN  IF nal < end /\ s[nal] % Types = type THEN SubSeq(s, nal, end - 1)
                 ELSE from[end]
  IN  from[1]

Bad == [kind |-> "bad"]
Eof == [kind |-> "eof"]

\* dispatchControl: an unknown type is passed over.
Control(type, body) ==
  LET field(i) == FromLe(SubSeq(body, 4 * i - 3, 4 * i))
  IN  IF type # CursorType THEN [kind |-> "ignored"]
      ELSE IF Len(body) # CursorBytes THEN Bad
      ELSE IF field(1) # 1 \/ field(5) \notin 1 .. MaxSide \/ field(6) \notin 1 .. MaxSide THEN Bad
      ELSE [kind |-> "cursor", visible |-> field(2) # 0, x |-> field(3), y |-> field(4),
            width |-> field(5), height |-> field(6), sequence |-> FromLe(SubSeq(body, 25, 32))]

\* readPacket of the bytes s, and how many of them it is.
ReadPacket(s) ==
  LET raw     == FromLe(SubSeq(s, 5, 8))
      length  == raw % ControlFlag
      id      == FromLe(SubSeq(s, 9, 16))
      payload == SubSeq(s, Header + 1, Header + length)
  IN  IF Len(s) < Header THEN Eof
      ELSE IF FromLe(SubSeq(s, 1, 4)) # Magic \/ length > MaxUnit THEN Bad
      ELSE IF length = 0 THEN IF id # 0 THEN Bad ELSE [kind |-> "heartbeat"]
      ELSE IF Len(s) < Header + length THEN Eof
      ELSE IF raw >= ControlFlag
           THEN IF length < 4 THEN Bad
                ELSE Control(FromLe(SubSeq(payload, 1, 4)), SubSeq(payload, 5, length))
      ELSE [kind |-> "video", id |-> id, time |-> FromLe(SubSeq(s, 17, 24)),
            idr |-> FindNalUnit(payload, Idr) # <<>>, payload |-> payload]
PacketLength(s) == Header + (FromLe(SubSeq(s, 5, 8)) % ControlFlag)

\* The packets the receiver reads off a stream of bytes, one after the other.
ReadAll(s) ==
  LET from[o \in 1 .. Len(s) + 1] ==
        LET rest == SubSeq(s, o, Len(s))
            p    == ReadPacket(rest)
        IN  IF rest = <<>> THEN <<>>
            ELSE IF p \in {Bad, Eof} THEN << p >>
            ELSE << p >> \o from[o + PacketLength(rest)]
  IN  from[1]
=============================================================================
