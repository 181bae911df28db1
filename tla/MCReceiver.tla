------------------------------ MODULE MCReceiver ------------------------------
(***************************************************************************)
(* VideoReceiver with the packets its wire stands for: every access unit   *)
(* an encoder could have made of a unit, in the four layouts the host      *)
(* takes, between two cursor packets, written and read byte by byte.       *)
(***************************************************************************)
EXTENDS VideoReceiver, PacketFormat

CONSTANTS
  Slice, Sps   \* 1 and 7: the nal_unit_types of other pictures and of parameter sets

\* The first byte of a unit is Types plus its type; a picture below fits into a packet.
ASSUME FormatAssumption ==
  /\ Base \in Nat /\ Base >= 4 /\ Base = 2 * (Base \div 2)
  /\ Types \in Nat /\ 2 * Types <= Base
  /\ {Slice, Idr, Sps} \subseteq 0 .. Types - 1
  /\ Slice # Idr /\ Idr # Sps /\ Sps # Slice
  /\ Magic \in Nat /\ Magic < Word
  /\ MaxUnit \in 2 * Base + 36 .. ControlFlag - 1
  /\ MaxSide \in 1 .. Word - 1
  /\ MaxId < DWord

\* The bytes after a header; no start code, no emulation of one, no zero at the end.
Top == Base - 1
Bodies ==
  {s \in UNION {[1 .. n -> {0, 1, Top}] : n \in 1 .. 3} :
     /\ s[Len(s)] # 0
     /\ \A i \in 1 .. Len(s) - 2 : ~(s[i] = 0 /\ s[i + 1] = 0 /\ s[i + 2] # Top)}
Nal(type, body) == << Types + type >> \o body

\* The units of a random access point, and of any other picture of one or two slices; of
\* the lengths that matter for the prefixes, 1 to 4, the base and twice the base are there.
LongBodies == {[i \in 1 .. n |-> Top] : n \in {Base - 2, Base - 1, 2 * Base - 2, 2 * Base - 1}}
Pictures(idr) ==
  IF idr THEN {<< Nal(Sps, <<Top, 1>>), Nal(Idr, b) >> : b \in Bodies}
               \cup {<< Nal(Sps, <<Top, 0, 1>>), Nal(Sps, b), Nal(Idr, <<Top>>) >> : b \in Bodies}
         ELSE {<< Nal(Slice, b) >> : b \in Bodies \cup LongBodies}
               \cup {<< Nal(Slice, a), Nal(Slice, b) >> : a, b \in Bodies}

\* A length of one base to two in four bytes reads 0, 0, 1: the host takes the prefix for a
\* start code and sends the unit as it is.
LooksCoded(nals) == Len(nals[1]) \in {1} \cup Base .. 2 * Base - 1
Outputs(nals) ==
  {Coded(nals, 3), Coded(nals, 4), Prefixed(nals, 2)}
    \cup (IF LooksCoded(nals) THEN {} ELSE {Prefixed(nals, 4)})

\* The unit is found again: what is sent holds the units in order, host and client find a
\* random access point exactly where one is, and the client finds the first of each type.
FoundAgain(nals, idr) ==
  \A out \in Outputs(nals) :
    LET sent == SendAnnexB(out)
    IN  /\ sent \in {Coded(nals, 3), Coded(nals, 4)}
        /\ ContainsNalType(sent, Idr) = idr
        /\ (FindNalUnit(sent, Idr) # <<>>) = idr
        /\ FindNalUnit(sent, IF idr THEN Sps ELSE Slice) = nals[1]
Lost == {idr \in BOOLEAN : \E nals \in Pictures(idr) : ~FoundAgain(nals, idr)}

\* The access unit the packets below carry, and the cursor packet around them.
Payload(idr) == Coded(CHOOSE nals \in Pictures(idr) : TRUE, 4)
Cursor == [visible |-> TRUE, x |-> MaxSide - 1, y |-> 0,
           width |-> MaxSide, height |-> 1, sequence |-> 511]
Around == CursorPacket(5, Cursor)
Seen   == [kind |-> "cursor", visible |-> TRUE, x |-> MaxSide - 1, y |-> 0,
           width |-> MaxSide, height |-> 1, sequence |-> 511]
Bytes(id, idr) == IF id = 0 THEN HeartbeatPacket
                            ELSE VideoPacket(id, 77, Payload(idr))
Read(id, idr)  == IF id = 0 THEN [kind |-> "heartbeat"]
                  ELSE [kind |-> "video", id |-> id, time |-> 77, idr |-> idr, payload |-> Payload(idr)]
Garbled ==
  {id \in 0 .. MaxId : \E idr \in BOOLEAN :
     ReadAll(FlattenSeq(<< Around, Bytes(id, idr), Around >>)) # << Seen, Read(id, idr), Seen >>}

\* A position on a monitor of any extent and place, on it or beside it.
CursorOutside ==
  {size \in {1, 5, 100} : \E left \in {-7, 0, 3}, extent \in {0, 1, 4, 50, 100, 150}, d \in -2 .. 152 :
     Scale(left + d, left, left + extent, size) \notin 0 .. size - 1}

\* Whatever is on the wire, the client reads the packets the host wrote, each as what it is
\* and with its fields, a cursor packet before and after it too, and none of them ends the
\* stream as a protocol error; and the place such a cursor packet gives lies within the
\* stream, wherever the pointer is on or beside the host's monitor.
PacketsReadBack ==
  /\ \A i \in DOMAIN wire : wire[i].id \notin Garbled
  /\ wire # <<>> => CursorOutside = {}

\* Every unit on the wire is sent with start codes however the encoder delimits it, and
\* counts as a random access point at the client, and at the host, exactly if it is one:
\* recovery (VideoDecoder) would otherwise never end, or begin with a dependent picture.
UnitsFoundAgain == \A i \in DOMAIN wire : wire[i].kind = "video" => wire[i].idr \notin Lost
=============================================================================
