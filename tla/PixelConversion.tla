---------------------------- MODULE PixelConversion ----------------------------
(***************************************************************************)
(* ConvertBgraToNv12 of the driver: a BGRA picture to the NV12 payload of  *)
(* a ring slot, in limited range.  The same formulas are written three     *)
(* times - with integers for the end of a row, with SSE2 on four pixels    *)
(* (Driver.cpp) and with AVX2 on eight (Avx2Convert.cpp) - and the width   *)
(* of the lanes, their saturation and the order in which the instructions  *)
(* leave them decide whether the three agree.                              *)
(*                                                                         *)
(* A pixel is a record of its channels; a register that holds a channel of *)
(* several pixels is one lane of each record of a sequence.  A picture is  *)
(* a sequence of rows of one even length, an even number of them: the only *)
(* modes the driver offers.                                                *)
(***************************************************************************)
EXTENDS Integers, Sequences

Byte  == 0 .. 255
Pixel == [b : Byte, g : Byte, r : Byte]

ClampByte(v) == IF v < 0 THEN 0 ELSE IF v > 255 THEN 255 ELSE v
Shr8(v)      == v \div 256                   \* >> 8 and srai keep the sign

\* 16-bit lanes: unsigned, signed, and signed with saturation.
SignedLane(v) == ((v + 32768) % 65536) - 32768
Lane(v)       == v % 65536
Saturated(v)  == IF v < -32768 THEN -32768 ELSE IF v > 32767 THEN 32767 ELSE v

\* packs_epi32 and then packus_epi16.
PackByte(v) == ClampByte(Saturated(v))

KY == [b |-> 25, g |-> 129, r |-> 66]
KU == [b |-> 112, g |-> -74, r |-> -38]
KV == [b |-> -18, g |-> -94, r |-> 112]
Weigh(k, p) == k.r * p.r + k.g * p.g + k.b * p.b

----------------------------------------------------------------------------
(* One pixel's luma, one averaged pixel's chroma.                          *)

Luma(p)      == ClampByte(Shr8(Weigh(KY, p) + 128) + 16)
Chroma(k, p) == ClampByte(Shr8(Weigh(k, p) + 128) + 128)

\* The products are 16-bit lanes that unpacklo widens without a sign; the sums have 32.
LumaSse2(p) == PackByte(Shr8(Lane(25 * p.b) + Lane(129 * p.g) + Lane(66 * p.r) + 128) + 16)

\* All of the chroma is computed in signed 16-bit lanes.
Mul16(c, v) == SignedLane(c * v)
Add16(v, w) == SignedLane(v + w)
ChromaSse2(k, p) ==
  LET sum == Add16(Add16(Mul16(k.r, p.r), Mul16(k.g, p.g)), Mul16(k.b, p.b))
  IN  ClampByte(Add16(Shr8(Add16(sum, 128)), 128))

LumaAvx2(p)      == PackByte(Shr8(Weigh(KY, p) + 128) + 16)
ChromaAvx2(k, p) == PackByte(ClampByte(Shr8(Weigh(k, p) + 128) + 128))

----------------------------------------------------------------------------
(* Two by two pixels average to one; U and V of a row alternate.           *)

AddPixel(p, q) == [b |-> p.b + q.b, g |-> p.g + q.g, r |-> p.r + q.r]
Quarter(p)     == [b |-> p.b \div 4, g |-> p.g \div 4, r |-> p.r \div 4]
Black          == [b |-> 0, g |-> 0, r |-> 0]

RowSum(row0, row1) == [x \in DOMAIN row0 |-> AddPixel(row0[x], row1[x])]
Alternate(u, v) ==
  [x \in 1 .. 2 * Len(u) |-> IF x % 2 = 1 THEN u[(x + 1) \div 2] ELSE v[x \div 2]]

\* madd_epi16 by ones leaves the sums of neighbours in order.
UvSse2(row0, row1) ==
  LET s    == RowSum(row0, row1)
      mean == [i \in 1 .. Len(s) \div 2 |-> Quarter(AddPixel(s[2 * i - 1], s[2 * i]))]
  IN  Alternate([i \in DOMAIN mean |-> ChromaSse2(KU, mean[i])],
                [i \in DOMAIN mean |-> ChromaSse2(KV, mean[i])])

\* hadd_epi32 of a register and zero adds neighbours within each half of it and leaves
\* two sums and two zeros in each; CompactFour takes the two of either half.
HaddZero(s) ==
  << AddPixel(s[1], s[2]), AddPixel(s[3], s[4]), Black, Black,
     AddPixel(s[5], s[6]), AddPixel(s[7], s[8]), Black, Black >>
LowFour(s)     == << s[1], s[2], s[3], s[4] >>       \* (Mutant.)
CompactFour(s) == << s[1], s[2], s[5], s[6] >>
UvAvx2(row0, row1) ==
  LET sums == HaddZero(RowSum(row0, row1))
      mean == [i \in DOMAIN sums |-> Quarter(sums[i])]
  IN  Alternate(CompactFour([i \in DOMAIN mean |-> ChromaAvx2(KU, mean[i])]),
                CompactFour([i \in DOMAIN mean |-> ChromaAvx2(KV, mean[i])]))

\* The scalar loop, two columns at a time.
UvScalar(row0, row1) ==
  LET mean == Quarter(AddPixel(AddPixel(row0[1], row0[2]), AddPixel(row1[1], row1[2])))
  IN  << Chroma(KU, mean), Chroma(KV, mean) >>

----------------------------------------------------------------------------
(* Rows and pictures: as many whole vectors as fit, then the scalar loop.  *)

Step(avx2)             == IF avx2 THEN 8 ELSE 4
VectorEnd(avx2, width) == (width \div Step(avx2)) * Step(avx2)

YRow(avx2, row) ==
  [x \in DOMAIN row |->
     IF x > VectorEnd(avx2, Len(row)) THEN Luma(row[x])
     ELSE IF avx2 THEN LumaAvx2(row[x]) ELSE LumaSse2(row[x])]

\* Column x is in the block of n columns that starts at First(n, x).
First(n, x) == x - ((x - 1) % n)
UvRow(avx2, row0, row1) ==
  [x \in DOMAIN row0 |->
     LET scalar == x > VectorEnd(avx2, Len(row0))
         n      == IF scalar THEN 2 ELSE Step(avx2)
         f      == First(n, x)
         above  == SubSeq(row0, f, f + n - 1)
         below  == SubSeq(row1, f, f + n - 1)
     IN  (IF scalar THEN UvScalar(above, below)
          ELSE IF avx2 THEN UvAvx2(above, below) ELSE UvSse2(above, below))[x - f + 1]]

\* The luma plane, then one chroma row for two rows of pixels.
Nv12Sse2(pic) ==
  [y  |-> [i \in DOMAIN pic |-> YRow(FALSE, pic[i])],
   uv |-> [i \in 1 .. Len(pic) \div 2 |-> UvRow(FALSE, pic[2 * i - 1], pic[2 * i])]]
Nv12Avx2(pic) ==
  [y  |-> [i \in DOMAIN pic |-> YRow(TRUE, pic[i])],
   uv |-> [i \in 1 .. Len(pic) \div 2 |-> UvRow(TRUE, pic[2 * i - 1], pic[2 * i])]]

\* PublishBgraFrame: AVX2 where the processor has it and the picture is not empty.
Convert(hasAvx2, pic) ==
  IF hasAvx2 /\ Len(pic) # 0 /\ Len(pic[1]) # 0 THEN Nv12Avx2(pic) ELSE Nv12Sse2(pic)

\* What both are to compute: every pixel, and every two by two pixels, by themselves.
Reference(pic) ==
  LET pair(row, x)   == SubSeq(row, First(2, x), First(2, x) + 1)
      chroma(a, b, x) == UvScalar(pair(a, x), pair(b, x))[x - First(2, x) + 1]
  IN  [y  |-> [i \in DOMAIN pic |-> [x \in DOMAIN pic[i] |-> Luma(pic[i][x])]],
       uv |-> [i \in 1 .. Len(pic) \div 2 |->
                [x \in DOMAIN pic[1] |-> chroma(pic[2 * i - 1], pic[2 * i], x)]]]
=============================================================================
