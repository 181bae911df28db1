------------------------- MODULE PixelConversion_proofs -------------------------
(***************************************************************************)
(* The arithmetic of PixelConversion for every colour, where the runs have *)
(* a few: no 16-bit lane overflows, nothing is saturated, and the three    *)
(* forms of luma and of chroma are equal.                                  *)
(***************************************************************************)
EXTENDS PixelConversion, TLAPS

\* A value that fits into a lane, or into a byte, is left as it is.
LEMMA LaneFits ==
  ASSUME NEW v \in Int, 0 <= v, v <= 65535
  PROVE  Lane(v) = v
  BY DEF Lane

LEMMA SignedLaneFits ==
  ASSUME NEW v \in Int, -32768 <= v, v <= 32767
  PROVE  SignedLane(v) = v
  BY DEF SignedLane

LEMMA PackFits ==
  ASSUME NEW v \in Int, 0 <= v, v <= 255
  PROVE  PackByte(v) = v /\ ClampByte(v) = v
  BY DEF PackByte, ClampByte, Saturated

\* The shift of a weighted sum of luma, which is at most (25 + 129 + 66) * 255.
LEMMA LumaShift ==
  ASSUME NEW s \in Int, 0 <= s, s <= 56100
  PROVE  Shr8(s + 128) + 16 \in Int /\ 16 <= Shr8(s + 128) + 16 /\ Shr8(s + 128) + 16 <= 235
  BY DEF Shr8

LEMMA LumaOf ==
  ASSUME NEW r \in Int, 0 <= r, r <= 255, NEW g \in Int, 0 <= g, g <= 255,
         NEW b \in Int, 0 <= b, b <= 255,
         NEW p, p.r = r, p.g = g, p.b = b
  PROVE  /\ LumaSse2(p) = Luma(p)
         /\ LumaAvx2(p) = Luma(p)
         /\ 16 <= Luma(p) /\ Luma(p) <= 235 /\ Luma(p) \in Int
<1> DEFINE s == 66 * r + 129 * g + 25 * b
           y == Shr8(s + 128) + 16
<1>1. Weigh(KY, p) = s
  BY DEF Weigh, KY
<1>2. s \in Int /\ 0 <= s /\ s <= 56100
  OBVIOUS
<1>3. Lane(25 * p.b) + Lane(129 * p.g) + Lane(66 * p.r) = s
  <2>1. Lane(25 * b) = 25 * b
    <3>1. 25 * b \in Int /\ 0 <= 25 * b /\ 25 * b <= 65535
      OBVIOUS
    <3> QED BY <3>1, LaneFits
  <2>2. Lane(129 * g) = 129 * g
    <3>1. 129 * g \in Int /\ 0 <= 129 * g /\ 129 * g <= 65535
      OBVIOUS
    <3> QED BY <3>1, LaneFits
  <2>3. Lane(66 * r) = 66 * r
    <3>1. 66 * r \in Int /\ 0 <= 66 * r /\ 66 * r <= 65535
      OBVIOUS
    <3> QED BY <3>1, LaneFits
  <2> QED BY <2>1, <2>2, <2>3
<1> HIDE DEF s
<1>4. y \in Int /\ 16 <= y /\ y <= 235
  BY <1>2, LumaShift
<1>5. LumaAvx2(p) = PackByte(y) /\ Luma(p) = ClampByte(y)
  BY <1>1 DEF LumaAvx2, Luma
<1>6. LumaSse2(p) = PackByte(y)
  BY <1>3 DEF LumaSse2
<1> HIDE DEF y
<1> QED BY <1>4, <1>5, <1>6, PackFits

\* Luma: the integer, the SSE2 and the AVX2 form agree on every colour, and the result
\* is within limited range (Driver.cpp and Avx2Convert.cpp).
THEOREM LumaExact ==
  \A p \in Pixel :
    /\ LumaSse2(p) = Luma(p)
    /\ LumaAvx2(p) = Luma(p)
    /\ Luma(p) \in 16 .. 235
<1> TAKE p \in Pixel
<1>1. p.b \in 0 .. 255 /\ p.g \in 0 .. 255 /\ p.r \in 0 .. 255
  BY DEF Pixel, Byte
<1>2. /\ p.r \in Int /\ 0 <= p.r /\ p.r <= 255
      /\ p.g \in Int /\ 0 <= p.g /\ p.g <= 255
      /\ p.b \in Int /\ 0 <= p.b /\ p.b <= 255
  BY <1>1
<1>3. /\ LumaSse2(p) = Luma(p)
      /\ LumaAvx2(p) = Luma(p)
      /\ 16 <= Luma(p) /\ Luma(p) <= 235 /\ Luma(p) \in Int
  BY <1>2, LumaOf
<1> QED BY <1>3

\* The coefficients of U and of V add up to 0 and weigh 112 at most, so that the products,
\* their sums and the biased sum all stay within signed 16-bit lanes.
Fits(v) == v \in Int /\ -28560 <= v /\ v <= 28560

LEMMA FittingLane == ASSUME NEW v, Fits(v) PROVE SignedLane(v) = v
  BY SignedLaneFits DEF Fits

LEMMA FittingShift ==
  ASSUME NEW s, Fits(s)
  PROVE  /\ Add16(s, 128) = s + 128
         /\ Add16(Shr8(s + 128), 128) = Shr8(s + 128) + 128
         /\ Shr8(s + 128) + 128 \in Int
         /\ 16 <= Shr8(s + 128) + 128 /\ Shr8(s + 128) + 128 <= 240
<1>1. s \in Int /\ -28560 <= s /\ s <= 28560
  BY DEF Fits
<1>2. Add16(s, 128) = s + 128
  <2>1. s + 128 \in Int /\ -32768 <= s + 128 /\ s + 128 <= 32767
    BY <1>1
  <2> QED BY <2>1, SignedLaneFits DEF Add16
<1> DEFINE q == Shr8(s + 128)
<1>3. q \in Int /\ -112 <= q /\ q <= 112
  BY <1>1 DEF Shr8
<1> HIDE DEF q
<1>4. q + 128 \in Int /\ 16 <= q + 128 /\ q + 128 <= 240
  BY <1>3
<1>5. Add16(q, 128) = q + 128
  <2>1. q + 128 \in Int /\ -32768 <= q + 128 /\ q + 128 <= 32767
    BY <1>4
  <2> QED BY <2>1, SignedLaneFits DEF Add16
<1> QED BY <1>2, <1>4, <1>5 DEF q

\* The three forms for a pixel p and coefficients k whose products and sums fit.
LEMMA ChromaOf ==
  ASSUME NEW k, NEW p, NEW x, NEW y, NEW z, NEW t, NEW s,
         x = k.r * p.r, y = k.g * p.g, z = k.b * p.b, t = x + y, s = t + z,
         Fits(x), Fits(y), Fits(z), Fits(t), Fits(s)
  PROVE  /\ ChromaSse2(k, p) = Chroma(k, p)
         /\ ChromaAvx2(k, p) = Chroma(k, p)
         /\ 16 <= Chroma(k, p) /\ Chroma(k, p) <= 240 /\ Chroma(k, p) \in Int
<1> DEFINE q == Shr8(s + 128) + 128
<1>1. Weigh(k, p) = s
  BY DEF Weigh
<1>2. Mul16(k.r, p.r) = x /\ Mul16(k.g, p.g) = y /\ Mul16(k.b, p.b) = z
  BY FittingLane DEF Mul16
<1>3. Add16(x, y) = t /\ Add16(t, z) = s
  BY FittingLane DEF Add16
<1>4. /\ Add16(s, 128) = s + 128
      /\ Add16(Shr8(s + 128), 128) = q
      /\ q \in Int /\ 16 <= q /\ q <= 240
  BY FittingShift
<1>5. ChromaSse2(k, p) = ClampByte(q)
  BY <1>2, <1>3, <1>4 DEF ChromaSse2
<1>6. Chroma(k, p) = ClampByte(q) /\ ChromaAvx2(k, p) = PackByte(ClampByte(q))
  BY <1>1 DEF Chroma, ChromaAvx2
<1> HIDE DEF q
<1>7. q \in Int /\ 0 <= q /\ q <= 255
  BY <1>4
<1>8. ClampByte(q) = q /\ PackByte(q) = q
  BY <1>7, PackFits
<1> QED BY <1>4, <1>5, <1>6, <1>8

\* Chroma: the three forms agree on every averaged pixel, and the result is within
\* limited range (Driver.cpp and Avx2Convert.cpp).
THEOREM ChromaExact ==
  \A k \in {KU, KV}, p \in Pixel :
    /\ ChromaSse2(k, p) = Chroma(k, p)
    /\ ChromaAvx2(k, p) = Chroma(k, p)
    /\ Chroma(k, p) \in 16 .. 240
<1> TAKE k \in {KU, KV}, p \in Pixel
<1>1. p.b \in 0 .. 255 /\ p.g \in 0 .. 255 /\ p.r \in 0 .. 255
  BY DEF Pixel, Byte
<1>2. /\ p.r \in Int /\ 0 <= p.r /\ p.r <= 255
      /\ p.g \in Int /\ 0 <= p.g /\ p.g <= 255
      /\ p.b \in Int /\ 0 <= p.b /\ p.b <= 255
  BY <1>1
<1> DEFINE x == k.r * p.r
           y == k.g * p.g
           z == k.b * p.b
           t == x + y
           s == t + z
<1>3. Fits(x) /\ Fits(y) /\ Fits(z) /\ Fits(t) /\ Fits(s)
  <2>1. CASE k = KU
    <3>1. k.r = -38 /\ k.g = -74 /\ k.b = 112
      BY <2>1 DEF KU
    <3>2. x = (-38) * p.r /\ y = (-74) * p.g /\ z = 112 * p.b
      BY <3>1
    <3> HIDE DEF x, y, z
    <3> QED BY <3>2, <1>2 DEF Fits
  <2>2. CASE k = KV
    <3>1. k.r = 112 /\ k.g = -94 /\ k.b = -18
      BY <2>2 DEF KV
    <3>2. x = 112 * p.r /\ y = (-94) * p.g /\ z = (-18) * p.b
      BY <3>1
    <3> HIDE DEF x, y, z
    <3> QED BY <3>2, <1>2 DEF Fits
  <2> QED BY <2>1, <2>2
<1>4. x = k.r * p.r /\ y = k.g * p.g /\ z = k.b * p.b /\ t = x + y /\ s = t + z
  OBVIOUS
<1> HIDE DEF x, y, z, t, s
<1>5. /\ ChromaSse2(k, p) = Chroma(k, p)
      /\ ChromaAvx2(k, p) = Chroma(k, p)
      /\ 16 <= Chroma(k, p) /\ Chroma(k, p) <= 240 /\ Chroma(k, p) \in Int
  BY <1>3, <1>4, ChromaOf
<1> QED BY <1>5

\* Averaging two by two pixels gives a pixel, so that ChromaExact speaks of every block.
THEOREM MeanIsPixel ==
  \A p1 \in Pixel, p2 \in Pixel, p3 \in Pixel, p4 \in Pixel :
    Quarter(AddPixel(AddPixel(p1, p2), AddPixel(p3, p4))) \in Pixel
<1> TAKE p1 \in Pixel, p2 \in Pixel, p3 \in Pixel, p4 \in Pixel
<1> DEFINE Channel(v) == v \in Int /\ 0 <= v /\ v <= 255
<1>1. \A p \in Pixel : Channel(p.b) /\ Channel(p.g) /\ Channel(p.r)
  BY SMTT(20) DEF Pixel, Byte
<1>2. ASSUME NEW v1, NEW v2, NEW v3, NEW v4,
             Channel(v1), Channel(v2), Channel(v3), Channel(v4)
      PROVE  ((v1 + v2) + (v3 + v4)) \div 4 \in Byte
  <2>1. (v1 + v2) + (v3 + v4) \in Int /\ 0 <= (v1 + v2) + (v3 + v4)
        /\ (v1 + v2) + (v3 + v4) <= 1020
    BY <1>2
  <2> DEFINE v == (v1 + v2) + (v3 + v4)
  <2> HIDE DEF v
  <2>2. v \in Int /\ 0 <= v /\ v <= 1020
    BY <2>1 DEF v
  <2>3. v \div 4 \in Int /\ 0 <= v \div 4 /\ v \div 4 <= 255
    BY <2>2
  <2> QED BY <2>3 DEF v, Byte
<1> HIDE DEF Channel
<1>3. ((p1.b + p2.b) + (p3.b + p4.b)) \div 4 \in Byte
  BY <1>1, <1>2
<1>4. ((p1.g + p2.g) + (p3.g + p4.g)) \div 4 \in Byte
  BY <1>1, <1>2
<1>5. ((p1.r + p2.r) + (p3.r + p4.r)) \div 4 \in Byte
  BY <1>1, <1>2
<1> QED BY <1>3, <1>4, <1>5 DEF Quarter, AddPixel, Pixel

----------------------------------------------------------------------------
(* Rows and pictures.                                                      *)

\* The mean of columns c and c + 1 of two rows, and what a block is to hold in column j.
Mean(a, b, c) == Quarter(AddPixel(AddPixel(a[c], a[c + 1]), AddPixel(b[c], b[c + 1])))
Entry(a, b, j) == IF j % 2 = 1 THEN Chroma(KU, Mean(a, b, j)) ELSE Chroma(KV, Mean(a, b, j - 1))

\* Two by two pixels may be added by rows or by columns.
LEMMA MeanEither ==
  ASSUME NEW p1 \in Pixel, NEW p2 \in Pixel, NEW q1 \in Pixel, NEW q2 \in Pixel
  PROVE  /\ Quarter(AddPixel(AddPixel(p1, q1), AddPixel(p2, q2)))
            = Quarter(AddPixel(AddPixel(p1, p2), AddPixel(q1, q2)))
         /\ Quarter(AddPixel(AddPixel(p1, p2), AddPixel(q1, q2))) \in Pixel
<1>1. \A p \in Pixel : p.b \in Int /\ p.g \in Int /\ p.r \in Int
  BY SMTT(20) DEF Pixel, Byte
<1>2. AddPixel(AddPixel(p1, q1), AddPixel(p2, q2)) = AddPixel(AddPixel(p1, p2), AddPixel(q1, q2))
  BY <1>1 DEF AddPixel
<1>3. QED BY <1>2, MeanIsPixel

LEMMA MeanAt ==
  ASSUME NEW a, NEW b, NEW c,
         a[c] \in Pixel, a[c + 1] \in Pixel, b[c] \in Pixel, b[c + 1] \in Pixel
  PROVE  /\ Quarter(AddPixel(AddPixel(a[c], b[c]), AddPixel(a[c + 1], b[c + 1]))) = Mean(a, b, c)
         /\ Mean(a, b, c) \in Pixel
  BY MeanEither DEF Mean

\* The chroma of a mean is the same in all three forms.
LEMMA ChromaForms ==
  ASSUME NEW p \in Pixel
  PROVE  /\ ChromaSse2(KU, p) = Chroma(KU, p) /\ ChromaAvx2(KU, p) = Chroma(KU, p)
         /\ ChromaSse2(KV, p) = Chroma(KV, p) /\ ChromaAvx2(KV, p) = Chroma(KV, p)
         /\ Chroma(KU, p) \in 16 .. 240 /\ Chroma(KV, p) \in 16 .. 240
  BY ChromaExact

\* A pair of columns in the scalar loop.
LEMMA ScalarBlock ==
  ASSUME NEW a, NEW b
  PROVE  UvScalar(a, b)[1] = Entry(a, b, 1) /\ UvScalar(a, b)[2] = Entry(a, b, 2)
<1>1. Mean(a, b, 1) = Quarter(AddPixel(AddPixel(a[1], a[2]), AddPixel(b[1], b[2])))
  BY DEF Mean
<1>2. UvScalar(a, b) = << Chroma(KU, Mean(a, b, 1)), Chroma(KV, Mean(a, b, 1)) >>
  BY <1>1, Zenon DEF UvScalar
<1>3. Entry(a, b, 1) = Chroma(KU, Mean(a, b, 1)) /\ Entry(a, b, 2) = Chroma(KV, Mean(a, b, 1))
  BY DEF Entry
<1>4. QED BY <1>2, <1>3

\* Four columns in one SSE2 register.
LEMMA Sse2Block ==
  ASSUME NEW a \in [1 .. 4 -> Pixel], NEW b \in [1 .. 4 -> Pixel]
  PROVE  \A j \in 1 .. 4 : UvSse2(a, b)[j] = Entry(a, b, j)
<1> DEFINE s == RowSum(a, b)
           mean == [i \in 1 .. Len(s) \div 2 |-> Quarter(AddPixel(s[2 * i - 1], s[2 * i]))]
           u == [i \in DOMAIN mean |-> ChromaSse2(KU, mean[i])]
           v == [i \in DOMAIN mean |-> ChromaSse2(KV, mean[i])]
<1>1. Len(s) = 4 /\ \A x \in 1 .. 4 : s[x] = AddPixel(a[x], b[x])
  BY DEF RowSum
<1> HIDE DEF s
<1>2. /\ DOMAIN mean = 1 .. 2 /\ mean[1] = Quarter(AddPixel(s[1], s[2]))
      /\ mean[2] = Quarter(AddPixel(s[3], s[4]))
  BY <1>1
<1>3. /\ mean[1] = Mean(a, b, 1) /\ mean[2] = Mean(a, b, 3)
      /\ Mean(a, b, 1) \in Pixel /\ Mean(a, b, 3) \in Pixel
  <2>1. /\ a[1] \in Pixel /\ a[2] \in Pixel /\ a[3] \in Pixel /\ a[4] \in Pixel
        /\ b[1] \in Pixel /\ b[2] \in Pixel /\ b[3] \in Pixel /\ b[4] \in Pixel
    OBVIOUS
  <2>2. /\ Mean(a, b, 1) = Quarter(AddPixel(AddPixel(a[1], a[2]), AddPixel(b[1], b[2])))
        /\ Mean(a, b, 3) = Quarter(AddPixel(AddPixel(a[3], a[4]), AddPixel(b[3], b[4])))
    BY DEF Mean
  <2>3. QED BY ONLY <1>1, <1>2, <2>1, <2>2, MeanEither
<1>4. Len(u) = 2 /\ UvSse2(a, b) = Alternate(u, v)
  <2>1. UvSse2(a, b) = Alternate(u, v)
    BY Zenon DEF UvSse2, s
  <2> HIDE DEF mean
  <2>2. Len(u) = 2
    BY <1>2
  <2>3. QED BY <2>1, <2>2
<1>5. /\ u[1] = ChromaSse2(KU, mean[1]) /\ u[2] = ChromaSse2(KU, mean[2])
      /\ v[1] = ChromaSse2(KV, mean[1]) /\ v[2] = ChromaSse2(KV, mean[2])
  <2> HIDE DEF mean
  <2>1. QED BY <1>2
<1> HIDE DEF mean, u, v
<1>6. /\ Alternate(u, v)[1] = u[1] /\ Alternate(u, v)[2] = v[1]
      /\ Alternate(u, v)[3] = u[2] /\ Alternate(u, v)[4] = v[2]
  BY <1>4 DEF Alternate
<1>7. /\ Entry(a, b, 1) = Chroma(KU, Mean(a, b, 1)) /\ Entry(a, b, 2) = Chroma(KV, Mean(a, b, 1))
      /\ Entry(a, b, 3) = Chroma(KU, Mean(a, b, 3)) /\ Entry(a, b, 4) = Chroma(KV, Mean(a, b, 3))
  BY DEF Entry
<1>8. /\ UvSse2(a, b)[1] = Entry(a, b, 1) /\ UvSse2(a, b)[2] = Entry(a, b, 2)
      /\ UvSse2(a, b)[3] = Entry(a, b, 3) /\ UvSse2(a, b)[4] = Entry(a, b, 4)
  BY ONLY <1>3, <1>4, <1>5, <1>6, <1>7, ChromaForms, ZenonT(30)
<1>9. QED BY <1>8

\* Eight columns in one AVX2 register: the two halves that hadd_epi32 leaves.
LEMMA Avx2Block ==
  ASSUME NEW a \in [1 .. 8 -> Pixel], NEW b \in [1 .. 8 -> Pixel]
  PROVE  \A j \in 1 .. 8 : UvAvx2(a, b)[j] = Entry(a, b, j)
<1> DEFINE s == RowSum(a, b)
           sums == HaddZero(s)
           mean == [i \in DOMAIN sums |-> Quarter(sums[i])]
           u == [i \in DOMAIN mean |-> ChromaAvx2(KU, mean[i])]
           v == [i \in DOMAIN mean |-> ChromaAvx2(KV, mean[i])]
           uu == CompactFour(u)
           vv == CompactFour(v)
<1>1. \A x \in 1 .. 8 : s[x] = AddPixel(a[x], b[x])
  BY DEF RowSum
<1>2. UvAvx2(a, b) = Alternate(uu, vv)
  BY Zenon DEF UvAvx2
<1> HIDE DEF s
<1>3. /\ DOMAIN sums = 1 .. 8
      /\ sums[1] = AddPixel(s[1], s[2]) /\ sums[2] = AddPixel(s[3], s[4])
      /\ sums[5] = AddPixel(s[5], s[6]) /\ sums[6] = AddPixel(s[7], s[8])
  BY DEF HaddZero
<1> HIDE DEF sums
<1>4. /\ DOMAIN mean = 1 .. 8
      /\ mean[1] = Quarter(sums[1]) /\ mean[2] = Quarter(sums[2])
      /\ mean[5] = Quarter(sums[5]) /\ mean[6] = Quarter(sums[6])
  BY <1>3
<1>5. /\ mean[1] = Mean(a, b, 1) /\ mean[2] = Mean(a, b, 3)
      /\ mean[5] = Mean(a, b, 5) /\ mean[6] = Mean(a, b, 7)
      /\ Mean(a, b, 1) \in Pixel /\ Mean(a, b, 3) \in Pixel
      /\ Mean(a, b, 5) \in Pixel /\ Mean(a, b, 7) \in Pixel
  <2>1. /\ a[1] \in Pixel /\ a[2] \in Pixel /\ a[3] \in Pixel /\ a[4] \in Pixel
        /\ a[5] \in Pixel /\ a[6] \in Pixel /\ a[7] \in Pixel /\ a[8] \in Pixel
        /\ b[1] \in Pixel /\ b[2] \in Pixel /\ b[3] \in Pixel /\ b[4] \in Pixel
        /\ b[5] \in Pixel /\ b[6] \in Pixel /\ b[7] \in Pixel /\ b[8] \in Pixel
    OBVIOUS
  <2>2. /\ 1 + 1 = 2 /\ 3 + 1 = 4 /\ 5 + 1 = 6 /\ 7 + 1 = 8
    OBVIOUS
  <2>3. /\ s[1] = AddPixel(a[1], b[1]) /\ s[2] = AddPixel(a[2], b[2])
        /\ s[3] = AddPixel(a[3], b[3]) /\ s[4] = AddPixel(a[4], b[4])
        /\ s[5] = AddPixel(a[5], b[5]) /\ s[6] = AddPixel(a[6], b[6])
        /\ s[7] = AddPixel(a[7], b[7]) /\ s[8] = AddPixel(a[8], b[8])
    BY <1>1
  <2> HIDE DEF mean
  <2>4. mean[1] = Mean(a, b, 1) /\ Mean(a, b, 1) \in Pixel
    <3>1. /\ Quarter(AddPixel(AddPixel(a[1], b[1]), AddPixel(a[2], b[2]))) = Mean(a, b, 1)
          /\ Mean(a, b, 1) \in Pixel
      BY ONLY <2>1, <2>2, MeanAt, Zenon
    <3>2. QED BY ONLY <1>3, <1>4, <2>3, <3>1, Zenon
  <2>5. mean[2] = Mean(a, b, 3) /\ Mean(a, b, 3) \in Pixel
    <3>1. /\ Quarter(AddPixel(AddPixel(a[3], b[3]), AddPixel(a[4], b[4]))) = Mean(a, b, 3)
          /\ Mean(a, b, 3) \in Pixel
      BY ONLY <2>1, <2>2, MeanAt, Zenon
    <3>2. QED BY ONLY <1>3, <1>4, <2>3, <3>1, Zenon
  <2>6. mean[5] = Mean(a, b, 5) /\ Mean(a, b, 5) \in Pixel
    <3>1. /\ Quarter(AddPixel(AddPixel(a[5], b[5]), AddPixel(a[6], b[6]))) = Mean(a, b, 5)
          /\ Mean(a, b, 5) \in Pixel
      BY ONLY <2>1, <2>2, MeanAt, Zenon
    <3>2. QED BY ONLY <1>3, <1>4, <2>3, <3>1, Zenon
  <2>7. mean[6] = Mean(a, b, 7) /\ Mean(a, b, 7) \in Pixel
    <3>1. /\ Quarter(AddPixel(AddPixel(a[7], b[7]), AddPixel(a[8], b[8]))) = Mean(a, b, 7)
          /\ Mean(a, b, 7) \in Pixel
      BY ONLY <2>1, <2>2, MeanAt, Zenon
    <3>2. QED BY ONLY <1>3, <1>4, <2>3, <3>1, Zenon
  <2>8. QED BY <2>4, <2>5, <2>6, <2>7
<1>6. /\ \A i \in 1 .. 8 : u[i] = ChromaAvx2(KU, mean[i])
      /\ \A i \in 1 .. 8 : v[i] = ChromaAvx2(KV, mean[i])
  <2> HIDE DEF mean
  <2>1. QED BY <1>4
<1> HIDE DEF mean, u, v
<1>7. uu = << u[1], u[2], u[5], u[6] >> /\ vv = << v[1], v[2], v[5], v[6] >>
  BY Zenon DEF CompactFour
<1> HIDE DEF uu, vv
<1>8. /\ Len(uu) = 4 /\ uu[1] = u[1] /\ uu[2] = u[2] /\ uu[3] = u[5] /\ uu[4] = u[6]
      /\ vv[1] = v[1] /\ vv[2] = v[2] /\ vv[3] = v[5] /\ vv[4] = v[6]
  BY <1>7
<1>9. /\ Alternate(uu, vv)[1] = uu[1] /\ Alternate(uu, vv)[2] = vv[1]
      /\ Alternate(uu, vv)[3] = uu[2] /\ Alternate(uu, vv)[4] = vv[2]
      /\ Alternate(uu, vv)[5] = uu[3] /\ Alternate(uu, vv)[6] = vv[3]
      /\ Alternate(uu, vv)[7] = uu[4] /\ Alternate(uu, vv)[8] = vv[4]
  BY <1>8 DEF Alternate
<1>10. /\ Entry(a, b, 1) = Chroma(KU, Mean(a, b, 1)) /\ Entry(a, b, 2) = Chroma(KV, Mean(a, b, 1))
       /\ Entry(a, b, 3) = Chroma(KU, Mean(a, b, 3)) /\ Entry(a, b, 4) = Chroma(KV, Mean(a, b, 3))
       /\ Entry(a, b, 5) = Chroma(KU, Mean(a, b, 5)) /\ Entry(a, b, 6) = Chroma(KV, Mean(a, b, 5))
       /\ Entry(a, b, 7) = Chroma(KU, Mean(a, b, 7)) /\ Entry(a, b, 8) = Chroma(KV, Mean(a, b, 7))
  BY DEF Entry
<1>11. /\ u[1] = ChromaAvx2(KU, mean[1]) /\ u[2] = ChromaAvx2(KU, mean[2])
       /\ u[5] = ChromaAvx2(KU, mean[5]) /\ u[6] = ChromaAvx2(KU, mean[6])
       /\ v[1] = ChromaAvx2(KV, mean[1]) /\ v[2] = ChromaAvx2(KV, mean[2])
       /\ v[5] = ChromaAvx2(KV, mean[5]) /\ v[6] = ChromaAvx2(KV, mean[6])
  BY <1>6
<1>12. UvAvx2(a, b)[1] = Entry(a, b, 1) /\ UvAvx2(a, b)[2] = Entry(a, b, 2)
  BY ONLY <1>2, <1>5, <1>8, <1>9, <1>10, <1>11, ChromaForms
<1>13. UvAvx2(a, b)[3] = Entry(a, b, 3) /\ UvAvx2(a, b)[4] = Entry(a, b, 4)
  BY ONLY <1>2, <1>5, <1>8, <1>9, <1>10, <1>11, ChromaForms
<1>14. UvAvx2(a, b)[5] = Entry(a, b, 5) /\ UvAvx2(a, b)[6] = Entry(a, b, 6)
  BY ONLY <1>2, <1>5, <1>8, <1>9, <1>10, <1>11, ChromaForms
<1>15. UvAvx2(a, b)[7] = Entry(a, b, 7) /\ UvAvx2(a, b)[8] = Entry(a, b, 8)
  BY ONLY <1>2, <1>5, <1>8, <1>9, <1>10, <1>11, ChromaForms
<1>16. QED BY <1>12, <1>13, <1>14, <1>15

\* A block of n columns that starts at column f of two rows, seen from inside the block.
IsBlock(a, b, c, d, n, f) ==
  n % 2 = 0 /\ f % 2 = 1 /\ \A i \in 1 .. n : a[i] = c[f + i - 1] /\ b[i] = d[f + i - 1]

LEMMA EntryInBlock ==
  ASSUME NEW a, NEW b, NEW c, NEW d, NEW n \in Nat, NEW f \in Nat, NEW j \in 1 .. n,
         IsBlock(a, b, c, d, n, f)
  PROVE  Entry(a, b, j) = Entry(c, d, f + j - 1)
<1>0. n % 2 = 0 /\ f % 2 = 1
  BY DEF IsBlock
<1>1. CASE j % 2 = 1
  <2>1. j \in 1 .. n /\ j + 1 \in 1 .. n /\ (f + j - 1) % 2 = 1 /\ f + (j + 1) - 1 = (f + j - 1) + 1
    BY <1>0, <1>1
  <2>2. a[j] = c[f + j - 1] /\ b[j] = d[f + j - 1]
        /\ a[j + 1] = c[(f + j - 1) + 1] /\ b[j + 1] = d[(f + j - 1) + 1]
    BY <2>1 DEF IsBlock
  <2>3. Mean(a, b, j) = Mean(c, d, f + j - 1)
    BY <2>2, Zenon DEF Mean
  <2>4. QED BY ONLY <1>1, <2>1, <2>3, Zenon DEF Entry
<1>2. CASE j % 2 # 1
  <2>1. j - 1 \in 1 .. n /\ (f + j - 1) % 2 # 1
        /\ f + (j - 1) - 1 = (f + j - 1) - 1 /\ f + j - 1 = ((f + j - 1) - 1) + 1 /\ j = (j - 1) + 1
    BY <1>0, <1>2
  <2>2. a[j - 1] = c[(f + j - 1) - 1] /\ b[j - 1] = d[(f + j - 1) - 1]
        /\ a[(j - 1) + 1] = c[((f + j - 1) - 1) + 1] /\ b[(j - 1) + 1] = d[((f + j - 1) - 1) + 1]
    BY <2>1 DEF IsBlock
  <2>3. Mean(a, b, j - 1) = Mean(c, d, (f + j - 1) - 1)
    BY <2>2, Zenon DEF Mean
  <2>4. QED BY ONLY <1>2, <2>1, <2>3, Zenon DEF Entry
<1>3. QED BY <1>1, <1>2

\* A row of pixels, and a picture.
IsRow(a, w) == a \in [1 .. w -> Pixel]
IsPicture(pic) ==
  /\ pic \in Seq(Seq(Pixel)) /\ Len(pic) % 2 = 0
  /\ \E w \in Nat : w % 2 = 0 /\ \A i \in DOMAIN pic : Len(pic[i]) = w

\* The block of a column lies within the row, and begins at an odd column.
LEMMA BlockOf ==
  ASSUME NEW w \in Nat, w % 2 = 0, NEW x \in 1 .. w, NEW n \in {2, 4, 8}, x <= (w \div n) * n
  PROVE  /\ First(n, x) \in 1 .. w /\ First(n, x) % 2 = 1 /\ First(n, x) + n - 1 <= w
         /\ x - First(n, x) + 1 \in 1 .. n
<1>1. CASE n = 2
  BY <1>1 DEF First
<1>2. CASE n = 4
  BY <1>2 DEF First
<1>3. CASE n = 8
  BY <1>3 DEF First
<1>4. QED BY <1>1, <1>2, <1>3

\* The columns of a block.
LEMMA SubRow ==
  ASSUME NEW w \in Nat, NEW a, IsRow(a, w), NEW n \in {2, 4, 8}, NEW f \in 1 .. w, f + n - 1 <= w
  PROVE  /\ SubSeq(a, f, f + n - 1) \in [1 .. n -> Pixel]
         /\ \A i \in 1 .. n : SubSeq(a, f, f + n - 1)[i] = a[f + i - 1]
<1>1. a \in Seq(Pixel) /\ Len(a) = w /\ DOMAIN a = 1 .. w
  BY DEF IsRow
<1>2. SubSeq(a, f, f + n - 1) = [i \in 1 .. n |-> a[f + i - 1]]
  BY <1>1
<1>3. \A i \in 1 .. n : f + i - 1 \in 1 .. w
  OBVIOUS
<1>4. \A i \in 1 .. n : a[f + i - 1] \in Pixel
  BY <1>3 DEF IsRow
<1>5. QED BY ONLY <1>2, <1>4

\* Every column of a chroma row, whichever instructions compute its block.
LEMMA UvColumn ==
  ASSUME NEW w \in Nat, w % 2 = 0, NEW c, IsRow(c, w), NEW d, IsRow(d, w), NEW x \in 1 .. w,
         NEW avx2 \in BOOLEAN
  PROVE  UvRow(avx2, c, d)[x] = Entry(c, d, x)
<1> DEFINE scalar == x > VectorEnd(avx2, Len(c))
           n == IF scalar THEN 2 ELSE Step(avx2)
           f == First(n, x)
           a == SubSeq(c, f, f + n - 1)
           b == SubSeq(d, f, f + n - 1)
           j == x - f + 1
<1>1. Len(c) = w /\ DOMAIN c = 1 .. w
  BY DEF IsRow
<1>2. UvRow(avx2, c, d)[x] =
        (IF scalar THEN UvScalar(a, b) ELSE IF avx2 THEN UvAvx2(a, b) ELSE UvSse2(a, b))[j]
  BY <1>1 DEF UvRow
<1>3. /\ n \in {2, 4, 8} /\ x <= (w \div n) * n
      /\ scalar => n = 2
      /\ ~scalar /\ avx2 => n = 8
      /\ ~scalar /\ ~avx2 => n = 4
  BY <1>1 DEF VectorEnd, Step
<1> HIDE DEF scalar, n
<1>4. /\ f \in 1 .. w /\ f % 2 = 1 /\ f + n - 1 <= w /\ j \in 1 .. n
  BY <1>3, BlockOf
<1> HIDE DEF f
<1>5. /\ a \in [1 .. n -> Pixel] /\ \A i \in 1 .. n : a[i] = c[f + i - 1]
  <2>1. n \in {2, 4, 8} /\ f \in 1 .. w /\ f + n - 1 <= w
    BY <1>3, <1>4
  <2>2. QED BY ONLY w \in Nat, IsRow(c, w), <2>1, SubRow
<1>6. /\ b \in [1 .. n -> Pixel] /\ \A i \in 1 .. n : b[i] = d[f + i - 1]
  <2>1. n \in {2, 4, 8} /\ f \in 1 .. w /\ f + n - 1 <= w
    BY <1>3, <1>4
  <2>2. QED BY ONLY w \in Nat, IsRow(d, w), <2>1, SubRow
<1> HIDE DEF a, b
<1>7. Entry(a, b, j) = Entry(c, d, x)
  <2>1. f \in Nat /\ f + j - 1 = x
    BY <1>4
  <2> HIDE DEF j
  <2>2. IsBlock(a, b, c, d, n, f)
    BY SMTT(20), <1>3, <1>4, <1>5, <1>6 DEF IsBlock
  <2>3. n \in Nat /\ j \in 1 .. n
    BY <1>3, <1>4
  <2>4. Entry(a, b, j) = Entry(c, d, f + j - 1)
    BY ONLY <2>1, <2>2, <2>3, EntryInBlock
  <2>5. QED BY <2>1, <2>4
<1> HIDE DEF j
<1>8. CASE scalar
  <2>1. j = 1 \/ j = 2
    BY <1>3, <1>4, <1>8
  <2>2. UvScalar(a, b)[j] = Entry(a, b, j)
    BY <2>1, ScalarBlock
  <2>3. QED BY <1>2, <1>7, <1>8, <2>2
<1>9. CASE ~scalar /\ avx2
  <2>1. UvAvx2(a, b)[j] = Entry(a, b, j)
    BY <1>3, <1>4, <1>5, <1>6, <1>9, Avx2Block
  <2>2. QED BY <1>2, <1>7, <1>9, <2>1
<1>10. CASE ~scalar /\ ~avx2
  <2>1. UvSse2(a, b)[j] = Entry(a, b, j)
    BY <1>3, <1>4, <1>5, <1>6, <1>10, Sse2Block
  <2>2. QED BY <1>2, <1>7, <1>10, <2>1
<1>11. QED BY <1>8, <1>9, <1>10

\* A chroma byte of a row is within limited range.
LEMMA EntryInRange ==
  ASSUME NEW w \in Nat, w % 2 = 0, NEW c, IsRow(c, w), NEW d, IsRow(d, w), NEW x \in 1 .. w
  PROVE  Entry(c, d, x) \in 16 .. 240
<1>1. ASSUME NEW i \in 1 .. w, i % 2 = 1
      PROVE  Mean(c, d, i) \in Pixel
  <2>1. i + 1 \in 1 .. w
    BY <1>1
  <2>2. c[i] \in Pixel /\ c[i + 1] \in Pixel /\ d[i] \in Pixel /\ d[i + 1] \in Pixel
    BY <2>1 DEF IsRow
  <2>3. QED BY ONLY <2>2, MeanAt
<1>2. CASE x % 2 = 1
  BY <1>1, <1>2, ChromaForms DEF Entry
<1>3. CASE x % 2 # 1
  <2>1. x - 1 \in 1 .. w /\ (x - 1) % 2 = 1
    BY <1>3
  <2>2. Mean(c, d, x - 1) \in Pixel
    BY <1>1, <2>1
  <2>3. QED BY <1>3, <2>2, ChromaForms DEF Entry
<1>4. QED BY <1>2, <1>3

\* A chroma row is what Entry says, and so is the reference's.
LEMMA UvRowIs ==
  ASSUME NEW w \in Nat, w % 2 = 0, NEW c, IsRow(c, w), NEW d, IsRow(d, w), NEW avx2 \in BOOLEAN
  PROVE  UvRow(avx2, c, d) = [x \in 1 .. w |-> Entry(c, d, x)]
<1>1. DOMAIN c = 1 .. w
  BY DEF IsRow
<1> DEFINE g == UvRow(avx2, c, d)
<1>2. g = [x \in DOMAIN g |-> g[x]] /\ DOMAIN g = 1 .. w
  BY <1>1 DEF UvRow
<1> HIDE DEF g
<1>3. \A x \in 1 .. w : g[x] = Entry(c, d, x)
  BY UvColumn DEF g
<1>4. g = [x \in 1 .. w |-> Entry(c, d, x)]
  BY ONLY <1>2, <1>3
<1>5. QED BY <1>4 DEF g

Pair(row, x) == SubSeq(row, First(2, x), First(2, x) + 1)

LEMMA ReferenceColumn ==
  ASSUME NEW w \in Nat, w % 2 = 0, NEW c, IsRow(c, w), NEW d, IsRow(d, w), NEW x \in 1 .. w
  PROVE  UvScalar(Pair(c, x), Pair(d, x))[x - First(2, x) + 1] = Entry(c, d, x)
<1> DEFINE f == First(2, x)
           a == Pair(c, x)
           b == Pair(d, x)
           j == x - f + 1
<1>2. f \in 1 .. w /\ f % 2 = 1 /\ f + 2 - 1 <= w /\ j \in 1 .. 2 /\ f + 2 - 1 = f + 1
  BY DEF First
<1>3. a = SubSeq(c, f, f + 2 - 1) /\ b = SubSeq(d, f, f + 2 - 1)
  BY <1>2 DEF Pair
<1> HIDE DEF f, a, b
<1>4. \A i \in 1 .. 2 : a[i] = c[f + i - 1]
  BY ONLY w \in Nat, IsRow(c, w), <1>2, <1>3, SubRow
<1>5. \A i \in 1 .. 2 : b[i] = d[f + i - 1]
  BY ONLY w \in Nat, IsRow(d, w), <1>2, <1>3, SubRow
<1>6. IsBlock(a, b, c, d, 2, f) /\ f \in Nat /\ f + j - 1 = x
  BY <1>2, <1>4, <1>5 DEF IsBlock
<1>7. j = 1 \/ j = 2
  BY <1>2
<1>8. UvScalar(a, b)[j] = Entry(a, b, j)
  BY <1>7, ScalarBlock
<1> HIDE DEF j
<1>9. Entry(a, b, j) = Entry(c, d, f + j - 1)
  BY ONLY <1>2, <1>6, EntryInBlock
<1>10. UvScalar(a, b)[j] = Entry(c, d, x)
  BY ONLY <1>6, <1>8, <1>9, Zenon
<1>11. QED BY <1>10, Zenon DEF a, b, j, f

\* The luma of a row.
LEMMA YRowIs ==
  ASSUME NEW w \in Nat, NEW c, IsRow(c, w), NEW avx2 \in BOOLEAN
  PROVE  /\ YRow(avx2, c) = [x \in DOMAIN c |-> Luma(c[x])]
         /\ \A x \in DOMAIN c : Luma(c[x]) \in 16 .. 235
<1>1. \A x \in DOMAIN c : c[x] \in Pixel
  BY DEF IsRow
<1>2. \A x \in DOMAIN c : /\ LumaSse2(c[x]) = Luma(c[x]) /\ LumaAvx2(c[x]) = Luma(c[x])
                         /\ Luma(c[x]) \in 16 .. 235
  BY <1>1, LumaExact
<1>3. \A x \in DOMAIN c :
        (IF x > VectorEnd(avx2, Len(c)) THEN Luma(c[x])
         ELSE IF avx2 THEN LumaAvx2(c[x]) ELSE LumaSse2(c[x])) = Luma(c[x])
  BY <1>2, Zenon
<1>4. YRow(avx2, c) = [x \in DOMAIN c |-> Luma(c[x])]
  BY <1>3, Zenon DEF YRow
<1>5. QED BY <1>2, <1>4

\* Every byte is within the limited range of video.
Within(low, high, plane) ==
  \A i \in DOMAIN plane : \A x \in DOMAIN plane[i] : plane[i][x] \in low .. high
WithinRange(out) == Within(16, 235, out.y) /\ Within(16, 240, out.uv)

\* The planes of a picture by the vectors, whichever, are the reference's.
Planes(avx2, pic) ==
  [y  |-> [i \in DOMAIN pic |-> YRow(avx2, pic[i])],
   uv |-> [i \in 1 .. Len(pic) \div 2 |-> UvRow(avx2, pic[2 * i - 1], pic[2 * i])]]

LEMMA PictureRows ==
  ASSUME NEW pic, IsPicture(pic)
  PROVE  \E w \in Nat : w % 2 = 0 /\ \A i \in DOMAIN pic : IsRow(pic[i], w) /\ DOMAIN pic[i] = 1 .. w
<1>1. PICK w \in Nat : w % 2 = 0 /\ \A i \in DOMAIN pic : Len(pic[i]) = w
  BY DEF IsPicture
<1>2. \A i \in DOMAIN pic : pic[i] \in Seq(Pixel)
  BY DEF IsPicture
<1>3. \A i \in DOMAIN pic : DOMAIN pic[i] = 1 .. w /\ pic[i] \in [1 .. w -> Pixel]
  BY <1>1, <1>2
<1>4. QED BY <1>1, <1>3 DEF IsRow

LEMMA PlanesAre ==
  ASSUME NEW pic, IsPicture(pic), NEW avx2 \in BOOLEAN
  PROVE  /\ Planes(avx2, pic) = Reference(pic)
         /\ WithinRange(Reference(pic))
<1>1. PICK w \in Nat : w % 2 = 0 /\ \A i \in DOMAIN pic : IsRow(pic[i], w) /\ DOMAIN pic[i] = 1 .. w
  BY PictureRows
<1>2. DOMAIN pic = 1 .. Len(pic) /\ Len(pic) \in Nat
  BY DEF IsPicture
<1>3. \A i \in DOMAIN pic : /\ YRow(avx2, pic[i]) = [x \in DOMAIN pic[i] |-> Luma(pic[i][x])]
                           /\ \A x \in DOMAIN pic[i] : Luma(pic[i][x]) \in 16 .. 235
  <2> SUFFICES ASSUME NEW i \in DOMAIN pic
               PROVE  /\ YRow(avx2, pic[i]) = [x \in DOMAIN pic[i] |-> Luma(pic[i][x])]
                      /\ \A x \in DOMAIN pic[i] : Luma(pic[i][x]) \in 16 .. 235
    OBVIOUS
  <2> DEFINE row == pic[i]
  <2>1. IsRow(row, w) /\ DOMAIN row = 1 .. w
    BY <1>1
  <2> HIDE DEF row
  <2>2. /\ YRow(avx2, row) = [x \in DOMAIN row |-> Luma(row[x])]
        /\ \A x \in DOMAIN row : Luma(row[x]) \in 16 .. 235
    BY ONLY <2>1, w \in Nat, avx2 \in BOOLEAN, YRowIs
  <2>3. QED BY <2>2 DEF row
<1>4. ASSUME NEW i \in 1 .. Len(pic) \div 2
      PROVE  /\ UvRow(avx2, pic[2 * i - 1], pic[2 * i])
                = [x \in DOMAIN pic[1] |->
                     UvScalar(Pair(pic[2 * i - 1], x), Pair(pic[2 * i], x))[x - First(2, x) + 1]]
             /\ \A x \in DOMAIN pic[1] :
                  UvScalar(Pair(pic[2 * i - 1], x), Pair(pic[2 * i], x))[x - First(2, x) + 1]
                    \in 16 .. 240
  <2>1. 2 * i - 1 \in DOMAIN pic /\ 2 * i \in DOMAIN pic /\ 1 \in DOMAIN pic
    BY <1>2
  <2> DEFINE c == pic[2 * i - 1]
             d == pic[2 * i]
  <2>2. IsRow(c, w) /\ IsRow(d, w) /\ DOMAIN pic[1] = 1 .. w
    BY <1>1, <2>1
  <2> HIDE DEF c, d
  <2>3. UvRow(avx2, c, d) = [x \in 1 .. w |-> Entry(c, d, x)]
    BY <1>1, <2>2, UvRowIs
  <2>4. \A x \in 1 .. w : UvScalar(Pair(c, x), Pair(d, x))[x - First(2, x) + 1] = Entry(c, d, x)
    BY <1>1, <2>2, ReferenceColumn
  <2>5. \A x \in 1 .. w : Entry(c, d, x) \in 16 .. 240
    BY <1>1, <2>2, EntryInRange
  <2> DEFINE e(x) == UvScalar(Pair(c, x), Pair(d, x))[x - First(2, x) + 1]
  <2>6. \A x \in 1 .. w : e(x) = Entry(c, d, x)
    BY <2>4
  <2> HIDE DEF e
  <2>7. UvRow(avx2, c, d) = [x \in DOMAIN pic[1] |-> e(x)]
    BY ONLY <2>2, <2>3, <2>6
  <2>8. \A x \in DOMAIN pic[1] : e(x) \in 16 .. 240
    BY ONLY <2>2, <2>5, <2>6, Zenon
  <2>9. QED BY <2>7, <2>8, Zenon DEF c, d, e
<1>5. Reference(pic) =
        [y  |-> [i \in DOMAIN pic |-> [x \in DOMAIN pic[i] |-> Luma(pic[i][x])]],
         uv |-> [i \in 1 .. Len(pic) \div 2 |->
                  [x \in DOMAIN pic[1] |->
                     UvScalar(Pair(pic[2 * i - 1], x), Pair(pic[2 * i], x))[x - First(2, x) + 1]]]]
  BY Zenon DEF Reference, Pair
<1>6. [i \in DOMAIN pic |-> YRow(avx2, pic[i])]
      = [i \in DOMAIN pic |-> [x \in DOMAIN pic[i] |-> Luma(pic[i][x])]]
  BY <1>3, Zenon
<1>7. [i \in 1 .. Len(pic) \div 2 |-> UvRow(avx2, pic[2 * i - 1], pic[2 * i])]
      = [i \in 1 .. Len(pic) \div 2 |->
           [x \in DOMAIN pic[1] |->
              UvScalar(Pair(pic[2 * i - 1], x), Pair(pic[2 * i], x))[x - First(2, x) + 1]]]
  BY <1>4, Zenon
<1>8. Planes(avx2, pic) = Reference(pic)
  BY <1>5, <1>6, <1>7, Zenon DEF Planes
<1>9. ASSUME NEW i \in DOMAIN Reference(pic).y, NEW x \in DOMAIN Reference(pic).y[i]
      PROVE  Reference(pic).y[i][x] \in 16 .. 235
  <2>1. Reference(pic).y = [k \in DOMAIN pic |-> [z \in DOMAIN pic[k] |-> Luma(pic[k][z])]]
    BY <1>5
  <2>2. i \in DOMAIN pic /\ Reference(pic).y[i] = [z \in DOMAIN pic[i] |-> Luma(pic[i][z])]
    BY ONLY <2>1, i \in DOMAIN Reference(pic).y
  <2>3. x \in DOMAIN pic[i] /\ Reference(pic).y[i][x] = Luma(pic[i][x])
    BY ONLY <2>2, x \in DOMAIN Reference(pic).y[i]
  <2>4. QED BY <1>3, <2>2, <2>3
<1>10. ASSUME NEW i \in DOMAIN Reference(pic).uv, NEW x \in DOMAIN Reference(pic).uv[i]
       PROVE  Reference(pic).uv[i][x] \in 16 .. 240
  <2> DEFINE e(k, z) == UvScalar(Pair(pic[2 * k - 1], z), Pair(pic[2 * k], z))[z - First(2, z) + 1]
  <2>1. Reference(pic).uv = [k \in 1 .. Len(pic) \div 2 |-> [z \in DOMAIN pic[1] |-> e(k, z)]]
    BY <1>5
  <2>2. \A k \in 1 .. Len(pic) \div 2 : \A z \in DOMAIN pic[1] : e(k, z) \in 16 .. 240
    BY <1>4
  <2> HIDE DEF e
  <2>3. i \in 1 .. Len(pic) \div 2 /\ Reference(pic).uv[i] = [z \in DOMAIN pic[1] |-> e(i, z)]
    BY ONLY <2>1, i \in DOMAIN Reference(pic).uv
  <2>4. x \in DOMAIN pic[1] /\ Reference(pic).uv[i][x] = e(i, x)
    BY ONLY <2>3, x \in DOMAIN Reference(pic).uv[i]
  <2>5. e(i, x) \in 16 .. 240
    BY ONLY <2>2, <2>3, <2>4, Zenon
  <2>6. QED BY ONLY <2>4, <2>5, Zenon
<1>11. WithinRange(Reference(pic))
  BY <1>9, <1>10, Zenon DEF WithinRange, Within
<1>12. QED BY <1>8, <1>11

\* Every byte of a converted picture, whichever instructions the processor has and
\* wherever a row's vectors end, is what the formulas for one pixel, and for two by two of
\* them, make of the pixels there (ConvertBgraToNv12), and within limited range.
THEOREM PicturesAgree ==
  ASSUME NEW pic, IsPicture(pic), NEW hasAvx2 \in BOOLEAN
  PROVE  /\ Convert(hasAvx2, pic) = Reference(pic)
         /\ WithinRange(Convert(hasAvx2, pic))
<1>1. Nv12Avx2(pic) = Planes(TRUE, pic) /\ Nv12Sse2(pic) = Planes(FALSE, pic)
  BY Zenon DEF Nv12Avx2, Nv12Sse2, Planes
<1>2. Planes(TRUE, pic) = Reference(pic) /\ Planes(FALSE, pic) = Reference(pic)
  BY PlanesAre
<1>3. Convert(hasAvx2, pic) = Reference(pic)
  BY <1>1, <1>2, Zenon DEF Convert
<1>4. WithinRange(Reference(pic))
  BY PlanesAre
<1>5. QED BY <1>3, <1>4, Zenon

=============================================================================
