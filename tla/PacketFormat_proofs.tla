------------------------- MODULE PacketFormat_proofs -------------------------
(***************************************************************************)
(* What the client reads is what the host wrote, for every number, access  *)
(* unit and pointer and whatever follows on the wire.  Positions in a      *)
(* packet are reasoned about with At: some bytes stand in others from some *)
(* place on, and keep standing there as more is appended.                  *)
(*                                                                         *)
(* Then sequences of any length, of NAL units in an access unit and of     *)
(* packets in a stream.  Lays says where parts that are put one after the  *)
(* other stand in the whole; what a search or a reader makes of the whole  *)
(* is followed from one part to the next, by induction from the last one,  *)
(* which takes the least counterexample of a set (Least, Recursion).       *)
(***************************************************************************)
EXTENDS PacketFormat, SequenceTheorems, WellFoundedInduction, TLAPS

----------------------------------------------------------------------------
(* Numbers in fields.                                                      *)

\* A byte has at least two values, and an even number of them.
ByteOK == Base \in Nat /\ Base >= 2 /\ Base = 2 * (Base \div 2)

LEMMA Words == ASSUME ByteOK PROVE Word \in Nat /\ Word >= 2 /\ DWord \in Nat /\ DWord >= 1
<1>1. Base \in Nat /\ Base >= 2
  BY DEF ByteOK
<1>2. ASSUME NEW k \in Nat, k >= 1 PROVE Base * k \in Nat /\ Base * k >= 1 /\ Base * k >= 2
  BY <1>1, <1>2
<1>3. Base >= 1
  BY <1>1
<1>4. Word \in Nat /\ Word >= 1 /\ Word >= 2
  BY ONLY <1>1, <1>2, <1>3 DEF Word
<1>5. DWord \in Nat /\ DWord >= 1
  BY ONLY <1>2, <1>4 DEF DWord
<1>6. QED BY <1>4, <1>5

\* Division with remainder.
LEMMA Division ==
  ASSUME NEW b \in Nat, b >= 1, NEW v \in Nat
  PROVE  v % b \in Nat /\ v \div b \in Nat /\ v = (v % b) + b * (v \div b)
OBVIOUS

\* A value that fits into one byte more than k does, shifted by a byte, is less than k.
LEMMA ShiftBound ==
  ASSUME NEW b \in Nat, b >= 1, NEW v \in Nat, NEW k \in Nat, v < b * k
  PROVE  v \div b < k
<1> DEFINE q == v \div b
<1>1. q \in Nat /\ b * q <= v
  BY Division
<1>2. b * q < b * k
  BY <1>1
<1>3. SUFFICES ASSUME q >= k PROVE FALSE
  BY <1>1
<1>4. b * q >= b * k
  BY <1>1, <1>3
<1>5. QED BY <1>1, <1>2, <1>4

\* Shifts x lists the values a number takes as it is shifted, byte by byte.
Shifts(x) == x \in [1 .. 9 -> Nat] /\ \A i \in 1 .. 8 : x[i + 1] = x[i] \div Base

LEMMA ShiftsExist ==
  ASSUME ByteOK, NEW v \in Nat
  PROVE  \E x : Shifts(x) /\ x[1] = v
<1> DEFINE a == v \div Base
           b == a \div Base
           c == b \div Base
           d == c \div Base
           e == d \div Base
           f == e \div Base
           g == f \div Base
           h == g \div Base
           x == [i \in 1 .. 9 |-> IF i = 1 THEN v ELSE IF i = 2 THEN a ELSE IF i = 3 THEN b
                                  ELSE IF i = 4 THEN c ELSE IF i = 5 THEN d ELSE IF i = 6 THEN e
                                  ELSE IF i = 7 THEN f ELSE IF i = 8 THEN g ELSE h]
<1>0. Base \in Nat /\ Base >= 1
  BY DEF ByteOK
<1>1. a \in Nat /\ b \in Nat /\ c \in Nat /\ d \in Nat /\ e \in Nat /\ f \in Nat /\ g \in Nat
      /\ h \in Nat
  BY <1>0, Division
<1> HIDE DEF a, b, c, d, e, f, g, h
<1>2. x \in [1 .. 9 -> Nat]
  BY <1>1
<1>3. /\ x[1] = v /\ x[2] = a /\ x[3] = b /\ x[4] = c /\ x[5] = d /\ x[6] = e /\ x[7] = f
      /\ x[8] = g /\ x[9] = h
  OBVIOUS
<1> HIDE DEF x
<1>4. ASSUME NEW i \in 1 .. 8 PROVE x[i + 1] = x[i] \div Base
  <2>1. i = 1 \/ i = 2 \/ i = 3 \/ i = 4 \/ i = 5 \/ i = 6 \/ i = 7 \/ i = 8
    OBVIOUS
  <2>2. QED BY <1>3, <2>1 DEF a, b, c, d, e, f, g, h
<1>5. QED BY <1>2, <1>3, <1>4 DEF Shifts

\* A word is used up by four shifts, a double word by eight.
LEMMA ShiftsEnd ==
  ASSUME ByteOK, NEW x, Shifts(x)
  PROVE  (x[1] < Word => x[5] = 0) /\ (x[1] < DWord => x[9] = 0)
<1>0. Base \in Nat /\ Base >= 1
  BY DEF ByteOK
<1>1. \A i \in 1 .. 8 : x[i] \in Nat /\ x[i + 1] \in Nat /\ x[i + 1] = x[i] \div Base
  BY DEF Shifts
<1>2. ASSUME NEW i \in 1 .. 8, NEW k \in Nat, x[i] < Base * k PROVE x[i + 1] < k
  BY <1>0, <1>1, <1>2, ShiftBound
<1>3. ASSUME NEW i \in 1 .. 5, x[i] < Word PROVE x[i + 4] = 0
  <2> DEFINE p == Base * Base
             q == Base * p
  <2>1. p \in Nat /\ q \in Nat /\ Word = Base * q
    BY <1>0 DEF Word
  <2>2. x[i + 1] < q
    BY <1>2, <1>3, <2>1
  <2>3. x[i + 1 + 1] < p
    BY <1>2, <2>1, <2>2
  <2>4. x[i + 1 + 1 + 1] < Base
    BY <1>2, <1>0, <2>3
  <2>5. x[i + 1 + 1 + 1] < Base * 1
    BY <1>0, <2>4
  <2>6. x[i + 1 + 1 + 1 + 1] < 1
    BY <1>2, <2>5
  <2>7. QED BY <1>1, <2>6
<1>4. ASSUME x[1] < DWord PROVE x[5] < Word
  <2> DEFINE p == Base * Word
             q == Base * p
             r == Base * q
  <2>1. Word \in Nat
    BY <1>0 DEF Word
  <2>2. p \in Nat /\ q \in Nat /\ r \in Nat /\ DWord = Base * r
    BY <1>0, <2>1 DEF DWord
  <2>3. x[1 + 1] < r
    BY <1>2, <1>4, <2>2
  <2>4. x[1 + 1 + 1] < q
    BY <1>2, <2>2, <2>3
  <2>5. x[1 + 1 + 1 + 1] < p
    BY <1>2, <2>2, <2>4
  <2>6. x[1 + 1 + 1 + 1 + 1] < Word
    BY <1>2, <2>1, <2>5
  <2>7. QED BY <2>6
<1>5. QED BY <1>3, <1>4

\* The bytes of a field of at most eight are the remainders of the shifts.
LEMMA LeIs ==
  ASSUME ByteOK, NEW n \in 1 .. 8, NEW x, Shifts(x)
  PROVE  Le(n, x[1]) = [i \in 1 .. n |-> x[i] % Base]
<1> DEFINE Step(f) == [i \in 1 .. n |-> IF i = 1 THEN x[1] ELSE f[i - 1] \div Base]
           shifted == CHOOSE f : f = Step(f)
           g == [i \in 1 .. n |-> x[i]]
<1>1. Le(n, x[1]) = [i \in 1 .. n |-> shifted[i] % Base]
  BY DEF Le
<1>2. g = Step(g)
  <2>1. ASSUME NEW i \in 1 .. n, i # 1 PROVE x[i] = x[i - 1] \div Base
    <3>1. i - 1 \in 1 .. 8 /\ (i - 1) + 1 = i
      BY <2>1
    <3>2. x[(i - 1) + 1] = x[i - 1] \div Base
      BY <3>1 DEF Shifts
    <3>3. QED BY <3>1, <3>2
  <2>2. QED BY <2>1
<1>3. shifted = Step(shifted)
  BY <1>2
<1> HIDE DEF shifted
<1>4. shifted[1] = x[1] /\ \A i \in 1 .. n - 1 : shifted[i + 1] = shifted[i] \div Base
  BY <1>3
<1>5. \A i \in 1 .. n - 1 : shifted[i] = x[i] => shifted[i + 1] = x[i + 1]
  BY <1>4 DEF Shifts
<1>6. \A i \in 1 .. n : shifted[i] = x[i]
  BY <1>4, <1>5, SMTT(30)
<1>7. QED BY <1>1, <1>6

\* A number is its last byte and Base times the rest.
LEMMA ShiftsRebuild ==
  ASSUME ByteOK, NEW x, Shifts(x), NEW i \in 1 .. 8
  PROVE  x[i] = (x[i] % Base) + Base * x[i + 1]
<1>1. x[i] \in Nat /\ x[i + 1] = x[i] \div Base
  BY DEF Shifts
<1>2. Base \in Nat /\ Base >= 1
  BY DEF ByteOK
<1>3. x[i] = (x[i] % Base) + Base * (x[i] \div Base)
  BY ONLY <1>1, <1>2, Division
<1>4. QED BY ONLY <1>1, <1>3

\* Bytes that make up the shifts of a number are read as that number.
LEMMA FromLeIs ==
  ASSUME ByteOK, NEW n \in 1 .. 8, NEW s \in Seq(Nat), Len(s) = n, NEW x, Shifts(x),
      x[n + 1] = 0,
         \A i \in 1 .. n : s[i] = x[i] % Base
  PROVE  FromLe(s) = x[1]
<1> DEFINE Step(f) == [i \in 1 .. Len(s) + 1 |->
                         IF i > Len(s) THEN 0 ELSE s[i] + Base * f[i + 1]]
           from == CHOOSE f : f = Step(f)
           g == [i \in 1 .. n + 1 |-> x[i]]
<1>1. FromLe(s) = from[1]
  BY DEF FromLe
<1>2. \A i \in 1 .. n : x[i] = s[i] + Base * x[i + 1]
  <2> SUFFICES ASSUME NEW i \in 1 .. n PROVE x[i] = s[i] + Base * x[i + 1]
    OBVIOUS
  <2>1. i \in 1 .. 8
    OBVIOUS
  <2>2. x[i] = (x[i] % Base) + Base * x[i + 1]
    BY <2>1, ShiftsRebuild
  <2>3. QED BY <2>2
<1>3. g = Step(g)
  BY <1>2
<1>4. from = Step(from)
  BY <1>3
<1> HIDE DEF from
<1>5. from[n + 1] = x[n + 1] /\ \A i \in 1 .. n : from[i] = s[i] + Base * from[i + 1]
  BY <1>4
<1>6. \A i \in 2 .. n + 1 : from[i] = x[i] => from[i - 1] = x[i - 1]
  <2> SUFFICES ASSUME NEW i \in 2 .. n + 1, from[i] = x[i] PROVE from[i - 1] = x[i - 1]
    OBVIOUS
  <2>1. i - 1 \in 1 .. n /\ (i - 1) + 1 = i
    OBVIOUS
  <2>2. QED BY <1>2, <1>5, <2>1
<1>7. from[1] = x[1]
  <2> DEFINE Same(i) == from[i] = x[i]
  <2>0. Same(n + 1) /\ \A i \in 2 .. n + 1 : Same(i) => Same(i - 1)
    BY <1>5, <1>6
  <2> HIDE DEF Same
  <2>1. n = 8 => Same(9)
    <3>1. n = 8 => n + 1 = 9
      OBVIOUS
    <3>2. QED BY ONLY <2>0, <3>1
  <2>2. n >= 7 => Same(8)
    BY ONLY <2>0, <2>1, n \in 1 .. 8
  <2>3. n >= 6 => Same(7)
    BY ONLY <2>0, <2>2, n \in 1 .. 8
  <2>4. n >= 5 => Same(6)
    BY ONLY <2>0, <2>3, n \in 1 .. 8
  <2>5. n >= 4 => Same(5)
    BY ONLY <2>0, <2>4, n \in 1 .. 8
  <2>6. n >= 3 => Same(4)
    BY ONLY <2>0, <2>5, n \in 1 .. 8
  <2>7. n >= 2 => Same(3)
    BY ONLY <2>0, <2>6, n \in 1 .. 8
  <2>8. n >= 1 => Same(2)
    BY ONLY <2>0, <2>7, n \in 1 .. 8
  <2>9. n >= 0 => Same(1)
    BY ONLY <2>0, <2>8, n \in 1 .. 8
  <2>10. QED BY <2>9 DEF Same
<1>8. QED BY <1>1, <1>7

\* A field of four or eight bytes is as long as it says, and the client reads the number the
\* host wrote.
LEMMA FieldReadsBack ==
  ASSUME ByteOK, NEW v \in Nat
  PROVE  /\ Le(4, v) \in Seq(Nat) /\ Len(Le(4, v)) = 4
         /\ Le(8, v) \in Seq(Nat) /\ Len(Le(8, v)) = 8
         /\ v < Word => FromLe(Le(4, v)) = v
         /\ v < DWord => FromLe(Le(8, v)) = v
<1>1. PICK x : Shifts(x) /\ x[1] = v
  BY ShiftsExist
<1>2. \A i \in 1 .. 8 : x[i] % Base \in Nat
  <2>1. ASSUME NEW i \in 1 .. 8 PROVE x[i] % Base \in Nat
    <3>1. x[i] \in Nat /\ Base \in Nat /\ Base >= 1
      BY <1>1 DEF Shifts, ByteOK
    <3>2. QED BY ONLY <3>1, Division
  <2>2. QED BY <2>1
<1>3. ASSUME NEW n \in {4, 8}
      PROVE  /\ Le(n, v) \in Seq(Nat) /\ Len(Le(n, v)) = n
             /\ \A i \in 1 .. n : Le(n, v)[i] = x[i] % Base
  <2> DEFINE w == [i \in 1 .. n |-> x[i] % Base]
  <2>1. n \in 1 .. 8 /\ n \in Nat
    OBVIOUS
  <2>2. Le(n, v) = w
    BY <1>1, <2>1, LeIs
  <2>3. w \in [1 .. n -> Nat]
    BY <1>2, <2>1
  <2>4. w \in Seq(Nat) /\ Len(w) = n
    BY ONLY <2>1, <2>3, SeqDef, LenProperties
  <2>5. QED BY <2>2, <2>4
<1>5. Le(4, v) \in Seq(Nat) /\ Len(Le(4, v)) = 4 /\ \A i \in 1 .. 4 : Le(4, v)[i] = x[i] % Base
  BY ONLY <1>3
<1>6. Le(8, v) \in Seq(Nat) /\ Len(Le(8, v)) = 8 /\ \A i \in 1 .. 8 : Le(8, v)[i] = x[i] % Base
  BY ONLY <1>3
<1>7. ASSUME v < Word PROVE FromLe(Le(4, v)) = v
  <2>1. x[4 + 1] = 0
    BY <1>1, <1>7, ShiftsEnd
  <2>2. 4 \in 1 .. 8 /\ Le(4, v) \in Seq(Nat) /\ Len(Le(4, v)) = 4
    BY <1>5
  <2>3. QED BY ONLY <1>1, <1>5, <2>1, <2>2, FromLeIs, ByteOK
<1>8. ASSUME v < DWord PROVE FromLe(Le(8, v)) = v
  <2>1. x[8 + 1] = 0
    BY <1>1, <1>8, ShiftsEnd
  <2>2. 8 \in 1 .. 8 /\ Le(8, v) \in Seq(Nat) /\ Len(Le(8, v)) = 8
    BY <1>6
  <2>3. QED BY ONLY <1>1, <1>6, <2>1, <2>2, FromLeIs, ByteOK
<1>9. QED BY <1>5, <1>6, <1>7, <1>8

\* The top bit of a length is a word's.
LEMMA FlagFits == ASSUME ByteOK PROVE ControlFlag \in Nat /\ Word = 2 * ControlFlag
    /\ ControlFlag >= 1
<1> DEFINE h == Base \div 2
           p == Base * Base * Base
<1>1. h \in Nat /\ h >= 1 /\ Base = 2 * h /\ p \in Nat /\ p >= 1
  BY DEF ByteOK
<1>2. ControlFlag = p * h /\ Word = p * Base
  BY DEF ControlFlag, Word, ByteOK
<1> HIDE DEF p, h
<1>3. p * Base = 2 * (p * h) /\ p * h \in Nat /\ p * h >= 1
  BY <1>1
<1>4. QED BY <1>2, <1>3

----------------------------------------------------------------------------
(* Fields in packets.                                                      *)

\* The bytes f stand in p behind the first k.
At(p, k, f) == k \in Nat /\ k + Len(f) <= Len(p) /\ \A i \in 1 .. Len(f) : p[k + i] = f[i]

\* They are what is read there.
LEMMA AtRead ==
  ASSUME NEW p \in Seq(Nat), NEW f \in Seq(Nat), NEW k \in Nat, At(p, k, f)
  PROVE  SubSeq(p, k + 1, k + Len(f)) = f
<1> DEFINE g == SubSeq(p, k + 1, k + Len(f))
<1>1. Len(p) \in Nat /\ Len(f) \in Nat /\ k + Len(f) <= Len(p)
  BY LenProperties DEF At
<1>2. g \in Seq(Nat) /\ Len(g) = Len(f)
  BY <1>1
<1>3. \A i \in 1 .. Len(f) : g[i] = p[k + i]
  BY <1>1
<1> HIDE DEF g
<1>4. \A i \in 1 .. Len(f) : g[i] = f[i]
  BY ONLY <1>3, At(p, k, f) DEF At
<1>5. g = f
  BY ONLY <1>2, <1>4, f \in Seq(Nat), SeqEqual
<1>6. QED BY <1>5 DEF g

\* One sequence of bytes after another.
Cat(s, t) == s \o t

LEMMA CatIs ==
  ASSUME NEW s \in Seq(Nat), NEW t \in Seq(Nat)
  PROVE  /\ Cat(s, t) \in Seq(Nat) /\ Len(Cat(s, t)) = Len(s) + Len(t)
         /\ Len(s) \in Nat /\ Len(t) \in Nat
         /\ \A i \in 1 .. Len(s) : Cat(s, t)[i] = s[i]
         /\ \A i \in 1 .. Len(t) : Cat(s, t)[Len(s) + i] = t[i]
BY DEF Cat

LEMMA CatLength ==
  ASSUME NEW s \in Seq(Nat), NEW t \in Seq(Nat)
  PROVE  Cat(s, t) \in Seq(Nat) /\ Len(Cat(s, t)) = Len(s) + Len(t)
BY ONLY CatIs, s \in Seq(Nat), t \in Seq(Nat)

\* What stands in some bytes stands in longer ones.
LEMMA AtKept ==
  ASSUME NEW s \in Seq(Nat), NEW t \in Seq(Nat), NEW k \in Nat, NEW f \in Seq(Nat), At(s, k, f)
  PROVE  At(Cat(s, t), k, f)
<1>1. Len(f) \in Nat /\ Len(s) \in Nat /\ Len(t) \in Nat /\ Len(Cat(s, t)) = Len(s) + Len(t)
  BY CatIs, LenProperties
<1>2. k + Len(f) <= Len(s) /\ \A i \in 1 .. Len(f) : s[k + i] = f[i]
  BY DEF At
<1>3. \A i \in 1 .. Len(f) : Cat(s, t)[k + i] = f[i]
  <2>1. ASSUME NEW i \in 1 .. Len(f) PROVE Cat(s, t)[k + i] = f[i]
    <3>1. k + i \in 1 .. Len(s)
      BY ONLY <1>1, <1>2, k \in Nat, i \in 1 .. Len(f)
    <3>2. QED BY <1>2, <3>1, CatIs
  <2>2. QED BY <2>1
<1>4. QED BY ONLY <1>1, <1>2, <1>3, k \in Nat DEF At

LEMMA AtEnd ==
  ASSUME NEW s \in Seq(Nat), NEW t \in Seq(Nat)
  PROVE  At(Cat(s, t), Len(s), t)
<1>1. /\ Len(s) \in Nat /\ Len(t) \in Nat /\ Len(Cat(s, t)) = Len(s) + Len(t)
      /\ \A i \in 1 .. Len(t) : Cat(s, t)[Len(s) + i] = t[i]
  BY CatIs
<1>2. QED BY ONLY <1>1 DEF At

LEMMA AtStart ==
  ASSUME NEW s \in Seq(Nat) PROVE At(s, 0, s)
<1>1. Len(s) \in Nat
  BY LenProperties
<1>2. \A i \in 1 .. Len(s) : s[0 + i] = s[i]
  BY <1>1
<1>3. QED BY ONLY <1>1, <1>2 DEF At

\* Four fields, what they describe, and the rest of the stream.
Joined(a, b, c, d, e, r) == a \o b \o c \o d \o e \o r

\* The four fields and what they describe are where the client looks for them in s.
Laid(s, a, b, c, d, e, r) ==
  /\ s \in Seq(Nat) /\ Len(s) = 24 + Len(e) + Len(r)
  /\ SubSeq(s, 1, 4) = a /\ SubSeq(s, 5, 8) = b
  /\ SubSeq(s, 9, 16) = c /\ SubSeq(s, 17, 24) = d
  /\ SubSeq(s, 25, 24 + Len(e)) = e

LEMMA Fields ==
  ASSUME NEW a \in Seq(Nat), NEW b \in Seq(Nat), NEW c \in Seq(Nat), NEW d \in Seq(Nat),
         NEW e \in Seq(Nat), NEW r \in Seq(Nat), Len(a) = 4, Len(b) = 4, Len(c) = 8, Len(d) = 8
  PROVE  Laid(Joined(a, b, c, d, e, r), a, b, c, d, e, r)
<1> DEFINE ab == Cat(a, b)
           abc == Cat(ab, c)
           abcd == Cat(abc, d)
           abcde == Cat(abcd, e)
           p == Cat(abcde, r)
<1>1. ab \in Seq(Nat) /\ Len(ab) = 8
  <2>1. ab \in Seq(Nat) /\ Len(ab) = Len(a) + Len(b)
    BY ONLY a \in Seq(Nat), b \in Seq(Nat), CatLength
  <2>2. QED BY ONLY <2>1, Len(a) = 4, Len(b) = 4
<1>2. At(ab, 0, a) /\ At(ab, 4, b)
  BY AtStart, AtKept, AtEnd
<1> HIDE DEF ab
<1>3. abc \in Seq(Nat) /\ Len(abc) = 16
  <2>1. abc \in Seq(Nat) /\ Len(abc) = Len(ab) + Len(c)
    BY ONLY <1>1, c \in Seq(Nat), CatLength
  <2>2. QED BY ONLY <2>1, <1>1, Len(c) = 8
<1>4. At(abc, 0, a) /\ At(abc, 4, b)
  BY <1>1, <1>2, AtKept
<1>5. At(abc, 8, c)
  BY <1>1, AtEnd
<1> HIDE DEF abc
<1>6. abcd \in Seq(Nat) /\ Len(abcd) = 24
  <2>1. abcd \in Seq(Nat) /\ Len(abcd) = Len(abc) + Len(d)
    BY ONLY <1>3, d \in Seq(Nat), CatLength
  <2>2. QED BY ONLY <2>1, <1>3, Len(d) = 8
<1>7. At(abcd, 0, a) /\ At(abcd, 4, b) /\ At(abcd, 8, c)
  BY <1>3, <1>4, <1>5, AtKept
<1>8. At(abcd, 16, d)
  BY <1>3, AtEnd
<1> HIDE DEF abcd
<1>9. abcde \in Seq(Nat) /\ Len(abcde) = 24 + Len(e)
  BY <1>6, CatLength
<1>10. At(abcde, 0, a) /\ At(abcde, 4, b) /\ At(abcde, 8, c) /\ At(abcde, 16, d)
  BY <1>6, <1>7, <1>8, AtKept
<1>11. At(abcde, 24, e)
  BY <1>6, AtEnd
<1> HIDE DEF abcde
<1>12. p \in Seq(Nat) /\ Len(p) = 24 + Len(e) + Len(r)
  BY <1>9, CatLength
<1>13. At(p, 0, a) /\ At(p, 4, b) /\ At(p, 8, c) /\ At(p, 16, d) /\ At(p, 24, e)
  BY <1>9, <1>10, <1>11, AtKept
<1> HIDE DEF p
<1>14. /\ SubSeq(p, 0 + 1, 0 + Len(a)) = a /\ SubSeq(p, 4 + 1, 4 + Len(b)) = b
       /\ SubSeq(p, 8 + 1, 8 + Len(c)) = c /\ SubSeq(p, 16 + 1, 16 + Len(d)) = d
       /\ SubSeq(p, 24 + 1, 24 + Len(e)) = e
  BY <1>12, <1>13, AtRead
<1>15. /\ SubSeq(p, 1, 4) = a /\ SubSeq(p, 5, 8) = b /\ SubSeq(p, 9, 16) = c
       /\ SubSeq(p, 17, 24) = d /\ SubSeq(p, 25, 24 + Len(e)) = e
  BY ONLY <1>14, Len(a) = 4, Len(b) = 4, Len(c) = 8, Len(d) = 8
<1>16. p = Joined(a, b, c, d, e, r)
  BY Zenon DEF p, abcde, abcd, abc, ab, Cat, Joined
<1>17. QED BY ONLY <1>12, <1>15, <1>16, Zenon DEF Laid

----------------------------------------------------------------------------
(* Packets.                                                                *)

\* What the constants of the code satisfy: 0x31565353 fits into a word, and the longest
\* access unit leaves the top bit of a length free.
FormatOK == ByteOK /\ Magic \in Nat /\ Magic < Word /\ MaxUnit \in Nat /\ MaxUnit < ControlFlag

\* A packet and the rest of the stream.
Sent(length, id, time, payload, rest) == Packet(length, id, time, payload) \o rest

\* The fields of a packet of any length, id and time, whatever follows it.
\* They are those of s, with the payload and what follows it.
Fielded(s, length, id, time, payload, rest) ==
  /\ Len(s) = Header + Len(payload) + Len(rest)
  /\ FromLe(SubSeq(s, 1, 4)) = Magic /\ FromLe(SubSeq(s, 5, 8)) = length
  /\ FromLe(SubSeq(s, 9, 16)) = id /\ FromLe(SubSeq(s, 17, 24)) = time
  /\ SubSeq(s, Header + 1, Header + Len(payload)) = payload

LEMMA PacketFields ==
  ASSUME FormatOK, NEW length \in Nat, length < Word, NEW id \in Nat, id < DWord,
         NEW time \in Nat, time < DWord, NEW payload \in Seq(Nat), NEW rest \in Seq(Nat)
  PROVE  Fielded(Sent(length, id, time, payload, rest), length, id, time, payload, rest)
<1> DEFINE a == Le(4, Magic)
           b == Le(4, length)
           c == Le(8, id)
           d == Le(8, time)
           s == Joined(a, b, c, d, payload, rest)
<1>0. ByteOK /\ Magic \in Nat /\ Magic < Word
  BY DEF FormatOK
<1>1. a \in Seq(Nat) /\ Len(a) = 4 /\ FromLe(a) = Magic
  BY <1>0, FieldReadsBack
<1>2. b \in Seq(Nat) /\ Len(b) = 4 /\ FromLe(b) = length
  BY <1>0, FieldReadsBack
<1>3. c \in Seq(Nat) /\ Len(c) = 8 /\ FromLe(c) = id
  BY <1>0, FieldReadsBack
<1>4. d \in Seq(Nat) /\ Len(d) = 8 /\ FromLe(d) = time
  BY <1>0, FieldReadsBack
<1>5. s = Sent(length, id, time, payload, rest)
  BY Zenon DEF Sent, Packet, Joined
<1> HIDE DEF a, b, c, d
<1>6. Laid(s, a, b, c, d, payload, rest)
  BY ONLY <1>1, <1>2, <1>3, <1>4, payload \in Seq(Nat), rest \in Seq(Nat), Fields
<1> HIDE DEF s
<1>7. /\ Len(s) = 24 + Len(payload) + Len(rest)
      /\ SubSeq(s, 1, 4) = a /\ SubSeq(s, 5, 8) = b
      /\ SubSeq(s, 9, 16) = c /\ SubSeq(s, 17, 24) = d
      /\ SubSeq(s, 25, 24 + Len(payload)) = payload
  BY <1>6, Zenon DEF Laid
<1>8. Header = 24 /\ Header + 1 = 25
  BY DEF Header
<1>9. Fielded(s, length, id, time, payload, rest)
  BY ONLY <1>1, <1>2, <1>3, <1>4, <1>7, <1>8 DEF Fielded
<1>10. QED BY ONLY <1>5, <1>9, Zenon

\* What the two numbers in the length field are to the client.
LEMMA LengthField ==
  ASSUME FormatOK, NEW n \in Nat, n <= MaxUnit
  PROVE  /\ n < Word /\ n % ControlFlag = n /\ n < ControlFlag
         /\ ControlFlag + n \in Nat /\ ControlFlag + n < Word
         /\ (ControlFlag + n) % ControlFlag = n /\ ControlFlag + n >= ControlFlag
<1>1. ControlFlag \in Nat /\ Word = 2 * ControlFlag /\ ControlFlag >= 1
  BY FlagFits DEF FormatOK
<1>2. MaxUnit \in Nat /\ MaxUnit < ControlFlag
  BY DEF FormatOK
<1>3. QED BY ONLY <1>1, <1>2, n \in Nat, n <= MaxUnit

\* The client reads a packet of video as the host wrote it, up to its last byte, whatever
\* comes after it (SendPacketLocked, main.cpp; readPacket, StreamReceiver): id, time and
\* access unit, and a random access point where FindNalUnit finds one in what was sent.
THEOREM VideoReadsBack ==
  ASSUME FormatOK, NEW id \in Nat, id < DWord, NEW time \in Nat, time < DWord,
         NEW payload \in Seq(Nat), payload # <<>>, Len(payload) <= MaxUnit,
             NEW rest \in Seq(Nat)
  PROVE  LET s == VideoPacket(id, time, payload) \o rest
         IN  /\ ReadPacket(s) = [kind |-> "video", id |-> id, time |-> time,
                                 idr |-> FindNalUnit(payload, Idr) # <<>>, payload |-> payload]
             /\ PacketLength(s) = Header + Len(payload)
<1> DEFINE n == Len(payload)
           s == Sent(n, id, time, payload, rest)
<1>1. n \in Nat /\ n # 0 /\ n <= MaxUnit
  BY LenProperties, EmptySeq
<1> HIDE DEF n
<1>2. n < Word /\ n % ControlFlag = n /\ n < ControlFlag /\ ControlFlag \in Nat
  BY <1>1, LengthField, FlagFits DEF FormatOK
<1>3. Fielded(s, n, id, time, payload, rest)
  BY <1>1, <1>2, PacketFields
<1>4. s = VideoPacket(id, time, payload) \o rest
  BY Zenon DEF VideoPacket, Sent, n
<1> HIDE DEF s
<1>5. /\ Len(s) = Header + n + Len(rest) /\ Len(rest) \in Nat
      /\ FromLe(SubSeq(s, 1, 4)) = Magic /\ FromLe(SubSeq(s, 5, 8)) = n
      /\ FromLe(SubSeq(s, 9, 16)) = id /\ FromLe(SubSeq(s, 17, 24)) = time
      /\ SubSeq(s, Header + 1, Header + n) = payload
  <2>1. Len(rest) \in Nat
    BY LenProperties
  <2>2. QED BY <1>3, <2>1, Zenon DEF Fielded, n
<1>6. ~ Len(s) < Header /\ ~ Len(s) < Header + n /\ ~ n > MaxUnit /\ ~ n >= ControlFlag
  BY ONLY <1>1, <1>2, <1>5, FormatOK DEF Header, FormatOK
<1>7. ReadPacket(s) = [kind |-> "video", id |-> id, time |-> time,
                       idr |-> FindNalUnit(payload, Idr) # <<>>, payload |-> payload]
  BY ONLY <1>1, <1>2, <1>5, <1>6, Zenon DEF ReadPacket
<1>8. PacketLength(s) = Header + n
  BY ONLY <1>2, <1>5, Zenon DEF PacketLength
<1>9. QED BY <1>4, <1>7, <1>8 DEF n

\* The client reads a heartbeat as one, and nothing after it with it.
THEOREM HeartbeatReadsBack ==
  ASSUME FormatOK, NEW rest \in Seq(Nat)
  PROVE  LET s == HeartbeatPacket \o rest
         IN  ReadPacket(s) = [kind |-> "heartbeat"] /\ PacketLength(s) = Header
<1> DEFINE s == Sent(0, 0, 0, <<>>, rest)
<1>1. 0 < Word /\ 0 < DWord /\ 0 % ControlFlag = 0 /\ MaxUnit \in Nat
  <2>1. Word \in Nat /\ Word >= 2 /\ DWord \in Nat /\ DWord >= 1
    BY Words DEF FormatOK
  <2>2. ControlFlag \in Nat /\ ControlFlag >= 1 /\ MaxUnit \in Nat
    BY FlagFits DEF FormatOK
  <2>3. QED BY ONLY <2>1, <2>2
<1>2. <<>> \in Seq(Nat) /\ Len(<<>>) = 0
  OBVIOUS
<1>3. 0 \in Nat /\ Fielded(s, 0, 0, 0, <<>>, rest)
  <2>1. 0 \in Nat
    OBVIOUS
  <2>2. QED BY <1>1, <1>2, <2>1, PacketFields
<1>4. s = HeartbeatPacket \o rest
  <2>1. Len(<<>>) = 0
    BY <1>2
  <2>2. QED BY <2>1, Zenon DEF HeartbeatPacket, VideoPacket, Sent
<1> HIDE DEF s
<1>5. /\ Len(s) = Header + Len(<<>>) + Len(rest) /\ Len(rest) \in Nat
      /\ FromLe(SubSeq(s, 1, 4)) = Magic /\ FromLe(SubSeq(s, 5, 8)) = 0
      /\ FromLe(SubSeq(s, 9, 16)) = 0
  <2>1. Len(rest) \in Nat
    BY LenProperties
  <2>2. QED BY <1>3, <2>1, Zenon DEF Fielded
<1>6. ~ Len(s) < Header /\ ~ 0 > MaxUnit
  BY ONLY <1>1, <1>2, <1>5 DEF Header
<1>7. ReadPacket(s) = [kind |-> "heartbeat"]
  BY ONLY <1>1, <1>5, <1>6, Zenon DEF ReadPacket
<1>8. PacketLength(s) = Header
  BY ONLY <1>1, <1>5 DEF PacketLength, Header
<1>9. QED BY <1>4, <1>7, <1>8

----------------------------------------------------------------------------
(* The pointer.                                                            *)

\* The position sent lies within the stream, wherever the pointer is on or beside the
\* monitor and whatever the monitor's extent (CursorTracker::Poll, main.cpp).
THEOREM CursorInside ==
  ASSUME NEW position \in Int, NEW left \in Int, NEW right \in Int, NEW size \in Nat, size >= 1
  PROVE  Scale(position, left, right, size) \in 0 .. size - 1
<1> DEFINE extent == IF right - left > 1 THEN right - left ELSE 1
           inside == ClampTo(position - left, 0, extent - 1)
           q == (inside * size) \div extent
<1>1. extent \in Nat /\ extent >= 1
  OBVIOUS
<1>2. inside \in Nat /\ inside <= extent - 1
  BY <1>1 DEF ClampTo
<1>3. Scale(position, left, right, size) = q
  BY DEF Scale
<1> HIDE DEF inside, extent
<1>4. inside * size \in Nat /\ inside * size < extent * size
  <2>1. inside * size <= (extent - 1) * size /\ (extent - 1) * size = extent * size - size
    BY <1>1, <1>2
  <2>2. inside * size \in Nat /\ extent * size \in Nat
    BY <1>1, <1>2
  <2>3. QED BY ONLY <2>1, <2>2, size \in Nat, size >= 1
<1>5. q \in Nat
  BY <1>1, <1>4, Division
<1>6. q < size
  BY <1>1, <1>4, ShiftBound
<1> HIDE DEF q
<1>7. QED BY <1>3, <1>5, <1>6

\* The bytes of p behind the first m.
Rest(p, m) == SubSeq(p, m + 1, Len(p))

\* What stands in the middle of some bytes stands at the start of their rest.
LEMMA AtRest ==
  ASSUME NEW p \in Seq(Nat), NEW f \in Seq(Nat), NEW m \in Nat, NEW k \in Nat, m <= Len(p),
         At(p, m + k, f)
  PROVE  Rest(p, m) \in Seq(Nat) /\ Len(Rest(p, m)) = Len(p) - m /\ At(Rest(p, m), k, f)
<1> DEFINE r == SubSeq(p, m + 1, Len(p))
<1>1. Len(p) \in Nat /\ Len(f) \in Nat
  BY LenProperties
<1>2. m + k + Len(f) <= Len(p) /\ \A i \in 1 .. Len(f) : p[m + k + i] = f[i]
  BY DEF At
<1>3. r \in Seq(Nat) /\ Len(r) = Len(p) - m
  BY <1>1
<1>4. \A i \in 1 .. Len(p) - m : r[i] = p[m + i]
  BY <1>1
<1> HIDE DEF r
<1>5. \A i \in 1 .. Len(f) : r[k + i] = f[i]
  <2> SUFFICES ASSUME NEW i \in 1 .. Len(f) PROVE r[k + i] = f[i]
    OBVIOUS
  <2>1. k + i \in 1 .. Len(p) - m /\ m + (k + i) = m + k + i
    BY ONLY <1>1, <1>2, m \in Nat, k \in Nat, i \in 1 .. Len(f)
  <2>2. r[k + i] = p[m + (k + i)]
    BY ONLY <1>4, <2>1
  <2>3. QED BY ONLY <1>2, <2>1, <2>2, i \in 1 .. Len(f)
<1>6. k + Len(f) <= Len(r)
  BY ONLY <1>1, <1>2, <1>3, m \in Nat, k \in Nat
<1>7. At(r, k, f)
  BY ONLY <1>5, <1>6, k \in Nat DEF At
<1>8. QED BY ONLY <1>3, <1>7, Zenon DEF Rest, r

\* The eight fields of a cursor packet, one after the other, and where they are read.
Pointer(a, b, c, d, e, f, g, h) == a \o b \o c \o d \o e \o f \o g \o h
PointerLaid(p, a, b, c, d, e, f, g, h) ==
  LET body == SubSeq(p, 5, 36)
  IN  /\ p \in Seq(Nat) /\ Len(p) = 36 /\ SubSeq(p, 1, 4) = a /\ Len(body) = 32
      /\ SubSeq(body, 4 * 1 - 3, 4 * 1) = b /\ SubSeq(body, 4 * 2 - 3, 4 * 2) = c
      /\ SubSeq(body, 4 * 3 - 3, 4 * 3) = d /\ SubSeq(body, 4 * 4 - 3, 4 * 4) = e
      /\ SubSeq(body, 4 * 5 - 3, 4 * 5) = f /\ SubSeq(body, 4 * 6 - 3, 4 * 6) = g
      /\ SubSeq(body, 25, 32) = h

LEMMA PointerFields ==
  ASSUME NEW a \in Seq(Nat), NEW b \in Seq(Nat), NEW c \in Seq(Nat), NEW d \in Seq(Nat),
         NEW e \in Seq(Nat), NEW f \in Seq(Nat), NEW g \in Seq(Nat), NEW h \in Seq(Nat),
         Len(a) = 4, Len(b) = 4, Len(c) = 4, Len(d) = 4, Len(e) = 4, Len(f) = 4, Len(g) = 4,
             Len(h) = 8
  PROVE  PointerLaid(Pointer(a, b, c, d, e, f, g, h), a, b, c, d, e, f, g, h)
<1> DEFINE p2 == Cat(a, b)
           p3 == Cat(p2, c)
           p4 == Cat(p3, d)
           p5 == Cat(p4, e)
           p6 == Cat(p5, f)
           p7 == Cat(p6, g)
           p8 == Cat(p7, h)
<1>1. p2 \in Seq(Nat) /\ Len(p2) = 8
  <2>1. p2 \in Seq(Nat) /\ Len(p2) = Len(a) + Len(b)
    BY ONLY a \in Seq(Nat), b \in Seq(Nat), CatLength
  <2>2. QED BY ONLY <2>1, Len(a) = 4, Len(b) = 4
<1>2. At(p2, 0, a)
  BY AtStart, AtKept
<1>3. At(p2, 4, b)
  BY AtEnd
<1> HIDE DEF p2
<1>4. p3 \in Seq(Nat) /\ Len(p3) = 12
  <2>1. p3 \in Seq(Nat) /\ Len(p3) = Len(p2) + Len(c)
    BY ONLY <1>1, c \in Seq(Nat), CatLength
  <2>2. QED BY ONLY <2>1, <1>1, Len(c) = 4
<1>5. At(p3, 0, a) /\ At(p3, 4, b)
  BY <1>1, <1>2, <1>3, AtKept
<1>6. At(p3, 8, c)
  BY <1>1, AtEnd
<1> HIDE DEF p3
<1>7. p4 \in Seq(Nat) /\ Len(p4) = 16
  <2>1. p4 \in Seq(Nat) /\ Len(p4) = Len(p3) + Len(d)
    BY ONLY <1>4, d \in Seq(Nat), CatLength
  <2>2. QED BY ONLY <2>1, <1>4, Len(d) = 4
<1>8. At(p4, 0, a) /\ At(p4, 4, b) /\ At(p4, 8, c)
  BY <1>4, <1>5, <1>6, AtKept
<1>9. At(p4, 12, d)
  BY <1>4, AtEnd
<1> HIDE DEF p4
<1>10. p5 \in Seq(Nat) /\ Len(p5) = 20
  <2>1. p5 \in Seq(Nat) /\ Len(p5) = Len(p4) + Len(e)
    BY ONLY <1>7, e \in Seq(Nat), CatLength
  <2>2. QED BY ONLY <2>1, <1>7, Len(e) = 4
<1>11. At(p5, 0, a) /\ At(p5, 4, b) /\ At(p5, 8, c) /\ At(p5, 12, d)
  BY <1>7, <1>8, <1>9, AtKept
<1>12. At(p5, 16, e)
  BY <1>7, AtEnd
<1> HIDE DEF p5
<1>13. p6 \in Seq(Nat) /\ Len(p6) = 24
  <2>1. p6 \in Seq(Nat) /\ Len(p6) = Len(p5) + Len(f)
    BY ONLY <1>10, f \in Seq(Nat), CatLength
  <2>2. QED BY ONLY <2>1, <1>10, Len(f) = 4
<1>14. At(p6, 0, a) /\ At(p6, 4, b) /\ At(p6, 8, c) /\ At(p6, 12, d) /\ At(p6, 16, e)
  BY <1>10, <1>11, <1>12, AtKept
<1>15. At(p6, 20, f)
  BY <1>10, AtEnd
<1> HIDE DEF p6
<1>16. p7 \in Seq(Nat) /\ Len(p7) = 28
  <2>1. p7 \in Seq(Nat) /\ Len(p7) = Len(p6) + Len(g)
    BY ONLY <1>13, g \in Seq(Nat), CatLength
  <2>2. QED BY ONLY <2>1, <1>13, Len(g) = 4
<1>17. At(p7, 0, a) /\ At(p7, 4, b) /\ At(p7, 8, c) /\ At(p7, 12, d) /\ At(p7, 16, e)
           /\ At(p7, 20, f)
  BY <1>13, <1>14, <1>15, AtKept
<1>18. At(p7, 24, g)
  BY <1>13, AtEnd
<1> HIDE DEF p7
<1>19. p8 \in Seq(Nat) /\ Len(p8) = 36
  <2>1. p8 \in Seq(Nat) /\ Len(p8) = Len(p7) + Len(h)
    BY ONLY <1>16, h \in Seq(Nat), CatLength
  <2>2. QED BY ONLY <2>1, <1>16, Len(h) = 8
<1>20. At(p8, 0, a) /\ At(p8, 4, b) /\ At(p8, 8, c) /\ At(p8, 12, d) /\ At(p8, 16, e)
           /\ At(p8, 20, f) /\ At(p8, 24, g)
  BY <1>16, <1>17, <1>18, AtKept
<1>21. At(p8, 28, h)
  BY <1>16, AtEnd
<1> HIDE DEF p8
<1> DEFINE body == Rest(p8, 4)
<1>22. SubSeq(p8, 0 + 1, 0 + Len(a)) = a /\ body = SubSeq(p8, 5, 36)
  <2>1. SubSeq(p8, 0 + 1, 0 + Len(a)) = a
    BY ONLY <1>19, <1>20, a \in Seq(Nat), 0 \in Nat, AtRead
  <2>2. Len(p8) = 36 /\ 4 + 1 = 5
    BY ONLY <1>19
  <2>3. QED BY ONLY <2>1, <2>2, Zenon DEF Rest
<1>23. /\ body \in Seq(Nat) /\ Len(body) = 32
       /\ At(body, 0, b) /\ At(body, 4, c) /\ At(body, 8, d) /\ At(body, 12, e)
       /\ At(body, 16, f) /\ At(body, 20, g) /\ At(body, 24, h)
  <2>1. ASSUME NEW k \in Nat, NEW q \in Seq(Nat), At(p8, 4 + k, q)
        PROVE  body \in Seq(Nat) /\ Len(body) = 32 /\ At(body, k, q)
    <3>1. 4 \in Nat /\ 4 <= Len(p8)
      BY ONLY <1>19
    <3>2. body \in Seq(Nat) /\ Len(body) = Len(p8) - 4 /\ At(body, k, q)
      BY ONLY <1>19, <2>1, <3>1, AtRest
    <3>3. Len(p8) - 4 = 32
      BY ONLY <1>19
    <3>4. QED BY ONLY <3>2, <3>3, Zenon
  <2> HIDE DEF body
  <2>2. /\ At(p8, 4 + 0, b) /\ At(p8, 4 + 4, c) /\ At(p8, 4 + 8, d) /\ At(p8, 4 + 12, e)
        /\ At(p8, 4 + 16, f) /\ At(p8, 4 + 20, g) /\ At(p8, 4 + 24, h)
    BY ONLY <1>20, <1>21
  <2>3. /\ 0 \in Nat /\ 4 \in Nat /\ 8 \in Nat /\ 12 \in Nat
        /\ 16 \in Nat /\ 20 \in Nat /\ 24 \in Nat
    OBVIOUS
  <2>4. QED BY <2>1, <2>2, <2>3, Zenon
<1> HIDE DEF body
<1>24. /\ SubSeq(body, 0 + 1, 0 + Len(b)) = b /\ SubSeq(body, 4 + 1, 4 + Len(c)) = c
       /\ SubSeq(body, 8 + 1, 8 + Len(d)) = d /\ SubSeq(body, 12 + 1, 12 + Len(e)) = e
       /\ SubSeq(body, 16 + 1, 16 + Len(f)) = f /\ SubSeq(body, 20 + 1, 20 + Len(g)) = g
       /\ SubSeq(body, 24 + 1, 24 + Len(h)) = h
  <2>1. /\ 0 \in Nat /\ 4 \in Nat /\ 8 \in Nat /\ 12 \in Nat
        /\ 16 \in Nat /\ 20 \in Nat /\ 24 \in Nat
    OBVIOUS
  <2>2. SubSeq(body, 0 + 1, 0 + Len(b)) = b
    BY ONLY <1>23, <2>1, b \in Seq(Nat), AtRead
  <2>3. SubSeq(body, 4 + 1, 4 + Len(c)) = c
    BY ONLY <1>23, <2>1, c \in Seq(Nat), AtRead
  <2>4. SubSeq(body, 8 + 1, 8 + Len(d)) = d
    BY ONLY <1>23, <2>1, d \in Seq(Nat), AtRead
  <2>5. SubSeq(body, 12 + 1, 12 + Len(e)) = e
    BY ONLY <1>23, <2>1, e \in Seq(Nat), AtRead
  <2>6. SubSeq(body, 16 + 1, 16 + Len(f)) = f
    BY ONLY <1>23, <2>1, f \in Seq(Nat), AtRead
  <2>7. SubSeq(body, 20 + 1, 20 + Len(g)) = g
    BY ONLY <1>23, <2>1, g \in Seq(Nat), AtRead
  <2>8. SubSeq(body, 24 + 1, 24 + Len(h)) = h
    BY ONLY <1>23, <2>1, h \in Seq(Nat), AtRead
  <2>9. QED BY ONLY <2>2, <2>3, <2>4, <2>5, <2>6, <2>7, <2>8, Zenon
<1>25. /\ SubSeq(p8, 1, 4) = a
       /\ SubSeq(body, 4 * 1 - 3, 4 * 1) = b /\ SubSeq(body, 4 * 2 - 3, 4 * 2) = c
       /\ SubSeq(body, 4 * 3 - 3, 4 * 3) = d /\ SubSeq(body, 4 * 4 - 3, 4 * 4) = e
       /\ SubSeq(body, 4 * 5 - 3, 4 * 5) = f /\ SubSeq(body, 4 * 6 - 3, 4 * 6) = g
       /\ SubSeq(body, 25, 32) = h
  BY ONLY <1>22, <1>24, Len(a) = 4, Len(b) = 4, Len(c) = 4, Len(d) = 4, Len(e) = 4,
          Len(f) = 4, Len(g) = 4, Len(h) = 8
<1>26. PointerLaid(p8, a, b, c, d, e, f, g, h)
  BY ONLY <1>19, <1>22, <1>23, <1>25, Zenon DEF PointerLaid
<1>27. p8 = Pointer(a, b, c, d, e, f, g, h)
  BY Zenon DEF p8, p7, p6, p5, p4, p3, p2, Cat, Pointer
<1>28. QED BY ONLY <1>26, <1>27, Zenon

\* What a pointer on the monitor or beside it is described by.
IsPointer(c) ==
  /\ c.visible \in BOOLEAN /\ c.x \in Nat /\ c.x < Word /\ c.y \in Nat /\ c.y < Word
  /\ c.width \in 1 .. MaxSide /\ c.height \in 1 .. MaxSide
  /\ c.sequence \in Nat /\ c.sequence < DWord

\* The client reads a cursor packet, which only the top bit of its length tells from one of
\* video, as the pointer the host described, up to its last byte and whatever comes after it
\* (SendCursor, main.cpp; dispatchControl, StreamReceiver).
THEOREM CursorReadsBack ==
  ASSUME FormatOK, MaxUnit >= 36, MaxSide \in Nat, MaxSide < Word, NEW c, IsPointer(c),
         NEW time \in Nat, time < DWord, NEW rest \in Seq(Nat)
  PROVE  LET s == CursorPacket(time, c) \o rest
         IN  /\ ReadPacket(s) = [kind |-> "cursor", visible |-> c.visible, x |-> c.x, y |-> c.y,
                                 width |-> c.width, height |-> c.height,
                                     sequence |-> c.sequence]
             /\ PacketLength(s) = Header + 36
<1> DEFINE shown == IF c.visible THEN 1 ELSE 0
           f1 == Le(4, 1)
           f2 == Le(4, shown)
           f3 == Le(4, c.x)
           f4 == Le(4, c.y)
           f5 == Le(4, c.width)
           f6 == Le(4, c.height)
           f7 == Le(8, c.sequence)
           p == Pointer(f1, f1, f2, f3, f4, f5, f6, f7)
           n == ControlFlag + 36
           s == Sent(n, 0, time, p, rest)
           body == SubSeq(p, 5, 36)
<1>1. Word \in Nat /\ Word >= 2 /\ DWord \in Nat /\ DWord >= 1
  BY Words DEF FormatOK
<1>2. /\ shown \in Nat /\ shown < Word /\ 1 < Word /\ c.x < Word /\ c.y < Word
      /\ c.width \in Nat /\ c.width < Word /\ c.height \in Nat /\ c.height < Word
      /\ c.x \in Nat /\ c.y \in Nat
  <2>1. shown = 0 \/ shown = 1
    OBVIOUS
  <2> HIDE DEF shown
  <2>2. QED BY ONLY <1>1, <2>1, IsPointer(c), MaxSide \in Nat, MaxSide < Word DEF IsPointer
<1>3. (shown # 0) = c.visible
  BY DEF IsPointer
<1> HIDE DEF shown
<1>4. ByteOK /\ 1 \in Nat
  BY DEF FormatOK
<1>5. f1 \in Seq(Nat) /\ Len(f1) = 4 /\ FromLe(f1) = 1
  BY ONLY <1>2, <1>4, FieldReadsBack
<1>6. f2 \in Seq(Nat) /\ Len(f2) = 4 /\ FromLe(f2) = shown
  BY ONLY <1>2, <1>4, FieldReadsBack
<1>7. f3 \in Seq(Nat) /\ Len(f3) = 4 /\ FromLe(f3) = c.x
  BY ONLY <1>2, <1>4, FieldReadsBack
<1>8. f4 \in Seq(Nat) /\ Len(f4) = 4 /\ FromLe(f4) = c.y
  BY ONLY <1>2, <1>4, FieldReadsBack
<1>9. f5 \in Seq(Nat) /\ Len(f5) = 4 /\ FromLe(f5) = c.width
  BY ONLY <1>2, <1>4, FieldReadsBack
<1>10. f6 \in Seq(Nat) /\ Len(f6) = 4 /\ FromLe(f6) = c.height
  BY ONLY <1>2, <1>4, FieldReadsBack
<1>11. f7 \in Seq(Nat) /\ Len(f7) = 8 /\ FromLe(f7) = c.sequence
  <2>1. c.sequence \in Nat /\ c.sequence < DWord
    BY DEF IsPointer
  <2>2. QED BY ONLY <1>4, <2>1, FieldReadsBack
<1>12. p = Le(4, CursorType) \o Le(4, 1) \o Le(4, IF c.visible THEN 1 ELSE 0)
           \o Le(4, c.x) \o Le(4, c.y) \o Le(4, c.width) \o Le(4, c.height) \o Le(8, c.sequence)
  BY Zenon DEF Pointer, CursorType, shown
<1> HIDE DEF f1, f2, f3, f4, f5, f6, f7
<1>13. PointerLaid(p, f1, f1, f2, f3, f4, f5, f6, f7)
  BY ONLY <1>5, <1>6, <1>7, <1>8, <1>9, <1>10, <1>11, PointerFields
<1> HIDE DEF p
<1>14. /\ p \in Seq(Nat) /\ Len(p) = 36 /\ SubSeq(p, 1, 4) = f1 /\ Len(body) = 32
       /\ SubSeq(body, 4 * 1 - 3, 4 * 1) = f1 /\ SubSeq(body, 4 * 2 - 3, 4 * 2) = f2
       /\ SubSeq(body, 4 * 3 - 3, 4 * 3) = f3 /\ SubSeq(body, 4 * 4 - 3, 4 * 4) = f4
       /\ SubSeq(body, 4 * 5 - 3, 4 * 5) = f5 /\ SubSeq(body, 4 * 6 - 3, 4 * 6) = f6
       /\ SubSeq(body, 25, 32) = f7
  BY ONLY <1>13, Zenon DEF PointerLaid
<1>15. n \in Nat /\ n < Word /\ n % ControlFlag = 36 /\ n >= ControlFlag /\ MaxUnit \in Nat
  BY LengthField DEF FormatOK
<1>16. Fielded(s, n, 0, time, p, rest) /\ 0 \in Nat
  <2>1. 0 \in Nat /\ 0 < DWord
    BY <1>1
  <2>2. QED BY <1>14, <1>15, <2>1, PacketFields
<1>17. s = CursorPacket(time, c) \o rest
  <2>1. n = Flagged(p)
    BY ONLY <1>14 DEF Flagged
  <2> HIDE DEF n
  <2>2. CursorPacket(time, c) = Packet(Flagged(p), 0, time, p)
    BY ONLY <1>12, Zenon DEF CursorPacket
  <2>3. QED BY ONLY <2>1, <2>2, Zenon DEF s, Sent
<1> HIDE DEF n, s
<1>18. /\ Len(s) = Header + 36 + Len(rest) /\ Len(rest) \in Nat
       /\ FromLe(SubSeq(s, 1, 4)) = Magic /\ FromLe(SubSeq(s, 5, 8)) = n
       /\ FromLe(SubSeq(s, 9, 16)) = 0 /\ SubSeq(s, Header + 1, Header + 36) = p
  <2>1. Len(rest) \in Nat
    BY LenProperties
  <2>2. QED BY ONLY <1>14, <1>16, <2>1, Zenon DEF Fielded
<1>19. ~ Len(s) < Header /\ ~ Len(s) < Header + 36 /\ ~ 36 > MaxUnit /\ ~ 36 < 4 /\ ~ 36 = 0
  <2>1. Header \in Nat
    BY DEF Header
  <2>2. MaxUnit \in Nat
    BY <1>15
  <2>3. Len(s) = Header + 36 + Len(rest) /\ Len(rest) \in Nat
    BY <1>18
  <2>4. QED BY ONLY <2>1, <2>2, <2>3, MaxUnit >= 36
<1> HIDE DEF body
<1>20. ReadPacket(s) = Control(1, body)
  <2>1. ReadPacket(s) = Control(FromLe(SubSeq(p, 1, 4)), SubSeq(p, 5, 36))
    BY ONLY <1>15, <1>18, <1>19, Zenon DEF ReadPacket
  <2>2. QED BY ONLY <1>5, <1>14, <2>1, Zenon DEF body
<1>21. /\ FromLe(SubSeq(body, 4 * 1 - 3, 4 * 1)) = 1
           /\ FromLe(SubSeq(body, 4 * 2 - 3, 4 * 2)) = shown
       /\ FromLe(SubSeq(body, 4 * 3 - 3, 4 * 3)) = c.x
           /\ FromLe(SubSeq(body, 4 * 4 - 3, 4 * 4)) = c.y
       /\ FromLe(SubSeq(body, 4 * 5 - 3, 4 * 5)) = c.width
       /\ FromLe(SubSeq(body, 4 * 6 - 3, 4 * 6)) = c.height
       /\ FromLe(SubSeq(body, 25, 32)) = c.sequence /\ Len(body) = 32
  BY ONLY <1>5, <1>6, <1>7, <1>8, <1>9, <1>10, <1>11, <1>14, Zenon
<1>22. c.width \in 1 .. MaxSide /\ c.height \in 1 .. MaxSide
  BY DEF IsPointer
<1>23. Control(1, body) = [kind |-> "cursor", visible |-> c.visible, x |-> c.x, y |-> c.y,
                           width |-> c.width, height |-> c.height, sequence |-> c.sequence]
  BY ONLY <1>3, <1>21, <1>22, Zenon DEF Control, CursorType, CursorBytes
<1>24. PacketLength(s) = Header + 36
  BY ONLY <1>15, <1>18, Zenon DEF PacketLength
<1>25. QED BY ONLY <1>17, <1>20, <1>23, <1>24, Zenon

----------------------------------------------------------------------------
(* Induction.                                                              *)

\* A set of numbers that is not empty has a least one.
LEMMA Least ==
  ASSUME NEW T, T \subseteq Nat, T # {}
  PROVE  \E x \in T : \A y \in T : x <= y
<1> DEFINE R == {p \in Nat \X Nat : p[1] < p[2]}
<1>1. IsWellFoundedOn(R, Nat)
  BY NatLessThanWellFounded DEF OpToRel
<1>2. \A x, y \in Nat : x < y => <<x, y>> \in R
  OBVIOUS
<1> HIDE DEF R
<1>3. PICK x \in T : \A y \in T : ~ (<<y, x>> \in R)
  BY <1>1, WFMin
<1>4. \A y \in T : ~ (y < x)
  BY <1>2, <1>3
<1>5. QED BY <1>3, <1>4

\* A set that holds 0 and the successor of what it holds, holds every number.
LEMMA Induction ==
  ASSUME NEW S, 0 \in S, \A n \in Nat : n \in S => n + 1 \in S
  PROVE  \A n \in Nat : n \in S
<1> DEFINE T == Nat \ S
<1>1. SUFFICES ASSUME T # {} PROVE FALSE
  OBVIOUS
<1>2. PICK x \in T : \A y \in T : x <= y
  BY <1>1, Least
<1>3. x \in Nat /\ x # 0 /\ x - 1 \in Nat /\ (x - 1) \notin T /\ (x - 1) + 1 = x
  BY <1>2
<1>4. QED BY <1>2, <1>3

\* A function on 1 .. N + 1 whose value at a place is made, by F, of the place and of its
\* value at a later one; the recursions of PacketFormat over the places of a payload.
Advances(nxt, N)     == \A o \in 1 .. N : nxt[o] \in o + 1 .. N + 1
Closed(F, N, V)      == \A o \in 1 .. N, v \in V : F[<<o, v>>] \in V
Solves(f, o, nxt, F) == f[o] = F[<<o, f[nxt[o]]>>]

LEMMA Recursion ==
  ASSUME NEW N \in Nat, NEW V, NEW z \in V, NEW nxt, Advances(nxt, N), NEW F, Closed(F, N, V)
  PROVE  \E f \in [1 .. N + 1 -> V] : f[N + 1] = z /\ \A o \in 1 .. N : Solves(f, o, nxt, F)
<1> DEFINE Good(n, f) == f[N + 1] = z /\ \A o \in 1 .. N : o > N - n => Solves(f, o, nxt, F)
           S == {n \in Nat : \E f \in [1 .. N + 1 -> V] : Good(n, f)}
<1>1. 0 \in S
  <2>1. [o \in 1 .. N + 1 |-> z] \in [1 .. N + 1 -> V]
    OBVIOUS
  <2>2. Good(0, [o \in 1 .. N + 1 |-> z])
    OBVIOUS
  <2> HIDE DEF Good
  <2>3. QED BY <2>1, <2>2
<1>2. ASSUME NEW n \in Nat, n \in S PROVE n + 1 \in S
  <2>1. PICK f \in [1 .. N + 1 -> V] : Good(n, f)
    BY <1>2
  <2>2. CASE N - n < 1
    <3>1. \A o \in 1 .. N : o > N - n
      BY <2>2
    <3>2. Good(n + 1, f)
      BY <2>1, <3>1
    <3> HIDE DEF Good
    <3>3. QED BY <3>2
  <2>3. CASE N - n >= 1
    <3> DEFINE p == N - n
               w == F[<<p, f[nxt[p]]>>]
               g == [f EXCEPT ![p] = w]
    <3>1. p \in 1 .. N /\ p # N + 1
      BY <2>3
    <3>2. nxt[p] \in p + 1 .. N + 1
      BY <3>1 DEF Advances
    <3> HIDE DEF p
    <3>3. nxt[p] \in 1 .. N + 1 /\ f[nxt[p]] \in V
      BY <3>1, <3>2
    <3>4. w \in V
      BY <3>1, <3>3 DEF Closed
    <3> HIDE DEF w
    <3>5. g \in [1 .. N + 1 -> V] /\ g[p] = w /\ \A o \in 1 .. N + 1 : o # p => g[o] = f[o]
      BY <3>1, <3>4
    <3> HIDE DEF g
    <3>6. g[N + 1] = z
      BY <2>1, <3>1, <3>5
    <3>7. ASSUME NEW o \in 1 .. N, o >= p PROVE g[nxt[o]] = f[nxt[o]]
      <4>1. nxt[o] \in 1 .. N + 1 /\ nxt[o] # p
        BY <3>1, <3>7 DEF Advances
      <4>2. QED BY <3>5, <4>1
    <3>8. Solves(g, p, nxt, F)
      <4>1. g[nxt[p]] = f[nxt[p]]
        <5>1. p >= p
          BY ONLY <3>1
        <5>2. QED BY ONLY <3>1, <3>7, <5>1
      <4>2. QED BY ONLY <3>5, <4>1, Zenon DEF Solves, w
    <3>9. ASSUME NEW o \in 1 .. N, o > p PROVE Solves(g, o, nxt, F)
      <4>1. Solves(f, o, nxt, F)
        BY <2>1, <3>9 DEF p
      <4>2. g[o] = f[o]
        BY <3>1, <3>5, <3>9
      <4>3. g[nxt[o]] = f[nxt[o]]
        BY <3>1, <3>7, <3>9
      <4>4. QED BY <4>1, <4>2, <4>3 DEF Solves
    <3>10. \A o \in 1 .. N : o > N - (n + 1) => o > p \/ o = p
      BY DEF p
    <3>11. Good(n + 1, g)
      BY <3>6, <3>8, <3>9, <3>10
    <3> HIDE DEF Good
    <3>12. QED BY <3>5, <3>11
  <2>4. QED BY <2>2, <2>3
<1>3. N \in S
  <2> HIDE DEF S
  <2>1. QED BY <1>1, <1>2, Induction
<1>4. PICK f \in [1 .. N + 1 -> V] : Good(N, f)
  BY <1>3
<1>5. QED BY <1>4

----------------------------------------------------------------------------
(* Parts that follow each other.                                           *)

\* s is the parts ps one after the other: part k stands behind the first at[k] bytes.
Lays(s, ps, at) ==
  /\ s \in Seq(Nat) /\ ps \in Seq(Seq(Nat)) /\ at \in [1 .. Len(ps) + 1 -> Nat]
  /\ at[1] = 0 /\ at[Len(ps) + 1] = Len(s)
  /\ \A k \in 1 .. Len(ps) : at[k + 1] = at[k] + Len(ps[k]) /\ At(s, at[k], ps[k])

LEMMA AtKeptAll ==
  ASSUME NEW s \in Seq(Nat), NEW t \in Seq(Nat), NEW k, NEW f \in Seq(Nat), At(s, k, f)
  PROVE  At(Cat(s, t), k, f)
<1>1. k \in Nat
  BY DEF At
<1>2. QED BY <1>1, AtKept

\* One part more.
Grown(f, ps, i) == IF i = 1 THEN ps[i] ELSE f[i - 1] \o ps[i]

\* FlattenSeq of the community modules lays its parts one after the other.
LEMMA FlattenLays ==
  ASSUME NEW ps \in Seq(Seq(Nat))
  PROVE  \E at : Lays(FlattenSeq(ps), ps, at)
<1>1. CASE ps = <<>>
  <2>1. FlattenSeq(ps) = <<>>
    BY <1>1 DEF FlattenSeq
  <2>2. Lays(<<>>, ps, [k \in 1 .. 1 |-> 0])
    BY <1>1 DEF Lays
  <2>3. QED BY <2>1, <2>2
<1>2. CASE ps # <<>>
  <2> DEFINE m == Len(ps)
             Step(f) == [i \in 1 .. m |-> Grown(f, ps, i)]
             flatten == CHOOSE f : f = Step(f)
  <2>1. m \in Nat /\ m >= 1 /\ \A i \in 1 .. m : ps[i] \in Seq(Nat)
    BY <1>2
  <2>2. FlattenSeq(ps) = flatten[m]
    <3>1. m # 0
      BY <2>1
    <3>2. QED BY <3>1, Zenon DEF FlattenSeq, Grown
  <2> HIDE DEF m
  <2>3. \E f : f = Step(f)
    <3> DEFINE From(n, f) == \A i \in 1 .. n + 1 : i <= m => f[i] = Grown(f, ps, i)
               S == {n \in Nat : \E f \in [1 .. m -> Seq(Nat)] : From(n, f)}
    <3>1. 0 \in S
      <4>1. [i \in 1 .. m |-> ps[1]] \in [1 .. m -> Seq(Nat)]
        BY <2>1
      <4>2. From(0, [i \in 1 .. m |-> ps[1]])
        BY <2>1 DEF Grown
      <4> HIDE DEF From
      <4>3. QED BY <4>1, <4>2
    <3>2. ASSUME NEW n \in Nat, n \in S PROVE n + 1 \in S
      <4>1. PICK f \in [1 .. m -> Seq(Nat)] : From(n, f)
        BY <3>2
      <4>2. CASE n + 2 > m
        <5>1. From(n + 1, f)
          BY <4>1, <4>2, <2>1
        <5> HIDE DEF From
        <5>2. QED BY <5>1
      <4>3. CASE n + 2 <= m
        <5> DEFINE p == n + 2
                   w == f[n + 1] \o ps[p]
                   g == [f EXCEPT ![p] = w]
        <5>1. p \in 1 .. m /\ n + 1 \in 1 .. m /\ p - 1 = n + 1 /\ p # 1
          BY <4>3, <2>1
        <5>2. w \in Seq(Nat)
          BY <5>1, <2>1
        <5>3. g \in [1 .. m -> Seq(Nat)] /\ g[p] = w /\ \A i \in 1 .. m : i # p => g[i] = f[i]
          BY <5>1, <5>2
        <5> HIDE DEF g
        <5>4. g[p] = Grown(g, ps, p)
          <6>1. g[p - 1] = f[n + 1]
            BY <5>1, <5>3
          <6>2. QED BY <5>1, <5>3, <6>1, Zenon DEF Grown
        <5>5. ASSUME NEW i \in 1 .. n + 1, i <= m PROVE g[i] = Grown(g, ps, i)
          <6>1. g[i] = f[i] /\ (i # 1 => g[i - 1] = f[i - 1])
            BY <5>3, <5>5, <2>1
          <6>2. f[i] = Grown(f, ps, i)
            BY <4>1, <5>5
          <6>3. QED BY <6>1, <6>2, Zenon DEF Grown
        <5>6. \A i \in 1 .. (n + 1) + 1 : i \in 1 .. n + 1 \/ i = p
          OBVIOUS
        <5>7. From(n + 1, g)
          BY <5>4, <5>5, <5>6
        <5> HIDE DEF From
        <5> HIDE DEF p
        <5>8. QED BY <5>3, <5>7
      <4>4. n + 2 > m \/ n + 2 <= m
        BY <2>1
      <4> HIDE DEF S
      <4>5. QED BY ONLY <4>2, <4>3, <4>4
    <3>3. m \in S
      <4> HIDE DEF S
      <4>1. QED BY <2>1, <3>1, <3>2, Induction
    <3>4. PICK f \in [1 .. m -> Seq(Nat)] : From(m, f)
      BY <3>3
    <3>5. f = Step(f)
      BY <2>1, <3>4
    <3>6. QED BY <3>5
  <2>4. flatten = Step(flatten)
    BY <2>3
  <2> HIDE DEF flatten
  <2>5. /\ flatten[1] = ps[1]
        /\ \A i \in 1 .. m : i + 1 <= m => flatten[i + 1] = Cat(flatten[i], ps[i + 1])
    <3>1. \A i \in 1 .. m : flatten[i] = Grown(flatten, ps, i)
      BY <2>4
    <3>2. flatten[1] = ps[1]
      BY <2>1, <3>1 DEF Grown
    <3>3. ASSUME NEW i \in 1 .. m, i + 1 <= m PROVE flatten[i + 1] = Cat(flatten[i], ps[i + 1])
      <4>1. i + 1 \in 1 .. m /\ i + 1 # 1 /\ (i + 1) - 1 = i
        BY <2>1, <3>3
      <4>2. QED BY <3>1, <4>1, Zenon DEF Grown, Cat
    <3>4. QED BY <3>2, <3>3
  <2> DEFINE at == [k \in 1 .. m + 1 |-> IF k = 1 THEN 0 ELSE Len(flatten[k - 1])]
             Done(i) == /\ flatten[i] \in Seq(Nat)
                        /\ \A k \in 1 .. i : /\ at[k + 1] = at[k] + Len(ps[k])
                                             /\ At(flatten[i], at[k], ps[k])
             S == {n \in Nat : n + 1 <= m => Done(n + 1)}
  <2>6. at[1] = 0 /\ \A k \in 1 .. m : at[k + 1] = Len(flatten[k])
    BY <2>1
  <2> HIDE DEF at
  <2>7. 0 \in S
    <3>1. flatten[1] \in Seq(Nat) /\ Len(ps[1]) \in Nat
      BY <2>1, <2>5
    <3>2. at[1 + 1] = at[1] + Len(ps[1])
      BY <2>1, <2>5, <2>6, <3>1
    <3>3. At(flatten[1], at[1], ps[1])
      BY <2>1, <2>5, <2>6, AtStart
    <3>4. \A k \in 1 .. 0 + 1 : k = 1
      OBVIOUS
    <3>5. Done(1)
      BY <3>1, <3>2, <3>3
    <3>6. QED BY <3>5
  <2>8. ASSUME NEW n \in Nat, n \in S PROVE n + 1 \in S
    <3> SUFFICES ASSUME n + 2 <= m PROVE Done(n + 2)
      OBVIOUS
    <3>1. Done(n + 1)
      BY <2>8, <2>1
    <3> DEFINE t == flatten[n + 1]
               u == ps[n + 2]
    <3>2. t \in Seq(Nat)
      BY <3>1
    <3>3. n + 1 \in 1 .. m /\ n + 2 \in 1 .. m /\ (n + 1) + 1 = n + 2
      BY <2>1
    <3>4. u \in Seq(Nat) /\ flatten[n + 2] = Cat(t, u)
      BY <2>1, <2>5, <3>3
    <3>5. at[n + 2] = Len(t) /\ at[(n + 2) + 1] = Len(flatten[n + 2])
      BY <2>6, <3>3
    <3>6. at[(n + 2) + 1] = at[n + 2] + Len(u) /\ At(flatten[n + 2], at[n + 2], u)
          /\ flatten[n + 2] \in Seq(Nat)
      <4> HIDE DEF t, u
      <4>1. QED BY <3>2, <3>4, <3>5, AtEnd, CatLength
    <3>7. ASSUME NEW k \in 1 .. n + 1
          PROVE  at[k + 1] = at[k] + Len(ps[k]) /\ At(flatten[n + 2], at[k], ps[k])
      <4>1. At(t, at[k], ps[k]) /\ at[k + 1] = at[k] + Len(ps[k])
        BY <3>1
      <4>2. ps[k] \in Seq(Nat)
        BY <2>1, <3>3
      <4> HIDE DEF t, u
      <4>3. QED BY <3>2, <3>4, <4>1, <4>2, AtKeptAll
    <3>8. \A k \in 1 .. n + 2 : k \in 1 .. n + 1 \/ k = n + 2
      OBVIOUS
    <3>9. QED BY <3>6, <3>7, <3>8
  <2>9. m - 1 \in S
    <3> HIDE DEF S
    <3>1. m - 1 \in Nat
      BY <2>1
    <3>2. QED BY ONLY <2>7, <2>8, <3>1, Induction
  <2>10. Done(m)
    BY <2>1, <2>9
  <2>11. at \in [1 .. m + 1 -> Nat]
    <3>1. \A k \in 1 .. m + 1 : at[k] \in Nat
      <4> SUFFICES ASSUME NEW k \in 1 .. m + 1 PROVE at[k] \in Nat
        OBVIOUS
      <4>1. CASE k = 1
        BY <2>6, <4>1
      <4>2. CASE k # 1
        <5>1. k - 1 \in 1 .. m /\ (k - 1) + 1 = k
          BY <2>1, <4>2
        <5>2. At(flatten[m], at[k - 1], ps[k - 1]) /\ at[(k - 1) + 1] = at[k - 1] + Len(ps[k - 1])
          BY <2>10, <5>1
        <5>3. QED BY <2>1, <5>1, <5>2, LenProperties DEF At
      <4>3. QED BY <4>1, <4>2
    <3>2. QED BY <3>1 DEF at
  <2>12. at[m + 1] = Len(flatten[m])
    BY <2>1, <2>6
  <2>13. Lays(flatten[m], ps, at)
    BY <2>6, <2>10, <2>11, <2>12 DEF Lays, m
  <2>14. QED BY <2>2, <2>13
<1>3. QED BY <1>1, <1>2

\* The parts lie within s; each ends before the next begins.
LEMMA LaysBound ==
  ASSUME NEW s, NEW ps, NEW at, Lays(s, ps, at)
  PROVE  \A k \in 1 .. Len(ps) + 1 : at[k] \in Nat /\ at[k] <= Len(s)
<1> DEFINE m == Len(ps)
           S == {d \in Nat : d <= m => at[m + 1 - d] <= Len(s)}
<1>1. m \in Nat /\ Len(s) \in Nat /\ at \in [1 .. m + 1 -> Nat] /\ at[m + 1] = Len(s)
      /\ \A k \in 1 .. m : at[k + 1] = at[k] + Len(ps[k]) /\ ps[k] \in Seq(Nat)
  BY DEF Lays
<1> HIDE DEF m
<1>2. 0 \in S
  BY <1>1
<1>3. ASSUME NEW d \in Nat, d \in S PROVE d + 1 \in S
  <2> SUFFICES ASSUME d + 1 <= m PROVE at[m + 1 - (d + 1)] <= Len(s)
    OBVIOUS
  <2>1. at[m + 1 - d] <= Len(s)
    BY <1>1, <1>3
  <2> DEFINE k == m - d
  <2>2. k \in 1 .. m /\ k + 1 = m + 1 - d /\ k = m + 1 - (d + 1)
    BY <1>1
  <2> HIDE DEF k
  <2>3. at[k + 1] = at[k] + Len(ps[k]) /\ Len(ps[k]) \in Nat /\ at[k] \in Nat
    BY <1>1, <2>2
  <2>4. QED BY <1>1, <2>1, <2>2, <2>3
<1>4. \A d \in Nat : d \in S
  <2> HIDE DEF S
  <2>1. QED BY <1>2, <1>3, Induction
<1>5. ASSUME NEW k \in 1 .. m + 1 PROVE at[k] \in Nat /\ at[k] <= Len(s)
  <2>1. m + 1 - k \in Nat /\ m + 1 - (m + 1 - k) = k /\ m + 1 - k <= m
    BY <1>1
  <2>2. QED BY <1>1, <1>4, <2>1
<1>6. QED BY <1>5 DEF m

\* Place p is in part k.
InPart(p, ps, at, k) == at[k] \in Nat /\ p - at[k] \in 1 .. Len(ps[k])

\* Every byte of s is in one of the parts.
LEMMA PartOf ==
  ASSUME NEW s, NEW ps, NEW at, Lays(s, ps, at), NEW p \in 1 .. Len(s)
  PROVE  \E k \in 1 .. Len(ps) : InPart(p, ps, at, k)
<1> DEFINE m == Len(ps)
           T == {k \in 1 .. m + 1 : p <= at[k]}
<1>1. m \in Nat /\ Len(s) \in Nat /\ at \in [1 .. m + 1 -> Nat] /\ at[m + 1] = Len(s) /\ at[1] = 0
      /\ \A k \in 1 .. m : at[k + 1] = at[k] + Len(ps[k]) /\ ps[k] \in Seq(Nat)
  BY DEF Lays
<1> HIDE DEF m
<1>2. m + 1 \in T /\ T \subseteq Nat
  BY <1>1
<1>3. PICK j \in T : \A k \in T : j <= k
  BY <1>2, Least
<1>4. j # 1
  BY <1>1
<1> DEFINE k == j - 1
<1>5. k \in 1 .. m /\ k + 1 = j /\ k \notin T
  BY <1>1, <1>3, <1>4
<1>6. p <= at[k + 1] /\ ~(p <= at[k])
  BY <1>3, <1>5, <1>1
<1> HIDE DEF k
<1>7. InPart(p, ps, at, k)
  <2>1. k + 1 \in 1 .. m + 1 /\ k \in 1 .. m + 1
    BY ONLY <1>1, <1>5
  <2>2. at[k] \in Nat /\ at[k + 1] = at[k] + Len(ps[k]) /\ Len(ps[k]) \in Nat
    BY ONLY <1>1, <1>5, <2>1, LenProperties
  <2>3. p - at[k] \in 1 .. Len(ps[k])
    BY ONLY <1>6, <2>2, p \in 1 .. Len(s)
  <2>4. QED BY ONLY <2>2, <2>3 DEF InPart
<1>8. QED BY <1>5, <1>7 DEF m

\* The bytes of the rest.
LEMMA RestIs ==
  ASSUME NEW s \in Seq(Nat), NEW a \in Nat, a <= Len(s)
  PROVE  /\ Rest(s, a) \in Seq(Nat) /\ Len(Rest(s, a)) = Len(s) - a
         /\ \A i \in 1 .. Len(s) - a : Rest(s, a)[i] = s[a + i]
<1> DEFINE r == SubSeq(s, a + 1, Len(s))
<1>1. r \in Seq(Nat) /\ Len(r) = Len(s) - a
  OBVIOUS
<1>2. \A i \in 1 .. Len(s) - a : r[i] = s[a + i]
  OBVIOUS
<1> HIDE DEF r
<1>3. Rest(s, a) = r
  BY DEF Rest, r
<1>4. QED BY <1>1, <1>2, <1>3

\* What s holds from part k on is part k and what s holds from part k + 1 on.
LEMMA LaysRest ==
  ASSUME NEW s, NEW ps, NEW at, Lays(s, ps, at), NEW k \in 1 .. Len(ps)
  PROVE  /\ SubSeq(s, at[k] + 1, at[k + 1]) = ps[k]
         /\ Rest(s, at[k]) = Cat(ps[k], Rest(s, at[k + 1]))
         /\ Rest(s, at[k]) \in Seq(Nat) /\ Rest(s, at[k + 1]) \in Seq(Nat)
<1> DEFINE a == at[k]
           b == at[k + 1]
           u == ps[k]
<1>1. s \in Seq(Nat) /\ u \in Seq(Nat) /\ b = a + Len(u) /\ At(s, a, u) /\ Len(s) \in Nat
  BY DEF Lays
<1>2. a \in Nat /\ b \in Nat /\ b <= Len(s) /\ a <= Len(s)
  <2>1. k \in 1 .. Len(ps) + 1 /\ k + 1 \in 1 .. Len(ps) + 1
    BY DEF Lays
  <2>2. QED BY <2>1, LaysBound
<1> HIDE DEF a, b, u
<1>3. SubSeq(s, a + 1, b) = u
  BY <1>1, <1>2, AtRead
<1>4. Rest(s, a) \in Seq(Nat) /\ Rest(s, b) \in Seq(Nat)
      /\ Len(Rest(s, a)) = Len(s) - a /\ Len(Rest(s, b)) = Len(s) - b
      /\ (\A i \in 1 .. Len(s) - a : Rest(s, a)[i] = s[a + i])
      /\ (\A i \in 1 .. Len(s) - b : Rest(s, b)[i] = s[b + i])
  BY <1>1, <1>2, RestIs
<1> DEFINE r == Rest(s, a)
           q == Rest(s, b)
           c == Cat(u, q)
<1>5. c \in Seq(Nat) /\ Len(c) = Len(u) + Len(q) /\ Len(u) \in Nat
      /\ (\A i \in 1 .. Len(u) : c[i] = u[i]) /\ (\A i \in 1 .. Len(q) : c[Len(u) + i] = q[i])
  <2> HIDE DEF q
  <2>1. QED BY <1>1, <1>4, CatIs DEF q
<1>6. \A i \in 1 .. Len(u) : s[a + i] = u[i]
  BY <1>1 DEF At
<1> HIDE DEF r, q, c
<1>7. r \in Seq(Nat) /\ q \in Seq(Nat) /\ Len(r) = Len(s) - a /\ Len(q) = Len(s) - b
      /\ (\A i \in 1 .. Len(s) - a : r[i] = s[a + i])
      /\ (\A i \in 1 .. Len(s) - b : q[i] = s[b + i])
  BY <1>4 DEF r, q
<1>8. Len(c) = Len(r)
  BY <1>1, <1>2, <1>5, <1>7
<1>9. ASSUME NEW i \in 1 .. Len(r) PROVE r[i] = c[i]
  <2>1. CASE i \in 1 .. Len(u)
    BY <2>1, <1>5, <1>6, <1>7, <1>1, <1>2
  <2>2. CASE i \notin 1 .. Len(u)
    <3>1. i - Len(u) \in 1 .. Len(q) /\ Len(u) + (i - Len(u)) = i /\ b + (i - Len(u)) = a + i
      BY <2>2, <1>1, <1>2, <1>5, <1>7
    <3>2. c[i] = q[i - Len(u)] /\ q[i - Len(u)] = s[a + i]
      BY <3>1, <1>5, <1>7
    <3>3. QED BY <3>2, <1>1, <1>2, <1>7
  <2>3. QED BY <2>1, <2>2
<1>10. r = c
  BY ONLY <1>5, <1>7, <1>8, <1>9, SeqEqual
<1>11. QED BY <1>3, <1>4, <1>10 DEF r, c, q, a, b, u

----------------------------------------------------------------------------
(* Start codes.                                                            *)

\* What StartCode looks for, byte by byte.
Short(s, i) == i + 2 <= Len(s) /\ s[i] = 0 /\ s[i + 1] = 0 /\ s[i + 2] = 1
Long(s, i)  == i + 3 <= Len(s) /\ s[i] = 0 /\ s[i + 1] = 0 /\ s[i + 2] = 0 /\ s[i + 3] = 1

LEMMA SubIs ==
  ASSUME NEW s \in Seq(Nat), NEW i \in Nat, i >= 1, NEW n \in Nat, i + n <= Len(s)
  PROVE  /\ SubSeq(s, i, i + n) \in Seq(Nat) /\ Len(SubSeq(s, i, i + n)) = n + 1
         /\ \A j \in 1 .. n + 1 : SubSeq(s, i, i + n)[j] = s[i + j - 1]
<1>1. i \in Int /\ i + n \in Int /\ i <= i + n /\ (i + n) - i + 1 = n + 1
  OBVIOUS
<1>2. \A j \in i .. i + n : s[j] \in Nat
  OBVIOUS
<1>3. /\ SubSeq(s, i, i + n) \in Seq(Nat)
      /\ Len(SubSeq(s, i, i + n)) = IF i <= i + n THEN (i + n) - i + 1 ELSE 0
      /\ \A j \in 1 .. (i + n) - i + 1 : SubSeq(s, i, i + n)[j] = s[i + j - 1]
  BY ONLY <1>1, <1>2, SubSeqProperties
<1>4. QED BY ONLY <1>1, <1>3, Zenon

LEMMA StartCodeIs ==
  ASSUME NEW s \in Seq(Nat), NEW i \in Nat, i >= 1
  PROVE  StartCode(s, i) = IF Short(s, i) THEN 3 ELSE IF Long(s, i) THEN 4 ELSE 0
<1>1. i + 2 <= Len(s) => (SubSeq(s, i, i + 2) = <<0, 0, 1>> <=> s[i] = 0 /\ s[i + 1] = 0 /\ s[i + 2] = 1)
  <2> SUFFICES ASSUME i + 2 <= Len(s)
               PROVE  SubSeq(s, i, i + 2) = <<0, 0, 1>> <=> s[i] = 0 /\ s[i + 1] = 0 /\ s[i + 2] = 1
    OBVIOUS
  <2> DEFINE t == SubSeq(s, i, i + 2)
  <2>1. t \in Seq(Nat) /\ Len(t) = 3 /\ t[1] = s[i] /\ t[2] = s[i + 1] /\ t[3] = s[i + 2]
    <3>0. 2 \in Nat /\ 2 + 1 = 3
      OBVIOUS
    <3>1. t \in Seq(Nat) /\ Len(t) = 2 + 1 /\ \A j \in 1 .. 2 + 1 : t[j] = s[i + j - 1]
      BY ONLY s \in Seq(Nat), i \in Nat, i >= 1, i + 2 <= Len(s), <3>0, SubIs
    <3> HIDE DEF t
    <3>2. i + 1 - 1 = i /\ i + 2 - 1 = i + 1 /\ i + 3 - 1 = i + 2
      OBVIOUS
    <3>3. QED BY <3>0, <3>1, <3>2
  <2> HIDE DEF t
  <2>2. t = <<0, 0, 1>> <=> t[1] = 0 /\ t[2] = 0 /\ t[3] = 1
    <3>1. <<0, 0, 1>> \in Seq(Nat) /\ Len(<<0, 0, 1>>) = 3
      OBVIOUS
    <3> DEFINE c == <<0, 0, 1>>
    <3>2. c[1] = 0 /\ c[2] = 0 /\ c[3] = 1
      OBVIOUS
    <3> HIDE DEF c
    <3>3. ASSUME t[1] = 0, t[2] = 0, t[3] = 1 PROVE t = c
      <4>1. \A j \in 1 .. 3 : t[j] = c[j]
        BY ONLY <3>2, <3>3
      <4>2. c \in Seq(Nat) /\ Len(c) = 3
        BY <3>1 DEF c
      <4>3. QED BY ONLY <2>1, <4>1, <4>2, SeqEqual
    <3>4. QED BY <3>2, <3>3, Zenon DEF c
  <2>3. QED BY <2>1, <2>2, Zenon DEF t
<1>2. i + 3 <= Len(s) => (SubSeq(s, i, i + 3) = <<0, 0, 0, 1>>
                          <=> s[i] = 0 /\ s[i + 1] = 0 /\ s[i + 2] = 0 /\ s[i + 3] = 1)
  <2> SUFFICES ASSUME i + 3 <= Len(s)
               PROVE  SubSeq(s, i, i + 3) = <<0, 0, 0, 1>>
                      <=> s[i] = 0 /\ s[i + 1] = 0 /\ s[i + 2] = 0 /\ s[i + 3] = 1
    OBVIOUS
  <2> DEFINE t == SubSeq(s, i, i + 3)
  <2>1. t \in Seq(Nat) /\ Len(t) = 4 /\ t[1] = s[i] /\ t[2] = s[i + 1] /\ t[3] = s[i + 2]
        /\ t[4] = s[i + 3]
    <3>0. 3 \in Nat /\ 3 + 1 = 4
      OBVIOUS
    <3>1. t \in Seq(Nat) /\ Len(t) = 3 + 1 /\ \A j \in 1 .. 3 + 1 : t[j] = s[i + j - 1]
      BY ONLY s \in Seq(Nat), i \in Nat, i >= 1, i + 3 <= Len(s), <3>0, SubIs
    <3> HIDE DEF t
    <3>2. i + 1 - 1 = i /\ i + 2 - 1 = i + 1 /\ i + 3 - 1 = i + 2 /\ i + 4 - 1 = i + 3
      OBVIOUS
    <3>3. QED BY <3>0, <3>1, <3>2
  <2> HIDE DEF t
  <2>2. t = <<0, 0, 0, 1>> <=> t[1] = 0 /\ t[2] = 0 /\ t[3] = 0 /\ t[4] = 1
    <3>1. <<0, 0, 0, 1>> \in Seq(Nat) /\ Len(<<0, 0, 0, 1>>) = 4
      OBVIOUS
    <3> DEFINE c == <<0, 0, 0, 1>>
    <3>2. c[1] = 0 /\ c[2] = 0 /\ c[3] = 0 /\ c[4] = 1
      OBVIOUS
    <3> HIDE DEF c
    <3>3. c \in Seq(Nat) /\ Len(c) = 4
      BY <3>1 DEF c
    <3>4. t[1] = 0 /\ t[2] = 0 /\ t[3] = 0 /\ t[4] = 1 => \A j \in 1 .. 4 : t[j] = c[j]
      BY ONLY <3>2
    <3>5. t[1] = 0 /\ t[2] = 0 /\ t[3] = 0 /\ t[4] = 1 => t = c
      BY ONLY <2>1, <3>3, <3>4, SeqEqual
    <3>6. t = c <=> t[1] = 0 /\ t[2] = 0 /\ t[3] = 0 /\ t[4] = 1
      BY ONLY <3>2, <3>5, Zenon
    <3>7. QED BY <3>6 DEF c
  <2>3. QED BY <2>1, <2>2, Zenon DEF t
<1>3. QED BY <1>1, <1>2, Zenon DEF StartCode, Short, Long

\* A NAL unit: it has a header byte, does not end in zero, and has no start code in it; what
\* the standard asks of an encoder.
IsNal(u) ==
  /\ u \in Seq(Nat) /\ Len(u) >= 1 /\ u[Len(u)] # 0
  /\ \A i \in 1 .. Len(u) - 2 : ~(u[i] = 0 /\ u[i + 1] = 0 /\ u[i + 2] = 1)

\* The units of a coded picture behind start codes of n bytes.
Marked(u, n) == [j \in 1 .. n |-> IF j = n THEN 1 ELSE 0] \o u
IsCoded(s, nals, n, at) ==
  /\ n \in {3, 4} /\ nals \in Seq(Seq(Nat)) /\ \A k \in 1 .. Len(nals) : IsNal(nals[k])
  /\ Lays(s, [k \in 1 .. Len(nals) |-> Marked(nals[k], n)], at)

LEMMA MarkedIs ==
  ASSUME NEW u \in Seq(Nat), NEW n \in {3, 4}
  PROVE  /\ Marked(u, n) \in Seq(Nat) /\ Len(Marked(u, n)) = n + Len(u) /\ Len(u) \in Nat
         /\ \A j \in 1 .. n : Marked(u, n)[j] = IF j = n THEN 1 ELSE 0
         /\ \A j \in 1 .. Len(u) : Marked(u, n)[n + j] = u[j]
<1> DEFINE c == [j \in 1 .. n |-> IF j = n THEN 1 ELSE 0]
<1>1. c \in Seq(Nat) /\ Len(c) = n /\ \A j \in 1 .. n : c[j] = IF j = n THEN 1 ELSE 0
  OBVIOUS
<1>2. Marked(u, n) = Cat(c, u)
  BY Zenon DEF Marked, Cat
<1> HIDE DEF c
<1>3. /\ Cat(c, u) \in Seq(Nat) /\ Len(Cat(c, u)) = Len(c) + Len(u) /\ Len(u) \in Nat
      /\ (\A i \in 1 .. Len(c) : Cat(c, u)[i] = c[i])
      /\ (\A i \in 1 .. Len(u) : Cat(c, u)[Len(c) + i] = u[i])
  BY <1>1, CatIs
<1>4. QED BY <1>1, <1>2, <1>3

\* Unit k and the start code before it, in terms of the bytes of s.
Unit(s, u, n, a, b) ==
  /\ s \in Seq(Nat) /\ u \in Seq(Nat) /\ IsNal(u) /\ Len(u) \in Nat /\ Len(s) \in Nat
  /\ a \in Nat /\ b = a + n + Len(u) /\ b <= Len(s)
  /\ \A j \in 1 .. n : s[a + j] = IF j = n THEN 1 ELSE 0
  /\ \A j \in 1 .. Len(u) : s[(a + n) + j] = u[j]

LEMMA CodedUnit ==
  ASSUME NEW s, NEW nals, NEW n, NEW at, IsCoded(s, nals, n, at), NEW k \in 1 .. Len(nals)
  PROVE  Unit(s, nals[k], n, at[k], at[k + 1])
<1> DEFINE ps == [i \in 1 .. Len(nals) |-> Marked(nals[i], n)]
           u == nals[k]
           a == at[k]
           b == at[k + 1]
           p == Marked(u, n)
<1>1. n \in {3, 4} /\ u \in Seq(Nat) /\ IsNal(u) /\ Lays(s, ps, at) /\ Len(nals) \in Nat
  BY DEF IsCoded
<1>2. Len(ps) = Len(nals) /\ ps[k] = p
  BY <1>1
<1> HIDE DEF ps
<1>3. s \in Seq(Nat) /\ Len(s) \in Nat /\ b = a + Len(p) /\ At(s, a, p)
  BY <1>1, <1>2 DEF Lays
<1>4. a \in Nat /\ b \in Nat /\ b <= Len(s)
  <2>1. k \in 1 .. Len(ps) + 1 /\ k + 1 \in 1 .. Len(ps) + 1
    BY <1>1, <1>2
  <2>2. QED BY <1>1, <2>1, LaysBound
<1> HIDE DEF a, b, u
<1>5. /\ p \in Seq(Nat) /\ Len(p) = n + Len(u) /\ Len(u) \in Nat
      /\ (\A j \in 1 .. n : p[j] = IF j = n THEN 1 ELSE 0)
      /\ (\A j \in 1 .. Len(u) : p[n + j] = u[j])
  BY <1>1, MarkedIs
<1> HIDE DEF p
<1>6. \A j \in 1 .. n + Len(u) : s[a + j] = p[j]
  BY <1>3, <1>5 DEF At
<1>7. \A j \in 1 .. n : s[a + j] = IF j = n THEN 1 ELSE 0
  BY <1>1, <1>5, <1>6
<1>8. \A j \in 1 .. Len(u) : s[(a + n) + j] = u[j]
  <2> SUFFICES ASSUME NEW j \in 1 .. Len(u) PROVE s[(a + n) + j] = u[j]
    OBVIOUS
  <2>1. n + j \in 1 .. n + Len(u) /\ a + (n + j) = (a + n) + j
    BY <1>1, <1>4, <1>5
  <2>2. QED BY <1>5, <1>6, <2>1
<1>9. b = a + n + Len(u)
  BY <1>1, <1>3, <1>4, <1>5
<1>10. Unit(s, u, n, a, b)
  BY <1>1, <1>3, <1>4, <1>5, <1>7, <1>8, <1>9 DEF Unit
<1>11. QED BY <1>10 DEF u, a, b

\* The length of the start code found at place i of a unit's bytes.
CodeIn(n, i) == IF i = 1 THEN n ELSE IF n = 4 /\ i = 2 THEN 3 ELSE 0

\* Start codes are found where the units begin, and nowhere in a unit.
InCode(s, n, a, i) == StartCode(s, a + i) = CodeIn(n, i)

LEMMA InCodes ==
  ASSUME NEW s, NEW u, NEW n \in {3, 4}, NEW a \in Nat, NEW b, Unit(s, u, n, a, b),
         NEW i \in 1 .. n + Len(u)
  PROVE  InCode(s, n, a, i)
<1> SUFFICES StartCode(s, a + i) = IF i = 1 THEN n ELSE IF n = 4 /\ i = 2 THEN 3 ELSE 0
  BY DEF CodeIn, InCode
<1>1. /\ s \in Seq(Nat) /\ Len(u) \in Nat /\ Len(s) \in Nat /\ a \in Nat
      /\ b = a + n + Len(u) /\ b <= Len(s) /\ Len(u) >= 1 /\ u[Len(u)] # 0
      /\ a + i >= 1 /\ a + i \in Nat
  BY DEF Unit, IsNal
<1>2. StartCode(s, a + i) = IF Short(s, a + i) THEN 3 ELSE IF Long(s, a + i) THEN 4 ELSE 0
  BY <1>1, StartCodeIs
<1>3. \A j \in 1 .. n : s[a + j] = IF j = n THEN 1 ELSE 0
  BY DEF Unit
<1>4. CASE i <= n
  <2>1. CASE n = 3
    <3>1. s[a + 1] = 0 /\ s[a + 2] = 0 /\ s[a + 3] = 1
      BY <1>3, <2>1
    <3>2. i \in {1, 2, 3}
      BY <1>4, <2>1
    <3>3. CASE i = 1
      <4>1. (a + 1) + 1 = a + 2 /\ (a + 1) + 2 = a + 3
        BY <1>1
      <4>2. QED BY <1>1, <1>2, <2>1, <3>1, <3>3, <4>1 DEF Short, Long
    <3>4. CASE i = 2
      <4>1. (a + 2) + 1 = a + 3
        BY <1>1
      <4>2. s[(a + 2) + 1] = 1 /\ a + i = a + 2
        BY <3>1, <3>4, <4>1
      <4>3. QED BY <1>2, <2>1, <3>4, <4>2 DEF Short, Long
    <3>5. CASE i = 3
      <4>1. (a + 1) - 1 = a
        BY <1>1
      <4>2. QED BY <1>1, <1>2, <2>1, <3>1, <3>5, <4>1 DEF Short, Long
    <3>6. QED BY <3>2, <3>3, <3>4, <3>5
  <2>2. CASE n = 4
    <3>1. s[a + 1] = 0 /\ s[a + 2] = 0 /\ s[a + 3] = 0 /\ s[a + 4] = 1
      BY <1>3, <2>2
    <3>2. i \in {1, 2, 3, 4}
      BY <1>4, <2>2
    <3>3. CASE i = 1
      <4>1. (a + 1) + 1 = a + 2 /\ (a + 1) + 2 = a + 3 /\ (a + 1) + 3 = a + 4
        BY <1>1
      <4>2. /\ s[a + 1] = 0 /\ s[(a + 1) + 1] = 0 /\ s[(a + 1) + 2] = 0 /\ s[(a + 1) + 3] = 1
            /\ a + i = a + 1 /\ (a + 1) + 3 <= Len(s)
        BY <1>1, <2>2, <3>1, <3>3, <4>1
      <4>3. Long(s, a + i) /\ ~Short(s, a + i)
        BY <4>2 DEF Short, Long
      <4>4. QED BY <1>2, <2>2, <3>3, <4>3
    <3>4. CASE i = 2
      <4>1. (a + 2) + 1 = a + 3 /\ (a + 2) + 2 = a + 4
        BY <1>1
      <4>2. QED BY <1>1, <1>2, <2>2, <3>1, <3>4, <4>1 DEF Short, Long
    <3>5. CASE i = 3
      <4>1. (a + 3) + 1 = a + 4
        BY <1>1
      <4>2. QED BY <1>1, <1>2, <2>2, <3>1, <3>5, <4>1 DEF Short, Long
    <3>6. CASE i = 4
      <4>1. (a + 1) - 1 = a
        BY <1>1
      <4>2. QED BY <1>1, <1>2, <2>2, <3>1, <3>6, <4>1 DEF Short, Long
    <3>7. QED BY <3>2, <3>3, <3>4, <3>5, <3>6
  <2>3. QED BY <2>1, <2>2
<1>5. CASE i > n
  <2> DEFINE t == i - n
             l == Len(u)
  <2>1. t \in 1 .. l /\ i = n + t /\ i # 1 /\ i # 2 /\ l \in Nat
    BY <1>1, <1>5
  <2>2. \A j \in 1 .. l : s[(a + n) + j] = u[j]
    BY DEF Unit
  <2>3. u[l] # 0 /\ \A j \in 1 .. l - 2 : ~(u[j] = 0 /\ u[j + 1] = 0 /\ u[j + 2] = 1)
    BY DEF Unit, IsNal
  <2> HIDE DEF t, l
  <2>4. s[a + i] = u[t] /\ (t + 1 <= l => s[a + i + 1] = u[t + 1])
        /\ (t + 2 <= l => s[a + i + 2] = u[t + 2]) /\ (t + 3 <= l => s[a + i + 3] = u[t + 3])
    <3>1. a + i = (a + n) + t /\ a + i + 1 = (a + n) + (t + 1)
          /\ a + i + 2 = (a + n) + (t + 2) /\ a + i + 3 = (a + n) + (t + 3)
      BY <1>1, <2>1
    <3>2. /\ t \in 1 .. l /\ (t + 1 <= l => t + 1 \in 1 .. l) /\ (t + 2 <= l => t + 2 \in 1 .. l)
          /\ (t + 3 <= l => t + 3 \in 1 .. l)
      BY <2>1
    <3>3. /\ s[(a + n) + t] = u[t]
          /\ t + 1 <= l => s[(a + n) + (t + 1)] = u[t + 1]
          /\ t + 2 <= l => s[(a + n) + (t + 2)] = u[t + 2]
          /\ t + 3 <= l => s[(a + n) + (t + 3)] = u[t + 3]
      BY ONLY <2>2, <3>2, Zenon
    <3>4. QED BY ONLY <3>1, <3>3
  <2>5. ~Short(s, a + i)
    <3>1. CASE t + 2 <= l
      <4>1. t \in 1 .. l - 2
        BY <2>1, <3>1
      <4>2. QED BY <2>3, <2>4, <3>1, <4>1, <2>1 DEF Short
    <3>2. CASE t + 2 > l
      <4>1. t = l \/ t + 1 = l
        BY <2>1, <3>2
      <4>2. QED BY <2>1, <2>3, <2>4, <4>1 DEF Short
    <3>3. QED BY <2>1, <3>1, <3>2
  <2>6. ~Long(s, a + i)
    <3>1. CASE t + 3 <= l
      <4>1. t + 1 \in 1 .. l - 2 /\ (t + 1) + 1 = t + 2 /\ (t + 1) + 2 = t + 3
        BY <2>1, <3>1
      <4>2. ~(u[t + 1] = 0 /\ u[t + 2] = 0 /\ u[t + 3] = 1)
        BY ONLY <2>3, <4>1
      <4>3. t + 1 <= l /\ t + 2 <= l
        BY ONLY <2>1, <3>1
      <4>4. QED BY ONLY <2>4, <3>1, <4>2, <4>3, Zenon DEF Long
    <3>2. CASE t + 3 > l
      <4>1. t = l \/ t + 1 = l \/ t + 2 = l
        BY <2>1, <3>2
      <4>2. \/ u[t] # 0
            \/ t + 1 <= l /\ u[t + 1] # 0
            \/ t + 1 <= l /\ t + 2 <= l /\ u[t + 2] # 0
        <5>1. t \in Nat /\ (t + 1 = l => t + 1 <= l) /\ (t + 2 = l => t + 1 <= l /\ t + 2 <= l)
          BY ONLY <2>1
        <5>2. u[l] # 0
          BY ONLY <2>3
        <5>3. QED BY ONLY <4>1, <5>1, <5>2, Zenon
      <4>3. QED BY ONLY <2>4, <4>2, Zenon DEF Long
    <3>3. QED BY <2>1, <3>1, <3>2
  <2>7. QED BY <1>2, <2>1, <2>5, <2>6
<1>6. QED BY <1>4, <1>5, <1>1

----------------------------------------------------------------------------
(* Units by their type.                                                    *)

\* The start codes behind place nal, and the place where the unit at nal ends.
Ends(s, nal) == {k \in nal .. Len(s) - 3 : StartCode(s, k) # 0}
EndOf(s, nal) ==
  IF Ends(s, nal) = {} THEN Len(s) + 1
  ELSE CHOOSE k \in Ends(s, nal) : \A j \in Ends(s, nal) : k <= j

\* One step of findNalUnit at place o, f being what it finds from later places on.
Finds(s, type, f, o) ==
  IF o + 4 > Len(s) THEN <<>>
  ELSE IF StartCode(s, o) = 0 THEN f[o + 1]
  ELSE LET nal == o + StartCode(s, o)
           end == EndOf(s, nal)
       IN  IF nal < end /\ s[nal] % Types = type THEN SubSeq(s, nal, end - 1) ELSE f[end]

LEMMA EndIs ==
  ASSUME NEW s \in Seq(Nat), NEW nal \in Nat, NEW e \in nal .. Len(s) + 1,
         \A k \in nal .. e - 1 : StartCode(s, k) = 0,
         e = Len(s) + 1 \/ (e <= Len(s) - 3 /\ StartCode(s, e) # 0)
  PROVE  EndOf(s, nal) = e
<1>1. Len(s) \in Nat
  OBVIOUS
<1>2. CASE e = Len(s) + 1
  <2>1. Ends(s, nal) = {}
    BY <1>1, <1>2 DEF Ends
  <2>2. QED BY <1>2, <2>1 DEF EndOf
<1>3. CASE e <= Len(s) - 3 /\ StartCode(s, e) # 0
  <2> DEFINE T == Ends(s, nal)
  <2>1. e \in T /\ \A k \in T : k \in Nat /\ e <= k
    BY <1>1, <1>3 DEF Ends
  <2> HIDE DEF T
  <2>2. PICK k \in T : k = CHOOSE i \in T : \A j \in T : i <= j
    BY <2>1
  <2>3. \A j \in T : k <= j
    BY <2>1, <2>2
  <2>4. k = e
    BY <2>1, <2>3
  <2>5. QED BY <2>1, <2>2, <2>4, Zenon DEF EndOf, T
<1>4. QED BY <1>2, <1>3

LEMMA EndBound ==
  ASSUME NEW s \in Seq(Nat), NEW nal \in Nat, nal <= Len(s) + 1
  PROVE  EndOf(s, nal) \in nal .. Len(s) + 1
<1>1. Len(s) \in Nat
  OBVIOUS
<1>2. CASE Ends(s, nal) = {}
  BY <1>1, <1>2 DEF EndOf
<1>3. CASE Ends(s, nal) # {}
  <2> DEFINE T == Ends(s, nal)
  <2>1. T \subseteq Nat /\ T # {} /\ \A k \in T : k \in nal .. Len(s) + 1
    BY <1>1, <1>3 DEF Ends
  <2> HIDE DEF T
  <2>2. \E k \in T : \A j \in T : k <= j
    BY <2>1, Least
  <2>3. (CHOOSE k \in T : \A j \in T : k <= j) \in T
    BY <2>2
  <2>4. EndOf(s, nal) \in T
    BY <1>3, <2>3, Zenon DEF EndOf, T
  <2>5. QED BY <2>1, <2>4
<1>4. QED BY <1>2, <1>3

\* findNalUnit is such a recursion.
LEMMA FindIs ==
  ASSUME NEW s \in Seq(Nat), NEW type
  PROVE  \E f : /\ FindNalUnit(s, type) = f[1]
                /\ \A o \in 1 .. Len(s) + 1 : f[o] = Finds(s, type, f, o)
<1> DEFINE N == Len(s)
           Step(f) == [o \in 1 .. Len(s) + 1 |-> Finds(s, type, f, o)]
           from == CHOOSE f : f = Step(f)
<1>1. FindNalUnit(s, type) = from[1]
  BY Zenon DEF FindNalUnit, Finds, EndOf, Ends
<1>2. N \in Nat
  OBVIOUS
<1> DEFINE nal(o) == o + StartCode(s, o)
           ends(o) == o + 4 > Len(s)
           hit(o) == nal(o) < EndOf(s, nal(o)) /\ s[nal(o)] % Types = type
           unit(o) == SubSeq(s, nal(o), EndOf(s, nal(o)) - 1)
           nxt == [o \in 1 .. N |-> IF ends(o) THEN N + 1
                                    ELSE IF StartCode(s, o) = 0 THEN o + 1 ELSE EndOf(s, nal(o))]
           V == Seq(Nat)
           val(o, v) == IF ends(o) THEN <<>> ELSE IF StartCode(s, o) = 0 THEN v
                        ELSE IF hit(o) THEN unit(o) ELSE v
           F == [p \in (1 .. N) \X V |-> val(p[1], p[2])]
<1>3. ASSUME NEW o \in 1 .. N, ~ends(o), StartCode(s, o) # 0
      PROVE  /\ StartCode(s, o) \in {3, 4} /\ nal(o) \in o + 3 .. N
             /\ EndOf(s, nal(o)) \in nal(o) .. N + 1
  <2>1. StartCode(s, o) \in {3, 4}
    BY <1>3, StartCodeIs
  <2>2. nal(o) \in o + 3 .. N /\ nal(o) \in Nat
    BY <1>2, <1>3, <2>1
  <2> HIDE DEF nal
  <2>3. EndOf(s, nal(o)) \in nal(o) .. N + 1
    BY <1>2, <2>2, EndBound
  <2>4. QED BY <2>1, <2>2, <2>3
<1>4. Advances(nxt, N)
  <2> SUFFICES ASSUME NEW o \in 1 .. N PROVE nxt[o] \in o + 1 .. N + 1
    BY DEF Advances
  <2> HIDE DEF nal
  <2>1. CASE ends(o)
    BY <1>2, <2>1
  <2>2. CASE ~ends(o) /\ StartCode(s, o) = 0
    BY <1>2, <2>2
  <2>3. CASE ~ends(o) /\ StartCode(s, o) # 0
    <3>1. EndOf(s, nal(o)) \in o + 1 .. N + 1
      BY <1>2, <1>3, <2>3
    <3> HIDE DEF ends
    <3>2. QED BY <2>3, <3>1
  <2>4. QED BY <2>1, <2>2, <2>3
<1>5. ASSUME NEW o \in 1 .. N, NEW v \in V PROVE val(o, v) \in V
  <2>1. unit(o) \in V \/ ends(o) \/ StartCode(s, o) = 0 \/ ~hit(o)
    <3> SUFFICES ASSUME ~ends(o), StartCode(s, o) # 0 PROVE unit(o) \in V
      OBVIOUS
    <3> HIDE DEF nal
    <3>1. nal(o) \in 1 .. N /\ EndOf(s, nal(o)) \in nal(o) .. N + 1
      BY <1>2, <1>3
    <3> DEFINE e == EndOf(s, nal(o))
    <3>2. e - 1 \in Int /\ nal(o) \in Int /\ \A i \in nal(o) .. e - 1 : i \in 1 .. N
      <4> HIDE DEF e
      <4>1. nal(o) \in 1 .. N /\ e \in nal(o) .. N + 1
        BY ONLY <3>1 DEF e
      <4>2. QED BY ONLY <1>2, <4>1
    <3>3. \A i \in nal(o) .. e - 1 : s[i] \in Nat
      BY ONLY <3>2, s \in Seq(Nat), ElementOfSeq DEF N
    <3>4. SubSeq(s, nal(o), e - 1) \in Seq(Nat)
      BY ONLY <3>2, <3>3, SubSeqProperties
    <3>5. QED BY <3>4
  <2>2. <<>> \in V
    OBVIOUS
  <2> HIDE DEF ends, hit, unit, V
  <2>3. QED BY <2>1, <2>2
<1>6. Closed(F, N, V)
  <2> HIDE DEF val, V
  <2>1. QED BY <1>5 DEF Closed
<1>7. <<>> \in V
  OBVIOUS
<1> HIDE DEF nxt, F, V, N
<1>8. PICK f \in [1 .. N + 1 -> V] : f[N + 1] = <<>> /\ \A o \in 1 .. N : Solves(f, o, nxt, F)
  BY ONLY <1>2, <1>4, <1>6, <1>7, Recursion
<1>9. ASSUME NEW o \in 1 .. N PROVE f[o] = Finds(s, type, f, o)
  <2>1. f[o] = F[<<o, f[nxt[o]]>>]
    BY <1>8 DEF Solves
  <2>2. nxt[o] \in 1 .. N + 1
    BY <1>2, <1>4 DEF Advances
  <2>3. f[nxt[o]] \in V
    BY <1>8, <2>2
  <2>4. f[o] = val(o, f[nxt[o]])
    <3> HIDE DEF val
    <3>1. QED BY <2>1, <2>3 DEF F
  <2>5. nxt[o] = IF ends(o) THEN N + 1
                 ELSE IF StartCode(s, o) = 0 THEN o + 1 ELSE EndOf(s, nal(o))
    <3> HIDE DEF ends, nal
    <3>1. QED BY DEF nxt
  <2>6. QED BY <2>4, <2>5, Zenon DEF Finds
<1>10. f[N + 1] = Finds(s, type, f, N + 1)
  <2>1. (N + 1) + 4 > Len(s)
    BY <1>2 DEF N
  <2>2. QED BY <1>8, <2>1, Zenon DEF Finds
<1>11. f = Step(f)
  <2>1. \A o \in 1 .. N + 1 : f[o] = Finds(s, type, f, o)
    BY <1>2, <1>9, <1>10
  <2>2. f = [o \in 1 .. N + 1 |-> Finds(s, type, f, o)]
    BY <1>8, <2>1
  <2>3. QED BY <2>2 DEF N
<1>12. from = Step(from)
  BY <1>11
<1> HIDE DEF from
<1>13. \A o \in 1 .. Len(s) + 1 : from[o] = Finds(s, type, from, o)
  BY <1>12
<1>14. QED BY <1>1, <1>13

OfType(u, t) == u[1] % Types = t

\* The last unit after a short start code is not a header alone: the client looks for no
\* start code in the last four bytes.
LongEnough(nals, n) == n = 4 \/ Len(nals[Len(nals)]) >= 2

\* Where a unit begins: how much of s is left, and what follows.
LEMMA UnitAt ==
  ASSUME NEW s, NEW nals, NEW n, NEW at, IsCoded(s, nals, n, at), LongEnough(nals, n),
         NEW k \in 1 .. Len(nals)
  PROVE  /\ at[k] + 5 <= Len(s)
         /\ at[k + 1] = Len(s) \/ (at[k + 1] + 4 <= Len(s) /\ StartCode(s, at[k + 1] + 1) # 0)
<1> DEFINE m == Len(nals)
           ps == [i \in 1 .. m |-> Marked(nals[i], n)]
           u == nals[k]
           a == at[k]
           b == at[k + 1]
<1>1. n \in {3, 4} /\ m \in Nat /\ Unit(s, u, n, a, b) /\ at[m + 1] = Len(s)
  <2>1. n \in {3, 4} /\ m \in Nat /\ Lays(s, ps, at)
    BY DEF IsCoded
  <2>2. Len(ps) = m
    BY <2>1
  <2>3. QED BY <2>1, <2>2, CodedUnit DEF Lays
<1>2. Len(u) >= 1 /\ Len(u) \in Nat /\ a \in Nat /\ b = a + n + Len(u) /\ b <= Len(s) /\ Len(s) \in Nat
  BY <1>1 DEF Unit, IsNal
<1>3. CASE k = m
  <2>1. b = Len(s) /\ (n = 4 \/ Len(u) >= 2)
    BY <1>1, <1>3 DEF LongEnough
  <2> HIDE DEF a, b, u
  <2>2. a + 5 <= Len(s)
    BY <1>1, <1>2, <2>1
  <2>3. QED BY <2>1, <2>2 DEF a, b
<1>4. CASE k # m
  <2> DEFINE w == nals[k + 1]
             c == at[(k + 1) + 1]
  <2>1. k + 1 \in 1 .. m
    BY <1>1, <1>4
  <2>2. Unit(s, w, n, b, c)
    BY <2>1, CodedUnit
  <2> HIDE DEF a, b, u, w, c
  <2>3. Len(w) >= 1 /\ Len(w) \in Nat /\ b \in Nat /\ c = b + n + Len(w) /\ c <= Len(s)
    BY <2>2 DEF Unit, IsNal
  <2>4. 1 \in 1 .. n + Len(w)
    BY <1>1, <2>3
  <2>5. StartCode(s, b + 1) = n
    <3>1. InCode(s, n, b, 1)
      BY ONLY <1>1, <2>2, <2>3, <2>4, InCodes
    <3>2. QED BY ONLY <3>1 DEF InCode, CodeIn
  <2>6. a + 5 <= Len(s) /\ b + 4 <= Len(s)
    BY <1>1, <1>2, <2>3
  <2>7. StartCode(s, b + 1) # 0
    BY <1>1, <2>5
  <2>8. QED BY <2>6, <2>7 DEF a, b
<1>5. QED BY <1>3, <1>4

\* One step of findNalUnit at the start code of a unit: that unit, or on to the next one.
Onward(nals, at, t, f, k) == IF OfType(nals[k], t) THEN nals[k] ELSE f[at[k + 1] + 1]

LEMMA FindsAt ==
  ASSUME NEW s, NEW nals, NEW n, NEW at, IsCoded(s, nals, n, at), LongEnough(nals, n),
         NEW t, NEW f, NEW k \in 1 .. Len(nals)
  PROVE  Finds(s, t, f, at[k] + 1) = Onward(nals, at, t, f, k)
<1> DEFINE u == nals[k]
           a == at[k]
           b == at[k + 1]
           o == a + 1
           nal == o + StartCode(s, o)
           e == b + 1
<1>1. n \in {3, 4} /\ Unit(s, u, n, a, b)
  BY CodedUnit DEF IsCoded
<1>2. a + 5 <= Len(s) /\ (b = Len(s) \/ (b + 4 <= Len(s) /\ StartCode(s, b + 1) # 0))
  BY UnitAt
<1> HIDE DEF a, b, u
<1>3. /\ s \in Seq(Nat) /\ u \in Seq(Nat) /\ Len(u) >= 1 /\ Len(u) \in Nat /\ a \in Nat
      /\ b = a + n + Len(u) /\ b <= Len(s) /\ Len(s) \in Nat
  BY <1>1 DEF Unit, IsNal
<1>0. \A j \in 1 .. Len(u) : s[(a + n) + j] = u[j]
  BY <1>1 DEF Unit
<1>4. \A i \in 1 .. n + Len(u) : InCode(s, n, a, i)
  <2>1. a \in Nat
    BY <1>3
  <2>2. QED BY ONLY <1>1, <2>1, InCodes
<1> DEFINE l == Len(u)
<1> HIDE DEF l
<1>5. StartCode(s, o) = n
  <2>1. 1 \in 1 .. n + Len(u)
    BY ONLY <1>1, <1>3
  <2>2. InCode(s, n, a, 1)
    BY ONLY <1>4, <2>1
  <2>3. QED BY <2>2 DEF InCode, CodeIn
<1>6. nal = (a + n) + 1 /\ nal \in Nat
  <2>1. o + n = (a + n) + 1 /\ o + n \in Nat
    BY ONLY <1>1, <1>3
  <2>2. QED BY ONLY <1>5, <2>1
<1> HIDE DEF nal
<1>7. \A q \in nal .. e - 1 : StartCode(s, q) = 0
  <2> SUFFICES ASSUME NEW q \in nal .. e - 1 PROVE StartCode(s, q) = 0
    OBVIOUS
  <2>1. q - a \in 1 .. n + Len(u) /\ a + (q - a) = q /\ q - a # 1 /\ q - a # 2
    BY <1>1, <1>3, <1>6
  <2>2. InCode(s, n, a, q - a)
    BY ONLY <1>4, <2>1
  <2>3. QED BY <1>1, <2>1, <2>2 DEF InCode, CodeIn
<1>8. e \in nal .. Len(s) + 1 /\ (e = Len(s) + 1 \/ (e <= Len(s) - 3 /\ StartCode(s, e) # 0))
  <2>1. e \in nal .. Len(s) + 1
    BY ONLY <1>1, <1>3, <1>6
  <2>2. CASE b = Len(s)
    BY ONLY <1>3, <2>1, <2>2
  <2>3. CASE b + 4 <= Len(s) /\ StartCode(s, b + 1) # 0
    <3>1. e <= Len(s) - 3
      BY ONLY <1>1, <1>3, <2>3
    <3>2. QED BY ONLY <2>1, <2>3, <3>1
  <2>4. QED BY ONLY <1>2, <2>2, <2>3
<1>9. EndOf(s, nal) = e
  BY <1>3, <1>6, <1>7, <1>8, EndIs
<1>10. s[nal] = u[1] /\ nal < e
  <2>1. nal < e
    BY ONLY <1>1, <1>3, <1>6
  <2>2. 1 \in 1 .. Len(u)
    BY ONLY <1>3
  <2>3. s[(a + n) + 1] = u[1]
    BY ONLY <1>0, <2>2
  <2>4. QED BY ONLY <1>6, <2>1, <2>3
<1>11. SubSeq(s, nal, e - 1) = u
  <2>0. a + n \in Nat /\ (a + n) + Len(u) <= Len(s)
    BY ONLY <1>1, <1>3
  <2>1. At(s, a + n, u)
    BY ONLY <1>0, <1>3, <2>0 DEF At
  <2>2. SubSeq(s, (a + n) + 1, (a + n) + Len(u)) = u
    BY ONLY <1>3, <2>0, <2>1, AtRead
  <2>3. e - 1 = (a + n) + Len(u)
    BY <1>1, <1>3
  <2>4. QED BY <1>6, <2>2, <2>3
<1>12. ~(o + 4 > Len(s)) /\ StartCode(s, o) # 0
  <2>1. o + 4 = a + 5 /\ n # 0
    BY ONLY <1>1, <1>3
  <2>2. ~(o + 4 > Len(s))
    BY ONLY <1>2, <1>3, <2>1
  <2>3. QED BY ONLY <1>5, <2>1, <2>2, Zenon
<1>13. Finds(s, t, f, o) = IF OfType(u, t) THEN u ELSE f[e]
  BY <1>9, <1>10, <1>11, <1>12, Zenon DEF Finds, OfType, nal
<1>14. QED BY <1>13, Zenon DEF a, b, u, o, e, Onward

\* However many units there are, and whichever start codes: the client finds the first of a
\* type as it was, or nothing if there is none (findNalUnit, VideoDecoder).
THEOREM FindsFirst ==
  ASSUME NEW s, NEW nals, NEW n, NEW at, IsCoded(s, nals, n, at), LongEnough(nals, n), NEW t
  PROVE  /\ \A k \in 1 .. Len(nals) :
              OfType(nals[k], t) /\ (\A j \in 1 .. k - 1 : ~OfType(nals[j], t))
                => FindNalUnit(s, t) = nals[k]
         /\ (\A j \in 1 .. Len(nals) : ~OfType(nals[j], t)) => FindNalUnit(s, t) = <<>>
<1> DEFINE m == Len(nals)
           ps == [i \in 1 .. m |-> Marked(nals[i], n)]
<1>1. m \in Nat /\ Lays(s, ps, at) /\ s \in Seq(Nat) /\ Len(s) \in Nat
  <2>1. m \in Nat /\ Lays(s, ps, at)
    BY DEF IsCoded
  <2> HIDE DEF ps
  <2>2. QED BY ONLY <2>1 DEF Lays
<1>2. Len(ps) = m
  BY <1>1
<1>3. at[1] = 0 /\ at[m + 1] = Len(s) /\ \A k \in 1 .. m + 1 : at[k] \in Nat /\ at[k] <= Len(s)
  BY <1>1, <1>2, LaysBound DEF Lays
<1> HIDE DEF ps, m
<1>4. PICK f : FindNalUnit(s, t) = f[1] /\ \A o \in 1 .. Len(s) + 1 : f[o] = Finds(s, t, f, o)
  BY <1>1, FindIs
<1>5. ASSUME NEW k \in 1 .. m
      PROVE  f[at[k] + 1] = IF OfType(nals[k], t) THEN nals[k] ELSE f[at[k + 1] + 1]
  <2>1. at[k] + 1 \in 1 .. Len(s) + 1
    BY <1>1, <1>3
  <2>2. f[at[k] + 1] = Finds(s, t, f, at[k] + 1)
    BY <1>4, <2>1
  <2>3. Finds(s, t, f, at[k] + 1) = Onward(nals, at, t, f, k)
    BY FindsAt DEF m
  <2>4. QED BY ONLY <2>2, <2>3, Zenon DEF Onward
<1>6. ASSUME NEW k \in 1 .. m + 1, \A j \in 1 .. k - 1 : ~OfType(nals[j], t)
      PROVE  f[1] = f[at[k] + 1]
  <2> DEFINE S == {d \in Nat : d + 1 <= k => f[1] = f[at[d + 1] + 1]}
  <2>1. 0 \in S
    BY <1>3
  <2>2. ASSUME NEW d \in Nat, d \in S PROVE d + 1 \in S
    <3> SUFFICES ASSUME d + 2 <= k PROVE f[1] = f[at[d + 2] + 1]
      OBVIOUS
    <3>1. f[1] = f[at[d + 1] + 1]
      BY <1>1, <2>2
    <3>2. d + 1 \in 1 .. m /\ d + 1 \in 1 .. k - 1 /\ (d + 1) + 1 = d + 2
      BY <1>1
    <3>3. f[at[d + 1] + 1] = f[at[(d + 1) + 1] + 1]
      BY <1>5, <1>6, <3>2
    <3>4. QED BY <3>1, <3>2, <3>3
  <2>3. k - 1 \in Nat /\ (k - 1) + 1 = k
    BY <1>1
  <2>4. k - 1 \in S
    <3> HIDE DEF S
    <3>1. QED BY ONLY <2>1, <2>2, <2>3, Induction
  <2>5. QED BY <1>1, <2>3, <2>4
<1>7. ASSUME NEW k \in 1 .. m, OfType(nals[k], t), \A j \in 1 .. k - 1 : ~OfType(nals[j], t)
      PROVE  FindNalUnit(s, t) = nals[k]
  <2>1. f[1] = f[at[k] + 1]
    BY <1>1, <1>6, <1>7
  <2>2. f[at[k] + 1] = nals[k]
    BY <1>5, <1>7
  <2>3. QED BY <1>4, <2>1, <2>2
<1>8. ASSUME \A j \in 1 .. m : ~OfType(nals[j], t) PROVE FindNalUnit(s, t) = <<>>
  <2>1. m + 1 \in 1 .. m + 1 /\ (m + 1) - 1 = m
    BY <1>1
  <2>2. f[1] = f[at[m + 1] + 1]
    BY <1>6, <1>8, <2>1
  <2>3. f[Len(s) + 1] = Finds(s, t, f, Len(s) + 1)
    BY <1>1, <1>4
  <2>4. Finds(s, t, f, Len(s) + 1) = <<>>
    BY <1>1 DEF Finds
  <2>5. QED BY <1>3, <1>4, <2>2, <2>3, <2>4
<1>9. QED BY <1>7, <1>8 DEF m

\* The host finds a unit of a type exactly if there is one (ContainsNalType).
THEOREM ContainsExactly ==
  ASSUME NEW s, NEW nals, NEW n, NEW at, IsCoded(s, nals, n, at), NEW t
  PROVE  ContainsNalType(s, t) <=> \E k \in 1 .. Len(nals) : OfType(nals[k], t)
<1> DEFINE m == Len(nals)
           ps == [i \in 1 .. m |-> Marked(nals[i], n)]
<1>1. /\ n \in {3, 4} /\ m \in Nat /\ Lays(s, ps, at) /\ s \in Seq(Nat) /\ Len(s) \in Nat
      /\ nals \in Seq(Seq(Nat))
  <2>1. n \in {3, 4} /\ m \in Nat /\ Lays(s, ps, at) /\ nals \in Seq(Seq(Nat))
    BY DEF IsCoded
  <2> HIDE DEF ps
  <2>2. QED BY ONLY <2>1 DEF Lays
<1>2. Len(ps) = m /\ \A k \in 1 .. m : ps[k] = Marked(nals[k], n) /\ nals[k] \in Seq(Nat)
  BY <1>1
<1> HIDE DEF ps, m
<1>3. ASSUME NEW k \in 1 .. m, OfType(nals[k], t) PROVE ContainsNalType(s, t)
  <2> DEFINE u == nals[k]
             a == at[k]
             b == at[k + 1]
             i == a + 1
  <2>1. Unit(s, u, n, a, b)
    BY CodedUnit DEF m
  <2> HIDE DEF u, a, b
  <2>2. /\ Len(u) \in Nat /\ Len(u) >= 1 /\ a \in Nat /\ b = a + n + Len(u) /\ b <= Len(s)
        /\ \A j \in 1 .. Len(u) : s[(a + n) + j] = u[j]
    BY <2>1 DEF Unit, IsNal
  <2>3. 1 \in 1 .. n + Len(u) /\ 1 \in 1 .. Len(u)
    BY <1>1, <2>2
  <2>4. StartCode(s, i) = n
    <3>1. a \in Nat
      BY <2>2
    <3>2. InCode(s, n, a, 1)
      BY ONLY <1>1, <2>1, <2>3, <3>1, InCodes
    <3>3. QED BY ONLY <3>2 DEF InCode, CodeIn
  <2>5. /\ i \in 1 .. Len(s) - 3 /\ i + n # i /\ i + n <= Len(s) /\ i + n = (a + n) + 1
    <3>1. /\ Len(u) \in Nat /\ Len(u) >= 1 /\ a \in Nat /\ b = a + n + Len(u) /\ b <= Len(s)
          /\ n \in {3, 4} /\ Len(s) \in Nat
      BY <1>1, <2>2
    <3>2. QED BY ONLY <3>1
  <2>6. s[i + n] % Types = t
    BY <1>3, <2>2, <2>3, <2>5 DEF OfType, u
  <2> HIDE DEF i
  <2>7. QED BY <2>4, <2>5, <2>6 DEF ContainsNalType
<1>4. ASSUME ContainsNalType(s, t) PROVE \E k \in 1 .. m : OfType(nals[k], t)
  <2>1. PICK i \in 1 .. Len(s) - 3 : /\ i + StartCode(s, i) # i /\ i + StartCode(s, i) <= Len(s)
                                     /\ s[i + StartCode(s, i)] % Types = t
    BY <1>4 DEF ContainsNalType
  <2>2. i \in 1 .. Len(s)
    BY <1>1
  <2>3. PICK k \in 1 .. m : InPart(i, ps, at, k)
    <3>1. \E k \in 1 .. Len(ps) : InPart(i, ps, at, k)
      BY ONLY <1>1, <2>2, PartOf
    <3>2. QED BY ONLY <1>2, <3>1
  <2> DEFINE j == i - at[k]
  <2>4. j \in 1 .. Len(ps[k]) /\ at[k] \in Nat /\ i = at[k] + j
    BY <2>2, <2>3 DEF InPart
  <2> HIDE DEF j
  <2> DEFINE u == nals[k]
             a == at[k]
             b == at[k + 1]
  <2>5. Unit(s, u, n, a, b)
    BY CodedUnit DEF m
  <2>6. j \in 1 .. n + Len(u)
    <3>1. ps[k] = Marked(u, n) /\ u \in Seq(Nat)
      BY ONLY <1>2, k \in 1 .. m
    <3>2. Len(Marked(u, n)) = n + Len(u)
      BY ONLY <1>1, <3>1, MarkedIs
    <3>3. QED BY ONLY <2>4, <3>1, <3>2
  <2> HIDE DEF u, a, b
  <2>7. /\ Len(u) \in Nat /\ Len(u) >= 1 /\ a \in Nat
        /\ \A q \in 1 .. Len(u) : s[(a + n) + q] = u[q]
    BY <2>5 DEF Unit, IsNal
  <2>8. StartCode(s, a + j) = CodeIn(n, j)
    <3>1. a \in Nat
      BY <2>7
    <3>2. InCode(s, n, a, j)
      BY ONLY <1>1, <2>5, <2>6, <3>1, InCodes
    <3>3. QED BY ONLY <3>2, Zenon DEF InCode
  <2>9. i = a + j
    BY <2>4 DEF a
  <2>10. i + StartCode(s, i) = (a + n) + 1
    <3>1. n \in Nat /\ j \in Nat /\ j >= 1 /\ i \in Nat
      BY ONLY <1>1, <2>6, <2>7, i \in 1 .. Len(s) - 3
    <3>2. CodeIn(n, j) # 0
      <4>1. i + 0 = i
        BY ONLY <3>1
      <4>2. QED BY ONLY <2>1, <2>8, <2>9, <4>1, Zenon
    <3>3. \/ j = 1 /\ CodeIn(n, j) = n
          \/ n = 4 /\ j = 2 /\ CodeIn(n, j) = 3
      BY ONLY <3>2, Zenon DEF CodeIn
    <3>4. (a + j) + CodeIn(n, j) = (a + n) + 1
      <4>1. a \in Nat
        BY ONLY <2>7
      <4>2. (a + 1) + n = (a + n) + 1 /\ (a + 2) + 3 = (a + 4) + 1
        BY ONLY <3>1, <4>1
      <4>3. QED BY ONLY <3>3, <4>2, Zenon
    <3>5. QED BY ONLY <2>8, <2>9, <3>4, Zenon
  <2>11. s[(a + n) + 1] = u[1]
    BY <2>7
  <2>12. OfType(u, t)
    BY <2>1, <2>10, <2>11 DEF OfType
  <2>13. QED BY <2>12 DEF u
<1>5. QED BY <1>3, <1>4 DEF m

----------------------------------------------------------------------------
(* Numbers of any length, and big-endian ones.                             *)

\* One step of FromLe.
Digit(s, f, i) == IF i > Len(s) THEN 0 ELSE s[i] + Base * f[i + 1]

\* FromLe of the bytes from each place on.
LEMMA FromLeSolves ==
  ASSUME ByteOK, NEW s \in Seq(Nat)
  PROVE  \E f \in [1 .. Len(s) + 1 -> Nat] :
           /\ FromLe(s) = f[1] /\ f[Len(s) + 1] = 0
           /\ \A i \in 1 .. Len(s) : f[i] = s[i] + Base * f[i + 1]
<1> DEFINE N == Len(s)
           Step(f) == [i \in 1 .. Len(s) + 1 |-> Digit(s, f, i)]
           from == CHOOSE f : f = Step(f)
           nxt == [i \in 1 .. N |-> i + 1]
           F == [p \in (1 .. N) \X Nat |-> s[p[1]] + Base * p[2]]
<1>0. N \in Nat /\ Base \in Nat /\ \A i \in 1 .. N : s[i] \in Nat
  BY DEF ByteOK
<1>1. FromLe(s) = from[1]
  BY Zenon DEF FromLe, Digit
<1> HIDE DEF N
<1>2. Advances(nxt, N)
  BY <1>0 DEF Advances
<1>3. ASSUME NEW i \in 1 .. N, NEW v \in Nat PROVE s[i] + Base * v \in Nat
  BY <1>0
<1>4. \A i \in 1 .. N, v \in Nat : F[<<i, v>>] = s[i] + Base * v
  OBVIOUS
<1> HIDE DEF F
<1>5. Closed(F, N, Nat)
  BY <1>3, <1>4 DEF Closed
<1>6. PICK f \in [1 .. N + 1 -> Nat] : f[N + 1] = 0 /\ \A i \in 1 .. N : Solves(f, i, nxt, F)
  <2> DEFINE V == Nat
  <2>1. 0 \in V /\ Closed(F, N, V) /\ N \in Nat
    BY <1>0, <1>5
  <2> HIDE DEF nxt, V
  <2>2. \E f \in [1 .. N + 1 -> V] : f[N + 1] = 0 /\ \A i \in 1 .. N : Solves(f, i, nxt, F)
    BY ONLY <1>2, <2>1, Recursion
  <2>3. QED BY <2>2 DEF V
<1>7. ASSUME NEW i \in 1 .. N PROVE f[i] = s[i] + Base * f[i + 1]
  <2>1. nxt[i] = i + 1 /\ f[i + 1] \in Nat
    BY <1>0
  <2>2. f[i] = F[<<i, f[i + 1]>>]
    BY <1>6, <2>1 DEF Solves
  <2>3. QED BY <1>4, <2>1, <2>2
<1>8. f = Step(f)
  <2>1. \A i \in 1 .. N + 1 : f[i] = Digit(s, f, i)
    <3>1. ASSUME NEW i \in 1 .. N + 1 PROVE f[i] = Digit(s, f, i)
      <4>1. CASE i = N + 1
        BY <1>0, <1>6, <4>1 DEF Digit, N
      <4>2. CASE i # N + 1
        <5>1. i \in 1 .. N /\ ~(i > N)
          BY <1>0, <4>2
        <5>2. QED BY <1>7, <5>1, Zenon DEF Digit, N
      <4>3. QED BY <4>1, <4>2
    <3>2. QED BY <3>1
  <2>2. f = [i \in 1 .. N + 1 |-> Digit(s, f, i)]
    BY <1>6, <2>1
  <2>3. QED BY <2>2 DEF N
<1>9. from = Step(from)
  BY <1>8
<1> HIDE DEF from
<1>10. \A i \in 1 .. N + 1 : from[i] = Digit(s, from, i)
  BY <1>9 DEF N
<1>11. from[1] = f[1]
  <2> DEFINE S == {d \in Nat : d <= N => from[N + 1 - d] = f[N + 1 - d]}
  <2>1. 0 \in S
    <3>1. N + 1 \in 1 .. N + 1 /\ N + 1 > N /\ N + 1 - 0 = N + 1
      BY <1>0
    <3>2. from[N + 1] = 0
      BY <1>10, <3>1 DEF Digit, N
    <3>3. QED BY <1>6, <3>1, <3>2
  <2>2. ASSUME NEW d \in Nat, d \in S PROVE d + 1 \in S
    <3> SUFFICES ASSUME d + 1 <= N PROVE from[N + 1 - (d + 1)] = f[N + 1 - (d + 1)]
      OBVIOUS
    <3> DEFINE i == N - d
    <3>1. i \in 1 .. N /\ i + 1 = N + 1 - d /\ i = N + 1 - (d + 1) /\ i \in 1 .. N + 1 /\ ~(i > N)
      BY <1>0
    <3> HIDE DEF i
    <3>2. from[i + 1] = f[i + 1]
      BY <1>0, <2>2, <3>1
    <3>3. from[i] = s[i] + Base * from[i + 1]
      <4>1. from[i] = Digit(s, from, i)
        BY <1>10, <3>1
      <4>2. QED BY <3>1, <4>1, Zenon DEF Digit, N
    <3>4. QED BY <1>7, <3>1, <3>2, <3>3
  <2>3. N \in S /\ N + 1 - N = 1
    <3>1. N \in S
      <4> HIDE DEF S
      <4>1. QED BY ONLY <1>0, <2>1, <2>2, Induction
    <3>2. N + 1 - N = 1
      BY <1>0
    <3>3. QED BY <3>1, <3>2
  <2>4. QED BY <1>0, <2>3
<1>12. FromLe(s) = f[1]
  BY <1>1, <1>11
<1>13. QED BY <1>6, <1>7, <1>12 DEF N

LEMMA FromLeNat == ASSUME ByteOK, NEW s \in Seq(Nat) PROVE FromLe(s) \in Nat
<1>1. PICK f \in [1 .. Len(s) + 1 -> Nat] : FromLe(s) = f[1]
  BY FromLeSolves
<1>2. 1 \in 1 .. Len(s) + 1
  OBVIOUS
<1>3. QED BY <1>1, <1>2

\* Two and four bytes.
LEMMA FromLeTwo ==
  ASSUME ByteOK, NEW s \in Seq(Nat), Len(s) = 2
  PROVE  FromLe(s) = s[1] + Base * s[2]
<1>1. PICK f \in [1 .. Len(s) + 1 -> Nat] :
           /\ FromLe(s) = f[1] /\ f[Len(s) + 1] = 0
           /\ \A i \in 1 .. Len(s) : f[i] = s[i] + Base * f[i + 1]
  BY FromLeSolves
<1>2. f[2 + 1] = 0 /\ f[2] = s[2] + Base * f[2 + 1] /\ f[1] = s[1] + Base * f[1 + 1]
  BY <1>1
<1>3. Base \in Nat /\ s[2] \in Nat /\ s[1] \in Nat
  <2>1. 1 \in 1 .. Len(s) /\ 2 \in 1 .. Len(s)
    OBVIOUS
  <2>2. \A i \in 1 .. Len(s) : s[i] \in Nat
    BY ONLY s \in Seq(Nat), ElementOfSeq
  <2>3. Base \in Nat
    BY DEF ByteOK
  <2>4. QED BY ONLY <2>1, <2>2, <2>3
<1>4. Base * 0 = 0 /\ s[2] + 0 = s[2] /\ 1 + 1 = 2
  BY <1>3
<1>5. QED BY <1>1, <1>2, <1>4

LEMMA FromLeFour ==
  ASSUME ByteOK, NEW s \in Seq(Nat), Len(s) = 4
  PROVE  FromLe(s) = s[1] + Base * (s[2] + Base * (s[3] + Base * s[4]))
<1>1. PICK f \in [1 .. Len(s) + 1 -> Nat] :
           /\ FromLe(s) = f[1] /\ f[Len(s) + 1] = 0
           /\ \A i \in 1 .. Len(s) : f[i] = s[i] + Base * f[i + 1]
  BY FromLeSolves
<1>2. /\ f[4 + 1] = 0 /\ f[4] = s[4] + Base * f[4 + 1] /\ f[3] = s[3] + Base * f[3 + 1]
      /\ f[2] = s[2] + Base * f[2 + 1] /\ f[1] = s[1] + Base * f[1 + 1]
  BY <1>1
<1>3. Base \in Nat /\ s[4] \in Nat
  <2>1. 4 \in 1 .. Len(s)
    OBVIOUS
  <2>2. \A i \in 1 .. Len(s) : s[i] \in Nat
    BY ONLY s \in Seq(Nat), ElementOfSeq
  <2>3. Base \in Nat
    BY DEF ByteOK
  <2>4. QED BY ONLY <2>1, <2>2, <2>3
<1>4. Base * 0 = 0 /\ s[4] + 0 = s[4] /\ 1 + 1 = 2 /\ 2 + 1 = 3 /\ 3 + 1 = 4
  BY <1>3
<1>5. QED BY <1>1, <1>2, <1>4

LEMMA ReverseIs ==
  ASSUME NEW s \in Seq(Nat)
  PROVE  /\ Reverse(s) \in Seq(Nat) /\ Len(Reverse(s)) = Len(s) /\ Len(s) \in Nat
         /\ \A i \in 1 .. Len(s) : Reverse(s)[i] = s[(Len(s) - i) + 1]
<1> DEFINE r == [i \in 1 .. Len(s) |-> s[(Len(s) - i) + 1]]
<1>1. \A i \in 1 .. Len(s) : (Len(s) - i) + 1 \in 1 .. Len(s)
  OBVIOUS
<1>2. r \in [1 .. Len(s) -> Nat]
  BY <1>1
<1>3. Len(s) \in Nat
  OBVIOUS
<1>4. r \in Seq(Nat) /\ Len(r) = Len(s)
  BY ONLY <1>2, <1>3, SeqDef, LenProperties
<1>5. Reverse(s) = r
  BY DEF Reverse
<1>6. QED BY <1>3, <1>4, <1>5

LEMMA ReverseTwice ==
  ASSUME NEW s \in Seq(Nat)
  PROVE  Reverse(Reverse(s)) = s
<1> DEFINE r == Reverse(s)
           q == Reverse(r)
           l == Len(s)
<1>1. r \in Seq(Nat) /\ Len(r) = l /\ l \in Nat /\ \A i \in 1 .. l : r[i] = s[(l - i) + 1]
  BY ReverseIs
<1> HIDE DEF r
<1>2. q \in Seq(Nat) /\ Len(q) = Len(r) /\ \A i \in 1 .. Len(r) : q[i] = r[(Len(r) - i) + 1]
  BY <1>1, ReverseIs
<1> HIDE DEF q, l
<1>3. ASSUME NEW i \in 1 .. l PROVE q[i] = s[i]
  <2>1. (l - i) + 1 \in 1 .. l /\ (l - ((l - i) + 1)) + 1 = i
    BY <1>1
  <2>2. QED BY <1>1, <1>2, <2>1
<1>4. q = s
  BY ONLY <1>1, <1>2, <1>3, s \in Seq(Nat), SeqEqual DEF l
<1>5. QED BY <1>4 DEF q, r

\* What fits into a big-endian length of two or four bytes.
Room(n) == IF n = 2 THEN Base * Base ELSE Word

LEMMA FunctionIsSeq ==
  ASSUME NEW n \in Nat, NEW w \in [1 .. n -> Nat]
  PROVE  w \in Seq(Nat) /\ Len(w) = n
BY SeqDef, LenProperties

LEMMA PairReadsBack ==
  ASSUME ByteOK, NEW v \in Nat
  PROVE  /\ Le(2, v) \in Seq(Nat) /\ Len(Le(2, v)) = 2
         /\ v < Base * Base => FromLe(Le(2, v)) = v
<1>1. PICK x : Shifts(x) /\ x[1] = v
  BY ShiftsExist
<1>2. Base \in Nat /\ Base >= 1
  BY DEF ByteOK
<1>3. \A i \in 1 .. 8 : x[i] \in Nat /\ x[i + 1] \in Nat /\ x[i + 1] = x[i] \div Base
  BY <1>1 DEF Shifts
<1> DEFINE w == [i \in 1 .. 2 |-> x[i] % Base]
<1>4. Le(2, v) = w
  <2>1. 2 \in 1 .. 8
    OBVIOUS
  <2>2. Le(2, x[1]) = w
    BY <1>1, <2>1, LeIs
  <2>3. QED BY <1>1, <2>2
<1>5. w \in [1 .. 2 -> Nat] /\ \A i \in 1 .. 2 : w[i] = x[i] % Base
  <2>1. ASSUME NEW i \in 1 .. 2 PROVE x[i] % Base \in Nat
    <3>1. x[i] \in Nat
      BY <1>3
    <3>2. QED BY ONLY <1>2, <3>1, Division
  <2>2. QED BY <2>1
<1> HIDE DEF w
<1>6. w \in Seq(Nat) /\ Len(w) = 2
  BY ONLY <1>5, FunctionIsSeq
<1>7. ASSUME v < Base * Base PROVE FromLe(w) = v
  <2>1. x[2] < Base
    BY <1>1, <1>2, <1>3, <1>7, ShiftBound
  <2>2. Base * 1 = Base /\ x[2] \in Nat /\ 1 \in Nat /\ x[2 + 1] = x[2] \div Base /\ x[2 + 1] \in Nat
    BY <1>2, <1>3
  <2>3. x[2] \div Base < 1
    BY ONLY <1>2, <2>1, <2>2, ShiftBound
  <2>4. x[2 + 1] = 0
    BY ONLY <2>2, <2>3
  <2>5. 2 \in 1 .. 8
    OBVIOUS
  <2>6. FromLe(w) = x[1]
    BY ONLY ByteOK, <1>1, <1>5, <1>6, <2>4, <2>5, FromLeIs
  <2>7. QED BY <1>1, <2>6
<1>8. QED BY <1>4, <1>6, <1>7

\* The host reads a big-endian length as the encoder wrote it.
LEMMA PrefixReadsBack ==
  ASSUME ByteOK, NEW n \in {2, 4}, NEW v \in Nat, v < Room(n)
  PROVE  /\ Reverse(Le(n, v)) \in Seq(Nat) /\ Len(Reverse(Le(n, v))) = n
         /\ FromLe(Reverse(Reverse(Le(n, v)))) = v
<1> DEFINE w == Le(n, v)
<1>1. w \in Seq(Nat) /\ Len(w) = n /\ FromLe(w) = v
  <2>1. CASE n = 2
    <3>1. v < Base * Base
      BY <2>1 DEF Room
    <3>2. QED BY ONLY ByteOK, v \in Nat, <2>1, <3>1, PairReadsBack
  <2>2. CASE n = 4
    <3>1. v < Word
      BY <2>2 DEF Room
    <3>2. QED BY ONLY ByteOK, v \in Nat, <2>2, <3>1, FieldReadsBack
  <2>3. QED BY <2>1, <2>2
<1> HIDE DEF w
<1>2. Reverse(w) \in Seq(Nat) /\ Len(Reverse(w)) = n /\ Reverse(Reverse(w)) = w
  BY ONLY <1>1, ReverseIs, ReverseTwice
<1>3. QED BY <1>1, <1>2 DEF w

----------------------------------------------------------------------------
(* Start codes for lengths.                                                *)

\* The length at place o and the place behind the unit of that length.
LengthAt(s, n, o) == FromLe(Reverse(SubSeq(s, o, o + n - 1)))
Behind(s, n, o)   == o + n + LengthAt(s, n, o)
Cut(s, n, o)      == LengthAt(s, n, o) = 0 \/ Behind(s, n, o) > Len(s) + 1
Started(u, r)     == <<0, 0, 0, 1>> \o u \o r

\* One step of the conversion at place o, f being what it makes of the later places.
Converts(s, n, f, o) ==
  IF o > Len(s) THEN <<>>
  ELSE IF o + n > Len(s) THEN Invalid
  ELSE IF Cut(s, n, o) \/ f[Behind(s, n, o)] = Invalid THEN Invalid
       ELSE Started(SubSeq(s, o + n, Behind(s, n, o) - 1), f[Behind(s, n, o)])

LEMMA LengthNat ==
  ASSUME ByteOK, NEW s \in Seq(Nat), NEW n \in {2, 4}, NEW o \in 1 .. Len(s), o + n <= Len(s)
  PROVE  LengthAt(s, n, o) \in Nat
<1> DEFINE p == SubSeq(s, o, o + n - 1)
<1>1. p \in Seq(Nat)
  OBVIOUS
<1> HIDE DEF p
<1>2. Reverse(p) \in Seq(Nat)
  BY <1>1, ReverseIs
<1>3. FromLe(Reverse(p)) \in Nat
  BY <1>2, FromLeNat
<1>4. QED BY <1>3 DEF LengthAt, p

LEMMA StartedIs ==
  ASSUME NEW u \in Seq(Nat), NEW r \in Seq(Int)
  PROVE  Started(u, r) \in Seq(Int)
<1>1. <<0, 0, 0, 1>> \in Seq(Int) /\ u \in Seq(Int)
  OBVIOUS
<1> DEFINE c == <<0, 0, 0, 1>>
<1>2. Started(u, r) = c \o u \o r
  BY Zenon DEF Started
<1> HIDE DEF c
<1>3. c \o u \in Seq(Int)
  BY <1>1 DEF c
<1>4. (c \o u) \o r \in Seq(Int)
  BY <1>3
<1>5. QED BY <1>2, <1>4

\* ConvertLengthPrefixed is such a recursion.
LEMMA ConvertIs ==
  ASSUME ByteOK, NEW s \in Seq(Nat), s # <<>>, NEW n \in {2, 4}
  PROVE  \E f : /\ Converted(s, n) = f[1]
                /\ \A o \in 1 .. Len(s) + 1 : f[o] = Converts(s, n, f, o)
<1> DEFINE N == Len(s)
           Step(f) == [o \in 1 .. Len(s) + 1 |-> Converts(s, n, f, o)]
           from == CHOOSE f : f = Step(f)
<1>1. Converted(s, n) = from[1]
  <2>1. Converted(s, n) = LET g[o \in 1 .. Len(s) + 1] == Converts(s, n, g, o) IN g[1]
    BY Zenon DEF Converted, Converts, LengthAt, Behind, Cut, Started
  <2>2. QED BY <2>1
<1>2. N \in Nat
  OBVIOUS
<1> DEFINE short(o) == o + n > Len(s)
           stop(o) == short(o) \/ Cut(s, n, o)
           unit(o) == SubSeq(s, o + n, Behind(s, n, o) - 1)
           nxt == [o \in 1 .. N |-> IF stop(o) THEN N + 1 ELSE Behind(s, n, o)]
           V == Seq(Int)
           val(o, v) == IF stop(o) \/ v = Invalid THEN Invalid ELSE Started(unit(o), v)
           F == [p \in (1 .. N) \X V |-> val(p[1], p[2])]
<1>3. ASSUME NEW o \in 1 .. N, ~stop(o)
      PROVE  /\ o + n <= N /\ LengthAt(s, n, o) \in Nat /\ Behind(s, n, o) \in o + n .. N + 1
             /\ Behind(s, n, o) # o + n
  <2>1. o + n <= N /\ LengthAt(s, n, o) \in Nat
    BY <1>2, <1>3, LengthNat
  <2>2. QED BY <1>2, <1>3, <2>1 DEF Cut, Behind
<1>4. Advances(nxt, N)
  <2> SUFFICES ASSUME NEW o \in 1 .. N PROVE nxt[o] \in o + 1 .. N + 1
    BY DEF Advances
  <2>1. CASE stop(o)
    BY <1>2, <2>1
  <2>2. CASE ~stop(o)
    <3>1. Behind(s, n, o) \in o + 1 .. N + 1
      BY <1>2, <1>3, <2>2
    <3> HIDE DEF stop
    <3>2. QED BY <2>2, <3>1
  <2>3. QED BY <2>1, <2>2
<1>5. Invalid \in V /\ <<>> \in V
  BY DEF Invalid
<1>6. ASSUME NEW o \in 1 .. N, NEW v \in V PROVE val(o, v) \in V
  <2>1. CASE stop(o) \/ v = Invalid
    BY <1>5, <2>1
  <2>2. CASE ~(stop(o) \/ v = Invalid)
    <3>0. /\ o + n <= N /\ Behind(s, n, o) \in o + n .. N + 1 /\ Behind(s, n, o) # o + n
      BY <1>3, <2>2
    <3>1. o + n \in 1 .. N /\ Behind(s, n, o) - 1 \in 1 .. N
      <4>1. n \in Nat
        BY ONLY n \in {2, 4}
      <4> DEFINE b == Behind(s, n, o)
      <4>2. o + n <= N /\ b \in o + n .. N + 1 /\ b # o + n
        BY ONLY <3>0
      <4> HIDE DEF b
      <4>3. b - 1 \in 1 .. N /\ o + n \in 1 .. N
        BY ONLY <1>2, <4>1, <4>2, o \in 1 .. N
      <4>4. QED BY <4>3 DEF b
    <3>2. unit(o) \in Seq(Nat)
      BY <3>1
    <3> HIDE DEF unit, stop
    <3>3. QED BY <2>2, <3>2, StartedIs
  <2>3. QED BY <2>1, <2>2
<1>7. Closed(F, N, V)
  <2> HIDE DEF val, V
  <2>1. QED BY <1>6 DEF Closed
<1> HIDE DEF nxt, F, V, N, stop, unit
<1>8. PICK f \in [1 .. N + 1 -> V] : f[N + 1] = <<>> /\ \A o \in 1 .. N : Solves(f, o, nxt, F)
  BY ONLY <1>2, <1>4, <1>5, <1>7, Recursion
<1>9. ASSUME NEW o \in 1 .. N PROVE f[o] = Converts(s, n, f, o)
  <2>1. f[o] = F[<<o, f[nxt[o]]>>]
    BY <1>8 DEF Solves
  <2>2. nxt[o] \in 1 .. N + 1
    BY <1>2, <1>4 DEF Advances
  <2>3. f[nxt[o]] \in V
    BY <1>8, <2>2
  <2>4. f[o] = val(o, f[nxt[o]])
    <3> HIDE DEF val
    <3>1. QED BY <2>1, <2>3 DEF F
  <2>5. nxt[o] = IF stop(o) THEN N + 1 ELSE Behind(s, n, o)
    BY DEF nxt
  <2>6. ~(o > Len(s))
    BY <1>2 DEF N
  <2>7. CASE stop(o)
    <3>1. o + n > Len(s) \/ Cut(s, n, o)
      BY <2>7 DEF stop
    <3>2. QED BY <2>4, <2>6, <2>7, <3>1, Zenon DEF Converts
  <2>8. CASE ~stop(o)
    <3>1. ~(o + n > Len(s)) /\ ~Cut(s, n, o)
      BY <2>8, Zenon DEF stop
    <3>2. QED BY <2>4, <2>5, <2>6, <2>8, <3>1, Zenon DEF Converts, unit
  <2>9. QED BY <2>7, <2>8
<1>10. f[N + 1] = Converts(s, n, f, N + 1)
  <2>1. N + 1 > Len(s)
    BY <1>2 DEF N
  <2>2. QED BY <1>8, <2>1, Zenon DEF Converts
<1>11. f = Step(f)
  <2>1. \A o \in 1 .. N + 1 : f[o] = Converts(s, n, f, o)
    BY <1>2, <1>9, <1>10
  <2>2. f = [o \in 1 .. N + 1 |-> Converts(s, n, f, o)]
    BY <1>8, <2>1
  <2>3. QED BY <2>2 DEF N
<1>12. from = Step(from)
  BY <1>11
<1> HIDE DEF from
<1>13. \A o \in 1 .. Len(s) + 1 : from[o] = Converts(s, n, from, o)
  BY <1>12
<1>14. QED BY <1>1, <1>13

\* Where some bytes and others after them stand.
LEMMA AtParts ==
  ASSUME NEW p \in Seq(Nat), NEW k \in Nat, NEW f \in Seq(Nat), NEW g \in Seq(Nat),
         At(p, k, Cat(f, g))
  PROVE  At(p, k, f) /\ At(p, k + Len(f), g)
<1> DEFINE c == Cat(f, g)
<1>1. /\ Len(c) = Len(f) + Len(g) /\ Len(f) \in Nat /\ Len(g) \in Nat
      /\ (\A i \in 1 .. Len(f) : c[i] = f[i]) /\ \A i \in 1 .. Len(g) : c[Len(f) + i] = g[i]
  BY CatIs
<1>2. k + Len(c) <= Len(p) /\ (\A i \in 1 .. Len(c) : p[k + i] = c[i]) /\ Len(p) \in Nat
  <2>1. At(p, k, c) /\ Len(p) \in Nat
    BY LenProperties
  <2> HIDE DEF c
  <2>2. QED BY ONLY <2>1 DEF At
<1> HIDE DEF c
<1>3. At(p, k, f)
  <2>0. \A i \in 1 .. Len(f) : i \in 1 .. Len(c)
    BY ONLY <1>1
  <2>1. \A i \in 1 .. Len(f) : p[k + i] = f[i]
    BY ONLY <1>1, <1>2, <2>0
  <2>2. k + Len(f) <= Len(p)
    BY <1>1, <1>2
  <2>3. QED BY ONLY <2>1, <2>2, k \in Nat DEF At
<1>4. At(p, k + Len(f), g)
  <2>1. ASSUME NEW i \in 1 .. Len(g) PROVE p[(k + Len(f)) + i] = g[i]
    <3>1. Len(f) + i \in 1 .. Len(c) /\ k + (Len(f) + i) = (k + Len(f)) + i
      BY <1>1
    <3>2. p[k + (Len(f) + i)] = c[Len(f) + i] /\ c[Len(f) + i] = g[i]
      BY <1>1, <1>2, <3>1
    <3>3. QED BY <3>1, <3>2
  <2>2. (k + Len(f)) + Len(g) <= Len(p) /\ k + Len(f) \in Nat
    BY <1>1, <1>2
  <2>3. QED BY ONLY <2>1, <2>2 DEF At
<1>5. QED BY <1>3, <1>4

\* The units of a coded picture behind big-endian lengths of n bytes.
Lengthened(u, n) == Reverse(Le(n, Len(u))) \o u
IsPrefixed(s, nals, n, at) ==
  /\ n \in {2, 4} /\ nals \in Seq(Seq(Nat))
  /\ \A k \in 1 .. Len(nals) : IsNal(nals[k]) /\ Len(nals[k]) < Room(n)
  /\ Lays(s, [k \in 1 .. Len(nals) |-> Lengthened(nals[k], n)], at)

LEMMA LengthenedIs ==
  ASSUME ByteOK, NEW n \in {2, 4}, NEW u \in Seq(Nat), Len(u) < Room(n)
  PROVE  /\ Reverse(Le(n, Len(u))) \in Seq(Nat) /\ Len(Reverse(Le(n, Len(u)))) = n
         /\ FromLe(Reverse(Reverse(Le(n, Len(u))))) = Len(u) /\ Len(u) \in Nat
         /\ Lengthened(u, n) = Cat(Reverse(Le(n, Len(u))), u)
         /\ Lengthened(u, n) \in Seq(Nat) /\ Len(Lengthened(u, n)) = n + Len(u)
<1>1. Len(u) \in Nat
  OBVIOUS
<1> DEFINE w == Reverse(Le(n, Len(u)))
<1>2. w \in Seq(Nat) /\ Len(w) = n /\ FromLe(Reverse(w)) = Len(u)
  BY ONLY <1>1, ByteOK, n \in {2, 4}, Len(u) < Room(n), PrefixReadsBack
<1>3. Lengthened(u, n) = Cat(w, u)
  BY Zenon DEF Lengthened, Cat
<1> HIDE DEF w
<1>4. Cat(w, u) \in Seq(Nat) /\ Len(Cat(w, u)) = Len(w) + Len(u)
  BY ONLY <1>2, u \in Seq(Nat), CatLength
<1>5. QED BY <1>1, <1>2, <1>3, <1>4 DEF w

\* An encoder's two kinds of output are such.
LEMMA CodedLays ==
  ASSUME NEW n \in {3, 4}, NEW nals \in Seq(Seq(Nat)), \A k \in 1 .. Len(nals) : IsNal(nals[k])
  PROVE  \E at : IsCoded(Coded(nals, n), nals, n, at)
<1> DEFINE ps == [k \in 1 .. Len(nals) |-> Marked(nals[k], n)]
<1>1. \A k \in 1 .. Len(nals) : nals[k] \in Seq(Nat)
  OBVIOUS
<1>2. ps \in Seq(Seq(Nat))
  <2>1. \A k \in 1 .. Len(nals) : Marked(nals[k], n) \in Seq(Nat)
    BY <1>1, MarkedIs
  <2>2. QED BY <2>1
<1>3. Coded(nals, n) = FlattenSeq(ps)
  <2>1. DOMAIN nals = 1 .. Len(nals)
    OBVIOUS
  <2>2. QED BY <2>1, Zenon DEF Coded, Marked
<1>4. \E at : Lays(FlattenSeq(ps), ps, at)
  BY <1>2, FlattenLays
<1>5. QED BY <1>3, <1>4, Zenon DEF IsCoded

LEMMA PrefixedLays ==
  ASSUME ByteOK, NEW n \in {2, 4}, NEW nals \in Seq(Seq(Nat)),
         \A k \in 1 .. Len(nals) : IsNal(nals[k]) /\ Len(nals[k]) < Room(n)
  PROVE  \E at : IsPrefixed(Prefixed(nals, n), nals, n, at)
<1> DEFINE ps == [k \in 1 .. Len(nals) |-> Lengthened(nals[k], n)]
<1>1. \A k \in 1 .. Len(nals) : nals[k] \in Seq(Nat)
  OBVIOUS
<1>2. ps \in Seq(Seq(Nat))
  <2>1. \A k \in 1 .. Len(nals) : Lengthened(nals[k], n) \in Seq(Nat)
    BY <1>1, LengthenedIs
  <2>2. QED BY <2>1
<1>3. Prefixed(nals, n) = FlattenSeq(ps)
  <2>1. DOMAIN nals = 1 .. Len(nals)
    OBVIOUS
  <2>2. QED BY <2>1, Zenon DEF Prefixed, Lengthened
<1>4. \E at : Lays(FlattenSeq(ps), ps, at)
  BY <1>2, FlattenLays
<1>5. QED BY <1>3, <1>4, Zenon DEF IsPrefixed

\* Unit k and the length before it.
Measured(s, u, n, a, b) ==
  /\ s \in Seq(Nat) /\ u \in Seq(Nat) /\ IsNal(u) /\ Len(u) \in Nat /\ Len(s) \in Nat
  /\ a \in Nat /\ b = a + n + Len(u) /\ b <= Len(s)
  /\ SubSeq(s, a + 1, a + n) = Reverse(Le(n, Len(u)))
  /\ FromLe(Reverse(SubSeq(s, a + 1, a + n))) = Len(u)
  /\ SubSeq(s, (a + n) + 1, b) = u

LEMMA PrefixedUnit ==
  ASSUME ByteOK, NEW s, NEW nals, NEW n, NEW at, IsPrefixed(s, nals, n, at),
         NEW k \in 1 .. Len(nals)
  PROVE  Measured(s, nals[k], n, at[k], at[k + 1])
<1> DEFINE ps == [i \in 1 .. Len(nals) |-> Lengthened(nals[i], n)]
           u == nals[k]
           a == at[k]
           b == at[k + 1]
           w == Reverse(Le(n, Len(u)))
           p == Lengthened(u, n)
<1>1. /\ n \in {2, 4} /\ u \in Seq(Nat) /\ IsNal(u) /\ Len(u) < Room(n)
      /\ Lays(s, ps, at) /\ Len(nals) \in Nat
  BY DEF IsPrefixed
<1>2. Len(ps) = Len(nals) /\ ps[k] = p
  BY <1>1
<1> HIDE DEF ps
<1>3. s \in Seq(Nat) /\ Len(s) \in Nat /\ b = a + Len(p) /\ At(s, a, p)
  BY <1>1, <1>2 DEF Lays
<1>4. a \in Nat /\ b \in Nat /\ b <= Len(s)
  <2>1. k \in 1 .. Len(ps) + 1 /\ k + 1 \in 1 .. Len(ps) + 1
    BY <1>1, <1>2
  <2>2. QED BY <1>1, <2>1, LaysBound
<1> HIDE DEF a, b, u
<1>5. /\ w \in Seq(Nat) /\ Len(w) = n /\ FromLe(Reverse(w)) = Len(u) /\ Len(u) \in Nat
      /\ p = Cat(w, u) /\ Len(p) = n + Len(u)
  BY ONLY ByteOK, <1>1, LengthenedIs
<1> HIDE DEF w, p
<1>6. At(s, a, w) /\ At(s, a + Len(w), u)
  <2>1. At(s, a, Cat(w, u))
    BY <1>3, <1>5
  <2>2. QED BY ONLY <1>1, <1>3, <1>4, <1>5, <2>1, AtParts
<1>7. SubSeq(s, a + 1, a + n) = w
  BY <1>3, <1>4, <1>5, <1>6, AtRead
<1>8. SubSeq(s, (a + n) + 1, (a + n) + Len(u)) = u
  <2>1. a + n \in Nat /\ At(s, a + n, u)
    BY <1>1, <1>4, <1>5, <1>6
  <2>2. QED BY ONLY <1>1, <1>3, <2>1, AtRead
<1>9. b = a + n + Len(u) /\ b = (a + n) + Len(u)
  BY <1>1, <1>3, <1>4, <1>5
<1>10. Measured(s, u, n, a, b)
  <2>1. SubSeq(s, (a + n) + 1, b) = u
    BY <1>8, <1>9
  <2>2. FromLe(Reverse(SubSeq(s, a + 1, a + n))) = Len(u)
    BY <1>5, <1>7
  <2>3. SubSeq(s, a + 1, a + n) = Reverse(Le(n, Len(u)))
    BY <1>7 DEF w
  <2>4. QED BY ONLY <1>1, <1>3, <1>4, <1>5, <1>9, <2>1, <2>2, <2>3 DEF Measured
<1>11. QED BY <1>10 DEF u, a, b

\* Four bytes of a start code.
LEMMA StartedMarks ==
  ASSUME NEW u \in Seq(Nat), NEW r
  PROVE  Started(u, r) = Marked(u, 4) \o r
<1>1. <<0, 0, 0, 1>> = [j \in 1 .. 4 |-> IF j = 4 THEN 1 ELSE 0]
  <2> DEFINE c == <<0, 0, 0, 1>>
             d == [j \in 1 .. 4 |-> IF j = 4 THEN 1 ELSE 0]
  <2>1. c \in Seq(Nat) /\ Len(c) = 4 /\ c[1] = 0 /\ c[2] = 0 /\ c[3] = 0 /\ c[4] = 1
    OBVIOUS
  <2>2. d \in Seq(Nat) /\ Len(d) = 4 /\ d[1] = 0 /\ d[2] = 0 /\ d[3] = 0 /\ d[4] = 1
    OBVIOUS
  <2> HIDE DEF c, d
  <2>3. \A j \in 1 .. 4 : c[j] = d[j]
    BY ONLY <2>1, <2>2
  <2>4. c = d
    BY ONLY <2>1, <2>2, <2>3, SeqEqual
  <2>5. QED BY <2>4 DEF c, d
<1>2. QED BY <1>1, Zenon DEF Started, Marked

\* One step of the conversion at the length of a unit.
LEMMA ConvertsAt ==
  ASSUME ByteOK, NEW s, NEW nals, NEW n, NEW at, IsPrefixed(s, nals, n, at),
         NEW k \in 1 .. Len(nals), NEW f, f[at[k + 1] + 1] # Invalid
  PROVE  Converts(s, n, f, at[k] + 1) = Cat(Marked(nals[k], 4), f[at[k + 1] + 1])
<1> DEFINE u == nals[k]
           a == at[k]
           b == at[k + 1]
           o == a + 1
<1>1. n \in {2, 4} /\ Measured(s, u, n, a, b)
  BY PrefixedUnit DEF IsPrefixed
<1>2. f[b + 1] # Invalid
  OBVIOUS
<1> HIDE DEF u, a, b
<1>3. /\ u \in Seq(Nat) /\ Len(u) \in Nat /\ Len(s) \in Nat /\ Len(u) >= 1
      /\ a \in Nat /\ b = a + n + Len(u) /\ b <= Len(s)
      /\ FromLe(Reverse(SubSeq(s, a + 1, a + n))) = Len(u) /\ SubSeq(s, (a + n) + 1, b) = u
  BY <1>1 DEF Measured, IsNal
<1>4. o + n - 1 = a + n /\ o + n = (a + n) + 1 /\ ~(o > Len(s)) /\ ~(o + n > Len(s))
      /\ o + n + Len(u) = b + 1 /\ (b + 1) - 1 = b
  BY <1>1, <1>3
<1>5. LengthAt(s, n, o) = Len(u)
  BY <1>3, <1>4, Zenon DEF LengthAt
<1>6. Behind(s, n, o) = b + 1
  BY <1>4, <1>5, Zenon DEF Behind
<1>7. ~Cut(s, n, o)
  <2>1. ~(b + 1 > Len(s) + 1) /\ Len(u) # 0
    BY <1>3
  <2>2. QED BY <1>5, <1>6, <2>1, Zenon DEF Cut
<1>8. SubSeq(s, o + n, Behind(s, n, o) - 1) = u
  BY <1>3, <1>4, <1>6, Zenon
<1>9. Converts(s, n, f, o) = Started(u, f[b + 1])
  BY <1>2, <1>4, <1>6, <1>7, <1>8, Zenon DEF Converts
<1>10. Started(u, f[b + 1]) = Marked(u, 4) \o f[b + 1]
  BY <1>3, StartedMarks
<1>11. QED BY <1>9, <1>10, Zenon DEF u, a, b, o, Cat

\* Whatever the units, their lengths become start codes (ConvertLengthPrefixed).
LEMMA ConvertedIs ==
  ASSUME ByteOK, NEW n \in {2, 4}, NEW nals \in Seq(Seq(Nat)), nals # <<>>,
         \A k \in 1 .. Len(nals) : IsNal(nals[k]) /\ Len(nals[k]) < Room(n)
  PROVE  Converted(Prefixed(nals, n), n) = Coded(nals, 4)
<1> DEFINE s == Prefixed(nals, n)
           c == Coded(nals, 4)
           m == Len(nals)
           ps == [k \in 1 .. m |-> Lengthened(nals[k], n)]
           qs == [k \in 1 .. m |-> Marked(nals[k], 4)]
<1>1. PICK at : IsPrefixed(s, nals, n, at)
  BY PrefixedLays
<1>2. PICK ct : IsCoded(c, nals, 4, ct)
  BY CodedLays
<1>3. m \in Nat /\ m >= 1 /\ Len(ps) = m /\ Len(qs) = m /\ \A k \in 1 .. m : qs[k] = Marked(nals[k], 4)
  <2>1. m \in Nat /\ m # 0
    BY EmptySeq
  <2>2. QED BY <2>1
<1>4. Lays(s, ps, at) /\ Lays(c, qs, ct)
  BY <1>1, <1>2 DEF IsPrefixed, IsCoded
<1> HIDE DEF s, c, ps, qs, m
<1>5. /\ at[1] = 0 /\ at[m + 1] = Len(s) /\ ct[1] = 0 /\ ct[m + 1] = Len(c)
      /\ s \in Seq(Nat) /\ c \in Seq(Nat) /\ Len(s) \in Nat /\ Len(c) \in Nat
  <2>1. at[1] = 0 /\ at[m + 1] = Len(s) /\ s \in Seq(Nat)
    BY ONLY <1>3, <1>4, Zenon DEF Lays
  <2>2. ct[1] = 0 /\ ct[m + 1] = Len(c) /\ c \in Seq(Nat)
    BY ONLY <1>3, <1>4, Zenon DEF Lays
  <2>3. QED BY ONLY <2>1, <2>2, LenProperties
<1>6. \A k \in 1 .. m + 1 : at[k] \in Nat /\ at[k] <= Len(s) /\ ct[k] \in Nat /\ ct[k] <= Len(c)
  BY <1>3, <1>4, LaysBound
<1>7. s # <<>>
  <2>1. Measured(s, nals[1], n, at[1], at[1 + 1])
    BY <1>1, <1>3, PrefixedUnit DEF m
  <2> DEFINE u == nals[1]
             b == at[1 + 1]
  <2> HIDE DEF u, b
  <2>2. Len(u) >= 1 /\ Len(u) \in Nat /\ b = 0 + n + Len(u) /\ b <= Len(s)
    <3>1. Measured(s, u, n, 0, b)
      BY <1>5, <2>1 DEF u, b
    <3>2. QED BY ONLY <3>1 DEF Measured, IsNal
  <2>4. Len(s) >= 1
    BY ONLY <1>5, <2>2, n \in {2, 4}
  <2>5. Len(<<>>) = 0
    OBVIOUS
  <2>6. QED BY <2>4, <2>5
<1>8. PICK f : Converted(s, n) = f[1] /\ \A o \in 1 .. Len(s) + 1 : f[o] = Converts(s, n, f, o)
  BY <1>5, <1>7, ConvertIs
<1> DEFINE Same(k) == f[at[k] + 1] = Rest(c, ct[k])
           S == {d \in Nat : d <= m => Same(m + 1 - d)}
<1>9. 0 \in S
  <2>1. Len(s) + 1 \in 1 .. Len(s) + 1 /\ Len(s) + 1 > Len(s)
    BY <1>5
  <2>2. f[Len(s) + 1] = <<>>
    BY <1>8, <2>1 DEF Converts
  <2>3. Rest(c, Len(c)) = <<>>
    <3>1. Len(c) <= Len(c) /\ Len(c) - Len(c) = 0
      BY <1>5
    <3>2. Rest(c, Len(c)) \in Seq(Nat) /\ Len(Rest(c, Len(c))) = 0
      BY ONLY <1>5, <3>1, RestIs
    <3>3. QED BY <3>2
  <2>4. m + 1 - 0 = m + 1
    BY <1>3
  <2>5. QED BY <1>5, <2>2, <2>3, <2>4
<1>10. ASSUME NEW d \in Nat, d \in S PROVE d + 1 \in S
  <2> SUFFICES ASSUME d + 1 <= m PROVE Same(m + 1 - (d + 1))
    OBVIOUS
  <2> DEFINE k == m - d
  <2>1. k \in 1 .. m /\ k + 1 = m + 1 - d /\ k = m + 1 - (d + 1) /\ k \in 1 .. m + 1
    BY <1>3
  <2> HIDE DEF k
  <2>2. f[at[k + 1] + 1] = Rest(c, ct[k + 1])
    <3>1. Same(m + 1 - d)
      BY <1>3, <1>10
    <3>2. Same(k + 1)
      BY ONLY <2>1, <3>1, Zenon
    <3>3. QED BY <3>2
  <2>3. /\ Rest(c, ct[k]) = Cat(qs[k], Rest(c, ct[k + 1])) /\ Rest(c, ct[k + 1]) \in Seq(Nat)
    <3>1. k \in 1 .. Len(qs)
      BY <1>3, <2>1
    <3>2. QED BY ONLY <1>4, <3>1, LaysRest
  <2>4. Rest(c, ct[k + 1]) # Invalid
    <3>1. Invalid \notin Seq(Nat)
      <4>1. Len(Invalid) = 1 /\ Invalid[1] = -1 /\ -1 \notin Nat
        BY DEF Invalid
      <4>2. SUFFICES ASSUME Invalid \in Seq(Nat) PROVE FALSE
        OBVIOUS
      <4>3. Invalid[1] \in Nat
        <5>1. 1 \in 1 .. Len(Invalid)
          BY ONLY <4>1
        <5>2. QED BY ONLY <4>2, <5>1, ElementOfSeq
      <4>4. QED BY <4>1, <4>3
    <3>2. QED BY <2>3, <3>1
  <2>5. Converts(s, n, f, at[k] + 1) = Cat(Marked(nals[k], 4), f[at[k + 1] + 1])
    <3>1. k \in 1 .. Len(nals) /\ f[at[k + 1] + 1] # Invalid
      BY <2>1, <2>2, <2>4 DEF m
    <3>2. QED BY ONLY ByteOK, <1>1, <3>1, ConvertsAt
  <2>6. at[k] + 1 \in 1 .. Len(s) + 1
    <3>1. at[k] \in Nat /\ at[k] <= Len(s)
      BY ONLY <1>6, <2>1, Zenon
    <3>2. Len(s) \in Nat
      BY ONLY <1>5
    <3>3. QED BY ONLY <3>1, <3>2
  <2>7. f[at[k] + 1] = Converts(s, n, f, at[k] + 1)
    BY <1>8, <2>6
  <2>8. qs[k] = Marked(nals[k], 4)
    BY <1>3, <2>1
  <2>9. Same(k)
    BY <2>2, <2>3, <2>5, <2>7, <2>8, Zenon
  <2>10. QED BY <2>1, <2>9
<1>11. m \in S /\ m + 1 - m = 1
  <2>1. m \in S
    <3> HIDE DEF S
    <3>1. QED BY ONLY <1>3, <1>9, <1>10, Induction
  <2>2. m + 1 - m = 1
    BY <1>3
  <2>3. QED BY <2>1, <2>2
<1>12. Same(1)
  BY <1>3, <1>11
<1>13. f[1] = Rest(c, 0)
  BY <1>5, <1>12
<1>14. Rest(c, 0) = c
  <2>1. 0 \in Nat /\ 0 <= Len(c) /\ Len(c) - 0 = Len(c)
    BY <1>5
  <2>2. Rest(c, 0) \in Seq(Nat) /\ Len(Rest(c, 0)) = Len(c) /\ \A i \in 1 .. Len(c) : Rest(c, 0)[i] = c[0 + i]
    BY ONLY <1>5, <2>1, RestIs
  <2>3. \A i \in 1 .. Len(c) : 0 + i = i
    OBVIOUS
  <2>4. \A i \in 1 .. Len(c) : Rest(c, 0)[i] = c[i]
    BY ONLY <2>2, <2>3
  <2>5. QED BY ONLY <1>5, <2>2, <2>4, SeqEqual
<1>15. QED BY <1>8, <1>13, <1>14 DEF s, c

\* The first two and four bytes as big-endian numbers.
LEMMA LengthTwo ==
  ASSUME ByteOK, NEW s \in Seq(Nat), Len(s) >= 2
  PROVE  s[1] \in Nat /\ s[2] \in Nat /\ LengthAt(s, 2, 1) = s[2] + Base * s[1]
<1> DEFINE p == SubSeq(s, 1, 1 + 1)
           r == Reverse(p)
<1>1. p \in Seq(Nat) /\ Len(p) = 2 /\ p[1] = s[1] /\ p[2] = s[2]
  <2>1. 1 \in Nat /\ 1 + 1 <= Len(s)
    OBVIOUS
  <2>2. p \in Seq(Nat) /\ Len(p) = 1 + 1 /\ \A j \in 1 .. 1 + 1 : p[j] = s[1 + j - 1]
    BY ONLY s \in Seq(Nat), <2>1, SubIs
  <2> HIDE DEF p
  <2>3. 1 + 1 - 1 = 1 /\ 1 + 2 - 1 = 2 /\ 1 \in 1 .. 1 + 1 /\ 2 \in 1 .. 1 + 1 /\ 1 + 1 = 2
    OBVIOUS
  <2>4. QED BY ONLY <2>2, <2>3
<1> HIDE DEF p
<1>2. r \in Seq(Nat) /\ Len(r) = 2 /\ r[1] = s[2] /\ r[2] = s[1]
  <2>1. r \in Seq(Nat) /\ Len(r) = Len(p) /\ \A i \in 1 .. Len(p) : r[i] = p[(Len(p) - i) + 1]
    BY ONLY <1>1, ReverseIs
  <2> HIDE DEF r
  <2>2. (2 - 1) + 1 = 2 /\ (2 - 2) + 1 = 1 /\ 1 \in 1 .. 2 /\ 2 \in 1 .. 2
    OBVIOUS
  <2>3. QED BY ONLY <1>1, <2>1, <2>2
<1> HIDE DEF r
<1>3. FromLe(r) = r[1] + Base * r[2]
  BY ONLY ByteOK, <1>2, FromLeTwo
<1>4. 1 + 2 - 1 = 1 + 1
  OBVIOUS
<1>5. LengthAt(s, 2, 1) = FromLe(r)
  BY <1>4, Zenon DEF LengthAt, r, p
<1>6. s[1] \in Nat /\ s[2] \in Nat
  <2>1. 1 \in 1 .. Len(s) /\ 2 \in 1 .. Len(s)
    OBVIOUS
  <2>2. QED BY ONLY s \in Seq(Nat), <2>1, ElementOfSeq
<1>7. QED BY ONLY <1>2, <1>3, <1>5, <1>6

LEMMA LengthFour ==
  ASSUME ByteOK, NEW s \in Seq(Nat), Len(s) >= 4
  PROVE  /\ s[1] \in Nat /\ s[2] \in Nat /\ s[3] \in Nat /\ s[4] \in Nat
         /\ LengthAt(s, 4, 1) = s[4] + Base * (s[3] + Base * (s[2] + Base * s[1]))
<1> DEFINE p == SubSeq(s, 1, 1 + 3)
           r == Reverse(p)
<1>1. p \in Seq(Nat) /\ Len(p) = 4 /\ p[1] = s[1] /\ p[2] = s[2] /\ p[3] = s[3] /\ p[4] = s[4]
  <2>1. 1 \in Nat /\ 3 \in Nat /\ 1 + 3 <= Len(s)
    OBVIOUS
  <2>2. p \in Seq(Nat) /\ Len(p) = 3 + 1 /\ \A j \in 1 .. 3 + 1 : p[j] = s[1 + j - 1]
    BY ONLY s \in Seq(Nat), <2>1, SubIs
  <2> HIDE DEF p
  <2>3. /\ 1 + 1 - 1 = 1 /\ 1 + 2 - 1 = 2 /\ 1 + 3 - 1 = 3 /\ 1 + 4 - 1 = 4 /\ 3 + 1 = 4
        /\ 1 \in 1 .. 4 /\ 2 \in 1 .. 4 /\ 3 \in 1 .. 4 /\ 4 \in 1 .. 4
    OBVIOUS
  <2>4. QED BY ONLY <2>2, <2>3
<1> HIDE DEF p
<1>2. r \in Seq(Nat) /\ Len(r) = 4 /\ r[1] = s[4] /\ r[2] = s[3] /\ r[3] = s[2] /\ r[4] = s[1]
  <2>1. r \in Seq(Nat) /\ Len(r) = Len(p) /\ \A i \in 1 .. Len(p) : r[i] = p[(Len(p) - i) + 1]
    BY ONLY <1>1, ReverseIs
  <2> HIDE DEF r
  <2>2. /\ (4 - 1) + 1 = 4 /\ (4 - 2) + 1 = 3 /\ (4 - 3) + 1 = 2 /\ (4 - 4) + 1 = 1
        /\ 1 \in 1 .. 4 /\ 2 \in 1 .. 4 /\ 3 \in 1 .. 4 /\ 4 \in 1 .. 4
    OBVIOUS
  <2>3. QED BY ONLY <1>1, <2>1, <2>2
<1> HIDE DEF r
<1>3. FromLe(r) = r[1] + Base * (r[2] + Base * (r[3] + Base * r[4]))
  BY ONLY ByteOK, <1>2, FromLeFour
<1>4. 1 + 4 - 1 = 1 + 3
  OBVIOUS
<1>5. LengthAt(s, 4, 1) = FromLe(r)
  BY <1>4, Zenon DEF LengthAt, r, p
<1>6. s[1] \in Nat /\ s[2] \in Nat /\ s[3] \in Nat /\ s[4] \in Nat
  <2>1. 1 \in 1 .. Len(s) /\ 2 \in 1 .. Len(s) /\ 3 \in 1 .. Len(s) /\ 4 \in 1 .. Len(s)
    OBVIOUS
  <2>2. QED BY ONLY s \in Seq(Nat), <2>1, ElementOfSeq
<1>7. QED BY ONLY <1>2, <1>3, <1>5, <1>6, Zenon

\* The first unit and the length before it.
LEMMA FirstLength ==
  ASSUME ByteOK, NEW n \in {2, 4}, NEW nals \in Seq(Seq(Nat)), nals # <<>>,
         \A k \in 1 .. Len(nals) : IsNal(nals[k]) /\ Len(nals[k]) < Room(n)
  PROVE  /\ Prefixed(nals, n) \in Seq(Nat) /\ Len(Prefixed(nals, n)) \in Nat
         /\ Len(nals[1]) \in Nat /\ Len(nals[1]) >= 1
         /\ Len(Prefixed(nals, n)) >= n + Len(nals[1])
         /\ LengthAt(Prefixed(nals, n), n, 1) = Len(nals[1])
         /\ SubSeq(Prefixed(nals, n), 1, n) = Reverse(Le(n, Len(nals[1])))
<1> DEFINE s == Prefixed(nals, n)
           u == nals[1]
<1>1. PICK at : IsPrefixed(s, nals, n, at)
  BY PrefixedLays
<1>2. 1 \in 1 .. Len(nals)
  BY EmptySeq
<1>3. at[1] = 0
  BY <1>1 DEF IsPrefixed, Lays
<1> DEFINE b == at[1 + 1]
<1>4. Measured(s, u, n, 0, b)
  <2>1. Measured(s, u, n, at[1], b)
    BY <1>1, <1>2, PrefixedUnit
  <2>2. QED BY <1>3, <2>1
<1> HIDE DEF s, u, b
<1>5. /\ s \in Seq(Nat) /\ Len(s) \in Nat /\ Len(u) \in Nat /\ Len(u) >= 1
      /\ b = 0 + n + Len(u) /\ b <= Len(s)
      /\ FromLe(Reverse(SubSeq(s, 0 + 1, 0 + n))) = Len(u)
      /\ SubSeq(s, 0 + 1, 0 + n) = Reverse(Le(n, Len(u)))
  BY ONLY <1>4 DEF Measured, IsNal
<1>6. 0 + 1 = 1 /\ 0 + n = n /\ 1 + n - 1 = n /\ Len(s) >= n + Len(u)
  BY ONLY <1>5, n \in {2, 4}
<1>7. LengthAt(s, n, 1) = Len(u)
  BY ONLY <1>5, <1>6, Zenon DEF LengthAt
<1>8. SubSeq(s, 1, n) = Reverse(Le(n, Len(u)))
  BY ONLY <1>5, <1>6, Zenon
<1>9. QED BY <1>5, <1>6, <1>7, <1>8 DEF s, u

\* Lengths of two bytes are not taken for ones of four: such a length would go beyond the end.
LEMMA TwoNotFour ==
  ASSUME ByteOK, NEW nals \in Seq(Seq(Nat)), nals # <<>>,
         \A k \in 1 .. Len(nals) : IsNal(nals[k]) /\ Len(nals[k]) < Room(2),
         Len(Prefixed(nals, 2)) <= Base * (Base * Len(nals[1]))
  PROVE  Converted(Prefixed(nals, 2), 4) = Invalid
<1> DEFINE s == Prefixed(nals, 2)
           l == Len(nals[1])
<1>1. /\ s \in Seq(Nat) /\ Len(s) \in Nat /\ l \in Nat /\ l >= 1 /\ Len(s) >= 2 + l
      /\ LengthAt(s, 2, 1) = l
  BY FirstLength
<1>2. Len(s) <= Base * (Base * l) /\ Base \in Nat
  BY DEF ByteOK
<1> HIDE DEF s, l
<1>3. s # <<>>
  <2>1. Len(<<>>) = 0
    OBVIOUS
  <2>2. QED BY <1>1, <2>1
<1>4. PICK f : Converted(s, 4) = f[1] /\ \A o \in 1 .. Len(s) + 1 : f[o] = Converts(s, 4, f, o)
  <2>1. 4 \in {2, 4}
    OBVIOUS
  <2>2. QED BY ONLY ByteOK, <1>1, <1>3, <2>1, ConvertIs
<1>5. f[1] = Converts(s, 4, f, 1) /\ ~(1 > Len(s))
  BY <1>1, <1>4
<1>6. CASE 1 + 4 > Len(s)
  BY <1>4, <1>5, <1>6, Zenon DEF Converts, s
<1>7. CASE ~(1 + 4 > Len(s))
  <2>1. Len(s) >= 4 /\ Len(s) >= 2
    BY ONLY <1>1, <1>7
  <2>2. /\ s[1] \in Nat /\ s[2] \in Nat /\ s[3] \in Nat /\ s[4] \in Nat
        /\ LengthAt(s, 4, 1) = s[4] + Base * (s[3] + Base * (s[2] + Base * s[1]))
        /\ l = s[2] + Base * s[1]
    <3>1. /\ s[1] \in Nat /\ s[2] \in Nat /\ s[3] \in Nat /\ s[4] \in Nat
          /\ LengthAt(s, 4, 1) = s[4] + Base * (s[3] + Base * (s[2] + Base * s[1]))
      BY ONLY ByteOK, <1>1, <2>1, LengthFour
    <3>2. LengthAt(s, 2, 1) = s[2] + Base * s[1]
      BY ONLY ByteOK, <1>1, <2>1, LengthTwo
    <3>3. QED BY ONLY <1>1, <3>1, <3>2, Zenon
  <2>3. LengthAt(s, 4, 1) = s[4] + Base * (s[3] + Base * l)
    BY ONLY <2>2, Zenon
  <2>4. ASSUME NEW x \in Nat, NEW y \in Nat PROVE x + Base * (y + Base * l) >= Base * (Base * l)
    <3> DEFINE q == Base * l
    <3>1. q \in Nat
      BY <1>1, <1>2
    <3> HIDE DEF q
    <3>2. Base * (y + q) = Base * y + Base * q /\ Base * y \in Nat /\ Base * q \in Nat
      BY ONLY <1>2, <3>1, y \in Nat
    <3>3. x + Base * (y + q) >= Base * q
      BY ONLY <3>2, x \in Nat
    <3>4. QED BY <3>3 DEF q
  <2>5. LengthAt(s, 4, 1) >= Base * (Base * l)
    BY ONLY <2>2, <2>3, <2>4
  <2>6. LengthAt(s, 4, 1) \in Nat
    <3>1. 4 \in {2, 4} /\ 1 \in 1 .. Len(s) /\ 1 + 4 <= Len(s)
      BY ONLY <1>1, <1>7
    <3>2. QED BY ONLY ByteOK, <1>1, <3>1, LengthNat
  <2>7. Base * (Base * l) \in Nat
    BY <1>1, <1>2
  <2>8. Behind(s, 4, 1) > Len(s) + 1
    BY ONLY <1>1, <1>2, <2>5, <2>6, <2>7 DEF Behind
  <2>9. Cut(s, 4, 1)
    BY <2>8 DEF Cut
  <2>10. QED BY <1>4, <1>5, <1>7, <2>9, Zenon DEF Converts, s
<1>8. QED BY <1>6, <1>7 DEF s

\* A length of four bytes that is neither one nor between Base and twice Base is no start code,
\* and a length of two bytes never is.
LEMMA FourNoCode ==
  ASSUME ByteOK, NEW nals \in Seq(Seq(Nat)), nals # <<>>,
         \A k \in 1 .. Len(nals) : IsNal(nals[k]) /\ Len(nals[k]) < Room(4),
         Len(nals[1]) \notin {1} \cup (Base .. 2 * Base - 1)
  PROVE  ~HasAnnexBStartCode(Prefixed(nals, 4))
<1> DEFINE s == Prefixed(nals, 4)
           l == Len(nals[1])
           w == Le(4, l)
           r == Reverse(w)
<1>1. /\ s \in Seq(Nat) /\ Len(s) \in Nat /\ l \in Nat /\ l >= 1 /\ Len(s) >= 4 + l
      /\ LengthAt(s, 4, 1) = l /\ SubSeq(s, 1, 4) = r
  BY FirstLength
<1>2. l \notin {1} \cup (Base .. 2 * Base - 1)
  OBVIOUS
<1> HIDE DEF s, l
<1>0. Base \in Nat /\ Base >= 2
  BY DEF ByteOK
<1>3. w \in Seq(Nat) /\ Len(w) = 4 /\ w[1] < Base
  <2>1. PICK x : Shifts(x) /\ x[1] = l
    BY <1>1, ShiftsExist
  <2>2. Le(4, x[1]) = [i \in 1 .. 4 |-> x[i] % Base]
    <3>1. 4 \in 1 .. 8
      OBVIOUS
    <3>2. QED BY ONLY ByteOK, <2>1, <3>1, LeIs
  <2>3. w[1] = l % Base
    BY <2>1, <2>2
  <2>4. l % Base < Base
    BY <1>0, <1>1
  <2>5. w \in Seq(Nat) /\ Len(w) = 4
    BY ONLY ByteOK, <1>1, FieldReadsBack
  <2>6. QED BY <2>3, <2>4, <2>5
<1> HIDE DEF w
<1>4. r[4] = w[1]
  <2>1. \A i \in 1 .. Len(w) : r[i] = w[(Len(w) - i) + 1]
    BY ONLY <1>3, ReverseIs
  <2>2. 4 \in 1 .. 4 /\ (4 - 4) + 1 = 1
    OBVIOUS
  <2>3. QED BY ONLY <1>3, <2>1, <2>2
<1> HIDE DEF r
<1>5. s[4] = r[4]
  <2>1. 1 \in Nat /\ 1 >= 1 /\ 3 \in Nat /\ 1 + 3 <= Len(s)
    BY ONLY <1>1
  <2>2. \A j \in 1 .. 3 + 1 : SubSeq(s, 1, 1 + 3)[j] = s[1 + j - 1]
    BY ONLY <1>1, <2>1, SubIs
  <2>3. 4 \in 1 .. 3 + 1 /\ 1 + 3 = 4 /\ 1 + 4 - 1 = 4
    OBVIOUS
  <2>4. QED BY ONLY <1>1, <2>2, <2>3
<1>6. /\ s[1] \in Nat /\ s[2] \in Nat /\ s[3] \in Nat /\ s[4] \in Nat
      /\ l = s[4] + Base * (s[3] + Base * (s[2] + Base * s[1]))
  <2>1. Len(s) >= 4
    BY ONLY <1>1
  <2>2. QED BY ONLY ByteOK, <1>1, <2>1, LengthFour
<1>7. s[4] < Base
  BY ONLY <1>3, <1>4, <1>5
<1>8. ~Short(s, 1)
  <2>1. SUFFICES ASSUME Short(s, 1) PROVE FALSE
    OBVIOUS
  <2>2. s[1] = 0 /\ s[2] = 0 /\ s[3] = 1
    <3>1. 1 + 1 = 2 /\ 1 + 2 = 3
      OBVIOUS
    <3>2. QED BY ONLY <2>1, <3>1 DEF Short
  <2>3. l = s[4] + Base
    <3>1. Base * 0 = 0 /\ Base * 1 = Base
      BY ONLY <1>0
    <3>2. s[2] + Base * s[1] = 0
      BY ONLY <1>0, <2>2, <3>1
    <3>3. s[3] + Base * (s[2] + Base * s[1]) = 1
      BY ONLY <2>2, <3>1, <3>2
    <3>4. QED BY ONLY <1>6, <3>1, <3>3
  <2>4. s[4] \in Nat /\ s[4] < Base
    BY ONLY <1>6, <1>7
  <2>5. QED BY ONLY <1>0, <1>2, <2>3, <2>4
<1>9. ~Long(s, 1)
  <2>1. SUFFICES ASSUME Long(s, 1) PROVE FALSE
    OBVIOUS
  <2>2. s[1] = 0 /\ s[2] = 0 /\ s[3] = 0 /\ s[4] = 1
    <3>1. 1 + 1 = 2 /\ 1 + 2 = 3 /\ 1 + 3 = 4
      OBVIOUS
    <3>2. QED BY ONLY <2>1, <3>1 DEF Long
  <2>3. l = 1
    BY ONLY <1>0, <1>6, <2>2
  <2>4. QED BY ONLY <1>2, <2>3
<1>10. StartCode(s, 1) = 0
  <2>1. 1 \in Nat /\ 1 >= 1
    OBVIOUS
  <2>2. QED BY ONLY <1>1, <1>8, <1>9, <2>1, StartCodeIs
<1>11. QED BY <1>10 DEF HasAnnexBStartCode, s

LEMMA TwoNoCode ==
  ASSUME ByteOK, NEW nals \in Seq(Seq(Nat)), nals # <<>>,
         \A k \in 1 .. Len(nals) : IsNal(nals[k]) /\ Len(nals[k]) < Room(2)
  PROVE  ~HasAnnexBStartCode(Prefixed(nals, 2))
<1> DEFINE s == Prefixed(nals, 2)
           l == Len(nals[1])
<1>1. /\ s \in Seq(Nat) /\ Len(s) \in Nat /\ l \in Nat /\ l >= 1 /\ Len(s) >= 2 + l
      /\ LengthAt(s, 2, 1) = l
  BY FirstLength
<1> HIDE DEF s, l
<1>2. Base \in Nat
  BY DEF ByteOK
<1>3. l = s[2] + Base * s[1]
  <2>1. Len(s) >= 2
    BY ONLY <1>1
  <2>2. QED BY ONLY ByteOK, <1>1, <2>1, LengthTwo
<1>4. ~(s[1] = 0 /\ s[1 + 1] = 0)
  <2>1. 1 + 1 = 2
    OBVIOUS
  <2>2. QED BY ONLY <1>1, <1>2, <1>3, <2>1
<1>5. StartCode(s, 1) = 0
  <2>1. 1 \in Nat /\ 1 >= 1
    OBVIOUS
  <2>2. ~Short(s, 1) /\ ~Long(s, 1)
    BY ONLY <1>4, Zenon DEF Short, Long
  <2>3. QED BY ONLY <1>1, <2>1, <2>2, StartCodeIs
<1>6. QED BY <1>5 DEF HasAnnexBStartCode, s

\* When lengths of two and of four bytes are told from each other and from a start code: all
\* units fit, a length of two bytes and what follows it are not a length of four within the
\* payload, and one of four is not the bytes 0, 0, 1 or 0, 0, 0, 1.
InTwoBytes(nals) ==
  /\ \A k \in 1 .. Len(nals) : Len(nals[k]) < Room(2)
  /\ Len(Prefixed(nals, 2)) <= Base * (Base * Len(nals[1]))
InFourBytes(nals) ==
  /\ \A k \in 1 .. Len(nals) : Len(nals[k]) < Room(4)
  /\ Len(nals[1]) \notin {1} \cup (Base .. 2 * Base - 1)

\* However many units there are and however the encoder delimits them, the host sends them
\* unchanged and in order, with start codes (SendAnnexB and ConvertLengthPrefixed, main.cpp).
THEOREM SentWithStartCodes ==
  ASSUME ByteOK, NEW nals \in Seq(Seq(Nat)), nals # <<>>,
         \A k \in 1 .. Len(nals) : IsNal(nals[k])
  PROVE  /\ \A n \in {3, 4} : SendAnnexB(Coded(nals, n)) = Coded(nals, n)
         /\ InTwoBytes(nals) => SendAnnexB(Prefixed(nals, 2)) = Coded(nals, 4)
         /\ InFourBytes(nals) => SendAnnexB(Prefixed(nals, 4)) = Coded(nals, 4)
<1>1. ASSUME NEW n \in {3, 4} PROVE SendAnnexB(Coded(nals, n)) = Coded(nals, n)
  <2> DEFINE s == Coded(nals, n)
  <2>1. PICK at : IsCoded(s, nals, n, at)
    BY CodedLays
  <2>2. 1 \in 1 .. Len(nals)
    BY EmptySeq
  <2>3. at[1] = 0
    BY <2>1 DEF IsCoded, Lays
  <2> DEFINE u == nals[1]
             a == at[1]
             b == at[1 + 1]
  <2>4. Unit(s, u, n, a, b)
    BY <2>1, <2>2, CodedUnit
  <2> HIDE DEF s, u, a, b
  <2>5. StartCode(s, 1) = n
    <3>1. Len(u) \in Nat /\ Len(u) >= 1
      BY ONLY <2>4 DEF Unit, IsNal
    <3>2. 1 \in 1 .. n + Len(u)
      BY ONLY <3>1, n \in {3, 4}
    <3>0. a \in Nat
      BY <2>3 DEF a
    <3>3. a + 1 = 1
      BY <2>3 DEF a
    <3>4. InCode(s, n, a, 1)
      BY ONLY <2>4, <3>0, <3>2, n \in {3, 4}, InCodes
    <3>5. QED BY ONLY <3>3, <3>4 DEF InCode, CodeIn
  <2>6. HasAnnexBStartCode(s)
    BY ONLY <2>5, n \in {3, 4} DEF HasAnnexBStartCode
  <2>7. QED BY <2>6, Zenon DEF SendAnnexB, s
<1>2. ASSUME InTwoBytes(nals) PROVE SendAnnexB(Prefixed(nals, 2)) = Coded(nals, 4)
  <2> DEFINE s == Prefixed(nals, 2)
  <2>1. \A k \in 1 .. Len(nals) : IsNal(nals[k]) /\ Len(nals[k]) < Room(2)
    BY <1>2 DEF InTwoBytes
  <2>2. Len(Prefixed(nals, 2)) <= Base * (Base * Len(nals[1]))
    BY <1>2 DEF InTwoBytes
  <2>3. ~HasAnnexBStartCode(s)
    BY <2>1, TwoNoCode
  <2>4. Converted(s, 4) = Invalid
    BY <2>1, <2>2, TwoNotFour
  <2>5. Converted(s, 2) = Coded(nals, 4)
    <3>1. 2 \in {2, 4}
      OBVIOUS
    <3>2. QED BY <2>1, <3>1, ConvertedIs
  <2>6. QED BY <2>3, <2>4, <2>5, Zenon DEF SendAnnexB, ConvertLengthPrefixed
<1>3. ASSUME InFourBytes(nals) PROVE SendAnnexB(Prefixed(nals, 4)) = Coded(nals, 4)
  <2> DEFINE s == Prefixed(nals, 4)
             c == Coded(nals, 4)
  <2>1. /\ \A k \in 1 .. Len(nals) : IsNal(nals[k]) /\ Len(nals[k]) < Room(4)
        /\ Len(nals[1]) \notin {1} \cup (Base .. 2 * Base - 1)
    BY <1>3 DEF InFourBytes
  <2>2. ~HasAnnexBStartCode(s)
    BY <2>1, FourNoCode
  <2>3. Converted(s, 4) = c
    <3>1. 4 \in {2, 4}
      OBVIOUS
    <3>2. QED BY <2>1, <3>1, ConvertedIs
  <2>4. c # Invalid
    <3>1. 4 \in {3, 4}
      OBVIOUS
    <3>2. PICK at : IsCoded(c, nals, 4, at)
      BY <3>1, CodedLays
    <3>3. c \in Seq(Nat)
      BY <3>2 DEF IsCoded, Lays
    <3> HIDE DEF c
    <3>4. Len(Invalid) = 1 /\ Invalid[1] = -1 /\ -1 \notin Nat
      BY DEF Invalid
    <3>5. SUFFICES ASSUME Invalid \in Seq(Nat) PROVE FALSE
      BY <3>3
    <3>6. 1 \in 1 .. Len(Invalid)
      BY ONLY <3>4
    <3>7. Invalid[1] \in Nat
      BY ONLY <3>5, <3>6, ElementOfSeq
    <3>8. QED BY <3>4, <3>7
  <2>5. QED BY <2>2, <2>3, <2>4, Zenon DEF SendAnnexB, ConvertLengthPrefixed
<1>4. QED BY <1>1, <1>2, <1>3

\* What an encoder may hand the host for some units.
IsOutput(out, nals) ==
  \/ \E n \in {3, 4} : out = Coded(nals, n)
  \/ InTwoBytes(nals) /\ out = Prefixed(nals, 2)
  \/ InFourBytes(nals) /\ out = Prefixed(nals, 4)

\* From the encoder to the decoder: host and client find a unit of a type in what is sent
\* exactly if the picture has one, and the client finds the first, byte for byte.
THEOREM UnitFoundAgain ==
  ASSUME ByteOK, NEW nals \in Seq(Seq(Nat)), nals # <<>>,
         \A k \in 1 .. Len(nals) : IsNal(nals[k]) /\ Len(nals[k]) >= 2,
         NEW out, IsOutput(out, nals), NEW t
  PROVE  LET sent == SendAnnexB(out)
             Has  == \E k \in 1 .. Len(nals) : OfType(nals[k], t)
         IN  /\ sent \in {Coded(nals, 3), Coded(nals, 4)}
             /\ ContainsNalType(sent, t) <=> Has
             /\ FindNalUnit(sent, t) # <<>> <=> Has
             /\ \A k \in 1 .. Len(nals) :
                  OfType(nals[k], t) /\ (\A j \in 1 .. k - 1 : ~OfType(nals[j], t))
                    => FindNalUnit(sent, t) = nals[k]
<1> DEFINE sent == SendAnnexB(out)
           m == Len(nals)
           Has == \E k \in 1 .. m : OfType(nals[k], t)
<1>1. PICK n \in {3, 4} : sent = Coded(nals, n)
  <2>1. \A k \in 1 .. Len(nals) : IsNal(nals[k])
    OBVIOUS
  <2>2. /\ \A n \in {3, 4} : SendAnnexB(Coded(nals, n)) = Coded(nals, n)
        /\ InTwoBytes(nals) => SendAnnexB(Prefixed(nals, 2)) = Coded(nals, 4)
        /\ InFourBytes(nals) => SendAnnexB(Prefixed(nals, 4)) = Coded(nals, 4)
    BY <2>1, SentWithStartCodes
  <2>3. 4 \in {3, 4}
    OBVIOUS
  <2>4. QED BY <2>2, <2>3, Zenon DEF IsOutput
<1>2. PICK at : IsCoded(sent, nals, n, at)
  <2>1. PICK at : IsCoded(Coded(nals, n), nals, n, at)
    BY CodedLays
  <2>2. QED BY <1>1, <2>1, Zenon
<1> HIDE DEF sent
<1>3. m \in Nat /\ m >= 1
  <2>1. m \in Nat /\ m # 0
    BY EmptySeq
  <2>2. QED BY <2>1
<1>4. LongEnough(nals, n)
  <2>1. Len(nals) \in 1 .. Len(nals)
    BY <1>3
  <2>2. QED BY <2>1 DEF LongEnough
<1>5. ContainsNalType(sent, t) <=> Has
  BY <1>2, ContainsExactly
<1>6. /\ \A k \in 1 .. Len(nals) :
              OfType(nals[k], t) /\ (\A j \in 1 .. k - 1 : ~OfType(nals[j], t))
                => FindNalUnit(sent, t) = nals[k]
      /\ (\A j \in 1 .. Len(nals) : ~OfType(nals[j], t)) => FindNalUnit(sent, t) = <<>>
  BY <1>2, <1>4, FindsFirst
<1>7. ASSUME Has PROVE FindNalUnit(sent, t) # <<>>
  <2> DEFINE T == {k \in 1 .. m : OfType(nals[k], t)}
  <2>0. PICK i \in 1 .. m : OfType(nals[i], t)
    BY <1>7
  <2>1. T \subseteq Nat /\ T # {}
    <3>1. T \subseteq Nat
      BY <1>3
    <3>2. i \in T
      BY <2>0
    <3>3. QED BY <3>1, <3>2
  <2>2. PICK k \in T : \A j \in T : k <= j
    BY <2>1, Least
  <2>3. k \in 1 .. m /\ OfType(nals[k], t) /\ \A j \in 1 .. k - 1 : ~OfType(nals[j], t)
    <3>1. k \in 1 .. m /\ OfType(nals[k], t)
      OBVIOUS
    <3>2. ASSUME NEW j \in 1 .. k - 1, OfType(nals[j], t) PROVE FALSE
      <4>1. j \in 1 .. m /\ ~(k <= j)
        BY <1>3, <3>1
      <4>2. QED BY <2>2, <3>2, <4>1
    <3>3. QED BY <3>1, <3>2
  <2> HIDE DEF T
  <2>4. FindNalUnit(sent, t) = nals[k]
    BY <1>6, <2>3
  <2>5. Len(nals[k]) >= 1
    BY <2>3 DEF IsNal
  <2>6. Len(<<>>) = 0
    OBVIOUS
  <2>7. QED BY <2>4, <2>5, <2>6
<1>8. ASSUME ~Has PROVE FindNalUnit(sent, t) = <<>>
  BY <1>6, <1>8
<1>9. sent \in {Coded(nals, 3), Coded(nals, 4)}
  BY <1>1
<1>10. QED BY <1>5, <1>6, <1>7, <1>8, <1>9 DEF sent

----------------------------------------------------------------------------
(* A stream of packets.                                                    *)

\* One packet before others; and one step of the receiver at place o, f being what it reads
\* from the later places on.
Prepend(p, v) == << p >> \o v
Stops(p)     == p \in {Bad, Eof}
ReadsAt(s, f, o) ==
  IF SubSeq(s, o, Len(s)) = <<>> THEN <<>>
  ELSE IF Stops(ReadPacket(SubSeq(s, o, Len(s)))) THEN << ReadPacket(SubSeq(s, o, Len(s))) >>
  ELSE Prepend(ReadPacket(SubSeq(s, o, Len(s))), f[o + PacketLength(SubSeq(s, o, Len(s)))])

\* What is read is no longer than what there is.
LEMMA PacketWithin ==
  ASSUME FormatOK, NEW s \in Seq(Nat), ~Stops(ReadPacket(s))
  PROVE  PacketLength(s) \in Nat /\ PacketLength(s) >= 1 /\ PacketLength(s) <= Len(s)
<1> DEFINE raw == FromLe(SubSeq(s, 5, 8))
           length == raw % ControlFlag
<1>1. Len(s) \in Nat
  OBVIOUS
<1>2. ~(Len(s) < Header)
  BY Zenon DEF Stops, ReadPacket
<1>3. raw \in Nat
  <2>1. SubSeq(s, 5, 8) \in Seq(Nat)
    <3>1. \A i \in 5 .. 8 : i \in 1 .. Len(s)
      BY ONLY <1>1, <1>2 DEF Header
    <3>2. \A i \in 5 .. 8 : s[i] \in Nat
      BY ONLY s \in Seq(Nat), <3>1, ElementOfSeq
    <3>3. 5 \in Int /\ 8 \in Int
      OBVIOUS
    <3>4. QED BY ONLY <3>2, <3>3, SubSeqProperties
  <2>2. ByteOK
    BY DEF FormatOK
  <2>3. QED BY ONLY <2>1, <2>2, FromLeNat
<1>4. length \in Nat
  <2>1. ControlFlag \in Nat /\ ControlFlag >= 1
    BY FlagFits DEF FormatOK
  <2> HIDE DEF raw
  <2>2. QED BY ONLY <1>3, <2>1, Division
<1>5. length # 0 => ~(Len(s) < Header + length)
  <2>1. SUFFICES ASSUME length # 0, Len(s) < Header + length PROVE Stops(ReadPacket(s))
    OBVIOUS
  <2>2. ReadPacket(s) = Eof \/ ReadPacket(s) = Bad
    BY ONLY <1>2, <2>1, Zenon DEF ReadPacket
  <2>3. QED BY ONLY <2>2 DEF Stops
<1>6. PacketLength(s) = Header + length
  BY Zenon DEF PacketLength
<1> HIDE DEF length
<1>7. QED BY ONLY <1>1, <1>2, <1>4, <1>5, <1>6 DEF Header

\* Reading a stream is such a recursion.
LEMMA ReadAllIs ==
  ASSUME FormatOK, NEW s \in Seq(Nat)
  PROVE  \E f : /\ ReadAll(s) = f[1]
                /\ \A o \in 1 .. Len(s) + 1 : f[o] = ReadsAt(s, f, o)
<1> DEFINE N == Len(s)
           Step(f) == [o \in 1 .. Len(s) + 1 |-> ReadsAt(s, f, o)]
           from == CHOOSE f : f = Step(f)
           rest(o) == SubSeq(s, o, Len(s))
           p(o) == ReadPacket(rest(o))
           stop(o) == Stops(p(o))
           next(o) == o + PacketLength(rest(o))
           nxt == [o \in 1 .. N |-> IF stop(o) THEN N + 1 ELSE next(o)]
           W == {p(o) : o \in 1 .. N}
           V == Seq(W)
           val(o, v) == IF stop(o) THEN << p(o) >> ELSE Prepend(p(o), v)
           F == [q \in (1 .. N) \X V |-> val(q[1], q[2])]
<1>1. ReadAll(s) = from[1]
  <2>1. ReadAll(s) = LET g[o \in 1 .. Len(s) + 1] == ReadsAt(s, g, o) IN g[1]
    BY Zenon DEF ReadAll, ReadsAt, Prepend, Stops
  <2>2. QED BY <2>1
<1>2. N \in Nat
  OBVIOUS
<1>3. ASSUME NEW o \in 1 .. N PROVE rest(o) \in Seq(Nat) /\ Len(rest(o)) = N - o + 1
  BY <1>2
<1>4. Advances(nxt, N)
  <2> SUFFICES ASSUME NEW o \in 1 .. N PROVE nxt[o] \in o + 1 .. N + 1
    BY DEF Advances
  <2>1. CASE stop(o)
    <3> HIDE DEF stop
    <3>1. QED BY <1>2, <2>1
  <2>2. CASE ~stop(o)
    <3>1. rest(o) \in Seq(Nat) /\ Len(rest(o)) = N - o + 1
      BY <1>3
    <3>2. PacketLength(rest(o)) \in Nat /\ PacketLength(rest(o)) >= 1
          /\ PacketLength(rest(o)) <= N - o + 1
      <4> HIDE DEF rest
      <4>1. QED BY <2>2, <3>1, PacketWithin
    <3> HIDE DEF stop, rest, N
    <3>3. next(o) \in o + 1 .. N + 1
      BY ONLY <1>2, <3>2, o \in 1 .. N
    <3> HIDE DEF next
    <3>4. nxt[o] = next(o)
      BY <2>2
    <3>5. QED BY <3>3, <3>4
  <2>3. QED BY <2>1, <2>2
<1>5. <<>> \in V
  OBVIOUS
<1>6. ASSUME NEW o \in 1 .. N, NEW v \in V PROVE val(o, v) \in V
  <2>1. p(o) \in W
    OBVIOUS
  <2> HIDE DEF p, stop, W, N
  <2>2. << p(o) >> \in V
    BY <2>1
  <2>3. Prepend(p(o), v) \in V
    BY <2>2 DEF Prepend
  <2>4. QED BY <2>2, <2>3
<1>7. Closed(F, N, V)
  <2> HIDE DEF val, V
  <2>1. QED BY <1>6 DEF Closed
<1> HIDE DEF nxt, F, V, N, stop
<1>8. PICK f \in [1 .. N + 1 -> V] : f[N + 1] = <<>> /\ \A o \in 1 .. N : Solves(f, o, nxt, F)
  BY ONLY <1>2, <1>4, <1>5, <1>7, Recursion
<1>9. ASSUME NEW o \in 1 .. N PROVE f[o] = ReadsAt(s, f, o)
  <2>1. f[o] = F[<<o, f[nxt[o]]>>]
    BY <1>8 DEF Solves
  <2>2. nxt[o] \in 1 .. N + 1
    BY <1>2, <1>4 DEF Advances
  <2>3. f[nxt[o]] \in V
    BY <1>8, <2>2
  <2>4. f[o] = val(o, f[nxt[o]])
    <3> HIDE DEF val
    <3>1. QED BY <2>1, <2>3 DEF F
  <2>5. nxt[o] = IF stop(o) THEN N + 1 ELSE next(o)
    <3> HIDE DEF next
    <3>1. QED BY DEF nxt
  <2>6. rest(o) # <<>>
    <3>1. Len(rest(o)) = N - o + 1
      BY <1>3
    <3> HIDE DEF rest
    <3>2. Len(rest(o)) # 0
      BY ONLY <1>2, <3>1, o \in 1 .. N
    <3>3. Len(<<>>) = 0
      OBVIOUS
    <3>4. QED BY <3>2, <3>3
  <2>7. QED BY <2>4, <2>5, <2>6, Zenon DEF ReadsAt, stop
<1>10. f[N + 1] = ReadsAt(s, f, N + 1)
  <2>1. SubSeq(s, N + 1, Len(s)) = <<>>
    BY DEF N
  <2>2. QED BY <1>8, <2>1, Zenon DEF ReadsAt
<1>11. f = Step(f)
  <2>1. \A o \in 1 .. N + 1 : f[o] = ReadsAt(s, f, o)
    BY <1>2, <1>9, <1>10
  <2>2. f = [o \in 1 .. N + 1 |-> ReadsAt(s, f, o)]
    BY <1>8, <2>1
  <2>3. QED BY <2>2 DEF N
<1>12. from = Step(from)
  BY <1>11
<1> HIDE DEF from
<1>13. \A o \in 1 .. Len(s) + 1 : from[o] = ReadsAt(s, from, o)
  BY <1>12
<1>14. QED BY <1>1, <1>13

\* The bytes p are read as r, whatever follows them.
Whole(p, r) ==
  /\ p \in Seq(Nat) /\ Len(p) >= 1 /\ ~Stops(r)
  /\ \A rest \in Seq(Nat) : ReadPacket(Cat(p, rest)) = r /\ PacketLength(Cat(p, rest)) = Len(p)

\* What is left of the packets from number k on.
From(rs, k) == SubSeq(rs, k, Len(rs))

LEMMA FromIs ==
  ASSUME NEW R, NEW rs \in Seq(R)
  PROVE  /\ From(rs, 1) = rs /\ From(rs, Len(rs) + 1) = <<>>
         /\ \A k \in 1 .. Len(rs) : From(rs, k) = Prepend(rs[k], From(rs, k + 1))
<1>1. Len(rs) \in Nat
  OBVIOUS
<1>2. From(rs, 1) = rs /\ From(rs, Len(rs) + 1) = <<>>
  BY <1>1 DEF From
<1>3. ASSUME NEW k \in 1 .. Len(rs) PROVE From(rs, k) = Prepend(rs[k], From(rs, k + 1))
  <2> DEFINE x == SubSeq(rs, k, Len(rs))
             y == SubSeq(rs, k + 1, Len(rs))
             z == << rs[k] >> \o y
             l == Len(rs) - k
  <2>1. x \in Seq(R) /\ Len(x) = l + 1 /\ \A i \in 1 .. l + 1 : x[i] = rs[k + i - 1]
    BY <1>1
  <2>2. y \in Seq(R) /\ Len(y) = l /\ \A i \in 1 .. l : y[i] = rs[k + 1 + i - 1]
    BY <1>1
  <2>3. rs[k] \in R
    OBVIOUS
  <2> HIDE DEF x, y
  <2>4. z \in Seq(R) /\ Len(z) = l + 1 /\ z[1] = rs[k] /\ \A i \in 1 .. l : z[i + 1] = y[i]
    <3> HIDE DEF l
    <3>1. << rs[k] >> \in Seq(R) /\ Len(<< rs[k] >>) = 1
      BY <2>3
    <3>2. l \in Nat
      BY <1>1 DEF l
    <3>3. QED BY <2>2, <2>3, <3>1, <3>2
  <2> HIDE DEF z, l
  <2>5. l \in Nat
    BY <1>1 DEF l
  <2>6. ASSUME NEW i \in 1 .. l + 1 PROVE x[i] = z[i]
    <3>1. CASE i = 1
      <4>1. k + 1 - 1 = k
        OBVIOUS
      <4>2. QED BY ONLY <2>1, <2>4, <2>5, <3>1, <4>1, k \in 1 .. Len(rs)
    <3>2. CASE i # 1
      <4>1. i - 1 \in 1 .. l /\ (i - 1) + 1 = i /\ k + 1 + (i - 1) - 1 = k + i - 1
        BY ONLY <2>5, <3>2, k \in 1 .. Len(rs), i \in 1 .. l + 1
      <4>2. z[i] = y[i - 1] /\ y[i - 1] = rs[k + i - 1]
        BY <2>2, <2>4, <4>1
      <4>3. QED BY ONLY <2>1, <4>2, i \in 1 .. l + 1
    <3>3. QED BY <3>1, <3>2
  <2>7. x = z
    BY ONLY <2>1, <2>4, <2>6, SeqEqual
  <2>8. QED BY <2>7, Zenon DEF From, Prepend, x, y, z
<1>4. QED BY <1>2, <1>3

\* Packets that are read whatever follows are read one after the other to the end.
LEMMA WholeStream ==
  ASSUME FormatOK, NEW ps \in Seq(Seq(Nat)), NEW R, NEW rs \in Seq(R), Len(rs) = Len(ps),
         \A k \in 1 .. Len(ps) : Whole(ps[k], rs[k])
  PROVE  ReadAll(FlattenSeq(ps)) = rs
<1> DEFINE s == FlattenSeq(ps)
           m == Len(ps)
<1>1. PICK at : Lays(s, ps, at)
  BY FlattenLays
<1> HIDE DEF s
<1>2. m \in Nat /\ Len(rs) = m
  OBVIOUS
<1>3. /\ at[1] = 0 /\ at[m + 1] = Len(s) /\ s \in Seq(Nat) /\ Len(s) \in Nat
      /\ \A k \in 1 .. m : at[k + 1] = at[k] + Len(ps[k])
  BY <1>1, LenProperties DEF Lays
<1>4. \A k \in 1 .. m + 1 : at[k] \in Nat /\ at[k] <= Len(s)
  BY <1>1, LaysBound
<1>5. PICK f : ReadAll(s) = f[1] /\ \A o \in 1 .. Len(s) + 1 : f[o] = ReadsAt(s, f, o)
  BY <1>3, ReadAllIs
<1>6. /\ From(rs, 1) = rs /\ From(rs, m + 1) = <<>>
      /\ \A k \in 1 .. m : From(rs, k) = Prepend(rs[k], From(rs, k + 1))
  BY <1>2, FromIs
<1>7. ASSUME NEW k \in 1 .. m PROVE f[at[k] + 1] = Prepend(rs[k], f[at[k + 1] + 1])
  <2> DEFINE a == at[k]
             b == at[k + 1]
             p == ps[k]
             r == rs[k]
             o == a + 1
             q == SubSeq(s, o, Len(s))
             t == Rest(s, b)
  <2>1. Whole(p, r)
    OBVIOUS
  <2>2. q = Cat(p, t) /\ t \in Seq(Nat)
    <3>1. Rest(s, a) = Cat(p, t) /\ t \in Seq(Nat)
      <4>1. k \in 1 .. Len(ps)
        OBVIOUS
      <4>2. Rest(s, at[k]) = Cat(ps[k], Rest(s, at[k + 1])) /\ Rest(s, at[k + 1]) \in Seq(Nat)
        BY ONLY <1>1, <4>1, LaysRest
      <4>3. QED BY <4>2
    <3>2. Rest(s, a) = q
      BY Zenon DEF Rest
    <3>3. QED BY <3>1, <3>2
  <2>3. a \in Nat /\ b = a + Len(p) /\ o \in 1 .. Len(s) + 1
    <3>1. k \in 1 .. m + 1
      BY <1>2
    <3>2. a \in Nat /\ a <= Len(s)
      BY ONLY <1>4, <3>1
    <3>3. b = a + Len(p)
      BY ONLY <1>3, k \in 1 .. m
    <3>4. a + 1 \in 1 .. Len(s) + 1
      <4> HIDE DEF a
      <4>1. QED BY ONLY <1>3, <3>2
    <3>5. QED BY ONLY <3>2, <3>3, <3>4
  <2> HIDE DEF a, b, p, r, t, m
  <2>4. ReadPacket(q) = r /\ PacketLength(q) = Len(p) /\ ~Stops(r)
    <3>1. ReadPacket(Cat(p, t)) = r /\ PacketLength(Cat(p, t)) = Len(p) /\ ~Stops(r)
      BY <2>1, <2>2, Zenon DEF Whole
    <3> HIDE DEF q
    <3>2. QED BY <2>2, <3>1, Zenon
  <2>5. q # <<>>
    <3>1. p \in Seq(Nat) /\ Len(p) >= 1
      BY <2>1 DEF Whole
    <3>2. Len(Cat(p, t)) = Len(p) + Len(t) /\ Len(p) \in Nat /\ Len(t) \in Nat
      BY ONLY <2>2, <3>1, CatIs
    <3> HIDE DEF q
    <3>3. Len(q) # 0
      BY ONLY <2>2, <3>1, <3>2
    <3>4. Len(<<>>) = 0
      OBVIOUS
    <3>5. QED BY <3>3, <3>4
  <2>6. o + Len(p) = b + 1
    <3>1. Len(p) \in Nat
      BY <2>1, LenProperties DEF Whole
    <3>2. QED BY ONLY <2>3, <3>1
  <2>7. f[o] = ReadsAt(s, f, o)
    BY <1>5, <2>3
  <2>8. f[o] = Prepend(r, f[b + 1])
    BY <2>4, <2>5, <2>6, <2>7, Zenon DEF ReadsAt
  <2>9. QED BY <2>8 DEF a, b, r
<1> HIDE DEF m
<1> DEFINE Same(k) == f[at[k] + 1] = From(rs, k)
           S == {d \in Nat : d <= m => Same(m + 1 - d)}
<1>8. 0 \in S
  <2>1. Len(s) + 1 \in 1 .. Len(s) + 1 /\ SubSeq(s, Len(s) + 1, Len(s)) = <<>>
    BY <1>3
  <2>2. f[Len(s) + 1] = <<>>
    <3>1. f[Len(s) + 1] = ReadsAt(s, f, Len(s) + 1)
      BY <1>5, <2>1
    <3>2. QED BY <2>1, <3>1, Zenon DEF ReadsAt
  <2>3. m + 1 - 0 = m + 1
    BY <1>2
  <2>4. QED BY <1>3, <1>6, <2>2, <2>3
<1>9. ASSUME NEW d \in Nat, d \in S PROVE d + 1 \in S
  <2> SUFFICES ASSUME d + 1 <= m PROVE Same(m + 1 - (d + 1))
    OBVIOUS
  <2> DEFINE k == m - d
  <2>1. k \in 1 .. m /\ k + 1 = m + 1 - d /\ k = m + 1 - (d + 1)
    BY <1>2
  <2> HIDE DEF k
  <2>2. Same(k + 1)
    BY <1>2, <1>9, <2>1
  <2>3. f[at[k] + 1] = Prepend(rs[k], f[at[k + 1] + 1])
    BY <1>7, <2>1
  <2>4. From(rs, k) = Prepend(rs[k], From(rs, k + 1))
    BY <1>6, <2>1
  <2>5. Same(k)
    BY <2>2, <2>3, <2>4, Zenon
  <2>6. QED BY <2>1, <2>5
<1>10. m \in S
  <2> HIDE DEF S
  <2>1. QED BY ONLY <1>2, <1>8, <1>9, Induction
<1>11. Same(1)
  <2>1. m + 1 - m = 1
    BY <1>2
  <2>2. QED BY <1>2, <1>10, <2>1
<1>12. QED BY <1>3, <1>5, <1>6, <1>11 DEF s

\* A packet of the host, and what the client is to make of it.
IsVideo(p, r) ==
  \E id \in Nat, time \in Nat, payload \in Seq(Nat) :
    /\ id < DWord /\ time < DWord /\ payload # <<>> /\ Len(payload) <= MaxUnit
    /\ p = VideoPacket(id, time, payload)
    /\ r = [kind |-> "video", id |-> id, time |-> time,
            idr |-> FindNalUnit(payload, Idr) # <<>>, payload |-> payload]
ReadOf(c) == [kind |-> "cursor", visible |-> c.visible, x |-> c.x, y |-> c.y,
              width |-> c.width, height |-> c.height, sequence |-> c.sequence]
IsCursor(p, r) ==
  \E c : \E time \in Nat :
    IsPointer(c) /\ time < DWord /\ p = CursorPacket(time, c) /\ r = ReadOf(c)
IsHeartbeat(p, r) == p = HeartbeatPacket /\ r = [kind |-> "heartbeat"]
IsOfHost(p, r) == IsVideo(p, r) \/ IsCursor(p, r) \/ IsHeartbeat(p, r)

\* Each is read as that whatever follows it. The lengths first.
LEMMA PacketIs ==
  ASSUME FormatOK, NEW length \in Nat, NEW id \in Nat, NEW time \in Nat, NEW payload \in Seq(Nat)
  PROVE  /\ Packet(length, id, time, payload) \in Seq(Nat)
         /\ Len(Packet(length, id, time, payload)) = Header + Len(payload)
<1> DEFINE a == Le(4, Magic)
           b == Le(4, length)
           c == Le(8, id)
           d == Le(8, time)
           ab == Cat(a, b)
           abc == Cat(ab, c)
           abcd == Cat(abc, d)
           p == Cat(abcd, payload)
<1>0. ByteOK /\ Magic \in Nat
  BY DEF FormatOK
<1>1. /\ a \in Seq(Nat) /\ Len(a) = 4 /\ b \in Seq(Nat) /\ Len(b) = 4
      /\ c \in Seq(Nat) /\ Len(c) = 8 /\ d \in Seq(Nat) /\ Len(d) = 8
  BY <1>0, FieldReadsBack
<1> HIDE DEF a, b, c, d
<1>2. ab \in Seq(Nat) /\ Len(ab) = 8
  <2>1. ab \in Seq(Nat) /\ Len(ab) = Len(a) + Len(b)
    BY ONLY <1>1, CatLength
  <2>2. QED BY ONLY <1>1, <2>1
<1> HIDE DEF ab
<1>3. abc \in Seq(Nat) /\ Len(abc) = 16
  <2>1. abc \in Seq(Nat) /\ Len(abc) = Len(ab) + Len(c)
    BY ONLY <1>1, <1>2, CatLength
  <2>2. QED BY ONLY <1>1, <1>2, <2>1
<1> HIDE DEF abc
<1>4. abcd \in Seq(Nat) /\ Len(abcd) = 24
  <2>1. abcd \in Seq(Nat) /\ Len(abcd) = Len(abc) + Len(d)
    BY ONLY <1>1, <1>3, CatLength
  <2>2. QED BY ONLY <1>1, <1>3, <2>1
<1> HIDE DEF abcd
<1>5. p \in Seq(Nat) /\ Len(p) = 24 + Len(payload)
  BY <1>4, CatLength
<1>6. p = Packet(length, id, time, payload)
  BY Zenon DEF p, abcd, abc, ab, Cat, Packet, a, b, c, d
<1> HIDE DEF p
<1>7. QED BY <1>5, <1>6 DEF Header

\* What the constants of the code satisfy, those of the cursor packet too.
CursorOK == MaxUnit >= 36 /\ MaxSide \in Nat /\ MaxSide < Word

\* The eight fields of a cursor packet.
LEMMA CursorIs ==
  ASSUME FormatOK, CursorOK, NEW c, IsPointer(c), NEW time \in Nat
  PROVE  CursorPacket(time, c) \in Seq(Nat) /\ Len(CursorPacket(time, c)) = Header + 36
<1> DEFINE shown == IF c.visible THEN 1 ELSE 0
           p1 == Cat(Le(4, CursorType), Le(4, 1))
           p2 == Cat(p1, Le(4, shown))
           p3 == Cat(p2, Le(4, c.x))
           p4 == Cat(p3, Le(4, c.y))
           p5 == Cat(p4, Le(4, c.width))
           p6 == Cat(p5, Le(4, c.height))
           p7 == Cat(p6, Le(8, c.sequence))
<1>0. ByteOK
  BY DEF FormatOK
<1>1. ASSUME NEW v \in Nat, NEW s \in Seq(Nat)
      PROVE  /\ Cat(s, Le(4, v)) \in Seq(Nat) /\ Len(Cat(s, Le(4, v))) = Len(s) + 4
             /\ Cat(s, Le(8, v)) \in Seq(Nat) /\ Len(Cat(s, Le(8, v))) = Len(s) + 8
  <2> DEFINE a == Le(4, v)
             b == Le(8, v)
  <2>1. a \in Seq(Nat) /\ Len(a) = 4 /\ b \in Seq(Nat) /\ Len(b) = 8
    BY ONLY <1>0, v \in Nat, FieldReadsBack
  <2> HIDE DEF a, b
  <2>2. /\ Cat(s, a) \in Seq(Nat) /\ Len(Cat(s, a)) = Len(s) + Len(a)
        /\ Cat(s, b) \in Seq(Nat) /\ Len(Cat(s, b)) = Len(s) + Len(b)
    BY ONLY <2>1, s \in Seq(Nat), CatLength
  <2>3. QED BY <2>1, <2>2 DEF a, b
<1>2. /\ shown \in Nat /\ CursorType \in Nat /\ 1 \in Nat /\ c.x \in Nat /\ c.y \in Nat
      /\ c.width \in Nat /\ c.height \in Nat /\ c.sequence \in Nat
  BY DEF IsPointer, CursorType, CursorOK
<1>3. Le(4, CursorType) \in Seq(Nat) /\ Len(Le(4, CursorType)) = 4
  BY ONLY <1>0, <1>2, FieldReadsBack
<1> HIDE DEF shown
<1>4. p1 \in Seq(Nat) /\ Len(p1) = 8
  <2>1. p1 \in Seq(Nat) /\ Len(p1) = Len(Le(4, CursorType)) + 4
    BY ONLY <1>1, <1>2, <1>3, Zenon
  <2>2. Len(p1) = 4 + 4
    BY <1>3, <2>1
  <2>3. QED BY <2>1, <2>2
<1> HIDE DEF p1
<1>5. p2 \in Seq(Nat) /\ Len(p2) = 12
  <2>1. p2 \in Seq(Nat) /\ Len(p2) = Len(p1) + 4
    BY ONLY <1>1, <1>2, <1>4, Zenon
  <2>2. QED BY ONLY <2>1, <1>4
<1> HIDE DEF p2
<1>6. p3 \in Seq(Nat) /\ Len(p3) = 16
  <2>1. p3 \in Seq(Nat) /\ Len(p3) = Len(p2) + 4
    BY ONLY <1>1, <1>2, <1>5, Zenon
  <2>2. QED BY ONLY <2>1, <1>5
<1> HIDE DEF p3
<1>7. p4 \in Seq(Nat) /\ Len(p4) = 20
  <2>1. p4 \in Seq(Nat) /\ Len(p4) = Len(p3) + 4
    BY ONLY <1>1, <1>2, <1>6, Zenon
  <2>2. QED BY ONLY <2>1, <1>6
<1> HIDE DEF p4
<1>8. p5 \in Seq(Nat) /\ Len(p5) = 24
  <2>1. p5 \in Seq(Nat) /\ Len(p5) = Len(p4) + 4
    BY ONLY <1>1, <1>2, <1>7, Zenon
  <2>2. QED BY ONLY <2>1, <1>7
<1> HIDE DEF p5
<1>9. p6 \in Seq(Nat) /\ Len(p6) = 28
  <2>1. p6 \in Seq(Nat) /\ Len(p6) = Len(p5) + 4
    BY ONLY <1>1, <1>2, <1>8, Zenon
  <2>2. QED BY ONLY <2>1, <1>8
<1> HIDE DEF p6
<1>10. p7 \in Seq(Nat) /\ Len(p7) = 36
  <2>1. p7 \in Seq(Nat) /\ Len(p7) = Len(p6) + 8
    BY ONLY <1>1, <1>2, <1>9, Zenon
  <2>2. QED BY ONLY <2>1, <1>9
<1> HIDE DEF p7
<1>11. CursorPacket(time, c) = Packet(Flagged(p7), 0, time, p7)
  BY Zenon DEF CursorPacket, p7, p6, p5, p4, p3, p2, p1, shown, Cat
<1>12. Len(p7) = 36 /\ Flagged(p7) \in Nat /\ 0 \in Nat
  <2>1. ControlFlag \in Nat
    BY <1>0, FlagFits
  <2>2. QED BY ONLY <1>10, <2>1 DEF Flagged
<1>13. /\ Packet(Flagged(p7), 0, time, p7) \in Seq(Nat)
       /\ Len(Packet(Flagged(p7), 0, time, p7)) = Header + Len(p7)
  BY <1>10, <1>12, PacketIs
<1>14. QED BY <1>11, <1>12, <1>13

LEMMA OfHostWhole ==
  ASSUME FormatOK, CursorOK, NEW p, NEW r, IsOfHost(p, r)
  PROVE  Whole(p, r)
<1>1. CASE IsVideo(p, r)
  <2>1. PICK id \in Nat, time \in Nat, payload \in Seq(Nat) :
          /\ id < DWord /\ time < DWord /\ payload # <<>> /\ Len(payload) <= MaxUnit
          /\ p = VideoPacket(id, time, payload)
          /\ r = [kind |-> "video", id |-> id, time |-> time,
                  idr |-> FindNalUnit(payload, Idr) # <<>>, payload |-> payload]
    BY <1>1 DEF IsVideo
  <2>2. p \in Seq(Nat) /\ Len(p) = Header + Len(payload) /\ Len(payload) \in Nat
    <3> DEFINE n == Len(payload)
    <3>1. n \in Nat
      OBVIOUS
    <3>2. p = Packet(n, id, time, payload)
      BY <2>1, Zenon DEF VideoPacket
    <3> HIDE DEF n
    <3>3. /\ Packet(n, id, time, payload) \in Seq(Nat)
          /\ Len(Packet(n, id, time, payload)) = Header + Len(payload)
      BY ONLY FormatOK, id \in Nat, time \in Nat, payload \in Seq(Nat), <3>1, PacketIs
    <3>4. QED BY ONLY <3>1, <3>2, <3>3, Zenon DEF n
  <2>3. Len(p) >= 1
    BY ONLY <2>2 DEF Header
  <2>4. ~Stops(r)
    <3>1. r.kind = "video"
      BY <2>1
    <3>2. Bad.kind = "bad" /\ Eof.kind = "eof"
      BY DEF Bad, Eof
    <3>3. QED BY ONLY <3>1, <3>2 DEF Stops
  <2>5. ASSUME NEW rest \in Seq(Nat)
        PROVE  ReadPacket(Cat(p, rest)) = r /\ PacketLength(Cat(p, rest)) = Len(p)
    <3>1. /\ ReadPacket(VideoPacket(id, time, payload) \o rest)
               = [kind |-> "video", id |-> id, time |-> time,
                  idr |-> FindNalUnit(payload, Idr) # <<>>, payload |-> payload]
          /\ PacketLength(VideoPacket(id, time, payload) \o rest) = Header + Len(payload)
      BY <2>1, VideoReadsBack
    <3>2. QED BY <2>1, <2>2, <3>1, Zenon DEF Cat
  <2>6. QED BY <2>2, <2>3, <2>4, <2>5 DEF Whole
<1>2. CASE IsHeartbeat(p, r)
  <2>1. p = HeartbeatPacket /\ r = [kind |-> "heartbeat"]
    BY <1>2 DEF IsHeartbeat
  <2>2. p \in Seq(Nat) /\ Len(p) = Header
    <3>1. <<>> \in Seq(Nat) /\ Len(<<>>) = 0 /\ 0 \in Nat
      OBVIOUS
    <3>2. Packet(0, 0, 0, <<>>) \in Seq(Nat) /\ Len(Packet(0, 0, 0, <<>>)) = Header + Len(<<>>)
      BY ONLY FormatOK, <3>1, PacketIs
    <3>3. Header + Len(<<>>) = Header
      BY <3>1 DEF Header
    <3>4. p = Packet(0, 0, 0, <<>>)
      BY <2>1, <3>1, Zenon DEF HeartbeatPacket, VideoPacket
    <3>5. QED BY <3>2, <3>3, <3>4
  <2>3. Len(p) >= 1
    BY ONLY <2>2 DEF Header
  <2>4. ~Stops(r)
    <3>1. r.kind = "heartbeat"
      BY <2>1
    <3>2. Bad.kind = "bad" /\ Eof.kind = "eof"
      BY DEF Bad, Eof
    <3>3. QED BY ONLY <3>1, <3>2 DEF Stops
  <2>5. ASSUME NEW rest \in Seq(Nat)
        PROVE  ReadPacket(Cat(p, rest)) = r /\ PacketLength(Cat(p, rest)) = Len(p)
    <3>1. /\ ReadPacket(HeartbeatPacket \o rest) = [kind |-> "heartbeat"]
          /\ PacketLength(HeartbeatPacket \o rest) = Header
      BY HeartbeatReadsBack
    <3>2. QED BY <2>1, <2>2, <3>1, Zenon DEF Cat
  <2>6. QED BY <2>2, <2>3, <2>4, <2>5 DEF Whole
<1>3. CASE IsCursor(p, r)
  <2>0. PICK c : \E time \in Nat :
          IsPointer(c) /\ time < DWord /\ p = CursorPacket(time, c) /\ r = ReadOf(c)
    BY <1>3, Zenon DEF IsCursor
  <2>1. PICK time \in Nat :
          IsPointer(c) /\ time < DWord /\ p = CursorPacket(time, c) /\ r = ReadOf(c)
    BY <2>0
  <2>2. p \in Seq(Nat) /\ Len(p) = Header + 36
    BY <2>1, CursorIs
  <2>3. Len(p) >= 1
    BY ONLY <2>2 DEF Header
  <2>4. ~Stops(r)
    <3>1. r.kind = "cursor"
      BY <2>1 DEF ReadOf
    <3>2. Bad.kind = "bad" /\ Eof.kind = "eof"
      BY DEF Bad, Eof
    <3>3. QED BY ONLY <3>1, <3>2 DEF Stops
  <2>5. ASSUME NEW rest \in Seq(Nat)
        PROVE  ReadPacket(Cat(p, rest)) = r /\ PacketLength(Cat(p, rest)) = Len(p)
    <3>1. /\ ReadPacket(CursorPacket(time, c) \o rest) = ReadOf(c)
          /\ PacketLength(CursorPacket(time, c) \o rest) = Header + 36
      BY <2>1, CursorReadsBack DEF CursorOK, ReadOf
    <3>2. QED BY <2>1, <2>2, <3>1, Zenon DEF Cat
  <2>6. QED BY <2>2, <2>3, <2>4, <2>5 DEF Whole
<1>4. QED BY <1>1, <1>2, <1>3 DEF IsOfHost

\* However many packets of whichever kinds the host sends, the client reads those, each with
\* its fields, up to the end of the stream, and no protocol error (PacketWriter, main.cpp;
\* readPacket and dispatchControl, StreamReceiver).
THEOREM StreamReadsBack ==
  ASSUME FormatOK, CursorOK, NEW ps \in Seq(Seq(Nat)), NEW R, NEW rs \in Seq(R),
         Len(rs) = Len(ps), \A k \in 1 .. Len(ps) : IsOfHost(ps[k], rs[k])
  PROVE  ReadAll(FlattenSeq(ps)) = rs
<1>1. \A k \in 1 .. Len(ps) : Whole(ps[k], rs[k])
  BY OfHostWhole
<1>2. QED BY <1>1, WholeStream
==============================================================================
