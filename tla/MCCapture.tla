------------------------------ MODULE MCCapture ------------------------------
(***************************************************************************)
(* CapturePipeline with the conversion its publication steps stand for:    *)
(* frame n shows a picture of kind n, in all the widths around one and two *)
(* vectors, whose pixels differ from column to column.                     *)
(***************************************************************************)
EXTENDS CapturePipeline, PixelConversion

Widths  == {2, 4, 6, 8, 10, 14, 16, 18}
Heights == {2, 4}

\* Kind 1 has only the values 0 and 255, the others spread over the range.
Level(kind, n) == IF kind = 1 THEN 255 * ((n \div 3 + n) % 2) ELSE (n * (23 + 37 * kind)) % 256
Picture(kind, w, h) ==
  [y \in 1 .. h |-> [x \in 1 .. w |->
     [b |-> Level(kind, 5 * x + 3 * y), g |-> Level(kind, 7 * x + y + 1),
      r |-> Level(kind, x + 11 * y + 2)]]]
Pictures(kind) == {Picture(kind, w, h) : w \in Widths, h \in Heights}

Differing ==
  {n \in 1 .. MaxFrames : \E pic \in Pictures(n), avx2 \in BOOLEAN :
     Convert(avx2, pic) # Reference(pic)}

Leaving(low, high, plane) == \E i \in DOMAIN plane : \E x \in DOMAIN plane[i] :
  plane[i][x] \notin low .. high
OutOfRange ==
  {n \in 1 .. MaxFrames : \E pic \in Pictures(n), avx2 \in BOOLEAN :
     LET out == Convert(avx2, pic)
     IN  Leaving(16, 235, out.y) \/ Leaving(16, 240, out.uv)}

\* Whichever instructions the processor has and wherever a row's vectors end, every
\* byte of a published payload is what the scalar formulas make of the pixels there, and
\* within the limited range of video, which an overflowing or saturated lane would leave.
PathsAgree == \A i \in DOMAIN published : published[i] \notin Differing \cup OutOfRange
=============================================================================
