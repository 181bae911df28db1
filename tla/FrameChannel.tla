---------------------------- MODULE FrameChannel ----------------------------
(***************************************************************************)
(* What the frame ring promises as a whole: a lossy channel from the       *)
(* driver to the stream.  Frames are numbered in capture order; any frame  *)
(* may be skipped, but none is delivered before it was sent, none is       *)
(* delivered twice, and a newer frame is never followed by an older one.   *)
(***************************************************************************)
EXTENDS Naturals

VARIABLES
  sent,  \* newest frame published
  got    \* newest frame delivered

Init == sent = 0 /\ got = 0

Publish == sent' \in Nat /\ sent' > sent /\ UNCHANGED got
Deliver == got' \in got + 1 .. sent /\ UNCHANGED sent

Next == Publish \/ Deliver

Spec == Init /\ [][Next]_<<sent, got>>
=============================================================================
