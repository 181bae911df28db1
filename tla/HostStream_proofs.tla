--------------------------- MODULE HostStream_proofs ---------------------------
(***************************************************************************)
(* Theorems of HostStream for every number of frames and clients and every *)
(* limit: the type invariant; no socket outlives its client; the frames of *)
(* a client go out in order and the newest is not lost in the queue; and   *)
(* nothing of a client is left for the next one.                           *)
(***************************************************************************)
EXTENDS HostStream, TLAPS

\* The steps of main's thread.
MainStep == AcceptClient \/ AcceptFails \/ HandshakeArrives \/ ClientStep

\* Every step is one of main's, the worker's, the cursor thread's or the world's.
LEMMA NextSteps == Next <=> MainStep \/ WorkerStep \/ CursorStep \/ Outside
BY DEF Next, MainStep

----------------------------------------------------------------------------
(* The inductive invariant.                                                *)

\* Below a limit the worker may encode one frame more.
Below ==
  limit # 0 /\ wpc \in {"start", "wait", "drain", "encode", "send", "sendBeat"}
      => encoded < limit

\* The threads of a client live from the response to its handshake until they are joined;
\* outside that nothing of a client is left.
Loop  == {"loop", "wait", "publish", "beat", "close", "joinWorker"}
Fresh ==
  /\ rpc \in Loop => wpc # "none" /\ cpc # "none"
  /\ rpc = "joinCursor" => wpc = "exited" /\ cpc # "none"
  /\ rpc \notin Loop \cup {"joinCursor"} =>
       /\ wpc = "none" /\ cur = 0 /\ sent = 0
       /\ cpc = "none" /\ shown = "none"
       /\ pend = 0 /\ ~beat /\ ~qclosed
       /\ ~stopCapture /\ ~stopCursor

\* An open socket is the one main has just accepted, or one that main and the console
\* handler both know; whichever exchanges it first closes it.
Sockets ==
  /\ rpc \in {"head", "accept", "exit"} => ~conn /\ ~known
  /\ rpc = "accepted" => ~known
  /\ rpc \notin {"head", "accept", "accepted", "exit"} => (conn => known)

\* Frame ids grow on their way from the ring through main, the queue and the worker.
Forward ==
  /\ got <= captured /\ avail <= captured
  /\ avail # 0 => got < avail
  /\ sent <= cur /\ cur <= got /\ pend <= got
  /\ pend # 0 => cur < pend
  /\ rpc = "publish" => pend < got /\ cur < got

\* The frame main has read last is in the queue or the worker's, until the worker aborts
\* the queue; a worker that waits has sent the frame it had, or is about to end.
Kept ==
  /\ rpc \in Loop \ {"publish"} /\ wpc \notin {"shutdown", "exited"} =>
       pend = got \/ (pend = 0 /\ cur = got)
  /\ wpc \notin {"none", "shutdown", "exited"} /\ qclosed => rpc = "joinWorker"
  /\ wpc = "start" => cur = 0
  /\ wpc \in {"wait", "sendBeat"} => sent = cur \/ stop \/ stopCapture

----------------------------------------------------------------------------
(* The type invariant.                                                     *)

\* The two parts of the type invariant: the Boolean variables and the others.
Flags == {listening, known, beat, qclosed, stopCapture, stopCursor, stop,
    conn} \subseteq BOOLEAN
Shape ==
  /\ limit \in Limits /\ limit \in Nat
  /\ rpc \in {"head", "accept", "accepted", "handshake", "first", "respond", "loop", "wait",
              "publish", "beat", "close", "joinWorker", "joinCursor", "returned", "exit"}
  /\ clients \in 0 .. MaxClients
  /\ {got, avail, captured, pend, cur, sent} \subseteq 0 .. MaxFrames
  /\ wpc \in {"none", "start", "wait", "drain", "encode", "send", "sendBeat", "flush",
              "limitDrain", "limit", "limitAbort", "fail", "abort", "shutdown", "exited"}
  /\ encoded \in Nat /\ encoded <= limit
  /\ cpc \in {"none", "run", "shutdown", "exited"} /\ shown \in {"none", "old", "now"}
  /\ handler \in {"idle", "client", "listener", "done"}

\* Together they are the type invariant.
LEMMA TypeParts == TypeOK <=> Flags /\ Shape
BY HostAssumption DEF TypeOK, Flags, Shape

\* Main's thread.
LEMMA MainType ==
  ASSUME Flags, Shape, Below, MainStep
  PROVE  Flags' /\ Shape' /\ Below'
<1> USE HostAssumption DEF Flags, Shape, Below, vars, client, accept, ring, queue, worker,
    flags, outside, cursor
<1>1. CASE AcceptClient
  BY <1>1 DEF AcceptClient
<1>2. CASE AcceptFails
  BY ZenonT(30), <1>2 DEF AcceptFails, Exit
<1>3. CASE HandshakeArrives
  BY <1>3 DEF HandshakeArrives
<1>4. CASE Head
  BY ZenonT(30), <1>4 DEF Head, Exit
<1>5. CASE StoreClient
  <2>1. Flags'
    BY <1>5, Zenon DEF Flags, StoreClient, Exit
  <2>2. Shape' /\ Below'
    BY <1>5 DEF StoreClient, Exit
  <2>3. QED BY <2>1, <2>2
<1>6. CASE HandshakeFails
  BY <1>6 DEF HandshakeFails
<1>7. CASE FirstFrame
  BY <1>7 DEF FirstFrame, TakeFrame, Replay
<1>8. CASE Respond
  BY <1>8 DEF Respond
<1>9. CASE CaptureLoop
  BY <1>9 DEF CaptureLoop
<1>10. CASE CaptureWait
  BY <1>10 DEF CaptureWait, TakeFrame
<1>11. CASE Publish
  BY <1>11 DEF Publish
<1>12. CASE PublishHeartbeat
  BY ZenonT(30), <1>12 DEF PublishHeartbeat, SetBeat
<1>13. CASE Close
  BY <1>13 DEF Close, CloseQueue
<1>14. CASE JoinWorker
  BY <1>14 DEF JoinWorker
<1>15. CASE JoinCursor
  <2>1. Flags'
    BY <1>15, Zenon DEF Flags, JoinCursor
  <2>2. Shape' /\ Below'
    BY <1>15 DEF JoinCursor
  <2>3. QED BY <2>1, <2>2
<1>16. CASE CloseClient
  BY ZenonT(30), <1>16 DEF CloseClient, CloseSocket
<1>17. QED
  BY ONLY <1>1, <1>2, <1>3, <1>4, <1>5, <1>6, <1>7, <1>8, <1>9, <1>10, <1>11, <1>12, <1>13,
     <1>14, <1>15, <1>16, MainStep DEF MainStep, ClientStep

\* The worker counts up to the limit and no further.
LEMMA WorkerType ==
  ASSUME Flags, Shape, Below, WorkerStep
  PROVE  Flags' /\ Shape' /\ Below'
<1> USE HostAssumption DEF Flags, Shape, Below, vars, client, accept, ring, queue, worker,
    flags, outside, cursor
<1>1. CASE WorkerStart
  BY <1>1 DEF WorkerStart
<1>2. CASE WorkerStop
  BY <1>2 DEF WorkerStop
<1>3. CASE WorkerWait
  <2>1. Flags'
    BY <1>3, Zenon DEF Flags, WorkerWait
  <2>2. Shape' /\ Below'
    BY <1>3 DEF WorkerWait
  <2>3. QED BY <2>1, <2>2
<1>4. CASE WorkerDrain
  BY <1>4 DEF WorkerDrain
<1>5. CASE WorkerCheck
  BY <1>5 DEF WorkerCheck
<1>6. CASE WorkerSend
  BY <1>6 DEF WorkerSend, LimitReached
<1>7. CASE WorkerLimit \/ WorkerBeat
  BY <1>7 DEF WorkerLimit, WorkerBeat
<1>8. CASE WorkerFlush
  BY <1>8 DEF WorkerFlush
<1>9. CASE WorkerEnds
  BY <1>9 DEF WorkerEnds
<1>10. CASE Abort
  <2>1. Flags'
    BY <1>10, Zenon DEF Flags, Abort
  <2>2. Shape' /\ Below'
    BY <1>10 DEF Abort
  <2>3. QED BY <2>1, <2>2
<1>11. CASE WorkerShutdown
  BY <1>11 DEF WorkerShutdown
<1>12. QED
  BY ONLY <1>1, <1>2, <1>3, <1>4, <1>5, <1>6, <1>7, <1>8, <1>9, <1>10, <1>11, WorkerStep
     DEF WorkerStep

\* The cursor thread.
LEMMA CursorType ==
  ASSUME Flags, Shape, Below, CursorStep
  PROVE  Flags' /\ Shape' /\ Below'
<1> USE HostAssumption DEF Flags, Shape, Below, vars, client, accept, ring, queue, worker,
    flags, outside, cursor
<1>1. CASE CursorSend
  BY <1>1 DEF CursorSend
<1>2. CASE CursorEnds
  BY <1>2 DEF CursorEnds
<1>3. CASE CursorFails
  BY <1>3 DEF CursorFails
<1>4. CASE CursorShutdown
  <2>1. Flags'
    BY <1>4, Zenon DEF Flags, CursorShutdown
  <2>2. Shape' /\ Below'
    BY <1>4 DEF CursorShutdown
  <2>3. QED BY <2>1, <2>2
<1>5. QED
  BY ONLY <1>1, <1>2, <1>3, <1>4, CursorStep DEF CursorStep

\* The desktop, the client and the console.
LEMMA OutsideType ==
  ASSUME Flags, Shape, Below, Outside
  PROVE  Flags' /\ Shape' /\ Below'
<1> USE HostAssumption DEF Flags, Shape, Below, vars, client, accept, ring, queue, worker,
    flags, outside, cursor
<1>1. CASE NewFrame
  BY <1>1 DEF NewFrame
<1>2. CASE PointerMoves
  BY <1>2 DEF PointerMoves
<1>3. CASE ClientLeaves
  <2>1. Flags'
    BY <1>3, Zenon DEF Flags, ClientLeaves
  <2>2. Shape' /\ Below'
    BY <1>3 DEF ClientLeaves
  <2>3. QED BY <2>1, <2>2
<1>4. CASE ControlStop
  BY <1>4 DEF ControlStop
<1>5. CASE ControlClient
  <2>1. Flags'
    BY <1>5, Zenon DEF Flags, ControlClient, CloseSocket
  <2>2. Shape' /\ Below'
    BY <1>5 DEF ControlClient, CloseSocket
  <2>3. QED BY <2>1, <2>2
<1>6. CASE ControlListener
  <2>1. Flags'
    BY <1>6, Zenon DEF Flags, ControlListener, CloseListener
  <2>2. Shape' /\ Below'
    BY <1>6 DEF ControlListener, CloseListener
  <2>3. QED BY <2>1, <2>2
<1>7. QED
  BY ONLY <1>1, <1>2, <1>3, <1>4, <1>5, <1>6, Outside DEF Outside, Control

\* The declared shape of the state is invariant for every bound and every limit: in particular
\* the worker never encodes more frames than config.frames asks for.
THEOREM TypeCorrect == Safety => []TypeOK
<1>1. Init => TypeOK /\ Below
  <2>1. Init => Flags
    BY Zenon DEF Init, Flags
  <2>2. Init => Shape /\ Below
    BY HostAssumption DEF Init, Shape, Below
  <2>3. QED BY <2>1, <2>2, TypeParts
<1>2. TypeOK /\ Below /\ [Next]_vars => TypeOK' /\ Below'
  <2>1. Flags /\ Shape /\ Below /\ UNCHANGED vars => Flags' /\ Shape' /\ Below'
    BY DEF Flags, Shape, Below, vars, client, accept, ring, queue, worker, flags, outside,
       cursor
  <2>2. Flags /\ Shape /\ Below /\ Next => Flags' /\ Shape' /\ Below'
    BY NextSteps, MainType, WorkerType, CursorType, OutsideType
  <2>3. (TypeOK <=> Flags /\ Shape) /\ (TypeOK <=> Flags /\ Shape)'
    BY TypeParts, PTL
  <2>4. QED BY <2>1, <2>2, <2>3
<1>3. QED BY <1>1, <1>2, PTL DEF Safety

----------------------------------------------------------------------------
(* One client after the other.                                             *)

\* Main joins both threads before it returns, and their state goes with them.
LEMMA MainFresh ==
  ASSUME TypeOK, Fresh, MainStep
  PROVE  Fresh'
<1> USE DEF TypeOK, Fresh, Loop, vars, client, accept, ring, queue, worker, flags, outside,
    cursor
<1>1. CASE AcceptClient
  BY <1>1 DEF AcceptClient
<1>2. CASE AcceptFails
  BY <1>2 DEF AcceptFails, Exit
<1>3. CASE HandshakeArrives
  BY <1>3 DEF HandshakeArrives
<1>4. CASE Head
  BY <1>4 DEF Head, Exit
<1>5. CASE StoreClient
  BY <1>5 DEF StoreClient, Exit
<1>6. CASE HandshakeFails
  BY <1>6 DEF HandshakeFails
<1>7. CASE FirstFrame
  BY <1>7 DEF FirstFrame, TakeFrame, Replay
<1>8. CASE Respond
  BY <1>8 DEF Respond
<1>9. CASE CaptureLoop
  BY <1>9 DEF CaptureLoop
<1>10. CASE CaptureWait
  BY <1>10 DEF CaptureWait, TakeFrame
<1>11. CASE Publish
  BY <1>11 DEF Publish
<1>12. CASE PublishHeartbeat
  BY <1>12 DEF PublishHeartbeat, SetBeat
<1>13. CASE Close
  BY <1>13 DEF Close, CloseQueue
<1>14. CASE JoinWorker
  BY <1>14 DEF JoinWorker
<1>15. CASE JoinCursor
  BY <1>15 DEF JoinCursor
<1>16. CASE CloseClient
  BY <1>16 DEF CloseClient, CloseSocket
<1>17. QED
  BY ONLY <1>1, <1>2, <1>3, <1>4, <1>5, <1>6, <1>7, <1>8, <1>9, <1>10, <1>11, <1>12, <1>13,
     <1>14, <1>15, <1>16, MainStep DEF MainStep, ClientStep

\* There is a worker only while main streams.
LEMMA WorkerFresh ==
  ASSUME TypeOK, Fresh, WorkerStep
  PROVE  Fresh'
<1> USE DEF TypeOK, Fresh, Loop, vars, client, accept, ring, queue, worker, flags, outside,
    cursor
<1>1. CASE WorkerStart
  BY <1>1 DEF WorkerStart
<1>2. CASE WorkerStop
  BY <1>2 DEF WorkerStop
<1>3. CASE WorkerWait
  BY <1>3 DEF WorkerWait
<1>4. CASE WorkerDrain
  BY <1>4 DEF WorkerDrain
<1>5. CASE WorkerCheck
  BY <1>5 DEF WorkerCheck
<1>6. CASE WorkerSend
  BY <1>6 DEF WorkerSend, LimitReached
<1>7. CASE WorkerLimit \/ WorkerBeat
  BY <1>7 DEF WorkerLimit, WorkerBeat
<1>8. CASE WorkerFlush
  BY <1>8 DEF WorkerFlush
<1>9. CASE WorkerEnds
  BY <1>9 DEF WorkerEnds
<1>10. CASE Abort
  BY <1>10 DEF Abort
<1>11. CASE WorkerShutdown
  BY <1>11 DEF WorkerShutdown
<1>12. QED
  BY ONLY <1>1, <1>2, <1>3, <1>4, <1>5, <1>6, <1>7, <1>8, <1>9, <1>10, <1>11, WorkerStep
     DEF WorkerStep

\* There is a cursor thread only while main streams.
LEMMA CursorFresh ==
  ASSUME TypeOK, Fresh, CursorStep
  PROVE  Fresh'
<1> USE DEF TypeOK, Fresh, Loop, vars, client, accept, ring, queue, worker, flags, outside,
    cursor
<1>1. CASE CursorSend
  BY <1>1 DEF CursorSend
<1>2. CASE CursorEnds
  BY <1>2 DEF CursorEnds
<1>3. CASE CursorFails
  BY <1>3 DEF CursorFails
<1>4. CASE CursorShutdown
  BY <1>4 DEF CursorShutdown
<1>5. QED
  BY ONLY <1>1, <1>2, <1>3, <1>4, CursorStep DEF CursorStep

\* Nobody else touches what belongs to a client.
LEMMA OutsideFresh ==
  ASSUME TypeOK, Fresh, Outside
  PROVE  Fresh'
<1> USE DEF TypeOK, Fresh, Loop, vars, client, accept, ring, queue, worker, flags, outside,
    cursor
<1>1. CASE NewFrame
  BY <1>1 DEF NewFrame
<1>2. CASE PointerMoves
  BY <1>2 DEF PointerMoves
<1>3. CASE ClientLeaves
  BY <1>3 DEF ClientLeaves
<1>4. CASE ControlStop
  BY <1>4 DEF ControlStop
<1>5. CASE ControlClient
  BY <1>5 DEF ControlClient, CloseSocket
<1>6. CASE ControlListener
  BY <1>6 DEF ControlListener, CloseListener
<1>7. QED
  BY ONLY <1>1, <1>2, <1>3, <1>4, <1>5, <1>6, Outside DEF Outside, Control

\* Main stores the socket before the handshake and closes it when the client is over.
LEMMA MainSockets ==
  ASSUME TypeOK, Sockets, MainStep
  PROVE  Sockets'
<1> USE DEF TypeOK, Sockets, vars, client, accept, ring, queue, worker, flags, outside, cursor
<1>1. CASE AcceptClient
  BY <1>1 DEF AcceptClient
<1>2. CASE AcceptFails
  BY <1>2 DEF AcceptFails, Exit
<1>3. CASE HandshakeArrives
  BY <1>3 DEF HandshakeArrives
<1>4. CASE Head
  BY <1>4 DEF Head, Exit
<1>5. CASE StoreClient
  BY <1>5 DEF StoreClient, Exit
<1>6. CASE HandshakeFails
  BY <1>6 DEF HandshakeFails
<1>7. CASE FirstFrame
  BY <1>7 DEF FirstFrame, TakeFrame, Replay
<1>8. CASE Respond
  BY <1>8 DEF Respond
<1>9. CASE CaptureLoop
  BY <1>9 DEF CaptureLoop
<1>10. CASE CaptureWait
  BY <1>10 DEF CaptureWait, TakeFrame
<1>11. CASE Publish
  BY <1>11 DEF Publish
<1>12. CASE PublishHeartbeat
  BY <1>12 DEF PublishHeartbeat, SetBeat
<1>13. CASE Close
  BY <1>13 DEF Close, CloseQueue
<1>14. CASE JoinWorker
  BY <1>14 DEF JoinWorker
<1>15. CASE JoinCursor
  BY <1>15 DEF JoinCursor
<1>16. CASE CloseClient
  BY <1>16 DEF CloseClient, CloseSocket
<1>17. QED
  BY ONLY <1>1, <1>2, <1>3, <1>4, <1>5, <1>6, <1>7, <1>8, <1>9, <1>10, <1>11, <1>12, <1>13,
     <1>14, <1>15, <1>16, MainStep DEF MainStep, ClientStep

\* The worker only shuts the socket down.
LEMMA WorkerSockets ==
  ASSUME TypeOK, Sockets, WorkerStep
  PROVE  Sockets'
<1> USE DEF TypeOK, Sockets, vars, client, accept, ring, queue, worker, flags, outside, cursor
<1>1. CASE WorkerStart
  BY <1>1 DEF WorkerStart
<1>2. CASE WorkerStop
  BY <1>2 DEF WorkerStop
<1>3. CASE WorkerWait
  BY <1>3 DEF WorkerWait
<1>4. CASE WorkerDrain
  BY <1>4 DEF WorkerDrain
<1>5. CASE WorkerCheck
  BY <1>5 DEF WorkerCheck
<1>6. CASE WorkerSend
  BY <1>6 DEF WorkerSend, LimitReached
<1>7. CASE WorkerLimit \/ WorkerBeat
  BY <1>7 DEF WorkerLimit, WorkerBeat
<1>8. CASE WorkerFlush
  BY <1>8 DEF WorkerFlush
<1>9. CASE WorkerEnds
  BY <1>9 DEF WorkerEnds
<1>10. CASE Abort
  BY <1>10 DEF Abort
<1>11. CASE WorkerShutdown
  BY <1>11 DEF WorkerShutdown
<1>12. QED
  BY ONLY <1>1, <1>2, <1>3, <1>4, <1>5, <1>6, <1>7, <1>8, <1>9, <1>10, <1>11, WorkerStep
     DEF WorkerStep

\* The cursor thread only shuts the socket down.
LEMMA CursorSockets ==
  ASSUME TypeOK, Sockets, CursorStep
  PROVE  Sockets'
<1> USE DEF TypeOK, Sockets, vars, client, accept, ring, queue, worker, flags, outside, cursor
<1>1. CASE CursorSend
  BY <1>1 DEF CursorSend
<1>2. CASE CursorEnds
  BY <1>2 DEF CursorEnds
<1>3. CASE CursorFails
  BY <1>3 DEF CursorFails
<1>4. CASE CursorShutdown
  BY <1>4 DEF CursorShutdown
<1>5. QED
  BY ONLY <1>1, <1>2, <1>3, <1>4, CursorStep DEF CursorStep

\* The console handler closes the socket main has stored.
LEMMA OutsideSockets ==
  ASSUME TypeOK, Sockets, Outside
  PROVE  Sockets'
<1> USE DEF TypeOK, Sockets, vars, client, accept, ring, queue, worker, flags, outside, cursor
<1>1. CASE NewFrame
  BY <1>1 DEF NewFrame
<1>2. CASE PointerMoves
  BY <1>2 DEF PointerMoves
<1>3. CASE ClientLeaves
  BY <1>3 DEF ClientLeaves
<1>4. CASE ControlStop
  BY <1>4 DEF ControlStop
<1>5. CASE ControlClient
  BY <1>5 DEF ControlClient, CloseSocket
<1>6. CASE ControlListener
  BY <1>6 DEF ControlListener, CloseListener
<1>7. QED
  BY ONLY <1>1, <1>2, <1>3, <1>4, <1>5, <1>6, Outside DEF Outside, Control

\* Whatever ends a client - and wherever the console handler finds the host - its socket is
\* closed when the host accepts the next one or leaves its loop.
SocketClosed == rpc \in {"head", "accept", "exit"} => ~conn /\ ~known

\* The next client finds no thread, no frame, no flag and no closed queue of the one before.
NothingLeft ==
  rpc \in {"head", "accept", "accepted", "handshake", "first", "respond", "returned", "exit"} =>
    /\ wpc = "none" /\ cpc = "none"
    /\ pend = 0 /\ ~beat /\ ~qclosed /\ ~stopCapture /\ ~stopCursor

\* SocketClosed and NothingLeft hold for every bound, whatever fails.
THEOREM ClientsApart == Safety => [](SocketClosed /\ NothingLeft)
<1>1. Init => Fresh /\ Sockets
  BY DEF Init, Fresh, Loop, Sockets
<1>2. TypeOK /\ Fresh /\ Sockets /\ [Next]_vars => (Fresh /\ Sockets)'
  <2>1. Fresh /\ Sockets /\ UNCHANGED vars => (Fresh /\ Sockets)'
    BY DEF Fresh, Loop, Sockets, vars, client, accept, ring, queue, worker, flags, outside,
       cursor
  <2>2. QED
    BY <2>1, NextSteps, MainFresh, WorkerFresh, CursorFresh, OutsideFresh,
       MainSockets, WorkerSockets, CursorSockets, OutsideSockets
<1>3. Fresh /\ Sockets => SocketClosed /\ NothingLeft
  BY DEF Fresh, Loop, Sockets, SocketClosed, NothingLeft
<1>4. QED BY <1>1, <1>2, <1>3, TypeCorrect, PTL DEF Safety

----------------------------------------------------------------------------
(* The frames.                                                             *)

\* Main reads newer frames only, and puts each into the queue.
LEMMA MainFrames ==
  ASSUME TypeOK, Fresh, Forward, Kept, MainStep
  PROVE  Forward' /\ Kept'
<1> USE DEF TypeOK, Fresh, Loop, Forward, Kept, vars, client, accept, ring, queue, worker,
    flags, outside, cursor
<1>1. CASE AcceptClient
  BY <1>1 DEF AcceptClient
<1>2. CASE AcceptFails
  BY <1>2 DEF AcceptFails, Exit
<1>3. CASE HandshakeArrives
  BY <1>3 DEF HandshakeArrives
<1>4. CASE Head
  BY <1>4 DEF Head, Exit
<1>5. CASE StoreClient
  BY <1>5 DEF StoreClient, Exit
<1>6. CASE HandshakeFails
  BY <1>6 DEF HandshakeFails
<1>7. CASE FirstFrame
  BY <1>7 DEF FirstFrame, TakeFrame, Replay
<1>8. CASE Respond
  BY <1>8 DEF Respond
<1>9. CASE CaptureLoop
  BY <1>9 DEF CaptureLoop
<1>10. CASE CaptureWait
  BY <1>10 DEF CaptureWait, TakeFrame
<1>11. CASE Publish
  BY <1>11 DEF Publish
<1>12. CASE PublishHeartbeat
  BY <1>12 DEF PublishHeartbeat, SetBeat
<1>13. CASE Close
  BY <1>13 DEF Close, CloseQueue
<1>14. CASE JoinWorker
  BY <1>14 DEF JoinWorker
<1>15. CASE JoinCursor
  BY <1>15 DEF JoinCursor
<1>16. CASE CloseClient
  BY <1>16 DEF CloseClient, CloseSocket
<1>17. QED
  BY ONLY <1>1, <1>2, <1>3, <1>4, <1>5, <1>6, <1>7, <1>8, <1>9, <1>10, <1>11, <1>12, <1>13,
     <1>14, <1>15, <1>16, MainStep DEF MainStep, ClientStep

\* The worker takes what is in the queue and sends what it took.
LEMMA WorkerFrames ==
  ASSUME TypeOK, Fresh, Forward, Kept, WorkerStep
  PROVE  Forward' /\ Kept'
<1> USE DEF TypeOK, Fresh, Loop, Forward, Kept, vars, client, accept, ring, queue, worker,
    flags, outside, cursor
<1>1. CASE WorkerStart
  BY <1>1 DEF WorkerStart
<1>2. CASE WorkerStop
  BY <1>2 DEF WorkerStop
<1>3. CASE WorkerWait
  BY <1>3 DEF WorkerWait
<1>4. CASE WorkerDrain
  BY <1>4 DEF WorkerDrain
<1>5. CASE WorkerCheck
  BY <1>5 DEF WorkerCheck
<1>6. CASE WorkerSend
  BY <1>6 DEF WorkerSend, LimitReached
<1>7. CASE WorkerLimit \/ WorkerBeat
  BY <1>7 DEF WorkerLimit, WorkerBeat
<1>8. CASE WorkerFlush
  BY <1>8 DEF WorkerFlush
<1>9. CASE WorkerEnds
  BY <1>9 DEF WorkerEnds
<1>10. CASE Abort
  BY <1>10 DEF Abort
<1>11. CASE WorkerShutdown
  BY <1>11 DEF WorkerShutdown
<1>12. QED
  BY ONLY <1>1, <1>2, <1>3, <1>4, <1>5, <1>6, <1>7, <1>8, <1>9, <1>10, <1>11, WorkerStep
     DEF WorkerStep

\* The cursor thread touches no frame.
LEMMA CursorFrames ==
  ASSUME TypeOK, Fresh, Forward, Kept, CursorStep
  PROVE  Forward' /\ Kept'
<1> USE DEF TypeOK, Fresh, Loop, Forward, Kept, vars, client, accept, ring, queue, worker,
    flags, outside, cursor
<1>1. CASE CursorSend
  BY <1>1 DEF CursorSend
<1>2. CASE CursorEnds
  BY <1>2 DEF CursorEnds
<1>3. CASE CursorFails
  BY <1>3 DEF CursorFails
<1>4. CASE CursorShutdown
  BY <1>4 DEF CursorShutdown
<1>5. QED
  BY ONLY <1>1, <1>2, <1>3, <1>4, CursorStep DEF CursorStep

\* The ring's next frame is newer than every other.
LEMMA OutsideFrames ==
  ASSUME TypeOK, Fresh, Forward, Kept, Outside
  PROVE  Forward' /\ Kept'
<1> USE DEF TypeOK, Fresh, Loop, Forward, Kept, vars, client, accept, ring, queue, worker,
    flags, outside, cursor
<1>1. CASE NewFrame
  BY <1>1 DEF NewFrame
<1>2. CASE PointerMoves
  BY <1>2 DEF PointerMoves
<1>3. CASE ClientLeaves
  BY <1>3 DEF ClientLeaves
<1>4. CASE ControlStop
  BY <1>4 DEF ControlStop
<1>5. CASE ControlClient
  BY <1>5 DEF ControlClient, CloseSocket
<1>6. CASE ControlListener
  BY <1>6 DEF ControlListener, CloseListener
<1>7. QED
  BY ONLY <1>1, <1>2, <1>3, <1>4, <1>5, <1>6, Outside DEF Outside, Control

\* The invariant of the frames holds in every reachable state.
LEMMA FramesInvariant == Safety => [](TypeOK /\ Forward /\ Kept)
<1>1. Init => Fresh /\ Forward /\ Kept
  BY DEF Init, Fresh, Loop, Forward, Kept
<1>2. TypeOK /\ Fresh /\ Forward /\ Kept /\ [Next]_vars => (Fresh /\ Forward /\ Kept)'
  <2>1. Fresh /\ Forward /\ Kept /\ UNCHANGED vars => (Fresh /\ Forward /\ Kept)'
    BY DEF Fresh, Loop, Forward, Kept, vars, client, accept, ring, queue, worker, flags,
       outside, cursor
  <2>2. QED
    BY <2>1, NextSteps, MainFresh, WorkerFresh, CursorFresh, OutsideFresh,
       MainFrames, WorkerFrames, CursorFrames, OutsideFrames
<1>3. QED BY <1>1, <1>2, TypeCorrect, PTL DEF Safety

\* A worker that waits at an empty queue while main captures has sent the newest frame main has
\* read: neither a heartbeat nor a refresh nor the emptying of the queue has swallowed one.
NewestSent ==
  rpc \in {"loop", "wait", "beat"} /\ wpc = "wait" /\ pend = 0 /\ ~stop /\ ~stopCapture
      => sent = got

\* NewestSent holds for every bound: what QueuedFrameSent asks of a queued frame is done when
\* the worker is idle.
THEOREM NewestIsSent == Safety => []NewestSent
<1>1. TypeOK /\ Forward /\ Kept => NewestSent
  BY DEF TypeOK, Forward, Kept, Loop, NewestSent
<1>2. QED BY <1>1, FramesInvariant, PTL

\* To one client no frame is sent after a newer one, for every bound, though the worker sends
\* the last frame again and again.
THEOREM NeverBackwards == Safety => [][sent' >= sent \/ rpc' = "returned"]_vars
<1>1. TypeOK /\ Forward /\ [Next]_vars => [sent' >= sent \/ rpc' = "returned"]_vars
  <2> SUFFICES ASSUME TypeOK, Forward, Next PROVE sent' = sent \/ sent' >= sent
      \/ rpc' = "returned"
    BY DEF TypeOK
  <2>1. MainStep => sent' = sent \/ rpc' = "returned"
    BY DEF MainStep, ClientStep, AcceptClient, AcceptFails, HandshakeArrives, Head,
       StoreClient, HandshakeFails,
       FirstFrame, Respond, CaptureLoop, CaptureWait, Publish, PublishHeartbeat, Close,
       JoinWorker, JoinCursor,
       CloseClient, worker
  <2>2. WorkerStep => sent' = sent \/ sent' = cur
    BY DEF WorkerStep, WorkerStart, WorkerStop, WorkerWait, WorkerDrain, WorkerCheck,
       WorkerSend, WorkerLimit, WorkerBeat,
       WorkerFlush, WorkerEnds, Abort, WorkerShutdown
  <2>3. CursorStep \/ Outside => sent' = sent
    BY DEF CursorStep, CursorSend, CursorEnds, CursorFails, CursorShutdown, Outside, NewFrame,
       PointerMoves,
       ClientLeaves, ControlStop, Control, ControlClient, ControlListener, worker
  <2>4. sent <= cur
    BY DEF Forward
  <2>5. QED BY <2>1, <2>2, <2>3, <2>4, NextSteps
<1>2. QED BY <1>1, FramesInvariant, PTL DEF Safety

===============================================================================
