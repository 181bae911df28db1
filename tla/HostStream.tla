------------------------------ MODULE HostStream ------------------------------
(***************************************************************************)
(* The Windows host (main.cpp): the accept loop of main, which serves one  *)
(* client after the other by StreamClient.  The calling thread does the    *)
(* handshake and feeds captured frames and heartbeats into the one-place   *)
(* LatestFrameQueue, the worker encodes and sends them and re-encodes the  *)
(* last one while nothing new comes, the cursor thread sends the cursor's  *)
(* state when it changed; the console handler may stop the host.  The ring *)
(* delivers frame ids in increasing order (FrameRing) and holds the newest *)
(* one until it is read.  The encoder is taken to send a frame when it is  *)
(* given it, or to fail.                                                   *)
(***************************************************************************)
EXTENDS Naturals

CONSTANTS
  MaxFrames,   \* bound: frames the ring delivers
  MaxClients,  \* bound: clients accepted
  Limits,      \* values of config.frames; 0 is "no limit"
  Faults       \* what may fail: "accept", "ring", "encoder", "send", "cursor"

ASSUME HostAssumption ==
  /\ {MaxFrames, MaxClients} \subseteq Nat
  /\ Limits \subseteq Nat /\ Limits # {}
  /\ Faults \subseteq {"accept", "ring", "encoder", "send", "cursor"}

VARIABLES
  limit,                          \* config.frames
  rpc, got,                       \* main's thread: its step, the frame the reader caches
  clients, listening, known,      \* accepted so far; g_listener; g_client holds the socket
  avail, captured,                \* the ring: its unread frame, 0 if none; frames so far
  pend, beat, qclosed,            \* LatestFrameQueue (an aborted one is closed and empty)
  wpc, cur,                       \* the worker: its step and frame
  encoded, sent,                  \* encodedFrames; the last frame sent
  cpc, shown,                 \* the cursor thread; what it told the client of the pointer
  stopCapture, stopCursor,
  stop, handler,                  \* g_stop; the console handler's step
  conn                            \* whether the client's socket is open at both ends

client  == <<rpc, got>>
accept  == <<clients, listening, known>>
ring    == <<avail, captured>>
queue   == <<pend, beat, qclosed>>
worker  == <<wpc, cur, encoded, sent>>
flags   == <<stopCapture, stopCursor>>
outside == <<limit, stop, handler>>
cursor  == <<cpc, shown>>
vars    == <<client, accept, ring, queue, worker, cursor, flags, outside, conn>>

----------------------------------------------------------------------------
(* The calling thread.                                                     *)

Interrupted == stop \/ stopCapture \/ ~conn
SendFails   == ~conn \/ "send" \in Faults

OneMore(n)      == limit # 0 /\ n > limit           \* (Mutant.)
LimitReached(n) == limit # 0 /\ n >= limit

\* The accept loop of main.  Leaving it closes the listener.
Exit == rpc' = "exit" /\ listening' = FALSE

Head ==
  /\ rpc = "head"
  /\ IF stop \/ LimitReached(encoded) THEN Exit ELSE rpc' = "accept" /\ UNCHANGED listening
  /\ UNCHANGED <<got, clients, known, ring, queue, worker, cursor, flags, outside, conn>>

AcceptClient ==
  /\ rpc = "accept"
  /\ listening /\ clients < MaxClients
  /\ conn' = TRUE /\ clients' = clients + 1
  /\ rpc' = "accepted"
  /\ UNCHANGED <<got, listening, known, ring, queue, worker, cursor, flags, outside>>

AcceptFails ==
  /\ rpc = "accept"
  /\ ~listening \/ "accept" \in Faults
  /\ Exit
  /\ UNCHANGED <<got, clients, known, ring, queue, worker, cursor, flags, outside, conn>>

\* g_client.store, and ConfigureClientSocket: an option that cannot be set throws past
\* the loop.  Only from here on does the console handler know the socket.
StoreClient ==
  /\ rpc = "accepted"
  /\ \/ known' = TRUE /\ rpc' = "handshake" /\ UNCHANGED <<listening, conn>>
     \/ "accept" \in Faults /\ Exit /\ known' = FALSE /\ conn' = FALSE
  /\ UNCHANGED <<got, clients, ring, queue, worker, cursor, flags, outside>>

\* ReadHandshake and ParseHandshake: recv has no timeout, so a client may take any time.
HandshakeArrives ==
  /\ rpc = "handshake" /\ conn
  /\ rpc' \in {"first", "returned"}
  /\ UNCHANGED <<accept, got, ring, queue, worker, cursor, flags, outside, conn>>

HandshakeFails ==
  /\ rpc = "handshake" /\ ~conn
  /\ rpc' = "returned"
  /\ UNCHANGED <<accept, got, ring, queue, worker, cursor, flags, outside, conn>>

\* WaitForFrame: stopped or disconnected, a frame, a failure, or a heartbeat after a
\* second without a frame.  BeginClient has the frame cached from an earlier client
\* replayed first if its size fits.
Stopped == Interrupted \/ (avail = 0 /\ "ring" \in Faults)
TakeFrame == ~Interrupted /\ avail # 0 /\ got' = avail /\ avail' = 0
Replay == ~Interrupted /\ got # 0 /\ UNCHANGED <<got, avail>>
Silence == ~Interrupted /\ avail = 0

\* Everything but a frame ends the client here, a heartbeat too.
FirstFrame ==
  /\ rpc = "first"
  /\ \/ /\ TakeFrame \/ Replay
        /\ rpc' = "respond"
     \/ /\ Stopped \/ Silence
        /\ rpc' = "returned"
        /\ UNCHANGED <<got, avail>>
  /\ UNCHANGED <<accept, captured, queue, worker, cursor, flags, outside, conn>>

\* SendHandshakeResponse, the first frame into the queue, and the two threads.
Respond ==
  /\ rpc = "respond"
  /\ \/ /\ conn
        /\ pend' = got /\ encoded' = 0 /\ wpc' = "start" /\ cpc' = "run"
        /\ rpc' = "loop"
     \/ /\ SendFails
        /\ rpc' = "returned"
        /\ UNCHANGED <<pend, encoded, wpc, cpc>>
  /\ UNCHANGED <<accept, got, ring, beat, qclosed, cur, sent, shown, flags, outside, conn>>

CaptureLoop ==
  /\ rpc = "loop"
  /\ rpc' = IF stop \/ stopCapture \/ LimitReached(encoded) THEN "close" ELSE "wait"
  /\ UNCHANGED <<accept, got, ring, queue, worker, cursor, flags, outside, conn>>

CaptureWait ==
  /\ rpc = "wait"
  /\ \/ Stopped /\ rpc' = "close" /\ UNCHANGED <<got, avail>>
     \/ TakeFrame /\ rpc' = "publish"
     \/ Silence /\ rpc' = "beat" /\ UNCHANGED <<got, avail>>
  /\ UNCHANGED <<accept, captured, queue, worker, cursor, flags, outside, conn>>

Publish ==
  /\ rpc = "publish"
  /\ IF qclosed THEN rpc' = "close" /\ UNCHANGED pend
                ELSE rpc' = "loop" /\ pend' = got
  /\ UNCHANGED <<accept, got, ring, beat, qclosed, worker, cursor, flags, outside, conn>>

BeatReplaces == beat' = TRUE /\ pend' = 0            \* (Mutant.)
SetBeat      == beat' = TRUE /\ pend' = pend
PublishHeartbeat ==
  /\ rpc = "beat"
  /\ IF qclosed THEN rpc' = "close" /\ UNCHANGED <<pend, beat>>
                ELSE rpc' = "loop" /\ SetBeat
  /\ UNCHANGED <<accept, got, ring, qclosed, worker, cursor, flags, outside, conn>>

LeaveOpen  == UNCHANGED qclosed                      \* (Mutant.)
CloseQueue == qclosed' = TRUE
Close ==
  /\ rpc = "close"
  /\ CloseQueue
  /\ rpc' = "joinWorker"
  /\ UNCHANGED <<accept, got, ring, pend, beat, worker, cursor, flags, outside, conn>>

JoinWorker ==
  /\ rpc = "joinWorker"
  /\ wpc = "exited"
  /\ stopCursor' = TRUE
  /\ rpc' = "joinCursor"
  /\ UNCHANGED <<accept, got, ring, queue, worker, cursor, stopCapture, outside, conn>>

\* StreamClient's queue, state and threads go with its return.
JoinCursor ==
  /\ rpc = "joinCursor"
  /\ cpc = "exited"
  /\ rpc' = "returned"
  /\ pend' = 0 /\ beat' = FALSE /\ qclosed' = FALSE
  /\ wpc' = "none" /\ cur' = 0 /\ sent' = 0
  /\ cpc' = "none" /\ shown' = "none"
  /\ stopCapture' = FALSE /\ stopCursor' = FALSE
  /\ UNCHANGED <<accept, got, ring, encoded, outside, conn>>

\* CloseSocket(g_client): the exchange lets only one thread close the socket.
CloseSocket == known' = FALSE /\ conn' = (conn /\ ~known)

CloseClient ==
  /\ rpc = "returned"
  /\ CloseSocket
  /\ rpc' = "head"
  /\ UNCHANGED <<got, clients, listening, ring, queue, worker, cursor, flags, outside>>

ClientStep ==
  \/ Head \/ StoreClient \/ HandshakeFails \/ FirstFrame \/ Respond
  \/ CaptureLoop \/ CaptureWait \/ Publish \/ PublishHeartbeat
  \/ Close \/ JoinWorker \/ JoinCursor \/ CloseClient

----------------------------------------------------------------------------
(* The worker.                                                             *)

WorkerStart ==
  /\ wpc = "start"
  /\ \/ wpc' = "wait"
     \/ "encoder" \in Faults /\ wpc' = "fail"
  /\ UNCHANGED <<accept, client, ring, queue, cur, encoded, sent, cursor, flags, outside, conn>>

WorkerStop ==
  /\ wpc = "wait" /\ stop
  /\ wpc' = "flush"
  /\ UNCHANGED <<accept, client, ring, queue, cur, encoded, sent, cursor, flags, outside, conn>>

\* WaitFor: a frame before a heartbeat, both before the end of the queue.  A queue
\* that stays empty for a refresh interval has the last frame encoded again.
WorkerWait ==
  /\ wpc = "wait"
  /\ \/ /\ pend # 0
        /\ cur' = pend /\ pend' = 0
        /\ wpc' = "drain"
        /\ UNCHANGED beat
     \/ /\ pend = 0 /\ beat
        /\ beat' = FALSE
        /\ wpc' = "sendBeat"
        /\ UNCHANGED <<cur, pend>>
     \/ /\ pend = 0 /\ ~beat /\ qclosed
        /\ wpc' = "flush"
        /\ UNCHANGED <<cur, pend, beat>>
     \/ /\ pend = 0 /\ ~beat /\ ~qclosed
        /\ limit = 0 /\ cur # 0
        /\ wpc' = "encode"
        /\ UNCHANGED <<cur, pend, beat>>
  /\ UNCHANGED <<accept, client, ring, qclosed, encoded, sent, cursor, flags, outside, conn>>

\* TakePending until there is nothing newer.
WorkerDrain ==
  /\ wpc = "drain"
  /\ IF pend # 0 THEN cur' = pend /\ pend' = 0 /\ UNCHANGED wpc
                 ELSE wpc' = "encode" /\ UNCHANGED <<cur, pend>>
  /\ UNCHANGED <<accept, client, ring, beat, qclosed, encoded, sent, cursor, flags, outside, conn>>

WorkerCheck ==
  /\ wpc = "encode"
  /\ wpc' = IF stop \/ stopCapture THEN "wait" ELSE "send"
  /\ UNCHANGED <<accept, client, ring, queue, cur, encoded, sent, cursor, flags, outside, conn>>

\* encodeCurrentFrame.  Without a limit the count of frames is only a statistic; at the
\* limit the encoder is drained before the worker ends.
WorkerSend ==
  /\ wpc = "send"
  /\ \/ /\ conn
        /\ sent' = cur
        /\ encoded' = IF limit = 0 THEN 0 ELSE encoded + 1
        /\ wpc' = IF LimitReached(encoded + 1) THEN "limitDrain" ELSE "wait"
     \/ /\ SendFails \/ "encoder" \in Faults
        /\ wpc' = "fail"
        /\ UNCHANGED <<sent, encoded>>
  /\ UNCHANGED <<accept, client, ring, queue, cur, cursor, flags, outside, conn>>

WorkerLimit ==
  /\ wpc = "limitDrain"
  /\ \/ wpc' = "limit"
     \/ (SendFails \/ "encoder" \in Faults) /\ wpc' = "fail"
  /\ UNCHANGED <<accept, client, ring, queue, cur, encoded, sent, cursor, flags, outside, conn>>

WorkerBeat ==
  /\ wpc = "sendBeat"
  /\ \/ conn /\ wpc' = "wait"
     \/ SendFails /\ wpc' = "fail"
  /\ UNCHANGED <<accept, client, ring, queue, cur, encoded, sent, cursor, flags, outside, conn>>

WorkerFlush ==
  /\ wpc = "flush"
  /\ \/ wpc' = "exited"
     \/ "encoder" \in Faults /\ wpc' = "fail"
  /\ UNCHANGED <<accept, client, ring, queue, cur, encoded, sent, cursor, flags, outside, conn>>

\* The frame limit is reached, or an exception ends the worker.
WorkerEnds ==
  /\ wpc \in {"limit", "fail"}
  /\ stopCapture' = TRUE
  /\ wpc' = IF wpc = "limit" THEN "limitAbort" ELSE "abort"
  /\ UNCHANGED <<accept, client, ring, queue, cur, encoded, sent, cursor, stopCursor, outside, conn>>

Abort ==
  /\ wpc \in {"limitAbort", "abort"}
  /\ qclosed' = TRUE /\ pend' = 0 /\ beat' = FALSE
  /\ wpc' = IF wpc = "limitAbort" THEN "exited" ELSE "shutdown"
  /\ UNCHANGED <<accept, client, ring, cur, encoded, sent, cursor, flags, outside, conn>>

WorkerShutdown ==
  /\ wpc = "shutdown"
  /\ conn' = FALSE
  /\ wpc' = "exited"
  /\ UNCHANGED <<accept, client, ring, queue, cur, encoded, sent, cursor, flags, outside>>

WorkerStep ==
  \/ WorkerStart \/ WorkerStop \/ WorkerWait \/ WorkerDrain \/ WorkerCheck \/ WorkerSend
  \/ WorkerLimit \/ WorkerBeat \/ WorkerFlush \/ WorkerEnds \/ Abort \/ WorkerShutdown

----------------------------------------------------------------------------
(* The cursor thread.                                                      *)

\* Poll reports the first state, and every one that differs from the last reported.
OnlyMoves == shown = "old"                           \* (Mutant.)
Changed   == shown # "now"

CursorSend ==
  /\ cpc = "run"
  /\ Changed /\ conn
  /\ shown' = "now"
  /\ UNCHANGED <<accept, client, ring, queue, worker, cpc, flags, outside, conn>>

CursorEnds ==
  /\ cpc = "run"
  /\ stop \/ stopCursor \/ stopCapture
  /\ cpc' = "exited"
  /\ UNCHANGED <<accept, client, ring, queue, worker, shown, flags, outside, conn>>

CursorFails ==
  /\ cpc = "run"
  /\ Changed
  /\ ~conn \/ "cursor" \in Faults
  /\ stopCapture' = TRUE
  /\ cpc' = "shutdown"
  /\ UNCHANGED <<accept, client, ring, queue, worker, shown, stopCursor, outside, conn>>

CursorShutdown ==
  /\ cpc = "shutdown"
  /\ conn' = FALSE
  /\ cpc' = "exited"
  /\ UNCHANGED <<accept, client, ring, queue, worker, shown, flags, outside>>

----------------------------------------------------------------------------
(* The driver, the client and the console.                                 *)

NewFrame ==
  /\ captured < MaxFrames
  /\ captured' = captured + 1
  /\ avail' = captured'
  /\ UNCHANGED <<accept, client, queue, worker, cursor, flags, outside, conn>>

\* The pointer moves, within the monitor, onto it or away, or back to where it was.
PointerMoves ==
  /\ shown # "none"
  /\ shown' = IF shown = "now" THEN "old" ELSE "now"
  /\ UNCHANGED <<accept, client, ring, queue, worker, cpc, flags, outside, conn>>

ClientLeaves ==
  /\ conn
  /\ conn' = FALSE
  /\ UNCHANGED <<accept, client, ring, queue, worker, cursor, flags, outside>>

\* ConsoleControlHandler, on a thread of its own: g_stop, then the client's socket if
\* main has stored one, then the listener.
ControlStop ==
  /\ handler = "idle"
  /\ stop' = TRUE
  /\ handler' = "client"
  /\ UNCHANGED <<accept, client, ring, queue, worker, cursor, flags, limit, conn>>

ControlClient ==
  /\ handler = "client"
  /\ CloseSocket
  /\ handler' = "listener"
  /\ UNCHANGED <<client, clients, listening, ring, queue, worker, cursor, flags, limit, stop>>

LeaveListening   == UNCHANGED listening              \* (Mutant.)
CloseListener    == listening' = FALSE
ControlListener ==
  /\ handler = "listener"
  /\ CloseListener
  /\ handler' = "done"
  /\ UNCHANGED <<client, clients, known, ring, queue, worker, cursor, flags, limit, stop, conn>>

----------------------------------------------------------------------------
Init ==
  /\ limit \in Limits
  /\ rpc = "head" /\ got = 0
  /\ clients = 0 /\ listening = TRUE /\ known = FALSE
  /\ avail = 0 /\ captured = 0
  /\ pend = 0 /\ beat = FALSE /\ qclosed = FALSE
  /\ wpc = "none" /\ cur = 0 /\ encoded = 0 /\ sent = 0
  /\ cpc = "none" /\ shown = "none" /\ stopCapture = FALSE /\ stopCursor = FALSE
  /\ stop = FALSE /\ handler = "idle"
  /\ conn = FALSE

CursorStep == CursorSend \/ CursorEnds \/ CursorFails \/ CursorShutdown
Control    == ControlClient \/ ControlListener
Outside    == NewFrame \/ PointerMoves \/ ClientLeaves \/ ControlStop \/ Control
Next ==
  \/ AcceptClient \/ AcceptFails \/ HandshakeArrives \/ ClientStep
  \/ WorkerStep \/ CursorStep \/ Outside

\* The threads of the host and a begun console handler keep running.  The desktop, the
\* client - its connection, its handshake - and the user owe nothing, and no call has to
\* fail on a sound socket.
Fairness ==
  /\ WF_vars(ClientStep) /\ WF_vars(~listening /\ AcceptFails)
  /\ WF_vars(WorkerStep) /\ WF_vars(Control)
  /\ WF_vars(CursorSend \/ (~conn /\ CursorFails) \/ CursorShutdown) /\ WF_vars(CursorEnds)

Safety == Init /\ [][Next]_vars
Spec   == Safety /\ Fairness

----------------------------------------------------------------------------
(* Properties.                                                             *)

\* The shape of the state.
TypeOK ==
  /\ limit \in Limits
  /\ rpc \in {"head", "accept", "accepted", "handshake", "first", "respond", "loop", "wait",
              "publish", "beat", "close", "joinWorker", "joinCursor", "returned", "exit"}
  /\ clients \in 0 .. MaxClients
  /\ {got, avail, captured, pend, cur, sent} \subseteq 0 .. MaxFrames
  /\ {listening, known, beat, qclosed, stopCapture, stopCursor, stop, conn} \subseteq BOOLEAN
  /\ wpc \in {"none", "start", "wait", "drain", "encode", "send", "sendBeat", "flush",
              "limitDrain", "limit", "limitAbort", "fail", "abort", "shutdown", "exited"}
  /\ encoded \in Nat /\ encoded <= limit
  /\ cpc \in {"none", "run", "shutdown", "exited"} /\ shown \in {"none", "old", "now"}
  /\ handler \in {"idle", "client", "listener", "done"}

\* A frame that has been put into the queue is sent, or a newer one is, unless the
\* stream ends: no heartbeat or refresh swallows it.
QueuedFrameSent ==
  \A n \in 1 .. MaxFrames : (pend = n) ~> (sent >= n \/ rpc = "returned")

\* Whichever thread notices the end first - the console handler, a send that fails,
\* the ring, the frame limit, a client that leaves - StreamClient joins the other two
\* threads and returns to accept the next client.
Streaming == rpc \in {"first", "respond", "loop", "wait", "publish", "beat", "close",
                      "joinWorker", "joinCursor"}
EndsTogether ==
  (Streaming /\ (stop \/ stopCapture \/ ~conn \/ rpc = "close"
                 \/ wpc = "exited" \/ cpc = "exited")) ~> (rpc = "returned")

\* A stopped host leaves its accept loop, wherever it was - with one exception: the
\* handler found no client to close between accept and g_client.store, and that client
\* never sends its handshake.
StopEndsHost == stop ~> (rpc = "exit" \/ (rpc = "handshake" /\ handler = "done" /\ conn))

\* A client whose cursor thread runs is told where the pointer is, from the start and
\* after each move, whether or not it moves again; the last place is not lost.
CursorShown == (cpc = "run") ~> (shown = "now" \/ cpc # "run")

\* A client that is connected and has done its handshake is not dropped because the
\* scene is static.
StaticSceneKeepsClient == [][rpc = "first" /\ rpc' = "returned" => Interrupted]_vars
=============================================================================
