--------------------------- MODULE ConnectionManager ---------------------------
(***************************************************************************)
(* ConnectionManager on the Android side: start, stop, reconnect and close *)
(* as MainActivity calls them on the main thread, and the connection loops *)
(* they start, each on a thread of its own.  stop() does not wait for the  *)
(* loop it stops, so that loops of several generations overlap; what keeps *)
(* them apart is the generation, compared under the lock.                  *)
(*                                                                         *)
(* A loop is named by its generation (its token); so are its socket and    *)
(* its StreamReceiver, of which it has one at a time.  0 is null.  A       *)
(* receiver is what VideoReceiver promises: it ends once it is closed or   *)
(* fails.  The host serves one socket at a time, as HostStream does.       *)
(***************************************************************************)
EXTENDS Integers

CONSTANTS
  MaxGeneration, \* bound: highest generation
  MaxSurfaces,   \* bound: times the display surface is created
  MaxFaults      \* bound: failures of network, host, answers and codecs

ASSUME ConnectionAssumption == {MaxGeneration, MaxSurfaces, MaxFaults} \subseteq Nat

Token    == 1 .. MaxGeneration
Surfaces == 1 .. MaxSurfaces
Left     == -1     \* holder of a surface: a decoder thread that was not waited for
Gone     == -1     \* what the host serves: a socket whose other end is closed

VARIABLES
  main,                                \* the main thread: idle or between two calls
  incarnation, surfaceReady, resumed,  \* life cycle of surface and activity
  running, closed, generation, surface,
  activeSocket, activeReceiver,
  pc, socket,                          \* of each loop
  given, stopRequested,                \* its receiver: surface and flag
  stale,                               \* history: reports it made when no longer current
  holder,                              \* of each surface: the codec that draws on it
  posted, retryButton,                 \* status last posted to the main thread; button visible
  late,                                \* history: a replaced loop posted that status
  up, serving, faults                  \* the host

ui      == <<incarnation, surfaceReady, resumed>>
state   == <<running, closed, generation, surface>>
active  == <<activeSocket, activeReceiver>>
host    == <<up, serving, faults>>
streams == <<given, stopRequested, holder>>
status  == <<stale, late, posted>>
vars    == <<main, ui, state, active, pc, socket, streams, status, retryButton, host>>

----------------------------------------------------------------------------
(* Calls of the main thread.                                               *)

RunningOnly(g) == ~closed /\ running                         \* (Mutant.)
Current(g)     == ~closed /\ running /\ generation = g

\* The sockets are closed; the host may notice later.
CloseSockets(S) ==
  /\ socket' = [g \in Token |-> IF g \in S /\ socket[g] # "none" THEN "closed" ELSE socket[g]]
  /\ serving' = IF serving \in S \ {0} THEN Gone ELSE serving
  /\ UNCHANGED <<up, faults>>

Start(s) ==
  IF s = 0 \/ closed THEN UNCHANGED <<state, pc>>
  ELSE /\ surface' = s
       /\ running' = TRUE
       /\ IF running THEN UNCHANGED <<generation, pc>>
          ELSE /\ generation' = generation + 1
               /\ pc' = [pc EXCEPT ![generation + 1] = "head"]
       /\ UNCHANGED closed

StopLeavesAll ==                                             \* (Mutant: nothing is closed.)
  /\ running' = FALSE
  /\ generation' = generation + 1
  /\ activeReceiver' = 0 /\ activeSocket' = 0
  /\ UNCHANGED <<closed, surface, pc, socket, streams, host>>
Stop ==
  /\ running' = FALSE
  /\ generation' = generation + 1
  /\ activeReceiver' = 0 /\ activeSocket' = 0
  /\ stopRequested' = [g \in Token |-> stopRequested[g] \/ g = activeReceiver]
  /\ CloseSockets({activeReceiver, activeSocket})
  /\ UNCHANGED <<closed, surface, pc, given, holder>>

Idle(room) == main = "idle" /\ generation + room <= MaxGeneration

SurfaceCreated ==
  /\ Idle(1) /\ ~surfaceReady /\ ~closed /\ incarnation < MaxSurfaces
  /\ incarnation' = incarnation + 1 /\ surfaceReady' = TRUE
  /\ Start(incarnation + 1)
  /\ UNCHANGED <<main, resumed, active, socket, streams, status, retryButton, host>>

SurfaceChanged ==
  /\ Idle(1) /\ surfaceReady
  /\ Start(incarnation)
  /\ UNCHANGED <<main, ui, active, socket, streams, status, retryButton, host>>

SurfaceDestroyed ==
  /\ Idle(1) /\ surfaceReady
  /\ surfaceReady' = FALSE
  /\ Stop
  /\ UNCHANGED <<main, incarnation, resumed, status, retryButton>>

OnResume ==
  /\ Idle(1) /\ ~resumed /\ ~closed
  /\ resumed' = TRUE
  /\ IF surfaceReady THEN Start(incarnation) ELSE UNCHANGED <<state, pc>>
  /\ UNCHANGED <<main, incarnation, surfaceReady, active, socket, streams, status, retryButton, host>>

OnPause ==
  /\ Idle(1) /\ resumed
  /\ resumed' = FALSE
  /\ Stop
  /\ UNCHANGED <<main, incarnation, surfaceReady, status, retryButton>>

\* The button, displayed with an error: reconnect() is stop() and start().
Reconnect ==
  /\ Idle(2) /\ resumed /\ surfaceReady /\ retryButton
  /\ Stop
  /\ main' = "reconnect"
  /\ UNCHANGED <<ui, status, retryButton>>

ReconnectStarts ==
  /\ main = "reconnect"
  /\ Start(IF surface = incarnation THEN surface ELSE 0)
  /\ main' = "idle"
  /\ UNCHANGED <<ui, active, socket, streams, status, retryButton, host>>

OnDestroy ==
  /\ Idle(1) /\ ~resumed /\ ~closed
  /\ closed' = TRUE
  /\ main' = "close"
  /\ UNCHANGED <<ui, running, generation, surface, active, pc, socket, streams, status, retryButton, host>>

CloseStops ==
  /\ main = "close"
  /\ Stop
  /\ main' = "idle"
  /\ UNCHANGED <<ui, status, retryButton>>

\* The main thread comes to what was posted to it.
ShowStatus ==
  /\ main = "idle" /\ retryButton # (posted \in {"error", "disconnected"})
  /\ retryButton' = ~retryButton
  /\ UNCHANGED <<main, ui, state, active, pc, socket, streams, status, host>>

----------------------------------------------------------------------------
(* runConnectionLoop, one step for each critical section, call or wait.    *)
(* Two checks of isCurrent with nothing between them are one step: once a  *)
(* loop is not current it never is again.  "head" includes the wait before *)
(* the next attempt, which stop() cuts short.                              *)

Step(g, from, to) == pc[g] = from /\ pc' = [pc EXCEPT ![g] = to]

\* isCurrent under the lock decides where to go on.
Decide(g, from, yes, no) ==
  /\ Step(g, from, IF Current(g) THEN yes ELSE no)
  /\ UNCHANGED <<main, ui, state, active, socket, streams, status, retryButton, host>>

\* A listener method, called after the check and outside the lock.
Notify(g, what, next) ==
  /\ Step(g, what, next)
  /\ stale' = [stale EXCEPT ![g] = @ + (IF running /\ generation = g THEN 0 ELSE 1)]
  /\ IF what = "cursor" THEN UNCHANGED <<posted, late>>
     ELSE posted' = what /\ late' = ~(running /\ generation = g)
  /\ UNCHANGED <<main, ui, state, active, socket, streams, retryButton, host>>

Fail == faults < MaxFaults /\ faults' = faults + 1

\* A connection over the USB bridge may be accepted, and ended, without a host.
Connect(g) ==
  /\ \/ /\ up /\ Step(g, "connect", "install")
        /\ socket' = [socket EXCEPT ![g] = "open"]
        /\ UNCHANGED faults
     \/ /\ ~up /\ Step(g, "connect", "install")
        /\ socket' = [socket EXCEPT ![g] = "eof"]
        /\ UNCHANGED faults
     \/ /\ Step(g, "connect", "report")
        /\ socket' = [socket EXCEPT ![g] = "none"]
        /\ IF up THEN Fail ELSE UNCHANGED faults
  /\ UNCHANGED <<main, ui, state, active, streams, status, retryButton, up, serving>>

InstallAlways(g) ==                                          \* (Mutant: no check.)
  /\ Step(g, "install", "handshake")
  /\ activeSocket' = g
  /\ UNCHANGED <<main, ui, state, activeReceiver, socket, streams, status, retryButton, host>>
InstallActiveSocket(g) ==
  \/ /\ Current(g)
     /\ Step(g, "install", "handshake")
     /\ activeSocket' = g
     /\ UNCHANGED <<main, ui, state, activeReceiver, socket, streams, status, retryButton, host>>
  \/ /\ ~Current(g)
     /\ Step(g, "install", "return")
     /\ CloseSockets({g})
     /\ UNCHANGED <<main, ui, state, active, streams, status, retryButton>>

\* There is no timeout: it takes an answer, the end of the stream, or stop().
PerformHandshake(g) ==
  /\ \/ /\ socket[g] = "open" /\ serving = g
        /\ Step(g, "handshake", "answered")
        /\ UNCHANGED faults
     \/ /\ socket[g] = "open" /\ serving = g /\ Fail       \* not an answer the client accepts
        /\ Step(g, "handshake", "report")
     \/ /\ socket[g] # "open"
        /\ Step(g, "handshake", "report")
        /\ UNCHANGED faults
  /\ UNCHANGED <<main, ui, state, active, socket, streams, status, retryButton, up, serving>>

\* The new StreamReceiver, for the surface of the moment, installed if the loop is
\* still current.  The surface is read just before, outside the lock: a new one comes
\* only after stop(), so that a loop that is still current has read the one there is.
ReceiverAlways(g) ==                                         \* (Mutant: no check.)
  /\ Step(g, "answered", "hail")
  /\ activeReceiver' = g
  /\ given' = [given EXCEPT ![g] = surface]
  /\ UNCHANGED <<main, ui, state, activeSocket, socket, stopRequested, holder, status, retryButton, host>>
InstallActiveReceiver(g) ==
  \/ /\ Current(g) /\ activeSocket = g
     /\ Step(g, "answered", "hail")
     /\ activeReceiver' = g
     /\ given' = [given EXCEPT ![g] = surface]
     /\ UNCHANGED <<main, ui, state, activeSocket, socket, stopRequested, holder, status, retryButton, host>>
  \/ /\ ~(Current(g) /\ activeSocket = g)
     /\ Step(g, "answered", "return")
     /\ CloseSockets({g})
     /\ UNCHANGED <<main, ui, state, active, streams, status, retryButton>>

\* StreamReceiver.run until its first video packet.
ReadFirst(g) ==
  /\ \/ socket[g] = "open" /\ serving = g /\ Step(g, "first", "configure")
     \/ socket[g] # "open" /\ Step(g, "first", "report")
  /\ UNCHANGED <<main, ui, state, active, socket, streams, status, retryButton, host>>

\* A codec can be had on a surface that exists and that no other codec draws on.
Drawable(s) == surfaceReady /\ s = incarnation /\ holder[s] = 0

StartDecoder(g) ==
  /\ \/ /\ Drawable(given[g])
        /\ Step(g, "configure", "stream")
        /\ holder' = [holder EXCEPT ![given[g]] = g]
        /\ UNCHANGED faults
     \/ /\ Step(g, "configure", "report")
        /\ IF Drawable(given[g]) THEN Fail ELSE UNCHANGED faults
        /\ UNCHANGED holder
  /\ UNCHANGED <<main, ui, state, active, socket, given, stopRequested, status, retryButton, up, serving>>

CursorPacket(g) ==
  /\ socket[g] = "open" /\ serving = g /\ Current(g)
  /\ Step(g, "stream", "cursor")
  /\ UNCHANGED <<main, ui, state, active, socket, streams, status, retryButton, host>>

\* By the end of the socket, or by decoder or watchdog.
StreamEnds(g) ==
  /\ Step(g, "stream", "join")
  /\ socket' = [socket EXCEPT ![g] = "closed"]
  /\ serving' = IF serving = g THEN Gone ELSE serving
  /\ IF socket[g] = "open" THEN Fail ELSE UNCHANGED faults
  /\ UNCHANGED <<main, ui, state, active, streams, status, retryButton, up>>

\* stop() interrupted the thread of the loop, by shutdownNow: join() then throws at
\* once.  It also returns after a second while the decoder thread hangs in the codec.
JoinDecoder(g) ==
  /\ Step(g, "join", IF stopRequested[g] THEN "clear" ELSE "report")
  /\ \/ /\ holder' = [holder EXCEPT ![given[g]] = 0]
        /\ UNCHANGED faults
     \/ /\ holder' = [holder EXCEPT ![given[g]] = Left]
        /\ IF running /\ generation = g THEN Fail ELSE UNCHANGED faults
  /\ UNCHANGED <<main, ui, state, active, socket, given, stopRequested, status, retryButton, up, serving>>

FinishKeepsSocket(g) ==                                      \* (Mutant.)
  /\ \/ Step(g, "clear", IF Current(g) THEN "disconnected" ELSE "ended")
     \/ Step(g, "return", "ended")
  /\ stopRequested' = [stopRequested EXCEPT ![g] = FALSE]
  /\ given' = [given EXCEPT ![g] = 0]
  /\ UNCHANGED <<main, ui, state, socket, holder, status, retryButton, host>>

\* The finally block, receiver.close and clearActiveResources, after which the loop
\* checks whether it goes on.
Finish(g) ==
  /\ \/ Step(g, "clear", IF Current(g) THEN "disconnected" ELSE "ended")
     \/ Step(g, "return", "ended")
  /\ stopRequested' = [stopRequested EXCEPT ![g] = FALSE]
  /\ given' = [given EXCEPT ![g] = 0]
  /\ socket' = [socket EXCEPT ![g] = "none"]
  /\ serving' = IF serving = g THEN Gone ELSE serving
  /\ UNCHANGED <<main, ui, state, holder, status, retryButton, up, faults>>

ClearAll(g) ==                                               \* (Mutant: no comparison.)
  /\ Finish(g)
  /\ activeSocket' = 0 /\ activeReceiver' = 0
ClearActiveResources(g) ==
  /\ Finish(g)
  /\ activeSocket' = IF activeSocket = g THEN 0 ELSE activeSocket
  /\ activeReceiver' = IF activeReceiver = g THEN 0 ELSE activeReceiver

NoHail(g) == Decide(g, "hail", "first", "first")             \* (Mutant.)
Hail(g)   == Decide(g, "hail", "connected", "first")

RunConnectionLoop(g) ==
  \/ Decide(g, "head", "connecting", "ended")
  \/ Notify(g, "connecting", "connect")
  \/ Connect(g)
  \/ InstallActiveSocket(g)
  \/ PerformHandshake(g)
  \/ InstallActiveReceiver(g)
  \/ Hail(g)
  \/ Notify(g, "connected", "first")
  \/ ReadFirst(g)
  \/ StartDecoder(g)
  \/ CursorPacket(g)
  \/ Notify(g, "cursor", "stream")
  \/ StreamEnds(g)
  \/ JoinDecoder(g)
  \/ Decide(g, "report", "error", "clear")
  \/ Notify(g, "error", "clear")
  \/ ClearActiveResources(g)
  \/ Notify(g, "disconnected", "head")

\* A decoder thread that was left behind ends in its own time.
DecoderStays(s) == FALSE /\ UNCHANGED vars                  \* (Mutant: no release in the finally block.)
DecoderReleases(s) ==
  /\ holder[s] = Left
  /\ holder' = [holder EXCEPT ![s] = 0]
  /\ UNCHANGED <<main, ui, state, active, pc, socket, given, stopRequested, status, retryButton, host>>

----------------------------------------------------------------------------
(* The host: one client at a time.                                         *)

HostAccepts ==
  /\ up /\ serving = 0
  /\ \E g \in Token : socket[g] = "open" /\ serving' = g
  /\ UNCHANGED <<main, ui, state, active, pc, socket, streams, status, retryButton, up, faults>>

HostNotices ==
  /\ serving = Gone
  /\ serving' = 0
  /\ UNCHANGED <<main, ui, state, active, pc, socket, streams, status, retryButton, up, faults>>

HostDrops ==
  /\ serving > 0 /\ Fail
  /\ socket' = [socket EXCEPT ![serving] = "eof"]
  /\ serving' = 0
  /\ UNCHANGED <<main, ui, state, active, pc, streams, status, retryButton, up>>

HostExits ==
  /\ up /\ Fail
  /\ up' = FALSE /\ serving' = 0
  /\ socket' = [g \in Token |-> IF socket[g] = "open" THEN "eof" ELSE socket[g]]
  /\ UNCHANGED <<main, ui, state, active, pc, streams, status, retryButton>>

HostStarts ==
  /\ ~up
  /\ up' = TRUE
  /\ UNCHANGED <<main, ui, state, active, pc, socket, streams, status, retryButton, serving, faults>>

----------------------------------------------------------------------------
Init ==
  /\ main = "idle" /\ incarnation = 0 /\ surfaceReady = FALSE /\ resumed = FALSE
  /\ running = FALSE /\ closed = FALSE /\ generation = 0 /\ surface = 0
  /\ activeSocket = 0 /\ activeReceiver = 0
  /\ pc = [g \in Token |-> "none"] /\ socket = [g \in Token |-> "none"]
  /\ given = [g \in Token |-> 0] /\ stopRequested = [g \in Token |-> FALSE]
  /\ stale = [g \in Token |-> 0]
  /\ holder = [s \in Surfaces |-> 0]
  /\ posted = "none" /\ late = FALSE /\ retryButton = FALSE
  /\ up = TRUE /\ serving = 0 /\ faults = 0

MainCall ==
  \/ SurfaceCreated \/ SurfaceChanged \/ SurfaceDestroyed
  \/ OnResume \/ OnPause \/ Reconnect \/ OnDestroy
MainContinues == ReconnectStarts \/ CloseStops \/ ShowStatus
HostStep      == HostAccepts \/ HostNotices

Next ==
  \/ MainCall \/ MainContinues
  \/ \E g \in Token : RunConnectionLoop(g)
  \/ \E s \in Surfaces : DecoderReleases(s)
  \/ HostStep \/ HostDrops \/ HostExits \/ HostStarts

\* The loops, a call of the main thread that has begun, decoder threads left behind,
\* and a running host go on.  The user, and the start of the host, are not fair.
Fairness ==
  /\ WF_vars(MainContinues) /\ WF_vars(HostStep)
  /\ \A g \in Token : WF_vars(RunConnectionLoop(g))
  /\ \A s \in Surfaces : WF_vars(DecoderReleases(s))

Safety == Init /\ [][Next]_vars
Spec   == Safety /\ Fairness

----------------------------------------------------------------------------
(* Properties.                                                             *)

Connecting == {"handshake", "answered"}
Receiving  == {"hail", "connected", "first", "configure", "stream", "cursor"}
Trying     == Connecting \cup {"connect", "install", "hail", "connected"}
Watching   == {"first", "configure", "stream", "cursor", "join"}
Places     == Connecting \cup Receiving \cup
  {"none", "head", "connecting", "connect", "install", "join", "report", "error",
   "clear", "return", "disconnected", "ended"}
Statuses   == {"none", "connecting", "connected", "error", "disconnected"}

Alive(g) == pc[g] \notin {"none", "ended"}

\* The shape of the state; a loop that has ended leaves neither socket nor receiver.
TypeOK ==
  /\ main \in {"idle", "reconnect", "close"}
  /\ incarnation \in 0 .. MaxSurfaces /\ surfaceReady \in BOOLEAN /\ resumed \in BOOLEAN
  /\ running \in BOOLEAN /\ closed \in BOOLEAN
  /\ generation \in 0 .. MaxGeneration /\ surface \in 0 .. MaxSurfaces
  /\ activeSocket \in 0 .. MaxGeneration /\ activeReceiver \in 0 .. MaxGeneration
  /\ pc \in [Token -> Places]
  /\ socket \in [Token -> {"none", "open", "eof", "closed"}]
  /\ given \in [Token -> 0 .. MaxSurfaces] /\ stopRequested \in [Token -> BOOLEAN]
  /\ stale \in [Token -> Nat]
  /\ holder \in [Surfaces -> Left .. MaxGeneration]
  /\ posted \in Statuses /\ late \in BOOLEAN /\ retryButton \in BOOLEAN
  /\ up \in BOOLEAN /\ serving \in Gone .. MaxGeneration /\ faults \in 0 .. MaxFaults
  /\ \A g \in Token : ~Alive(g) => socket[g] = "none" /\ given[g] = 0

\* A displayed activity keeps trying: whatever order surface and activity callbacks
\* come in and however the loops before it end, a loop of the current generation is
\* alive; only stop() and close() end it.
LoopAlive ==
  /\ running /\ ~closed => Alive(generation)
  /\ main = "idle" /\ resumed /\ surfaceReady /\ ~closed => running

\* stop() can reach what it has to close: a socket on which a loop may wait without a
\* timeout is the active one and of the current generation, or closed already, and a
\* receiver at work is the active one, or was asked to stop.
OpenStreamIsReachable ==
  /\ \A g \in Token :
       /\ pc[g] \in Connecting \cup Receiving /\ socket[g] # "closed" =>
            activeSocket = g /\ running /\ generation = g
       /\ pc[g] \in Receiving /\ ~stopRequested[g] => activeReceiver = g
  /\ activeReceiver # 0 => activeReceiver = activeSocket

\* A loop that has been replaced makes at most the one report it had begun.
StaleReportsOnce == \A g \in Token : stale[g] <= 1

\* The last status posted says what the current loop is doing, through all its attempts:
\* neither the error of an earlier attempt nor the connection of an earlier loop stays on
\* the screen.  Only a late report that came after its own last one can hide it.
StatusIsTrue ==
  running /\ ~closed /\ ~late =>
    /\ pc[generation] \in Trying   => posted = "connecting"
    /\ pc[generation] \in Watching => posted = "connected"

\* A stopped manager winds up: every loop ends, no codec keeps a surface, and the host
\* is free for the next connection, unless it is started again first.
StopReleasesAll ==
  ~running ~> \/ running
              \/ /\ \A g \in Token : ~Alive(g)
                 /\ \A s \in Surfaces : holder[s] = 0
                 /\ serving = 0

\* Once host, network and codecs have stopped failing, which they do at most MaxFaults
\* times, a running manager gets its stream from a running host, though the host may
\* still serve a socket of an old loop, and an old codec still hold the surface.  (A host
\* that ends every stream, as on a static desktop, is not one that has stopped failing.)
StreamStarts ==
  running /\ up ~> ~running \/ ~up \/ pc[generation] = "stream"
=============================================================================
