------------------------ MODULE ConnectionManager_proofs ------------------------
(***************************************************************************)
(* Theorems of ConnectionManager for any number of generations, surfaces   *)
(* and failures: its type invariant and its four safety invariants.  They  *)
(* rest on one inductive invariant, IInv, whose parts say what a thread    *)
(* may assume of the others at each step.                                  *)
(***************************************************************************)
EXTENDS ConnectionManager, TLAPS

Bare      == {"none", "head", "connecting", "connect", "ended", "disconnected"}
Holding   == Connecting \cup Receiving
Installed == Holding \cup {"join", "report", "error", "clear", "return"}
Noting    == {"connecting", "connected", "error", "disconnected", "cursor"}

\* The type invariant in parts.
Flags ==
  /\ surfaceReady \in BOOLEAN /\ resumed \in BOOLEAN /\ running \in BOOLEAN
  /\ closed \in BOOLEAN /\ retryButton \in BOOLEAN /\ up \in BOOLEAN
Scalars ==
  /\ main \in {"idle", "reconnect", "close"} /\ posted \in Statuses /\ late \in BOOLEAN
  /\ incarnation \in 0 .. MaxSurfaces /\ surface \in 0 .. MaxSurfaces
  /\ generation \in 0 .. MaxGeneration
  /\ activeSocket \in 0 .. MaxGeneration /\ activeReceiver \in 0 .. MaxGeneration
  /\ serving \in Gone .. MaxGeneration /\ faults \in 0 .. MaxFaults
Steps == pc \in [Token -> Places]
Maps  ==
  /\ socket \in [Token -> {"none", "open", "eof", "closed"}]
  /\ given \in [Token -> 0 .. MaxSurfaces] /\ stopRequested \in [Token -> BOOLEAN]
  /\ stale \in [Token -> Nat]
  /\ holder \in [Surfaces -> Left .. MaxGeneration]
Ends  == \A g \in Token : ~Alive(g) => socket[g] = "none" /\ given[g] = 0

\* The bounds are numbers.
LEMMA Bounds == MaxGeneration \in Nat /\ MaxSurfaces \in Nat /\ MaxFaults \in Nat
BY ConnectionAssumption

\* The parts are the whole.
LEMMA TypeParts == TypeOK <=> Flags /\ Scalars /\ Steps /\ Maps /\ Ends
BY DEF TypeOK, Flags, Scalars, Steps, Maps, Ends

\* What the main thread relies on: loops are named by generations up to the current one,
\* a call it has begun has a generation left, and an existing surface is the last given.
Calls ==
  /\ main # "idle" => generation < MaxGeneration
  /\ main = "close" => closed
  /\ \A g \in Token : pc[g] # "none" => g <= generation
  /\ surfaceReady => surface = incarnation /\ incarnation # 0
  /\ running => generation # 0

\* Where a loop has a socket and where it has none; the host serves an open one.
Sockets ==
  /\ \A g \in Token : pc[g] \in Bare => socket[g] = "none" /\ given[g] = 0
  /\ \A g \in Token : pc[g] \in Holding \cup {"install"} => socket[g] # "none"
  /\ serving > 0 => serving \in Token /\ socket[serving] = "open"

\* What is installed belongs to the loop of the running generation, past its installation.
Actives ==
  /\ activeSocket # 0 =>
       /\ activeSocket \in Token /\ running /\ generation = activeSocket
       /\ pc[activeSocket] \in Installed
  /\ \A g \in Token : pc[g] \in Holding /\ Current(g) => activeSocket = g
  /\ OpenStreamIsReachable

\* A loop gives up only when it is no longer current.
Loops == LoopAlive /\ \A g \in Token : pc[g] = "return" => ~Current(g)

\* The one late report of a loop is behind it.
Reports ==
  \A g \in Token :
    \/ stale[g] = 0
    \/ /\ stale[g] = 1 /\ g <= generation
       /\ ~(running /\ generation = g) /\ pc[g] \notin Noting

IInv == TypeOK /\ Calls /\ Sockets /\ Actives /\ Loops /\ Reports /\ StatusIsTrue

----------------------------------------------------------------------------
(* What the calls the actions share do.                                    *)

\* Start leaves the running loop alone, or names a new one by the next generation.
Begun(s) ==
  /\ closed' = closed /\ surface' \in 0 .. MaxSurfaces
  /\ IF s = 0 \/ closed THEN surface' = surface ELSE surface' = s /\ running' = TRUE
  /\ \/ UNCHANGED <<running, generation, pc>>
     \/ /\ ~running /\ running' = TRUE /\ ~closed
        /\ generation' = generation + 1 /\ generation' \in Token
        /\ pc[generation'] = "none" /\ pc' = [pc EXCEPT ![generation'] = "head"]

\* start() does no more than that, as the main thread calls it.
LEMMA StartCases ==
  ASSUME TypeOK, Calls, generation < MaxGeneration, NEW s \in 0 .. MaxSurfaces, Start(s)
  PROVE  Begun(s)
<1>1. generation + 1 \in Token /\ generation \in Nat
  BY ConnectionAssumption DEF TypeOK, Token
<1>2. pc[generation + 1] = "none"
  BY <1>1 DEF Calls
<1> QED BY <1>1, <1>2 DEF Start, Begun, TypeOK, state

\* A closed socket stays in place until its loop clears it.
Shut(S) ==
  /\ socket' \in [Token -> {"none", "open", "eof", "closed"}]
  /\ \A g \in Token : IF g \in S /\ socket[g] # "none" THEN socket'[g] = "closed"
                                                ELSE socket'[g] = socket[g]
  /\ serving' = IF serving \in S \ {0} THEN Gone ELSE serving
  /\ up' = up /\ faults' = faults

\* Closing sockets does no more than that.
LEMMA CloseCases == ASSUME TypeOK, NEW S, CloseSockets(S) PROVE Shut(S)
BY DEF CloseSockets, Shut, TypeOK

\* A report counts if it is late, and is posted.
Noted(g) ==
  /\ stale' \in [Token -> Nat]
  /\ \A h \in Token : stale'[h] = 0 => stale[h] = 0
  /\ stale'[g] = 0 => running /\ generation = g
  /\ posted' \in Statuses /\ late' \in BOOLEAN
  /\ (UNCHANGED <<posted, late>> \/ late' = ~(running /\ generation = g))

\* A listener method does no more than that.
LEMMA NotifyCases ==
  ASSUME TypeOK, NEW g \in Token, NEW what \in Statuses \cup {"cursor"}, NEW next,
         Notify(g, what, next)
  PROVE  Noted(g)
<1>1. stale \in [Token -> Nat] /\ posted \in Statuses /\ late \in BOOLEAN
  BY DEF TypeOK
<1>2. CASE running /\ generation = g
  <2>1. stale[g] + 0 = stale[g]
    BY <1>1
  <2>2. stale' = stale
    BY <1>1, <1>2, <2>1 DEF Notify
  <2> QED BY <1>1, <1>2, <2>2 DEF Notify, Noted
<1>3. CASE ~(running /\ generation = g)
  <2>1. stale[g] + 1 \in Nat /\ stale[g] + 1 # 0
    BY <1>1
  <2>2. stale' = [stale EXCEPT ![g] = stale[g] + 1]
    BY <1>3 DEF Notify
  <2> QED BY <1>1, <1>3, <2>1, <2>2 DEF Notify, Noted
<1> QED BY <1>2, <1>3

----------------------------------------------------------------------------
\* Every step keeps the shape of the state.
LEMMA TypeStep == ASSUME IInv, [Next]_vars PROVE TypeOK'
<1>0. TypeOK /\ Calls /\ Sockets
  BY DEF IInv
<1>a. Flags /\ Scalars /\ Steps /\ Maps /\ Ends
  BY <1>0, TypeParts
<1>1. CASE SurfaceCreated
  <2>1. Start(incarnation + 1)
    BY <1>1 DEF SurfaceCreated
  <2>2. (incarnation + 1) \in 0 .. MaxSurfaces /\ generation < MaxGeneration
    BY <1>0, <1>1, ConnectionAssumption DEF SurfaceCreated, Idle, TypeOK
  <2>3. Begun(incarnation + 1)
    BY <1>0, <2>1, <2>2, StartCases
  <2>4. Flags'
    BY <1>a, <1>1, <2>2, <2>3 DEF SurfaceCreated, Begun, Flags, host
  <2>5. Scalars'
    BY <1>a, <1>1, <2>2, <2>3, Bounds DEF SurfaceCreated, Begun, Scalars, active,
      host, status
  <2>6. Steps'
    BY <1>a, <1>1, <2>2, <2>3 DEF Begun, Steps, Places
  <2>7. Maps'
    BY <1>a, <1>1, <2>2, <2>3 DEF SurfaceCreated, Maps, streams, status
  <2>8. Ends'
    BY <1>a, <1>1, <2>2, <2>3 DEF SurfaceCreated, Begun, Ends, Alive, Steps, streams
  <2> QED
    BY <2>4, <2>5, <2>6, <2>7, <2>8 DEF Flags, Scalars, Steps, Maps, Ends, TypeOK
<1>2. CASE SurfaceChanged
  <2>1. Start(incarnation)
    BY <1>2 DEF SurfaceChanged
  <2>2. incarnation \in 0 .. MaxSurfaces /\ generation < MaxGeneration
    BY <1>0, <1>2, ConnectionAssumption DEF SurfaceChanged, Idle, TypeOK
  <2>3. Begun(incarnation)
    BY <1>0, <2>1, <2>2, StartCases
  <2>4. Flags'
    BY <1>a, <1>2, <2>2, <2>3 DEF SurfaceChanged, Begun, Flags, ui, host
  <2>5. Scalars'
    BY <1>a, <1>2, <2>2, <2>3, Bounds DEF SurfaceChanged, Begun, Scalars, ui, active,
      host, status
  <2>6. Steps'
    BY <1>a, <1>2, <2>2, <2>3 DEF Begun, Steps, Places
  <2>7. Maps'
    BY <1>a, <1>2, <2>2, <2>3 DEF SurfaceChanged, Maps, streams, status
  <2>8. Ends'
    BY <1>a, <1>2, <2>2, <2>3 DEF SurfaceChanged, Begun, Ends, Alive, Steps, streams
  <2> QED
    BY <2>4, <2>5, <2>6, <2>7, <2>8 DEF Flags, Scalars, Steps, Maps, Ends, TypeOK
<1>3. CASE SurfaceDestroyed
  <2>1. Shut({activeReceiver, activeSocket})
    BY <1>0, <1>3, CloseCases DEF SurfaceDestroyed, Stop
  <2>2. Flags'
    BY <1>a, <1>3, <2>1 DEF SurfaceDestroyed, Stop, Shut, Flags
  <2>3. Scalars'
    BY <1>a, <1>3, <2>1, Bounds DEF SurfaceDestroyed, Idle, Stop, Shut, Scalars, Gone,
      status
  <2>4. Steps'
    BY <1>a, <1>3, <2>1 DEF SurfaceDestroyed, Stop, Steps
  <2>5. Maps'
    BY <1>a, <1>3, <2>1 DEF SurfaceDestroyed, Stop, Shut, Maps, status
  <2>6. Ends'
    BY <1>a, <1>3, <2>1 DEF SurfaceDestroyed, Stop, Shut, Ends, Alive
  <2> QED
    BY <2>2, <2>3, <2>4, <2>5, <2>6 DEF Flags, Scalars, Steps, Maps, Ends, TypeOK
<1>4. CASE OnResume
  <2>1. surfaceReady => Start(incarnation)
    BY <1>4 DEF OnResume
  <2>2. incarnation \in 0 .. MaxSurfaces /\ generation < MaxGeneration
    BY <1>0, <1>4, ConnectionAssumption DEF OnResume, Idle, TypeOK
  <2>3. surfaceReady => Begun(incarnation)
    BY <1>0, <2>1, <2>2, StartCases
  <2>4. Flags'
    BY <1>a, <1>4, <2>2, <2>3 DEF OnResume, Begun, Flags, state, host
  <2>5. Scalars'
    BY <1>a, <1>4, <2>2, <2>3, Bounds DEF OnResume, Begun, Scalars, state, active,
      host, status
  <2>6. Steps'
    BY <1>a, <1>4, <2>2, <2>3 DEF OnResume, Begun, Steps, Places
  <2>7. Maps'
    BY <1>a, <1>4, <2>2, <2>3 DEF OnResume, Maps, streams, status
  <2>8. Ends'
    BY <1>a, <1>4, <2>2, <2>3 DEF OnResume, Begun, Ends, Alive, Steps, streams
  <2> QED
    BY <2>4, <2>5, <2>6, <2>7, <2>8 DEF Flags, Scalars, Steps, Maps, Ends, TypeOK
<1>5. CASE OnPause
  <2>1. Shut({activeReceiver, activeSocket})
    BY <1>0, <1>5, CloseCases DEF OnPause, Stop
  <2>2. Flags'
    BY <1>a, <1>5, <2>1 DEF OnPause, Stop, Shut, Flags
  <2>3. Scalars'
    BY <1>a, <1>5, <2>1, Bounds DEF OnPause, Idle, Stop, Shut, Scalars, Gone, status
  <2>4. Steps'
    BY <1>a, <1>5, <2>1 DEF OnPause, Stop, Steps
  <2>5. Maps'
    BY <1>a, <1>5, <2>1 DEF OnPause, Stop, Shut, Maps, status
  <2>6. Ends'
    BY <1>a, <1>5, <2>1 DEF OnPause, Stop, Shut, Ends, Alive
  <2> QED
    BY <2>2, <2>3, <2>4, <2>5, <2>6 DEF Flags, Scalars, Steps, Maps, Ends, TypeOK
<1>6. CASE Reconnect
  <2>1. Shut({activeReceiver, activeSocket})
    BY <1>0, <1>6, CloseCases DEF Reconnect, Stop
  <2>2. Flags'
    BY <1>a, <1>6, <2>1 DEF Reconnect, Stop, Shut, Flags, ui
  <2>3. Scalars'
    BY <1>a, <1>6, <2>1, Bounds DEF Reconnect, Idle, Stop, Shut, Scalars, Gone, ui,
      status
  <2>4. Steps'
    BY <1>a, <1>6, <2>1 DEF Reconnect, Stop, Steps
  <2>5. Maps'
    BY <1>a, <1>6, <2>1 DEF Reconnect, Stop, Shut, Maps, status
  <2>6. Ends'
    BY <1>a, <1>6, <2>1 DEF Reconnect, Stop, Shut, Ends, Alive
  <2> QED
    BY <2>2, <2>3, <2>4, <2>5, <2>6 DEF Flags, Scalars, Steps, Maps, Ends, TypeOK
<1>7. CASE OnDestroy
  BY <1>0, <1>7 DEF OnDestroy, TypeOK, Alive, ui, active, host, streams, status
<1>8. CASE ReconnectStarts
  <2>1. Start(IF surface = incarnation THEN surface ELSE 0)
    BY <1>8 DEF ReconnectStarts
  <2>2. /\ (IF surface = incarnation THEN surface ELSE 0) \in 0 .. MaxSurfaces
        /\ generation < MaxGeneration
    BY <1>0, <1>8, ConnectionAssumption DEF ReconnectStarts, Idle, TypeOK, Calls
  <2>3. Begun(IF surface = incarnation THEN surface ELSE 0)
    BY <1>0, <2>1, <2>2, StartCases
  <2>4. Flags'
    BY <1>a, <1>8, <2>2, <2>3 DEF ReconnectStarts, Begun, Flags, ui, host
  <2>5. Scalars'
    BY <1>a, <1>8, <2>2, <2>3, Bounds DEF ReconnectStarts, Begun, Scalars, ui, active,
      host, status
  <2>6. Steps'
    BY <1>a, <1>8, <2>2, <2>3 DEF Begun, Steps, Places
  <2>7. Maps'
    BY <1>a, <1>8, <2>2, <2>3 DEF ReconnectStarts, Maps, streams, status
  <2>8. Ends'
    BY <1>a, <1>8, <2>2, <2>3 DEF ReconnectStarts, Begun, Ends, Alive, Steps, streams
  <2> QED
    BY <2>4, <2>5, <2>6, <2>7, <2>8 DEF Flags, Scalars, Steps, Maps, Ends, TypeOK
<1>9. CASE CloseStops
  <2>1. Shut({activeReceiver, activeSocket})
    BY <1>0, <1>9, CloseCases DEF CloseStops, Stop
  <2>2. Flags'
    BY <1>a, <1>9, <2>1 DEF CloseStops, Stop, Shut, Flags, ui
  <2>3. Scalars'
    BY <1>a, <1>9, <2>1, <1>0, Bounds DEF CloseStops, Stop, Shut, Scalars, Gone,
      Calls, ui, status
  <2>4. Steps'
    BY <1>a, <1>9, <2>1 DEF CloseStops, Stop, Steps
  <2>5. Maps'
    BY <1>a, <1>9, <2>1 DEF CloseStops, Stop, Shut, Maps, status
  <2>6. Ends'
    BY <1>a, <1>9, <2>1 DEF CloseStops, Stop, Shut, Ends, Alive
  <2> QED
    BY <2>2, <2>3, <2>4, <2>5, <2>6 DEF Flags, Scalars, Steps, Maps, Ends, TypeOK
<1>10. CASE ShowStatus
  BY <1>0, <1>10 DEF ShowStatus, TypeOK, Alive, ui, state, active, host, streams,
    status
<1>11. ASSUME NEW g \in Token, Decide(g, "head", "connecting", "ended") PROVE TypeOK'
  BY <1>0, <1>11 DEF Decide, Step, TypeOK, Places, Alive, Sockets, Bare, ui, state,
    active, host, streams, status
<1>12. ASSUME NEW g \in Token, Notify(g, "connecting", "connect") PROVE TypeOK'
  <2>1. Noted(g)
    BY <1>0, <1>12, NotifyCases DEF Statuses
  <2> QED BY <1>0, <1>12, <2>1 DEF Notify, Step, TypeOK, Places, Alive, ui, state,
    active, host, streams, Noted
<1>13. ASSUME NEW g \in Token, Connect(g) PROVE TypeOK'
  <2>1. Flags'
    BY <1>a, <1>13 DEF Connect, Flags, ui, state
  <2>2. Scalars'
    BY <1>a, <1>13, Bounds DEF Connect, Fail, Scalars, ui, state, active, status
  <2>3. Steps'
    BY <1>a, <1>13 DEF Connect, Step, Steps, Places
  <2>4. Maps'
    BY <1>a, <1>13 DEF Connect, Maps, streams, status
  <2>5. Ends'
    BY <1>a, <1>13 DEF Connect, Step, Ends, Alive, Steps, Maps, streams
  <2> QED
    BY <2>1, <2>2, <2>3, <2>4, <2>5 DEF Flags, Scalars, Steps, Maps, Ends, TypeOK
<1>14. ASSUME NEW g \in Token, InstallActiveSocket(g) PROVE TypeOK'
  <2>1. ~Current(g) => Shut({g})
    BY <1>0, <1>14, CloseCases DEF InstallActiveSocket
  <2>2. Flags'
    BY <1>a, <1>14, <2>1 DEF InstallActiveSocket, Shut, Flags, ui, state, host
  <2>3. Scalars'
    <3>1. CASE Current(g)
      BY <1>a, <1>14, <3>1 DEF InstallActiveSocket, Scalars, Token, ui, state, host, status
    <3>2. CASE ~Current(g)
      BY <1>a, <1>14, <2>1, <3>2, Bounds
         DEF InstallActiveSocket, Shut, Scalars, Gone, ui, state, active, status
    <3> QED BY <3>1, <3>2
  <2>4. Steps'
    BY <1>a, <1>14, <2>1 DEF InstallActiveSocket, Step, Steps, Places, Connecting
  <2>5. Maps'
    BY <1>a, <1>14, <2>1 DEF InstallActiveSocket, Shut, Maps, streams, status
  <2>6. Ends'
    BY <1>a, <1>14, <2>1 DEF InstallActiveSocket, Step, Shut, Ends, Alive, Steps,
      streams
  <2> QED
    BY <2>2, <2>3, <2>4, <2>5, <2>6 DEF Flags, Scalars, Steps, Maps, Ends, TypeOK
<1>15. ASSUME NEW g \in Token, PerformHandshake(g) PROVE TypeOK'
  <2>1. Flags'
    BY <1>a, <1>15 DEF PerformHandshake, Flags, ui, state
  <2>2. Scalars'
    BY <1>a, <1>15, Bounds DEF PerformHandshake, Fail, Scalars, ui, state, active,
      status
  <2>3. Steps'
    BY <1>a, <1>15 DEF PerformHandshake, Step, Steps, Places, Connecting
  <2>4. Maps'
    BY <1>a, <1>15 DEF PerformHandshake, Maps, streams, status
  <2>5. Ends'
    BY <1>a, <1>15 DEF PerformHandshake, Step, Ends, Alive, Steps, streams
  <2> QED
    BY <2>1, <2>2, <2>3, <2>4, <2>5 DEF Flags, Scalars, Steps, Maps, Ends, TypeOK
<1>16. ASSUME NEW g \in Token, InstallActiveReceiver(g) PROVE TypeOK'
  <2>1. ~(Current(g) /\ activeSocket = g) => Shut({g})
    BY <1>0, <1>16, CloseCases DEF InstallActiveReceiver
  <2>2. Flags'
    BY <1>a, <1>16, <2>1 DEF InstallActiveReceiver, Shut, Flags, ui, state, host
  <2>3. Scalars'
    BY <1>a, <1>16, <2>1, Bounds DEF InstallActiveReceiver, Shut, Scalars, Gone,
      Statuses, ui, state, active, host, status
  <2>4. Steps'
    BY <1>a, <1>16, <2>1 DEF InstallActiveReceiver, Step, Steps, Places, Receiving
  <2>5. Maps'
    BY <1>a, <1>16, <2>1 DEF InstallActiveReceiver, Step, Shut, Maps, Scalars,
      streams, status
  <2>6. Ends'
    BY <1>a, <1>16, <2>1 DEF InstallActiveReceiver, Step, Shut, Ends, Alive, Steps,
      Maps, streams
  <2> QED
    BY <2>2, <2>3, <2>4, <2>5, <2>6 DEF Flags, Scalars, Steps, Maps, Ends, TypeOK
<1>17. ASSUME NEW g \in Token, Hail(g) PROVE TypeOK'
  BY <1>0, <1>17 DEF Hail, Decide, Step, TypeOK, Receiving, Places, Alive, ui, state,
    active, host, streams, status
<1>18. ASSUME NEW g \in Token, Notify(g, "connected", "first") PROVE TypeOK'
  <2>1. Noted(g)
    BY <1>0, <1>18, NotifyCases DEF Statuses
  <2> QED BY <1>0, <1>18, <2>1 DEF Notify, Step, TypeOK, Receiving, Places, Alive, ui,
    state, active, host, streams, Noted
<1>19. ASSUME NEW g \in Token, ReadFirst(g) PROVE TypeOK'
  <2>1. Flags'
    BY <1>a, <1>19 DEF ReadFirst, Flags, ui, state, host
  <2>2. Scalars'
    BY <1>a, <1>19 DEF ReadFirst, Scalars, ui, state, active, host, status
  <2>3. Steps'
    BY <1>a, <1>19 DEF ReadFirst, Step, Steps, Places, Receiving
  <2>4. Maps'
    BY <1>a, <1>19 DEF ReadFirst, Maps, streams, status
  <2>5. Ends'
    BY <1>a, <1>19 DEF ReadFirst, Step, Ends, Alive, Steps, streams
  <2> QED
    BY <2>1, <2>2, <2>3, <2>4, <2>5 DEF Flags, Scalars, Steps, Maps, Ends, TypeOK
<1>20. ASSUME NEW g \in Token, StartDecoder(g) PROVE TypeOK'
  <2>1. holder' \in [Surfaces -> Left .. MaxGeneration]
    <3>1. {g, 0, Left} \subseteq Left .. MaxGeneration
      BY Bounds DEF Left, Token
    <3> QED BY <1>a, <1>20, <3>1 DEF StartDecoder, Maps
  <2>2. Flags'
    BY <1>a, <1>20 DEF StartDecoder, Flags, ui, state
  <2>3. Scalars'
    BY <1>a, <1>20, Bounds DEF StartDecoder, Fail, Scalars, ui, state, active, status
  <2>4. Steps'
    BY <1>a, <1>20 DEF StartDecoder, Step, Steps, Places, Receiving
  <2>5. Maps'
    BY <1>a, <1>20, <2>1 DEF StartDecoder, Maps, status
  <2>6. Ends'
    BY <1>a, <1>20 DEF StartDecoder, Step, Ends, Alive, Steps
  <2> QED
    BY <2>2, <2>3, <2>4, <2>5, <2>6 DEF Flags, Scalars, Steps, Maps, Ends, TypeOK
<1>21. ASSUME NEW g \in Token, CursorPacket(g) PROVE TypeOK'
  BY <1>0, <1>21 DEF CursorPacket, Step, TypeOK, Receiving, Places, Alive, ui, state,
    active, host, streams, status
<1>22. ASSUME NEW g \in Token, Notify(g, "cursor", "stream") PROVE TypeOK'
  <2>1. Noted(g)
    BY <1>0, <1>22, NotifyCases
  <2> QED BY <1>0, <1>22, <2>1 DEF Notify, Step, TypeOK, Receiving, Places, Alive, ui,
    state, active, host, streams
<1>23. ASSUME NEW g \in Token, StreamEnds(g) PROVE TypeOK'
  <2>1. Flags'
    BY <1>a, <1>23 DEF StreamEnds, Flags, ui, state
  <2>2. Scalars'
    BY <1>a, <1>23, Bounds DEF StreamEnds, Fail, Scalars, Gone, ui, state, active,
      status
  <2>3. Steps'
    BY <1>a, <1>23 DEF StreamEnds, Step, Steps, Places
  <2>4. Maps'
    BY <1>a, <1>23 DEF StreamEnds, Maps, streams, status
  <2>5. Ends'
    BY <1>a, <1>23 DEF StreamEnds, Step, Ends, Alive, streams
  <2> QED
    BY <2>1, <2>2, <2>3, <2>4, <2>5 DEF Flags, Scalars, Steps, Maps, Ends, TypeOK
<1>24. ASSUME NEW g \in Token, JoinDecoder(g) PROVE TypeOK'
  <2>1. holder' \in [Surfaces -> Left .. MaxGeneration]
    <3>1. {g, 0, Left} \subseteq Left .. MaxGeneration
      BY Bounds DEF Left, Token
    <3> QED BY <1>a, <1>24, <3>1 DEF JoinDecoder, Maps
  <2>2. Flags'
    BY <1>a, <1>24 DEF JoinDecoder, Flags, ui, state
  <2>3. Scalars'
    BY <1>a, <1>24, Bounds DEF JoinDecoder, Fail, Scalars, ui, state, active, status
  <2>4. Steps'
    BY <1>a, <1>24 DEF JoinDecoder, Step, Steps, Places
  <2>5. Maps'
    BY <1>a, <1>24, <2>1 DEF JoinDecoder, Maps, status
  <2>6. Ends'
    BY <1>a, <1>24 DEF JoinDecoder, Step, Ends, Alive
  <2> QED
    BY <2>2, <2>3, <2>4, <2>5, <2>6 DEF Flags, Scalars, Steps, Maps, Ends, TypeOK
<1>25. ASSUME NEW g \in Token, Decide(g, "report", "error", "clear") PROVE TypeOK'
  BY <1>0, <1>25 DEF Decide, Step, TypeOK, Places, Alive, ui, state, active, host,
    streams, status
<1>26. ASSUME NEW g \in Token, Notify(g, "error", "clear") PROVE TypeOK'
  <2>1. Noted(g)
    BY <1>0, <1>26, NotifyCases DEF Statuses
  <2> QED BY <1>0, <1>26, <2>1 DEF Notify, Step, TypeOK, Places, Alive, ui, state,
    active, host, streams, Noted
<1>27. ASSUME NEW g \in Token, ClearActiveResources(g) PROVE TypeOK'
  <2>1. Flags'
    BY <1>a, <1>27 DEF ClearActiveResources, Finish, Flags, ui, state
  <2>2. Scalars'
    BY <1>a, <1>27, Bounds DEF ClearActiveResources, Finish, Scalars, Gone, ui, state, status
  <2>3. Steps'
    BY <1>a, <1>27 DEF ClearActiveResources, Finish, Step, Steps, Places
  <2>4. Maps'
    BY <1>a, <1>27, Bounds DEF ClearActiveResources, Finish, Maps, status
  <2>5. Ends'
    BY <1>a, <1>27 DEF ClearActiveResources, Finish, Step, Ends, Alive, Steps, Maps
  <2> QED
    BY <2>1, <2>2, <2>3, <2>4, <2>5 DEF Flags, Scalars, Steps, Maps, Ends, TypeOK
<1>28. ASSUME NEW g \in Token, Notify(g, "disconnected", "head") PROVE TypeOK'
  <2>1. Noted(g)
    BY <1>0, <1>28, NotifyCases DEF Statuses
  <2> QED BY <1>0, <1>28, <2>1 DEF Notify, Step, TypeOK, Places, Alive, ui, state,
    active, host, streams, Noted
<1>29. ASSUME NEW s \in Surfaces, DecoderReleases(s) PROVE TypeOK'
  BY <1>0, <1>29, ConnectionAssumption DEF DecoderReleases, TypeOK, Left, Alive, ui,
    state, active, host, status
<1>30. CASE HostAccepts
  BY <1>0, <1>30 DEF HostAccepts, TypeOK, Token, Gone, Alive, ui, state, active,
    streams, status
<1>31. CASE HostNotices
  BY <1>0, <1>31, ConnectionAssumption DEF HostNotices, TypeOK, Gone, Alive, ui,
    state, active, streams, status
<1>32. CASE HostDrops
  BY <1>0, <1>32, ConnectionAssumption DEF HostDrops, Fail, TypeOK, Gone, Alive,
    Sockets, ui, state, active, streams, status
<1>33. CASE HostExits
  <2>1. Flags'
    BY <1>a, <1>33 DEF HostExits, Flags, ui, state
  <2>2. Scalars'
    BY <1>a, <1>33, Bounds DEF HostExits, Fail, Scalars, Gone, ui, state, active,
      status
  <2>3. Steps'
    BY <1>a, <1>33 DEF HostExits, Steps
  <2>4. Maps'
    BY <1>a, <1>33 DEF HostExits, Maps, streams, status
  <2>5. Ends'
    BY <1>a, <1>33 DEF HostExits, Ends, Alive, streams
  <2> QED
    BY <2>1, <2>2, <2>3, <2>4, <2>5 DEF Flags, Scalars, Steps, Maps, Ends, TypeOK
<1>34. CASE HostStarts
  BY <1>0, <1>34 DEF HostStarts, TypeOK, Alive, ui, state, active, streams, status
<1>35. CASE UNCHANGED vars
  BY <1>0, <1>35 DEF TypeOK, Alive, vars, ui, state, active, host, streams, status
<1> QED
  BY <1>1, <1>2, <1>3, <1>4, <1>5, <1>6, <1>7, <1>8, <1>9, <1>10, <1>11, <1>12, <1>13,
    <1>14, <1>15, <1>16, <1>17, <1>18, <1>19, <1>20, <1>21, <1>22, <1>23, <1>24,
    <1>25, <1>26, <1>27, <1>28, <1>29, <1>30, <1>31, <1>32, <1>33, <1>34, <1>35 DEF
    Next, MainCall, MainContinues, RunConnectionLoop, HostStep

\* Every step keeps what the main thread relies on.
LEMMA CallsStep == ASSUME IInv, [Next]_vars PROVE Calls'
<1>0. TypeOK /\ Calls
  BY DEF IInv
<1>1. CASE SurfaceCreated
  BY <1>0, <1>1, ConnectionAssumption DEF SurfaceCreated, Idle, Start, TypeOK, Calls,
    Token
<1>2. CASE SurfaceChanged
  BY <1>0, <1>2, ConnectionAssumption DEF SurfaceChanged, Idle, Start, TypeOK, Calls,
    Token, ui, state
<1>3. CASE SurfaceDestroyed
  BY <1>0, <1>3 DEF SurfaceDestroyed, Idle, Stop, TypeOK, Calls, Token
<1>4. CASE OnResume
  BY <1>0, <1>4, ConnectionAssumption DEF OnResume, Idle, Start, TypeOK, Calls, Token,
    state
<1>5. CASE OnPause
  BY <1>0, <1>5 DEF OnPause, Idle, Stop, TypeOK, Calls, Token
<1>6. CASE Reconnect
  BY <1>0, <1>6, ConnectionAssumption DEF Reconnect, Idle, Stop, TypeOK, Calls, Token,
    ui
<1>7. CASE OnDestroy
  BY <1>0, <1>7, ConnectionAssumption DEF OnDestroy, Idle, TypeOK, Calls, ui
<1>8. CASE ReconnectStarts
  BY <1>0, <1>8, ConnectionAssumption DEF ReconnectStarts, Start, TypeOK, Calls,
    Token, ui, state
<1>9. CASE CloseStops
  BY <1>0, <1>9 DEF CloseStops, Stop, TypeOK, Calls, Token, ui
<1>10. CASE ShowStatus
  BY <1>0, <1>10 DEF ShowStatus, Calls, ui, state
<1>11. ASSUME NEW g \in Token, Decide(g, "head", "connecting", "ended") PROVE Calls'
  BY <1>0, <1>11 DEF Decide, Step, Calls, ui, state
<1>12. ASSUME NEW g \in Token, Notify(g, "connecting", "connect") PROVE Calls'
  BY <1>0, <1>12 DEF Notify, Step, Calls, ui, state
<1>13. ASSUME NEW g \in Token, Connect(g) PROVE Calls'
  BY <1>0, <1>13 DEF Connect, Step, TypeOK, Calls, ui, state
<1>14. ASSUME NEW g \in Token, InstallActiveSocket(g) PROVE Calls'
  BY <1>0, <1>14 DEF InstallActiveSocket, Step, TypeOK, Calls, ui, state
<1>15. ASSUME NEW g \in Token, PerformHandshake(g) PROVE Calls'
  BY <1>0, <1>15 DEF PerformHandshake, Step, TypeOK, Calls, ui, state
<1>16. ASSUME NEW g \in Token, InstallActiveReceiver(g) PROVE Calls'
  BY <1>0, <1>16 DEF InstallActiveReceiver, Step, TypeOK, Calls, ui, state
<1>17. ASSUME NEW g \in Token, Hail(g) PROVE Calls'
  BY <1>0, <1>17 DEF Hail, Decide, Step, Calls, ui, state
<1>18. ASSUME NEW g \in Token, Notify(g, "connected", "first") PROVE Calls'
  BY <1>0, <1>18 DEF Notify, Step, Calls, ui, state
<1>19. ASSUME NEW g \in Token, ReadFirst(g) PROVE Calls'
  BY <1>0, <1>19 DEF ReadFirst, Step, TypeOK, Calls, ui, state
<1>20. ASSUME NEW g \in Token, StartDecoder(g) PROVE Calls'
  BY <1>0, <1>20 DEF StartDecoder, Step, TypeOK, Calls, ui, state
<1>21. ASSUME NEW g \in Token, CursorPacket(g) PROVE Calls'
  BY <1>0, <1>21 DEF CursorPacket, Step, Calls, ui, state
<1>22. ASSUME NEW g \in Token, Notify(g, "cursor", "stream") PROVE Calls'
  BY <1>0, <1>22 DEF Notify, Step, Calls, ui, state
<1>23. ASSUME NEW g \in Token, StreamEnds(g) PROVE Calls'
  BY <1>0, <1>23 DEF StreamEnds, Step, Calls, ui, state
<1>24. ASSUME NEW g \in Token, JoinDecoder(g) PROVE Calls'
  BY <1>0, <1>24 DEF JoinDecoder, Step, Calls, ui, state
<1>25. ASSUME NEW g \in Token, Decide(g, "report", "error", "clear") PROVE Calls'
  BY <1>0, <1>25 DEF Decide, Step, Calls, ui, state
<1>26. ASSUME NEW g \in Token, Notify(g, "error", "clear") PROVE Calls'
  BY <1>0, <1>26 DEF Notify, Step, Calls, ui, state
<1>27. ASSUME NEW g \in Token, ClearActiveResources(g) PROVE Calls'
  BY <1>0, <1>27 DEF ClearActiveResources, Finish, Step, TypeOK, Calls, ui, state
<1>28. ASSUME NEW g \in Token, Notify(g, "disconnected", "head") PROVE Calls'
  BY <1>0, <1>28 DEF Notify, Step, Calls, ui, state
<1>29. ASSUME NEW s \in Surfaces, DecoderReleases(s) PROVE Calls'
  BY <1>0, <1>29 DEF DecoderReleases, Calls, ui, state
<1>30. CASE HostAccepts
  BY <1>0, <1>30 DEF HostAccepts, Calls, ui, state
<1>31. CASE HostNotices
  BY <1>0, <1>31 DEF HostNotices, Calls, ui, state
<1>32. CASE HostDrops
  BY <1>0, <1>32 DEF HostDrops, Calls, ui, state
<1>33. CASE HostExits
  BY <1>0, <1>33 DEF HostExits, Calls, ui, state
<1>34. CASE HostStarts
  BY <1>0, <1>34 DEF HostStarts, Calls, ui, state
<1>35. CASE UNCHANGED vars
  BY <1>0, <1>35 DEF Calls, vars, ui, state
<1> QED
  BY <1>1, <1>2, <1>3, <1>4, <1>5, <1>6, <1>7, <1>8, <1>9, <1>10, <1>11, <1>12, <1>13,
    <1>14, <1>15, <1>16, <1>17, <1>18, <1>19, <1>20, <1>21, <1>22, <1>23, <1>24,
    <1>25, <1>26, <1>27, <1>28, <1>29, <1>30, <1>31, <1>32, <1>33, <1>34, <1>35 DEF
    Next, MainCall, MainContinues, RunConnectionLoop, HostStep

\* Every step keeps sockets where they belong.
LEMMA SocketsStep == ASSUME IInv, [Next]_vars PROVE Sockets'
<1>0. TypeOK /\ Calls /\ Sockets
  BY DEF IInv
<1>1. CASE SurfaceCreated
  <2>1. Start(incarnation + 1)
    BY <1>1 DEF SurfaceCreated
  <2>2. (incarnation + 1) \in 0 .. MaxSurfaces /\ generation < MaxGeneration
    BY <1>0, <1>1, ConnectionAssumption DEF SurfaceCreated, Idle, TypeOK
  <2>3. Begun(incarnation + 1)
    BY <1>0, <2>1, <2>2, StartCases
  <2> QED BY <1>0, <1>1, <2>2, <2>3 DEF SurfaceCreated, TypeOK, Sockets, Bare,
    Holding, Connecting, Receiving, host, streams, Begun
<1>2. CASE SurfaceChanged
  <2>1. Start(incarnation)
    BY <1>2 DEF SurfaceChanged
  <2>2. incarnation \in 0 .. MaxSurfaces /\ generation < MaxGeneration
    BY <1>0, <1>2, ConnectionAssumption DEF SurfaceChanged, Idle, TypeOK
  <2>3. Begun(incarnation)
    BY <1>0, <2>1, <2>2, StartCases
  <2> QED BY <1>0, <1>2, <2>2, <2>3 DEF SurfaceChanged, TypeOK, Sockets, Bare,
    Holding, Connecting, Receiving, host, streams, Begun
<1>3. CASE SurfaceDestroyed
  BY <1>0, <1>3 DEF SurfaceDestroyed, Stop, CloseSockets, Sockets, Gone
<1>4. CASE OnResume
  <2>1. surfaceReady => Start(incarnation)
    BY <1>4 DEF OnResume
  <2>2. incarnation \in 0 .. MaxSurfaces /\ generation < MaxGeneration
    BY <1>0, <1>4, ConnectionAssumption DEF OnResume, Idle, TypeOK
  <2>3. surfaceReady => Begun(incarnation)
    BY <1>0, <2>1, <2>2, StartCases
  <2> QED BY <1>0, <1>4, <2>2, <2>3 DEF OnResume, TypeOK, Sockets, Bare, Holding,
    Connecting, Receiving, host, streams, Begun
<1>5. CASE OnPause
  BY <1>0, <1>5 DEF OnPause, Stop, CloseSockets, Sockets, Gone
<1>6. CASE Reconnect
  BY <1>0, <1>6 DEF Reconnect, Stop, CloseSockets, Sockets, Gone
<1>7. CASE OnDestroy
  BY <1>0, <1>7 DEF OnDestroy, Sockets, host, streams
<1>8. CASE ReconnectStarts
  <2>1. Start(IF surface = incarnation THEN surface ELSE 0)
    BY <1>8 DEF ReconnectStarts
  <2>2. /\ (IF surface = incarnation THEN surface ELSE 0) \in 0 .. MaxSurfaces
        /\ generation < MaxGeneration
    BY <1>0, <1>8, ConnectionAssumption DEF ReconnectStarts, Idle, TypeOK, Calls
  <2>3. Begun(IF surface = incarnation THEN surface ELSE 0)
    BY <1>0, <2>1, <2>2, StartCases
  <2> QED BY <1>0, <1>8, <2>2, <2>3 DEF ReconnectStarts, TypeOK, Sockets, Bare,
    Holding, Connecting, Receiving, host, streams, Begun
<1>9. CASE CloseStops
  BY <1>0, <1>9 DEF CloseStops, Stop, CloseSockets, Sockets, Gone
<1>10. CASE ShowStatus
  BY <1>0, <1>10 DEF ShowStatus, Sockets, host, streams
<1>11. ASSUME NEW g \in Token, Decide(g, "head", "connecting", "ended") PROVE Sockets'
  BY <1>0, <1>11 DEF Decide, Step, Sockets, Bare, Holding, Connecting, Receiving,
    host, streams
<1>12. ASSUME NEW g \in Token, Notify(g, "connecting", "connect") PROVE Sockets'
  <2>1. Noted(g)
    BY <1>0, <1>12, NotifyCases DEF Statuses
  <2> QED BY <1>0, <1>12, <2>1 DEF Notify, Step, Sockets, Bare, Holding, Connecting,
    Receiving, host, streams
<1>13. ASSUME NEW g \in Token, Connect(g) PROVE Sockets'
  BY <1>0, <1>13 DEF Connect, Step, Fail, TypeOK, Sockets, Bare, Holding, Connecting,
    Receiving, streams
<1>14. ASSUME NEW g \in Token, InstallActiveSocket(g) PROVE Sockets'
  <2>1. CASE Current(g)
    BY <1>0, <1>14, <2>1 DEF InstallActiveSocket, Step, TypeOK, Sockets, Bare, host,
      streams
  <2>2. CASE ~Current(g)
    <3>1. Shut({g})
      BY <1>0, <1>14, <2>2, CloseCases DEF InstallActiveSocket
    <3>2. /\ pc[g] = "install" /\ pc' = [pc EXCEPT ![g] = "return"] /\ given' = given
          /\ socket[g] # "none"
      BY <1>0, <1>14, <2>2 DEF InstallActiveSocket, Step, streams, Sockets
    <3>3. \A h \in Token : h # g => pc'[h] = pc[h] /\ socket'[h] = socket[h]
      BY <3>1, <3>2 DEF Shut
    <3>4. pc'[g] = "return" /\ socket'[g] # "none"
      BY <1>0, <3>1, <3>2 DEF TypeOK, Shut
    <3>5. serving' > 0 => serving' = serving /\ serving # g
      BY <3>1 DEF Shut, Gone
    <3> QED
      BY <1>0, <3>2, <3>3, <3>4, <3>5 DEF Sockets, Bare
  <2> QED BY <2>1, <2>2
<1>15. ASSUME NEW g \in Token, PerformHandshake(g) PROVE Sockets'
  BY <1>0, <1>15 DEF PerformHandshake, Step, TypeOK, Sockets, Bare, Holding,
    Connecting, streams
<1>16. ASSUME NEW g \in Token, InstallActiveReceiver(g) PROVE Sockets'
  <2>1. CASE Current(g) /\ activeSocket = g
    BY <1>0, <1>16, <2>1 DEF InstallActiveReceiver, Step, TypeOK, Sockets, Bare,
      Holding, Connecting, host
  <2>2. CASE ~(Current(g) /\ activeSocket = g)
    <3>1. Shut({g})
      BY <1>0, <1>16, <2>2, CloseCases DEF InstallActiveReceiver
    <3>2. /\ pc[g] = "answered" /\ pc' = [pc EXCEPT ![g] = "return"] /\ given' = given
          /\ socket[g] # "none"
      BY <1>0, <1>16, <2>2 DEF InstallActiveReceiver, Step, streams, Sockets, Holding,
        Connecting
    <3>3. \A h \in Token : h # g => pc'[h] = pc[h] /\ socket'[h] = socket[h]
      BY <3>1, <3>2 DEF Shut
    <3>4. pc'[g] = "return" /\ socket'[g] # "none"
      BY <1>0, <3>1, <3>2 DEF TypeOK, Shut
    <3>5. serving' > 0 => serving' = serving /\ serving # g
      BY <3>1 DEF Shut, Gone
    <3> QED
      BY <1>0, <3>2, <3>3, <3>4, <3>5 DEF Sockets, Bare
  <2> QED BY <2>1, <2>2
<1>17. ASSUME NEW g \in Token, Hail(g) PROVE Sockets'
  BY <1>0, <1>17 DEF Hail, Decide, Step, Sockets, Bare, Holding, Receiving, host,
    streams
<1>18. ASSUME NEW g \in Token, Notify(g, "connected", "first") PROVE Sockets'
  <2>1. Noted(g)
    BY <1>0, <1>18, NotifyCases DEF Statuses
  <2> QED BY <1>0, <1>18, <2>1 DEF Notify, Step, Sockets, Bare, Holding, Receiving,
    host, streams
<1>19. ASSUME NEW g \in Token, ReadFirst(g) PROVE Sockets'
  BY <1>0, <1>19 DEF ReadFirst, Step, TypeOK, Sockets, Bare, Holding, Receiving, host,
    streams
<1>20. ASSUME NEW g \in Token, StartDecoder(g) PROVE Sockets'
  BY <1>0, <1>20 DEF StartDecoder, Step, TypeOK, Sockets, Bare, Holding, Receiving
<1>21. ASSUME NEW g \in Token, CursorPacket(g) PROVE Sockets'
  BY <1>0, <1>21 DEF CursorPacket, Step, Sockets, Bare, host, streams
<1>22. ASSUME NEW g \in Token, Notify(g, "cursor", "stream") PROVE Sockets'
  <2>1. Noted(g)
    BY <1>0, <1>22, NotifyCases
  <2> QED BY <1>0, <1>22, <2>1 DEF Notify, Step, Sockets, Bare, Holding, Receiving,
    host, streams
<1>23. ASSUME NEW g \in Token, StreamEnds(g) PROVE Sockets'
  BY <1>0, <1>23 DEF StreamEnds, Step, Sockets, Bare, Holding, Receiving, Gone,
    streams
<1>24. ASSUME NEW g \in Token, JoinDecoder(g) PROVE Sockets'
  BY <1>0, <1>24 DEF JoinDecoder, Step, Sockets, Bare, Holding, Connecting, Receiving
<1>25. ASSUME NEW g \in Token, Decide(g, "report", "error", "clear") PROVE Sockets'
  BY <1>0, <1>25 DEF Decide, Step, Sockets, Bare, Holding, Connecting, Receiving,
    host, streams
<1>26. ASSUME NEW g \in Token, Notify(g, "error", "clear") PROVE Sockets'
  <2>1. Noted(g)
    BY <1>0, <1>26, NotifyCases DEF Statuses
  <2> QED BY <1>0, <1>26, <2>1 DEF Notify, Step, Sockets, Bare, Holding, Connecting,
    Receiving, host, streams
<1>27. ASSUME NEW g \in Token, ClearActiveResources(g) PROVE Sockets'
  BY <1>0, <1>27 DEF ClearActiveResources, Finish, Step, Current, TypeOK, Sockets,
    Holding, Connecting, Receiving, Gone
<1>28. ASSUME NEW g \in Token, Notify(g, "disconnected", "head") PROVE Sockets'
  <2>1. Noted(g)
    BY <1>0, <1>28, NotifyCases DEF Statuses
  <2> QED BY <1>0, <1>28, <2>1 DEF Notify, Step, Sockets, Bare, Holding, Connecting,
    Receiving, host, streams
<1>29. ASSUME NEW s \in Surfaces, DecoderReleases(s) PROVE Sockets'
  BY <1>0, <1>29 DEF DecoderReleases, Sockets, host
<1>30. CASE HostAccepts
  BY <1>0, <1>30 DEF HostAccepts, Sockets, streams
<1>31. CASE HostNotices
  BY <1>0, <1>31 DEF HostNotices, Sockets, streams
<1>32. CASE HostDrops
  BY <1>0, <1>32 DEF HostDrops, Sockets, streams
<1>33. CASE HostExits
  BY <1>0, <1>33 DEF HostExits, Sockets, streams
<1>34. CASE HostStarts
  BY <1>0, <1>34 DEF HostStarts, Sockets, streams
<1>35. CASE UNCHANGED vars
  BY <1>0, <1>35 DEF Sockets, vars, host, streams
<1> QED
  BY <1>1, <1>2, <1>3, <1>4, <1>5, <1>6, <1>7, <1>8, <1>9, <1>10, <1>11, <1>12, <1>13,
    <1>14, <1>15, <1>16, <1>17, <1>18, <1>19, <1>20, <1>21, <1>22, <1>23, <1>24,
    <1>25, <1>26, <1>27, <1>28, <1>29, <1>30, <1>31, <1>32, <1>33, <1>34, <1>35 DEF
    Next, MainCall, MainContinues, RunConnectionLoop, HostStep

\* Every step keeps what is installed reachable.
LEMMA ActivesStep == ASSUME IInv, [Next]_vars PROVE Actives'
<1>0. TypeOK /\ Calls /\ Sockets /\ Actives
  BY DEF IInv
<1>1. CASE SurfaceCreated
  <2>1. Start(incarnation + 1)
    BY <1>1 DEF SurfaceCreated
  <2>2. (incarnation + 1) \in 0 .. MaxSurfaces /\ generation < MaxGeneration
    BY <1>0, <1>1, ConnectionAssumption DEF SurfaceCreated, Idle, TypeOK
  <2>3. Begun(incarnation + 1)
    BY <1>0, <2>1, <2>2, StartCases
  <2>4. CASE UNCHANGED <<running, generation, pc>>
    BY <1>0, <1>1, <2>2, <2>3, <2>4 DEF SurfaceCreated, Actives,
      OpenStreamIsReachable, Current, active, streams
  <2>5. CASE ~UNCHANGED <<running, generation, pc>>
    BY <1>0, <1>1, <2>2, <2>3, <2>5 DEF SurfaceCreated, TypeOK, Actives,
      OpenStreamIsReachable, Current, Holding, Connecting, Receiving, active, streams,
      Begun
  <2> QED BY <2>4, <2>5
<1>2. CASE SurfaceChanged
  <2>1. Start(incarnation)
    BY <1>2 DEF SurfaceChanged
  <2>2. incarnation \in 0 .. MaxSurfaces /\ generation < MaxGeneration
    BY <1>0, <1>2, ConnectionAssumption DEF SurfaceChanged, Idle, TypeOK
  <2>3. Begun(incarnation)
    BY <1>0, <2>1, <2>2, StartCases
  <2>4. CASE UNCHANGED <<running, generation, pc>>
    BY <1>0, <1>2, <2>2, <2>3, <2>4 DEF SurfaceChanged, Actives,
      OpenStreamIsReachable, Current, active, streams, Begun
  <2>5. CASE ~UNCHANGED <<running, generation, pc>>
    BY <1>0, <1>2, <2>2, <2>3, <2>5 DEF SurfaceChanged, TypeOK, Actives,
      OpenStreamIsReachable, Current, Holding, Connecting, Receiving, active, streams,
      Begun
  <2> QED BY <2>4, <2>5
<1>3. CASE SurfaceDestroyed
  BY <1>0, <1>3 DEF SurfaceDestroyed, Stop, CloseSockets, Sockets, Actives,
    OpenStreamIsReachable, Current, Holding
<1>4. CASE OnResume
  <2>1. surfaceReady => Start(incarnation)
    BY <1>4 DEF OnResume
  <2>2. incarnation \in 0 .. MaxSurfaces /\ generation < MaxGeneration
    BY <1>0, <1>4, ConnectionAssumption DEF OnResume, Idle, TypeOK
  <2>3. surfaceReady => Begun(incarnation)
    BY <1>0, <2>1, <2>2, StartCases
  <2>4. CASE UNCHANGED <<running, generation, pc>>
    BY <1>0, <1>4, <2>2, <2>3, <2>4 DEF OnResume, Actives, OpenStreamIsReachable,
      Current, active, streams
  <2>5. CASE ~UNCHANGED <<running, generation, pc>>
    BY <1>0, <1>4, <2>2, <2>3, <2>5 DEF OnResume, TypeOK, Actives,
      OpenStreamIsReachable, Current, Holding, Connecting, Receiving, state, active,
      streams, Begun
  <2> QED BY <2>4, <2>5
<1>5. CASE OnPause
  BY <1>0, <1>5 DEF OnPause, Stop, CloseSockets, Sockets, Actives,
    OpenStreamIsReachable, Current, Holding
<1>6. CASE Reconnect
  BY <1>0, <1>6 DEF Reconnect, Stop, CloseSockets, Sockets, Actives,
    OpenStreamIsReachable, Current, Holding
<1>7. CASE OnDestroy
  BY <1>0, <1>7 DEF OnDestroy, Actives, OpenStreamIsReachable, Current, active,
    streams
<1>8. CASE ReconnectStarts
  <2>1. Start(IF surface = incarnation THEN surface ELSE 0)
    BY <1>8 DEF ReconnectStarts
  <2>2. /\ (IF surface = incarnation THEN surface ELSE 0) \in 0 .. MaxSurfaces
        /\ generation < MaxGeneration
    BY <1>0, <1>8, ConnectionAssumption DEF ReconnectStarts, Idle, TypeOK, Calls
  <2>3. Begun(IF surface = incarnation THEN surface ELSE 0)
    BY <1>0, <2>1, <2>2, StartCases
  <2>4. CASE UNCHANGED <<running, generation, pc>>
    BY <1>0, <1>8, <2>2, <2>3, <2>4 DEF ReconnectStarts, Actives,
      OpenStreamIsReachable, Current, active, streams, Begun
  <2>5. CASE ~UNCHANGED <<running, generation, pc>>
    BY <1>0, <1>8, <2>2, <2>3, <2>5 DEF ReconnectStarts, TypeOK, Actives,
      OpenStreamIsReachable, Current, Holding, Connecting, Receiving, active, streams,
      Begun
  <2> QED BY <2>4, <2>5
<1>9. CASE CloseStops
  BY <1>0, <1>9 DEF CloseStops, Stop, CloseSockets, Sockets, Actives,
    OpenStreamIsReachable, Current, Holding
<1>10. CASE ShowStatus
  BY <1>0, <1>10 DEF ShowStatus, Actives, OpenStreamIsReachable, Current, state,
    active, streams
<1>11. ASSUME NEW g \in Token, Decide(g, "head", "connecting", "ended") PROVE Actives'
  BY <1>0, <1>11 DEF Decide, Step, Current, Actives, OpenStreamIsReachable, Holding,
    Installed, Connecting, Receiving, state, active, streams
<1>12. ASSUME NEW g \in Token, Notify(g, "connecting", "connect") PROVE Actives'
  <2>1. Noted(g)
    BY <1>0, <1>12, NotifyCases DEF Statuses
  <2> QED BY <1>0, <1>12, <2>1 DEF Notify, Step, Actives, OpenStreamIsReachable,
    Current, Holding, Installed, Connecting, Receiving, state, active, streams
<1>13. ASSUME NEW g \in Token, Connect(g) PROVE Actives'
  BY <1>0, <1>13 DEF Connect, Step, Fail, TypeOK, Calls, Sockets, Actives,
    OpenStreamIsReachable, Current, Holding, Installed, Connecting, Receiving, state,
    active, streams
<1>14. ASSUME NEW g \in Token, InstallActiveSocket(g) PROVE Actives'
  <2>1. pc[g] = "install" /\ activeSocket # g
    BY <1>0, <1>14 DEF InstallActiveSocket, Step, Token, Actives, Installed, Holding,
      Connecting, Receiving
  <2>2. CASE Current(g)
    <3>1. activeSocket = 0 /\ activeReceiver = 0
      BY <1>0, <2>1, <2>2 DEF Actives, OpenStreamIsReachable, Current
    <3>2. \A h \in Token : h # g => pc[h] \notin Holding \/ socket[h] = "closed"
      BY <1>0, <2>2 DEF Actives, OpenStreamIsReachable, Current, Holding
    <3>3. /\ pc' = [pc EXCEPT ![g] = "handshake"] /\ activeSocket' = g
          /\ UNCHANGED <<running, closed, generation, activeReceiver, socket, stopRequested>>
      BY <1>14, <2>2 DEF InstallActiveSocket, Step, state, streams
    <3>4. running /\ generation = g /\ ~closed
      BY <2>2 DEF Current
    <3>5. \A h \in Token : pc'[h] \in Receiving => h # g /\ pc[h] \in Receiving
      BY <1>0, <3>3 DEF TypeOK, Receiving
    <3>6. OpenStreamIsReachable'
      BY <1>0, <3>1, <3>2, <3>3, <3>4, <3>5 DEF Actives, OpenStreamIsReachable
    <3>7. \A h \in Token : pc'[h] \in Holding /\ Current(h)' => activeSocket' = h
      BY <3>3, <3>4 DEF Current
    <3>8. pc'[g] \in Installed
      BY <1>0, <3>3 DEF TypeOK, Installed, Holding, Connecting
    <3> QED BY <3>3, <3>4, <3>6, <3>7, <3>8 DEF Actives
  <2>3. CASE ~Current(g)
    <3>1. Shut({g})
      BY <1>0, <1>14, <2>3, CloseCases DEF InstallActiveSocket
    <3>2. /\ pc' = [pc EXCEPT ![g] = "return"]
          /\ UNCHANGED <<running, closed, generation>>
          /\ UNCHANGED <<activeSocket, activeReceiver, stopRequested>>
      BY <1>14, <2>3 DEF InstallActiveSocket, Step, state, active, streams
    <3>3. \A h \in Token : h # g => pc'[h] = pc[h] /\ socket'[h] = socket[h]
      BY <3>1, <3>2 DEF Shut
    <3>4. pc'[g] = "return"
      BY <1>0, <3>2 DEF TypeOK
    <3> QED
      BY <1>0, <2>1, <3>2, <3>3, <3>4 DEF Actives, OpenStreamIsReachable, Current,
        Holding, Connecting, Receiving
  <2> QED BY <2>2, <2>3
<1>15. ASSUME NEW g \in Token, PerformHandshake(g) PROVE Actives'
  BY <1>0, <1>15 DEF PerformHandshake, Step, Fail, TypeOK, Actives,
    OpenStreamIsReachable, Current, Holding, Installed, Connecting, Receiving, state,
    active, streams
<1>16. ASSUME NEW g \in Token, InstallActiveReceiver(g) PROVE Actives'
  <2>1. pc[g] = "answered"
    BY <1>16 DEF InstallActiveReceiver, Step
  <2>2. CASE Current(g) /\ activeSocket = g
    <3>1. \A h \in Token : pc[h] \in Receiving => stopRequested[h]
      BY <1>0, <2>1, <2>2 DEF Actives, OpenStreamIsReachable, Receiving, Token
    <3>2. /\ pc' = [pc EXCEPT ![g] = "hail"] /\ activeReceiver' = g
          /\ UNCHANGED <<running, closed, generation, activeSocket, socket, stopRequested>>
      BY <1>16, <2>2 DEF InstallActiveReceiver, Step, state
    <3>3. \A h \in Token : IF h = g THEN pc'[h] = "hail" ELSE pc'[h] = pc[h]
      BY <1>0, <3>2 DEF TypeOK
    <3> QED
      BY <1>0, <2>1, <2>2, <3>1, <3>2, <3>3 DEF Actives, OpenStreamIsReachable,
        Current, Installed, Holding, Receiving
  <2>3. CASE ~(Current(g) /\ activeSocket = g)
    <3>1. Shut({g})
      BY <1>0, <1>16, <2>3, CloseCases DEF InstallActiveReceiver
    <3>2. /\ pc' = [pc EXCEPT ![g] = "return"]
          /\ UNCHANGED <<running, closed, generation>>
          /\ UNCHANGED <<activeSocket, activeReceiver, stopRequested>>
      BY <1>16, <2>3 DEF InstallActiveReceiver, Step, state, active, streams
    <3>3. \A h \in Token : h # g => pc'[h] = pc[h] /\ socket'[h] = socket[h]
      BY <3>1, <3>2 DEF Shut
    <3>4. pc'[g] = "return"
      BY <1>0, <3>2 DEF TypeOK
    <3> QED
      BY <1>0, <2>1, <3>2, <3>3, <3>4 DEF Actives, OpenStreamIsReachable, Current,
        Installed, Holding, Connecting, Receiving
  <2> QED BY <2>2, <2>3
<1>17. ASSUME NEW g \in Token, Hail(g) PROVE Actives'
  BY <1>0, <1>17 DEF Hail, Decide, Step, Current, Actives, OpenStreamIsReachable,
    Holding, Installed, Receiving, state, active, streams
<1>18. ASSUME NEW g \in Token, Notify(g, "connected", "first") PROVE Actives'
  <2>1. Noted(g)
    BY <1>0, <1>18, NotifyCases DEF Statuses
  <2> QED BY <1>0, <1>18, <2>1 DEF Notify, Step, Actives, OpenStreamIsReachable,
    Current, Holding, Installed, Receiving, state, active, streams
<1>19. ASSUME NEW g \in Token, ReadFirst(g) PROVE Actives'
  BY <1>0, <1>19 DEF ReadFirst, Step, TypeOK, Calls, Actives, OpenStreamIsReachable,
    Current, Holding, Installed, Receiving, state, active, streams
<1>20. ASSUME NEW g \in Token, StartDecoder(g) PROVE Actives'
  BY <1>0, <1>20 DEF StartDecoder, Step, Fail, TypeOK, Calls, Actives,
    OpenStreamIsReachable, Current, Holding, Installed, Receiving, state, active
<1>21. ASSUME NEW g \in Token, CursorPacket(g) PROVE Actives'
  BY <1>0, <1>21 DEF CursorPacket, Step, Current, Actives, OpenStreamIsReachable,
    Holding, Installed, Receiving, state, active, streams
<1>22. ASSUME NEW g \in Token, Notify(g, "cursor", "stream") PROVE Actives'
  <2>1. Noted(g)
    BY <1>0, <1>22, NotifyCases
  <2> QED BY <1>0, <1>22, <2>1 DEF Notify, Step, Actives, OpenStreamIsReachable,
    Current, Holding, Installed, Receiving, state, active, streams
<1>23. ASSUME NEW g \in Token, StreamEnds(g) PROVE Actives'
  BY <1>0, <1>23 DEF StreamEnds, Step, Actives, OpenStreamIsReachable, Current,
    Holding, Installed, Receiving, state, active, streams
<1>24. ASSUME NEW g \in Token, JoinDecoder(g) PROVE Actives'
  BY <1>0, <1>24 DEF JoinDecoder, Step, Actives, OpenStreamIsReachable, Current,
    Holding, Installed, Connecting, Receiving, state, active
<1>25. ASSUME NEW g \in Token, Decide(g, "report", "error", "clear") PROVE Actives'
  BY <1>0, <1>25 DEF Decide, Step, Current, Actives, OpenStreamIsReachable, Holding,
    Installed, Connecting, Receiving, state, active, streams
<1>26. ASSUME NEW g \in Token, Notify(g, "error", "clear") PROVE Actives'
  <2>1. Noted(g)
    BY <1>0, <1>26, NotifyCases DEF Statuses
  <2> QED BY <1>0, <1>26, <2>1 DEF Notify, Step, Actives, OpenStreamIsReachable,
    Current, Holding, Installed, Connecting, Receiving, state, active, streams
<1>27. ASSUME NEW g \in Token, ClearActiveResources(g) PROVE Actives'
  BY <1>0, <1>27 DEF ClearActiveResources, Finish, Step, Current, TypeOK, Calls,
    Sockets, Actives, OpenStreamIsReachable, Holding, Connecting, Receiving, state
<1>28. ASSUME NEW g \in Token, Notify(g, "disconnected", "head") PROVE Actives'
  <2>1. Noted(g)
    BY <1>0, <1>28, NotifyCases DEF Statuses
  <2> QED BY <1>0, <1>28, <2>1 DEF Notify, Step, Actives, OpenStreamIsReachable,
    Current, Holding, Installed, Connecting, Receiving, state, active, streams
<1>29. ASSUME NEW s \in Surfaces, DecoderReleases(s) PROVE Actives'
  BY <1>0, <1>29 DEF DecoderReleases, Actives, OpenStreamIsReachable, Current, state,
    active
<1>30. CASE HostAccepts
  BY <1>0, <1>30 DEF HostAccepts, Actives, OpenStreamIsReachable, Current, state,
    active, streams
<1>31. CASE HostNotices
  BY <1>0, <1>31 DEF HostNotices, Actives, OpenStreamIsReachable, Current, state,
    active, streams
<1>32. CASE HostDrops
  BY <1>0, <1>32 DEF HostDrops, Sockets, Actives, OpenStreamIsReachable, Current,
    state, active, streams
<1>33. CASE HostExits
  BY <1>0, <1>33 DEF HostExits, Actives, OpenStreamIsReachable, Current, state,
    active, streams
<1>34. CASE HostStarts
  BY <1>0, <1>34 DEF HostStarts, Actives, OpenStreamIsReachable, Current, state,
    active, streams
<1>35. CASE UNCHANGED vars
  BY <1>0, <1>35 DEF Actives, OpenStreamIsReachable, Current, vars, state, active,
    streams
<1> QED
  BY <1>1, <1>2, <1>3, <1>4, <1>5, <1>6, <1>7, <1>8, <1>9, <1>10, <1>11, <1>12, <1>13,
    <1>14, <1>15, <1>16, <1>17, <1>18, <1>19, <1>20, <1>21, <1>22, <1>23, <1>24,
    <1>25, <1>26, <1>27, <1>28, <1>29, <1>30, <1>31, <1>32, <1>33, <1>34, <1>35 DEF
    Next, MainCall, MainContinues, RunConnectionLoop, HostStep

\* Every step leaves a loop of the current generation alive.
LEMMA LoopsStep == ASSUME IInv, [Next]_vars PROVE Loops'
<1>0. TypeOK /\ Calls /\ Actives /\ Loops
  BY DEF IInv
<1>1. CASE SurfaceCreated
  <2>1. Start(incarnation + 1)
    BY <1>1 DEF SurfaceCreated
  <2>2. incarnation + 1 \in 0 .. MaxSurfaces /\ generation < MaxGeneration
    BY <1>0, <1>1, ConnectionAssumption DEF SurfaceCreated, Idle, TypeOK
  <2>3. Begun(incarnation + 1)
    BY <1>0, <2>1, <2>2, StartCases
  <2>4. CASE UNCHANGED <<running, generation, pc>>
    BY <1>0, <1>1, <2>2, <2>3, <2>4
       DEF SurfaceCreated, Begun, TypeOK, Calls, Loops, LoopAlive, Alive, Current
  <2>5. CASE ~UNCHANGED <<running, generation, pc>>
    BY <1>0, <1>1, <2>2, <2>3, <2>5
       DEF SurfaceCreated, Begun, TypeOK, Calls, Loops, LoopAlive, Alive, Current
  <2> QED BY <2>4, <2>5
<1>2. CASE SurfaceChanged
  BY SMTT(20), <1>0, <1>2, ConnectionAssumption DEF SurfaceChanged, Idle, Start, TypeOK,
    Actives, Loops, LoopAlive, Alive, Current, Token, ui, state, status
<1>3. CASE SurfaceDestroyed
  BY <1>3 DEF SurfaceDestroyed, Stop, Loops, LoopAlive, Current
<1>4. CASE OnResume
  BY <1>0, <1>4, ConnectionAssumption DEF OnResume, Idle, Start, TypeOK, Calls, Loops,
    LoopAlive, Alive, Current, Token, state
<1>5. CASE OnPause
  BY <1>5 DEF OnPause, Stop, Loops, LoopAlive, Current
<1>6. CASE Reconnect
  BY <1>6 DEF Reconnect, Stop, Loops, LoopAlive, Current
<1>7. CASE OnDestroy
  BY <1>7 DEF OnDestroy, Loops, LoopAlive, Current
<1>8. CASE ReconnectStarts
  <2>1. Start(IF surface = incarnation THEN surface ELSE 0)
    BY <1>8 DEF ReconnectStarts
  <2>2. /\ (IF surface = incarnation THEN surface ELSE 0) \in 0 .. MaxSurfaces
        /\ generation < MaxGeneration
    BY <1>0, <1>8, ConnectionAssumption DEF ReconnectStarts, TypeOK, Calls
  <2>3. Begun(IF surface = incarnation THEN surface ELSE 0)
    BY <1>0, <2>1, <2>2, StartCases
  <2>4. CASE UNCHANGED <<running, generation, pc>>
    BY <1>0, <1>8, <2>2, <2>3, <2>4
       DEF ReconnectStarts, Begun, TypeOK, Calls, Loops, LoopAlive, Alive, Current, ui
  <2>5. CASE ~UNCHANGED <<running, generation, pc>>
    BY <1>0, <1>8, <2>2, <2>3, <2>5
       DEF ReconnectStarts, Begun, TypeOK, Calls, Loops, LoopAlive, Alive, Current, ui
  <2> QED BY <2>4, <2>5
<1>9. CASE CloseStops
  BY <1>0, <1>9 DEF CloseStops, Stop, Calls, Loops, LoopAlive, Current
<1>10. CASE ShowStatus
  BY <1>0, <1>10 DEF ShowStatus, Loops, LoopAlive, Alive, Current, ui, state
<1>11. ASSUME NEW g \in Token, Decide(g, "head", "connecting", "ended") PROVE Loops'
  BY <1>0, <1>11 DEF Decide, Step, Current, Loops, LoopAlive, Alive, ui, state
<1>12. ASSUME NEW g \in Token, Notify(g, "connecting", "connect") PROVE Loops'
  BY <1>0, <1>12 DEF Notify, Step, Loops, LoopAlive, Alive, Current, ui, state
<1>13. ASSUME NEW g \in Token, Connect(g) PROVE Loops'
  BY <1>0, <1>13, ConnectionAssumption DEF Connect, Step, TypeOK, Calls, Loops,
    LoopAlive, Alive, Current, Token, ui, state
<1>14. ASSUME NEW g \in Token, InstallActiveSocket(g) PROVE Loops'
  BY <1>0, <1>14, ConnectionAssumption DEF InstallActiveSocket, Step, Current,
    CloseSockets, TypeOK, Calls, Loops, LoopAlive, Alive, Token, ui, state
<1>15. ASSUME NEW g \in Token, PerformHandshake(g) PROVE Loops'
  BY <1>0, <1>15, ConnectionAssumption DEF PerformHandshake, Step, TypeOK, Calls,
    Loops, LoopAlive, Alive, Current, Token, ui, state
<1>16. ASSUME NEW g \in Token, InstallActiveReceiver(g) PROVE Loops'
  BY SMTT(20), <1>0, <1>16, ConnectionAssumption DEF InstallActiveReceiver, Step, Current,
    TypeOK, Calls, Actives, Loops, LoopAlive, Alive, Token, Holding, Connecting, ui,
    state
<1>17. ASSUME NEW g \in Token, Hail(g) PROVE Loops'
  BY <1>0, <1>17 DEF Hail, Decide, Step, Current, Loops, LoopAlive, Alive, ui, state
<1>18. ASSUME NEW g \in Token, Notify(g, "connected", "first") PROVE Loops'
  BY <1>0, <1>18 DEF Notify, Step, Loops, LoopAlive, Alive, Current, ui, state
<1>19. ASSUME NEW g \in Token, ReadFirst(g) PROVE Loops'
  BY <1>0, <1>19, ConnectionAssumption DEF ReadFirst, Step, TypeOK, Calls, Loops,
    LoopAlive, Alive, Current, Token, ui, state
<1>20. ASSUME NEW g \in Token, StartDecoder(g) PROVE Loops'
  BY <1>0, <1>20, ConnectionAssumption DEF StartDecoder, Step, TypeOK, Calls, Loops,
    LoopAlive, Alive, Current, Token, ui, state
<1>21. ASSUME NEW g \in Token, CursorPacket(g) PROVE Loops'
  BY <1>21 DEF CursorPacket, Step, Current, Loops, LoopAlive, Alive, state
<1>22. ASSUME NEW g \in Token, Notify(g, "cursor", "stream") PROVE Loops'
  BY <1>0, <1>22 DEF Notify, Step, Loops, LoopAlive, Alive, Current, ui, state
<1>23. ASSUME NEW g \in Token, StreamEnds(g) PROVE Loops'
  BY <1>0, <1>23 DEF StreamEnds, Step, Loops, LoopAlive, Alive, Current, ui, state
<1>24. ASSUME NEW g \in Token, JoinDecoder(g) PROVE Loops'
  BY <1>0, <1>24 DEF JoinDecoder, Step, Loops, LoopAlive, Alive, Current, ui, state
<1>25. ASSUME NEW g \in Token, Decide(g, "report", "error", "clear") PROVE Loops'
  BY <1>0, <1>25 DEF Decide, Step, Current, Loops, LoopAlive, Alive, ui, state
<1>26. ASSUME NEW g \in Token, Notify(g, "error", "clear") PROVE Loops'
  BY <1>0, <1>26 DEF Notify, Step, Loops, LoopAlive, Alive, Current, ui, state
<1>27. ASSUME NEW g \in Token, ClearActiveResources(g) PROVE Loops'
  BY <1>0, <1>27, ConnectionAssumption DEF ClearActiveResources, Finish, Step,
    Current, TypeOK, Calls, Loops, LoopAlive, Alive, Token, ui, state
<1>28. ASSUME NEW g \in Token, Notify(g, "disconnected", "head") PROVE Loops'
  BY <1>0, <1>28 DEF Notify, Step, Loops, LoopAlive, Alive, Current, ui, state
<1>29. ASSUME NEW s \in Surfaces, DecoderReleases(s) PROVE Loops'
  BY <1>0, <1>29 DEF DecoderReleases, Loops, LoopAlive, Alive, Current, ui, state
<1>30. CASE HostAccepts
  BY <1>0, <1>30 DEF HostAccepts, Loops, LoopAlive, Alive, Current, ui, state
<1>31. CASE HostNotices
  BY <1>0, <1>31 DEF HostNotices, Loops, LoopAlive, Alive, Current, ui, state
<1>32. CASE HostDrops
  BY <1>0, <1>32 DEF HostDrops, Loops, LoopAlive, Alive, Current, ui, state
<1>33. CASE HostExits
  BY <1>0, <1>33 DEF HostExits, Loops, LoopAlive, Alive, Current, ui, state
<1>34. CASE HostStarts
  BY <1>0, <1>34 DEF HostStarts, Loops, LoopAlive, Alive, Current, ui, state
<1>35. CASE UNCHANGED vars
  BY <1>0, <1>35 DEF Loops, LoopAlive, Alive, Current, vars, ui, state
<1> QED
  BY <1>1, <1>2, <1>3, <1>4, <1>5, <1>6, <1>7, <1>8, <1>9, <1>10, <1>11, <1>12, <1>13,
    <1>14, <1>15, <1>16, <1>17, <1>18, <1>19, <1>20, <1>21, <1>22, <1>23, <1>24,
    <1>25, <1>26, <1>27, <1>28, <1>29, <1>30, <1>31, <1>32, <1>33, <1>34, <1>35 DEF
    Next, MainCall, MainContinues, RunConnectionLoop, HostStep

\* Every step keeps late reports to one for each loop.
LEMMA ReportsStep == ASSUME IInv, [Next]_vars PROVE Reports'
<1>0. TypeOK /\ Calls /\ Reports
  BY DEF IInv
<1>1. CASE SurfaceCreated
  BY SMTT(20), <1>0, <1>1, ConnectionAssumption DEF SurfaceCreated, Start, TypeOK, Reports,
    Token, state, active, status
<1>2. CASE SurfaceChanged
  BY SMTT(20), <1>0, <1>2, ConnectionAssumption DEF SurfaceChanged, Start, TypeOK, Reports,
    Token, ui, state, status
<1>3. CASE SurfaceDestroyed
  BY <1>0, <1>3 DEF SurfaceDestroyed, Stop, TypeOK, Reports, Token, status
<1>4. CASE OnResume
  <2>1. CASE surfaceReady
    <3>1. incarnation \in 0 .. MaxSurfaces /\ generation < MaxGeneration
      BY <1>0, <1>4, ConnectionAssumption DEF OnResume, Idle, TypeOK
    <3>2. Begun(incarnation)
      BY <1>0, <1>4, <2>1, <3>1, StartCases DEF OnResume
    <3>3. stale' = stale /\ generation \in Nat
      BY <1>0, <1>4, ConnectionAssumption DEF OnResume, TypeOK, status
    <3>4. \A g \in Token : pc'[g] \in Noting => pc[g] \in Noting
      BY <1>0, <3>2 DEF Begun, TypeOK, Noting
    <3>5. ASSUME NEW g \in Token, g <= generation, ~(running /\ generation = g)
          PROVE  g <= generation' /\ ~(running' /\ generation' = g)
      BY <3>2, <3>3, <3>5 DEF Begun, Token
    <3> QED BY <1>0, <3>3, <3>4, <3>5 DEF Reports
  <2>2. CASE ~surfaceReady
    BY <1>0, <1>4, <2>2 DEF OnResume, Reports, state, status
  <2> QED BY <2>1, <2>2
<1>5. CASE OnPause
  BY <1>0, <1>5 DEF OnPause, Stop, TypeOK, Reports, Token, status
<1>6. CASE Reconnect
  BY <1>0, <1>6 DEF Reconnect, Stop, TypeOK, Reports, Token, status
<1>7. CASE OnDestroy
  BY <1>0, <1>7 DEF OnDestroy, Reports, status
<1>8. CASE ReconnectStarts
  BY SMTT(20), <1>0, <1>8, ConnectionAssumption DEF ReconnectStarts, Start, TypeOK, Reports,
    Token, state, status
<1>9. CASE CloseStops
  BY <1>0, <1>9 DEF CloseStops, Stop, TypeOK, Reports, Token, status
<1>10. CASE ShowStatus
  BY <1>0, <1>10 DEF ShowStatus, Reports, state, status
<1>11. ASSUME NEW g \in Token, Decide(g, "head", "connecting", "ended") PROVE Reports'
  BY <1>0, <1>11 DEF Decide, Step, Current, Reports, Noting, state, status
<1>12. ASSUME NEW g \in Token, Notify(g, "connecting", "connect") PROVE Reports'
  BY <1>0, <1>12 DEF Notify, Step, TypeOK, Calls, Reports, Noting, state
<1>13. ASSUME NEW g \in Token, Connect(g) PROVE Reports'
  BY <1>0, <1>13 DEF Connect, Step, TypeOK, Reports, Noting, state, status
<1>14. ASSUME NEW g \in Token, InstallActiveSocket(g) PROVE Reports'
  BY <1>0, <1>14 DEF InstallActiveSocket, Step, TypeOK, Reports, Noting, state, status
<1>15. ASSUME NEW g \in Token, PerformHandshake(g) PROVE Reports'
  BY <1>0, <1>15 DEF PerformHandshake, Step, TypeOK, Reports, Noting, state, status
<1>16. ASSUME NEW g \in Token, InstallActiveReceiver(g) PROVE Reports'
  BY <1>0, <1>16 DEF InstallActiveReceiver, Step, TypeOK, Reports, Noting, state,
    status
<1>17. ASSUME NEW g \in Token, Hail(g) PROVE Reports'
  BY <1>0, <1>17 DEF Hail, Decide, Step, Current, Reports, Noting, state, status
<1>18. ASSUME NEW g \in Token, Notify(g, "connected", "first") PROVE Reports'
  BY <1>0, <1>18 DEF Notify, Step, TypeOK, Calls, Reports, Noting, state
<1>19. ASSUME NEW g \in Token, ReadFirst(g) PROVE Reports'
  BY <1>0, <1>19 DEF ReadFirst, Step, TypeOK, Reports, Noting, state, status
<1>20. ASSUME NEW g \in Token, StartDecoder(g) PROVE Reports'
  BY <1>0, <1>20 DEF StartDecoder, Step, TypeOK, Reports, Noting, state, status
<1>21. ASSUME NEW g \in Token, CursorPacket(g) PROVE Reports'
  BY <1>0, <1>21 DEF CursorPacket, Step, Current, Reports, state, status
<1>22. ASSUME NEW g \in Token, Notify(g, "cursor", "stream") PROVE Reports'
  BY <1>0, <1>22 DEF Notify, Step, TypeOK, Calls, Reports, Noting, state
<1>23. ASSUME NEW g \in Token, StreamEnds(g) PROVE Reports'
  BY <1>0, <1>23 DEF StreamEnds, Step, Reports, Noting, state, status
<1>24. ASSUME NEW g \in Token, JoinDecoder(g) PROVE Reports'
  BY <1>0, <1>24 DEF JoinDecoder, Step, Reports, Noting, state, status
<1>25. ASSUME NEW g \in Token, Decide(g, "report", "error", "clear") PROVE Reports'
  BY <1>0, <1>25 DEF Decide, Step, Current, Reports, Noting, state, status
<1>26. ASSUME NEW g \in Token, Notify(g, "error", "clear") PROVE Reports'
  BY <1>0, <1>26 DEF Notify, Step, TypeOK, Calls, Reports, Noting, state
<1>27. ASSUME NEW g \in Token, ClearActiveResources(g) PROVE Reports'
  BY <1>0, <1>27 DEF ClearActiveResources, Finish, Step, Current, TypeOK, Reports,
    Noting, state, status
<1>28. ASSUME NEW g \in Token, Notify(g, "disconnected", "head") PROVE Reports'
  BY <1>0, <1>28 DEF Notify, Step, TypeOK, Calls, Reports, Noting, state
<1>29. ASSUME NEW s \in Surfaces, DecoderReleases(s) PROVE Reports'
  BY <1>0, <1>29 DEF DecoderReleases, Reports, state, status
<1>30. CASE HostAccepts
  BY <1>0, <1>30 DEF HostAccepts, Reports, state, status
<1>31. CASE HostNotices
  BY <1>0, <1>31 DEF HostNotices, Reports, state, status
<1>32. CASE HostDrops
  BY <1>0, <1>32 DEF HostDrops, Reports, state, status
<1>33. CASE HostExits
  BY <1>0, <1>33 DEF HostExits, Reports, state, status
<1>34. CASE HostStarts
  BY <1>0, <1>34 DEF HostStarts, Reports, state, status
<1>35. CASE UNCHANGED vars
  BY <1>0, <1>35 DEF Reports, vars, state, status
<1> QED
  BY <1>1, <1>2, <1>3, <1>4, <1>5, <1>6, <1>7, <1>8, <1>9, <1>10, <1>11, <1>12, <1>13,
    <1>14, <1>15, <1>16, <1>17, <1>18, <1>19, <1>20, <1>21, <1>22, <1>23, <1>24,
    <1>25, <1>26, <1>27, <1>28, <1>29, <1>30, <1>31, <1>32, <1>33, <1>34, <1>35 DEF
    Next, MainCall, MainContinues, RunConnectionLoop, HostStep

\* A start that reports nothing keeps the posted status true.
LEMMA StatusBegun ==
  ASSUME TypeOK, StatusIsTrue, NEW s, Begun(s), UNCHANGED <<late, posted>>
  PROVE  StatusIsTrue'
<1>1. CASE UNCHANGED <<running, generation, pc>>
  BY <1>1 DEF Begun, StatusIsTrue
<1>2. CASE ~UNCHANGED <<running, generation, pc>>
  <2>1. pc'[generation'] = "head"
    BY <1>2 DEF Begun, TypeOK
  <2> QED BY <2>1 DEF StatusIsTrue, Trying, Watching, Connecting
<1> QED BY <1>1, <1>2

\* So does a step of a loop that reports nothing and stays, if current, in its phase.
LEMMA StatusKept ==
  ASSUME TypeOK, Calls, StatusIsTrue, NEW g \in Token, UNCHANGED <<state, late, posted>>,
         \A h \in Token : h # g => pc'[h] = pc[h],
         Current(g) => /\ pc'[g] \in Trying => pc[g] \in Trying
                       /\ pc'[g] \in Watching => pc[g] \in Watching
  PROVE  StatusIsTrue'
<1>1. UNCHANGED <<running, closed, generation, late, posted>>
  BY DEF state
<1>2. SUFFICES ASSUME running, ~closed PROVE StatusIsTrue'
  BY <1>1 DEF StatusIsTrue
<1>3. generation \in Token
  BY <1>2 DEF TypeOK, Calls, Token
<1>4. CASE generation = g
  BY <1>1, <1>2, <1>4 DEF StatusIsTrue, Current
<1>5. CASE generation # g
  BY <1>1, <1>3, <1>5 DEF StatusIsTrue
<1> QED BY <1>4, <1>5

\* And a report that says what its loop does next.
LEMMA StatusNoted ==
  ASSUME TypeOK, Calls, StatusIsTrue, NEW g \in Token,
         NEW what \in Statuses \cup {"cursor"}, NEW next, Notify(g, what, next),
         next \in Trying => what = "connecting",
         next \in Watching => \/ what = "connected"
                              \/ what = "cursor" /\ pc[g] \in Watching
  PROVE  StatusIsTrue'
<1>1. /\ UNCHANGED <<running, closed, generation>>
      /\ pc'[g] = next /\ \A h \in Token : h # g => pc'[h] = pc[h]
  BY DEF Notify, Step, TypeOK, state
<1>2. SUFFICES ASSUME running, ~closed, ~late' PROVE StatusIsTrue'
  BY <1>1 DEF StatusIsTrue
<1>3. generation \in Token
  BY <1>2 DEF TypeOK, Calls, Token
<1>4. CASE what = "cursor"
  <2>1. UNCHANGED <<late, posted>>
    BY <1>4 DEF Notify
  <2>2. CASE generation = g
    BY <1>1, <1>2, <1>4, <2>1, <2>2 DEF StatusIsTrue
  <2>3. CASE generation # g
    BY <1>1, <1>2, <1>3, <2>1, <2>3 DEF StatusIsTrue
  <2> QED BY <2>2, <2>3
<1>5. CASE what # "cursor"
  <2>1. generation = g /\ posted' = what
    BY <1>2, <1>5 DEF Notify
  <2> QED BY <1>1, <1>5, <2>1 DEF StatusIsTrue
<1> QED BY <1>4, <1>5

\* Every step keeps the posted status true.
LEMMA StatusStep == ASSUME IInv, [Next]_vars PROVE StatusIsTrue'
<1>0. TypeOK /\ Calls /\ StatusIsTrue
  BY DEF IInv
<1>1. CASE SurfaceCreated
  <2>1. Start(incarnation + 1)
    BY <1>1 DEF SurfaceCreated
  <2>2. (incarnation + 1) \in 0 .. MaxSurfaces /\ generation < MaxGeneration
    BY <1>0, <1>1, ConnectionAssumption DEF SurfaceCreated, Idle, TypeOK
  <2>3. Begun(incarnation + 1)
    BY <1>0, <2>1, <2>2, StartCases
  <2> QED BY <1>0, <1>1, <2>3, StatusBegun DEF SurfaceCreated, status
<1>2. CASE SurfaceChanged
  <2>1. Start(incarnation)
    BY <1>2 DEF SurfaceChanged
  <2>2. incarnation \in 0 .. MaxSurfaces /\ generation < MaxGeneration
    BY <1>0, <1>2, ConnectionAssumption DEF SurfaceChanged, Idle, TypeOK
  <2>3. Begun(incarnation)
    BY <1>0, <2>1, <2>2, StartCases
  <2> QED BY <1>0, <1>2, <2>3, StatusBegun DEF SurfaceChanged, status
<1>3. CASE SurfaceDestroyed
  BY <1>3 DEF SurfaceDestroyed, Stop, StatusIsTrue
<1>4. CASE OnResume
  <2>1. surfaceReady => Start(incarnation)
    BY <1>4 DEF OnResume
  <2>2. incarnation \in 0 .. MaxSurfaces /\ generation < MaxGeneration
    BY <1>0, <1>4, ConnectionAssumption DEF OnResume, Idle, TypeOK
  <2>3. surfaceReady => Begun(incarnation)
    BY <1>0, <2>1, <2>2, StartCases
  <2>4. CASE surfaceReady
    BY <1>0, <1>4, <2>3, <2>4, StatusBegun DEF OnResume, status
  <2>5. CASE ~surfaceReady
    BY <1>0, <1>4, <2>5 DEF OnResume, StatusIsTrue, state, status
  <2> QED BY <2>4, <2>5
<1>5. CASE OnPause
  BY <1>5 DEF OnPause, Stop, StatusIsTrue
<1>6. CASE Reconnect
  BY <1>6 DEF Reconnect, Stop, StatusIsTrue
<1>7. CASE OnDestroy
  BY <1>7 DEF OnDestroy, StatusIsTrue
<1>8. CASE ReconnectStarts
  <2>1. Start(IF surface = incarnation THEN surface ELSE 0)
    BY <1>8 DEF ReconnectStarts
  <2>2. /\ (IF surface = incarnation THEN surface ELSE 0) \in 0 .. MaxSurfaces
        /\ generation < MaxGeneration
    BY <1>0, <1>8, ConnectionAssumption DEF ReconnectStarts, Idle, TypeOK, Calls
  <2>3. Begun(IF surface = incarnation THEN surface ELSE 0)
    BY <1>0, <2>1, <2>2, StartCases
  <2> QED BY <1>0, <1>8, <2>3, StatusBegun DEF ReconnectStarts, status
<1>9. CASE CloseStops
  BY <1>9 DEF CloseStops, Stop, StatusIsTrue
<1>10. CASE ShowStatus
  BY <1>0, <1>10 DEF ShowStatus, StatusIsTrue, state, status
<1>11. ASSUME NEW g \in Token, Decide(g, "head", "connecting", "ended") PROVE StatusIsTrue'
  BY <1>0, <1>11, StatusKept DEF Decide, Step, TypeOK, Trying, Watching, Connecting, status
<1>12. ASSUME NEW g \in Token, Notify(g, "connecting", "connect") PROVE StatusIsTrue'
  BY <1>0, <1>12, StatusNoted DEF Notify, Step, Statuses, Trying, Watching, Connecting
<1>13. ASSUME NEW g \in Token, Connect(g) PROVE StatusIsTrue'
  BY <1>0, <1>13, StatusKept DEF Connect, Step, TypeOK, Trying, Watching, Connecting, state, status
<1>14. ASSUME NEW g \in Token, InstallActiveSocket(g) PROVE StatusIsTrue'
  BY <1>0, <1>14, StatusKept DEF InstallActiveSocket, Step, TypeOK, Trying, Watching, Connecting, state, status
<1>15. ASSUME NEW g \in Token, PerformHandshake(g) PROVE StatusIsTrue'
  BY <1>0, <1>15, StatusKept DEF PerformHandshake, Step, TypeOK, Trying, Watching, Connecting, state, status
<1>16. ASSUME NEW g \in Token, InstallActiveReceiver(g) PROVE StatusIsTrue'
  BY <1>0, <1>16, StatusKept DEF InstallActiveReceiver, Step, TypeOK, Trying, Watching, Connecting, state, status
<1>17. ASSUME NEW g \in Token, Hail(g) PROVE StatusIsTrue'
  BY <1>0, <1>17, StatusKept DEF Hail, Decide, Step, TypeOK, Trying, Watching, Connecting, status
<1>18. ASSUME NEW g \in Token, Notify(g, "connected", "first") PROVE StatusIsTrue'
  BY <1>0, <1>18, StatusNoted DEF Statuses, Trying, Connecting
<1>19. ASSUME NEW g \in Token, ReadFirst(g) PROVE StatusIsTrue'
  BY <1>0, <1>19, StatusKept DEF ReadFirst, Step, TypeOK, Trying, Watching, Connecting, state, status
<1>20. ASSUME NEW g \in Token, StartDecoder(g) PROVE StatusIsTrue'
  BY <1>0, <1>20, StatusKept DEF StartDecoder, Step, TypeOK, Trying, Watching, Connecting, state, status
<1>21. ASSUME NEW g \in Token, CursorPacket(g) PROVE StatusIsTrue'
  BY <1>0, <1>21, StatusKept DEF CursorPacket, Step, TypeOK, Trying, Watching, Connecting, state, status
<1>22. ASSUME NEW g \in Token, Notify(g, "cursor", "stream") PROVE StatusIsTrue'
  BY <1>0, <1>22, StatusNoted DEF Notify, Step, Statuses, Trying, Watching, Connecting
<1>23. ASSUME NEW g \in Token, StreamEnds(g) PROVE StatusIsTrue'
  BY <1>0, <1>23, StatusKept DEF StreamEnds, Step, TypeOK, Trying, Watching, Connecting, state, status
<1>24. ASSUME NEW g \in Token, JoinDecoder(g) PROVE StatusIsTrue'
  BY <1>0, <1>24, StatusKept DEF JoinDecoder, Step, TypeOK, Trying, Watching, Connecting, state, status
<1>25. ASSUME NEW g \in Token, Decide(g, "report", "error", "clear") PROVE StatusIsTrue'
  BY <1>0, <1>25, StatusKept DEF Decide, Step, TypeOK, Trying, Watching, Connecting, status
<1>26. ASSUME NEW g \in Token, Notify(g, "error", "clear") PROVE StatusIsTrue'
  BY <1>0, <1>26, StatusNoted DEF Notify, Step, Statuses, Trying, Watching, Connecting
<1>27. ASSUME NEW g \in Token, ClearActiveResources(g) PROVE StatusIsTrue'
  BY <1>0, <1>27, StatusKept DEF ClearActiveResources, Finish, Step, TypeOK, Trying, Watching, Connecting, state, status
<1>28. ASSUME NEW g \in Token, Notify(g, "disconnected", "head") PROVE StatusIsTrue'
  BY <1>0, <1>28, StatusNoted DEF Notify, Step, Statuses, Trying, Watching, Connecting
<1>29. ASSUME NEW s \in Surfaces, DecoderReleases(s) PROVE StatusIsTrue'
  BY <1>0, <1>29 DEF DecoderReleases, StatusIsTrue, state, status
<1>30. CASE HostAccepts
  BY <1>0, <1>30 DEF HostAccepts, StatusIsTrue, state, status
<1>31. CASE HostNotices
  BY <1>0, <1>31 DEF HostNotices, StatusIsTrue, state, status
<1>32. CASE HostDrops
  BY <1>0, <1>32 DEF HostDrops, StatusIsTrue, state, status
<1>33. CASE HostExits
  BY <1>0, <1>33 DEF HostExits, StatusIsTrue, state, status
<1>34. CASE HostStarts
  BY <1>0, <1>34 DEF HostStarts, StatusIsTrue, state, status
<1>35. CASE UNCHANGED vars
  BY <1>0, <1>35 DEF StatusIsTrue, vars, state, status
<1> QED
  BY <1>1, <1>2, <1>3, <1>4, <1>5, <1>6, <1>7, <1>8, <1>9, <1>10, <1>11, <1>12, <1>13,
    <1>14, <1>15, <1>16, <1>17, <1>18, <1>19, <1>20, <1>21, <1>22, <1>23, <1>24,
    <1>25, <1>26, <1>27, <1>28, <1>29, <1>30, <1>31, <1>32, <1>33, <1>34, <1>35 DEF
    Next, MainCall, MainContinues, RunConnectionLoop, HostStep

----------------------------------------------------------------------------
(* The theorems.                                                           *)

\* A freshly created activity satisfies every part.
LEMMA InitInv == Init => IInv
<1> SUFFICES ASSUME Init PROVE IInv
  OBVIOUS
<1>1. TypeOK
  <2>1. Flags /\ Steps
    BY DEF Init, Flags, Steps, Places
  <2>2. Scalars
    <3>1. main \in {"idle", "reconnect", "close"} /\ posted \in Statuses /\ late \in BOOLEAN
      BY DEF Init, Statuses
    <3>2. 0 \in 0 .. MaxSurfaces /\ 0 \in 0 .. MaxGeneration /\ 0 \in 0 .. MaxFaults
          /\ 0 \in Gone .. MaxGeneration
      BY Bounds DEF Gone
    <3> QED BY <3>1, <3>2 DEF Init, Scalars
  <2>3. Maps
    BY Bounds DEF Init, Maps, Left
  <2>4. Ends
    BY DEF Init, Ends
  <2> QED BY <2>1, <2>2, <2>3, <2>4, TypeParts
<1>2. Calls
  BY DEF Init, Calls
<1>3. Sockets
  BY DEF Init, Sockets, Holding, Connecting, Receiving
<1>4. Actives
  BY DEF Init, Actives, OpenStreamIsReachable, Holding, Connecting, Receiving
<1>5. Loops /\ Reports /\ StatusIsTrue
  BY DEF Init, Loops, LoopAlive, Reports, StatusIsTrue
<1> QED BY <1>1, <1>2, <1>3, <1>4, <1>5 DEF IInv

\* So does every state that is reached from it.
LEMMA Inductive == Safety => []IInv
<1>1. IInv /\ [Next]_vars => IInv'
  BY TypeStep, CallsStep, SocketsStep, ActivesStep, LoopsStep, ReportsStep, StatusStep
    DEF IInv
<1> QED BY <1>1, InitInv, PTL DEF Safety

\* Whatever the order of callbacks, loops, failures and host, the state keeps its shape.
THEOREM TypeCorrect == Safety => []TypeOK
<1>1. IInv => TypeOK
  BY DEF IInv
<1> QED BY <1>1, Inductive, PTL

\* A displayed activity always has a loop of the current generation that is alive.
THEOREM KeepsTrying == Safety => []LoopAlive
<1>1. IInv => LoopAlive
  BY DEF IInv, Loops
<1> QED BY <1>1, Inductive, PTL

\* stop() finds every socket and receiver on which a loop may wait.
THEOREM Reachable == Safety => []OpenStreamIsReachable
<1>1. IInv => OpenStreamIsReachable
  BY DEF IInv, Actives
<1> QED BY <1>1, Inductive, PTL

\* A replaced loop reports at most once more.
THEOREM OneLateReport == Safety => []StaleReportsOnce
<1>1. IInv => StaleReportsOnce
  BY DEF IInv, Reports, StaleReportsOnce
<1> QED BY <1>1, Inductive, PTL

\* The last status posted is that of the current loop, or the late report of a replaced one.
THEOREM TrueStatus == Safety => []StatusIsTrue
<1>1. IInv => StatusIsTrue
  BY DEF IInv
<1> QED BY <1>1, Inductive, PTL
=============================================================================
