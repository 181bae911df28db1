--------------------------- MODULE FrameRing_proofs ---------------------------
(***************************************************************************)
(* Theorems of FrameRing for every slot count: the type invariant, the     *)
(* exclusive use of a slot by the driver or the reader, the slots crashes  *)
(* may cost, whole frames, claims that never fail, and the refinement of   *)
(* FrameChannel.  Each has its inductive invariant, stated before it, and  *)
(* the lemmas that the driver, the constructor, the reader and the         *)
(* environment preserve it.                                                *)
(***************************************************************************)
EXTENDS FrameRing, FiniteSetTheorems, TLAPS

----------------------------------------------------------------------------
(* The type invariant.                                                     *)

\* What the provers need of the slot indices and of the loop limits.
LEMMA SlotFacts ==
  /\ 0 \in Slot /\ NoSlot \notin Slot
  /\ \A s \in Slot : s \in Nat /\ (s + 1 < SlotCount => s + 1 \in Slot)
  /\ ClaimAttempts \in Nat \ {0} /\ ReadAttempts \in Nat \ {0}
  /\ MaxCaptures \in Nat
BY RingAssumption DEF Slot, NoSlot, ClaimAttempts, ReadAttempts

\* A function update keeps the function's type, inside its domain or not.
LEMMA UpdateType ==
  ASSUME NEW S, NEW T, NEW f \in [S -> T], NEW x, NEW v \in T
  PROVE  [f EXCEPT ![x] = v] \in [S -> T]
OBVIOUS

\* Memory of a mapping created anew.
LEMMA DestroyType == ASSUME DestroyMapping PROVE MappingOK'
BY DEF DestroyMapping, MappingOK, SlotState, ZeroHeader

\* The driver's view goes away, the mapping with it or not.
LEMMA DetachType == ASSUME MappingOK, Detach PROVE MappingOK' /\ attached' = FALSE
<1>1. CASE rpc = "down"
  BY <1>1, DestroyType DEF Detach
<1>2. CASE rpc # "down"
  BY <1>2 DEF Detach, MappingOK, mapping
<1>3. QED BY <1>1, <1>2

LEMMA InitType == Init => TypeOK
<1> SUFFICES ASSUME Init PROVE TypeOK
  OBVIOUS
<1>1. MappingOK /\ event \in BOOLEAN
  BY DEF Init, MappingOK, SlotState, ZeroHeader
<1>2. 0 \in Slot /\ 0 \in 0 .. ClaimAttempts /\ 0 \in 0 .. ReadAttempts
  BY SlotFacts
<1>3. WriterOK
  BY <1>2, Zenon DEF Init, WriterOK, WriterSteps, WriterHolds
<1>4. ReaderOK
  BY <1>2, Zenon DEF Init, ReaderOK, ReaderSteps, ReaderHolds, NoFrame
<1>5. HistoryOK
  BY SlotFacts DEF Init, HistoryOK, NoFrame
<1>6. QED BY <1>1, <1>3, <1>4, <1>5 DEF TypeOK

\* Steps of the publishing thread of the driver.
LEMMA WriterType == TypeOK /\ WriterStep => TypeOK'
<1> SUFFICES ASSUME TypeOK, WriterStep PROVE TypeOK'
  OBVIOUS
<1> USE SlotFacts, UpdateType DEF TypeOK, MappingOK, WriterOK, ReaderOK, HistoryOK,
    WriterHolds, ReaderHolds,
           mapping, writer, reader, history, bounds, SlotState, WriterSteps, ReaderSteps
<1>1. CASE ClaimFree
  BY <1>1 DEF ClaimFree, SetState
<1>2. CASE ScanOldest
  BY <1>2 DEF ScanOldest
<1>3. CASE TakeOldest
  BY <1>3 DEF TakeOldest, SetState, CanTake
<1>4. CASE AbandonSlot
  BY <1>4 DEF AbandonSlot, SetState
<1>5. CASE WriteHeader
  BY <1>5 DEF WriteHeader, NextSequence
<1>6. CASE WritePayload
  BY <1>6 DEF WritePayload
<1>7. CASE MarkReady
  BY <1>7 DEF MarkReady, SetState
<1>8. CASE SignalReady
  BY <1>8 DEF SignalReady
<1>9. CASE SignalFails
  BY <1>9 DEF SignalFails, SetState
<1>10. CASE Teardown
  <2>1. MappingOK'
    BY <1>10, DetachType DEF Teardown
  <2>3. WriterOK'
    BY <1>10, DetachType DEF Teardown
  <2>4. event' \in BOOLEAN /\ ReaderOK' /\ HistoryOK'
    BY <1>10 DEF Teardown
  <2>5. QED BY <2>1, <2>3, <2>4
<1>11. QED BY ONLY <1>1, <1>2, <1>3, <1>4, <1>5, <1>6, <1>7, <1>8, <1>9, <1>10,
              WriterStep DEF WriterStep

\* Steps of the host's constructor.
LEMMA HostInitType == TypeOK /\ HostInit => TypeOK'
<1> SUFFICES ASSUME TypeOK, HostInit PROVE TypeOK'
  OBVIOUS
<1> USE SlotFacts, UpdateType DEF TypeOK, MappingOK, WriterOK, ReaderOK, HistoryOK,
    WriterHolds, ReaderHolds,
           mapping, writer, reader, history, bounds, SlotState, WriterSteps, ReaderSteps
<1>1. CASE ZeroRingHeader
  BY <1>1 DEF ZeroRingHeader
<1>2. CASE ZeroSlotHeader
  BY <1>2 DEF ZeroSlotHeader, SetState, ZeroHeader
<1>3. CASE ZeroSlotPayload
  BY <1>3 DEF ZeroSlotPayload
<1>4. CASE FreeSlots
  BY <1>4 DEF FreeSlots, SetState
<1>5. CASE SetRingReady
  BY <1>5 DEF SetRingReady
<1>6. QED BY ONLY <1>1, <1>2, <1>3, <1>4, <1>5, HostInit DEF HostInit

\* Steps of the reader thread.
LEMMA ReaderType == TypeOK /\ ReaderStep => TypeOK'
<1> SUFFICES ASSUME TypeOK, ReaderStep PROVE TypeOK'
  OBVIOUS
<1> USE SlotFacts, UpdateType DEF TypeOK, MappingOK, WriterOK, ReaderOK, HistoryOK,
    WriterHolds, ReaderHolds,
           mapping, writer, reader, history, bounds, SlotState, WriterSteps, ReaderSteps
<1>1. CASE ReplayCachedFrame
  BY <1>1 DEF ReplayCachedFrame
<1>2. CASE BeginRead
  BY <1>2 DEF BeginRead
<1>3. CASE ScanState
  BY <1>3 DEF ScanState, NextIndex
<1>4. CASE ScanSequence
  BY <1>4 DEF ScanSequence, NextIndex
<1>5. CASE NothingReady
  BY <1>5 DEF NothingReady
<1>6. CASE ClaimNewest
  BY <1>6 DEF ClaimNewest, CanRead, SetState, NextAttempt
<1>7. CASE CheckNewerState
  BY <1>7 DEF CheckNewerState, NextIndex
<1>8. CASE CheckNewerSequence
  BY <1>8 DEF CheckNewerSequence, SetState, NextAttempt, NextIndex
<1>9. CASE CheckOlderState
  BY <1>9 DEF CheckOlderState, NextIndex
<1>10. CASE CheckOlderSequence
  BY <1>10 DEF CheckOlderSequence, Older, NextIndex
<1>11. CASE DropOlder
  BY <1>11 DEF DropOlder, SetState, NextIndex
<1>12. CASE ValidateSlot
  BY <1>12 DEF ValidateSlot, SetState
<1>13. CASE CopyPayload
  BY <1>13 DEF CopyPayload
<1>14. CASE CopyDescription
  BY <1>14 DEF CopyDescription
<1>15. CASE ReleaseSlot
  BY <1>15 DEF ReleaseSlot, SetState
<1>16. CASE WakeOnEvent
  BY <1>16 DEF WakeOnEvent
<1>17. CASE WakeOnTimeout
  BY <1>17 DEF WakeOnTimeout
<1>18. CASE HostInit
  BY ONLY <1>18, TypeOK, HostInitType
<1>19. QED
  BY ONLY <1>1, <1>2, <1>3, <1>4, <1>5, <1>6, <1>7, <1>8, <1>9, <1>10, <1>11,
          <1>12, <1>13, <1>14, <1>15, <1>16, <1>17, <1>18,
          ReaderStep DEF ReaderStep

\* Captures, processors, crashes, hosts and clients that come and go.
LEMMA EnvironmentType == TypeOK /\ Environment => TypeOK'
<1> SUFFICES ASSUME TypeOK, Environment PROVE TypeOK'
  OBVIOUS
<1> USE SlotFacts, UpdateType DEF TypeOK, MappingOK, WriterOK, ReaderOK, HistoryOK,
    WriterHolds, ReaderHolds,
           mapping, writer, reader, history, bounds, SlotState, WriterSteps, ReaderSteps
<1>1. CASE Capture
  <2>1. MappingOK'
    BY <1>1, DetachType DEF Capture
  <2>2. attached' \in BOOLEAN
    BY <1>1, DetachType DEF Capture
  <2>3. WriterOK'
    BY <1>1, <2>2 DEF Capture
  <2>4. event' \in BOOLEAN /\ ReaderOK' /\ HistoryOK'
    BY <1>1 DEF Capture
  <2>5. QED BY <2>1, <2>3, <2>4
<1>2. CASE Reassign
  <2>1. MappingOK'
    BY <1>2, DetachType DEF Reassign
  <2>3. WriterOK'
    BY <1>2, DetachType DEF Reassign
  <2>4. event' \in BOOLEAN /\ ReaderOK' /\ HistoryOK'
    BY <1>2 DEF Reassign
  <2>5. QED BY <2>1, <2>3, <2>4
<1>3. CASE DriverCrash
  <2>1. MappingOK'
    BY <1>3, DetachType DEF DriverCrash
  <2>3. WriterOK'
    BY <1>3, DetachType DEF DriverCrash
  <2>4. event' \in BOOLEAN /\ ReaderOK' /\ HistoryOK'
    BY <1>3 DEF DriverCrash
  <2>5. QED BY <2>1, <2>3, <2>4
<1>4. CASE HostStart
  BY <1>4 DEF HostStart, NoFrame
<1>5. CASE HostExit
  <2>1. MappingOK'
    BY <1>5, DestroyType DEF HostExit
  <2>3. WriterOK'
    BY <1>5 DEF HostExit
  <2>4. event' \in BOOLEAN /\ ReaderOK' /\ HistoryOK'
    BY <1>5 DEF HostExit
  <2>5. QED BY <2>1, <2>3, <2>4
<1>6. CASE BeginClient
  BY <1>6 DEF BeginClient
<1>7. CASE ClientGone
  BY <1>7 DEF ClientGone
<1>8. QED BY ONLY <1>1, <1>2, <1>3, <1>4, <1>5, <1>6, <1>7, Environment DEF Environment

\* The declared shape of the state is invariant, for every slot count: the
\* attempt loops of ClaimFrameSlot and TryReadLatest keep to their limits, and a
\* thread between its claim and its release has a real slot.
THEOREM TypeCorrect == Safety => []TypeOK
<1>1. TypeOK /\ [Next]_vars => TypeOK'
  <2> SUFFICES ASSUME TypeOK, [Next]_vars PROVE TypeOK'
    OBVIOUS
  <2>1. CASE UNCHANGED vars
    BY <2>1 DEF vars, TypeOK, MappingOK, WriterOK, ReaderOK, HistoryOK, WriterHolds,
       ReaderHolds,
        mapping, writer, reader, history, bounds, SlotState, WriterSteps, ReaderSteps
  <2>2. CASE Next
    BY <2>2, WriterType, ReaderType, EnvironmentType DEF Next
  <2>3. QED BY <2>1, <2>2
<1>2. QED BY <1>1, InitType, PTL DEF Safety

----------------------------------------------------------------------------
(* Exclusion.                                                              *)

\* The tag of a held slot: the reader's slot stays in Reading; the driver's is
\* in Writing, or in Free once a restarting host has wiped it.
HeldTags ==
  /\ WriterHolds => state[ws] \in {"Writing", "Free"}
  /\ ReaderHolds => state[rs] = "Reading"

\* The driver's steps: it takes a slot only from Free or Ready.
LEMMA WriterTags ==
  ASSUME TypeOK, HeldTags, "event" \notin Faults, WriterStep
  PROVE  HeldTags'
<1> USE DEF HeldTags, WriterHolds, ReaderHolds, TypeOK, MappingOK, WriterOK, ReaderOK,
           mapping, writer, reader
<1>1. CASE ClaimFree
  BY <1>1 DEF ClaimFree, SetState
<1>2. CASE ScanOldest
  BY <1>2 DEF ScanOldest
<1>3. CASE TakeOldest
  BY <1>3 DEF TakeOldest, SetState, CanTake
<1>4. CASE AbandonSlot
  BY <1>4 DEF AbandonSlot, SetState
<1>5. CASE WriteHeader
  BY <1>5 DEF WriteHeader
<1>6. CASE WritePayload
  BY <1>6 DEF WritePayload
<1>7. CASE MarkReady
  BY <1>7 DEF MarkReady, SetState
<1>8. CASE SignalReady
  BY <1>8 DEF SignalReady
<1>9. CASE SignalFails
  BY <1>9 DEF SignalFails
<1>10. CASE Teardown
  BY <1>10 DEF Teardown, Detach, DestroyMapping
<1>11. QED
  BY ONLY <1>1, <1>2, <1>3, <1>4, <1>5, <1>6, <1>7, <1>8, <1>9, <1>10,
          WriterStep DEF WriterStep

\* The constructor runs when there is no reader.
LEMMA HostInitTags ==
  ASSUME TypeOK, HeldTags, HostInit
  PROVE  HeldTags'
<1> USE DEF HeldTags, WriterHolds, ReaderHolds, TypeOK, MappingOK, WriterOK, ReaderOK,
           mapping, writer, reader
<1>1. CASE ZeroRingHeader
  BY <1>1 DEF ZeroRingHeader
<1>2. CASE ZeroSlotHeader
  BY <1>2 DEF ZeroSlotHeader, SetState
<1>3. CASE ZeroSlotPayload
  BY <1>3 DEF ZeroSlotPayload
<1>4. CASE FreeSlots
  BY <1>4 DEF FreeSlots, SetState
<1>5. CASE SetRingReady
  BY <1>5 DEF SetRingReady
<1>6. QED
  BY ONLY <1>1, <1>2, <1>3, <1>4, <1>5, HostInit DEF HostInit

\* The reader's steps: it takes a slot only from Ready.
LEMMA ReaderTags ==
  ASSUME TypeOK, HeldTags, ReaderStep
  PROVE  HeldTags'
<1> USE DEF HeldTags, WriterHolds, ReaderHolds, TypeOK, MappingOK, WriterOK, ReaderOK,
           mapping, writer, reader
<1>1. CASE ReplayCachedFrame
  BY <1>1 DEF ReplayCachedFrame
<1>2. CASE BeginRead
  BY <1>2 DEF BeginRead
<1>3. CASE ScanState
  BY <1>3 DEF ScanState, NextIndex
<1>4. CASE ScanSequence
  BY <1>4 DEF ScanSequence, NextIndex
<1>5. CASE NothingReady
  BY <1>5 DEF NothingReady
<1>6. CASE ClaimNewest
  BY <1>6 DEF ClaimNewest, CanRead, SetState, NextAttempt
<1>7. CASE CheckNewerState
  BY <1>7 DEF CheckNewerState, NextIndex
<1>8. CASE CheckNewerSequence
  BY <1>8 DEF CheckNewerSequence, SetState, NextAttempt, NextIndex
<1>9. CASE CheckOlderState
  BY <1>9 DEF CheckOlderState, NextIndex
<1>10. CASE CheckOlderSequence
  BY <1>10 DEF CheckOlderSequence, Older, NextIndex
<1>11. CASE DropOlder
  BY <1>11 DEF DropOlder, SetState, NextIndex
<1>12. CASE ValidateSlot
  BY <1>12 DEF ValidateSlot, SetState
<1>13. CASE CopyPayload
  BY <1>13 DEF CopyPayload
<1>14. CASE CopyDescription
  BY <1>14 DEF CopyDescription
<1>15. CASE ReleaseSlot
  BY <1>15 DEF ReleaseSlot, SetState
<1>16. CASE WakeOnEvent
  BY <1>16 DEF WakeOnEvent
<1>17. CASE WakeOnTimeout
  BY <1>17 DEF WakeOnTimeout
<1>18. CASE HostInit
  BY <1>18, HostInitTags
<1>19. QED
  BY ONLY <1>1, <1>2, <1>3, <1>4, <1>5, <1>6, <1>7, <1>8, <1>9, <1>10, <1>11,
          <1>12, <1>13, <1>14, <1>15, <1>16, <1>17, <1>18,
          ReaderStep DEF ReaderStep

\* A processor changes only at rest, a mapping dies only without a reader.
LEMMA EnvironmentTags ==
  ASSUME TypeOK, HeldTags, Environment
  PROVE  HeldTags'
<1> USE DEF HeldTags, WriterHolds, ReaderHolds, TypeOK, MappingOK, WriterOK, ReaderOK,
           mapping, writer, reader
<1>1. CASE Capture
  BY <1>1 DEF Capture, Detach, DestroyMapping
<1>2. CASE Reassign
  BY <1>2 DEF Reassign, Detach, DestroyMapping, Joined
<1>3. CASE DriverCrash
  BY <1>3 DEF DriverCrash, Detach, DestroyMapping
<1>4. CASE HostStart
  BY <1>4 DEF HostStart
<1>5. CASE HostExit
  BY <1>5 DEF HostExit, DestroyMapping
<1>6. CASE BeginClient
  BY <1>6 DEF BeginClient
<1>7. CASE ClientGone
  BY <1>7 DEF ClientGone
<1>8. QED
  BY ONLY <1>1, <1>2, <1>3, <1>4, <1>5, <1>6, <1>7, Environment DEF Environment

\* While SetEvent does not fail, no slot is ever written by the driver and read by
\* the reader at once: for every slot count, across host restarts, driver crashes
\* and processor changes.
THEOREM Exclusion ==
  ASSUME "event" \notin Faults
  PROVE  Safety => []SlotExclusion
<1>1. Init => HeldTags
  BY DEF Init, HeldTags, WriterHolds, ReaderHolds
<1>2. TypeOK /\ HeldTags /\ [Next]_vars => HeldTags'
  <2> SUFFICES ASSUME TypeOK, HeldTags, [Next]_vars PROVE HeldTags'
    OBVIOUS
  <2>1. CASE UNCHANGED vars
    BY <2>1 DEF vars, mapping, writer, reader, HeldTags, WriterHolds, ReaderHolds
  <2>2. CASE Next
    BY <2>2, WriterTags, ReaderTags, EnvironmentTags DEF Next
  <2>3. QED BY <2>1, <2>2
<1>3. HeldTags => SlotExclusion
  BY DEF HeldTags, SlotExclusion
<1>4. QED BY <1>1, <1>2, <1>3, TypeCorrect, PTL DEF Safety

----------------------------------------------------------------------------
(* Lost slots.                                                             *)

\* The slots in Writing that nobody publishes to.
Orphans == {s \in Slot : state[s] = "Writing" /\ ~(WriterHolds /\ ws = s)}

\* The slots are finitely many, and so are those that are lost.
LEMMA OrphansFinite ==
  /\ IsFiniteSet(Orphans) /\ Cardinality(Orphans) \in Nat
  /\ IsFiniteSet(Orphans') /\ Cardinality(Orphans') \in Nat
<1>1. IsFiniteSet(Slot)
  BY FS_Interval, RingAssumption DEF Slot
<1>2. Orphans \subseteq Slot /\ Orphans' \subseteq Slot
  BY DEF Orphans
<1>3. QED BY <1>1, <1>2, FS_Subset, FS_CardinalityType

\* Every path through the publication of a frame gives the slot back.
LEMMA WriterOrphans ==
  ASSUME TypeOK, WriterStep
  PROVE  Orphans' \subseteq Orphans /\ crashes' = crashes
<1> USE DEF Orphans, WriterHolds, ReaderHolds, TypeOK, MappingOK, WriterOK, ReaderOK,
           mapping, writer, reader, history, bounds
<1>1. CASE ClaimFree
  BY <1>1 DEF ClaimFree, SetState
<1>2. CASE ScanOldest
  BY <1>2 DEF ScanOldest
<1>3. CASE TakeOldest
  BY <1>3 DEF TakeOldest, SetState, CanTake
<1>4. CASE AbandonSlot
  BY <1>4 DEF AbandonSlot, SetState
<1>5. CASE WriteHeader
  BY <1>5 DEF WriteHeader, NextSequence
<1>6. CASE WritePayload
  BY <1>6 DEF WritePayload
<1>7. CASE MarkReady
  BY <1>7 DEF MarkReady, SetState
<1>8. CASE SignalReady
  BY <1>8 DEF SignalReady
<1>9. CASE SignalFails
  BY <1>9 DEF SignalFails, SetState
<1>10. CASE Teardown
  BY <1>10 DEF Teardown, Detach, DestroyMapping
<1>11. QED
  BY ONLY <1>1, <1>2, <1>3, <1>4, <1>5, <1>6, <1>7, <1>8, <1>9, <1>10, WriterStep DEF WriterStep

\* The constructor frees the slots.
LEMMA HostInitOrphans ==
  ASSUME TypeOK, HostInit
  PROVE  Orphans' \subseteq Orphans /\ crashes' = crashes
<1> USE DEF Orphans, WriterHolds, ReaderHolds, TypeOK, MappingOK, WriterOK, ReaderOK,
           mapping, writer, reader, history, bounds
<1>1. CASE ZeroRingHeader
  BY <1>1 DEF ZeroRingHeader
<1>2. CASE ZeroSlotHeader
  BY <1>2 DEF ZeroSlotHeader, SetState, ZeroHeader
<1>3. CASE ZeroSlotPayload
  BY <1>3 DEF ZeroSlotPayload
<1>4. CASE FreeSlots
  BY <1>4 DEF FreeSlots, SetState
<1>5. CASE SetRingReady
  BY <1>5 DEF SetRingReady
<1>6. QED
  BY ONLY <1>1, <1>2, <1>3, <1>4, <1>5, HostInit DEF HostInit

\* The reader writes no slot.
LEMMA ReaderOrphans ==
  ASSUME TypeOK, ReaderStep
  PROVE  Orphans' \subseteq Orphans /\ crashes' = crashes
<1> USE DEF Orphans, WriterHolds, ReaderHolds, TypeOK, MappingOK, WriterOK, ReaderOK,
           mapping, writer, reader, history, bounds
<1>1. CASE ReplayCachedFrame
  BY <1>1 DEF ReplayCachedFrame
<1>2. CASE BeginRead
  BY <1>2 DEF BeginRead
<1>3. CASE ScanState
  BY <1>3 DEF ScanState, NextIndex
<1>4. CASE ScanSequence
  BY <1>4 DEF ScanSequence, NextIndex
<1>5. CASE NothingReady
  BY <1>5 DEF NothingReady
<1>6. CASE ClaimNewest
  BY <1>6 DEF ClaimNewest, CanRead, SetState, NextAttempt
<1>7. CASE CheckNewerState
  BY <1>7 DEF CheckNewerState, NextIndex
<1>8. CASE CheckNewerSequence
  BY <1>8 DEF CheckNewerSequence, SetState, NextAttempt, NextIndex
<1>9. CASE CheckOlderState
  BY <1>9 DEF CheckOlderState, NextIndex
<1>10. CASE CheckOlderSequence
  BY <1>10 DEF CheckOlderSequence, Older, NextIndex
<1>11. CASE DropOlder
  BY <1>11 DEF DropOlder, SetState, NextIndex
<1>12. CASE ValidateSlot
  BY <1>12 DEF ValidateSlot, SetState
<1>13. CASE CopyPayload
  BY <1>13 DEF CopyPayload
<1>14. CASE CopyDescription
  BY <1>14 DEF CopyDescription
<1>15. CASE ReleaseSlot
  BY <1>15 DEF ReleaseSlot, SetState
<1>16. CASE WakeOnEvent
  BY <1>16 DEF WakeOnEvent
<1>17. CASE WakeOnTimeout
  BY <1>17 DEF WakeOnTimeout
<1>18. CASE HostInit
  BY <1>18, HostInitOrphans
<1>19. QED
  BY ONLY <1>1, <1>2, <1>3, <1>4, <1>5, <1>6, <1>7, <1>8, <1>9, <1>10, <1>11, <1>12, <1>13,
     <1>14, <1>15, <1>16, <1>17, <1>18, ReaderStep DEF ReaderStep

\* Only a crash of the driver costs a slot, the one it was publishing to.
LEMMA EnvironmentOrphans ==
  ASSUME TypeOK, Environment
  PROVE  \/ Orphans' \subseteq Orphans /\ crashes' = crashes
         \/ Orphans' \subseteq Orphans \cup {ws} /\ crashes' = crashes + 1
<1> USE DEF Orphans, WriterHolds, ReaderHolds, TypeOK, MappingOK, WriterOK, ReaderOK,
           mapping, writer, reader, history, bounds
<1>1. CASE Capture
  BY <1>1 DEF Capture, Detach, DestroyMapping
<1>2. CASE Reassign
  BY <1>2 DEF Reassign, Detach, DestroyMapping, Joined
<1>3. CASE DriverCrash
  BY <1>3 DEF DriverCrash, Detach, DestroyMapping
<1>4. CASE HostStart
  BY <1>4 DEF HostStart, NoFrame
<1>5. CASE HostExit
  BY <1>5 DEF HostExit, DestroyMapping
<1>6. CASE BeginClient
  BY <1>6 DEF BeginClient
<1>7. CASE ClientGone
  BY <1>7 DEF ClientGone
<1>8. QED
  BY ONLY <1>1, <1>2, <1>3, <1>4, <1>5, <1>6, <1>7, Environment DEF Environment

\* Only a crash of the driver process may cost the ring a slot, and one at most, for every
\* slot count and any number of crashes, host restarts and processors, whatever fails.
THEOREM FewOrphans == Safety => []OrphansBounded
<1>1. Init => OrphansBounded
  <2> SUFFICES ASSUME Init PROVE OrphansBounded
    OBVIOUS
  <2>1. Orphans = {} /\ crashes = 0
    BY DEF Init, Orphans
  <2>2. Cardinality(Orphans) = 0
    BY <2>1, FS_EmptySet
  <2>3. QED BY <2>1, <2>2 DEF OrphansBounded, Orphans
<1>2. TypeOK /\ OrphansBounded /\ [Next]_vars => OrphansBounded'
  <2> SUFFICES ASSUME TypeOK, OrphansBounded, [Next]_vars PROVE OrphansBounded'
    OBVIOUS
  <2>1. Cardinality(Orphans) <= crashes /\ crashes \in Nat
    BY DEF OrphansBounded, Orphans, TypeOK, HistoryOK
  <2>2. SUFFICES Cardinality(Orphans') <= crashes'
    BY DEF OrphansBounded, Orphans
  <2>3. \/ Orphans' \subseteq Orphans /\ crashes' = crashes
        \/ Orphans' \subseteq Orphans \cup {ws} /\ crashes' = crashes + 1
    <3>1. CASE UNCHANGED vars
      BY <3>1 DEF vars, mapping, writer, history, bounds, Orphans, WriterHolds
    <3>2. CASE Next
      BY <3>2, WriterOrphans, ReaderOrphans, EnvironmentOrphans DEF Next
    <3>3. QED BY <3>1, <3>2
  <2>4. CASE Orphans' \subseteq Orphans /\ crashes' = crashes
    <3>1. Cardinality(Orphans') <= Cardinality(Orphans)
      BY <2>4, OrphansFinite, FS_Subset
    <3>2. QED BY <2>1, <2>4, <3>1, OrphansFinite
  <2>5. CASE Orphans' \subseteq Orphans \cup {ws} /\ crashes' = crashes + 1
    <3>1. /\ IsFiniteSet(Orphans \cup {ws})
          /\ \/ Cardinality(Orphans \cup {ws}) = Cardinality(Orphans) + 1
             \/ Cardinality(Orphans \cup {ws}) = Cardinality(Orphans)
      BY OrphansFinite, FS_AddElement, Zenon
    <3>2. Cardinality(Orphans') <= Cardinality(Orphans \cup {ws})
      BY <2>5, <3>1, FS_Subset
    <3>3. QED BY <2>1, <2>5, <3>1, <3>2, OrphansFinite
  <2>6. QED BY <2>3, <2>4, <2>5
<1>3. QED BY <1>1, <1>2, TypeCorrect, PTL DEF Safety

----------------------------------------------------------------------------
(* Whole frames.                                                           *)

\* Before the host has set the ring up the driver cannot have claimed a slot.
SettingUp == rpc \in {"down", "zeroRing", "zeroHeader", "zeroPayload", "freeSlots", "setReady"}
AtRest    == wpc \in {"idle", "failed", "dead"}
OneHost ==
  /\ hosts <= 1 /\ (rpc = "down" <=> hosts = 0)
  /\ SettingUp => AtRest /\ ~valid /\ ~attached /\ \A s \in Slot : state[s] = "Free"

\* A slot that is ready or read is whole, one that is written is so in the end; the frame the
\* reader has copied is that of its slot.
Whole ==
  /\ \A s \in Slot : state[s] \in {"Ready", "Reading"} => hdr[s].cap = pix[s]
  /\ wpc = "payload" => hdr[ws].cap = captured
  /\ wpc = "ready" => hdr[ws].cap = captured /\ pix[ws] = captured
  /\ WriterHolds => state[ws] = "Writing"
  /\ rpc \in {"describe", "release"} => cache.pix = pix[rs]
  /\ rpc = "release" => cache.cap = hdr[rs].cap
  /\ rpc \notin {"describe", "release"} => cache.cap = cache.pix
  /\ shown.cap = shown.pix

\* A driver that has no valid ring to publish to stays at rest.
LEMMA WriterHost ==
  ASSUME TypeOK, OneHost, MaxHosts \in 0 .. 1, WriterStep
  PROVE  OneHost'
<1> USE DEF OneHost, SettingUp, AtRest, HeldTags, WriterHolds, ReaderHolds, TypeOK, MappingOK,
    WriterOK, ReaderOK,
           HistoryOK, mapping, writer, reader, history, bounds
<1>1. CASE ClaimFree
  BY <1>1 DEF ClaimFree, SetState
<1>2. CASE ScanOldest
  BY <1>2 DEF ScanOldest
<1>3. CASE TakeOldest
  BY <1>3 DEF TakeOldest, SetState, CanTake
<1>4. CASE AbandonSlot
  BY <1>4 DEF AbandonSlot, SetState
<1>5. CASE WriteHeader
  BY <1>5 DEF WriteHeader, NextSequence
<1>6. CASE WritePayload
  BY <1>6 DEF WritePayload
<1>7. CASE MarkReady
  BY <1>7 DEF MarkReady, SetState
<1>8. CASE SignalReady
  BY <1>8 DEF SignalReady
<1>9. CASE SignalFails
  BY <1>9 DEF SignalFails, SetState
<1>10. CASE Teardown
  BY <1>10 DEF Teardown, Detach, DestroyMapping
<1>11. QED
  BY ONLY <1>1, <1>2, <1>3, <1>4, <1>5, <1>6, <1>7, <1>8, <1>9, <1>10, WriterStep DEF WriterStep

\* The constructor leaves every slot free.
LEMMA HostInitHost ==
  ASSUME TypeOK, OneHost, MaxHosts \in 0 .. 1, HostInit
  PROVE  OneHost'
<1> USE DEF OneHost, SettingUp, AtRest, HeldTags, WriterHolds, ReaderHolds, TypeOK, MappingOK,
    WriterOK, ReaderOK,
           HistoryOK, mapping, writer, reader, history, bounds
<1>1. CASE ZeroRingHeader
  BY <1>1 DEF ZeroRingHeader
<1>2. CASE ZeroSlotHeader
  BY <1>2 DEF ZeroSlotHeader, SetState, ZeroHeader
<1>3. CASE ZeroSlotPayload
  BY <1>3 DEF ZeroSlotPayload
<1>4. CASE FreeSlots
  BY <1>4 DEF FreeSlots, SetState
<1>5. CASE SetRingReady
  BY <1>5 DEF SetRingReady
<1>6. QED
  BY ONLY <1>1, <1>2, <1>3, <1>4, <1>5, HostInit DEF HostInit

\* The reader starts when the ring is set up.
LEMMA ReaderHost ==
  ASSUME TypeOK, OneHost, MaxHosts \in 0 .. 1, ReaderStep
  PROVE  OneHost'
<1> USE DEF OneHost, SettingUp, AtRest, HeldTags, WriterHolds, ReaderHolds, TypeOK, MappingOK,
    WriterOK, ReaderOK,
           HistoryOK, mapping, writer, reader, history, bounds
<1>1. CASE ReplayCachedFrame
  BY <1>1 DEF ReplayCachedFrame
<1>2. CASE BeginRead
  BY <1>2 DEF BeginRead
<1>3. CASE ScanState
  BY <1>3 DEF ScanState, NextIndex
<1>4. CASE ScanSequence
  BY <1>4 DEF ScanSequence, NextIndex
<1>5. CASE NothingReady
  BY <1>5 DEF NothingReady
<1>6. CASE ClaimNewest
  BY <1>6 DEF ClaimNewest, CanRead, SetState, NextAttempt
<1>7. CASE CheckNewerState
  BY <1>7 DEF CheckNewerState, NextIndex
<1>8. CASE CheckNewerSequence
  BY <1>8 DEF CheckNewerSequence, SetState, NextAttempt, NextIndex
<1>9. CASE CheckOlderState
  BY <1>9 DEF CheckOlderState, NextIndex
<1>10. CASE CheckOlderSequence
  BY <1>10 DEF CheckOlderSequence, Older, NextIndex
<1>11. CASE DropOlder
  BY <1>11 DEF DropOlder, SetState, NextIndex
<1>12. CASE ValidateSlot
  BY <1>12 DEF ValidateSlot, SetState
<1>13. CASE CopyPayload
  BY <1>13 DEF CopyPayload
<1>14. CASE CopyDescription
  BY <1>14 DEF CopyDescription
<1>15. CASE ReleaseSlot
  BY <1>15 DEF ReleaseSlot, SetState
<1>16. CASE WakeOnEvent
  BY <1>16 DEF WakeOnEvent
<1>17. CASE WakeOnTimeout
  BY <1>17 DEF WakeOnTimeout
<1>18. CASE HostInit
  BY <1>18, HostInitHost
<1>19. QED
  BY ONLY <1>1, <1>2, <1>3, <1>4, <1>5, <1>6, <1>7, <1>8, <1>9, <1>10, <1>11, <1>12, <1>13,
     <1>14, <1>15, <1>16, <1>17, <1>18, ReaderStep DEF ReaderStep

\* The host is started once.
LEMMA EnvironmentHost ==
  ASSUME TypeOK, OneHost, MaxHosts \in 0 .. 1, Environment
  PROVE  OneHost'
<1> USE DEF OneHost, SettingUp, AtRest, HeldTags, WriterHolds, ReaderHolds, TypeOK, MappingOK,
    WriterOK, ReaderOK,
           HistoryOK, mapping, writer, reader, history, bounds
<1>1. CASE Capture
  BY <1>1 DEF Capture, Detach, DestroyMapping
<1>2. CASE Reassign
  BY <1>2 DEF Reassign, Detach, DestroyMapping, Joined
<1>3. CASE DriverCrash
  BY <1>3 DEF DriverCrash, Detach, DestroyMapping
<1>4. CASE HostStart
  BY <1>4 DEF HostStart, NoFrame
<1>5. CASE HostExit
  BY <1>5 DEF HostExit, DestroyMapping
<1>6. CASE BeginClient
  BY <1>6 DEF BeginClient
<1>7. CASE ClientGone
  BY <1>7 DEF ClientGone
<1>8. QED
  BY ONLY <1>1, <1>2, <1>3, <1>4, <1>5, <1>6, <1>7, Environment DEF Environment

\* The driver marks a slot ready once header and payload are of one capture, and never writes the
\* slot that is read.
LEMMA WriterWhole ==
  ASSUME TypeOK, HeldTags, OneHost, Whole, "event" \notin Faults, MaxHosts \in 0 .. 1,
      WriterStep
  PROVE  Whole'
<1> USE DEF Whole, OneHost, SettingUp, AtRest, HeldTags, WriterHolds, ReaderHolds, TypeOK,
    MappingOK, WriterOK, ReaderOK,
           HistoryOK, mapping, writer, reader, history, bounds
<1>1. CASE ClaimFree
  BY <1>1 DEF ClaimFree, SetState
<1>2. CASE ScanOldest
  BY <1>2 DEF ScanOldest
<1>3. CASE TakeOldest
  BY <1>3 DEF TakeOldest, SetState, CanTake
<1>4. CASE AbandonSlot
  BY <1>4 DEF AbandonSlot, SetState
<1>5. CASE WriteHeader
  BY <1>5 DEF WriteHeader, NextSequence
<1>6. CASE WritePayload
  BY <1>6 DEF WritePayload
<1>7. CASE MarkReady
  BY <1>7 DEF MarkReady, SetState
<1>8. CASE SignalReady
  BY <1>8 DEF SignalReady
<1>9. CASE SignalFails
  BY <1>9 DEF SignalFails, SetState
<1>10. CASE Teardown
  BY <1>10 DEF Teardown, Detach, DestroyMapping
<1>11. QED
  BY ONLY <1>1, <1>2, <1>3, <1>4, <1>5, <1>6, <1>7, <1>8, <1>9, <1>10, WriterStep DEF WriterStep

\* Nothing is written while the ring is set up.
LEMMA HostInitWhole ==
  ASSUME TypeOK, HeldTags, OneHost, Whole, "event" \notin Faults, MaxHosts \in 0 .. 1, HostInit
  PROVE  Whole'
<1> USE DEF Whole, OneHost, SettingUp, AtRest, HeldTags, WriterHolds, ReaderHolds, TypeOK,
    MappingOK, WriterOK, ReaderOK,
           HistoryOK, mapping, writer, reader, history, bounds
<1>1. CASE ZeroRingHeader
  BY <1>1 DEF ZeroRingHeader
<1>2. CASE ZeroSlotHeader
  BY <1>2 DEF ZeroSlotHeader, SetState, ZeroHeader
<1>3. CASE ZeroSlotPayload
  BY <1>3 DEF ZeroSlotPayload
<1>4. CASE FreeSlots
  BY <1>4 DEF FreeSlots, SetState
<1>5. CASE SetRingReady
  BY <1>5 DEF SetRingReady
<1>6. QED
  BY ONLY <1>1, <1>2, <1>3, <1>4, <1>5, HostInit DEF HostInit

\* The reader copies header and payload of a slot it holds.
LEMMA ReaderWhole ==
  ASSUME TypeOK, HeldTags, OneHost, Whole, "event" \notin Faults, MaxHosts \in 0 .. 1,
      ReaderStep
  PROVE  Whole'
<1> USE DEF Whole, OneHost, SettingUp, AtRest, HeldTags, WriterHolds, ReaderHolds, TypeOK,
    MappingOK, WriterOK, ReaderOK,
           HistoryOK, mapping, writer, reader, history, bounds
<1>1. CASE ReplayCachedFrame
  BY <1>1 DEF ReplayCachedFrame
<1>2. CASE BeginRead
  BY <1>2 DEF BeginRead
<1>3. CASE ScanState
  BY <1>3 DEF ScanState, NextIndex
<1>4. CASE ScanSequence
  BY <1>4 DEF ScanSequence, NextIndex
<1>5. CASE NothingReady
  BY <1>5 DEF NothingReady
<1>6. CASE ClaimNewest
  BY <1>6 DEF ClaimNewest, CanRead, SetState, NextAttempt
<1>7. CASE CheckNewerState
  BY <1>7 DEF CheckNewerState, NextIndex
<1>8. CASE CheckNewerSequence
  BY <1>8 DEF CheckNewerSequence, SetState, NextAttempt, NextIndex
<1>9. CASE CheckOlderState
  BY <1>9 DEF CheckOlderState, NextIndex
<1>10. CASE CheckOlderSequence
  BY <1>10 DEF CheckOlderSequence, Older, NextIndex
<1>11. CASE DropOlder
  BY <1>11 DEF DropOlder, SetState, NextIndex
<1>12. CASE ValidateSlot
  BY <1>12 DEF ValidateSlot, SetState
<1>13. CASE CopyPayload
  BY <1>13 DEF CopyPayload
<1>14. CASE CopyDescription
  BY <1>14 DEF CopyDescription
<1>15. CASE ReleaseSlot
  BY <1>15 DEF ReleaseSlot, SetState
<1>16. CASE WakeOnEvent
  BY <1>16 DEF WakeOnEvent
<1>17. CASE WakeOnTimeout
  BY <1>17 DEF WakeOnTimeout
<1>18. CASE HostInit
  BY <1>18, HostInitWhole
<1>19. QED
  BY ONLY <1>1, <1>2, <1>3, <1>4, <1>5, <1>6, <1>7, <1>8, <1>9, <1>10, <1>11, <1>12, <1>13,
     <1>14, <1>15, <1>16, <1>17, <1>18, ReaderStep DEF ReaderStep

\* A mapping is destroyed when no host has it.
LEMMA EnvironmentWhole ==
  ASSUME TypeOK, HeldTags, OneHost, Whole, "event" \notin Faults, MaxHosts \in 0 .. 1,
      Environment
  PROVE  Whole'
<1> USE DEF Whole, OneHost, SettingUp, AtRest, HeldTags, WriterHolds, ReaderHolds, TypeOK,
    MappingOK, WriterOK, ReaderOK,
           HistoryOK, mapping, writer, reader, history, bounds
<1>1. CASE Capture
  BY <1>1 DEF Capture, Detach, DestroyMapping
<1>2. CASE Reassign
  BY <1>2 DEF Reassign, Detach, DestroyMapping, Joined
<1>3. CASE DriverCrash
  BY <1>3 DEF DriverCrash, Detach, DestroyMapping
<1>4. CASE HostStart
  BY <1>4 DEF HostStart, NoFrame
<1>5. CASE HostExit
  BY <1>5 DEF HostExit, DestroyMapping
<1>6. CASE BeginClient
  BY <1>6 DEF BeginClient
<1>7. CASE ClientGone
  BY <1>7 DEF ClientGone
<1>8. QED
  BY ONLY <1>1, <1>2, <1>3, <1>4, <1>5, <1>6, <1>7, Environment DEF Environment

\* A frame handed to the stream is never torn, for every slot count, across driver crashes
\* and processor changes: while SetEvent does not fail and the host is started once (a second
\* start zeroes the payload under a driver that still writes).
THEOREM NeverTorn ==
  ASSUME "event" \notin Faults, MaxHosts \in 0 .. 1
  PROVE  Safety => []NoTornFrame
<1>1. Init => OneHost /\ Whole /\ HeldTags
  BY DEF Init, OneHost, Whole, HeldTags, SettingUp, AtRest, WriterHolds, ReaderHolds, NoFrame,
     ZeroHeader, Slot
<1>2. TypeOK /\ HeldTags /\ OneHost /\ Whole /\ [Next]_vars => (HeldTags /\ OneHost /\ Whole)'
  <2> SUFFICES ASSUME TypeOK, HeldTags, OneHost, Whole, [Next]_vars
      PROVE (HeldTags /\ OneHost /\ Whole)'
    OBVIOUS
  <2>1. CASE UNCHANGED vars
    BY <2>1 DEF vars, mapping, writer, reader, history, bounds, HeldTags, OneHost, Whole,
       WriterHolds, ReaderHolds,
        SettingUp, AtRest
  <2>2. CASE Next
    BY <2>2, WriterTags, ReaderTags, EnvironmentTags, WriterHost, ReaderHost, EnvironmentHost,
       WriterWhole, ReaderWhole, EnvironmentWhole DEF Next
  <2>3. QED BY <2>1, <2>2
<1>3. Whole => NoTornFrame
  BY DEF Whole, NoTornFrame
<1>4. QED BY <1>1, <1>2, <1>3, TypeCorrect, PTL DEF Safety

----------------------------------------------------------------------------
(* Claims.                                                                 *)

\* At most one slot is being read; one that a former host was reading is freed before
\* another is read.
OneReading ==
  /\ \A s, t \in Slot : state[s] = "Reading" /\ state[t] = "Reading" => s = t
  /\ \A s \in Slot : state[s] = "Reading" =>
       \/ ReaderHolds /\ s = rs
       \/ rpc \in {"down", "zeroRing"}
       \/ rpc = "zeroHeader" /\ s >= ri
       \/ rpc = "zeroPayload" /\ s > ri
  /\ rpc = "zeroRing" => ri = 0

\* A slot that is free while the driver looks for one stays free.  Its first attempt fails
\* only if the reader has claimed or freed a slot meanwhile, its second only if it has freed
\* one, so that the third finds a free slot.
Claiming   == wpc \in {"claim", "scan", "take"}
AnyFree    == \E s \in Slot : state[s] = "Free"
AnyReading == \E s \in Slot : state[s] = "Reading"
Calm       == ~AnyFree /\ (wtry = 0 => ~AnyReading)
Attempts ==
  /\ wpc = "take" => wi = 0
  /\ wpc = "claim" => oldest = NoSlot
  /\ Claiming /\ wtry >= 1 => AnyFree \/ AnyReading
  /\ Claiming /\ wtry >= 2 => wpc = "claim" /\ \E s \in Slot : s >= wi /\ state[s] = "Free"
  /\ wpc \in {"scan", "take"} /\ Calm =>
       /\ oldest # NoSlot => state[oldest] = "Ready"
       /\ oldest = NoSlot => \A s \in Slot : state[s] = "Ready" => wpc = "scan" /\ s >= wi
  /\ wpc # "noSlot"
  /\ crashes <= MaxCrashes

\* The order of the slots.
LEMMA SlotOrder ==
  ASSUME NEW i \in Slot, NEW s \in Slot
  PROVE  /\ s >= 0
         /\ s >= i /\ s # i => s > i /\ s >= i + 1 /\ i + 1 < SlotCount
         /\ s > i => s >= i + 1 /\ i + 1 < SlotCount
         /\ s >= i + 1 => s > i
BY RingAssumption DEF Slot

\* The driver reads no slot.
LEMMA WriterReading ==
  ASSUME TypeOK, OneReading, WriterStep
  PROVE  OneReading'
<1> USE SlotFacts DEF OneReading, TypeOK, MappingOK, WriterOK, ReaderOK, HistoryOK,
           WriterHolds, ReaderHolds, mapping, writer, reader, history, bounds
<1>1. CASE ClaimFree
  BY <1>1 DEF ClaimFree, SetState
<1>2. CASE ScanOldest
  BY <1>2 DEF ScanOldest
<1>3. CASE TakeOldest
  BY <1>3 DEF TakeOldest, SetState, CanTake
<1>4. CASE AbandonSlot
  BY <1>4 DEF AbandonSlot, SetState
<1>5. CASE WriteHeader
  BY <1>5 DEF WriteHeader, NextSequence
<1>6. CASE WritePayload
  BY <1>6 DEF WritePayload
<1>7. CASE MarkReady
  BY <1>7 DEF MarkReady, SetState
<1>8. CASE SignalReady
  BY <1>8 DEF SignalReady
<1>9. CASE SignalFails
  BY <1>9 DEF SignalFails, SetState
<1>10. CASE Teardown
  BY <1>10 DEF Teardown, Detach, DestroyMapping
<1>11. QED
  BY ONLY <1>1, <1>2, <1>3, <1>4, <1>5, <1>6, <1>7, <1>8, <1>9, <1>10, WriterStep DEF WriterStep

\* The constructor frees what a former host was reading.
LEMMA HostInitReading ==
  ASSUME TypeOK, OneReading, HostInit
  PROVE  OneReading'
<1> USE SlotFacts DEF OneReading, TypeOK, MappingOK, WriterOK, ReaderOK, HistoryOK,
           WriterHolds, ReaderHolds, mapping, writer, reader, history, bounds
<1>1. CASE ZeroRingHeader
  BY <1>1 DEF ZeroRingHeader
<1>2. CASE ZeroSlotHeader
  <2>1. \A s \in Slot : s >= ri /\ s # ri => s > ri
    BY SlotOrder
  <2>2. \A s \in Slot : state'[s] = "Reading" => state[s] = "Reading" /\ s # ri
    BY <1>2 DEF ZeroSlotHeader, SetState
  <2>3. QED BY <1>2, <2>1, <2>2 DEF ZeroSlotHeader
<1>3. CASE ZeroSlotPayload
  <2>1. \A s \in Slot : s > ri => s >= ri + 1 /\ ri + 1 < SlotCount
    BY SlotOrder
  <2>2. QED BY <1>3, <2>1 DEF ZeroSlotPayload
<1>4. CASE FreeSlots
  BY <1>4 DEF FreeSlots, SetState
<1>5. CASE SetRingReady
  BY <1>5 DEF SetRingReady
<1>6. QED
  BY ONLY <1>1, <1>2, <1>3, <1>4, <1>5, HostInit DEF HostInit

\* The reader gives its slot back before it claims another.
LEMMA ReaderReading ==
  ASSUME TypeOK, OneReading, ReaderStep
  PROVE  OneReading'
<1> USE SlotFacts DEF OneReading, TypeOK, MappingOK, WriterOK, ReaderOK, HistoryOK,
           WriterHolds, ReaderHolds, mapping, writer, reader, history, bounds
<1>1. CASE ReplayCachedFrame
  BY <1>1 DEF ReplayCachedFrame
<1>2. CASE BeginRead
  BY <1>2 DEF BeginRead
<1>3. CASE ScanState
  BY <1>3 DEF ScanState, NextIndex
<1>4. CASE ScanSequence
  BY <1>4 DEF ScanSequence, NextIndex
<1>5. CASE NothingReady
  BY <1>5 DEF NothingReady
<1>6. CASE ClaimNewest
  BY <1>6 DEF ClaimNewest, CanRead, SetState, NextAttempt
<1>7. CASE CheckNewerState
  BY <1>7 DEF CheckNewerState, NextIndex
<1>8. CASE CheckNewerSequence
  BY <1>8 DEF CheckNewerSequence, SetState, NextAttempt, NextIndex
<1>9. CASE CheckOlderState
  BY <1>9 DEF CheckOlderState, NextIndex
<1>10. CASE CheckOlderSequence
  BY <1>10 DEF CheckOlderSequence, Older, NextIndex
<1>11. CASE DropOlder
  BY <1>11 DEF DropOlder, SetState, NextIndex
<1>12. CASE ValidateSlot
  BY <1>12 DEF ValidateSlot, SetState
<1>13. CASE CopyPayload
  BY <1>13 DEF CopyPayload
<1>14. CASE CopyDescription
  BY <1>14 DEF CopyDescription
<1>15. CASE ReleaseSlot
  BY <1>15 DEF ReleaseSlot, SetState
<1>16. CASE WakeOnEvent
  BY <1>16 DEF WakeOnEvent
<1>17. CASE WakeOnTimeout
  BY <1>17 DEF WakeOnTimeout
<1>18. CASE HostInit
  BY <1>18, HostInitReading
<1>19. QED
  BY ONLY <1>1, <1>2, <1>3, <1>4, <1>5, <1>6, <1>7, <1>8, <1>9, <1>10, <1>11, <1>12, <1>13,
     <1>14, <1>15, <1>16, <1>17, <1>18, ReaderStep DEF ReaderStep

\* A host that dies leaves the slot it was reading.
LEMMA EnvironmentReading ==
  ASSUME TypeOK, OneReading, Environment
  PROVE  OneReading'
<1> USE SlotFacts DEF OneReading, TypeOK, MappingOK, WriterOK, ReaderOK, HistoryOK,
           WriterHolds, ReaderHolds, mapping, writer, reader, history, bounds
<1>1. CASE Capture
  BY <1>1 DEF Capture, Detach, DestroyMapping
<1>2. CASE Reassign
  BY <1>2 DEF Reassign, Detach, DestroyMapping, Joined
<1>3. CASE DriverCrash
  BY <1>3 DEF DriverCrash, Detach, DestroyMapping
<1>4. CASE HostStart
  BY <1>4 DEF HostStart, NoFrame
<1>5. CASE HostExit
  BY <1>5 DEF HostExit, DestroyMapping
<1>6. CASE BeginClient
  BY <1>6 DEF BeginClient
<1>7. CASE ClientGone
  BY <1>7 DEF ClientGone
<1>8. QED
  BY ONLY <1>1, <1>2, <1>3, <1>4, <1>5, <1>6, <1>7, Environment DEF Environment

\* When no slot is free, and none is being read at the first attempt, the scan has found a
\* ready slot: crashes have cost too few.
LEMMA TakeFinds ==
  ASSUME TypeOK, OneReading, Attempts, OrphansBounded, SlotCount >= MaxCrashes + 2,
         wpc = "take", ~AnyFree, wtry = 0 => ~AnyReading
  PROVE  oldest # NoSlot
<1> SUFFICES ASSUME oldest = NoSlot PROVE FALSE
  OBVIOUS
<1>1. PICK r : \A s \in Slot : state[s] = "Reading" => s = r
  BY DEF OneReading
<1>2. \A s \in Slot : state[s] = "Writing" \/ s = r
  <2>1. \A s \in Slot : state[s] # "Ready" /\ state[s] # "Free"
    BY DEF Attempts, Calm, AnyFree
  <2>2. QED BY <2>1, <1>1 DEF TypeOK, MappingOK, SlotState
<1>3. Slot \subseteq Orphans \cup {r}
  BY <1>2 DEF Orphans, WriterHolds
<1>4. IsFiniteSet(Slot) /\ Cardinality(Slot) = SlotCount
  <2>1. 0 \in Int /\ SlotCount - 1 \in Int /\ ~(0 > SlotCount - 1)
            /\ SlotCount - 1 - 0 + 1 = SlotCount
    BY RingAssumption
  <2>2. QED BY <2>1, FS_Interval DEF Slot
<1>5. /\ IsFiniteSet(Orphans \cup {r})
      /\ \/ Cardinality(Orphans \cup {r}) = Cardinality(Orphans) + 1
         \/ Cardinality(Orphans \cup {r}) = Cardinality(Orphans)
  BY OrphansFinite, FS_AddElement, Zenon
<1>6. Cardinality(Slot) <= Cardinality(Orphans \cup {r})
  BY <1>3, <1>5, FS_Subset
<1>7. Cardinality(Orphans) <= crashes /\ crashes <= MaxCrashes /\ crashes \in Nat
  BY DEF OrphansBounded, Orphans, Attempts, TypeOK, HistoryOK
<1>8. QED BY <1>4, <1>5, <1>6, <1>7, OrphansFinite, RingAssumption

\* The third attempt at the latest takes a slot.
LEMMA WriterAttempts ==
  ASSUME TypeOK, OneReading, Attempts, OrphansBounded, SlotCount >= MaxCrashes + 2, WriterStep
  PROVE  Attempts'
<1> USE SlotFacts, RingAssumption DEF Attempts, OneReading, Claiming, AnyFree, AnyReading,
    Calm, TypeOK, MappingOK, WriterOK, ReaderOK, HistoryOK,
           WriterHolds, ReaderHolds, mapping, writer, reader, history, bounds
<1>1. CASE ClaimFree
  <2>1. CASE state[wi] = "Free"
    BY <1>1, <2>1 DEF ClaimFree, SetState
  <2>2. CASE state[wi] # "Free"
    <3>1. wtry >= 2 => \E s \in Slot : s >= wi + 1 /\ wi + 1 < SlotCount /\ state[s] = "Free"
      BY <1>1, <2>2, SlotOrder DEF ClaimFree
    <3>2. \A s \in Slot : s >= 0
      BY SlotOrder
    <3>3. QED BY <1>1, <2>2, <3>1, <3>2 DEF ClaimFree
  <2>3. QED BY <2>1, <2>2
<1>2. CASE ScanOldest
  <2>1. \A s \in Slot : s >= wi => s = wi \/ (s >= wi + 1 /\ wi + 1 < SlotCount)
    BY SlotOrder
  <2>2. UNCHANGED <<state, wtry, rpc, rs, ri, crashes>> /\ wpc = "scan"
            /\ wpc' \in {"scan", "take"}
    BY <1>2 DEF ScanOldest
  <2>3. wpc' = "take" => wi' = 0
    BY <1>2 DEF ScanOldest
  <2>4. ASSUME Calm PROVE oldest' # NoSlot => state[oldest'] = "Ready"
    BY <1>2, <2>4 DEF ScanOldest
  <2>5. ASSUME Calm, oldest' = NoSlot, NEW s \in Slot, state[s] = "Ready"
        PROVE  wpc' = "scan" /\ s >= wi'
    BY <1>2, <2>1, <2>5 DEF ScanOldest
  <2>6. QED BY <2>2, <2>3, <2>4, <2>5
<1>3. CASE TakeOldest
  <2>1. CASE oldest # NoSlot /\ CanTake(oldest)
    BY <1>3, <2>1 DEF TakeOldest, SetState, CanTake
  <2>2. CASE ~(oldest # NoSlot /\ CanTake(oldest))
    <3>1. AnyFree \/ (wtry = 0 /\ AnyReading)
      BY <1>3, <2>2, TakeFinds DEF TakeOldest, CanTake
    <3>2. wtry \in {0, 1} /\ wtry + 1 < ClaimAttempts
      BY <1>3, RingAssumption DEF TakeOldest, ClaimAttempts
    <3>3. QED BY <1>3, <2>2, <3>1, <3>2 DEF TakeOldest
  <2>3. QED BY <2>1, <2>2
<1>4. CASE AbandonSlot
  BY <1>4 DEF AbandonSlot, SetState
<1>5. CASE WriteHeader
  BY <1>5 DEF WriteHeader, NextSequence
<1>6. CASE WritePayload
  BY <1>6 DEF WritePayload
<1>7. CASE MarkReady
  BY <1>7 DEF MarkReady, SetState
<1>8. CASE SignalReady
  BY <1>8 DEF SignalReady
<1>9. CASE SignalFails
  BY <1>9 DEF SignalFails, SetState
<1>10. CASE Teardown
  BY <1>10 DEF Teardown, Detach, DestroyMapping
<1>11. QED
  BY ONLY <1>1, <1>2, <1>3, <1>4, <1>5, <1>6, <1>7, <1>8, <1>9, <1>10, WriterStep DEF WriterStep

\* The constructor only frees slots.
LEMMA HostInitAttempts ==
  ASSUME TypeOK, OneReading, Attempts, OrphansBounded, SlotCount >= MaxCrashes + 2, HostInit
  PROVE  Attempts'
<1> USE SlotFacts, RingAssumption DEF Attempts, OneReading, Claiming, AnyFree, AnyReading,
    Calm, TypeOK, MappingOK, WriterOK, ReaderOK, HistoryOK,
           WriterHolds, ReaderHolds, mapping, writer, reader, history, bounds
<1>1. CASE ZeroRingHeader
  BY <1>1 DEF ZeroRingHeader
<1>2. CASE ZeroSlotHeader
  BY <1>2 DEF ZeroSlotHeader, SetState, ZeroHeader
<1>3. CASE ZeroSlotPayload
  BY <1>3 DEF ZeroSlotPayload
<1>4. CASE FreeSlots
  BY <1>4 DEF FreeSlots, SetState
<1>5. CASE SetRingReady
  BY <1>5 DEF SetRingReady
<1>6. QED
  BY ONLY <1>1, <1>2, <1>3, <1>4, <1>5, HostInit DEF HostInit

\* The reader claims a ready slot, or frees one.
LEMMA ReaderAttempts ==
  ASSUME TypeOK, OneReading, Attempts, OrphansBounded, SlotCount >= MaxCrashes + 2, ReaderStep
  PROVE  Attempts'
<1> USE SlotFacts, RingAssumption DEF Attempts, OneReading, Claiming, AnyFree, AnyReading,
    Calm, TypeOK, MappingOK, WriterOK, ReaderOK, HistoryOK,
           WriterHolds, ReaderHolds, mapping, writer, reader, history, bounds
<1>1. CASE ReplayCachedFrame
  BY <1>1 DEF ReplayCachedFrame
<1>2. CASE BeginRead
  BY <1>2 DEF BeginRead
<1>3. CASE ScanState
  BY <1>3 DEF ScanState, NextIndex
<1>4. CASE ScanSequence
  BY <1>4 DEF ScanSequence, NextIndex
<1>5. CASE NothingReady
  BY <1>5 DEF NothingReady
<1>6. CASE ClaimNewest
  BY <1>6 DEF ClaimNewest, CanRead, SetState, NextAttempt
<1>7. CASE CheckNewerState
  BY <1>7 DEF CheckNewerState, NextIndex
<1>8. CASE CheckNewerSequence
  BY <1>8 DEF CheckNewerSequence, SetState, NextAttempt, NextIndex
<1>9. CASE CheckOlderState
  BY <1>9 DEF CheckOlderState, NextIndex
<1>10. CASE CheckOlderSequence
  BY <1>10 DEF CheckOlderSequence, Older, NextIndex
<1>11. CASE DropOlder
  BY <1>11 DEF DropOlder, SetState, NextIndex
<1>12. CASE ValidateSlot
  BY <1>12 DEF ValidateSlot, SetState
<1>13. CASE CopyPayload
  BY <1>13 DEF CopyPayload
<1>14. CASE CopyDescription
  BY <1>14 DEF CopyDescription
<1>15. CASE ReleaseSlot
  BY <1>15 DEF ReleaseSlot, SetState
<1>16. CASE WakeOnEvent
  BY <1>16 DEF WakeOnEvent
<1>17. CASE WakeOnTimeout
  BY <1>17 DEF WakeOnTimeout
<1>18. CASE HostInit
  BY <1>18, HostInitAttempts
<1>19. QED
  BY ONLY <1>1, <1>2, <1>3, <1>4, <1>5, <1>6, <1>7, <1>8, <1>9, <1>10, <1>11, <1>12, <1>13,
     <1>14, <1>15, <1>16, <1>17, <1>18, ReaderStep DEF ReaderStep

\* A capture begins with the first attempt.
LEMMA EnvironmentAttempts ==
  ASSUME TypeOK, OneReading, Attempts, OrphansBounded, SlotCount >= MaxCrashes + 2, Environment
  PROVE  Attempts'
<1> USE SlotFacts, RingAssumption DEF Attempts, OneReading, Claiming, AnyFree, AnyReading,
    Calm, TypeOK, MappingOK, WriterOK, ReaderOK, HistoryOK,
           WriterHolds, ReaderHolds, mapping, writer, reader, history, bounds
<1>1. CASE Capture
  BY <1>1 DEF Capture, Detach, DestroyMapping
<1>2. CASE Reassign
  BY <1>2 DEF Reassign, Detach, DestroyMapping, Joined
<1>3. CASE DriverCrash
  BY <1>3 DEF DriverCrash, Detach, DestroyMapping
<1>4. CASE HostStart
  BY <1>4 DEF HostStart, NoFrame
<1>5. CASE HostExit
  BY <1>5 DEF HostExit, DestroyMapping
<1>6. CASE BeginClient
  BY <1>6 DEF BeginClient
<1>7. CASE ClientGone
  BY <1>7 DEF ClientGone
<1>8. QED
  BY ONLY <1>1, <1>2, <1>3, <1>4, <1>5, <1>6, <1>7, Environment DEF Environment

\* ClaimFrameSlot never runs out of attempts, for every slot count that leaves two slots
\* when crashes have cost theirs, across host restarts and processor changes, whatever fails.
THEOREM ClaimSucceeds ==
  ASSUME SlotCount >= MaxCrashes + 2
  PROVE  Safety => []ClaimNeverFails
<1>1. Init => OneReading /\ Attempts
  BY RingAssumption DEF Init, OneReading, Attempts, Claiming
<1>2. TypeOK /\ OrphansBounded /\ OneReading /\ Attempts /\ [Next]_vars
          => (OneReading /\ Attempts)'
  <2> SUFFICES ASSUME TypeOK, OrphansBounded, OneReading, Attempts, [Next]_vars
               PROVE  (OneReading /\ Attempts)'
    OBVIOUS
  <2>1. CASE UNCHANGED vars
    BY <2>1 DEF vars, mapping, writer, reader, history, bounds, OneReading, Attempts, Claiming,
        AnyFree, AnyReading, Calm, ReaderHolds
  <2>2. CASE Next
    BY <2>2, WriterReading, ReaderReading, EnvironmentReading,
       WriterAttempts, ReaderAttempts, EnvironmentAttempts DEF Next
  <2>3. QED BY <2>1, <2>2
<1>3. Attempts => ClaimNeverFails
  BY DEF Attempts, ClaimNeverFails
<1>4. QED BY <1>1, <1>2, <1>3, TypeCorrect, FewOrphans, PTL DEF Safety

----------------------------------------------------------------------------
(* The order of frames.                                                    *)

\* One processor numbers the frames as they are captured.
Numbered ==
  /\ processors = 1
  /\ Claiming \/ wpc = "header" => nextSeq = captured
  /\ wpc \in {"idle", "payload", "ready", "signal"} => nextSeq = captured + 1
  /\ published <= captured /\ (Claiming \/ WriterHolds => published < captured)
  /\ \A s \in Slot : hdr[s].seq = hdr[s].cap /\ hdr[s].cap <= captured
  /\ Claiming \/ wpc = "header" => \A s \in Slot : hdr[s].cap < captured
  /\ \A s, t \in Slot : hdr[s].cap = hdr[t].cap /\ hdr[s].cap # 0 => s = t
  /\ \A s \in Slot : state[s] \in {"Ready", "Reading"} => hdr[s].cap <= published
  /\ WriterHolds => state[ws] \in {"Writing", "Free"}
  /\ WriterHolds /\ wpc # "header" => hdr[ws].cap \in {0, captured}
  /\ ReaderHolds => state[rs] = "Reading" \/ (state[rs] = "Free" /\ wpc \in {"failed", "dead"})

\* Slot s holds nothing the stream has been past when it is at frame n.
Beyond(s, n) == state[s] = "Ready" => hdr[s].cap = 0 \/ hdr[s].cap > n
InOrder ==
  /\ shown.cap <= published
  /\ \A s \in Slot : Beyond(s, shown.cap)
  /\ ReaderHolds => hdr[rs].cap = 0 \/ (hdr[rs].cap > shown.cap /\ hdr[rs].cap <= published)
  /\ rpc \in {"older", "olderSeq", "olderCas"} => \A s \in Slot : s < ri
      => Beyond(s, hdr[rs].cap)
  /\ rpc \in {"validate", "copy", "describe", "release"}
      => \A s \in Slot : Beyond(s, hdr[rs].cap)
  /\ rpc \in {"copy", "describe", "release"} => hdr[rs].cap # 0
  /\ rpc = "release" => cache.cap = hdr[rs].cap
  /\ rpc \notin {"down", "describe", "release"} => cache = NoFrame \/ cache.cap = shown.cap
  /\ rpc \notin {"down", "describe", "release"} /\ replay => cache # NoFrame

\* A sweep over the slots up to index i.
LEMMA SlotSweep ==
  ASSUME NEW i \in Slot, NEW s \in Slot
  PROVE  ~(s < 0) /\ (s < i + 1 => s < i \/ s = i) /\ (i + 1 < SlotCount \/ s < i \/ s = i)
BY RingAssumption DEF Slot

\* A header gets a number above every other.
LEMMA WriterNumbers ==
  ASSUME TypeOK, Numbered, MaxProcessors = 1, WriterStep
  PROVE  Numbered'
<1> USE SlotFacts DEF Numbered, Claiming, ZeroHeader, TypeOK, MappingOK, WriterOK, ReaderOK,
    HistoryOK,
           WriterHolds, ReaderHolds, mapping, writer, reader, history, bounds
<1>1. CASE ClaimFree
  BY <1>1 DEF ClaimFree, SetState
<1>2. CASE ScanOldest
  BY <1>2 DEF ScanOldest
<1>3. CASE TakeOldest
  BY <1>3 DEF TakeOldest, SetState, CanTake
<1>4. CASE AbandonSlot
  BY <1>4 DEF AbandonSlot, SetState
<1>5. CASE WriteHeader
  BY <1>5 DEF WriteHeader, NextSequence
<1>6. CASE WritePayload
  BY <1>6 DEF WritePayload
<1>7. CASE MarkReady
  BY <1>7 DEF MarkReady, SetState
<1>8. CASE SignalReady
  BY <1>8 DEF SignalReady
<1>9. CASE SignalFails
  BY <1>9 DEF SignalFails, SetState
<1>10. CASE Teardown
  BY <1>10 DEF Teardown, Detach, DestroyMapping
<1>11. QED
  BY ONLY <1>1, <1>2, <1>3, <1>4, <1>5, <1>6, <1>7, <1>8, <1>9, <1>10, WriterStep DEF WriterStep

\* The constructor zeroes the numbers.
LEMMA HostInitNumbers ==
  ASSUME TypeOK, Numbered, MaxProcessors = 1, HostInit
  PROVE  Numbered'
<1> USE SlotFacts DEF Numbered, Claiming, ZeroHeader, TypeOK, MappingOK, WriterOK, ReaderOK,
    HistoryOK,
           WriterHolds, ReaderHolds, mapping, writer, reader, history, bounds
<1>1. CASE ZeroRingHeader
  BY <1>1 DEF ZeroRingHeader
<1>2. CASE ZeroSlotHeader
  BY <1>2 DEF ZeroSlotHeader, SetState, ZeroHeader
<1>3. CASE ZeroSlotPayload
  BY <1>3 DEF ZeroSlotPayload
<1>4. CASE FreeSlots
  BY <1>4 DEF FreeSlots, SetState
<1>5. CASE SetRingReady
  BY <1>5 DEF SetRingReady
<1>6. QED
  BY ONLY <1>1, <1>2, <1>3, <1>4, <1>5, HostInit DEF HostInit

\* The reader writes no number.
LEMMA ReaderNumbers ==
  ASSUME TypeOK, Numbered, MaxProcessors = 1, ReaderStep
  PROVE  Numbered'
<1> USE SlotFacts DEF Numbered, Claiming, ZeroHeader, TypeOK, MappingOK, WriterOK, ReaderOK,
    HistoryOK,
           WriterHolds, ReaderHolds, mapping, writer, reader, history, bounds
<1>1. CASE ReplayCachedFrame
  BY <1>1 DEF ReplayCachedFrame
<1>2. CASE BeginRead
  BY <1>2 DEF BeginRead
<1>3. CASE ScanState
  BY <1>3 DEF ScanState, NextIndex
<1>4. CASE ScanSequence
  BY <1>4 DEF ScanSequence, NextIndex
<1>5. CASE NothingReady
  BY <1>5 DEF NothingReady
<1>6. CASE ClaimNewest
  BY <1>6 DEF ClaimNewest, CanRead, SetState, NextAttempt
<1>7. CASE CheckNewerState
  BY <1>7 DEF CheckNewerState, NextIndex
<1>8. CASE CheckNewerSequence
  BY <1>8 DEF CheckNewerSequence, SetState, NextAttempt, NextIndex
<1>9. CASE CheckOlderState
  BY <1>9 DEF CheckOlderState, NextIndex
<1>10. CASE CheckOlderSequence
  BY <1>10 DEF CheckOlderSequence, Older, NextIndex
<1>11. CASE DropOlder
  BY <1>11 DEF DropOlder, SetState, NextIndex
<1>12. CASE ValidateSlot
  BY <1>12 DEF ValidateSlot, SetState
<1>13. CASE CopyPayload
  BY <1>13 DEF CopyPayload
<1>14. CASE CopyDescription
  BY <1>14 DEF CopyDescription
<1>15. CASE ReleaseSlot
  BY <1>15 DEF ReleaseSlot, SetState
<1>16. CASE WakeOnEvent
  BY <1>16 DEF WakeOnEvent
<1>17. CASE WakeOnTimeout
  BY <1>17 DEF WakeOnTimeout
<1>18. CASE HostInit
  BY <1>18, HostInitNumbers
<1>19. QED
  BY ONLY <1>1, <1>2, <1>3, <1>4, <1>5, <1>6, <1>7, <1>8, <1>9, <1>10, <1>11, <1>12, <1>13,
     <1>14, <1>15, <1>16, <1>17, <1>18, ReaderStep DEF ReaderStep

\* A capture gets the next number, and no second processor starts again from 1.
LEMMA EnvironmentNumbers ==
  ASSUME TypeOK, Numbered, MaxProcessors = 1, Environment
  PROVE  Numbered'
<1> USE SlotFacts DEF Numbered, Claiming, ZeroHeader, TypeOK, MappingOK, WriterOK, ReaderOK,
    HistoryOK,
           WriterHolds, ReaderHolds, mapping, writer, reader, history, bounds
<1>1. CASE Capture
  BY <1>1 DEF Capture, Detach, DestroyMapping
<1>2. CASE Reassign
  BY <1>2 DEF Reassign, Detach, DestroyMapping, Joined
<1>3. CASE DriverCrash
  BY <1>3 DEF DriverCrash, Detach, DestroyMapping
<1>4. CASE HostStart
  BY <1>4 DEF HostStart, NoFrame
<1>5. CASE HostExit
  BY <1>5 DEF HostExit, DestroyMapping
<1>6. CASE BeginClient
  BY <1>6 DEF BeginClient
<1>7. CASE ClientGone
  BY <1>7 DEF ClientGone
<1>8. QED
  BY ONLY <1>1, <1>2, <1>3, <1>4, <1>5, <1>6, <1>7, Environment DEF Environment

\* A frame that becomes ready is newer than the one that is read.
LEMMA WriterOrder ==
  ASSUME TypeOK, Numbered, InOrder, MaxProcessors = 1, WriterStep
  PROVE  InOrder'
<1> USE SlotFacts, SlotSweep DEF InOrder, Beyond, Numbered, Claiming, NoFrame, ZeroHeader,
    TypeOK, MappingOK, WriterOK, ReaderOK, HistoryOK,
           WriterHolds, ReaderHolds, mapping, writer, reader, history, bounds
<1>1. CASE ClaimFree
  BY <1>1 DEF ClaimFree, SetState
<1>2. CASE ScanOldest
  BY <1>2 DEF ScanOldest
<1>3. CASE TakeOldest
  BY <1>3 DEF TakeOldest, SetState, CanTake
<1>4. CASE AbandonSlot
  BY <1>4 DEF AbandonSlot, SetState
<1>5. CASE WriteHeader
  BY <1>5 DEF WriteHeader, NextSequence
<1>6. CASE WritePayload
  BY <1>6 DEF WritePayload
<1>7. CASE MarkReady
  BY <1>7 DEF MarkReady, SetState
<1>8. CASE SignalReady
  BY <1>8 DEF SignalReady
<1>9. CASE SignalFails
  BY <1>9 DEF SignalFails, SetState
<1>10. CASE Teardown
  BY <1>10 DEF Teardown, Detach, DestroyMapping
<1>11. QED
  BY ONLY <1>1, <1>2, <1>3, <1>4, <1>5, <1>6, <1>7, <1>8, <1>9, <1>10, WriterStep DEF WriterStep

\* The constructor makes no slot ready.
LEMMA HostInitOrder ==
  ASSUME TypeOK, Numbered, InOrder, MaxProcessors = 1, HostInit
  PROVE  InOrder'
<1> USE SlotFacts, SlotSweep DEF InOrder, Beyond, Numbered, Claiming, NoFrame, ZeroHeader,
    TypeOK, MappingOK, WriterOK, ReaderOK, HistoryOK,
           WriterHolds, ReaderHolds, mapping, writer, reader, history, bounds
<1>1. CASE ZeroRingHeader
  BY <1>1 DEF ZeroRingHeader
<1>2. CASE ZeroSlotHeader
  BY <1>2 DEF ZeroSlotHeader, SetState, ZeroHeader
<1>3. CASE ZeroSlotPayload
  BY <1>3 DEF ZeroSlotPayload
<1>4. CASE FreeSlots
  BY <1>4 DEF FreeSlots, SetState
<1>5. CASE SetRingReady
  BY <1>5 DEF SetRingReady
<1>6. QED
  BY ONLY <1>1, <1>2, <1>3, <1>4, <1>5, HostInit DEF HostInit

\* The reader frees the older frames before it hands over the one it has claimed.
LEMMA ReaderOrder ==
  ASSUME TypeOK, Numbered, InOrder, MaxProcessors = 1, ReaderStep
  PROVE  InOrder'
<1> USE SlotFacts, SlotSweep DEF InOrder, Beyond, Numbered, Claiming, NoFrame, ZeroHeader,
    TypeOK, MappingOK, WriterOK, ReaderOK, HistoryOK,
           WriterHolds, ReaderHolds, mapping, writer, reader, history, bounds
<1>1. CASE ReplayCachedFrame
  BY <1>1 DEF ReplayCachedFrame
<1>2. CASE BeginRead
  BY <1>2 DEF BeginRead
<1>3. CASE ScanState
  BY <1>3 DEF ScanState, NextIndex
<1>4. CASE ScanSequence
  BY <1>4 DEF ScanSequence, NextIndex
<1>5. CASE NothingReady
  BY <1>5 DEF NothingReady
<1>6. CASE ClaimNewest
  BY <1>6 DEF ClaimNewest, CanRead, SetState, NextAttempt
<1>7. CASE CheckNewerState
  BY <1>7 DEF CheckNewerState, NextIndex
<1>8. CASE CheckNewerSequence
  BY <1>8 DEF CheckNewerSequence, SetState, NextAttempt, NextIndex
<1>9. CASE CheckOlderState
  BY <1>9 DEF CheckOlderState, NextIndex
<1>10. CASE CheckOlderSequence
  BY <1>10 DEF CheckOlderSequence, Older, NextIndex
<1>11. CASE DropOlder
  BY ZenonT(30), <1>11 DEF DropOlder, SetState, NextIndex
<1>12. CASE ValidateSlot
  BY <1>12 DEF ValidateSlot, SetState
<1>13. CASE CopyPayload
  BY <1>13 DEF CopyPayload
<1>14. CASE CopyDescription
  BY <1>14 DEF CopyDescription
<1>15. CASE ReleaseSlot
  BY <1>15 DEF ReleaseSlot, SetState
<1>16. CASE WakeOnEvent
  BY <1>16 DEF WakeOnEvent
<1>17. CASE WakeOnTimeout
  BY <1>17 DEF WakeOnTimeout
<1>18. CASE HostInit
  BY <1>18, HostInitOrder
<1>19. QED
  BY ONLY <1>1, <1>2, <1>3, <1>4, <1>5, <1>6, <1>7, <1>8, <1>9, <1>10, <1>11, <1>12, <1>13,
     <1>14, <1>15, <1>16, <1>17, <1>18, ReaderStep DEF ReaderStep

\* A new client is shown the last frame again.
LEMMA EnvironmentOrder ==
  ASSUME TypeOK, Numbered, InOrder, MaxProcessors = 1, Environment
  PROVE  InOrder'
<1> USE SlotFacts, SlotSweep DEF InOrder, Beyond, Numbered, Claiming, NoFrame, ZeroHeader,
    TypeOK, MappingOK, WriterOK, ReaderOK, HistoryOK,
           WriterHolds, ReaderHolds, mapping, writer, reader, history, bounds
<1>1. CASE Capture
  BY <1>1 DEF Capture, Detach, DestroyMapping
<1>2. CASE Reassign
  BY <1>2 DEF Reassign, Detach, DestroyMapping, Joined
<1>3. CASE DriverCrash
  BY <1>3 DEF DriverCrash, Detach, DestroyMapping
<1>4. CASE HostStart
  BY <1>4 DEF HostStart, NoFrame
<1>5. CASE HostExit
  BY <1>5 DEF HostExit, DestroyMapping
<1>6. CASE BeginClient
  BY <1>6 DEF BeginClient
<1>7. CASE ClientGone
  BY <1>7 DEF ClientGone
<1>8. QED
  BY ONLY <1>1, <1>2, <1>3, <1>4, <1>5, <1>6, <1>7, Environment DEF Environment

\* Every step of the ring is a step of the channel, or one the channel does not see: a frame is
\* sent when its slot becomes ready, and delivered when the reader releases the slot.
LEMMA ChannelStep ==
  ASSUME TypeOK, Numbered, InOrder, [Next]_vars
  PROVE  [Channel!Next]_<<published, shown.cap>>
<1> USE DEF TypeOK, HistoryOK, WriterHolds, ReaderHolds
<1>1. CASE MarkReady
  <2>1. published' = captured /\ published < captured /\ shown' = shown
    BY <1>1 DEF MarkReady, Numbered
  <2>2. Channel!Publish
    BY <2>1 DEF Channel!Publish
  <2>3. QED BY <2>2 DEF Channel!Next
<1>2. CASE ReleaseSlot
  <2>1. published' = published /\ shown'.cap = hdr[rs].cap
    BY <1>2 DEF ReleaseSlot, InOrder
  <2>2. hdr[rs].cap > shown.cap /\ hdr[rs].cap <= published /\ hdr[rs].cap \in Nat
    BY <1>2 DEF ReleaseSlot, InOrder, MappingOK, ReaderOK
  <2>3. Channel!Deliver
    BY <2>1, <2>2 DEF Channel!Deliver
  <2>4. QED BY <2>3 DEF Channel!Next
<1>3. CASE ReplayCachedFrame
  BY <1>3 DEF ReplayCachedFrame, InOrder
<1>4. CASE UNCHANGED <<published, shown>>
  BY <1>4
<1>5. WriterStep => MarkReady \/ UNCHANGED <<published, shown>>
  BY DEF WriterStep, ClaimFree, ScanOldest, TakeOldest, AbandonSlot, WriteHeader,
     WritePayload, SignalReady,
     SignalFails, Teardown, history
<1>6. HostInit => UNCHANGED <<published, shown>>
  BY DEF HostInit, ZeroRingHeader, ZeroSlotHeader, ZeroSlotPayload, FreeSlots, SetRingReady,
     history
<1>7. ReaderStep => ReleaseSlot \/ ReplayCachedFrame \/ UNCHANGED <<published, shown>>
  BY <1>6 DEF ReaderStep, BeginRead, ScanState, ScanSequence, NothingReady, ClaimNewest,
     CheckNewerState,
     CheckNewerSequence, CheckOlderState, CheckOlderSequence, DropOlder, ValidateSlot,
     CopyPayload,
     CopyDescription, WakeOnEvent, WakeOnTimeout, history
<1>8. Environment => UNCHANGED <<published, shown>>
  BY DEF Environment, Capture, Reassign, DriverCrash, HostStart, HostExit, BeginClient,
     ClientGone, history
<1>9. UNCHANGED vars => UNCHANGED <<published, shown>>
  BY DEF vars, history
<1>10. QED BY <1>1, <1>2, <1>3, <1>4, <1>5, <1>7, <1>8, <1>9 DEF Next

\* The ring implements the lossy channel: frames are shown in the order of their capture, each
\* at most once save the replay, and none before it was published, for every slot count,
\* whatever fails, as long as one processor numbers them (a later one starts again from 1).
THEOREM RingIsChannel ==
  ASSUME MaxProcessors = 1
  PROVE  Safety => ChannelSpec
<1>1. Init => Channel!Init
  BY DEF Init, Channel!Init, NoFrame
<1>2. Init => Numbered /\ InOrder
  BY SlotFacts, RingAssumption DEF Init, Numbered, InOrder, Beyond, Claiming, WriterHolds,
     ReaderHolds, NoFrame,
     ZeroHeader
<1>3. TypeOK /\ Numbered /\ InOrder /\ [Next]_vars => (Numbered /\ InOrder)'
  <2> SUFFICES ASSUME TypeOK, Numbered, InOrder, [Next]_vars PROVE (Numbered /\ InOrder)'
    OBVIOUS
  <2>1. CASE UNCHANGED vars
    BY <2>1 DEF vars, mapping, writer, reader, history, bounds, Numbered, InOrder, Beyond,
       Claiming,
        WriterHolds, ReaderHolds
  <2>2. CASE Next
    BY <2>2, WriterNumbers, ReaderNumbers, EnvironmentNumbers,
       WriterOrder, ReaderOrder, EnvironmentOrder DEF Next
  <2>3. QED BY <2>1, <2>2
<1>4. TypeOK /\ Numbered /\ InOrder /\ [Next]_vars => [Channel!Next]_<<published, shown.cap>>
  BY ChannelStep
<1>5. QED BY <1>1, <1>2, <1>3, <1>4, TypeCorrect, PTL DEF Safety, ChannelSpec, Channel!Spec

=============================================================================
