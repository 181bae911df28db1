------------------------------ MODULE FrameRing ------------------------------
(***************************************************************************)
(* The shared-memory frame ring (native/shared/FrameRing.h) between the    *)
(* display driver, which publishes converted frames (ClaimFrameSlot and    *)
(* PublishBgraFrame in Driver.cpp), and the streaming host, which creates  *)
(* the mapping (FrameRingHost in main.cpp) and consumes the newest frame   *)
(* (FrameRingReader).  The two processes share no lock: one step here is   *)
(* one access to shared memory, so every interleaving of the accesses is a *)
(* behaviour.                                                              *)
(*                                                                         *)
(* A frame is its capture number: captures are numbered 1, 2, ... over the *)
(* whole history and 0 is zeroed memory.  A slot header holds the sequence *)
(* number the driver gave the frame (equal to its frameId: both counters   *)
(* start at 1 and advance together) and the capture it describes; pix is   *)
(* the capture the payload bytes belong to.                                *)
(***************************************************************************)
EXTENDS Naturals, FiniteSets

CONSTANTS
  SlotCount,      \* kSlotCount
  MaxCaptures,    \* bound: frames captured in a behaviour
  MaxProcessors,  \* bound: swap-chain processors created by AssignSwapChain
  MaxCrashes,     \* bound: crashes of the driver process
  MaxHosts,       \* bound: starts of the host process
  MaxClients,     \* bound: clients the host accepts
  Faults          \* which calls of PublishBgraFrame may fail: "clock", "event"

ASSUME RingAssumption ==
  /\ SlotCount \in Nat \ {0}
  /\ {MaxCaptures, MaxProcessors, MaxCrashes, MaxHosts, MaxClients} \subseteq Nat
  /\ Faults \subseteq {"clock", "event"}

Slot   == 0 .. SlotCount - 1
NoSlot == SlotCount               \* oldestIndex / newestIndex before a match
SlotState == {"Free", "Writing", "Ready", "Reading"}

ZeroHeader == [seq |-> 0, cap |-> 0]
NoFrame    == [cap |-> 0, pix |-> 0]

VARIABLES
  \* the mapping
  state,      \* FrameSlot::state of each slot
  hdr,        \* sequence and identity fields of each slot
  pix,        \* payload of each slot
  valid,      \* the ring header passes ValidateFrameRing
  event,      \* the auto-reset frame-ready event is signalled
  \* the driver: the one thread that is publishing
  wpc, ws,    \* step and claimed slot
  wi, wtry,   \* loop index and attempt number of ClaimFrameSlot
  oldest,     \* oldestIndex, with its sequence read from hdr
  nextSeq,    \* m_NextSequence of the current SwapChainProcessor
  attached,   \* the processor holds a view of the mapping
  \* the host: the constructor of FrameRingHost, then the reader thread
  rpc, rs,    \* step and claimed slot
  ri, rtry,   \* loop index and attempt number of TryReadLatest
  newest, newestSeq,
  cache,      \* payload_ and the cached* fields of FrameRingReader
  replay,     \* replayCachedFrame_
  \* history
  captured, published, shown, processors, crashes, hosts, clients

mapping == <<state, hdr, pix, valid>>
writer  == <<wpc, ws, wi, wtry, oldest, nextSeq, attached>>
reader  == <<rpc, rs, ri, rtry, newest, newestSeq, cache, replay>>
bounds  == <<processors, crashes, hosts, clients>>
history == <<captured, published, shown, bounds>>
vars    == <<mapping, event, writer, reader, history>>

WriterSteps == {"idle", "claim", "scan", "take", "header", "payload", "ready",
                "signal", "noSlot", "failed", "dead"}
ReaderSteps == {"down", "zeroRing", "zeroHeader", "zeroPayload", "freeSlots",
                "setReady", "noClient", "idle", "wait", "scan", "scanSeq",
                "claim", "newer", "newerSeq", "older", "olderSeq", "olderCas",
                "validate", "copy", "describe", "release", "terminal"}

\* Steps between a successful claim and the exchange that gives the slot up.
WriterHolds == wpc \in {"header", "payload", "ready"}
ReaderHolds == rpc \in {"newer", "newerSeq", "older", "olderSeq", "olderCas",
                        "validate", "copy", "describe", "release"}

SetState(s, v) == state' = [state EXCEPT ![s] = v]

\* The kernel frees the mapping with its last handle; the next creator gets
\* zeroed pages.
DestroyMapping ==
  /\ state' = [s \in Slot |-> "Free"]
  /\ hdr'   = [s \in Slot |-> ZeroHeader]
  /\ pix'   = [s \in Slot |-> 0]
  /\ valid' = FALSE

\* Every view of the driver goes away; the mapping survives if the host has one.
Detach ==
  /\ attached' = FALSE
  /\ IF rpc = "down" THEN DestroyMapping ELSE UNCHANGED mapping

----------------------------------------------------------------------------
(* The driver.                                                             *)

\* EnsureFrameRing at the head of CaptureAndPublish: the current view must
\* carry a valid header, or the mapping must exist and validate when opened.
Capture ==
  /\ wpc = "idle"
  /\ captured < MaxCaptures
  /\ captured' = captured + 1
  /\ IF valid /\ (attached \/ rpc # "down")
     THEN wpc' = "claim" /\ attached' = TRUE /\ UNCHANGED mapping
     ELSE wpc' = "failed" /\ Detach
  /\ wi' = 0 /\ wtry' = 0 /\ oldest' = NoSlot
  /\ UNCHANGED <<event, ws, nextSeq, reader, published, shown, bounds>>

\* ClaimFrameSlot, first loop: compare-and-swap slot wi from Free to Writing.
ClaimFree ==
  /\ wpc = "claim"
  /\ IF state[wi] = "Free"
     THEN /\ SetState(wi, "Writing")
          /\ ws' = wi
          /\ wpc' = "header"
          /\ UNCHANGED wi
     ELSE /\ wi'  = IF wi + 1 < SlotCount THEN wi + 1 ELSE 0
          /\ wpc' = IF wi + 1 < SlotCount THEN "claim" ELSE "scan"
          /\ UNCHANGED <<state, ws>>
  /\ UNCHANGED <<hdr, pix, valid, event, wtry, oldest, nextSeq, attached, reader, history>>

\* ClaimFrameSlot, second loop: remember the Ready slot of least sequence.
\* State and sequence are read in one step: only the driver writes them, save
\* the host's zeroing, after which the swap in TakeOldest fails either way.
ScanOldest ==
  /\ wpc = "scan"
  /\ oldest' = IF /\ state[wi] = "Ready"
                  /\ oldest = NoSlot \/ hdr[wi].seq < hdr[oldest].seq
               THEN wi ELSE oldest
  /\ wi'  = IF wi + 1 < SlotCount THEN wi + 1 ELSE 0
  /\ wpc' = IF wi + 1 < SlotCount THEN "scan" ELSE "take"
  /\ UNCHANGED <<mapping, event, ws, wtry, nextSeq, attached, reader, history>>

\* (Mutant: the attempt loop is missing.)
SingleAttempt == 1
ClaimAttempts == SlotCount + 1

\* What the last compare-and-swap of ClaimFrameSlot compares with.
\* (Mutant: a plain store instead of the compare-and-swap.)
TakenUnchecked(s) == TRUE
CanTake(s) == state[s] = "Ready"

\* ClaimFrameSlot, last compare-and-swap: Ready to Writing, or another attempt.
TakeOldest ==
  /\ wpc = "take"
  /\ IF oldest # NoSlot /\ CanTake(oldest)
     THEN /\ SetState(oldest, "Writing")
          /\ ws' = oldest
          /\ wpc' = "header"
          /\ UNCHANGED wtry
     ELSE /\ wtry' = wtry + 1
          /\ wpc' = IF wtry + 1 < ClaimAttempts THEN "claim" ELSE "noSlot"
          /\ UNCHANGED <<state, ws>>
  /\ oldest' = NoSlot
  /\ UNCHANGED <<hdr, pix, valid, event, wi, nextSeq, attached, reader, history>>

\* PublishBgraFrame: no timestamp can be had, so the slot is given back.
\* (Mutant: the slot is not given back.)
AbandonSlotKept ==
  /\ wpc = "header"
  /\ "clock" \in Faults
  /\ wpc' = "failed"
  /\ UNCHANGED <<mapping, event, ws, wi, wtry, oldest, nextSeq, attached, reader, history>>
AbandonSlot ==
  /\ wpc = "header"
  /\ "clock" \in Faults
  /\ SetState(ws, "Free")
  /\ wpc' = "failed"
  /\ UNCHANGED <<hdr, pix, valid, event, ws, wi, wtry, oldest, nextSeq, attached, reader, history>>

\* m_NextSequence++ on 64 bits; no behaviour of the program wraps it.
\* (Mutant: a sequence number that wraps.)
NarrowSequence(n) == (n % 2) + 1
NextSequence(n)   == n + 1

WriteHeader ==
  /\ wpc = "header"
  /\ hdr' = [hdr EXCEPT ![ws] = [seq |-> nextSeq, cap |-> captured]]
  /\ nextSeq' = NextSequence(nextSeq)
  /\ wpc' = "payload"
  /\ UNCHANGED <<state, pix, valid, event, ws, wi, wtry, oldest, attached, reader, history>>

WritePayload ==
  /\ wpc = "payload"
  /\ pix' = [pix EXCEPT ![ws] = captured]
  /\ wpc' = "ready"
  /\ UNCHANGED <<state, hdr, valid, event, ws, wi, wtry, oldest, nextSeq, attached, reader, history>>

MarkReady ==
  /\ wpc = "ready"
  /\ SetState(ws, "Ready")
  /\ published' = captured
  /\ wpc' = "signal"
  /\ UNCHANGED <<hdr, pix, valid, event, ws, wi, wtry, oldest, nextSeq, attached, reader,
                 captured, shown, bounds>>

SignalReady ==
  /\ wpc = "signal"
  /\ event' = TRUE
  /\ wpc' = "idle"
  /\ UNCHANGED <<mapping, ws, wi, wtry, oldest, nextSeq, attached, reader, history>>

\* SetEvent fails: the code frees the slot whatever its state is by now.
SignalFails ==
  /\ wpc = "signal"
  /\ "event" \in Faults
  /\ SetState(ws, "Free")
  /\ wpc' = "failed"
  /\ UNCHANGED <<hdr, pix, valid, event, ws, wi, wtry, oldest, nextSeq, attached, reader, history>>

\* A capture or publication failed: RunCore ends and closes the ring.
Teardown ==
  /\ wpc \in {"noSlot", "failed"}
  /\ wpc' = "dead"
  /\ Detach
  /\ UNCHANGED <<event, ws, wi, wtry, oldest, nextSeq, reader, history>>

\* The destructor of a processor returns only when both its threads are joined.
\* (Mutant: a processor replaced while its thread publishes.)
NotJoined == wpc # "noSlot"
Joined    == wpc \in {"idle", "dead"}

\* AssignSwapChain: the old processor is joined, the new one counts from 1.
Reassign ==
  /\ Joined
  /\ processors < MaxProcessors
  /\ processors' = processors + 1
  /\ wpc' = "idle"
  /\ nextSeq' = 1
  /\ Detach
  /\ UNCHANGED <<event, ws, wi, wtry, oldest, reader, captured, published, shown,
                 crashes, hosts, clients>>

\* The driver process dies between two accesses; a slot stays in Writing.
DriverCrash ==
  /\ wpc # "dead"
  /\ crashes < MaxCrashes
  /\ crashes' = crashes + 1
  /\ wpc' = "dead"
  /\ Detach
  /\ UNCHANGED <<event, ws, wi, wtry, oldest, nextSeq, reader, captured, published, shown,
                 processors, hosts, clients>>

WriterStep ==
  \/ ClaimFree \/ ScanOldest \/ TakeOldest \/ AbandonSlot \/ WriteHeader
  \/ WritePayload \/ MarkReady \/ SignalReady \/ SignalFails \/ Teardown

----------------------------------------------------------------------------
(* The host: FrameRingHost's constructor.                                  *)

\* The mapping and the event are created or reused, a stale signal cleared.
HostStart ==
  /\ rpc = "down"
  /\ hosts < MaxHosts
  /\ hosts' = hosts + 1
  /\ event' = FALSE
  /\ rpc' = "zeroRing"
  /\ ri' = 0
  /\ cache' = NoFrame
  /\ replay' = FALSE
  /\ UNCHANGED <<mapping, writer, rs, rtry, newest, newestSeq, captured, published, shown,
                 processors, crashes, clients>>

\* memset(ring_, 0, ...) runs over the ring header, then slot after slot.
ZeroRingHeader ==
  /\ rpc = "zeroRing"
  /\ valid' = FALSE
  /\ rpc' = "zeroHeader"
  /\ UNCHANGED <<state, hdr, pix, event, writer, rs, ri, rtry, newest, newestSeq, cache, replay, history>>

ZeroSlotHeader ==
  /\ rpc = "zeroHeader"
  /\ SetState(ri, "Free")
  /\ hdr' = [hdr EXCEPT ![ri] = ZeroHeader]
  /\ rpc' = "zeroPayload"
  /\ UNCHANGED <<pix, valid, event, writer, rs, ri, rtry, newest, newestSeq, cache, replay, history>>

ZeroSlotPayload ==
  /\ rpc = "zeroPayload"
  /\ pix' = [pix EXCEPT ![ri] = 0]
  /\ ri'  = IF ri + 1 < SlotCount THEN ri + 1 ELSE 0
  /\ rpc' = IF ri + 1 < SlotCount THEN "zeroHeader" ELSE "freeSlots"
  /\ UNCHANGED <<state, hdr, valid, event, writer, rs, rtry, newest, newestSeq, cache, replay, history>>

\* for (auto& slot : ring_->slots) slot.state = kSlotFree
FreeSlots ==
  /\ rpc = "freeSlots"
  /\ SetState(ri, "Free")
  /\ ri'  = IF ri + 1 < SlotCount THEN ri + 1 ELSE 0
  /\ rpc' = IF ri + 1 < SlotCount THEN "freeSlots" ELSE "setReady"
  /\ UNCHANGED <<hdr, pix, valid, event, writer, rs, rtry, newest, newestSeq, cache, replay, history>>

SetRingReady ==
  /\ rpc = "setReady"
  /\ valid' = TRUE
  /\ rpc' = "noClient"
  /\ UNCHANGED <<state, hdr, pix, event, writer, rs, ri, rtry, newest, newestSeq, cache, replay, history>>

\* The host process exits or dies at any point of its code (while the bound
\* still allows it to come back).
HostExit ==
  /\ rpc # "down"
  /\ hosts < MaxHosts
  /\ rpc' = "down"
  /\ IF attached THEN UNCHANGED mapping ELSE DestroyMapping
  /\ UNCHANGED <<event, writer, rs, ri, rtry, newest, newestSeq, cache, replay, history>>

----------------------------------------------------------------------------
(* The host: FrameRingReader.                                              *)

\* BeginClient: the cached frame is replayed when its size is the client's.
BeginClient ==
  /\ rpc = "noClient"
  /\ clients < MaxClients
  /\ clients' = clients + 1
  /\ \E sameSize \in BOOLEAN : replay' = (cache # NoFrame /\ sameSize)
  /\ rpc' = "idle"
  /\ UNCHANGED <<mapping, event, writer, rs, ri, rtry, newest, newestSeq, cache,
                 captured, published, shown, processors, crashes, hosts>>

ClientGone ==
  /\ rpc = "idle"
  /\ clients < MaxClients
  /\ rpc' = "noClient"
  /\ UNCHANGED <<mapping, event, writer, rs, ri, rtry, newest, newestSeq, cache, replay, history>>

ReplayCachedFrame ==
  /\ rpc = "idle"
  /\ replay
  /\ replay' = FALSE
  /\ shown' = cache
  /\ UNCHANGED <<mapping, event, writer, rpc, rs, ri, rtry, newest, newestSeq, cache,
                 captured, published, bounds>>

\* TryReadLatest is entered; an invalid ring header ends the reader for good.
BeginRead ==
  /\ rpc = "idle"
  /\ ~replay
  /\ rpc' = IF valid THEN "scan" ELSE "terminal"
  /\ ri' = 0 /\ rtry' = 0 /\ newest' = NoSlot /\ newestSeq' = 0
  /\ UNCHANGED <<mapping, event, writer, rs, cache, replay, history>>

\* The for loops over the slots: next index, or on to the code after the loop.
\* (Mutant: the loop runs one index too far.)
NextIndexPastEnd(loop, after) ==
  /\ ri'  = IF ri < SlotCount THEN ri + 1 ELSE 0
  /\ rpc' = IF ri < SlotCount THEN loop ELSE after
NextIndex(loop, after) ==
  /\ ri'  = IF ri + 1 < SlotCount THEN ri + 1 ELSE 0
  /\ rpc' = IF ri + 1 < SlotCount THEN loop ELSE after

ReadAttempts == SlotCount * 2

\* "continue" of the attempt loop, or return false to WaitForFrame.
NextAttempt ==
  /\ rtry' = rtry + 1
  /\ ri' = 0 /\ newest' = NoSlot /\ newestSeq' = 0
  /\ rpc' = IF rtry + 1 < ReadAttempts THEN "scan" ELSE "wait"

ScanState ==
  /\ rpc = "scan"
  /\ IF state[ri] = "Ready"
     THEN rpc' = "scanSeq" /\ UNCHANGED ri
     ELSE NextIndex("scan", "claim")
  /\ UNCHANGED <<mapping, event, writer, rs, rtry, newest, newestSeq, cache, replay, history>>

ScanSequence ==
  /\ rpc = "scanSeq"
  /\ IF newest = NoSlot \/ hdr[ri].seq > newestSeq
     THEN newest' = ri /\ newestSeq' = hdr[ri].seq
     ELSE UNCHANGED <<newest, newestSeq>>
  /\ NextIndex("scan", "claim")
  /\ UNCHANGED <<mapping, event, writer, rs, rtry, cache, replay, history>>

NothingReady ==
  /\ rpc = "claim"
  /\ newest = NoSlot
  /\ rpc' = "wait"
  /\ UNCHANGED <<mapping, event, writer, rs, ri, rtry, newest, newestSeq, cache, replay, history>>

\* ClaimReady: compare-and-swap from Ready to Reading.
\* (Mutant: a slot being written is claimed too.)
ReadableAnyhow(s) == state[s] # "Free"
CanRead(s) == state[s] = "Ready"

ClaimNewest ==
  /\ rpc = "claim"
  /\ newest # NoSlot
  /\ IF CanRead(newest)
     THEN /\ SetState(newest, "Reading")
          /\ rs' = newest
          /\ rpc' = "newer"
          /\ UNCHANGED <<ri, rtry, newest, newestSeq>>
     ELSE /\ NextAttempt
          /\ UNCHANGED <<state, rs>>
  /\ UNCHANGED <<hdr, pix, valid, event, writer, cache, replay, history>>

\* Has a newer frame become ready since the scan?
CheckNewerState ==
  /\ rpc = "newer"
  /\ IF ri # rs /\ state[ri] = "Ready"
     THEN rpc' = "newerSeq" /\ UNCHANGED ri
     ELSE NextIndex("newer", "older")
  /\ UNCHANGED <<mapping, event, writer, rs, rtry, newest, newestSeq, cache, replay, history>>

CheckNewerSequence ==
  /\ rpc = "newerSeq"
  /\ IF hdr[ri].seq > hdr[rs].seq
     THEN /\ SetState(rs, "Free")
          /\ NextAttempt
     ELSE /\ NextIndex("newer", "older")
          /\ UNCHANGED <<state, rtry, newest, newestSeq>>
  /\ UNCHANGED <<hdr, pix, valid, event, writer, rs, cache, replay, history>>

\* Ready slots of lower sequence are dropped: state and sequence are read,
\* then the slot is swapped from Ready to Free.
CheckOlderState ==
  /\ rpc = "older"
  /\ IF ri # rs /\ state[ri] = "Ready"
     THEN rpc' = "olderSeq" /\ UNCHANGED ri
     ELSE NextIndex("older", "validate")
  /\ UNCHANGED <<mapping, event, writer, rs, rtry, newest, newestSeq, cache, replay, history>>

\* (Mutant: older ready slots are left in the ring.)
NeverOlder(s, t) == FALSE
Older(s, t) == hdr[s].seq < hdr[t].seq

CheckOlderSequence ==
  /\ rpc = "olderSeq"
  /\ IF Older(ri, rs)
     THEN rpc' = "olderCas" /\ UNCHANGED ri
     ELSE NextIndex("older", "validate")
  /\ UNCHANGED <<mapping, event, writer, rs, rtry, newest, newestSeq, cache, replay, history>>

DropOlder ==
  /\ rpc = "olderCas"
  /\ IF state[ri] = "Ready" THEN SetState(ri, "Free") ELSE UNCHANGED state
  /\ NextIndex("older", "validate")
  /\ UNCHANGED <<hdr, pix, valid, event, writer, rs, rtry, newest, newestSeq, cache, replay, history>>

\* IsValidSlot: a zeroed header is rejected and the slot freed.
\* (Mutant: the slot is freed before it is copied.)
ValidateAndFree ==
  /\ rpc = "validate"
  /\ SetState(rs, "Free")
  /\ rpc' = IF hdr[rs].seq # 0 THEN "copy" ELSE "wait"
  /\ UNCHANGED <<hdr, pix, valid, event, writer, rs, ri, rtry, newest, newestSeq, cache, replay, history>>
ValidateSlot ==
  /\ rpc = "validate"
  /\ IF hdr[rs].seq # 0
     THEN rpc' = "copy" /\ UNCHANGED state
     ELSE rpc' = "wait" /\ SetState(rs, "Free")
  /\ UNCHANGED <<hdr, pix, valid, event, writer, rs, ri, rtry, newest, newestSeq, cache, replay, history>>

CopyPayload ==
  /\ rpc = "copy"
  /\ cache' = [cache EXCEPT !.pix = pix[rs]]
  /\ rpc' = "describe"
  /\ UNCHANGED <<mapping, event, writer, rs, ri, rtry, newest, newestSeq, replay, history>>

CopyDescription ==
  /\ rpc = "describe"
  /\ cache' = [cache EXCEPT !.cap = hdr[rs].cap]
  /\ rpc' = "release"
  /\ UNCHANGED <<mapping, event, writer, rs, ri, rtry, newest, newestSeq, replay, history>>

\* FreeSlot, and the frame is handed to the stream.
ReleaseSlot ==
  /\ rpc = "release"
  /\ SetState(rs, "Free")
  /\ shown' = cache
  /\ rpc' = "idle"
  /\ UNCHANGED <<hdr, pix, valid, event, writer, rs, ri, rtry, newest, newestSeq, cache, replay,
                 captured, published, bounds>>

\* WaitForSingleObject(frameReadyEvent, 100): the signal is consumed, or the
\* wait times out; either way WaitForFrame tries again.
WakeOnEvent ==
  /\ rpc = "wait"
  /\ event
  /\ event' = FALSE
  /\ rpc' = "idle"
  /\ UNCHANGED <<mapping, writer, rs, ri, rtry, newest, newestSeq, cache, replay, history>>

WakeOnTimeout ==
  /\ rpc = "wait"
  /\ ~event
  /\ rpc' = "idle"
  /\ UNCHANGED <<mapping, event, writer, rs, ri, rtry, newest, newestSeq, cache, replay, history>>

HostInit ==
  \/ ZeroRingHeader \/ ZeroSlotHeader \/ ZeroSlotPayload \/ FreeSlots \/ SetRingReady

ReaderStep ==
  \/ HostInit \/ ReplayCachedFrame \/ BeginRead \/ ScanState \/ ScanSequence
  \/ NothingReady \/ ClaimNewest \/ CheckNewerState \/ CheckNewerSequence
  \/ CheckOlderState \/ CheckOlderSequence \/ DropOlder \/ ValidateSlot
  \/ CopyPayload \/ CopyDescription \/ ReleaseSlot \/ WakeOnEvent \/ WakeOnTimeout

----------------------------------------------------------------------------
\* No host has run, the driver has been assigned its first swap chain.
Init ==
  /\ state = [s \in Slot |-> "Free"]
  /\ hdr = [s \in Slot |-> ZeroHeader]
  /\ pix = [s \in Slot |-> 0]
  /\ valid = FALSE /\ event = FALSE
  /\ wpc = "idle" /\ ws = NoSlot /\ wi = 0 /\ wtry = 0 /\ oldest = NoSlot
  /\ nextSeq = 1 /\ attached = FALSE
  /\ rpc = "down" /\ rs = NoSlot /\ ri = 0 /\ rtry = 0
  /\ newest = NoSlot /\ newestSeq = 0 /\ cache = NoFrame /\ replay = FALSE
  /\ captured = 0 /\ published = 0 /\ shown = NoFrame
  /\ processors = 1 /\ crashes = 0 /\ hosts = 0 /\ clients = 0

Environment ==
  \/ Capture \/ Reassign \/ DriverCrash
  \/ HostStart \/ HostExit \/ BeginClient \/ ClientGone

Next == WriterStep \/ ReaderStep \/ Environment

\* Both processes keep running their code; nothing else is promised.
Fairness == WF_vars(WriterStep) /\ WF_vars(ReaderStep)

Safety == Init /\ [][Next]_vars
Spec   == Safety /\ Fairness

----------------------------------------------------------------------------
(* Properties.                                                             *)

MappingOK ==
  /\ state \in [Slot -> SlotState]
  /\ hdr \in [Slot -> [seq : Nat, cap : Nat]]
  /\ pix \in [Slot -> Nat]
  /\ valid \in BOOLEAN

WriterOK ==
  /\ wpc \in WriterSteps
  /\ ws \in Slot \cup {NoSlot} /\ wi \in Slot /\ oldest \in Slot \cup {NoSlot}
  /\ WriterHolds => ws \in Slot
  /\ wtry \in 0 .. ClaimAttempts
  /\ wpc \in {"claim", "scan", "take"} => wtry < ClaimAttempts
  /\ nextSeq \in Nat
  /\ attached \in BOOLEAN

ReaderOK ==
  /\ rpc \in ReaderSteps
  /\ rs \in Slot \cup {NoSlot} /\ ri \in Slot /\ newest \in Slot \cup {NoSlot}
  /\ ReaderHolds => rs \in Slot
  /\ rtry \in 0 .. ReadAttempts
  /\ rpc \in {"scan", "scanSeq", "claim", "newer", "newerSeq"} => rtry < ReadAttempts
  /\ newestSeq \in Nat
  /\ cache \in [cap : Nat, pix : Nat]
  /\ replay \in BOOLEAN

HistoryOK ==
  /\ captured \in 0 .. MaxCaptures /\ published \in Nat
  /\ shown \in [cap : Nat, pix : Nat]
  /\ processors \in Nat /\ crashes \in Nat /\ hosts \in Nat /\ clients \in Nat

\* The shape of the state; the attempt counters stay within the loops' limits.
TypeOK == MappingOK /\ event \in BOOLEAN /\ WriterOK /\ ReaderOK /\ HistoryOK

\* The driver never writes a slot while the reader reads it, although neither
\* takes a lock and the host may be restarted while the driver writes: the two
\* compare-and-swaps hand a slot to one side at a time.
SlotExclusion == ~(WriterHolds /\ ReaderHolds /\ ws = rs)

\* ClaimFrameSlot's SlotCount + 1 attempts are enough: one reader can defeat
\* each of them only finitely often, so publishing never fails for want of a
\* slot (a null slot would tear the swap-chain processor down).
ClaimNeverFails == wpc # "noSlot"

\* A frame handed to the stream describes the pixels it carries: header and
\* payload are of one capture.
NoTornFrame == shown.cap = shown.pix

\* A slot in Writing that is not the publisher's is lost until the host restarts;
\* only a crash of the driver process may cost the ring a slot, and one at most:
\* every error path of PublishBgraFrame and every processor change gives it back.
OrphansBounded ==
  Cardinality({s \in Slot : state[s] = "Writing" /\ ~(WriterHolds /\ ws = s)}) <= crashes

\* Frames reach the stream in capture order, each at most once save the replay
\* for a new client, and none before it was published.
Channel == INSTANCE FrameChannel WITH sent <- published, got <- shown.cap
ChannelSpec == Channel!Spec

Connected == rpc \notin {"down", "terminal", "noClient"}

\* A frame that is ready when a connected reader looks for one is shown, or a
\* newer one is, whatever the driver does meanwhile - unless publishing it fails at the
\* end, in SetEvent, which takes the slot back and ends the processor.
ReadyFrameReachesClient ==
  \A c \in 1 .. MaxCaptures :
    (rpc = "idle" /\ \E s \in Slot : state[s] = "Ready" /\ hdr[s].cap = c)
      ~> (shown.cap >= c \/ ~Connected \/ wpc = "dead")
=============================================================================
