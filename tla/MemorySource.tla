----------------------------- MODULE MemorySource -----------------------------
(***************************************************************************)
(* CInputDataFromMemory, the test source that sends the same pattern over  *)
(* and over.  ProduceThreadFunc numbers a block, takes a buffer from the   *)
(* pool and calls ProcessData.  Unlike the file readers it has no gate:    *)
(* only the pool, which has a buffer for every slot of the ring, holds it  *)
(* back.  When Acquire fails, which it does only because of a stop, the    *)
(* producer switches the processor to copy mode; the processor was         *)
(* initialised without the memory that mode copies to, and ProcessData     *)
(* goes through the null pointer.                                          *)
(*                                                                         *)
(* A session whose pool cannot be allocated is in copy mode from the       *)
(* start, with that memory and without a pool.  The window leaves          *)
(* total_bytes 0: a source that loops has no end, and one that does not    *)
(* loop produces nothing.  The owner is the window, and behind the         *)
(* listener is the DMA channel, which may fail.                            *)
(***************************************************************************)
EXTENDS OrderedDataProcessor, AlignedBufferPool, SourceConstants

CONSTANTS
  ProducerThread,  \* produce_thread_, the pool's one user
  DeviceBlocks     \* blocks the channel may hold by descriptor

ASSUME ProducerThreadAssumption == PoolUsers = {ProducerThread}
ASSUME DeviceBlocksAssumption == DeviceBlocks \in Nat

\* Init asks for max(1, MAX_DISORDER_GROUPS * io_request_num) buffers, and the
\* ring has MAX_DISORDER_GROUPS slots for each of at least one request.
ASSUME PoolFitsRing == PoolBlocks <= TotalSlots

VARIABLES
  requestCounter,  \* global_request_counter
  producerPc,      \* where ProduceThreadFunc is
  external,        \* use_external_memory_ of the processor
  hasMemory,       \* m_pMemoryBuffer of the processor is allocated
  stopRequested,   \* stop_requested_
  deviceHolds,     \* pool blocks the channel has and will release
  deviceFailed,    \* a write failed and the channel's worker ended
  ownerPc          \* where the window is

modeVars == <<external, hasMemory>>
deviceVars == <<deviceHolds, deviceFailed>>
vars == <<odpVars, poolVars, requestCounter, producerPc, modeVars, stopRequested,
          deviceVars, ownerPc>>

Requests == 0 .. (MaxRequests - 1)
Claimed == requestCounter - 1

ProducerPcs == {"none", "next", "acquire", "submit", "copy", "mark", "exited"}
OwnerPcs == {"idle", "running", "stopping", "join", "stopOutput", "joinOutput",
             "stopped", "crashed"}

Init == /\ ODPInit /\ PoolInit
        /\ requestCounter = 0
        /\ producerPc = "none"
        /\ external = TRUE /\ hasMemory = FALSE
        /\ stopRequested = FALSE
        /\ deviceHolds = 0 /\ deviceFailed = FALSE
        /\ ownerPc = "idle"

Goes(from, to) == producerPc = from /\ producerPc' = to

\* The session's blocks are in buffers of the pool.
UsesPool == ~hasMemory

\* The processor is about to use memory it does not have.
NullMemory == ~external /\ ~hasMemory

-----------------------------------------------------------------------------
(* ProduceThreadFunc.                                                      *)

ClaimBlock ==
  /\ Goes("next", IF external THEN "acquire" ELSE "copy")
  /\ ~stopRequested
  /\ requestCounter < MaxRequests
  /\ requestCounter' = requestCounter + 1
  /\ UNCHANGED <<odpVars, poolVars, modeVars, stopRequested, deviceVars, ownerPc>>

LoopEnds ==
  /\ Goes("next", "exited")
  /\ stopRequested
  /\ UNCHANGED <<odpVars, poolVars, requestCounter, modeVars, stopRequested,
                 deviceVars, ownerPc>>

TakeBuffer ==
  /\ Goes("acquire", "submit")
  /\ AcquireBlock(ProducerThread, stopRequested)
  /\ UNCHANGED <<odpVars, requestCounter, modeVars, stopRequested, deviceVars, ownerPc>>

WaitForBuffer ==
  /\ producerPc = "acquire"
  /\ AcquireCheck(ProducerThread, stopRequested) \/ AcquireSleep(ProducerThread)
  /\ UNCHANGED <<odpVars, requestCounter, producerPc, modeVars, stopRequested,
                 deviceVars, ownerPc>>

\* A stop makes Acquire fail: EnableExternalMemoryMode(false).
FallBackToCopy ==
  /\ Goes("acquire", "copy")
  /\ AcquireStopped(ProducerThread, stopRequested)
  /\ external' = FALSE
  /\ UNCHANGED <<odpVars, requestCounter, hasMemory, stopRequested, deviceVars, ownerPc>>

\* Mutant of SubmitBlock: a refused block is not given back.
SubmitBlockKeepsRefused ==
  /\ Goes("submit", IF Occupied(Claimed) THEN "exited" ELSE "mark")
  /\ StoreBlock(Claimed)
  /\ UNCHANGED <<poolVars, requestCounter, modeVars, stopRequested, deviceVars, ownerPc>>

\* ProcessData of a pool block; if it refuses, the block is released and the
\* production ends.
SubmitBlock ==
  /\ Goes("submit", IF Occupied(Claimed) THEN "exited" ELSE "mark")
  /\ StoreBlock(Claimed)
  /\ IF Occupied(Claimed) THEN ReleaseBlock ELSE UNCHANGED poolVars
  /\ UNCHANGED <<requestCounter, modeVars, stopRequested, deviceVars, ownerPc>>

\* Mutant of CopyBlock: an occupied slot is written all the same.
CopyBlockBlindly ==
  /\ Goes("copy", "mark")
  /\ hasMemory
  /\ slotBlock' = [slotBlock EXCEPT ![SlotOf(Claimed)] = Claimed]
  /\ UNCHANGED <<slotFilled, nextOutputSlot, stopThread, outPc, delivered, poolVars,
                 requestCounter, modeVars, stopRequested, deviceVars, ownerPc>>

\* ProcessData in copy mode; if it refuses, the production ends.
CopyBlock ==
  /\ Goes("copy", IF Occupied(Claimed) THEN "exited" ELSE "mark")
  /\ Occupied(Claimed) \/ hasMemory
  /\ StoreBlock(Claimed)
  /\ UNCHANGED <<poolVars, requestCounter, modeVars, stopRequested, deviceVars, ownerPc>>

MarkBlock ==
  /\ Goes("mark", "next")
  /\ MarkFilled(Claimed)
  /\ UNCHANGED <<poolVars, requestCounter, modeVars, stopRequested, deviceVars, ownerPc>>

Producer == \/ ClaimBlock \/ LoopEnds \/ TakeBuffer \/ WaitForBuffer
            \/ FallBackToCopy \/ SubmitBlock \/ CopyBlock \/ MarkBlock

\* Both ProcessData and the output thread go through m_pMemoryBuffer in copy
\* mode.
NullDereference ==
  /\ NullMemory
  /\ \/ producerPc = "copy" /\ ~Occupied(Claimed)
     \/ outPc = "poll" /\ ~stopThread /\ slotFilled[nextOutputSlot]
  /\ ownerPc' = "crashed"
  /\ UNCHANGED <<odpVars, poolVars, requestCounter, producerPc, modeVars,
                 stopRequested, deviceVars>>

-----------------------------------------------------------------------------
(* The output thread and the channel behind the listener.                  *)

SendStopped == ownerPc \notin {"idle", "running"}

\* Mutant of DeliverBlock: InputData releases the block although Send took it.
DeliverBlockReleasesTwice ==
  /\ OutputDeliver
  /\ UsesPool /\ ~deviceFailed
  /\ deviceHolds < DeviceBlocks
  /\ deviceHolds' = deviceHolds + 1
  /\ ReleaseBlock
  /\ UNCHANGED <<requestCounter, producerPc, modeVars, stopRequested, deviceFailed, ownerPc>>

\* Send puts a pool block on the descriptor queue, or copies it and releases
\* it when that queue is full.  Once the channel has failed InputData repeats
\* Send until sending is stopped, and then releases the block.
DeliverBlock ==
  /\ OutputDeliver
  /\ deviceFailed => SendStopped
  /\ \/ /\ UsesPool /\ ~deviceFailed
        /\ deviceHolds < DeviceBlocks
        /\ deviceHolds' = deviceHolds + 1
        /\ UNCHANGED poolVars
     \/ /\ UsesPool
        /\ deviceFailed \/ deviceHolds = DeviceBlocks
        /\ ReleaseBlock
        /\ UNCHANGED deviceHolds
     \/ /\ ~UsesPool
        /\ UNCHANGED <<poolVars, deviceHolds>>
  /\ UNCHANGED <<requestCounter, producerPc, modeVars, stopRequested, deviceFailed, ownerPc>>

Output == \/ DeliverBlock
          \/ /\ \/ OutputTake /\ ~NullMemory
                \/ OutputClear \/ OutputAdvance \/ OutputExit
             /\ UNCHANGED <<poolVars, requestCounter, producerPc, modeVars,
                            stopRequested, deviceVars, ownerPc>>

\* A write ends, successful or not, and its block is released.
DeviceRelease ==
  /\ deviceHolds > 0
  /\ ~deviceFailed
  /\ deviceHolds' = deviceHolds - 1
  /\ deviceFailed' \in BOOLEAN
  /\ ReleaseBlock
  /\ UNCHANGED <<odpVars, requestCounter, producerPc, modeVars, stopRequested, ownerPc>>

-----------------------------------------------------------------------------
(* The window.                                                             *)

OwnerGoes(from, to) == ownerPc = from /\ ownerPc' = to

\* Init, with or without a pool, and Start, looping or not.
Start ==
  /\ OwnerGoes("idle", "running")
  /\ StartProcessing
  /\ producerPc' \in {"next", "exited"}
  /\ external' \in BOOLEAN
  /\ hasMemory' = ~external'
  /\ UNCHANGED <<poolVars, requestCounter, stopRequested, deviceVars>>

\* stopSendData raises m_bStopSendData and then calls Stop.
StopSending ==
  /\ OwnerGoes("running", "stopping")
  /\ UNCHANGED <<odpVars, poolVars, requestCounter, producerPc, modeVars,
                 stopRequested, deviceVars>>

\* Stop raises the flag and notifies nobody.
RequestStop ==
  /\ OwnerGoes("stopping", "join")
  /\ stopRequested' = TRUE
  /\ UNCHANGED <<odpVars, poolVars, requestCounter, producerPc, modeVars, deviceVars>>

JoinProducer ==
  /\ OwnerGoes("join", "stopOutput")
  /\ Goes("exited", "none")
  /\ UNCHANGED <<odpVars, poolVars, requestCounter, modeVars, stopRequested, deviceVars>>

StopOutput ==
  /\ OwnerGoes("stopOutput", "joinOutput")
  /\ RequestStopProcessing
  /\ UNCHANGED <<poolVars, requestCounter, producerPc, modeVars, stopRequested, deviceVars>>

JoinOutput ==
  /\ OwnerGoes("joinOutput", "stopped")
  /\ JoinOutputThread
  /\ UNCHANGED <<poolVars, requestCounter, producerPc, modeVars, stopRequested, deviceVars>>

\* The channel is stopped, which gives back what it holds; at the next start
\* Reset and Init leave an empty ring and a new pool.
Reset ==
  /\ OwnerGoes("stopped", "idle")
  /\ ResetProcessor
  /\ ResetPool
  /\ requestCounter' = 0
  /\ stopRequested' = FALSE
  /\ deviceHolds' = 0 /\ deviceFailed' = FALSE
  /\ external' = TRUE /\ hasMemory' = FALSE
  /\ UNCHANGED producerPc

Stopping == RequestStop \/ JoinProducer \/ StopOutput \/ JoinOutput

-----------------------------------------------------------------------------
\* A crashed process takes no step.
Next == /\ ownerPc # "crashed"
        /\ \/ Producer \/ NullDereference \/ Output \/ DeviceRelease
           \/ Start \/ StopSending \/ Stopping \/ Reset

\* Threads that can go on do, the window that has begun to stop goes on, and
\* the device writes out what it holds until it fails.
Alive(A) == ownerPc # "crashed" /\ A
Fairness == /\ WF_vars(Alive(Producer)) /\ WF_vars(Alive(NullDereference))
            /\ WF_vars(Alive(Output)) /\ WF_vars(Alive(DeviceRelease))
            /\ WF_vars(Alive(Stopping))

Spec == Init /\ [][Next]_vars /\ Fairness

-----------------------------------------------------------------------------
(* Properties.                                                             *)

TypeOK ==
  /\ slotFilled \in [Slots -> BOOLEAN]
  /\ slotBlock \in [Slots -> Requests \union {NoBlock}]
  /\ nextOutputSlot \in Slots
  /\ stopThread \in BOOLEAN /\ stopRequested \in BOOLEAN
  /\ outPc \in OutputPcs /\ producerPc \in ProducerPcs /\ ownerPc \in OwnerPcs
  /\ delivered \in Seq(Requests)
  /\ freeBlocks \in 0 .. PoolBlocks
  /\ poolWait \in [PoolUsers -> PoolWaits]
  /\ requestCounter \in 0 .. MaxRequests
  /\ external \in BOOLEAN /\ hasMemory \in BOOLEAN
  /\ deviceHolds \in 0 .. DeviceBlocks /\ deviceFailed \in BOOLEAN

\* Every pool block is in one place: free, with the producer, in a filled slot
\* not yet handed over, or with the channel, also when ProcessData refuses the
\* block, a write fails or a session is stopped.
Held == IF UsesPool /\ producerPc \in {"submit", "mark"} THEN 1 ELSE 0
PoolSlots == {s \in Slots : /\ UsesPool /\ slotFilled[s]
                            /\ ~(s = nextOutputSlot /\ outPc = "clear")}
BlocksConserved == freeBlocks + deviceHolds + Held + Cardinality(PoolSlots) = PoolBlocks

\* The blocks the processor has taken over.
Accepted == {delivered[i] : i \in 1 .. Len(delivered)}
              \union {slotBlock[s] : s \in {t \in Slots : slotFilled[t]}}

OD == INSTANCE OrderedDelivery WITH accepted <- Accepted

\* Without a gate too the listener gets the blocks in order, each once and none
\* skipped: a block that laps the ring is refused and ends the production.
ImplementsOrderedDelivery == OD!Spec

\* A source that should run on ends by itself for one reason only: a block laps
\* the ring.  With a pool that takes a buffer which has come back, released by
\* Send or by the device, before the output thread has cleared its slot; in a
\* copy-mode session, which nothing holds back, any full ring will do.
EndsOnlyAtFullRing ==
  [][producerPc = "submit" /\ producerPc' = "exited"
       => outPc = "clear" /\ SlotOf(Claimed) = nextOutputSlot]_vars

\* A stop completes although it wakes nobody: a block on its way back wakes the
\* producer.  The exceptions are the crash that the copy mode then makes of
\* most stops, and a channel that has failed with every block of the pool.
StopCompletes ==
  ownerPc = "stopping" ~> \/ ownerPc \in {"stopped", "crashed"}
                          \/ deviceFailed /\ deviceHolds = PoolBlocks

\* Not so: when the source falls back to copy mode, there is memory to copy to.
FallbackHasMemory == external \/ hasMemory
=============================================================================
