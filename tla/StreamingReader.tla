--------------------------- MODULE StreamingReader ---------------------------
(***************************************************************************)
(* CInputDataFromFileUsePOSIX in streaming mode.  StreamingReadLoop runs   *)
(* on the producer thread and does everything itself: it numbers a block,  *)
(* waits at the slot gate, takes a buffer from the pool, reads and calls   *)
(* ProcessData, one block at a time.  When a stop makes Acquire refuse a   *)
(* pool buffer the loop reads into a buffer of its own, which it frees     *)
(* before it returns.                                                      *)
(*                                                                         *)
(* pending_tasks_ is left out: only this thread counts it, it is never     *)
(* above one, and WaitForPendingCapacity comes down to a look at the stop  *)
(* flag.  The output thread, the device and the owner are as in            *)
(* PosixReader.                                                            *)
(***************************************************************************)
EXTENDS OrderedDataProcessor, AlignedBufferPool

CONSTANTS
  ProducerThread,  \* producer_thread_, the pool's one user
  MaxRequests,     \* bound: blocks in the files of a session
  DeviceBlocks     \* blocks the device may hold by descriptor

ASSUME ProducerThreadAssumption == PoolUsers = {ProducerThread}
ASSUME MaxRequestsAssumption == MaxRequests \in Nat
ASSUME DeviceBlocksAssumption == DeviceBlocks \in Nat

VARIABLES
  requestCounter,  \* global_request_counter_
  producerPc,      \* where StreamingReadLoop is
  ownBuffer,       \* aligned_buf, the loop's own buffer, is allocated
  ownRequests,     \* requests read into it
  stopRequested,   \* stop_requested_
  deviceHolds,     \* pool blocks the device has and will release
  ownerPc          \* where the owner is

loopVars == <<requestCounter, ownBuffer, ownRequests>>
envVars == <<deviceHolds, ownerPc>>
vars == <<odpVars, poolVars, loopVars, producerPc, stopRequested, envVars>>

Requests == 0 .. (MaxRequests - 1)
Claimed == requestCounter - 1

ProducerPcs == {"none", "next", "gate", "capacity", "acquire", "read", "store",
                "drain", "cleanup", "exited"}
OwnerPcs == {"idle", "running", "notify", "join", "stopOutput", "joinOutput",
             "stopped"}

Init == /\ ODPInit /\ PoolInit
        /\ requestCounter = 0
        /\ producerPc = "none"
        /\ ownBuffer = FALSE
        /\ ownRequests = {}
        /\ stopRequested = FALSE
        /\ deviceHolds = 0
        /\ ownerPc = "idle"

Goes(from, to) == producerPc = from /\ producerPc' = to
FromPool(r) == r \notin ownRequests

-----------------------------------------------------------------------------
(* StreamingReadLoop.                                                      *)

\* Mutant of ClaimRequest: the loop does not look at the stop flag.
ClaimRequestIgnoresStop ==
  /\ Goes("next", "gate")
  /\ requestCounter < MaxRequests
  /\ requestCounter' = requestCounter + 1
  /\ UNCHANGED <<odpVars, poolVars, ownBuffer, ownRequests, stopRequested, envVars>>

ClaimRequest ==
  /\ Goes("next", "gate")
  /\ ~stopRequested
  /\ requestCounter < MaxRequests
  /\ requestCounter' = requestCounter + 1
  /\ UNCHANGED <<odpVars, poolVars, ownBuffer, ownRequests, stopRequested, envVars>>

\* The files end, at any block, or a stop ends the loops.
FilesDone ==
  /\ Goes("next", "drain")
  /\ UNCHANGED <<odpVars, poolVars, loopVars, stopRequested, envVars>>

\* Mutant of GateOpen: the gate is left out.
NoGate == TRUE

GateOpen == Claimed = 0 \/ SlotOf(Claimed) # nextOutputSlot

PassGate ==
  /\ Goes("gate", "capacity")
  /\ ~stopRequested
  /\ GateOpen
  /\ UNCHANGED <<odpVars, poolVars, loopVars, stopRequested, envVars>>

\* Mutant of LeaveGate: a stop does not end the wait at the gate.
LeaveGateWhenOpen ==
  /\ Goes("gate", "drain")
  /\ stopRequested
  /\ GateOpen
  /\ UNCHANGED <<odpVars, poolVars, loopVars, stopRequested, envVars>>

\* A stop ends the wait at the gate; WaitForPendingCapacity, which follows,
\* sees it too and ends the loops.
LeaveGate ==
  /\ Goes("gate", "drain")
  /\ stopRequested
  /\ UNCHANGED <<odpVars, poolVars, loopVars, stopRequested, envVars>>

WaitForPendingCapacity ==
  /\ \/ Goes("capacity", "acquire") /\ ~stopRequested
     \/ Goes("capacity", "drain") /\ stopRequested
  /\ UNCHANGED <<odpVars, poolVars, loopVars, stopRequested, envVars>>

TakeBuffer ==
  /\ Goes("acquire", "read")
  /\ AcquireBlock(ProducerThread, stopRequested)
  /\ UNCHANGED <<odpVars, loopVars, stopRequested, envVars>>

WaitForBuffer ==
  /\ producerPc = "acquire"
  /\ AcquireCheck(ProducerThread, stopRequested) \/ AcquireSleep(ProducerThread)
  /\ UNCHANGED <<odpVars, loopVars, producerPc, stopRequested, envVars>>

\* A stop makes Acquire refuse: read this block into the loop's own buffer.
UseOwnBuffer ==
  /\ Goes("acquire", "read")
  /\ AcquireStopped(ProducerThread, stopRequested)
  /\ ownRequests' = ownRequests \union {Claimed}
  /\ UNCHANGED <<odpVars, requestCounter, ownBuffer, stopRequested, envVars>>

\* Mutant of GiveBack: the loop's own buffer is counted into the pool.
GiveBackAnyBuffer == ReleaseBlock

GiveBack == IF FromPool(Claimed) THEN ReleaseBlock ELSE UNCHANGED poolVars

\* The read gives data, and ProcessData stores or refuses the block.
ReadBlock ==
  /\ Goes("read", IF Occupied(Claimed) THEN "next" ELSE "store")
  /\ StoreBlock(Claimed)
  /\ IF Occupied(Claimed) THEN GiveBack ELSE UNCHANGED poolVars
  /\ UNCHANGED <<loopVars, stopRequested, envVars>>

\* Mutant of ReadFails: the buffer of a failed read is kept.
ReadFailsKeepsBuffer ==
  /\ Goes("read", "next")
  /\ UNCHANGED <<odpVars, poolVars, loopVars, stopRequested, envVars>>

\* The read fails or gives nothing: the next file is tried.
ReadFails ==
  /\ Goes("read", "next")
  /\ GiveBack
  /\ UNCHANGED <<odpVars, loopVars, stopRequested, envVars>>

FillSlot ==
  /\ Goes("store", "next")
  /\ MarkFilled(Claimed)
  /\ UNCHANGED <<poolVars, loopVars, stopRequested, envVars>>

\* Nothing is pending: the loop raises the stop flag itself.
DrainDone ==
  /\ Goes("drain", "cleanup")
  /\ stopRequested' = TRUE
  /\ UNCHANGED <<odpVars, poolVars, loopVars, envVars>>

CleanupBuffer ==
  /\ Goes("cleanup", "exited")
  /\ ownBuffer' = FALSE
  /\ UNCHANGED <<odpVars, poolVars, requestCounter, ownRequests, stopRequested,
                 envVars>>

StreamingReadLoop ==
  \/ ClaimRequest \/ FilesDone \/ PassGate \/ LeaveGate \/ WaitForPendingCapacity
  \/ TakeBuffer \/ WaitForBuffer \/ UseOwnBuffer
  \/ ReadBlock \/ ReadFails \/ FillSlot \/ DrainDone \/ CleanupBuffer

-----------------------------------------------------------------------------
(* The output thread, and the device behind the listener.                  *)

SendStopped == ownerPc \notin {"idle", "running"}
Delivering == slotBlock[nextOutputSlot]

\* Send puts a pool block on the descriptor queue; when that queue is full
\* the block is copied, when sending has been stopped it may be dropped, and
\* either way it goes back to the pool.  Any other block is copied or dropped.
DeliverBlock ==
  /\ OutputDeliver
  /\ \/ /\ FromPool(Delivering)
        /\ deviceHolds < DeviceBlocks
        /\ deviceHolds' = deviceHolds + 1
        /\ UNCHANGED poolVars
     \/ /\ FromPool(Delivering)
        /\ deviceHolds = DeviceBlocks \/ SendStopped
        /\ ReleaseBlock
        /\ UNCHANGED deviceHolds
     \/ /\ ~FromPool(Delivering)
        /\ UNCHANGED <<poolVars, deviceHolds>>
  /\ UNCHANGED <<loopVars, producerPc, stopRequested, ownerPc>>

Output == \/ DeliverBlock
          \/ /\ OutputTake \/ OutputClear \/ OutputAdvance \/ OutputExit
             /\ UNCHANGED <<poolVars, loopVars, producerPc, stopRequested, envVars>>

DeviceRelease ==
  /\ deviceHolds > 0
  /\ deviceHolds' = deviceHolds - 1
  /\ ReleaseBlock
  /\ UNCHANGED <<odpVars, loopVars, producerPc, stopRequested, ownerPc>>

-----------------------------------------------------------------------------
(* The owner.                                                              *)

OwnerGoes(from, to) == ownerPc = from /\ ownerPc' = to

Start ==
  /\ OwnerGoes("idle", "running")
  /\ StartProcessing
  /\ producerPc' = "next"
  /\ ownBuffer' = TRUE
  /\ UNCHANGED <<poolVars, requestCounter, ownRequests, stopRequested, deviceHolds>>

RequestStop ==
  /\ OwnerGoes("running", "notify")
  /\ stopRequested' = TRUE
  /\ UNCHANGED <<odpVars, poolVars, loopVars, producerPc, deviceHolds>>

\* Of the three notifications only the pool's has a listener in this mode.
NotifyStop ==
  /\ OwnerGoes("notify", "join")
  /\ NotifyAll
  /\ UNCHANGED <<odpVars, loopVars, producerPc, stopRequested, deviceHolds>>

JoinProducer ==
  /\ OwnerGoes("join", "stopOutput")
  /\ Goes("exited", "none")
  /\ UNCHANGED <<odpVars, poolVars, loopVars, stopRequested, deviceHolds>>

StopOutput ==
  /\ OwnerGoes("stopOutput", "joinOutput")
  /\ RequestStopProcessing
  /\ UNCHANGED <<poolVars, loopVars, producerPc, stopRequested, deviceHolds>>

JoinOutput ==
  /\ OwnerGoes("joinOutput", "stopped")
  /\ JoinOutputThread
  /\ UNCHANGED <<poolVars, loopVars, producerPc, stopRequested, deviceHolds>>

\* The device is stopped and drained before the reader is reset for the next
\* start.
Reset ==
  /\ OwnerGoes("stopped", "idle")
  /\ deviceHolds = 0
  /\ ResetProcessor
  /\ ResetPool
  /\ requestCounter' = 0
  /\ ownRequests' = {}
  /\ stopRequested' = FALSE
  /\ UNCHANGED <<producerPc, ownBuffer, deviceHolds>>

Stopping == NotifyStop \/ JoinProducer \/ StopOutput \/ JoinOutput

-----------------------------------------------------------------------------
Next == \/ StreamingReadLoop
        \/ Output \/ DeviceRelease
        \/ Start \/ RequestStop \/ Stopping \/ Reset

\* Threads that can go on do, an owner who has begun to stop goes on, and the
\* device writes out what it holds.  The user need not start or stop anything.
Fairness == /\ WF_vars(StreamingReadLoop)
            /\ WF_vars(Output)
            /\ WF_vars(DeviceRelease)
            /\ WF_vars(Stopping)

Spec == Init /\ [][Next]_vars /\ Fairness

-----------------------------------------------------------------------------
(* Properties.                                                             *)

TypeOK ==
  /\ slotFilled \in [Slots -> BOOLEAN]
  /\ slotBlock \in [Slots -> Requests \union {NoBlock}]
  /\ nextOutputSlot \in Slots
  /\ stopThread \in BOOLEAN
  /\ outPc \in OutputPcs
  /\ delivered \in Seq(Requests)
  /\ freeBlocks \in 0 .. PoolBlocks
  /\ poolWait \in [PoolUsers -> PoolWaits]
  /\ requestCounter \in 0 .. MaxRequests
  /\ producerPc \in ProducerPcs
  /\ ownBuffer \in BOOLEAN
  /\ ownRequests \in SUBSET Requests
  /\ stopRequested \in BOOLEAN
  /\ deviceHolds \in 0 .. DeviceBlocks
  /\ ownerPc \in OwnerPcs

\* The streaming reader follows the protocol that OrderedRead describes, with
\* one request at a time past the gate.
OR == INSTANCE OrderedRead WITH
  atGate <- producerPc = "gate",
  reading <- IF producerPc \in {"capacity", "acquire", "read"} THEN {Claimed} ELSE {},
  storing <- IF producerPc = "store" THEN {Claimed} ELSE {}

ImplementsOrderedRead == OR!SafeSpec

\* Every pool block is in one place: free, with the loop, in a filled slot not
\* yet handed over, or with the device; a block in the loop's own buffer is
\* never released to the pool.
Held == IF producerPc \in {"read", "store"} /\ FromPool(Claimed) THEN 1 ELSE 0
PoolSlots == {s \in Slots : /\ slotFilled[s] /\ FromPool(slotBlock[s])
                            /\ ~(s = nextOutputSlot /\ outPc = "clear")}
BlocksConserved == freeBlocks + deviceHolds + Held + Cardinality(PoolSlots) = PoolBlocks

\* The loop has one buffer of its own and does not wait until the listener is
\* done with it.  It never overwrites a block there, because it is used for
\* the last request of a stopped session only.
OwnBufferUsedOnce == \A r \in ownRequests : stopRequested /\ r = Claimed

\* A stop completes, from every state it may be asked for in.  (In worker
\* mode it does not; see PosixReader.)
StopCompletes == ownerPc = "notify" ~> ownerPc = "stopped"

\* Not so: the block the listener is being given is in a pool buffer, as the
\* design of the reader has it, or at least in memory still allocated.
DeliversLiveBlock == outPc = "deliver" => FromPool(Delivering) \/ ownBuffer
=============================================================================
