--------------------------- MODULE DmaChannelLinux ---------------------------
(***************************************************************************)
(* DmaChannelLinux between the listener that sends blocks and the XDMA     *)
(* device file.  Send puts a pool block on the descriptor queue, and any   *)
(* other block, or a pool block when that queue is full, on the copy       *)
(* queue.  The worker thread waits for data under data_mutex_ and prefers  *)
(* the descriptor queue.  A failed write ends the worker in state Error.   *)
(*                                                                         *)
(* The sender is MainWindow::InputData on the input's output thread, which *)
(* repeats a failed Send until sending is stopped.  The owner is the user  *)
(* interface.  Blocks are numbered in sending order and a copied block is  *)
(* written in one piece; pool blocks are interchangeable and counted.      *)
(***************************************************************************)
EXTENDS Integers, Sequences, SequencesExt

CONSTANTS
  DescCapacity,  \* descriptors desc_queue_ holds
  CopyCapacity,  \* blocks send_queue_ holds
  PoolBlocks,    \* blocks in the input's pool
  MaxBlocks      \* bound: blocks sent in one session

ASSUME QueuesAssumption == /\ DescCapacity \in Nat \ {0}
                           /\ CopyCapacity \in Nat \ {0}
ASSUME PoolBlocksAssumption == PoolBlocks \in Nat \ {0}
ASSUME MaxBlocksAssumption == MaxBlocks \in Nat

VARIABLES
  threadState,  \* thread_state_
  stopFlag,     \* stop_flag_
  workerPc,     \* where SendThreadFunc is
  writing,      \* what the worker has taken, a sequence of at most one entry
  descQueue,    \* desc_queue_
  copyQueue,    \* send_queue_
  usesPool,     \* buffer_pool_ is set: the blocks come from a pool
  freeBlocks,   \* blocks free in that pool
  senderPc,     \* where the sender is in InputData and Send
  sendStopped,  \* m_bStopSendData
  accepted,     \* history: the blocks queued by Send on each path, in order
  written,      \* history: the blocks of each path written, in order
  ownerPc       \* where the owner is

queueVars == <<descQueue, copyQueue>>
historyVars == <<accepted, written>>
workerVars == <<threadState, workerPc, writing>>
ownerVars == <<stopFlag, usesPool, sendStopped, ownerPc>>
channelVars == <<queueVars, historyVars, workerVars, ownerVars, freeBlocks, senderPc>>

Blocks == 1 .. MaxBlocks
Paths == {"descriptor", "copy"}
Entries == [block : Blocks, path : Paths]

\* Neither path has seen a block.
Nothing == [p \in Paths |-> <<>>]

ThreadStates == {"NotStarted", "Running", "Stopped", "Error"}
WorkerPcs == {"none", "loop", "checked", "asleep", "write", "exited"}
SenderPcs == {"none", "idle", "send", "queued", "failed"}
OwnerPcs == {"idle", "running", "joinInput", "raise", "notify", "join", "terminated"}

ChannelInit ==
  /\ threadState = "NotStarted"
  /\ stopFlag = FALSE
  /\ workerPc = "none"
  /\ writing = <<>>
  /\ descQueue = <<>> /\ copyQueue = <<>>
  /\ usesPool = FALSE
  /\ freeBlocks = PoolBlocks
  /\ senderPc = "none"
  /\ sendStopped = FALSE
  /\ accepted = Nothing /\ written = Nothing
  /\ ownerPc = "idle"

-----------------------------------------------------------------------------
(* The sender.                                                             *)

\* The block in the sender's hands comes after those accepted.
Sending == Len(accepted["descriptor"]) + Len(accepted["copy"]) + 1

\* InputData is called with the next block, which holds a pool block.
TakeBlock ==
  /\ senderPc = "idle"
  /\ ownerPc = "running"
  /\ Sending \in Blocks
  /\ usesPool => freeBlocks > 0
  /\ freeBlocks' = IF usesPool THEN freeBlocks - 1 ELSE freeBlocks
  /\ senderPc' = "send"
  /\ UNCHANGED <<queueVars, historyVars, workerVars, ownerVars>>

\* The block in the sender's hands is accepted on this path.
Accept(path) == accepted' = [accepted EXCEPT ![path] = Append(@, Sending)]

\* Mutant of PutDescriptor: the queue takes one descriptor too many.
PutDescriptorOneTooMany ==
  /\ usesPool
  /\ Len(descQueue) <= DescCapacity
  /\ descQueue' = Append(descQueue, Sending)
  /\ Accept("descriptor")
  /\ UNCHANGED <<copyQueue, freeBlocks>>

PutDescriptor ==
  /\ usesPool
  /\ Len(descQueue) < DescCapacity
  /\ descQueue' = Append(descQueue, Sending)
  /\ Accept("descriptor")
  /\ UNCHANGED <<copyQueue, freeBlocks>>

\* A copied pool block is released at once.
PutCopy ==
  /\ usesPool => Len(descQueue) = DescCapacity
  /\ Len(copyQueue) < CopyCapacity
  /\ copyQueue' = Append(copyQueue, Sending)
  /\ Accept("copy")
  /\ freeBlocks' = IF usesPool THEN freeBlocks + 1 ELSE freeBlocks
  /\ UNCHANGED descQueue

QueueBlock ==
  /\ senderPc = "send"
  /\ threadState = "Running"
  /\ PutDescriptor \/ PutCopy
  /\ senderPc' = "queued"
  /\ UNCHANGED <<written, workerVars, ownerVars>>

SendFails ==
  /\ senderPc = "send"
  /\ \/ threadState # "Running"
     \/ /\ usesPool => Len(descQueue) = DescCapacity
        /\ Len(copyQueue) = CopyCapacity
  /\ senderPc' = "failed"
  /\ UNCHANGED <<queueVars, historyVars, workerVars, ownerVars, freeBlocks>>

\* A worker that has found no data holds data_mutex_ until it sleeps.
DataMutexFree == workerPc # "checked"

Awake(pc) == IF pc = "asleep" THEN "loop" ELSE pc

\* Mutant of NotifyWorker: Send does not pass through data_mutex_.
NotifyWithoutMutex ==
  /\ senderPc = "queued"
  /\ workerPc' = Awake(workerPc)
  /\ senderPc' = "idle"
  /\ UNCHANGED <<queueVars, historyVars, ownerVars, freeBlocks, threadState, writing>>

\* The rest of Send: it passes through data_mutex_ before it notifies.
NotifyWorker ==
  /\ senderPc = "queued"
  /\ DataMutexFree
  /\ workerPc' = Awake(workerPc)
  /\ senderPc' = "idle"
  /\ UNCHANGED <<queueVars, historyVars, ownerVars, freeBlocks, threadState, writing>>

\* InputData sends again, unless sending was stopped: then it gives the block
\* back to the pool.
RetryOrGiveUp ==
  /\ senderPc = "failed"
  /\ \/ ~sendStopped /\ senderPc' = "send" /\ UNCHANGED freeBlocks
     \/ /\ sendStopped
        /\ senderPc' = "idle"
        /\ freeBlocks' = IF usesPool THEN freeBlocks + 1 ELSE freeBlocks
  /\ UNCHANGED <<queueVars, historyVars, workerVars, ownerVars>>

Sender == TakeBlock \/ QueueBlock \/ SendFails \/ NotifyWorker \/ RetryOrGiveUp

-----------------------------------------------------------------------------
(* The worker.                                                             *)

HasPendingData == descQueue # <<>> \/ copyQueue # <<>>

\* What the worker takes from a path's queue.
Entry(queue, p) == [block |-> Head(queue), path |-> p]

WorkerExits ==
  /\ workerPc = "loop"
  /\ stopFlag
  /\ workerPc' = "exited"
  /\ UNCHANGED <<queueVars, historyVars, ownerVars, freeBlocks, senderPc, threadState,
                 writing>>

WaitForData ==
  /\ \/ /\ workerPc = "loop" /\ workerPc' = "checked"
        /\ ~stopFlag /\ ~HasPendingData
     \/ workerPc = "checked" /\ workerPc' = "asleep"
  /\ UNCHANGED <<queueVars, historyVars, ownerVars, freeBlocks, senderPc, threadState,
                 writing>>

GetDescriptor ==
  /\ descQueue # <<>>
  /\ writing' = <<Entry(descQueue, "descriptor")>>
  /\ descQueue' = Tail(descQueue)
  /\ UNCHANGED copyQueue

\* Mutant of GetCopy: the entry is read and not consumed.
GetCopyPeeks ==
  /\ descQueue = <<>>
  /\ copyQueue # <<>>
  /\ writing' = <<Entry(copyQueue, "copy")>>
  /\ UNCHANGED <<descQueue, copyQueue>>

GetCopy ==
  /\ descQueue = <<>>
  /\ copyQueue # <<>>
  /\ writing' = <<Entry(copyQueue, "copy")>>
  /\ copyQueue' = Tail(copyQueue)
  /\ UNCHANGED descQueue

FetchBlock ==
  /\ workerPc = "loop"
  /\ ~stopFlag
  /\ GetDescriptor \/ GetCopy
  /\ workerPc' = "write"
  /\ UNCHANGED <<historyVars, ownerVars, freeBlocks, senderPc, threadState>>

\* A descriptor's block goes back to the pool after the write, failed or not.
FreeWritten ==
  freeBlocks' = IF writing[1].path = "descriptor" THEN freeBlocks + 1 ELSE freeBlocks

WriteSucceeds ==
  /\ workerPc = "write"
  /\ FreeWritten
  /\ written' = [written EXCEPT ![writing[1].path] = Append(@, writing[1].block)]
  /\ writing' = <<>>
  /\ workerPc' = "loop"
  /\ UNCHANGED <<queueVars, accepted, ownerVars, senderPc, threadState>>

\* Mutant of WriteFails: the block of a failed write is not released.
WriteFailsKeepsBlock ==
  /\ workerPc = "write"
  /\ writing' = <<>>
  /\ threadState' = "Error"
  /\ workerPc' = "exited"
  /\ UNCHANGED <<queueVars, historyVars, ownerVars, senderPc, freeBlocks>>

WriteFails ==
  /\ workerPc = "write"
  /\ FreeWritten
  /\ writing' = <<>>
  /\ threadState' = "Error"
  /\ workerPc' = "exited"
  /\ UNCHANGED <<queueVars, historyVars, ownerVars, senderPc>>

Worker == WorkerExits \/ WaitForData \/ FetchBlock \/ WriteSucceeds \/ WriteFails

-----------------------------------------------------------------------------
(* The owner.                                                              *)

\* The start button: reset the channel, start it, give it the input's pool
\* or none, start the input.
StartTransfer ==
  /\ ownerPc = "idle" /\ ownerPc' = "running"
  /\ threadState' = "Running"
  /\ stopFlag' = FALSE
  /\ sendStopped' = FALSE
  /\ workerPc' = "loop"
  /\ senderPc' = "idle"
  /\ descQueue' = <<>> /\ copyQueue' = <<>>
  /\ accepted' = Nothing /\ written' = Nothing
  /\ usesPool' \in BOOLEAN
  /\ freeBlocks' = PoolBlocks
  /\ UNCHANGED writing

\* The same button after a failed write: the channel is not Running, so it is
\* started, and its worker's std::thread, ended but not joined, is assigned to.
StartAfterError ==
  /\ ownerPc = "running" /\ ownerPc' = "terminated"
  /\ threadState = "Error"
  /\ UNCHANGED <<queueVars, historyVars, workerVars, freeBlocks, senderPc, stopFlag,
                 usesPool, sendStopped>>

OwnerGoes(from, to) == ownerPc = from /\ ownerPc' = to

\* The stop button, or the device is closed.
StopTransfer ==
  /\ OwnerGoes("running", "joinInput")
  /\ sendStopped' = TRUE
  /\ UNCHANGED <<queueVars, historyVars, workerVars, freeBlocks, senderPc, stopFlag,
                 usesPool>>

\* The input's Stop joins the output thread, between two blocks.
JoinInput ==
  /\ OwnerGoes("joinInput", "raise")
  /\ senderPc = "idle" /\ senderPc' = "none"
  /\ UNCHANGED <<queueVars, historyVars, workerVars, freeBlocks, stopFlag, usesPool,
                 sendStopped>>

\* Stop raises the flag and notifies without data_mutex_.
RaiseStop ==
  /\ OwnerGoes("raise", "notify")
  /\ stopFlag' = TRUE
  /\ UNCHANGED <<queueVars, historyVars, workerVars, freeBlocks, senderPc, usesPool,
                 sendStopped>>

NotifyStop ==
  /\ OwnerGoes("notify", "join")
  /\ workerPc' = Awake(workerPc)
  /\ UNCHANGED <<queueVars, historyVars, threadState, writing, freeBlocks, senderPc,
                 stopFlag, usesPool, sendStopped>>

\* Mutant of JoinAndDrain: the descriptors left over stay queued.
JoinWithoutDrain ==
  /\ OwnerGoes("join", "idle")
  /\ workerPc = "exited" /\ workerPc' = "none"
  /\ threadState' = "Stopped"
  /\ UNCHANGED <<descQueue, copyQueue, freeBlocks, historyVars, writing, senderPc,
                 stopFlag, usesPool, sendStopped>>

\* The worker is joined and the descriptors left over are given back.
JoinAndDrain ==
  /\ OwnerGoes("join", "idle")
  /\ workerPc = "exited" /\ workerPc' = "none"
  /\ freeBlocks' = freeBlocks + Len(descQueue)
  /\ descQueue' = <<>>
  /\ threadState' = "Stopped"
  /\ UNCHANGED <<copyQueue, historyVars, writing, senderPc, stopFlag, usesPool,
                 sendStopped>>

Stopping == JoinInput \/ RaiseStop \/ NotifyStop \/ JoinAndDrain

-----------------------------------------------------------------------------
\* A terminated process takes no step.
ChannelNext == /\ ownerPc # "terminated"
        /\ \/ Sender \/ Worker
           \/ StartTransfer \/ StartAfterError \/ StopTransfer \/ Stopping

ChannelFairness == WF_channelVars(ownerPc # "terminated" /\ Sender)
              /\ WF_channelVars(ownerPc # "terminated" /\ Worker)

ChannelSpec == ChannelInit /\ [][ChannelNext]_channelVars /\ ChannelFairness

-----------------------------------------------------------------------------
(* Properties.                                                             *)

ChannelTypeOK ==
  /\ threadState \in ThreadStates
  /\ stopFlag \in BOOLEAN
  /\ workerPc \in WorkerPcs
  /\ writing \in Seq(Entries) /\ Len(writing) = IF workerPc = "write" THEN 1 ELSE 0
  /\ descQueue \in Seq(Blocks) /\ Len(descQueue) <= DescCapacity
  /\ copyQueue \in Seq(Blocks) /\ Len(copyQueue) <= CopyCapacity
  /\ usesPool \in BOOLEAN
  /\ freeBlocks \in 0 .. PoolBlocks
  /\ senderPc \in SenderPcs
  /\ sendStopped \in BOOLEAN
  /\ accepted \in [Paths -> Seq(Blocks)]
  /\ written \in [Paths -> Seq(Blocks)]
  /\ ownerPc \in OwnerPcs

\* Every pool block is free, with the sender, on the descriptor queue or being
\* written: none is lost, and none is given back twice, when a Send fails, a
\* queue is full, a write fails, sending stops or the channel is stopped.
WithSender == IF usesPool /\ senderPc \in {"send", "failed"} THEN 1 ELSE 0
BeingWritten == IF workerPc = "write" /\ writing[1].path = "descriptor" THEN 1 ELSE 0
BlocksConserved ==
  freeBlocks + WithSender + Len(descQueue) + BeingWritten = PoolBlocks

\* On each of the two paths the device gets the blocks in the order in which
\* Send accepted them, with no gap and no repetition; a stop or an error cuts
\* the end off.  Across the paths it does not hold: a block that had to be
\* copied is overtaken by later descriptors, so that the order of all blocks
\* depends on a descriptor queue at least as large as the pool.
PathsInOrder == \A p \in Paths : IsPrefix(written[p], accepted[p])

\* An accepted block is written, unless the channel fails or is stopped: the
\* worker never sleeps while a block is queued.
AcceptedIsWritten ==
  \A n \in Blocks :
    n < Sending ~> (\/ \E p \in Paths : \E i \in 1 .. Len(written[p]) : written[p][i] = n
                    \/ threadState # "Running" \/ stopFlag \/ sendStopped)

\* Once the channel is stopped it holds no pool block and has no thread.
StoppedIsClean ==
  threadState = "Stopped" => /\ descQueue = <<>> /\ writing = <<>>
                             /\ workerPc = "none" /\ senderPc = "none"
                             /\ freeBlocks = PoolBlocks

\* Not so: the button that stops a transfer never ends the program.
NeverTerminates == ownerPc # "terminated"
=============================================================================
