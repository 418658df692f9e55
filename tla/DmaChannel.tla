------------------------------ MODULE DmaChannel ------------------------------
(***************************************************************************)
(* DmaChannel, the synchronous channel of the Windows build.  It has the   *)
(* copy queue only, and differs from DmaChannelLinux where it matters:     *)
(* Send notifies without passing through the mutex the worker holds        *)
(* between its look at the queue and its sleep; a failed write ends the    *)
(* worker but leaves the state Running, so that the button stops the       *)
(* channel; and Stop cancels the write in progress, if there is one yet.   *)
(*                                                                         *)
(* The sender is MainWindow::InputData on the input's output thread, the   *)
(* owner the user interface.  A block is written in one piece and is       *)
(* numbered within its session.                                            *)
(***************************************************************************)
EXTENDS Naturals, Sequences, SequencesExt

CONSTANTS
  CopyCapacity,  \* blocks m_sendQueue holds
  MaxBlocks      \* bound: blocks sent in one session

VARIABLES
  threadState,  \* m_threadState
  stopFlag,     \* m_stopFlag
  workerPc,     \* where SendData is
  writing,      \* the block in the DMA buffer, a sequence of at most one
  sendQueue,    \* m_sendQueue
  senderPc,     \* where the sender is in InputData and Send
  sendStopped,  \* m_bStopSendData
  ownerPc,      \* where the owner is
  accepted,     \* history: the blocks queued by Send, in order
  written,      \* history: the blocks written to the device, in order
  missed        \* history: the sleeping worker has missed a notification

historyVars == <<accepted, written>>
workerVars == <<workerPc, writing, missed>>
ownerVars == <<threadState, stopFlag, sendStopped, ownerPc>>
vars == <<sendQueue, historyVars, workerVars, ownerVars, senderPc>>

Blocks == 1 .. MaxBlocks

Init == /\ threadState = "NotStarted"
        /\ stopFlag = FALSE
        /\ workerPc = "none"
        /\ writing = <<>>
        /\ sendQueue = <<>>
        /\ senderPc = "none"
        /\ sendStopped = FALSE
        /\ ownerPc = "idle"
        /\ accepted = <<>> /\ written = <<>>
        /\ missed = FALSE

-----------------------------------------------------------------------------
(* The sender.                                                             *)

TakeBlock ==
  /\ senderPc = "idle" /\ senderPc' = "send"
  /\ ownerPc = "running"
  /\ Len(accepted) + 1 \in Blocks
  /\ UNCHANGED <<sendQueue, historyVars, workerVars, ownerVars>>

\* PutFixedLength takes the block.
QueueBlock ==
  /\ senderPc = "send" /\ senderPc' = "queued"
  /\ threadState = "Running"
  /\ Len(sendQueue) < CopyCapacity
  /\ sendQueue' = Append(sendQueue, Len(accepted) + 1)
  /\ accepted' = Append(accepted, Len(accepted) + 1)
  /\ UNCHANGED <<written, workerVars, ownerVars>>

Awake(pc) == IF pc = "asleep" THEN "loop" ELSE pc

\* Mutant of NotifyWorker: Send does not notify.
SendWithoutNotify ==
  /\ senderPc = "queued" /\ senderPc' = "idle"
  /\ UNCHANGED <<sendQueue, historyVars, workerVars, ownerVars>>

\* A worker that has looked at the queue and does not sleep yet is not woken.
NotifyWorker ==
  /\ senderPc = "queued" /\ senderPc' = "idle"
  /\ workerPc' = Awake(workerPc)
  /\ missed' = (workerPc = "checked")
  /\ UNCHANGED <<sendQueue, historyVars, ownerVars, writing>>

\* The queue is full or the channel does not run; once sending is stopped
\* InputData no longer tries again.
GiveUp ==
  /\ senderPc = "send" /\ senderPc' = "idle"
  /\ sendStopped
  /\ threadState # "Running" \/ Len(sendQueue) = CopyCapacity
  /\ UNCHANGED <<sendQueue, historyVars, workerVars, ownerVars>>

Sender == TakeBlock \/ QueueBlock \/ NotifyWorker \/ GiveUp

-----------------------------------------------------------------------------
(* SendData.                                                               *)

WorkerGoes(from, to) == workerPc = from /\ workerPc' = to

WorkerExits ==
  /\ WorkerGoes("loop", "exited")
  /\ stopFlag
  /\ UNCHANGED <<sendQueue, historyVars, ownerVars, senderPc, writing, missed>>

\* The predicate of the wait, under the mutex, and the sleep.
WaitForData ==
  /\ \/ WorkerGoes("loop", "checked") /\ sendQueue = <<>> /\ ~stopFlag
     \/ WorkerGoes("checked", "asleep")
  /\ UNCHANGED <<sendQueue, historyVars, ownerVars, senderPc, writing, missed>>

\* Get, into the DMA buffer.
FetchBlock ==
  /\ WorkerGoes("loop", "fetched")
  /\ sendQueue # <<>> /\ ~stopFlag
  /\ writing' = <<Head(sendQueue)>>
  /\ sendQueue' = Tail(sendQueue)
  /\ missed' = FALSE
  /\ UNCHANGED <<historyVars, ownerVars, senderPc>>

BeginWrite ==
  /\ WorkerGoes("fetched", "write")
  /\ UNCHANGED <<sendQueue, historyVars, ownerVars, senderPc, writing, missed>>

WriteSucceeds ==
  /\ WorkerGoes("write", "loop")
  /\ written' = written \o writing
  /\ writing' = <<>>
  /\ UNCHANGED <<sendQueue, accepted, ownerVars, senderPc, missed>>

\* WriteFile fails, by itself or because it was cancelled.
WriteFails ==
  /\ WorkerGoes("write", "exited")
  /\ writing' = <<>>
  /\ UNCHANGED <<sendQueue, historyVars, ownerVars, senderPc, missed>>

Worker == \/ WorkerExits \/ WaitForData \/ FetchBlock \/ BeginWrite
          \/ WriteSucceeds \/ WriteFails

-----------------------------------------------------------------------------
(* The owner.                                                              *)

OwnerGoes(from, to) == ownerPc = from /\ ownerPc' = to

\* The start button: reset, start the channel, start the input.
StartTransfer ==
  /\ OwnerGoes("idle", "running")
  /\ threadState' = "Running"
  /\ stopFlag' = FALSE /\ sendStopped' = FALSE
  /\ workerPc' = "loop" /\ senderPc' = "idle"
  /\ sendQueue' = <<>>
  /\ accepted' = <<>> /\ written' = <<>>
  /\ missed' = FALSE
  /\ UNCHANGED writing

StopTransfer ==
  /\ OwnerGoes("running", "joinInput")
  /\ sendStopped' = TRUE
  /\ UNCHANGED <<sendQueue, historyVars, workerVars, senderPc, threadState, stopFlag>>

\* The input's Stop joins the output thread, between two blocks.
JoinInput ==
  /\ OwnerGoes("joinInput", "raise")
  /\ senderPc = "idle" /\ senderPc' = "none"
  /\ UNCHANGED <<sendQueue, historyVars, workerVars, threadState, stopFlag, sendStopped>>

RaiseStop ==
  /\ OwnerGoes("raise", "cancel")
  /\ stopFlag' = TRUE
  /\ UNCHANGED <<sendQueue, historyVars, workerVars, senderPc, threadState, sendStopped>>

\* CancelIoEx: a write in progress fails, unless it is completing; one that has
\* not begun is not affected.
CancelWrite ==
  /\ OwnerGoes("cancel", "notify")
  /\ \/ /\ WorkerGoes("write", "exited") /\ writing' = <<>>
     \/ UNCHANGED <<workerPc, writing>>
  /\ UNCHANGED <<sendQueue, historyVars, senderPc, threadState, stopFlag, sendStopped,
                 missed>>

NotifyStop ==
  /\ OwnerGoes("notify", "join")
  /\ workerPc' = Awake(workerPc)
  /\ threadState' = "Stopping"
  /\ UNCHANGED <<sendQueue, historyVars, senderPc, writing, missed, stopFlag, sendStopped>>

JoinWorker ==
  /\ OwnerGoes("join", "idle")
  /\ WorkerGoes("exited", "none")
  /\ threadState' = "Stopped"
  /\ UNCHANGED <<sendQueue, historyVars, senderPc, writing, missed, stopFlag, sendStopped>>

Stopping == JoinInput \/ RaiseStop \/ CancelWrite \/ NotifyStop \/ JoinWorker

-----------------------------------------------------------------------------
Next == Sender \/ Worker \/ StartTransfer \/ StopTransfer \/ Stopping

Fairness == WF_vars(Sender) /\ WF_vars(Worker)

Spec == Init /\ [][Next]_vars /\ Fairness

-----------------------------------------------------------------------------
(* Properties.                                                             *)

TypeOK ==
  /\ threadState \in {"NotStarted", "Running", "Stopping", "Stopped"}
  /\ stopFlag \in BOOLEAN
  /\ workerPc \in {"none", "loop", "checked", "asleep", "fetched", "write", "exited"}
  /\ writing \in Seq(Blocks)
  /\ Len(writing) = IF workerPc \in {"fetched", "write"} THEN 1 ELSE 0
  /\ sendQueue \in Seq(Blocks) /\ Len(sendQueue) <= CopyCapacity
  /\ senderPc \in {"none", "idle", "send", "queued"}
  /\ sendStopped \in BOOLEAN
  /\ ownerPc \in {"idle", "running", "joinInput", "raise", "cancel", "notify", "join"}
  /\ accepted \in Seq(Blocks) /\ written \in Seq(Blocks)
  /\ missed \in BOOLEAN

\* The device gets the blocks of a session in the order in which Send accepted
\* them, with no gap, no repetition and none of an earlier session.
InOrder ==
  /\ IsPrefix(written, accepted)
  /\ \A i \in 1 .. Len(written) : written[i] = i

\* And each is written unless the channel is stopped, a write fails, or the worker
\* missed the notification on its way to sleep: then what is queued waits for the
\* next Send.
Delivers ==
  /\ []InOrder
  /\ \A n \in Blocks :
       n <= Len(accepted) ~> n <= Len(written) \/ workerPc = "exited" \/ stopFlag
                             \/ sendStopped \/ (missed /\ workerPc \in {"checked", "asleep"})
=============================================================================
