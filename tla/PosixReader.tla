----------------------------- MODULE PosixReader -----------------------------
(***************************************************************************)
(* CInputDataFromFileUsePOSIX with its worker threads (the streaming mode  *)
(* is another module).  The producer thread numbers the blocks of the      *)
(* files, waits at the slot gate, waits until fewer than SoftLimit reads   *)
(* are pending and queues a task.  A worker takes a task, takes a buffer   *)
(* from the pool, reads and calls ProcessData.  The output thread hands    *)
(* the buffers, in order, to the device, which returns them to the pool.   *)
(* The owner is the user-interface thread that starts and stops sessions.  *)
(*                                                                         *)
(* A condition variable's wait is three places: the condition is evaluated *)
(* under the mutex, then the thread sleeps, then it is woken.  A notify    *)
(* that does not take the mutex may fall between the first two.            *)
(***************************************************************************)
EXTENDS OrderedDataProcessor, AlignedBufferPool, SequencesExt

CONSTANTS
  Workers,       \* worker_threads_
  SoftLimit,     \* soft_limit of pending tasks
  MaxRequests,   \* bound: blocks in the files of a session
  DeviceBlocks   \* blocks the device may hold by descriptor

ASSUME MaxRequestsAssumption == MaxRequests \in Nat
ASSUME SoftLimitAssumption == SoftLimit \in 1 .. (TotalSlots - 1)
ASSUME DeviceBlocksAssumption == DeviceBlocks \in Nat
ASSUME WorkersAssumption == IsFiniteSet(Workers) /\ PoolUsers = Workers

VARIABLES
  requestCounter,  \* global_request_counter_
  producerPc,      \* where ProducerThread is
  taskQueue,       \* task_queue_, by request number
  pendingTasks,    \* pending_tasks_
  workerPc,        \* where each WorkerThread is
  workerTask,      \* the request a worker works on, or NoBlock
  stopRequested,   \* stop_requested_
  readFailed,      \* history: a read of this session gave no data
  deviceHolds,     \* pool blocks the device has and will release
  ownerPc          \* where the owner is

readerVars == <<requestCounter, producerPc, taskQueue, pendingTasks, workerPc,
                workerTask, stopRequested, readFailed>>
envVars == <<deviceHolds, ownerPc>>
vars == <<odpVars, poolVars, readerVars, envVars>>

Requests == 0 .. (MaxRequests - 1)
Claimed == requestCounter - 1

\* "capChecked" and "checked": the condition was false, not yet asleep.
ProducerPcs == {"none", "next", "gate", "capacity", "capChecked", "capAsleep",
                "capWoken", "enqueue", "drain", "lastNotify", "exited"}
WorkerPcs == {"none", "wait", "checked", "asleep", "acquire", "read", "store",
              "finish", "exited"}
OwnerPcs == {"idle", "running", "notify", "join", "stopOutput", "joinOutput",
             "stopped"}

BusyPcs == {"acquire", "read", "store", "finish"}
Busy == {w \in Workers : workerPc[w] \in BusyPcs}
\* Workers that hold a pool block they have not put in a slot.
Holding == {w \in Workers : workerPc[w] \in {"read", "store"}}

Init == /\ ODPInit /\ PoolInit
        /\ requestCounter = 0
        /\ producerPc = "none"
        /\ taskQueue = <<>>
        /\ pendingTasks = 0
        /\ workerPc = [w \in Workers |-> "none"]
        /\ workerTask = [w \in Workers |-> NoBlock]
        /\ stopRequested = FALSE
        /\ readFailed = FALSE
        /\ deviceHolds = 0
        /\ ownerPc = "idle"

ProducerGoes(from, to) == producerPc = from /\ producerPc' = to
WorkerGoes(w, from, to) == /\ workerPc[w] = from
                           /\ workerPc' = [workerPc EXCEPT ![w] = to]

\* A worker that has evaluated its condition holds task_mutex_ until it sleeps.
TaskMutexFree == \A w \in Workers : workerPc[w] # "checked"
TaskSleepers == {w \in Workers : workerPc[w] = "asleep"}

-----------------------------------------------------------------------------
(* ProducerThread.                                                         *)

ClaimRequest ==
  /\ ProducerGoes("next", "gate")
  /\ ~stopRequested
  /\ requestCounter < MaxRequests
  /\ requestCounter' = requestCounter + 1
  /\ UNCHANGED <<odpVars, poolVars, taskQueue, pendingTasks, workerPc,
                 workerTask, stopRequested, readFailed, envVars>>

\* The files end, at any block, or a stop ends the loops.
FilesDone ==
  /\ ProducerGoes("next", "drain")
  /\ UNCHANGED <<odpVars, poolVars, requestCounter, taskQueue, pendingTasks,
                 workerPc, workerTask, stopRequested, readFailed, envVars>>

\* Mutant of GateOpen: the gate is left out.
NoGate == TRUE

GateOpen == Claimed = 0 \/ SlotOf(Claimed) # nextOutputSlot

PassGate ==
  /\ ProducerGoes("gate", "capacity")
  /\ ~stopRequested
  /\ GateOpen
  /\ UNCHANGED <<odpVars, poolVars, requestCounter, taskQueue, pendingTasks,
                 workerPc, workerTask, stopRequested, readFailed, envVars>>

\* A stop ends the wait at the gate, and then every loop.
LeaveGate ==
  /\ ProducerGoes("gate", "drain")
  /\ stopRequested
  /\ UNCHANGED <<odpVars, poolVars, requestCounter, taskQueue, pendingTasks,
                 workerPc, workerTask, stopRequested, readFailed, envVars>>

\* Mutant of HasCapacity: one pending task too many.
HasCapacityOneTooMany == pendingTasks <= SoftLimit

HasCapacity == pendingTasks < SoftLimit

\* WaitForPendingCapacity: the loop looks at the stop flag before the count,
\* but a woken thread looks at the count first.
WaitForPendingCapacity ==
  /\ \/ ProducerGoes("capacity", "enqueue") /\ ~stopRequested /\ HasCapacity
     \/ ProducerGoes("capacity", "capChecked") /\ ~stopRequested /\ ~HasCapacity
     \/ ProducerGoes("capacity", "drain") /\ stopRequested
     \/ ProducerGoes("capChecked", "capAsleep")
     \/ ProducerGoes("capWoken", "enqueue") /\ HasCapacity
     \/ ProducerGoes("capWoken", "capChecked") /\ ~HasCapacity /\ ~stopRequested
     \/ ProducerGoes("capWoken", "drain") /\ ~HasCapacity /\ stopRequested
  /\ UNCHANGED <<odpVars, poolVars, requestCounter, taskQueue, pendingTasks,
                 workerPc, workerTask, stopRequested, readFailed, envVars>>

\* The task is pushed and counted under task_mutex_; notify_one follows, and
\* cannot fall between a worker's condition and its sleep.
EnqueueTask ==
  /\ ProducerGoes("enqueue", "next")
  /\ TaskMutexFree
  /\ taskQueue' = Append(taskQueue, Claimed)
  /\ pendingTasks' = pendingTasks + 1
  /\ IF TaskSleepers = {}
       THEN UNCHANGED workerPc
       ELSE \E w \in TaskSleepers : workerPc' = [workerPc EXCEPT ![w] = "wait"]
  /\ UNCHANGED <<odpVars, poolVars, requestCounter, workerTask, stopRequested,
                 readFailed, envVars>>

\* Mutant of DrainDone: the producer does not wait for the pending reads.
DrainDoneAtOnce ==
  /\ ProducerGoes("drain", "lastNotify")
  /\ stopRequested' = TRUE
  /\ UNCHANGED <<odpVars, poolVars, requestCounter, taskQueue, pendingTasks,
                 workerPc, workerTask, readFailed, envVars>>

\* No read is pending, or a stop: the producer itself tells the workers.
DrainDone ==
  /\ ProducerGoes("drain", "lastNotify")
  /\ pendingTasks = 0 \/ stopRequested
  /\ stopRequested' = TRUE
  /\ UNCHANGED <<odpVars, poolVars, requestCounter, taskQueue, pendingTasks,
                 workerPc, workerTask, readFailed, envVars>>

WakeAllWorkers ==
  workerPc' = [w \in Workers |-> IF w \in TaskSleepers THEN "wait" ELSE workerPc[w]]

LastNotify ==
  /\ ProducerGoes("lastNotify", "exited")
  /\ WakeAllWorkers
  /\ UNCHANGED <<odpVars, poolVars, requestCounter, taskQueue, pendingTasks,
                 workerTask, stopRequested, readFailed, envVars>>

Producer == \/ ClaimRequest \/ FilesDone \/ PassGate \/ LeaveGate
            \/ WaitForPendingCapacity \/ EnqueueTask \/ DrainDone \/ LastNotify

-----------------------------------------------------------------------------
(* WorkerThread w.                                                         *)

TakeTask(w) ==
  /\ WorkerGoes(w, "wait", "acquire")
  /\ TaskMutexFree
  /\ taskQueue # <<>>
  /\ workerTask' = [workerTask EXCEPT ![w] = Head(taskQueue)]
  /\ taskQueue' = Tail(taskQueue)
  /\ UNCHANGED <<odpVars, poolVars, requestCounter, producerPc, pendingTasks,
                 stopRequested, readFailed, envVars>>

\* No task: wait for one, or leave after a stop.
WaitForTask(w) ==
  /\ \/ /\ \/ WorkerGoes(w, "wait", "checked") /\ ~stopRequested
           \/ WorkerGoes(w, "wait", "exited") /\ stopRequested
        /\ TaskMutexFree
        /\ taskQueue = <<>>
     \/ WorkerGoes(w, "checked", "asleep")
  /\ UNCHANGED <<odpVars, poolVars, requestCounter, producerPc, taskQueue,
                 pendingTasks, workerTask, stopRequested, readFailed, envVars>>

TakeBuffer(w) ==
  /\ WorkerGoes(w, "acquire", "read")
  /\ AcquireBlock(w, stopRequested)
  /\ UNCHANGED <<odpVars, requestCounter, producerPc, taskQueue, pendingTasks,
                 workerTask, stopRequested, readFailed, envVars>>

WaitForBuffer(w) ==
  /\ workerPc[w] = "acquire"
  /\ AcquireCheck(w, stopRequested) \/ AcquireSleep(w)
  /\ UNCHANGED <<odpVars, readerVars, envVars>>

\* A finished task is uncounted, then the producer is told, without the mutex.
NotifyCapacity ==
  /\ pendingTasks' = pendingTasks - 1
  /\ producerPc' = IF producerPc = "capAsleep" THEN "capWoken" ELSE producerPc

\* The worker sees the stop in Acquire, or before it starts to read, and
\* drops its task.
DropTask(w) ==
  /\ stopRequested
  /\ \/ WorkerGoes(w, "acquire", "exited") /\ AcquireStopped(w, stopRequested)
     \/ WorkerGoes(w, "read", "exited") /\ ReleaseBlock
  /\ workerTask' = [workerTask EXCEPT ![w] = NoBlock]
  /\ NotifyCapacity
  /\ UNCHANGED <<odpVars, requestCounter, taskQueue, stopRequested, readFailed,
                 envVars>>

\* Mutant of ReadBlock: the task is uncounted before its slot is filled.
ReadBlockUncounts(w) ==
  /\ WorkerGoes(w, "read", "store")
  /\ StoreBlock(workerTask[w])
  /\ pendingTasks' = pendingTasks - 1
  /\ UNCHANGED <<poolVars, requestCounter, producerPc, taskQueue, workerTask,
                 stopRequested, readFailed, envVars>>

\* The read gives data, and ProcessData stores or refuses it; the buffer of a
\* refused block goes back to the pool.
ReadBlock(w) ==
  /\ WorkerGoes(w, "read", IF Occupied(workerTask[w]) THEN "finish" ELSE "store")
  /\ StoreBlock(workerTask[w])
  /\ IF Occupied(workerTask[w]) THEN ReleaseBlock ELSE UNCHANGED poolVars
  /\ UNCHANGED <<requestCounter, producerPc, taskQueue, pendingTasks,
                 workerTask, stopRequested, readFailed, envVars>>

\* Mutant of ReadFails: the buffer of a failed read is kept.
ReadFailsKeepsBuffer(w) ==
  /\ WorkerGoes(w, "read", "finish")
  /\ readFailed' = TRUE
  /\ UNCHANGED <<odpVars, poolVars, requestCounter, producerPc, taskQueue,
                 pendingTasks, workerTask, stopRequested, envVars>>

\* The read fails or gives nothing: nothing is put in the slot.
ReadFails(w) ==
  /\ WorkerGoes(w, "read", "finish")
  /\ ReleaseBlock
  /\ readFailed' = TRUE
  /\ UNCHANGED <<odpVars, requestCounter, producerPc, taskQueue, pendingTasks,
                 workerTask, stopRequested, envVars>>

FillSlot(w) ==
  /\ WorkerGoes(w, "store", "finish")
  /\ MarkFilled(workerTask[w])
  /\ UNCHANGED <<poolVars, requestCounter, producerPc, taskQueue, pendingTasks,
                 workerTask, stopRequested, readFailed, envVars>>

FinishTask(w) ==
  /\ WorkerGoes(w, "finish", "wait")
  /\ workerTask' = [workerTask EXCEPT ![w] = NoBlock]
  /\ NotifyCapacity
  /\ UNCHANGED <<odpVars, poolVars, requestCounter, taskQueue, stopRequested,
                 readFailed, envVars>>

Worker(w) == \/ TakeTask(w) \/ WaitForTask(w) \/ TakeBuffer(w) \/ WaitForBuffer(w)
             \/ DropTask(w) \/ ReadBlock(w) \/ ReadFails(w)
             \/ FillSlot(w) \/ FinishTask(w)

-----------------------------------------------------------------------------
(* The output thread, and the device behind the listener.                  *)

\* The user interface raises m_bStopSendData as it stops the reader.
SendStopped == ownerPc \notin {"idle", "running"}

\* The listener's Send puts the block on the device's descriptor queue, or,
\* when that queue is full (the block is copied) or sending has been stopped
\* (the block is dropped), the block goes back to the pool at once.
DeliverBlock ==
  /\ OutputDeliver
  /\ \/ /\ deviceHolds < DeviceBlocks
        /\ deviceHolds' = deviceHolds + 1
        /\ UNCHANGED poolVars
     \/ /\ deviceHolds = DeviceBlocks \/ SendStopped
        /\ ReleaseBlock
        /\ UNCHANGED deviceHolds
  /\ UNCHANGED <<readerVars, ownerPc>>

Output == \/ DeliverBlock
          \/ /\ OutputTake \/ OutputClear \/ OutputAdvance \/ OutputExit
             /\ UNCHANGED <<poolVars, readerVars, envVars>>

\* The device has written a block out, or drains its queue when it stops.
DeviceRelease ==
  /\ deviceHolds > 0
  /\ deviceHolds' = deviceHolds - 1
  /\ ReleaseBlock
  /\ UNCHANGED <<odpVars, readerVars, ownerPc>>

-----------------------------------------------------------------------------
(* The owner.                                                              *)

OwnerGoes(from, to) == ownerPc = from /\ ownerPc' = to

Start ==
  /\ OwnerGoes("idle", "running")
  /\ StartProcessing
  /\ producerPc' = "next"
  /\ workerPc' = [w \in Workers |-> "wait"]
  /\ UNCHANGED <<poolVars, requestCounter, taskQueue, pendingTasks, workerTask,
                 stopRequested, readFailed, deviceHolds>>

\* Stop: the user interface stops the listener, the reader raises its flag,
\* notifies everyone without a mutex and joins its threads.
RequestStop ==
  /\ OwnerGoes("running", "notify")
  /\ stopRequested' = TRUE
  /\ UNCHANGED <<odpVars, poolVars, requestCounter, producerPc, taskQueue,
                 pendingTasks, workerPc, workerTask, readFailed, deviceHolds>>

NotifyStop ==
  /\ OwnerGoes("notify", "join")
  /\ WakeAllWorkers
  /\ producerPc' = IF producerPc = "capAsleep" THEN "capWoken" ELSE producerPc
  /\ NotifyAll
  /\ UNCHANGED <<odpVars, requestCounter, taskQueue, pendingTasks, workerTask,
                 stopRequested, readFailed, deviceHolds>>

JoinReaders ==
  /\ OwnerGoes("join", "stopOutput")
  /\ ProducerGoes("exited", "none")
  /\ \A w \in Workers : workerPc[w] = "exited"
  /\ workerPc' = [w \in Workers |-> "none"]
  /\ UNCHANGED <<odpVars, poolVars, requestCounter, taskQueue, pendingTasks,
                 workerTask, stopRequested, readFailed, deviceHolds>>

StopOutput ==
  /\ OwnerGoes("stopOutput", "joinOutput")
  /\ RequestStopProcessing
  /\ UNCHANGED <<poolVars, readerVars, deviceHolds>>

JoinOutput ==
  /\ OwnerGoes("joinOutput", "stopped")
  /\ JoinOutputThread
  /\ UNCHANGED <<poolVars, readerVars, deviceHolds>>

\* The device is stopped and drained before the reader is reset for the next
\* start.
Reset ==
  /\ OwnerGoes("stopped", "idle")
  /\ deviceHolds = 0
  /\ ResetProcessor
  /\ ResetPool
  /\ requestCounter' = 0
  /\ taskQueue' = <<>>
  /\ pendingTasks' = 0
  /\ stopRequested' = FALSE
  /\ readFailed' = FALSE
  /\ UNCHANGED <<producerPc, workerPc, workerTask, deviceHolds>>

\* What follows the user's decision to stop.
Stopping == NotifyStop \/ JoinReaders \/ StopOutput \/ JoinOutput

-----------------------------------------------------------------------------
Next == \/ Producer
        \/ \E w \in Workers : Worker(w)
        \/ Output \/ DeviceRelease
        \/ Start \/ RequestStop \/ Stopping \/ Reset

\* A worker or the output thread that can go on does, and the device writes
\* out what it holds.
Fairness == /\ \A w \in Workers : WF_vars(Worker(w))
            /\ WF_vars(Output)
            /\ WF_vars(DeviceRelease)

Spec == Init /\ [][Next]_vars /\ Fairness

\* The producer, and an owner who has begun to stop, go on as well.  The user
\* need not start or stop anything.
FairSpec == Spec /\ WF_vars(Producer) /\ WF_vars(Stopping)

-----------------------------------------------------------------------------
(* Properties.                                                             *)

TypeOK ==
  /\ slotFilled \in [Slots -> BOOLEAN]
  /\ slotBlock \in [Slots -> Requests \union {NoBlock}]
  /\ nextOutputSlot \in Slots
  /\ stopThread \in BOOLEAN
  /\ outPc \in OutputPcs
  /\ delivered \in Seq(Requests)
  /\ freeBlocks \in 0 .. PoolBlocks
  /\ poolWait \in [Workers -> PoolWaits]
  /\ requestCounter \in 0 .. MaxRequests
  /\ producerPc \in ProducerPcs
  /\ taskQueue \in Seq(Requests)
  /\ pendingTasks \in 0 .. SoftLimit
  /\ workerPc \in [Workers -> WorkerPcs]
  /\ workerTask \in [Workers -> Requests \union {NoBlock}]
  /\ stopRequested \in BOOLEAN
  /\ readFailed \in BOOLEAN
  /\ deviceHolds \in 0 .. DeviceBlocks
  /\ ownerPc \in OwnerPcs

\* The legacy reader follows the protocol that OrderedRead describes: a
\* request is being read from the gate to ProcessData, wherever it waits.
PastGate == producerPc \in {"capacity", "capChecked", "capAsleep", "capWoken", "enqueue"}
TasksOf(pcs) == {workerTask[w] : w \in {u \in Workers : workerPc[u] \in pcs}}
Reading == (IF PastGate THEN {Claimed} ELSE {})
             \union ToSet(taskQueue) \union TasksOf({"acquire", "read"})

OR == INSTANCE OrderedRead WITH atGate <- producerPc = "gate",
                                reading <- Reading,
                                storing <- TasksOf({"store"})

ImplementsOrderedRead == OR!SafeSpec

\* Every pool block is in one place: free, with a worker, in a filled slot
\* not yet handed over, or with the device.  None is lost by a stop, a failed
\* or a refused read, and none is released twice.
InSlots == {s \in Slots : slotFilled[s] /\ ~(s = nextOutputSlot /\ outPc = "clear")}
BlocksConserved ==
  freeBlocks + deviceHolds + Cardinality(Holding) + Cardinality(InSlots) = PoolBlocks

\* pending_tasks_ counts the tasks queued and in the hands of workers, and so
\* the producer never has more than SoftLimit reads outstanding.
PendingCounts == pendingTasks = Len(taskQueue) + Cardinality(Busy)

\* When the producer ends by itself, every block it numbered is in a slot or
\* delivered: the stop flag it then raises drops no task of a worker.
EndIsComplete ==
  (producerPc \in {"lastNotify", "exited"} /\ ownerPc = "running" /\ ~readFailed)
    => \A r \in 0 .. Claimed : r \in OR!Accepted

\* A worker that wants a buffer gets one although the slots and the device
\* hold buffers too: the pool has a block for every slot, so that the request
\* the output thread waits for is never the one without a buffer.  (A stop
\* and a failed read, which leaves its slot empty for good, end the wait for
\* the others.)
BufferComes ==
  \A w \in Workers :
    workerPc[w] = "acquire" ~> (workerPc[w] # "acquire" \/ stopRequested \/ readFailed)

\* Once the producer has ended by itself all that was read is delivered.
EndIsDelivered ==
  (producerPc = "exited" /\ ownerPc = "running" /\ ~readFailed)
    ~> (Len(delivered) = requestCounter \/ ownerPc # "running")

\* Not so: the producer leaves the gate in the end.
GateOpens == producerPc = "gate" ~> producerPc # "gate"

\* Not so: a stop that the user asks for completes.
StopCompletes == ownerPc = "notify" ~> ownerPc = "stopped"
=============================================================================
