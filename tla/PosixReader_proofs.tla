-------------------------- MODULE PosixReader_proofs --------------------------
(***************************************************************************)
(* The POSIX reader with its worker threads follows the OrderedRead        *)
(* protocol, loses no buffer and no task, for every number of workers, of  *)
(* slots, of buffers and of blocks.                                        *)
(***************************************************************************)
EXTENDS PosixReader, SequenceTheorems, FiniteSetTheorems, TLAPS

(***************************************************************************)
(* What is true of the threads in each state of the owner.                 *)
(***************************************************************************)
WorkersOut == \A w \in Workers : workerPc[w] = "none"
WorkersIn == \A w \in Workers : workerPc[w] # "none"

OwnerInv ==
  /\ ownerPc \in OwnerPcs
  /\ stopThread \in BOOLEAN
  /\ ownerPc = "idle" => producerPc = "none" /\ WorkersOut /\ outPc = "none" /\ ~stopRequested
  /\ ownerPc \in {"running", "notify", "join"}
       => producerPc # "none" /\ WorkersIn /\ outPc # "none" /\ ~stopThread
  /\ ownerPc = "stopOutput"
       => producerPc = "none" /\ WorkersOut /\ outPc # "none" /\ ~stopThread
  /\ ownerPc = "joinOutput"
       => producerPc = "none" /\ WorkersOut /\ outPc # "none" /\ stopThread
  /\ ownerPc = "stopped" => producerPc = "none" /\ WorkersOut /\ outPc = "none"
  /\ ownerPc \notin {"idle", "running"} => stopRequested

\* The producer has numbered a request and not yet queued it.
AtGate == producerPc = "gate"
InHand == AtGate \/ PastGate

ThreadInv ==
  /\ producerPc \in ProducerPcs
  /\ workerPc \in [Workers -> WorkerPcs]
  /\ requestCounter \in 0 .. MaxRequests
  /\ InHand => requestCounter > 0
  /\ producerPc \in {"lastNotify", "exited"} => stopRequested
  /\ stopRequested \in BOOLEAN
  /\ readFailed \in BOOLEAN

CtlInv == OwnerInv /\ ThreadInv

\* Initially nobody has started.
LEMMA InitCtl == Init => CtlInv
<1> SUFFICES ASSUME Init PROVE CtlInv
  OBVIOUS
<1>1. stopThread \in BOOLEAN /\ outPc = "none"
  BY DEF Init, ODPInit
<1>2. workerPc \in [Workers -> WorkerPcs] /\ WorkersOut
  BY DEF Init, WorkerPcs, WorkersOut
<1>3. ~stopRequested /\ stopRequested \in BOOLEAN /\ readFailed \in BOOLEAN
  BY DEF Init
<1> QED BY <1>1, <1>2, <1>3, MaxRequestsAssumption
  DEF Init, CtlInv, OwnerInv, ThreadInv, OwnerPcs, ProducerPcs, InHand, AtGate, PastGate

\* The producer's steps.
LEMMA ProducerCtl == CtlInv /\ Producer => CtlInv'
<1> SUFFICES ASSUME CtlInv, Producer PROVE CtlInv'
  OBVIOUS
<1> USE DEF CtlInv, OwnerInv, ThreadInv, ProducerPcs, InHand, AtGate, PastGate,
            ProducerGoes, odpVars, envVars, WorkersOut, WorkersIn
<1>1. CASE ClaimRequest
  BY <1>1, MaxRequestsAssumption DEF ClaimRequest
<1>2. CASE FilesDone \/ PassGate \/ LeaveGate
  BY <1>2 DEF FilesDone, PassGate, LeaveGate
<1>3. CASE WaitForPendingCapacity
  BY <1>3 DEF WaitForPendingCapacity
<1>4. CASE EnqueueTask
  <2>1. /\ workerPc' \in [Workers -> WorkerPcs]
        /\ \A w \in Workers : workerPc'[w] = "none" <=> workerPc[w] = "none"
    BY <1>4 DEF EnqueueTask, TaskSleepers, WorkerPcs
  <2> QED BY <1>4, <2>1 DEF EnqueueTask
<1>5. CASE DrainDone
  <2>1. stopRequested'
    BY <1>5 DEF DrainDone
  <2> QED BY <1>5, <2>1 DEF DrainDone
<1>6. CASE LastNotify
  <2>1. /\ workerPc' \in [Workers -> WorkerPcs]
        /\ \A w \in Workers : workerPc'[w] = "none" <=> workerPc[w] = "none"
    BY <1>6 DEF LastNotify, WakeAllWorkers, TaskSleepers, WorkerPcs
  <2> QED BY <1>6, <2>1 DEF LastNotify
<1> QED BY <1>1, <1>2, <1>3, <1>4, <1>5, <1>6 DEF Producer

\* What a worker's step leaves alone of the producer and of the owner.
LEMMA WorkerCtl == CtlInv /\ (\E w \in Workers : Worker(w)) => CtlInv'
<1> SUFFICES ASSUME CtlInv, NEW w \in Workers, Worker(w) PROVE CtlInv'
  OBVIOUS
<1>1. /\ UNCHANGED <<nextOutputSlot, stopThread, outPc, requestCounter, stopRequested, ownerPc>>
      /\ readFailed' \in BOOLEAN
      /\ \/ producerPc' = producerPc
         \/ producerPc = "capAsleep" /\ producerPc' = "capWoken"
      /\ \/ workerPc' = workerPc
         \/ \E pc \in WorkerPcs \ {"none"} : /\ workerPc[w] # "none"
                                             /\ workerPc' = [workerPc EXCEPT ![w] = pc]
  <2> USE DEF CtlInv, ThreadInv, WorkerGoes, WorkerPcs, odpVars, envVars
  <2>1. CASE TakeTask(w) \/ WaitForTask(w) \/ TakeBuffer(w)
    BY <2>1 DEF TakeTask, WaitForTask, TakeBuffer
  <2>2. CASE WaitForBuffer(w)
    BY <2>2 DEF WaitForBuffer, readerVars
  <2>3. CASE DropTask(w) \/ FinishTask(w)
    BY <2>3 DEF DropTask, FinishTask, NotifyCapacity
  <2>4. CASE ReadBlock(w) \/ ReadFails(w) \/ FillSlot(w)
    BY <2>4 DEF ReadBlock, StoreBlock, ReadFails, FillSlot, MarkFilled
  <2> QED BY <2>1, <2>2, <2>3, <2>4 DEF Worker
<1> QED BY <1>1 DEF CtlInv, OwnerInv, ThreadInv, ProducerPcs, InHand, AtGate, PastGate,
        WorkersOut, WorkersIn

\* The output thread and the device do not touch the readers or the owner.
LEMMA OutputCtl == CtlInv /\ (Output \/ DeviceRelease) => CtlInv'
<1> SUFFICES ASSUME CtlInv, Output \/ DeviceRelease PROVE CtlInv'
  OBVIOUS
<1> USE DEF CtlInv, OwnerInv, ThreadInv, odpVars, readerVars, envVars, InHand, AtGate,
            PastGate, WorkersOut, WorkersIn
<1>1. CASE DeliverBlock
  BY <1>1 DEF DeliverBlock, OutputDeliver
<1>2. CASE /\ OutputTake \/ OutputClear \/ OutputAdvance \/ OutputExit
           /\ UNCHANGED <<poolVars, readerVars, envVars>>
  BY <1>2 DEF OutputTake, OutputClear, OutputAdvance, OutputExit
<1>3. CASE DeviceRelease
  BY <1>3 DEF DeviceRelease
<1> QED BY <1>1, <1>2, <1>3 DEF Output

\* The owner starts all threads together, and joins the readers' before the
\* output thread.
LEMMA OwnerCtl ==
  CtlInv /\ (Start \/ RequestStop \/ Stopping \/ Reset) => CtlInv'
<1> SUFFICES ASSUME CtlInv, Start \/ RequestStop \/ Stopping \/ Reset PROVE CtlInv'
  OBVIOUS
<1> USE DEF CtlInv, OwnerInv, ThreadInv, OwnerPcs, ProducerPcs, ProducerGoes, OwnerGoes,
            odpVars, readerVars, InHand, AtGate, PastGate, WorkersOut, WorkersIn
<1>1. CASE Start
  <2>1. workerPc' \in [Workers -> WorkerPcs] /\ WorkersIn'
    BY <1>1 DEF Start, WorkerPcs
  <2> QED BY <1>1, <2>1 DEF Start, StartProcessing
<1>2. CASE RequestStop
  <2>1. stopRequested'
    BY <1>2 DEF RequestStop
  <2> QED BY <1>2, <2>1 DEF RequestStop
<1>3. CASE NotifyStop
  <2>1. /\ workerPc' \in [Workers -> WorkerPcs]
        /\ \A w \in Workers : workerPc'[w] = "none" <=> workerPc[w] = "none"
    BY <1>3 DEF NotifyStop, WakeAllWorkers, TaskSleepers, WorkerPcs
  <2> QED BY <1>3, <2>1 DEF NotifyStop
<1>4. CASE JoinReaders
  <2>1. workerPc' \in [Workers -> WorkerPcs] /\ WorkersOut'
    BY <1>4 DEF JoinReaders, WorkerPcs
  <2> QED BY <1>4, <2>1 DEF JoinReaders
<1>5. CASE StopOutput
  BY <1>5 DEF StopOutput, RequestStopProcessing
<1>6. CASE JoinOutput
  BY <1>6 DEF JoinOutput, JoinOutputThread
<1>7. CASE Reset
  <2>1. ~stopRequested' /\ stopRequested' \in BOOLEAN /\ readFailed' \in BOOLEAN
    BY <1>7 DEF Reset
  <2> QED BY <1>7, <2>1, MaxRequestsAssumption DEF Reset, ResetProcessor
<1> QED BY <1>1, <1>2, <1>3, <1>4, <1>5, <1>6, <1>7 DEF Stopping

\* Every step keeps the control invariant.
LEMMA StepCtl == CtlInv /\ [Next]_vars => CtlInv'
<1>1. CtlInv /\ UNCHANGED vars => CtlInv'
  BY DEF CtlInv, OwnerInv, ThreadInv, vars, odpVars, readerVars, envVars, InHand, AtGate,
     PastGate, WorkersOut, WorkersIn
<1> QED BY <1>1, ProducerCtl, WorkerCtl, OutputCtl, OwnerCtl DEF Next

\* The control invariant holds throughout.
LEMMA AlwaysCtl == Spec => []CtlInv
<1> QED BY InitCtl, StepCtl, PTL DEF Spec

-----------------------------------------------------------------------------
(* Where the tasks are: in the producer's hand, queued, or with a worker.  *)

\* The requests numbered and past the producer.
Passed == IF InHand THEN Claimed ELSE requestCounter

HasTask(w) == workerPc[w] \in BusyPcs

QueueInv ==
  /\ taskQueue \in Seq(Requests)
  /\ \A i, j \in 1 .. Len(taskQueue) : i < j => taskQueue[i] < taskQueue[j]
  /\ \A i \in 1 .. Len(taskQueue) : taskQueue[i] < Passed

TaskInv ==
  /\ workerTask \in [Workers -> Requests \union {NoBlock}]
  /\ \A w \in Workers : HasTask(w) =>
       /\ workerTask[w] \in Requests /\ workerTask[w] < Passed
       /\ \A i \in 1 .. Len(taskQueue) : taskQueue[i] # workerTask[w]
       /\ \A u \in Workers : HasTask(u) /\ workerTask[u] = workerTask[w] => u = w

PlaceInv == QueueInv /\ TaskInv

\* What a queue holds once a task is pushed.
LEMMA QueueAfterAppend ==
  ASSUME NEW S, NEW q \in Seq(S), NEW r \in S
  PROVE  /\ Append(q, r) \in Seq(S) /\ Len(Append(q, r)) = Len(q) + 1 /\ Len(q) \in Nat
         /\ \A i \in 1 .. Len(q) : Append(q, r)[i] = q[i]
         /\ Append(q, r)[Len(q) + 1] = r
         /\ ToSet(Append(q, r)) = ToSet(q) \union {r}
<1>1. /\ Append(q, r) \in Seq(S) /\ Len(Append(q, r)) = Len(q) + 1 /\ Len(q) \in Nat
      /\ \A i \in 1 .. Len(q) : Append(q, r)[i] = q[i]
      /\ Append(q, r)[Len(q) + 1] = r
  BY AppendProperties, LenProperties
<1>2. DOMAIN q = 1 .. Len(q) /\ DOMAIN Append(q, r) = 1 .. Len(q) + 1
  BY <1>1, LenProperties
<1>3. 1 .. Len(q) + 1 = (1 .. Len(q)) \union {Len(q) + 1}
  BY <1>1
<1>4. ToSet(Append(q, r)) = {Append(q, r)[i] : i \in 1 .. Len(q)} \union {r}
  BY <1>1, <1>2, <1>3 DEF ToSet
<1>5. {Append(q, r)[i] : i \in 1 .. Len(q)} = ToSet(q)
  BY <1>1, <1>2 DEF ToSet
<1> QED BY <1>1, <1>4, <1>5

\* What a queue holds once its first task is popped.
LEMMA QueueAfterTail ==
  ASSUME NEW S, NEW q \in Seq(S), q # <<>>
  PROVE  /\ Tail(q) \in Seq(S) /\ Head(q) \in S /\ Len(Tail(q)) = Len(q) - 1
         /\ Len(q) \in Nat \ {0} /\ Head(q) = q[1]
         /\ \A i \in 1 .. Len(q) - 1 : Tail(q)[i] = q[i + 1]
         /\ ToSet(q) = ToSet(Tail(q)) \union {Head(q)}
<1>1. /\ Tail(q) \in Seq(S) /\ Head(q) \in S /\ Len(Tail(q)) = Len(q) - 1
      /\ Len(q) \in Nat \ {0} /\ Head(q) = q[1]
      /\ \A i \in 1 .. Len(q) - 1 : Tail(q)[i] = q[i + 1]
  BY HeadTailProperties, EmptySeq
<1>2. DOMAIN q = 1 .. Len(q) /\ DOMAIN Tail(q) = 1 .. Len(q) - 1
  BY <1>1, LenProperties
<1>3. \A r : r \in ToSet(q) <=> r = Head(q) \/ r \in ToSet(Tail(q))
  <2>1. ASSUME NEW r, r \in ToSet(q) PROVE r = Head(q) \/ r \in ToSet(Tail(q))
    <3>1. PICK i \in 1 .. Len(q) : r = q[i]
      BY <1>2, <2>1 DEF ToSet
    <3>2. CASE i = 1
      BY <1>1, <3>1, <3>2
    <3>3. CASE i # 1
      <4>1. i - 1 \in 1 .. Len(q) - 1 /\ Tail(q)[i - 1] = q[i]
        BY <1>1, <3>1, <3>3
      <4> QED BY <1>2, <3>1, <4>1 DEF ToSet
    <3> QED BY <3>2, <3>3
  <2>2. Head(q) \in ToSet(q)
    BY <1>1, <1>2 DEF ToSet
  <2>3. ASSUME NEW r, r \in ToSet(Tail(q)) PROVE r \in ToSet(q)
    <3>1. PICK i \in 1 .. Len(q) - 1 : r = Tail(q)[i]
      BY <1>2, <2>3 DEF ToSet
    <3>2. i + 1 \in 1 .. Len(q) /\ r = q[i + 1]
      BY <1>1, <3>1
    <3> QED BY <1>2, <3>2 DEF ToSet
  <2> QED BY <2>1, <2>2, <2>3
<1> QED BY <1>1, <1>3

\* The number of requests past the producer.
LEMMA PassedType == CtlInv => Passed \in 0 .. MaxRequests
  BY MaxRequestsAssumption DEF CtlInv, ThreadInv, Passed, Claimed

\* A step that puts no task on the queue and takes none from it or a worker.
\* A request dropped at the gate or at the wait for capacity counts as passed.
TasksStay ==
  /\ UNCHANGED <<taskQueue, workerTask, pendingTasks>>
  /\ \A w \in Workers : HasTask(w)' <=> HasTask(w)
  /\ \/ Passed' = Passed
     \/ Passed' = Passed + 1 /\ stopRequested /\ InHand
  /\ producerPc' = "enqueue" => producerPc = "enqueue" \/ HasCapacity

\* Such are the producer's steps but one.
LEMMA ProducerTasks == CtlInv /\ Producer => TasksStay \/ EnqueueTask
<1> SUFFICES ASSUME CtlInv, Producer, ~EnqueueTask PROVE TasksStay
  OBVIOUS
<1> USE DEF TasksStay, Passed, InHand, AtGate, PastGate, Claimed, ProducerGoes, HasTask
<1>0. requestCounter \in Nat
  BY MaxRequestsAssumption DEF CtlInv, ThreadInv
<1>1. CASE ClaimRequest
  BY <1>0, <1>1 DEF ClaimRequest
<1>2. CASE FilesDone \/ PassGate
  BY <1>0, <1>2 DEF FilesDone, PassGate
<1>3. CASE LeaveGate
  BY <1>0, <1>3 DEF LeaveGate
<1>4. CASE WaitForPendingCapacity
  BY <1>0, <1>4 DEF WaitForPendingCapacity
<1>5. CASE DrainDone
  BY <1>0, <1>5 DEF DrainDone
<1>6. CASE LastNotify
  <2>1. \A w \in Workers : HasTask(w)' <=> HasTask(w)
    BY <1>6 DEF LastNotify, WakeAllWorkers, TaskSleepers, BusyPcs
  <2> QED BY <1>0, <1>6, <2>1 DEF LastNotify
<1> QED BY <1>1, <1>2, <1>3, <1>4, <1>5, <1>6 DEF Producer

\* A worker that does not take or end a task keeps it.
LEMMA WorkerTasks ==
  ASSUME CtlInv, NEW w \in Workers, Worker(w), ~TakeTask(w), ~DropTask(w), ~FinishTask(w)
  PROVE  TasksStay
<1> USE DEF TasksStay, Passed, InHand, AtGate, PastGate, Claimed, WorkerGoes, HasTask,
            BusyPcs
<1>0. workerPc \in [Workers -> WorkerPcs]
  BY DEF CtlInv, ThreadInv
<1>1. CASE WaitForTask(w) \/ TakeBuffer(w)
  BY <1>0, <1>1 DEF WaitForTask, TakeBuffer
<1>2. CASE WaitForBuffer(w)
  BY <1>0, <1>2 DEF WaitForBuffer, readerVars
<1>3. CASE ReadBlock(w)
  BY <1>0, <1>3 DEF ReadBlock
<1>4. CASE ReadFails(w) \/ FillSlot(w)
  BY <1>0, <1>4 DEF ReadFails, FillSlot
<1> QED BY <1>1, <1>2, <1>3, <1>4 DEF Worker

\* The others move no task, except that a reset empties the queue.
LEMMA OtherTasks ==
  CtlInv /\ (Output \/ DeviceRelease \/ Start \/ RequestStop \/ Stopping \/ UNCHANGED vars)
    => TasksStay
<1> SUFFICES ASSUME CtlInv,
                    \/ Output \/ DeviceRelease \/ Start \/ RequestStop \/ Stopping
                    \/ UNCHANGED vars
             PROVE  TasksStay
  OBVIOUS
<1> USE DEF TasksStay, Passed, InHand, AtGate, PastGate, Claimed, ProducerGoes, HasTask,
            OwnerGoes, readerVars
<1>1. CASE Output
  BY <1>1 DEF Output, DeliverBlock
<1>2. CASE DeviceRelease \/ RequestStop \/ StopOutput \/ JoinOutput \/ UNCHANGED vars
  BY <1>2 DEF DeviceRelease, RequestStop, StopOutput, JoinOutput, vars
<1>3. CASE Start \/ JoinReaders
  <2>1. \A w \in Workers : HasTask(w)' <=> HasTask(w)
    BY <1>3 DEF Start, JoinReaders, BusyPcs, CtlInv, OwnerInv, WorkersOut
  <2>2. Passed' = Passed
    BY <1>3 DEF Start, JoinReaders, CtlInv, OwnerInv
  <2> QED BY <1>3, <2>1, <2>2 DEF Start, JoinReaders
<1>4. CASE NotifyStop
  <2>1. \A w \in Workers : HasTask(w)' <=> HasTask(w)
    BY <1>4 DEF NotifyStop, WakeAllWorkers, TaskSleepers, BusyPcs
  <2> QED BY <1>4, <2>1 DEF NotifyStop
<1> QED BY <1>1, <1>2, <1>3, <1>4 DEF Stopping

\* So a step pushes a task, pops one, ends one, resets or moves none.
LEMMA TaskMoves ==
  CtlInv /\ [Next]_vars =>
    \/ TasksStay \/ EnqueueTask \/ Reset
    \/ \E w \in Workers : TakeTask(w) \/ DropTask(w) \/ FinishTask(w)
  BY ProducerTasks, WorkerTasks, OtherTasks DEF Next

-----------------------------------------------------------------------------
(* Every task is in one place, in request order on the queue.              *)

\* Initially there is no task.
LEMMA InitPlace == Init => PlaceInv
<1> SUFFICES ASSUME Init PROVE PlaceInv
  OBVIOUS
<1>1. taskQueue \in Seq(Requests) /\ Len(taskQueue) = 0
  BY EmptySeq DEF Init
<1>2. /\ workerTask \in [Workers -> Requests \union {NoBlock}]
      /\ \A w \in Workers : ~HasTask(w)
  BY DEF Init, HasTask, BusyPcs
<1> QED BY <1>1, <1>2 DEF PlaceInv, QueueInv, TaskInv

\* Pushing a task.
LEMMA EnqueuePlace == CtlInv /\ PlaceInv /\ EnqueueTask => PlaceInv'
<1> SUFFICES ASSUME CtlInv, PlaceInv, EnqueueTask PROVE PlaceInv'
  OBVIOUS
<1> USE DEF PlaceInv
<1>1. /\ producerPc = "enqueue" /\ producerPc' = "next" /\ UNCHANGED requestCounter
      /\ taskQueue' = Append(taskQueue, Claimed) /\ UNCHANGED workerTask
  BY DEF EnqueueTask, ProducerGoes
<1>2. /\ Passed = Claimed /\ Passed' = Claimed + 1
      /\ Claimed \in Nat /\ Claimed \in Requests
  BY <1>1, MaxRequestsAssumption
  DEF CtlInv, ThreadInv, Passed, InHand, AtGate, PastGate, Claimed, Requests
<1>3. \A w \in Workers : HasTask(w)' <=> HasTask(w)
  BY DEF EnqueueTask, TaskSleepers, HasTask, BusyPcs, CtlInv, ThreadInv
<1>4. /\ taskQueue' \in Seq(Requests) /\ Len(taskQueue') = Len(taskQueue) + 1
      /\ Len(taskQueue) \in Nat
      /\ \A i \in 1 .. Len(taskQueue) : taskQueue'[i] = taskQueue[i]
      /\ taskQueue'[Len(taskQueue) + 1] = Claimed
  BY <1>1, <1>2, QueueAfterAppend DEF QueueInv
<1>5. \A i \in 1 .. Len(taskQueue) : taskQueue[i] \in Nat /\ taskQueue[i] < Claimed
  <2>1. \A i \in 1 .. Len(taskQueue) : taskQueue[i] \in Requests
    BY ElementOfSeq DEF QueueInv
  <2> QED BY <1>2, <2>1 DEF QueueInv, Requests
<1>6. \A i \in 1 .. Len(taskQueue') :
        \/ i \in 1 .. Len(taskQueue) /\ taskQueue'[i] = taskQueue[i]
        \/ i = Len(taskQueue) + 1 /\ taskQueue'[i] = Claimed
  BY <1>4
<1>7. QueueInv'
  <2>1. \A i, j \in 1 .. Len(taskQueue') : i < j => taskQueue'[i] < taskQueue'[j]
    BY <1>4, <1>5, <1>6 DEF QueueInv
  <2>2. \A i \in 1 .. Len(taskQueue') : taskQueue'[i] < Passed'
    BY <1>2, <1>5, <1>6
  <2> QED BY <1>4, <2>1, <2>2 DEF QueueInv
<1>8. TaskInv'
  <2> SUFFICES ASSUME NEW w \in Workers, HasTask(w)
               PROVE  /\ workerTask[w] \in Requests /\ workerTask[w] < Passed'
                      /\ \A i \in 1 .. Len(taskQueue') : taskQueue'[i] # workerTask[w]
                      /\ \A u \in Workers :
                           HasTask(u) /\ workerTask[u] = workerTask[w] => u = w
    BY <1>1, <1>3 DEF TaskInv
  <2>1. /\ workerTask[w] \in Requests /\ workerTask[w] < Claimed
        /\ \A i \in 1 .. Len(taskQueue) : taskQueue[i] # workerTask[w]
        /\ \A u \in Workers : HasTask(u) /\ workerTask[u] = workerTask[w] => u = w
    BY <1>2 DEF TaskInv
  <2>2. workerTask[w] < Passed' /\ workerTask[w] # Claimed
    BY <2>1, <1>2 DEF Requests
  <2> QED BY <2>1, <2>2, <1>6
<1> QED BY <1>7, <1>8

\* Popping a task: it leaves the queue for the worker's hands.
LEMMA TakePlace ==
  ASSUME CtlInv, PlaceInv, NEW w \in Workers, TakeTask(w)
  PROVE  PlaceInv'
<1> USE DEF PlaceInv
<1>1. /\ workerPc[w] = "wait" /\ workerPc' = [workerPc EXCEPT ![w] = "acquire"]
      /\ taskQueue # <<>> /\ taskQueue' = Tail(taskQueue)
      /\ workerTask' = [workerTask EXCEPT ![w] = Head(taskQueue)]
      /\ Passed' = Passed
  BY DEF TakeTask, WorkerGoes, Passed, InHand, AtGate, PastGate, Claimed
<1>2. /\ taskQueue' \in Seq(Requests) /\ Head(taskQueue) \in Requests
      /\ Len(taskQueue') = Len(taskQueue) - 1 /\ Len(taskQueue) \in Nat \ {0}
      /\ Head(taskQueue) = taskQueue[1]
      /\ \A i \in 1 .. Len(taskQueue) - 1 : taskQueue'[i] = taskQueue[i + 1]
  BY <1>1, QueueAfterTail DEF QueueInv
<1>3. workerPc \in [Workers -> WorkerPcs] /\ workerTask \in [Workers -> Requests \union {NoBlock}]
  BY DEF CtlInv, ThreadInv, TaskInv
<1>4. \A i \in 1 .. Len(taskQueue') :
        i + 1 \in 1 .. Len(taskQueue) /\ taskQueue'[i] = taskQueue[i + 1]
  BY <1>2
<1>5. QueueInv'
  <2>1. \A i, j \in 1 .. Len(taskQueue') : i < j => taskQueue'[i] < taskQueue'[j]
    BY <1>4 DEF QueueInv
  <2>2. \A i \in 1 .. Len(taskQueue') : taskQueue'[i] < Passed'
    BY <1>1, <1>4 DEF QueueInv
  <2> QED BY <1>2, <2>1, <2>2 DEF QueueInv
<1>6. /\ ~HasTask(w) /\ workerTask'[w] = taskQueue[1]
      /\ \A u \in Workers \ {w} :
           workerTask'[u] = workerTask[u] /\ (HasTask(u)' <=> HasTask(u))
  BY <1>1, <1>2, <1>3 DEF HasTask, BusyPcs
<1>7. /\ taskQueue[1] \in Requests /\ taskQueue[1] < Passed
      /\ \A i \in 1 .. Len(taskQueue') : taskQueue'[i] # taskQueue[1]
  <2>1. \A i \in 1 .. Len(taskQueue') : taskQueue[1] < taskQueue[i + 1]
    BY <1>2, <1>4 DEF QueueInv
  <2>2. taskQueue[1] \in Nat
    BY <1>2 DEF Requests
  <2>3. \A i \in 1 .. Len(taskQueue') : taskQueue[i + 1] # taskQueue[1]
    BY <2>1, <2>2
  <2> QED BY <1>2, <1>4, <2>3 DEF QueueInv
<1>8. \A u \in Workers \ {w} : HasTask(u) => workerTask[u] # taskQueue[1]
  BY <1>2 DEF TaskInv
<1>9. TaskInv'
  <2>1. workerTask' \in [Workers -> Requests \union {NoBlock}]
    BY <1>1, <1>2, <1>3
  <2> SUFFICES ASSUME NEW v \in Workers, HasTask(v)'
               PROVE  /\ workerTask'[v] \in Requests /\ workerTask'[v] < Passed'
                      /\ \A i \in 1 .. Len(taskQueue') : taskQueue'[i] # workerTask'[v]
                      /\ \A u \in Workers :
                           HasTask(u)' /\ workerTask'[u] = workerTask'[v] => u = v
    BY <2>1 DEF TaskInv
  <2>2. CASE v = w
    BY <2>2, <1>1, <1>6, <1>7, <1>8
  <2>3. CASE v # w
    <3>1. /\ HasTask(v) /\ workerTask'[v] = workerTask[v]
          /\ workerTask[v] \in Requests /\ workerTask[v] < Passed
          /\ \A i \in 1 .. Len(taskQueue) : taskQueue[i] # workerTask[v]
          /\ \A u \in Workers : HasTask(u) /\ workerTask[u] = workerTask[v] => u = v
      BY <2>3, <1>6 DEF TaskInv
    <3>2. \A i \in 1 .. Len(taskQueue') : taskQueue'[i] # workerTask[v]
      BY <3>1, <1>4
    <3>3. \A u \in Workers : HasTask(u)' /\ workerTask'[u] = workerTask[v] => u = v
      BY <3>1, <1>6, <1>8
    <3> QED BY <3>1, <3>2, <3>3, <1>1
  <2> QED BY <2>2, <2>3
<1> QED BY <1>5, <1>9

\* Ending a task, done or dropped.
LEMMA EndPlace ==
  ASSUME CtlInv, PlaceInv, NEW w \in Workers, DropTask(w) \/ FinishTask(w)
  PROVE  PlaceInv'
<1>1. /\ UNCHANGED taskQueue /\ workerTask' = [workerTask EXCEPT ![w] = NoBlock]
      /\ Passed' = Passed
      /\ \E pc \in {"exited", "wait"} : workerPc' = [workerPc EXCEPT ![w] = pc]
  BY DEF DropTask, FinishTask, NotifyCapacity, WorkerGoes, Passed, InHand, AtGate, PastGate,
     Claimed
<1>2. /\ ~HasTask(w)'
      /\ \A u \in Workers \ {w} :
           workerTask'[u] = workerTask[u] /\ (HasTask(u)' <=> HasTask(u))
  BY <1>1 DEF HasTask, BusyPcs, CtlInv, ThreadInv, PlaceInv, TaskInv
<1>3. workerTask' \in [Workers -> Requests \union {NoBlock}]
  BY <1>1 DEF PlaceInv, TaskInv
<1> QED BY <1>1, <1>2, <1>3 DEF PlaceInv, QueueInv, TaskInv

\* Every step keeps the tasks in their places.
LEMMA StepPlace == CtlInv /\ PlaceInv /\ [Next]_vars => PlaceInv'
<1> SUFFICES ASSUME CtlInv, PlaceInv, [Next]_vars PROVE PlaceInv'
  OBVIOUS
<1>1. CASE TasksStay
  <2>1. Passed \in Int /\ Passed' \in Int /\ Passed <= Passed'
    BY <1>1, PassedType, MaxRequestsAssumption DEF TasksStay
  <2>2. \A r \in Requests : r < Passed => r < Passed'
    BY <2>1 DEF Requests
  <2>3. \A i \in 1 .. Len(taskQueue) : taskQueue[i] \in Requests
    BY ElementOfSeq DEF PlaceInv, QueueInv
  <2> QED BY <1>1, <2>2, <2>3 DEF TasksStay, PlaceInv, QueueInv, TaskInv
<1>2. CASE Reset
  <2>1. taskQueue' \in Seq(Requests) /\ Len(taskQueue') = 0
    BY <1>2, EmptySeq DEF Reset
  <2>2. \A w \in Workers : ~HasTask(w)'
    BY <1>2 DEF Reset, OwnerGoes, HasTask, BusyPcs, CtlInv, OwnerInv, WorkersOut
  <2>3. UNCHANGED workerTask
    BY <1>2 DEF Reset
  <2> QED BY <2>1, <2>2, <2>3 DEF PlaceInv, QueueInv, TaskInv
<1> QED BY <1>1, <1>2, TaskMoves, EnqueuePlace, TakePlace, EndPlace

\* Every task is on the queue or with one worker, and passes the producer
\* once.
LEMMA AlwaysPlace == Spec => []PlaceInv
<1> QED BY InitPlace, StepPlace, AlwaysCtl, PTL DEF Spec

-----------------------------------------------------------------------------
(* pending_tasks_ counts the tasks.                                        *)

PendingInv ==
  /\ PendingCounts
  /\ pendingTasks \in 0 .. SoftLimit
  /\ producerPc = "enqueue" => HasCapacity

\* The workers with a task can be counted, before and after a step.
LEMMA BusyFinite ==
  /\ IsFiniteSet(Busy) /\ Cardinality(Busy) \in Nat
  /\ IsFiniteSet(Busy') /\ Cardinality(Busy') \in Nat
<1>1. Busy \in SUBSET Workers /\ Busy' \in SUBSET Workers
  BY DEF Busy
<1> QED BY <1>1, WorkersAssumption, FS_Subset, FS_CardinalityType

\* Initially nothing is pending.
LEMMA InitPending == Init => PendingInv
<1> SUFFICES ASSUME Init PROVE PendingInv
  OBVIOUS
<1>1. Len(taskQueue) = 0 /\ Busy = {}
  BY EmptySeq DEF Init, Busy, BusyPcs
<1>2. Cardinality(Busy) = 0
  BY <1>1, FS_EmptySet
<1> QED BY <1>1, <1>2, SoftLimitAssumption, TotalSlotsAssumption
        DEF Init, PendingInv, PendingCounts

\* Every step keeps the count, and the producer waits until there is room.
LEMMA StepPending == CtlInv /\ PlaceInv /\ PendingInv /\ [Next]_vars => PendingInv'
<1> SUFFICES ASSUME CtlInv, PlaceInv, PendingInv, [Next]_vars PROVE PendingInv'
  OBVIOUS
<1>0. /\ SoftLimit \in Nat /\ pendingTasks \in 0 .. SoftLimit
      /\ pendingTasks = Len(taskQueue) + Cardinality(Busy)
      /\ taskQueue \in Seq(Requests) /\ Len(taskQueue) \in Nat
  BY SoftLimitAssumption, TotalSlotsAssumption, LenProperties
  DEF PendingInv, PendingCounts, PlaceInv, QueueInv
<1>1. CASE TasksStay
  <2>1. Busy' = Busy
    BY <1>1 DEF TasksStay, HasTask, Busy
  <2> QED BY <1>0, <1>1, <2>1 DEF TasksStay, PendingInv, PendingCounts, HasCapacity
<1>2. CASE EnqueueTask
  <2>1. Claimed \in Requests
    BY <1>2, MaxRequestsAssumption
    DEF EnqueueTask, ProducerGoes, CtlInv, ThreadInv, InHand, PastGate, Claimed, Requests
  <2>2. Len(taskQueue') = Len(taskQueue) + 1
    BY <1>0, <1>2, <2>1, QueueAfterAppend DEF EnqueueTask
  <2>3. \A w \in Workers : workerPc'[w] \in BusyPcs <=> workerPc[w] \in BusyPcs
    BY <1>2 DEF EnqueueTask, TaskSleepers, BusyPcs, CtlInv, ThreadInv
  <2>4. Busy' = Busy
    BY <2>3 DEF Busy
  <2>5. pendingTasks' = pendingTasks + 1 /\ producerPc' = "next" /\ pendingTasks < SoftLimit
    BY <1>2 DEF EnqueueTask, ProducerGoes, PendingInv, HasCapacity
  <2> QED BY <1>0, <2>2, <2>4, <2>5, BusyFinite DEF PendingInv, PendingCounts
<1>3. ASSUME NEW w \in Workers, TakeTask(w) PROVE PendingInv'
  <2>1. Len(taskQueue') = Len(taskQueue) - 1
    BY <1>0, <1>3, QueueAfterTail DEF TakeTask
  <2>2. w \notin Busy /\ Busy' = Busy \union {w}
    BY <1>3 DEF TakeTask, WorkerGoes, Busy, BusyPcs, CtlInv, ThreadInv
  <2>3. Cardinality(Busy') = Cardinality(Busy) + 1
    BY <2>2, BusyFinite, FS_AddElement
  <2>4. UNCHANGED <<pendingTasks, producerPc>>
    BY <1>3 DEF TakeTask
  <2> QED BY <1>0, <2>1, <2>3, <2>4, BusyFinite DEF PendingInv, PendingCounts, HasCapacity
<1>4. ASSUME NEW w \in Workers, DropTask(w) \/ FinishTask(w) PROVE PendingInv'
  <2>1. w \in Busy /\ Busy' = Busy \ {w}
    BY <1>4 DEF DropTask, FinishTask, WorkerGoes, Busy, BusyPcs, CtlInv, ThreadInv
  <2>2. Cardinality(Busy') = Cardinality(Busy) - 1
    BY <2>1, BusyFinite, FS_RemoveElement
  <2>3. /\ pendingTasks' = pendingTasks - 1 /\ UNCHANGED taskQueue
        /\ producerPc' = "enqueue" => producerPc = "enqueue"
    BY <1>4 DEF DropTask, FinishTask, NotifyCapacity
  <2> QED BY <1>0, <2>2, <2>3, BusyFinite DEF PendingInv, PendingCounts, HasCapacity
<1>5. CASE Reset
  <2>1. Len(taskQueue') = 0 /\ pendingTasks' = 0 /\ UNCHANGED producerPc
    BY <1>5, EmptySeq DEF Reset
  <2>2. Busy' = {} /\ producerPc = "none"
    BY <1>5 DEF Reset, OwnerGoes, Busy, BusyPcs, CtlInv, OwnerInv, WorkersOut
  <2>3. Cardinality(Busy') = 0
    BY <2>2, FS_EmptySet
  <2> QED BY <1>0, <2>1, <2>2, <2>3 DEF PendingInv, PendingCounts
<1> QED BY <1>1, <1>2, <1>3, <1>4, <1>5, TaskMoves

\* The count and its bound hold throughout.
LEMMA AlwaysPending == Spec => []PendingInv
<1> QED BY InitPending, StepPending, AlwaysCtl, AlwaysPlace, PTL DEF Spec

\* pending_tasks_ is the number of tasks queued and with the workers, so that
\* the producer never has more than SoftLimit reads outstanding.
THEOREM PendingIsCounted == Spec => []PendingCounts
<1>1. PendingInv => PendingCounts
  BY DEF PendingInv
<1> QED BY <1>1, AlwaysPending, PTL

-----------------------------------------------------------------------------
(* Every step of the reader is a step of OrderedRead or a stutter.         *)

\* Initial states map to initial states of the protocol.
LEMMA InitSimulation == Init => OR!Init
<1> SUFFICES ASSUME Init PROVE OR!Init
  OBVIOUS
<1>1. OR!ODPInit /\ requestCounter = 0 /\ ~(producerPc = "gate") /\ ~stopRequested
  BY DEF Init, ODPInit, OR!ODPInit, Slots, OR!Slots
<1>2. ToSet(taskQueue) = {}
  BY EmptySeq, LenProperties DEF Init, ToSet
<1>3. TasksOf({"acquire", "read"}) = {} /\ TasksOf({"store"}) = {}
  BY DEF Init, TasksOf
<1>4. Reading = {}
  BY <1>2, <1>3 DEF Init, Reading, PastGate
<1> QED BY <1>1, <1>3, <1>4 DEF Init, OR!Init

\* Membership in what is being read and stored.
LEMMA WhoReads ==
  \A r : r \in Reading <=> \/ PastGate /\ r = Claimed
                           \/ r \in ToSet(taskQueue)
                           \/ \E w \in Workers : /\ workerPc[w] \in {"acquire", "read"}
                                                 /\ r = workerTask[w]
  BY DEF Reading, TasksOf

LEMMA WhoReadsNext ==
  \A r : r \in Reading' <=> \/ PastGate' /\ r = Claimed'
                            \/ r \in ToSet(taskQueue')
                            \/ \E w \in Workers : /\ workerPc'[w] \in {"acquire", "read"}
                                                  /\ r = workerTask'[w]
  BY DEF Reading, TasksOf

\* Steps that the protocol does not see.
LEMMA Unseen ==
  ASSUME UNCHANGED <<odpVars, requestCounter, stopRequested>>,
         AtGate' <=> AtGate, PastGate' <=> PastGate,
         UNCHANGED <<taskQueue, workerTask>>,
         \A w \in Workers : /\ workerPc'[w] \in {"acquire", "read"}
                                 <=> workerPc[w] \in {"acquire", "read"}
                            /\ workerPc'[w] = "store" <=> workerPc[w] = "store"
  PROVE  UNCHANGED OR!vars
<1>1. Claimed' = Claimed
  BY DEF Claimed
<1>2. \A r : r \in Reading' <=> r \in Reading
  BY <1>1, WhoReads, WhoReadsNext
<1>3. Reading' = Reading
  BY <1>2
<1>4. TasksOf({"store"})' = TasksOf({"store"})
  BY DEF TasksOf
<1>5. (producerPc = "gate")' = (producerPc = "gate")
  BY DEF AtGate
<1> QED BY <1>3, <1>4, <1>5 DEF odpVars, OR!vars, OR!odpVars, OR!readVars

\* A queued request is past the producer and with no worker.
LEMMA QueuedApart ==
  ASSUME PlaceInv, NEW r \in ToSet(taskQueue)
  PROVE  /\ r \in Requests /\ r < Passed
         /\ \A w \in Workers : HasTask(w) => workerTask[w] # r
<1>1. taskQueue \in Seq(Requests) /\ DOMAIN taskQueue = 1 .. Len(taskQueue)
  BY LenProperties DEF PlaceInv, QueueInv
<1>2. PICK i \in 1 .. Len(taskQueue) : r = taskQueue[i]
  BY <1>1 DEF ToSet
<1>3. r \in Requests
  BY <1>1, <1>2, ElementOfSeq
<1> QED BY <1>2, <1>3 DEF PlaceInv, QueueInv, TaskInv

\* The request in the producer's hand is nowhere else.
LEMMA ClaimedApart ==
  ASSUME CtlInv, PlaceInv, InHand
  PROVE  /\ Claimed \notin ToSet(taskQueue)
         /\ \A w \in Workers : HasTask(w) => workerTask[w] # Claimed
<1>1. Passed = Claimed /\ Claimed \in Int
  BY MaxRequestsAssumption DEF Passed, Claimed, CtlInv, ThreadInv
<1>2. Claimed \notin ToSet(taskQueue)
  BY <1>1, QueuedApart DEF Requests
<1>3. \A w \in Workers : HasTask(w) => workerTask[w] \in Requests /\ workerTask[w] < Claimed
  BY <1>1 DEF PlaceInv, TaskInv
<1> QED BY <1>1, <1>2, <1>3 DEF Requests

\* Numbering a request and passing or leaving the gate are the protocol's.
LEMMA GateSimulation ==
  CtlInv /\ (ClaimRequest \/ PassGate \/ LeaveGate) => OR!Next
<1> SUFFICES ASSUME CtlInv, ClaimRequest \/ PassGate \/ LeaveGate PROVE OR!Next
  OBVIOUS
<1> USE DEF ProducerGoes, odpVars, envVars, OR!odpVars
<1>0. UNCHANGED <<taskQueue, workerPc, workerTask>> /\ TasksOf({"store"})' = TasksOf({"store"})
  BY DEF ClaimRequest, PassGate, LeaveGate, TasksOf
<1>1. CASE ClaimRequest
  <2>1. outPc # "none"
    BY <1>1 DEF ClaimRequest, CtlInv, OwnerInv, OwnerPcs
  <2>2. \A r : r \in Reading' <=> r \in Reading
    BY <1>0, <1>1, WhoReads, WhoReadsNext DEF ClaimRequest, PastGate
  <2>3. Reading' = Reading
    BY <2>2
  <2> QED BY <1>0, <1>1, <2>1, <2>3 DEF ClaimRequest, OR!Next, OR!ClaimRequest
<1>2. CASE PassGate
  <2>1. PastGate' /\ ~PastGate /\ Claimed' = Claimed
    BY <1>2 DEF PassGate, PastGate, Claimed
  <2>2. \A r : r \in Reading' <=> r \in Reading \union {Claimed}
    BY <1>0, <2>1, WhoReads, WhoReadsNext
  <2>3. Reading' = Reading \union {Claimed}
    BY <2>2
  <2> QED BY <1>0, <1>2, <2>3 DEF PassGate, GateOpen, Claimed, SlotOf, OR!Next,
          OR!PassGate, OR!GateOpen, OR!Claimed, OR!SlotOf
<1>3. CASE LeaveGate
  <2>1. \A r : r \in Reading' <=> r \in Reading
    BY <1>0, <1>3, WhoReads, WhoReadsNext DEF LeaveGate, PastGate
  <2>2. Reading' = Reading
    BY <2>1
  <2> QED BY <1>0, <1>3, <2>2 DEF LeaveGate, OR!Next, OR!LeaveGate
<1> QED BY <1>1, <1>2, <1>3

\* The producer's other steps.  The end of the wait for capacity drops a
\* request when there is a stop, and the end of the files is a stop.
LEMMA ProducerSimulation ==
  CtlInv /\ PlaceInv /\ Producer => OR!Next \/ UNCHANGED OR!vars
<1> SUFFICES ASSUME CtlInv, PlaceInv, Producer PROVE OR!Next \/ UNCHANGED OR!vars
  OBVIOUS
<1> USE DEF ProducerGoes, envVars
<1>1. CASE ClaimRequest \/ PassGate \/ LeaveGate
  BY <1>1, GateSimulation
<1>2. CASE FilesDone
  BY <1>2, Unseen DEF FilesDone, AtGate, PastGate
<1>3. CASE WaitForPendingCapacity
  <2>1. CASE producerPc' = "drain"
    <3>1. /\ PastGate /\ ~PastGate' /\ Claimed' = Claimed /\ ~AtGate /\ ~AtGate'
          /\ UNCHANGED <<odpVars, requestCounter, taskQueue, workerPc, workerTask,
                         stopRequested>>
      BY <1>3, <2>1 DEF WaitForPendingCapacity, PastGate, AtGate, Claimed
    <3>2. \A r : r \in Reading' <=> r \in Reading \ {Claimed}
      BY <3>1, WhoReads, WhoReadsNext, ClaimedApart DEF InHand, HasTask, BusyPcs
    <3>3. Reading' = Reading \ {Claimed} /\ Claimed \in Reading
      BY <3>1, <3>2, WhoReads
    <3>4. TasksOf({"store"})' = TasksOf({"store"})
      BY <3>1 DEF TasksOf
    <3>5. OR!AbandonRead
      BY <3>1, <3>3, <3>4 DEF OR!AbandonRead, AtGate, odpVars, OR!odpVars
    <3> QED BY <3>5 DEF OR!Next
  <2>2. CASE producerPc' # "drain"
    BY <1>3, <2>2, Unseen DEF WaitForPendingCapacity, AtGate, PastGate
  <2> QED BY <2>1, <2>2
<1>4. CASE EnqueueTask
  <2>1. /\ PastGate /\ ~PastGate' /\ Claimed' = Claimed /\ ~AtGate /\ ~AtGate'
        /\ taskQueue' = Append(taskQueue, Claimed)
        /\ UNCHANGED <<odpVars, requestCounter, workerTask, stopRequested>>
    BY <1>4 DEF EnqueueTask, PastGate, AtGate, Claimed
  <2>2. Claimed \in Requests
    BY <2>1, MaxRequestsAssumption DEF CtlInv, ThreadInv, InHand, Claimed, Requests
  <2>3. ToSet(taskQueue') = ToSet(taskQueue) \union {Claimed}
    BY <2>1, <2>2, QueueAfterAppend DEF PlaceInv, QueueInv
  <2>4. \A w \in Workers : /\ workerPc'[w] \in {"acquire", "read"}
                                <=> workerPc[w] \in {"acquire", "read"}
                           /\ workerPc'[w] = "store" <=> workerPc[w] = "store"
    BY <1>4 DEF EnqueueTask, TaskSleepers, CtlInv, ThreadInv
  <2>5. \A r : r \in Reading' <=> r \in Reading
    BY <2>1, <2>3, <2>4, WhoReads, WhoReadsNext
  <2>6. Reading' = Reading
    BY <2>5
  <2>7. TasksOf({"store"})' = TasksOf({"store"})
    BY <2>1, <2>4 DEF TasksOf
  <2> QED BY <2>1, <2>6, <2>7 DEF OR!vars, OR!odpVars, OR!readVars, odpVars, AtGate
<1>5. CASE DrainDone
  <2>1. AtGate' = AtGate /\ PastGate' = PastGate
    BY <1>5 DEF DrainDone, AtGate, PastGate
  <2>2. CASE stopRequested
    <3>1. UNCHANGED stopRequested
      BY <1>5, <2>2 DEF DrainDone, CtlInv, ThreadInv
    <3> QED BY <1>5, <2>1, <3>1, Unseen DEF DrainDone
  <2>3. CASE ~stopRequested
    <3>1. outPc # "none"
      BY <1>5 DEF DrainDone, CtlInv, OwnerInv, OwnerPcs
    <3>2. UNCHANGED <<taskQueue, workerPc, workerTask, requestCounter, odpVars>>
      BY <1>5 DEF DrainDone
    <3>3. \A r : r \in Reading' <=> r \in Reading
      BY <2>1, <3>2, WhoReads, WhoReadsNext DEF Claimed
    <3>4. Reading' = Reading /\ TasksOf({"store"})' = TasksOf({"store"})
      BY <3>2, <3>3 DEF TasksOf
    <3>5. OR!RequestStop
      BY <1>5, <2>1, <2>3, <3>1, <3>2, <3>4
      DEF DrainDone, AtGate, odpVars, OR!RequestStop, OR!odpVars
    <3> QED BY <3>5 DEF OR!Next
  <2> QED BY <2>2, <2>3
<1>6. CASE LastNotify
  <2>1. \A w \in Workers : /\ workerPc'[w] \in {"acquire", "read"}
                                <=> workerPc[w] \in {"acquire", "read"}
                           /\ workerPc'[w] = "store" <=> workerPc[w] = "store"
    BY <1>6 DEF LastNotify, WakeAllWorkers, TaskSleepers
  <2> QED BY <1>6, <2>1, Unseen DEF LastNotify, AtGate, PastGate
<1> QED BY <1>1, <1>2, <1>3, <1>4, <1>5, <1>6 DEF Producer

\* A worker's request is with no one else.
LEMMA TaskApart ==
  ASSUME CtlInv, PlaceInv, NEW w \in Workers, HasTask(w)
  PROVE  /\ workerTask[w] \in Requests /\ workerTask[w] \notin ToSet(taskQueue)
         /\ PastGate => workerTask[w] # Claimed
         /\ \A u \in Workers \ {w} : HasTask(u) => workerTask[u] # workerTask[w]
<1>1. workerTask[w] \notin ToSet(taskQueue)
  BY QueuedApart
<1>2. PastGate => workerTask[w] # Claimed
  BY ClaimedApart DEF InHand
<1>3. /\ workerTask[w] \in Requests
      /\ \A u \in Workers \ {w} : HasTask(u) => workerTask[u] # workerTask[w]
  BY DEF PlaceInv, TaskInv
<1> QED BY <1>1, <1>2, <1>3

\* A worker that stops reading its request takes it out of those being read.
LEMMA LeavesReading ==
  ASSUME CtlInv, PlaceInv, NEW w \in Workers, workerPc[w] \in {"acquire", "read"},
         NEW pc \in {"store", "finish", "exited"}, workerPc' = [workerPc EXCEPT ![w] = pc],
         UNCHANGED <<taskQueue, requestCounter>>, PastGate' = PastGate,
         \A u \in Workers \ {w} : workerTask'[u] = workerTask[u]
  PROVE  workerTask[w] \in Reading /\ Reading' = Reading \ {workerTask[w]}
<1>1. HasTask(w) /\ workerPc \in [Workers -> WorkerPcs] /\ Claimed' = Claimed
  BY DEF HasTask, BusyPcs, CtlInv, ThreadInv, Claimed
<1>2. workerPc'[w] = pc /\ \A u \in Workers \ {w} : workerPc'[u] = workerPc[u]
  BY <1>1
<1>3. \A u \in Workers \ {w} :
        workerPc[u] \in {"acquire", "read"} => workerTask[u] # workerTask[w]
  BY <1>1, TaskApart DEF HasTask, BusyPcs
<1>4. workerTask[w] \notin ToSet(taskQueue) /\ (PastGate => workerTask[w] # Claimed)
  BY <1>1, TaskApart
<1>5. \A r : r \in Reading' <=>
               \/ PastGate /\ r = Claimed
               \/ r \in ToSet(taskQueue)
               \/ \E u \in Workers \ {w} : /\ workerPc[u] \in {"acquire", "read"}
                                           /\ r = workerTask[u]
  BY <1>1, <1>2, WhoReadsNext
<1>6. \A r : r \in Reading <=>
               \/ PastGate /\ r = Claimed
               \/ r \in ToSet(taskQueue)
               \/ r = workerTask[w]
               \/ \E u \in Workers \ {w} : /\ workerPc[u] \in {"acquire", "read"}
                                           /\ r = workerTask[u]
  BY WhoReads
<1>7. \A r : r \in Reading' <=> r \in Reading /\ r # workerTask[w]
  BY <1>3, <1>4, <1>5, <1>6
<1>8. Reading' = Reading \ {workerTask[w]}
  BY <1>7
<1> QED BY <1>6, <1>8

\* Membership in what is being stored.
LEMMA WhoStores ==
  /\ \A r : r \in TasksOf({"store"}) <=>
              \E w \in Workers : workerPc[w] = "store" /\ r = workerTask[w]
  /\ \A r : r \in TasksOf({"store"})' <=>
              \E w \in Workers : workerPc'[w] = "store" /\ r = workerTask'[w]
  BY DEF TasksOf

\* Reading, storing, failing and dropping are the protocol's steps; the
\* movement of a task from the queue to a worker is not seen.
LEMMA WorkerSimulation ==
  ASSUME CtlInv, PlaceInv, NEW w \in Workers, Worker(w)
  PROVE  OR!Next \/ UNCHANGED OR!vars
<1> DEFINE r == workerTask[w]
<1> USE DEF WorkerGoes, envVars
<1>0. workerPc \in [Workers -> WorkerPcs] /\ workerTask \in [Workers -> Requests \union {NoBlock}]
  BY DEF CtlInv, ThreadInv, PlaceInv, TaskInv
<1>1. CASE TakeTask(w)
  <2>1. /\ workerPc[w] = "wait" /\ workerPc' = [workerPc EXCEPT ![w] = "acquire"]
        /\ workerTask' = [workerTask EXCEPT ![w] = Head(taskQueue)]
        /\ taskQueue' = Tail(taskQueue) /\ taskQueue # <<>>
        /\ UNCHANGED <<odpVars, requestCounter, producerPc, stopRequested>>
    BY <1>1 DEF TakeTask
  <2>2. ToSet(taskQueue) = ToSet(taskQueue') \union {Head(taskQueue)}
    BY <2>1, QueueAfterTail DEF PlaceInv, QueueInv
  <2>3. /\ workerPc'[w] = "acquire" /\ workerTask'[w] = Head(taskQueue)
        /\ \A u \in Workers \ {w} : workerPc'[u] = workerPc[u] /\ workerTask'[u] = workerTask[u]
    BY <1>0, <2>1
  <2>4. PastGate' = PastGate /\ Claimed' = Claimed
    BY <2>1 DEF PastGate, Claimed
  <2>5. \A q : q \in Reading' <=> q \in Reading
    BY <2>1, <2>2, <2>3, <2>4, WhoReads, WhoReadsNext
  <2>6. \A q : q \in TasksOf({"store"})' <=> q \in TasksOf({"store"})
    BY <2>1, <2>3, WhoStores
  <2>7. Reading' = Reading
    BY <2>5
  <2>8. TasksOf({"store"})' = TasksOf({"store"})
    BY <2>6
  <2> QED BY <2>1, <2>7, <2>8 DEF OR!vars, OR!odpVars, OR!readVars, odpVars
<1>2. CASE WaitForTask(w) \/ TakeBuffer(w)
  BY <1>0, <1>2, Unseen DEF WaitForTask, TakeBuffer, AtGate, PastGate
<1>3. CASE WaitForBuffer(w)
  BY <1>3, Unseen DEF WaitForBuffer, readerVars, AtGate, PastGate
<1>4. CASE DropTask(w)
  <2>1. /\ workerPc[w] \in {"acquire", "read"}
        /\ workerPc' = [workerPc EXCEPT ![w] = "exited"]
        /\ workerTask' = [workerTask EXCEPT ![w] = NoBlock]
        /\ UNCHANGED <<odpVars, requestCounter, taskQueue, stopRequested>>
        /\ NotifyCapacity
    BY <1>4 DEF DropTask
  <2>notify. PastGate' = PastGate /\ (producerPc = "gate")' = (producerPc = "gate")
    BY <2>1 DEF NotifyCapacity, PastGate
  <2>2. \A u \in Workers \ {w} : workerPc'[u] = workerPc[u] /\ workerTask'[u] = workerTask[u]
    BY <1>0, <2>1
  <2>3. r \in Reading /\ Reading' = Reading \ {r}
    BY <2>1, <2>notify, <2>2, LeavesReading
  <2>4. \A q : q \in TasksOf({"store"})' <=> q \in TasksOf({"store"})
    BY <1>0, <2>1, <2>2, WhoStores
  <2>5. TasksOf({"store"})' = TasksOf({"store"})
    BY <2>4
  <2> HIDE DEF r
  <2> QED BY <2>1, <2>notify, <2>3, <2>5 DEF OR!Next, OR!AbandonRead, OR!odpVars, odpVars
<1>5. CASE ReadBlock(w)
  <2>1. /\ workerPc[w] = "read" /\ StoreBlock(r)
        /\ workerPc' = [workerPc EXCEPT ![w] = IF Occupied(r) THEN "finish" ELSE "store"]
        /\ UNCHANGED <<requestCounter, producerPc, taskQueue, workerTask, stopRequested>>
    BY <1>5 DEF ReadBlock
  <2>2. \A u \in Workers \ {w} : workerPc'[u] = workerPc[u]
    BY <1>0, <2>1
  <2>3. PastGate' = PastGate
    BY <2>1 DEF PastGate
  <2>4. r \in Reading /\ Reading' = Reading \ {r}
    BY <2>1, <2>2, <2>3, LeavesReading
  <2>5. CASE Occupied(r)
    <3>1. workerPc'[w] = "finish"
      BY <1>0, <2>1, <2>5
    <3>2. \A q : q \in TasksOf({"store"})' <=> q \in TasksOf({"store"})
      BY <2>1, <2>2, <3>1, WhoStores
    <3>3. TasksOf({"store"})' = TasksOf({"store"})
      BY <3>2
    <3> HIDE DEF r
    <3> QED BY <2>1, <2>4, <2>5, <3>3 DEF OR!Next, OR!BeginProcessData, OR!StoreBlock,
            OR!Occupied, OR!SlotOf, StoreBlock, Occupied, SlotOf
  <2>6. CASE ~Occupied(r)
    <3>1. workerPc'[w] = "store"
      BY <1>0, <2>1, <2>6
    <3>2. \A q : q \in TasksOf({"store"})' <=> q \in TasksOf({"store"}) \union {r}
      BY <2>1, <2>2, <3>1, WhoStores
    <3>3. TasksOf({"store"})' = TasksOf({"store"}) \union {r}
      BY <3>2
    <3> HIDE DEF r
    <3> QED BY <2>1, <2>4, <2>6, <3>3 DEF OR!Next, OR!BeginProcessData, OR!StoreBlock,
            OR!Occupied, OR!SlotOf, StoreBlock, Occupied, SlotOf
  <2> QED BY <2>5, <2>6
<1>6. CASE ReadFails(w)
  <2>1. /\ workerPc[w] = "read" /\ workerPc' = [workerPc EXCEPT ![w] = "finish"]
        /\ UNCHANGED <<odpVars, requestCounter, producerPc, taskQueue, workerTask,
                       stopRequested>>
    BY <1>6 DEF ReadFails
  <2>2. workerPc'[w] = "finish" /\ \A u \in Workers \ {w} : workerPc'[u] = workerPc[u]
    BY <1>0, <2>1
  <2>3. PastGate' = PastGate
    BY <2>1 DEF PastGate
  <2>4. r \in Reading /\ Reading' = Reading \ {r}
    BY <2>1, <2>2, <2>3, LeavesReading
  <2>5. \A q : q \in TasksOf({"store"})' <=> q \in TasksOf({"store"})
    BY <2>1, <2>2, WhoStores
  <2>6. TasksOf({"store"})' = TasksOf({"store"})
    BY <2>5
  <2> HIDE DEF r
  <2> QED BY <2>1, <2>4, <2>6 DEF OR!Next, OR!AbandonRead, OR!odpVars, odpVars
<1>7. CASE FillSlot(w)
  <2>1. /\ workerPc[w] = "store" /\ workerPc' = [workerPc EXCEPT ![w] = "finish"]
        /\ MarkFilled(r)
        /\ UNCHANGED <<requestCounter, producerPc, taskQueue, workerTask, stopRequested>>
    BY <1>7 DEF FillSlot
  <2>2. workerPc'[w] = "finish" /\ \A u \in Workers \ {w} : workerPc'[u] = workerPc[u]
    BY <1>0, <2>1
  <2>3. PastGate' = PastGate /\ Claimed' = Claimed
    BY <2>1 DEF PastGate, Claimed
  <2>4. \A q : q \in Reading' <=> q \in Reading
    BY <2>1, <2>2, <2>3, WhoReads, WhoReadsNext
  <2>5. Reading' = Reading
    BY <2>4
  <2>6. \A u \in Workers \ {w} : workerPc[u] = "store" => workerTask[u] # r
    BY <2>1, TaskApart DEF HasTask, BusyPcs
  <2>7. \A q : q \in TasksOf({"store"})' <=> q \in TasksOf({"store"}) /\ q # r
    BY <2>1, <2>2, <2>6, WhoStores
  <2>8. TasksOf({"store"})' = TasksOf({"store"}) \ {r} /\ r \in TasksOf({"store"})
    BY <2>1, <2>7, WhoStores
  <2> HIDE DEF r
  <2> QED BY <2>1, <2>5, <2>8 DEF OR!Next, OR!EndProcessData, OR!MarkFilled, OR!SlotOf,
          MarkFilled, SlotOf
<1>8. CASE FinishTask(w)
  <2>1. /\ workerPc[w] = "finish" /\ workerPc' = [workerPc EXCEPT ![w] = "wait"]
        /\ workerTask' = [workerTask EXCEPT ![w] = NoBlock]
        /\ UNCHANGED <<odpVars, requestCounter, taskQueue, stopRequested>>
        /\ PastGate' = PastGate /\ (producerPc = "gate")' = (producerPc = "gate")
    BY <1>8 DEF FinishTask, NotifyCapacity, PastGate
  <2>2. /\ workerPc'[w] = "wait"
        /\ \A u \in Workers \ {w} : workerPc'[u] = workerPc[u] /\ workerTask'[u] = workerTask[u]
    BY <1>0, <2>1
  <2>3. Claimed' = Claimed
    BY <2>1 DEF Claimed
  <2>4. \A q : q \in Reading' <=> q \in Reading
    BY <2>1, <2>2, <2>3, WhoReads, WhoReadsNext
  <2>5. \A q : q \in TasksOf({"store"})' <=> q \in TasksOf({"store"})
    BY <2>1, <2>2, WhoStores
  <2>6. Reading' = Reading
    BY <2>4
  <2>7. TasksOf({"store"})' = TasksOf({"store"})
    BY <2>5
  <2> QED BY <2>1, <2>6, <2>7 DEF OR!vars, OR!odpVars, OR!readVars, odpVars
<1> QED BY <1>1, <1>2, <1>3, <1>4, <1>5, <1>6, <1>7, <1>8 DEF Worker

\* The output thread's steps are the protocol's own.
LEMMA OutputSimulation == Output => OR!Next
<1> SUFFICES ASSUME Output PROVE OR!Next
  OBVIOUS
<1>1. UNCHANGED readerVars
  BY DEF Output, DeliverBlock
<1>2. Reading' = Reading /\ TasksOf({"store"})' = TasksOf({"store"})
  BY <1>1 DEF readerVars, Reading, TasksOf, PastGate, Claimed
<1>3. UNCHANGED OR!readVars
  BY <1>1, <1>2 DEF readerVars, OR!readVars
<1>4. CASE DeliverBlock
  BY <1>3, <1>4 DEF DeliverBlock, OutputDeliver, OR!OutputDeliver, OR!OutputThread,
     OR!OutputStep, OR!Next
<1>5. CASE OutputTake \/ OutputClear \/ OutputAdvance \/ OutputExit
  BY <1>3, <1>5 DEF OutputTake, OutputClear, OutputAdvance, OutputExit, OR!OutputTake,
     OR!OutputClear, OR!OutputAdvance, OR!OutputExit, OR!OutputThread, OR!OutputStep,
     OR!Next
<1> QED BY <1>4, <1>5 DEF Output

\* The owner's start, stop and reset are the protocol's.
LEMMA OwnerSimulation ==
  CtlInv /\ (Start \/ RequestStop \/ Stopping \/ Reset) => OR!Next \/ UNCHANGED OR!vars
<1> SUFFICES ASSUME CtlInv, Start \/ RequestStop \/ Stopping \/ Reset
             PROVE  OR!Next \/ UNCHANGED OR!vars
  OBVIOUS
<1> USE DEF OwnerGoes, ProducerGoes
<1>1. CASE Start
  <2>1. producerPc = "none" /\ WorkersOut /\ ~stopRequested /\ producerPc' = "next"
    BY <1>1 DEF Start, CtlInv, OwnerInv
  <2>2. /\ \A w \in Workers : workerPc[w] = "none" /\ workerPc'[w] = "wait"
        /\ UNCHANGED <<requestCounter, taskQueue, workerTask, stopRequested>>
    BY <1>1, <2>1 DEF Start, WorkersOut
  <2>3. \A r : r \in Reading' <=> r \in Reading
    BY <2>1, <2>2, WhoReads, WhoReadsNext DEF PastGate
  <2>4. \A r : r \in TasksOf({"store"})' <=> r \in TasksOf({"store"})
    BY <2>2, WhoStores
  <2>5. Reading' = Reading
    BY <2>3
  <2>6. TasksOf({"store"})' = TasksOf({"store"})
    BY <2>4
  <2>7. UNCHANGED OR!readVars
    BY <2>1, <2>2, <2>5, <2>6 DEF OR!readVars
  <2> QED BY <1>1, <2>1, <2>7 DEF Start, StartProcessing, OR!StartProcessing,
          OR!StartSession, OR!Next
<1>2. CASE RequestStop
  <2>1. CASE stopRequested
    <3>1. UNCHANGED stopRequested
      BY <1>2, <2>1 DEF RequestStop, CtlInv, ThreadInv
    <3> QED BY <1>2, <3>1, Unseen DEF RequestStop, AtGate, PastGate
  <2>2. CASE ~stopRequested
    <3>1. outPc # "none" /\ stopRequested' = TRUE
      BY <1>2 DEF RequestStop, CtlInv, OwnerInv
    <3>2. UNCHANGED <<requestCounter, producerPc, taskQueue, workerPc, workerTask, odpVars>>
      BY <1>2 DEF RequestStop
    <3>3. Reading' = Reading /\ TasksOf({"store"})' = TasksOf({"store"})
      BY <3>2 DEF Reading, TasksOf, PastGate, Claimed
    <3> QED BY <2>2, <3>1, <3>2, <3>3 DEF odpVars, OR!odpVars, OR!RequestStop, OR!Next
  <2> QED BY <2>1, <2>2
<1>3. CASE NotifyStop
  <2>1. \A w \in Workers : /\ workerPc'[w] \in {"acquire", "read"}
                                <=> workerPc[w] \in {"acquire", "read"}
                           /\ workerPc'[w] = "store" <=> workerPc[w] = "store"
    BY <1>3 DEF NotifyStop, WakeAllWorkers, TaskSleepers
  <2> QED BY <1>3, <2>1, Unseen DEF NotifyStop, AtGate, PastGate
<1>4. CASE JoinReaders
  <2>1. \A w \in Workers : workerPc[w] = "exited" /\ workerPc'[w] = "none"
    BY <1>4 DEF JoinReaders
  <2> QED BY <1>4, <2>1, Unseen DEF JoinReaders, AtGate, PastGate
<1>5. CASE StopOutput \/ JoinOutput
  <2>1. UNCHANGED readerVars
    BY <1>5 DEF StopOutput, JoinOutput
  <2>2. Reading' = Reading /\ TasksOf({"store"})' = TasksOf({"store"})
    BY <2>1 DEF readerVars, Reading, TasksOf, PastGate, Claimed
  <2>3. UNCHANGED OR!readVars
    BY <2>1, <2>2 DEF readerVars, OR!readVars
  <2>4. CASE StopOutput
    <3>1. producerPc = "none" /\ WorkersOut /\ ~stopThread /\ stopRequested
      BY <2>4 DEF StopOutput, CtlInv, OwnerInv
    <3>2. \A r : r \notin TasksOf({"store"})
      BY <3>1, WhoStores DEF WorkersOut
    <3>3. OR!Quiet
      BY <3>1, <3>2 DEF OR!Quiet
    <3> QED BY <2>3, <2>4, <3>1, <3>3 DEF StopOutput, RequestStopProcessing,
            OR!RequestStopProcessing, OR!StopOutput, OR!Next
  <2>5. CASE JoinOutput
    BY <2>3, <2>5 DEF JoinOutput, JoinOutputThread, OR!JoinOutputThread, OR!JoinOutput, OR!Next
  <2> QED BY <1>5, <2>4, <2>5
<1>6. CASE Reset
  <2>1. producerPc = "none" /\ WorkersOut /\ outPc = "none" /\ stopRequested
    BY <1>6 DEF Reset, CtlInv, OwnerInv
  <2>2. UNCHANGED <<producerPc, workerPc, workerTask>> /\ taskQueue' = <<>>
    BY <1>6 DEF Reset
  <2>3. ToSet(taskQueue') = {}
    BY <2>2, EmptySeq, LenProperties DEF ToSet
  <2>4. \A r : r \notin Reading'
    BY <2>1, <2>2, <2>3, WhoReadsNext DEF WorkersOut, PastGate
  <2>5. \A r : r \notin TasksOf({"store"}) /\ r \notin TasksOf({"store"})'
    BY <2>1, <2>2, WhoStores DEF WorkersOut
  <2>6. Reading' = {} /\ TasksOf({"store"}) = {} /\ TasksOf({"store"})' = {}
    BY <2>4, <2>5
  <2>7. OR!Quiet
    BY <2>1, <2>6 DEF OR!Quiet
  <2> QED BY <1>6, <2>1, <2>2, <2>6, <2>7 DEF Reset, ResetProcessor, OR!ResetProcessor,
          Slots, OR!Slots, OR!ResetSession, OR!Next
<1> QED BY <1>1, <1>2, <1>3, <1>4, <1>5, <1>6 DEF Stopping

\* Every step of the reader is a step of the protocol or a stutter.
LEMMA StepSimulation == CtlInv /\ PlaceInv /\ [Next]_vars => [OR!Next]_(OR!vars)
<1> SUFFICES ASSUME CtlInv, PlaceInv, [Next]_vars PROVE OR!Next \/ UNCHANGED OR!vars
  OBVIOUS
<1>1. CASE Producer
  BY <1>1, ProducerSimulation
<1>2. CASE \E w \in Workers : Worker(w)
  BY <1>2, WorkerSimulation
<1>3. CASE Output
  BY <1>3, OutputSimulation
<1>4. CASE DeviceRelease
  BY <1>4, Unseen DEF DeviceRelease, readerVars, AtGate, PastGate
<1>5. CASE Start \/ RequestStop \/ Stopping \/ Reset
  BY <1>5, OwnerSimulation
<1>6. CASE UNCHANGED vars
  BY <1>6, Unseen DEF vars, readerVars, AtGate, PastGate
<1> QED BY <1>1, <1>2, <1>3, <1>4, <1>5, <1>6 DEF Next

\* The producer, its workers, the pool, the output thread and the owner do
\* together what the protocol of the readers allows and nothing else, for
\* every number of workers, slots, buffers and blocks.
THEOREM FollowsProtocol == Spec => ImplementsOrderedRead
<1>1. Init => OR!Init
  BY InitSimulation
<1>2. CtlInv /\ PlaceInv /\ [Next]_vars => [OR!Next]_(OR!vars)
  BY StepSimulation
<1> QED BY <1>1, <1>2, AlwaysCtl, AlwaysPlace, PTL
        DEF Spec, ImplementsOrderedRead, OR!SafeSpec

-----------------------------------------------------------------------------
(* What is proved of OrderedRead holds of the reader.                      *)

ORP == INSTANCE OrderedRead_proofs WITH atGate <- producerPc = "gate",
                                        reading <- Reading,
                                        storing <- TasksOf({"store"})

\* The two instances are of one protocol.
LEMMA SameInit == OR!Init => ORP!Init
  BY DEF OR!Init, ORP!Init, OR!ODPInit, ORP!ODPInit, OR!Slots, ORP!Slots

\* The steps of the two instances are the same.
LEMMA SameProtocol == [OR!Next]_(OR!vars) => [ORP!Next]_(ORP!vars)
  BY DEF OR!Next, ORP!Next, OR!vars, ORP!vars, OR!odpVars, ORP!odpVars, OR!readVars,
     ORP!readVars, OR!ClaimRequest, ORP!ClaimRequest, OR!PassGate, ORP!PassGate,
     OR!LeaveGate, ORP!LeaveGate, OR!BeginProcessData, ORP!BeginProcessData,
     OR!EndProcessData, ORP!EndProcessData, OR!AbandonRead, ORP!AbandonRead,
     OR!StartSession, ORP!StartSession, OR!RequestStop, ORP!RequestStop,
     OR!StopOutput, ORP!StopOutput, OR!JoinOutput, ORP!JoinOutput,
     OR!ResetSession, ORP!ResetSession, OR!OutputStep, ORP!OutputStep,
     OR!ListenerThrows, ORP!ListenerThrows, OR!GateOpen, ORP!GateOpen,
     OR!Claimed, ORP!Claimed, OR!SlotOf, ORP!SlotOf, OR!Slots, ORP!Slots,
     OR!Quiet, ORP!Quiet, OR!StoreBlock, ORP!StoreBlock, OR!MarkFilled,
     ORP!MarkFilled, OR!Occupied, ORP!Occupied, OR!OutputThread,
     ORP!OutputThread, OR!OutputTake, ORP!OutputTake, OR!OutputDeliver,
     ORP!OutputDeliver, OR!OutputThrow, ORP!OutputThrow, OR!OutputClear,
     ORP!OutputClear, OR!OutputAdvance, ORP!OutputAdvance, OR!OutputExit,
     ORP!OutputExit, OR!StartProcessing, ORP!StartProcessing,
     OR!RequestStopProcessing, ORP!RequestStopProcessing, OR!JoinOutputThread,
     ORP!JoinOutputThread, OR!ResetProcessor, ORP!ResetProcessor

\* The window invariant holds initially.
LEMMA InitWindow == Init => ORP!IInv
  BY InitSimulation, SameInit, ORP!InitInv, TotalSlotsAssumption, NoBlockAssumption,
     MaxRequestsAssumption

\* Every step is a step of the protocol that the window theorem is about.
LEMMA ProtocolStep == CtlInv /\ PlaceInv /\ [Next]_vars => [ORP!Next]_(ORP!vars)
  BY StepSimulation, SameProtocol

\* Every step keeps the window, because it is a step of the protocol.
LEMMA StepWindow == CtlInv /\ PlaceInv /\ ORP!IInv /\ [Next]_vars => ORP!IInv'
  BY ProtocolStep, ORP!StepInv, TotalSlotsAssumption, NoBlockAssumption,
     MaxRequestsAssumption

\* The requests of the workers and the blocks in the slots stay within the
\* window, whatever order the workers finish in.
THEOREM WindowHolds == Spec => []ORP!IInv
<1> QED BY InitWindow, StepWindow, AlwaysCtl, AlwaysPlace, PTL DEF Spec

\* The listener gets the blocks that the workers read in request order, none
\* twice, none skipped.
THEOREM DeliveredInOrder == Spec => []OR!InOrder
<1>1. ORP!IInv => OR!InOrder
  BY DEF ORP!IInv, ORP!InOrder, OR!InOrder
<1> QED BY <1>1, WindowHolds, PTL

\* The two instances map to one abstract delivery.
LEMMA SameDelivery ==
  /\ OR!OD!Init <=> ORP!OD!Init
  /\ [ORP!OD!Next]_(ORP!OD!vars) => [OR!OD!Next]_(OR!OD!vars)
<1>1. OR!Accepted = ORP!Accepted /\ OR!Accepted' = ORP!Accepted'
  BY DEF OR!Accepted, ORP!Accepted, OR!Slots, ORP!Slots
<1>2. OR!Requests = ORP!Requests
  BY DEF OR!Requests, ORP!Requests
<1> QED
  BY <1>1, <1>2 DEF OR!OD!Init, ORP!OD!Init, OR!OD!Next, ORP!OD!Next, OR!OD!vars,
     ORP!OD!vars, OR!OD!Accept, ORP!OD!Accept, OR!OD!Deliver, ORP!OD!Deliver,
     OR!OD!Restart, ORP!OD!Restart

\* The reader delivers each block once, in request order.
THEOREM DeliversEachOnce == Spec => OR!ImplementsOrderedDelivery
<1>1. Init => OR!OD!Init
  BY InitSimulation, SameInit, ORP!DeliveryInit, SameDelivery, TotalSlotsAssumption,
     NoBlockAssumption, MaxRequestsAssumption
<1>2. CtlInv /\ PlaceInv /\ ORP!IInv /\ [Next]_vars => [OR!OD!Next]_(OR!OD!vars)
  BY ProtocolStep, ORP!StepSimulation, SameDelivery, TotalSlotsAssumption,
     NoBlockAssumption, MaxRequestsAssumption
<1> QED BY <1>1, <1>2, AlwaysCtl, AlwaysPlace, WindowHolds, PTL
        DEF Spec, OR!ImplementsOrderedDelivery, OR!OD!Spec

\* The two instances name the same stalls.
LEMMA SameStalls == [ORP!KeepsStall]_(ORP!vars) => [OR!KeepsStall]_(OR!vars)
<1>1. OR!Accepted = ORP!Accepted /\ OR!Accepted' = ORP!Accepted'
  BY DEF OR!Accepted, ORP!Accepted, OR!Slots, ORP!Slots
<1>2. OR!Issued = ORP!Issued /\ OR!Issued' = ORP!Issued' /\ OR!Claimed = ORP!Claimed
  BY DEF OR!Issued, ORP!Issued, OR!Claimed, ORP!Claimed
<1>3. (OR!CaughtUp <=> ORP!CaughtUp) /\ OR!Requests = ORP!Requests
  BY <1>2 DEF OR!CaughtUp, ORP!CaughtUp, OR!Requests, ORP!Requests
<1>4. \A r : (OR!Lost(r) <=> ORP!Lost(r)) /\ (OR!Lost(r)' <=> ORP!Lost(r)')
  BY <1>1, <1>2 DEF OR!Lost, ORP!Lost
<1>5. (OR!RequestStop <=> ORP!RequestStop) /\ (OR!ResetSession <=> ORP!ResetSession)
  BY DEF OR!RequestStop, ORP!RequestStop, OR!ResetSession, ORP!ResetSession, OR!odpVars,
     ORP!odpVars, OR!Quiet, ORP!Quiet, OR!ResetProcessor, ORP!ResetProcessor,
     OR!Slots, ORP!Slots
<1> QED
  BY <1>3, <1>4, <1>5 DEF OR!KeepsStall, ORP!KeepsStall, OR!vars, ORP!vars,
     OR!odpVars, ORP!odpVars, OR!readVars, ORP!readVars

\* A stall of the reader lasts until the user stops it, and a block whose read
\* failed is not read again.
THEOREM StalledForGood == Spec => OR!StallsStay
<1>1. CtlInv /\ PlaceInv /\ ORP!IInv /\ [Next]_vars => [OR!KeepsStall]_(OR!vars)
  BY ProtocolStep, ORP!StallsStayStep, SameStalls, TotalSlotsAssumption,
     NoBlockAssumption, MaxRequestsAssumption
<1> QED BY <1>1, AlwaysCtl, AlwaysPlace, WindowHolds, PTL DEF Spec, OR!StallsStay

\* No two threads of the reader meet in a slot.
THEOREM SlotsExclusive == Spec => []OR!SlotExclusive
<1>1. ORP!IInv => OR!SlotExclusive
  BY ORP!SlotExclusiveByInv, TotalSlotsAssumption, NoBlockAssumption,
     MaxRequestsAssumption
     DEF OR!SlotExclusive, ORP!SlotExclusive, OR!NoRefusal, ORP!NoRefusal,
     OR!Occupied, ORP!Occupied, OR!SlotOf, ORP!SlotOf
<1> QED BY <1>1, WindowHolds, PTL

-----------------------------------------------------------------------------
(* Where the pool's blocks are: free, with a worker, in a slot, or with    *)
(* the device.                                                             *)

BufferTypes ==
  /\ freeBlocks \in Nat
  /\ poolWait \in [PoolUsers -> PoolWaits]
  /\ deviceHolds \in 0 .. DeviceBlocks
  /\ slotBlock \in [Slots -> Requests \union {NoBlock}]

BufferInv == BufferTypes /\ BlocksConserved

\* What the window says of the slots, in the reader's terms.
WindowFacts ==
  /\ slotFilled \in [Slots -> BOOLEAN]
  /\ nextOutputSlot \in Slots
  /\ outPc \in {"deliver", "clear"} => slotFilled[nextOutputSlot]
  /\ \A r \in Requests : SlotOf(r) \in Slots
  /\ \A w \in Workers : workerPc[w] = "store" => ~slotFilled[SlotOf(workerTask[w])]

\* The window invariant, said of the workers' slots.
LEMMA WindowGivesFacts == ORP!IInv => WindowFacts
<1> SUFFICES ASSUME ORP!IInv PROVE WindowFacts
  OBVIOUS
<1> USE DEF ORP!IInv, ORP!Slots, Slots, ORP!SlotOf, SlotOf
<1>1. slotFilled \in [Slots -> BOOLEAN] /\ nextOutputSlot \in Slots
  BY DEF ORP!TypeOK
<1>2. outPc \in {"deliver", "clear"} => slotFilled[nextOutputSlot]
  BY DEF ORP!OutputInv
<1>3. \A r \in Requests : SlotOf(r) \in Slots
  BY TotalSlotsAssumption DEF Requests
<1>4. ASSUME NEW w \in Workers, workerPc[w] = "store"
      PROVE  ~slotFilled[SlotOf(workerTask[w])]
  <2>1. workerTask[w] \in TasksOf({"store"})
    BY <1>4, WhoStores
  <2> QED BY <2>1 DEF ORP!InFlightInv
<1> QED BY <1>1, <1>2, <1>3, <1>4 DEF WindowFacts

\* The workers that hold a block, and the slots that do, can be counted.
LEMMA BuffersFinite ==
  /\ IsFiniteSet(Holding) /\ Cardinality(Holding) \in Nat
  /\ IsFiniteSet(InSlots) /\ Cardinality(InSlots) \in Nat
<1>1. Holding \in SUBSET Workers /\ InSlots \in SUBSET Slots
  BY DEF Holding, InSlots
<1>2. IsFiniteSet(Slots)
  BY FS_Interval, TotalSlotsAssumption DEF Slots
<1>3. IsFiniteSet(Holding) /\ IsFiniteSet(InSlots)
  BY <1>1, <1>2, WorkersAssumption, FS_Subset
<1> QED BY <1>3, FS_CardinalityType

\* The counts are numbers.
LEMMA BufferNumbers ==
  BufferInv => /\ freeBlocks \in Nat /\ deviceHolds \in Nat /\ PoolBlocks \in Nat
               /\ Cardinality(Holding) \in Nat /\ Cardinality(InSlots) \in Nat
               /\ freeBlocks + deviceHolds + Cardinality(Holding) + Cardinality(InSlots)
                    = PoolBlocks
  BY BuffersFinite, PoolBlocksAssumption, DeviceBlocksAssumption
  DEF BufferInv, BufferTypes, BlocksConserved

\* A release gives one block back to the pool's count, whoever is woken.
LEMMA ReleaseCounts ==
  ASSUME BufferTypes, ReleaseBlock
  PROVE  freeBlocks' = freeBlocks + 1 /\ poolWait' \in [PoolUsers -> PoolWaits]
  BY DEF BufferTypes, ReleaseBlock, WakeOne, PoolWaits

\* Steps that move no block.
LEMMA NothingMoves ==
  ASSUME BufferInv, BufferTypes', UNCHANGED <<freeBlocks, deviceHolds>>,
         Holding' = Holding, InSlots' = InSlots
  PROVE  BufferInv'
  BY DEF BufferInv, BlocksConserved

\* A worker that is done with its block gives it to the pool.
LEMMA WorkerReleases ==
  ASSUME BufferInv, NEW w \in Holding, Holding' = Holding \ {w}, InSlots' = InSlots,
         ReleaseBlock, UNCHANGED <<deviceHolds, slotBlock>>
  PROVE  BufferInv'
<1>1. freeBlocks' = freeBlocks + 1 /\ poolWait' \in [PoolUsers -> PoolWaits]
  BY ReleaseCounts DEF BufferInv
<1>2. Cardinality(Holding') = Cardinality(Holding) - 1
  BY BuffersFinite, FS_RemoveElement
<1>3. BufferTypes'
  BY <1>1, BufferNumbers DEF BufferInv, BufferTypes
<1> QED BY <1>1, <1>2, <1>3, BufferNumbers DEF BufferInv, BlocksConserved

\* Initially every block is in the pool.
LEMMA InitBuffer == Init => BufferInv
<1> SUFFICES ASSUME Init PROVE BufferInv
  OBVIOUS
<1>1. BufferTypes
  <2>1. /\ freeBlocks \in Nat /\ deviceHolds \in 0 .. DeviceBlocks
        /\ poolWait \in [PoolUsers -> PoolWaits]
    BY PoolBlocksAssumption, DeviceBlocksAssumption DEF Init, PoolInit, PoolWaits
  <2>2. slotBlock \in [Slots -> Requests \union {NoBlock}]
    BY DEF Init, ODPInit
  <2> QED BY <2>1, <2>2 DEF BufferTypes
<1>2. InSlots = {} /\ Holding = {}
  BY DEF Init, ODPInit, InSlots, Holding
<1>3. Cardinality(InSlots) = 0 /\ Cardinality(Holding) = 0
  BY <1>2, FS_EmptySet
<1> QED BY <1>1, <1>3, PoolBlocksAssumption DEF BufferInv, BlocksConserved, Init, PoolInit

\* The producer has no block.
LEMMA ProducerBuffer == CtlInv /\ BufferInv /\ Producer => BufferInv'
<1> SUFFICES ASSUME CtlInv, BufferInv, Producer PROVE BufferInv'
  OBVIOUS
<1>1. UNCHANGED <<odpVars, poolVars, deviceHolds>>
  BY DEF Producer, ClaimRequest, FilesDone, PassGate, LeaveGate, WaitForPendingCapacity,
     EnqueueTask, DrainDone, LastNotify, envVars
<1>2. \A w \in Workers : workerPc'[w] \in {"read", "store"} <=> workerPc[w] \in {"read", "store"}
  <2>1. CASE EnqueueTask
    BY <2>1 DEF EnqueueTask, TaskSleepers, CtlInv, ThreadInv
  <2>2. CASE LastNotify
    BY <2>2 DEF LastNotify, WakeAllWorkers, TaskSleepers
  <2>3. CASE ~EnqueueTask /\ ~LastNotify
    BY <2>3 DEF Producer, ClaimRequest, FilesDone, PassGate, LeaveGate,
       WaitForPendingCapacity, DrainDone
  <2> QED BY <2>1, <2>2, <2>3
<1>3. Holding' = Holding
  BY <1>2 DEF Holding
<1>4. InSlots' = InSlots /\ BufferTypes'
  BY <1>1 DEF InSlots, odpVars, poolVars, BufferInv, BufferTypes
<1> QED BY <1>1, <1>3, <1>4, NothingMoves DEF poolVars

\* A worker takes a block, stores it or gives it back.
LEMMA WorkerBuffer ==
  ASSUME CtlInv, PlaceInv, WindowFacts, BufferInv, NEW w \in Workers, Worker(w)
  PROVE  BufferInv'
<1> USE DEF WorkerGoes, envVars
<1>0. workerPc \in [Workers -> WorkerPcs]
  BY DEF CtlInv, ThreadInv
<1>1. CASE TakeTask(w) \/ WaitForTask(w) \/ FinishTask(w)
  <2>1. UNCHANGED <<odpVars, poolVars, deviceHolds>>
    BY <1>1 DEF TakeTask, WaitForTask, FinishTask
  <2>2. Holding' = Holding
    BY <1>0, <1>1 DEF TakeTask, WaitForTask, FinishTask, Holding
  <2>3. InSlots' = InSlots /\ BufferTypes'
    BY <2>1 DEF InSlots, odpVars, poolVars, BufferInv, BufferTypes
  <2> QED BY <2>1, <2>2, <2>3, NothingMoves DEF poolVars
<1>2. CASE TakeBuffer(w)
  <2>1. /\ freeBlocks > 0 /\ freeBlocks' = freeBlocks - 1
        /\ UNCHANGED <<poolWait, odpVars, deviceHolds>>
        /\ workerPc[w] = "acquire" /\ workerPc' = [workerPc EXCEPT ![w] = "read"]
    BY <1>2 DEF TakeBuffer, AcquireBlock
  <2>2. w \notin Holding /\ Holding' = Holding \union {w}
    BY <1>0, <2>1 DEF Holding
  <2>3. Cardinality(Holding') = Cardinality(Holding) + 1
    BY <2>2, BuffersFinite, FS_AddElement
  <2>4. InSlots' = InSlots
    BY <2>1 DEF InSlots, odpVars
  <2>5. BufferTypes'
    BY <2>1, BufferNumbers DEF BufferInv, BufferTypes, odpVars
  <2> QED BY <2>1, <2>3, <2>4, <2>5, BufferNumbers DEF BufferInv, BlocksConserved
<1>3. CASE WaitForBuffer(w)
  <2>1. UNCHANGED <<odpVars, freeBlocks, deviceHolds, workerPc>>
    BY <1>3 DEF WaitForBuffer, AcquireCheck, AcquireSleep, readerVars
  <2>2. poolWait' \in [PoolUsers -> PoolWaits]
    BY <1>3 DEF WaitForBuffer, AcquireCheck, AcquireSleep, PoolWaits, BufferInv, BufferTypes
  <2>3. Holding' = Holding /\ InSlots' = InSlots /\ BufferTypes'
    BY <2>1, <2>2 DEF Holding, InSlots, odpVars, BufferInv, BufferTypes
  <2> QED BY <2>1, <2>3, NothingMoves
<1>4. CASE DropTask(w)
  <2>1. UNCHANGED <<odpVars, deviceHolds>> /\ workerPc' = [workerPc EXCEPT ![w] = "exited"]
    BY <1>4 DEF DropTask
  <2>2. InSlots' = InSlots /\ UNCHANGED slotBlock
    BY <2>1 DEF InSlots, odpVars
  <2>3. CASE workerPc[w] = "acquire" /\ AcquireStopped(w, stopRequested)
    <3>1. UNCHANGED poolVars
      BY <2>3 DEF AcquireStopped
    <3>2. Holding' = Holding
      BY <1>0, <2>1, <2>3 DEF Holding
    <3>3. BufferTypes'
      BY <2>1, <3>1 DEF odpVars, poolVars, BufferInv, BufferTypes
    <3> QED BY <2>1, <2>2, <3>1, <3>2, <3>3, NothingMoves DEF poolVars
  <2>4. CASE workerPc[w] = "read" /\ ReleaseBlock
    <3>1. w \in Holding /\ Holding' = Holding \ {w}
      BY <1>0, <2>1, <2>4 DEF Holding
    <3> QED BY <2>1, <2>2, <2>4, <3>1, WorkerReleases
  <2> QED BY <1>4, <2>3, <2>4 DEF DropTask
<1>5. CASE ReadBlock(w)
  <2>1. /\ workerPc[w] = "read" /\ StoreBlock(workerTask[w]) /\ UNCHANGED deviceHolds
        /\ workerPc' = [workerPc EXCEPT ![w] =
                          IF Occupied(workerTask[w]) THEN "finish" ELSE "store"]
    BY <1>5 DEF ReadBlock
  <2>2. InSlots' = InSlots
    BY <2>1 DEF StoreBlock, InSlots
  <2>3. CASE Occupied(workerTask[w])
    <3>1. ReleaseBlock /\ UNCHANGED slotBlock
      BY <1>5, <2>3 DEF ReadBlock, StoreBlock
    <3>2. w \in Holding /\ Holding' = Holding \ {w}
      BY <1>0, <2>1, <2>3 DEF Holding
    <3> QED BY <2>1, <2>2, <3>1, <3>2, WorkerReleases
  <2>4. CASE ~Occupied(workerTask[w])
    <3>1. UNCHANGED poolVars
      BY <1>5, <2>4 DEF ReadBlock
    <3>2. Holding' = Holding
      BY <1>0, <2>1, <2>4 DEF Holding
    <3>3. workerTask[w] \in Requests
      BY <2>1 DEF PlaceInv, TaskInv, HasTask, BusyPcs
    <3>4. slotBlock' \in [Slots -> Requests \union {NoBlock}]
      BY <2>1, <3>3 DEF StoreBlock, BufferInv, BufferTypes
    <3>5. BufferTypes'
      BY <2>1, <3>1, <3>4 DEF poolVars, BufferInv, BufferTypes
    <3> QED BY <2>1, <2>2, <3>1, <3>2, <3>5, NothingMoves DEF poolVars
  <2> QED BY <2>3, <2>4
<1>6. CASE ReadFails(w)
  <2>1. /\ workerPc[w] = "read" /\ workerPc' = [workerPc EXCEPT ![w] = "finish"]
        /\ UNCHANGED <<odpVars, deviceHolds>> /\ ReleaseBlock
    BY <1>6 DEF ReadFails
  <2>2. w \in Holding /\ Holding' = Holding \ {w}
    BY <1>0, <2>1 DEF Holding
  <2>3. InSlots' = InSlots /\ UNCHANGED slotBlock
    BY <2>1 DEF InSlots, odpVars
  <2> QED BY <2>1, <2>2, <2>3, WorkerReleases
<1>7. CASE FillSlot(w)
  <2> DEFINE s == SlotOf(workerTask[w])
  <2>1. /\ workerPc[w] = "store" /\ workerPc' = [workerPc EXCEPT ![w] = "finish"]
        /\ MarkFilled(workerTask[w]) /\ UNCHANGED <<poolVars, deviceHolds>>
    BY <1>7 DEF FillSlot
  <2>2. workerTask[w] \in Requests
    BY <2>1 DEF PlaceInv, TaskInv, HasTask, BusyPcs
  <2>3. s \in Slots /\ ~slotFilled[s] /\ (outPc = "clear" => s # nextOutputSlot)
    BY <2>1, <2>2 DEF WindowFacts
  <2>4. /\ slotFilled' = [slotFilled EXCEPT ![s] = TRUE]
        /\ UNCHANGED <<slotBlock, outPc, nextOutputSlot>>
    BY <2>1 DEF MarkFilled
  <2> HIDE DEF s
  <2>5. s \notin InSlots /\ InSlots' = InSlots \union {s}
    BY <2>3, <2>4 DEF InSlots, WindowFacts
  <2>6. w \in Holding /\ Holding' = Holding \ {w}
    BY <1>0, <2>1 DEF Holding
  <2>7. Cardinality(InSlots') = Cardinality(InSlots) + 1
    BY <2>5, BuffersFinite, FS_AddElement
  <2>8. Cardinality(Holding') = Cardinality(Holding) - 1
    BY <2>6, BuffersFinite, FS_RemoveElement
  <2>9. BufferTypes'
    BY <2>1, <2>4 DEF poolVars, BufferInv, BufferTypes
  <2> QED BY <2>1, <2>7, <2>8, <2>9, BufferNumbers DEF BufferInv, BlocksConserved, poolVars
<1> QED BY <1>1, <1>2, <1>3, <1>4, <1>5, <1>6, <1>7 DEF Worker

\* The slot being delivered hands its block to the device or back to the pool.
LEMMA OutputBuffer == WindowFacts /\ BufferInv /\ Output => BufferInv'
<1> SUFFICES ASSUME WindowFacts, BufferInv, Output PROVE BufferInv'
  OBVIOUS
<1>0. UNCHANGED readerVars /\ Holding' = Holding
  BY DEF Output, DeliverBlock, Holding, readerVars
<1>1. CASE DeliverBlock
  <2>1. /\ slotFilled[nextOutputSlot] /\ nextOutputSlot \in Slots
        /\ outPc = "deliver" /\ outPc' = "clear"
        /\ UNCHANGED <<slotFilled, slotBlock, nextOutputSlot>>
    BY <1>1 DEF DeliverBlock, OutputDeliver, WindowFacts
  <2>2. nextOutputSlot \in InSlots /\ InSlots' = InSlots \ {nextOutputSlot}
    BY <2>1 DEF InSlots
  <2>3. Cardinality(InSlots') = Cardinality(InSlots) - 1
    BY <2>2, BuffersFinite, FS_RemoveElement
  <2>4. CASE deviceHolds < DeviceBlocks /\ deviceHolds' = deviceHolds + 1 /\ UNCHANGED poolVars
    <3>1. BufferTypes'
      BY <2>1, <2>4, DeviceBlocksAssumption DEF BufferInv, BufferTypes, poolVars
    <3> QED BY <1>0, <2>3, <2>4, <3>1, BufferNumbers DEF BufferInv, BlocksConserved, poolVars
  <2>5. CASE ReleaseBlock /\ UNCHANGED deviceHolds
    <3>1. freeBlocks' = freeBlocks + 1 /\ poolWait' \in [PoolUsers -> PoolWaits]
      BY <2>5, ReleaseCounts DEF BufferInv
    <3>2. BufferTypes'
      BY <2>1, <2>5, <3>1, BufferNumbers DEF BufferInv, BufferTypes
    <3> QED BY <1>0, <2>3, <2>5, <3>1, <3>2, BufferNumbers DEF BufferInv, BlocksConserved
  <2> QED BY <1>1, <2>4, <2>5 DEF DeliverBlock
<1>2. CASE /\ OutputTake \/ OutputClear \/ OutputAdvance \/ OutputExit
           /\ UNCHANGED <<poolVars, readerVars, envVars>>
  <2>1. BufferTypes'
    BY <1>2 DEF BufferInv, BufferTypes, poolVars, envVars, OutputTake, OutputClear,
       OutputAdvance, OutputExit
  <2>2. CASE OutputClear
    <3>1. /\ outPc = "clear" /\ outPc' = "advance" /\ UNCHANGED nextOutputSlot
          /\ slotFilled' = [slotFilled EXCEPT ![nextOutputSlot] = FALSE]
      BY <2>2 DEF OutputClear
    <3>2. InSlots' = InSlots
      BY <3>1 DEF InSlots, WindowFacts
    <3> QED BY <1>0, <1>2, <2>1, <3>2, NothingMoves DEF poolVars, envVars
  <2>3. CASE OutputTake \/ OutputAdvance \/ OutputExit
    <3>1. UNCHANGED slotFilled /\ outPc # "clear" /\ outPc' # "clear"
      BY <2>3 DEF OutputTake, OutputAdvance, OutputExit
    <3>2. InSlots' = InSlots
      BY <3>1 DEF InSlots
    <3> QED BY <1>0, <1>2, <2>1, <3>2, NothingMoves DEF poolVars, envVars
  <2> QED BY <1>2, <2>2, <2>3
<1> QED BY <1>1, <1>2 DEF Output

\* The device gives its blocks back one at a time.
LEMMA DeviceBuffer == BufferInv /\ DeviceRelease => BufferInv'
<1> SUFFICES ASSUME BufferInv, DeviceRelease PROVE BufferInv'
  OBVIOUS
<1>1. /\ deviceHolds > 0 /\ deviceHolds' = deviceHolds - 1 /\ ReleaseBlock
      /\ UNCHANGED <<odpVars, readerVars>>
  BY DEF DeviceRelease
<1>2. freeBlocks' = freeBlocks + 1 /\ poolWait' \in [PoolUsers -> PoolWaits]
  BY <1>1, ReleaseCounts DEF BufferInv
<1>3. Holding' = Holding /\ InSlots' = InSlots
  BY <1>1 DEF Holding, InSlots, odpVars, readerVars
<1>4. deviceHolds' \in 0 .. DeviceBlocks
  BY <1>1, DeviceBlocksAssumption DEF BufferInv, BufferTypes
<1>5. BufferTypes'
  BY <1>1, <1>2, <1>4, BufferNumbers DEF BufferInv, BufferTypes, odpVars
<1> QED BY <1>1, <1>2, <1>3, <1>5, BufferNumbers DEF BufferInv, BlocksConserved

\* A reset refills the pool when no block is out of its hands but in a slot.
LEMMA OwnerBuffer ==
  CtlInv /\ BufferInv /\ (Start \/ RequestStop \/ Stopping \/ Reset) => BufferInv'
<1> SUFFICES ASSUME CtlInv, BufferInv, Start \/ RequestStop \/ Stopping \/ Reset
             PROVE  BufferInv'
  OBVIOUS
<1> USE DEF OwnerGoes
<1>1. CASE Start \/ JoinReaders
  <2>1. UNCHANGED <<slotFilled, slotBlock, nextOutputSlot, poolVars, deviceHolds>>
    BY <1>1 DEF Start, StartProcessing, JoinReaders, odpVars
  <2>2. outPc' = "clear" <=> outPc = "clear"
    BY <1>1 DEF Start, StartProcessing, JoinReaders, odpVars
  <2>3. \A w \in Workers : /\ workerPc[w] \notin {"read", "store"}
                           /\ workerPc'[w] \notin {"read", "store"}
    BY <1>1 DEF Start, JoinReaders, CtlInv, OwnerInv, WorkersOut
  <2>4. Holding' = Holding
    BY <2>3 DEF Holding
  <2>5. InSlots' = InSlots /\ BufferTypes'
    BY <2>1, <2>2 DEF InSlots, BufferInv, BufferTypes, poolVars
  <2> QED BY <2>1, <2>4, <2>5, NothingMoves DEF poolVars
<1>2. CASE RequestStop \/ NotifyStop
  <2>1. UNCHANGED <<odpVars, freeBlocks, deviceHolds>>
    BY <1>2 DEF RequestStop, NotifyStop, NotifyAll, poolVars
  <2>2. \A w \in Workers : workerPc'[w] \in {"read", "store"} <=> workerPc[w] \in {"read", "store"}
    BY <1>2 DEF RequestStop, NotifyStop, WakeAllWorkers, TaskSleepers
  <2>3. poolWait' \in [PoolUsers -> PoolWaits]
    BY <1>2 DEF RequestStop, NotifyStop, NotifyAll, poolVars, PoolWaits, BufferInv, BufferTypes
  <2>4. Holding' = Holding
    BY <2>2 DEF Holding
  <2>5. InSlots' = InSlots /\ BufferTypes'
    BY <2>1, <2>3 DEF InSlots, odpVars, BufferInv, BufferTypes
  <2> QED BY <2>1, <2>4, <2>5, NothingMoves
<1>3. CASE StopOutput \/ JoinOutput
  <2>1. /\ UNCHANGED <<slotFilled, slotBlock, nextOutputSlot, poolVars, readerVars, deviceHolds>>
        /\ outPc' = "clear" <=> outPc = "clear"
    BY <1>3 DEF StopOutput, RequestStopProcessing, JoinOutput, JoinOutputThread
  <2>2. Holding' = Holding /\ InSlots' = InSlots /\ BufferTypes'
    BY <2>1 DEF Holding, InSlots, readerVars, BufferInv, BufferTypes, poolVars
  <2> QED BY <2>1, <2>2, NothingMoves DEF poolVars
<1>4. CASE Reset
  <2>1. /\ deviceHolds = 0 /\ UNCHANGED <<deviceHolds, workerPc>>
        /\ slotFilled' = [s \in Slots |-> FALSE] /\ slotBlock' = [s \in Slots |-> NoBlock]
        /\ freeBlocks' = PoolBlocks /\ ResetPool
    BY <1>4 DEF Reset, ResetProcessor, ResetPool
  <2>2. poolWait' \in [PoolUsers -> PoolWaits]
    BY <2>1 DEF ResetPool, PoolWaits, BufferInv, BufferTypes
  <2>3. WorkersOut
    BY <1>4 DEF Reset, CtlInv, OwnerInv
  <2>4. InSlots' = {} /\ Holding' = {}
    BY <2>1, <2>3 DEF InSlots, Holding, WorkersOut
  <2>5. Cardinality(InSlots') = 0 /\ Cardinality(Holding') = 0
    BY <2>4, FS_EmptySet
  <2>6. BufferTypes'
    BY <2>1, <2>2, PoolBlocksAssumption DEF BufferInv, BufferTypes
  <2> QED BY <2>1, <2>5, <2>6, PoolBlocksAssumption DEF BufferInv, BlocksConserved
<1> QED BY <1>1, <1>2, <1>3, <1>4 DEF Stopping

\* Every step keeps the buffer invariant.
LEMMA StepBuffer ==
  CtlInv /\ PlaceInv /\ ORP!IInv /\ BufferInv /\ [Next]_vars => BufferInv'
<1> SUFFICES ASSUME CtlInv, PlaceInv, ORP!IInv, BufferInv, [Next]_vars PROVE BufferInv'
  OBVIOUS
<1>1. WindowFacts
  BY WindowGivesFacts
<1>2. CASE UNCHANGED vars
  <2> USE <1>2 DEF vars, odpVars, poolVars, readerVars, envVars
  <2>1. BufferTypes' /\ Holding' = Holding /\ InSlots' = InSlots
    BY DEF BufferInv, BufferTypes, Holding, InSlots
  <2> QED BY <2>1, NothingMoves
<1> QED BY <1>1, <1>2, ProducerBuffer, WorkerBuffer, OutputBuffer, DeviceBuffer, OwnerBuffer
        DEF Next

\* The pool's blocks are all accounted for.
LEMMA AlwaysBuffer == Spec => []BufferInv
<1> QED BY InitBuffer, StepBuffer, AlwaysCtl, AlwaysPlace, WindowHolds, PTL DEF Spec

\* No pool block is lost or released twice by the workers, the output thread
\* or the device, whatever read fails, is refused or dropped, and whenever a
\* stop comes.
THEOREM BuffersConserved == Spec => []BlocksConserved
<1>1. BufferInv => BlocksConserved
  BY DEF BufferInv
<1> QED BY <1>1, AlwaysBuffer, PTL

\* The blocks that are out of the pool bound the free ones.
LEMMA FreeBounded == BufferInv => freeBlocks \in 0 .. PoolBlocks
<1> SUFFICES ASSUME BufferInv PROVE freeBlocks \in 0 .. PoolBlocks
  OBVIOUS
<1> QED BY BufferNumbers

\* In request order, the delivered requests are among those numbered.
LEMMA DeliveredType == CtlInv /\ ORP!IInv => delivered \in Seq(Requests)
<1> SUFFICES ASSUME CtlInv, ORP!IInv PROVE delivered \in Seq(Requests)
  OBVIOUS
<1>1. delivered \in Seq(Nat) /\ Len(delivered) \in Nat
  BY DEF ORP!IInv, ORP!TypeOK
<1>2. Len(delivered) <= requestCounter /\ requestCounter \in 0 .. MaxRequests
  BY <1>1 DEF ORP!IInv, ORP!WindowInv, ORP!Issued, CtlInv, ThreadInv
<1>3. \A i \in 1 .. Len(delivered) : delivered[i] \in Requests
  BY <1>1, <1>2, MaxRequestsAssumption DEF ORP!IInv, ORP!InOrder, Requests
<1> QED BY <1>1, <1>3

\* The variables keep their types: the pool never counts more free blocks
\* than it has, no more than SoftLimit tasks are pending, and what is
\* delivered are blocks of the session.
THEOREM TypeCorrect == Spec => []TypeOK
<1>1. CtlInv /\ PlaceInv /\ PendingInv /\ ORP!IInv /\ BufferInv => TypeOK
  <2> SUFFICES ASSUME CtlInv, PlaceInv, PendingInv, ORP!IInv, BufferInv PROVE TypeOK
    OBVIOUS
  <2>1. /\ slotFilled \in [Slots -> BOOLEAN] /\ nextOutputSlot \in Slots
        /\ stopThread \in BOOLEAN /\ outPc \in OutputPcs
    BY DEF ORP!IInv, ORP!TypeOK, ORP!Slots, Slots, ORP!OutputPcs, OutputPcs
  <2>2. /\ requestCounter \in 0 .. MaxRequests /\ producerPc \in ProducerPcs
        /\ workerPc \in [Workers -> WorkerPcs] /\ readFailed \in BOOLEAN
        /\ stopRequested \in BOOLEAN /\ ownerPc \in OwnerPcs
    BY DEF CtlInv, ThreadInv, OwnerInv
  <2>3. /\ taskQueue \in Seq(Requests) /\ pendingTasks \in 0 .. SoftLimit
        /\ workerTask \in [Workers -> Requests \union {NoBlock}]
    BY DEF PlaceInv, QueueInv, TaskInv, PendingInv
  <2>4. /\ slotBlock \in [Slots -> Requests \union {NoBlock}]
        /\ poolWait \in [Workers -> PoolWaits] /\ deviceHolds \in 0 .. DeviceBlocks
    BY WorkersAssumption DEF BufferInv, BufferTypes
  <2> QED BY <2>1, <2>2, <2>3, <2>4, FreeBounded, DeliveredType DEF TypeOK
<1> QED BY <1>1, AlwaysCtl, AlwaysPlace, AlwaysPending, WindowHolds, AlwaysBuffer, PTL

-----------------------------------------------------------------------------
(* When the producer ends by itself no task is left behind.                *)

\* The requests taken over by the processor or on their way to it.
Known == OR!Accepted \union ToSet(taskQueue) \union TasksOf({"acquire", "read", "store"})

Ended == producerPc \in {"lastNotify", "exited"}

EndInv ==
  /\ ownerPc = "idle" => requestCounter = 0
  /\ ownerPc = "running" =>
       /\ stopRequested => Ended
       /\ Ended => pendingTasks = 0
       /\ ~readFailed => \A r \in Requests : r < Passed => r \in Known

\* Initially nothing has been numbered.
LEMMA InitEnd == Init => EndInv
  BY DEF Init, EndInv

\* The steps that neither take a block over nor hand one on keep what the
\* processor has.
LEMMA SameRingSameBlocks ==
  UNCHANGED <<slotFilled, slotBlock, delivered>> => OR!Accepted' = OR!Accepted
  BY DEF OR!Accepted

\* A worker that calls ProcessData finds its slot free.
LEMMA NeverRefused ==
  ASSUME ORP!IInv, NEW w \in Workers, workerPc[w] = "read"
  PROVE  ~Occupied(workerTask[w])
<1>1. workerTask[w] \in Reading
  BY WhoReads
<1>2. ~slotFilled[ORP!SlotOf(workerTask[w])]
  BY <1>1, ORP!InFlightSlotFree, TotalSlotsAssumption, NoBlockAssumption,
     MaxRequestsAssumption
<1> QED BY <1>2 DEF Occupied, SlotOf, ORP!SlotOf

\* What the processor has taken over it keeps or has delivered, until a
\* reset.
LEMMA WorkerAccepts ==
  ASSUME CtlInv, PlaceInv, ORP!IInv, NEW w \in Workers, Worker(w)
  PROVE  /\ OR!Accepted \subseteq OR!Accepted'
         /\ FillSlot(w) => workerTask[w] \in OR!Accepted'
<1> USE DEF WorkerGoes, envVars
<1>0. WindowFacts
  BY WindowGivesFacts
<1>1. CASE \/ TakeTask(w) \/ WaitForTask(w) \/ TakeBuffer(w) \/ WaitForBuffer(w)
           \/ DropTask(w) \/ ReadFails(w) \/ FinishTask(w)
  <2>1. UNCHANGED <<slotFilled, slotBlock, delivered>>
    BY <1>1 DEF TakeTask, WaitForTask, TakeBuffer, WaitForBuffer, DropTask, ReadFails,
       FinishTask, odpVars
  <2>2. ~FillSlot(w)
    BY <1>1 DEF TakeTask, WaitForTask, TakeBuffer, WaitForBuffer, DropTask, ReadFails,
       FinishTask, FillSlot
  <2> QED BY <2>1, <2>2, SameRingSameBlocks
<1>2. CASE ReadBlock(w)
  <2>1. ~Occupied(workerTask[w])
    BY <1>2, NeverRefused DEF ReadBlock
  <2>2. /\ slotBlock' = [slotBlock EXCEPT ![SlotOf(workerTask[w])] = workerTask[w]]
        /\ UNCHANGED <<slotFilled, delivered>>
    BY <1>2, <2>1 DEF ReadBlock, StoreBlock
  <2>3. slotBlock = [s \in Slots |-> slotBlock[s]]
    BY DEF ORP!IInv, ORP!TypeOK, ORP!Slots, Slots
  <2>4. \A s \in Slots : slotFilled[s] => slotBlock'[s] = slotBlock[s]
    BY <2>1, <2>2, <2>3 DEF Occupied
  <2>5. OR!Accepted' = OR!Accepted
    BY <2>2, <2>4 DEF OR!Accepted, OR!Slots, Slots
  <2>6. ~FillSlot(w)
    BY <1>2 DEF ReadBlock, FillSlot
  <2> QED BY <2>5, <2>6
<1>3. CASE FillSlot(w)
  <2> DEFINE s == SlotOf(workerTask[w])
  <2>1. /\ workerPc[w] = "store"
        /\ slotFilled' = [slotFilled EXCEPT ![s] = TRUE] /\ UNCHANGED <<slotBlock, delivered>>
    BY <1>3 DEF FillSlot, MarkFilled
  <2>2. workerTask[w] \in TasksOf({"store"}) /\ workerTask[w] \in Requests
    BY <2>1, WhoStores DEF PlaceInv, TaskInv, HasTask, BusyPcs
  <2>3. s \in Slots /\ slotBlock[s] = workerTask[w]
    BY <1>0, <2>2 DEF WindowFacts, ORP!IInv, ORP!InFlightInv, ORP!SlotOf, SlotOf
  <2> HIDE DEF s
  <2>4. slotFilled'[s] /\ \A t \in Slots : slotFilled[t] => slotFilled'[t]
    BY <1>0, <2>1, <2>3 DEF WindowFacts
  <2>5. OR!Accepted \subseteq OR!Accepted' /\ slotBlock[s] \in OR!Accepted'
    BY <2>1, <2>3, <2>4 DEF OR!Accepted, OR!Slots, Slots
  <2> QED BY <2>3, <2>5
<1> QED BY <1>1, <1>2, <1>3 DEF Worker

\* The output thread forgets no block it has not delivered.
LEMMA OutputAccepts == ORP!IInv /\ Output => OR!Accepted \subseteq OR!Accepted'
<1> SUFFICES ASSUME ORP!IInv, Output PROVE OR!Accepted \subseteq OR!Accepted'
  OBVIOUS
<1>1. CASE DeliverBlock
  <2>1. /\ delivered' = Append(delivered, slotBlock[nextOutputSlot])
        /\ UNCHANGED <<slotFilled, slotBlock>>
    BY <1>1 DEF DeliverBlock, OutputDeliver
  <2>2. delivered \in Seq(Nat) /\ slotBlock[nextOutputSlot] \in Nat
    <3>1. nextOutputSlot \in ORP!Slots /\ slotFilled[nextOutputSlot]
      BY <1>1 DEF DeliverBlock, OutputDeliver, ORP!IInv, ORP!TypeOK, ORP!OutputInv
    <3> QED BY <3>1 DEF ORP!IInv, ORP!TypeOK, ORP!SlotInv
  <2>3. /\ Len(delivered') = Len(delivered) + 1 /\ Len(delivered) \in Nat
        /\ \A i \in 1 .. Len(delivered) : delivered'[i] = delivered[i]
    BY <2>1, <2>2, QueueAfterAppend
  <2>4. 1 .. Len(delivered) \subseteq 1 .. Len(delivered')
    BY <2>3
  <2> QED BY <2>1, <2>3, <2>4 DEF OR!Accepted
<1>2. CASE OutputClear
  <2>1. ORP!OutputClear
    BY <1>2 DEF OutputClear, ORP!OutputClear
  <2>2. ORP!Accepted' = ORP!Accepted
    BY <2>1, ORP!ClearStep, TotalSlotsAssumption, NoBlockAssumption, MaxRequestsAssumption
  <2> QED BY <2>2 DEF ORP!Accepted, OR!Accepted, ORP!Slots, OR!Slots
<1>3. CASE OutputTake \/ OutputAdvance \/ OutputExit
  BY <1>3, SameRingSameBlocks DEF OutputTake, OutputAdvance, OutputExit
<1> QED BY <1>1, <1>2, <1>3 DEF Output

\* Membership in what is known.
LEMMA WhoIsKnown ==
  /\ \A r : r \in Known <=> \/ r \in OR!Accepted \/ r \in ToSet(taskQueue)
                            \/ \E w \in Workers : /\ workerPc[w] \in {"acquire", "read", "store"}
                                                  /\ r = workerTask[w]
  /\ \A r : r \in Known' <=> \/ r \in OR!Accepted' \/ r \in ToSet(taskQueue')
                             \/ \E w \in Workers : /\ workerPc'[w] \in {"acquire", "read", "store"}
                                                   /\ r = workerTask'[w]
  BY DEF Known, TasksOf

\* A worker passes its request on: only a stop or a failed read loses it.
LEMMA WorkerKeeps ==
  ASSUME CtlInv, PlaceInv, ORP!IInv, NEW w \in Workers, Worker(w), ~DropTask(w), ~readFailed'
  PROVE  Known \subseteq Known' /\ Passed' = Passed
<1> USE DEF WorkerGoes, envVars
<1>0. /\ workerPc \in [Workers -> WorkerPcs]
      /\ workerTask \in [Workers -> Requests \union {NoBlock}]
      /\ OR!Accepted \subseteq OR!Accepted'
  BY WorkerAccepts DEF CtlInv, ThreadInv, PlaceInv, TaskInv
<1>1. Passed' = Passed
  <2>1. UNCHANGED requestCounter /\ (UNCHANGED producerPc \/ NotifyCapacity)
    BY DEF Worker, TakeTask, WaitForTask, TakeBuffer, WaitForBuffer, ReadBlock, ReadFails,
       FillSlot, FinishTask, DropTask, readerVars
  <2>2. InHand' <=> InHand
    BY <2>1 DEF NotifyCapacity, InHand, AtGate, PastGate
  <2> QED BY <2>1, <2>2 DEF Passed, Claimed
<1>2. CASE TakeTask(w)
  <2>1. /\ taskQueue' = Tail(taskQueue) /\ taskQueue # <<>>
        /\ workerPc[w] = "wait" /\ workerPc'[w] = "acquire"
        /\ workerTask'[w] = Head(taskQueue)
        /\ \A u \in Workers \ {w} : workerPc'[u] = workerPc[u] /\ workerTask'[u] = workerTask[u]
    BY <1>0, <1>2 DEF TakeTask
  <2>2. ToSet(taskQueue) = ToSet(taskQueue') \union {Head(taskQueue)}
    BY <2>1, QueueAfterTail DEF PlaceInv, QueueInv
  <2> QED BY <1>0, <1>1, <2>1, <2>2, WhoIsKnown
<1>3. CASE \/ WaitForTask(w) \/ TakeBuffer(w) \/ WaitForBuffer(w)
           \/ ReadBlock(w) \/ FinishTask(w)
  <2>1. UNCHANGED taskQueue
    BY <1>3 DEF WaitForTask, TakeBuffer, WaitForBuffer, ReadBlock, FinishTask, readerVars
  <2>2. CASE ReadBlock(w)
    <3>1. ~Occupied(workerTask[w])
      BY <2>2, NeverRefused DEF ReadBlock
    <3>2. workerPc'[w] = "store" /\ UNCHANGED workerTask
          /\ \A u \in Workers \ {w} : workerPc'[u] = workerPc[u]
      BY <1>0, <2>2, <3>1 DEF ReadBlock
    <3> QED BY <1>0, <1>1, <2>1, <3>2, WhoIsKnown
  <2>3. CASE FinishTask(w)
    <3>1. /\ workerPc[w] = "finish"
          /\ \A u \in Workers \ {w} : workerPc'[u] = workerPc[u] /\ workerTask'[u] = workerTask[u]
      BY <1>0, <2>3 DEF FinishTask
    <3> QED BY <1>0, <1>1, <2>1, <3>1, WhoIsKnown
  <2>4. CASE WaitForTask(w) \/ TakeBuffer(w) \/ WaitForBuffer(w)
    <3>1. UNCHANGED workerTask
      BY <2>4 DEF WaitForTask, TakeBuffer, WaitForBuffer, readerVars
    <3>2. \A u \in Workers : workerPc[u] \in {"acquire", "read", "store"}
                               => workerPc'[u] \in {"acquire", "read", "store"}
      BY <1>0, <2>4 DEF WaitForTask, TakeBuffer, WaitForBuffer, readerVars
    <3> QED BY <1>0, <1>1, <2>1, <3>1, <3>2, WhoIsKnown
  <2> QED BY <1>3, <2>2, <2>3, <2>4
<1>4. CASE ReadFails(w)
  BY <1>4 DEF ReadFails
<1>5. CASE FillSlot(w)
  <2>1. UNCHANGED <<taskQueue, workerTask>>
        /\ \A u \in Workers \ {w} : workerPc'[u] = workerPc[u]
    BY <1>0, <1>5 DEF FillSlot
  <2>2. workerTask[w] \in OR!Accepted'
    BY <1>5, WorkerAccepts
  <2> QED BY <1>0, <1>1, <2>1, <2>2, WhoIsKnown
<1> QED BY <1>2, <1>3, <1>4, <1>5 DEF Worker

\* The producer forgets no request unless there is a stop.
LEMMA ProducerKeeps ==
  ASSUME CtlInv, PlaceInv, Producer, InHand => ~stopRequested
  PROVE  /\ Known \subseteq Known'
         /\ \A r \in Requests : r < Passed' => r < Passed \/ r \in Known'
<1>1. UNCHANGED <<odpVars, workerTask>>
  BY DEF Producer, ClaimRequest, FilesDone, PassGate, LeaveGate, WaitForPendingCapacity,
     EnqueueTask, DrainDone, LastNotify
<1>2. OR!Accepted' = OR!Accepted
  BY <1>1, SameRingSameBlocks DEF odpVars
<1>3. \A w \in Workers : workerPc'[w] \in {"acquire", "read", "store"}
                           <=> workerPc[w] \in {"acquire", "read", "store"}
  <2>1. CASE EnqueueTask
    BY <2>1 DEF EnqueueTask, TaskSleepers, CtlInv, ThreadInv
  <2>2. CASE LastNotify
    BY <2>2 DEF LastNotify, WakeAllWorkers, TaskSleepers
  <2>3. CASE ~EnqueueTask /\ ~LastNotify
    BY <2>3 DEF Producer, ClaimRequest, FilesDone, PassGate, LeaveGate,
       WaitForPendingCapacity, DrainDone
  <2> QED BY <2>1, <2>2, <2>3
<1>4. CASE EnqueueTask
  <2>1. /\ producerPc = "enqueue" /\ producerPc' = "next" /\ UNCHANGED requestCounter
        /\ taskQueue' = Append(taskQueue, Claimed)
    BY <1>4 DEF EnqueueTask, ProducerGoes
  <2>2. Claimed \in Requests /\ Passed = Claimed /\ Passed' = Claimed + 1
    BY <2>1, MaxRequestsAssumption
    DEF CtlInv, ThreadInv, InHand, AtGate, PastGate, Passed, Claimed, Requests
  <2>3. ToSet(taskQueue') = ToSet(taskQueue) \union {Claimed}
    BY <2>1, <2>2, QueueAfterAppend DEF PlaceInv, QueueInv
  <2>4. \A r \in Requests : r < Passed' => r < Passed \/ r = Claimed
    BY <2>2 DEF Requests
  <2> QED BY <1>1, <1>2, <1>3, <2>3, <2>4, WhoIsKnown
<1>5. CASE TasksStay
  <2>1. Passed' = Passed /\ UNCHANGED taskQueue
    BY <1>5 DEF TasksStay
  <2> QED BY <1>1, <1>2, <1>3, <2>1, WhoIsKnown
<1> QED BY <1>4, <1>5, ProducerTasks

\* With nothing pending no worker has a task.
LEMMA NothingPending ==
  ASSUME PlaceInv, PendingInv, pendingTasks = 0
  PROVE  taskQueue = <<>> /\ \A w \in Workers : ~HasTask(w)
<1>1. Len(taskQueue) \in Nat /\ Len(taskQueue) + Cardinality(Busy) = 0
  BY LenProperties DEF PlaceInv, QueueInv, PendingInv, PendingCounts
<1>2. Len(taskQueue) = 0 /\ Cardinality(Busy) = 0
  BY <1>1, BusyFinite
<1>3. Busy = {}
  BY <1>2, BusyFinite, FS_EmptySet
<1>4. taskQueue = <<>>
  BY <1>2, EmptySeq DEF PlaceInv, QueueInv
<1> QED BY <1>3, <1>4 DEF Busy, HasTask

\* While the user lets it run, only the end of the producer raises the stop.
LEMMA RunningStep ==
  ASSUME CtlInv, [Next]_vars, ownerPc = "running", ownerPc' = "running"
  PROVE  \/ Producer \/ \E w \in Workers : Worker(w)
         \/ Output \/ DeviceRelease \/ UNCHANGED vars
  BY DEF Next, Start, RequestStop, Stopping, NotifyStop, JoinReaders, StopOutput, JoinOutput,
     Reset, OwnerGoes

\* Every step keeps what is known of the end.
LEMMA StepEnd ==
  CtlInv /\ PlaceInv /\ PendingInv /\ ORP!IInv /\ EndInv /\ [Next]_vars => EndInv'
<1> SUFFICES ASSUME CtlInv, PlaceInv, PendingInv, ORP!IInv, EndInv, [Next]_vars PROVE EndInv'
  OBVIOUS
<1>1. ASSUME ownerPc' = "idle" PROVE requestCounter' = 0
  <2>1. CASE Reset
    BY <2>1 DEF Reset
  <2>2. CASE ~Reset
    <3>1. ownerPc = "idle"
      BY <1>1, <2>2 DEF Next, Producer, ClaimRequest, FilesDone, PassGate, LeaveGate,
         WaitForPendingCapacity, EnqueueTask, DrainDone, LastNotify, Worker, TakeTask,
         WaitForTask, TakeBuffer, WaitForBuffer, DropTask, ReadBlock, ReadFails, FillSlot,
         FinishTask, Output, DeliverBlock, DeviceRelease, Start, RequestStop, Stopping,
         NotifyStop, JoinReaders, StopOutput, JoinOutput, OwnerGoes, envVars, vars
    <3>2. producerPc = "none" /\ requestCounter = 0
      BY <3>1 DEF EndInv, CtlInv, OwnerInv
    <3>3. UNCHANGED requestCounter
      BY <2>2, <3>2 DEF Next, Producer, ClaimRequest, FilesDone, PassGate, LeaveGate,
         WaitForPendingCapacity, EnqueueTask, DrainDone, LastNotify, Worker, TakeTask,
         WaitForTask, TakeBuffer, WaitForBuffer, DropTask, ReadBlock, ReadFails, FillSlot,
         FinishTask, Output, DeliverBlock, DeviceRelease, Start, RequestStop, Stopping,
         NotifyStop, JoinReaders, StopOutput, JoinOutput, ProducerGoes, readerVars, vars
    <3> QED BY <3>2, <3>3
  <2> QED BY <2>1, <2>2
<1>2. ASSUME ownerPc' = "running", ownerPc # "running" PROVE EndInv'
  <2>1. Start
    BY <1>2 DEF Next, Producer, ClaimRequest, FilesDone, PassGate, LeaveGate,
       WaitForPendingCapacity, EnqueueTask, DrainDone, LastNotify, Worker, TakeTask,
       WaitForTask, TakeBuffer, WaitForBuffer, DropTask, ReadBlock, ReadFails, FillSlot,
       FinishTask, Output, DeliverBlock, DeviceRelease, Start, RequestStop, Stopping,
       NotifyStop, JoinReaders, StopOutput, JoinOutput, Reset, OwnerGoes, envVars, vars
  <2>2. requestCounter = 0 /\ ~stopRequested
    BY <2>1 DEF Start, OwnerGoes, EndInv, CtlInv, OwnerInv
  <2>3. producerPc' = "next" /\ ~stopRequested' /\ requestCounter' = 0 /\ ownerPc' = "running"
    BY <1>2, <2>1, <2>2 DEF Start
  <2>4. Passed' = 0
    BY <2>3 DEF Passed, InHand, AtGate, PastGate
  <2> QED BY <2>3, <2>4 DEF EndInv, Ended, Requests
<1>3. ASSUME ownerPc' = "running", ownerPc = "running" PROVE EndInv'
  <2>1. /\ stopRequested => Ended
        /\ Ended => pendingTasks = 0
        /\ ~readFailed => \A r \in Requests : r < Passed => r \in Known
        /\ InHand => ~stopRequested
    BY <1>3 DEF EndInv, Ended, InHand, AtGate, PastGate
  <2>2. CASE Producer
    <3>1. Ended' => Ended \/ DrainDone
      BY <2>2 DEF Producer, ClaimRequest, FilesDone, PassGate, LeaveGate,
         WaitForPendingCapacity, EnqueueTask, LastNotify, ProducerGoes, Ended
    <3>2. stopRequested' => Ended'
      BY <2>1, <2>2 DEF Producer, ClaimRequest, FilesDone, PassGate, LeaveGate,
         WaitForPendingCapacity, EnqueueTask, DrainDone, LastNotify, ProducerGoes, Ended
    <3>3. Ended' => pendingTasks' = 0
      <4>1. CASE DrainDone
        <5>1. ~Ended
          BY <4>1 DEF DrainDone, ProducerGoes, Ended
        <5> QED BY <2>1, <4>1, <5>1 DEF DrainDone
      <4>2. CASE Ended
        BY <2>1, <2>2, <4>2 DEF Producer, ClaimRequest, FilesDone, PassGate, LeaveGate,
           WaitForPendingCapacity, EnqueueTask, DrainDone, LastNotify, ProducerGoes, Ended
      <4> QED BY <3>1, <4>1, <4>2
    <3>4. UNCHANGED readFailed
      BY <2>2 DEF Producer, ClaimRequest, FilesDone, PassGate, LeaveGate,
         WaitForPendingCapacity, EnqueueTask, DrainDone, LastNotify
    <3> QED BY <1>3, <2>1, <2>2, <3>2, <3>3, <3>4, ProducerKeeps DEF EndInv
  <2>3. ASSUME NEW w \in Workers, Worker(w) PROVE EndInv'
    <3>1. ~DropTask(w)
      <4> SUFFICES ASSUME DropTask(w) PROVE FALSE
        OBVIOUS
      <4>1. HasTask(w) /\ stopRequested
        BY DEF DropTask, WorkerGoes, HasTask, BusyPcs
      <4> QED BY <2>1, <4>1, NothingPending
    <3>2. Ended => ~FinishTask(w)
      BY <2>1, NothingPending DEF FinishTask, WorkerGoes, HasTask, BusyPcs
    <3>3. UNCHANGED stopRequested /\ (readFailed => readFailed')
      BY <2>3 DEF Worker, TakeTask, WaitForTask, TakeBuffer, WaitForBuffer, DropTask,
         ReadBlock, ReadFails, FillSlot, FinishTask, readerVars
    <3>4. Ended' <=> Ended
      BY <2>3 DEF Worker, TakeTask, WaitForTask, TakeBuffer, WaitForBuffer, DropTask,
         ReadBlock, ReadFails, FillSlot, FinishTask, NotifyCapacity, readerVars, Ended
    <3>5. UNCHANGED pendingTasks \/ FinishTask(w)
      BY <2>3, <3>1 DEF Worker, TakeTask, WaitForTask, TakeBuffer, WaitForBuffer,
         ReadBlock, ReadFails, FillSlot, readerVars
    <3>6. ~readFailed' => Known \subseteq Known' /\ Passed' = Passed
      BY <2>3, <3>1, WorkerKeeps
    <3> QED BY <1>3, <2>1, <3>2, <3>3, <3>4, <3>5, <3>6 DEF EndInv
  <2>4. CASE Output \/ DeviceRelease \/ UNCHANGED vars
    <3>1. UNCHANGED readerVars
      BY <2>4 DEF Output, DeliverBlock, DeviceRelease, vars
    <3>2. OR!Accepted \subseteq OR!Accepted'
      BY <2>4, OutputAccepts, SameRingSameBlocks DEF DeviceRelease, vars, odpVars
    <3>3. Known \subseteq Known'
      BY <3>1, <3>2, WhoIsKnown DEF readerVars
    <3>4. Passed' = Passed /\ Ended' = Ended
      BY <3>1 DEF readerVars, Passed, InHand, AtGate, PastGate, Claimed, Ended
    <3> QED BY <1>3, <2>1, <3>1, <3>3, <3>4 DEF EndInv, readerVars
  <2> QED BY <1>3, <2>2, <2>3, <2>4, RunningStep
<1>4. ASSUME ownerPc' # "running" PROVE EndInv'
  BY <1>1, <1>4 DEF EndInv
<1> QED BY <1>2, <1>3, <1>4

\* What is known of the end holds throughout.
LEMMA AlwaysEnd == Spec => []EndInv
<1> QED BY InitEnd, StepEnd, AlwaysCtl, AlwaysPlace, AlwaysPending, WindowHolds, PTL DEF Spec

\* When the producer ends by itself, and no read has failed, the processor
\* has every block it numbered: the stop flag the producer then raises drops
\* no task of a worker.
THEOREM EndsComplete == Spec => []EndIsComplete
<1>1. CtlInv /\ PlaceInv /\ PendingInv /\ EndInv => EndIsComplete
  <2> SUFFICES ASSUME CtlInv, PlaceInv, PendingInv, EndInv, Ended, ownerPc = "running",
                      ~readFailed, NEW r \in 0 .. Claimed
               PROVE  r \in OR!Accepted
    BY DEF EndIsComplete, Ended
  <2>1. taskQueue = <<>> /\ \A w \in Workers : ~HasTask(w)
    BY NothingPending DEF EndInv
  <2>2. Passed = requestCounter
    BY DEF Passed, InHand, AtGate, PastGate, Ended
  <2>3. r \in Requests /\ r < Passed
    BY <2>2, MaxRequestsAssumption DEF CtlInv, ThreadInv, Claimed, Requests
  <2>4. r \in Known
    BY <2>3 DEF EndInv
  <2>5. ToSet(taskQueue) = {}
    BY <2>1, EmptySeq, LenProperties DEF ToSet
  <2> QED BY <2>1, <2>4, <2>5, WhoIsKnown DEF HasTask, BusyPcs
<1> QED BY <1>1, AlwaysCtl, AlwaysPlace, AlwaysPending, AlwaysEnd, PTL

-----------------------------------------------------------------------------
(* The notification of Stop that a thread has missed does not come again.  *)

\* Stop is in its joins; a worker sleeps, and the producer, the last who could
\* have told it, has ended; or the producer sleeps, and no task is left whose end
\* would wake it.
WorkerSleepsOn(w) == ownerPc = "join" /\ producerPc = "exited" /\ workerPc[w] = "asleep"
ProducerSleepsOn == ownerPc = "join" /\ producerPc = "capAsleep" /\ pendingTasks = 0

\* No step of another thread wakes the worker.
LEMMA WorkerStaysAsleep ==
  ASSUME CtlInv, [Next]_vars, NEW w \in Workers, WorkerSleepsOn(w)
  PROVE  WorkerSleepsOn(w)'
<1> USE DEF WorkerSleepsOn
<1>0. workerPc \in [Workers -> WorkerPcs]
  BY DEF CtlInv, ThreadInv
<1>1. ~Producer
  BY DEF Producer, ClaimRequest, FilesDone, PassGate, LeaveGate, WaitForPendingCapacity,
     EnqueueTask, DrainDone, LastNotify, ProducerGoes
<1>2. ASSUME NEW v \in Workers, Worker(v) PROVE WorkerSleepsOn(w)'
  <2>1. CASE WaitForBuffer(v)
    BY <2>1 DEF WaitForBuffer, readerVars, envVars
  <2>2. CASE ~WaitForBuffer(v)
    <3>1. \E from \in WorkerPcs \ {"asleep"}, to \in WorkerPcs : WorkerGoes(v, from, to)
      BY <1>2, <2>2 DEF Worker, TakeTask, WaitForTask, TakeBuffer, DropTask, ReadBlock,
         ReadFails, FillSlot, FinishTask, WorkerPcs
    <3>2. v # w /\ workerPc'[w] = workerPc[w]
      BY <1>0, <3>1 DEF WorkerGoes
    <3>3. UNCHANGED <<producerPc, ownerPc>>
      BY <1>2, <2>2 DEF Worker, TakeTask, WaitForTask, TakeBuffer, DropTask, ReadBlock,
         ReadFails, FillSlot, FinishTask, NotifyCapacity, envVars
    <3> QED BY <3>2, <3>3
  <2> QED BY <2>1, <2>2
<1>3. CASE Output \/ DeviceRelease
  BY <1>3 DEF Output, DeliverBlock, DeviceRelease, readerVars, envVars
<1>4. ~Start /\ ~RequestStop /\ ~Stopping /\ ~Reset
  BY DEF Start, RequestStop, Stopping, NotifyStop, JoinReaders, StopOutput, JoinOutput,
     Reset, OwnerGoes
<1>5. CASE UNCHANGED vars
  BY <1>5 DEF vars, readerVars, envVars
<1> QED BY <1>1, <1>2, <1>3, <1>4, <1>5 DEF Next

\* With no task pending no worker has one, and none takes one.
LEMMA ProducerStaysAsleep ==
  ASSUME CtlInv, PlaceInv, PendingInv, [Next]_vars, ProducerSleepsOn
  PROVE  ProducerSleepsOn'
<1> USE DEF ProducerSleepsOn
<1>1. taskQueue = <<>> /\ Busy = {}
  BY NothingPending DEF HasTask, Busy
<1>2. ~Producer
  BY DEF Producer, ClaimRequest, FilesDone, PassGate, LeaveGate, WaitForPendingCapacity,
     EnqueueTask, DrainDone, LastNotify, ProducerGoes
<1>3. ASSUME NEW v \in Workers, Worker(v) PROVE ProducerSleepsOn'
  <2>1. workerPc[v] \notin BusyPcs /\ taskQueue = <<>>
    BY <1>1 DEF Busy
  <2>2. WaitForTask(v)
    BY <1>3, <2>1 DEF Worker, TakeTask, TakeBuffer, WaitForBuffer, DropTask, ReadBlock,
       ReadFails, FillSlot, FinishTask, WorkerGoes, BusyPcs
  <2> QED BY <2>2 DEF WaitForTask, envVars
<1>4. CASE Output \/ DeviceRelease
  BY <1>4 DEF Output, DeliverBlock, DeviceRelease, readerVars, envVars
<1>5. ~Start /\ ~RequestStop /\ ~Stopping /\ ~Reset
  BY DEF Start, RequestStop, Stopping, NotifyStop, JoinReaders, StopOutput, JoinOutput,
     Reset, OwnerGoes, ProducerGoes
<1>6. CASE UNCHANGED vars
  BY <1>6 DEF vars, readerVars, envVars
<1> QED BY <1>2, <1>3, <1>4, <1>5, <1>6 DEF Next

\* A thread that misses the notification of Stop sleeps for good, and Stop, which
\* joins it, does not return: the hang in which the trace of StopCompletes ends
\* is one, whatever the other threads do, and so is the producer's.
THEOREM MissedStopIsForGood ==
  Spec => [][/\ \A w \in Workers : WorkerSleepsOn(w) => WorkerSleepsOn(w)'
             /\ ProducerSleepsOn => ProducerSleepsOn']_vars
<1> DEFINE Stays == /\ \A w \in Workers : WorkerSleepsOn(w) => WorkerSleepsOn(w)'
                    /\ ProducerSleepsOn => ProducerSleepsOn'
<1>1. CtlInv /\ PlaceInv /\ PendingInv /\ [Next]_vars => [Stays]_vars
  BY WorkerStaysAsleep, ProducerStaysAsleep
<1> QED BY <1>1, AlwaysCtl, AlwaysPlace, AlwaysPending, PTL DEF Spec
=============================================================================
