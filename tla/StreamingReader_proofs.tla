------------------------ MODULE StreamingReader_proofs ------------------------
(***************************************************************************)
(* StreamingReader follows the OrderedRead protocol, for every ring size,  *)
(* pool size, device and number of blocks.                                 *)
(***************************************************************************)
EXTENDS StreamingReader, FiniteSetTheorems, TLAPS

(***************************************************************************)
(* What is true of the threads in each state of the owner.                 *)
(***************************************************************************)
OwnerInv ==
  /\ ownerPc \in OwnerPcs
  /\ stopThread \in BOOLEAN
  /\ ownerPc = "idle" => producerPc = "none" /\ outPc = "none" /\ ~stopRequested
  /\ ownerPc \in {"running", "notify", "join"}
       => producerPc # "none" /\ outPc # "none" /\ ~stopThread
  /\ ownerPc = "stopOutput" => producerPc = "none" /\ outPc # "none" /\ ~stopThread
  /\ ownerPc = "joinOutput" => producerPc = "none" /\ outPc # "none" /\ stopThread
  /\ ownerPc = "stopped" => producerPc = "none" /\ outPc = "none"
  /\ ownerPc \notin {"idle", "running"} => stopRequested

InLoop == {"gate", "capacity", "acquire", "read", "store"}

LoopInv ==
  /\ producerPc \in ProducerPcs
  /\ requestCounter \in 0 .. MaxRequests
  /\ producerPc \in InLoop => requestCounter > 0
  /\ producerPc \in {"cleanup", "exited"} => stopRequested
  /\ stopRequested \in BOOLEAN

CtlInv == OwnerInv /\ LoopInv

\* Initially nobody has started.
LEMMA InitCtl == Init => CtlInv
<1> SUFFICES ASSUME Init PROVE CtlInv
  OBVIOUS
<1>1. ~stopRequested /\ stopRequested \in BOOLEAN /\ stopThread \in BOOLEAN
  BY DEF Init, ODPInit
<1> QED BY <1>1, MaxRequestsAssumption
  DEF Init, ODPInit, CtlInv, OwnerInv, LoopInv, OwnerPcs, ProducerPcs, InLoop

\* The loop keeps its place consistent with the owner's.
LEMMA LoopCtl == CtlInv /\ StreamingReadLoop => CtlInv'
<1> SUFFICES ASSUME CtlInv, StreamingReadLoop PROVE CtlInv'
  OBVIOUS
<1> USE DEF CtlInv, OwnerInv, LoopInv, ProducerPcs, InLoop, Goes, odpVars, loopVars,
        envVars
<1>1. CASE ClaimRequest
  BY <1>1, MaxRequestsAssumption DEF ClaimRequest
<1>2. CASE FilesDone \/ PassGate \/ LeaveGate \/ WaitForPendingCapacity
  BY <1>2 DEF FilesDone, PassGate, LeaveGate, WaitForPendingCapacity
<1>3. CASE TakeBuffer \/ WaitForBuffer \/ UseOwnBuffer
  BY <1>3 DEF TakeBuffer, WaitForBuffer, UseOwnBuffer
<1>4. CASE ReadBlock \/ ReadFails \/ FillSlot
  BY <1>4 DEF ReadBlock, ReadFails, FillSlot, StoreBlock, MarkFilled
<1>5. CASE DrainDone
  <2>1. stopRequested'
    BY <1>5 DEF DrainDone
  <2> QED BY <1>5, <2>1 DEF DrainDone
<1>6. CASE CleanupBuffer
  BY <1>6 DEF CleanupBuffer
<1> QED BY <1>1, <1>2, <1>3, <1>4, <1>5, <1>6 DEF StreamingReadLoop

\* The output thread and the device do not touch the loop or the owner.
LEMMA OutputCtl == CtlInv /\ (Output \/ DeviceRelease) => CtlInv'
<1> SUFFICES ASSUME CtlInv, Output \/ DeviceRelease PROVE CtlInv'
  OBVIOUS
<1> USE DEF CtlInv, OwnerInv, LoopInv, odpVars, loopVars, envVars
<1>1. CASE DeliverBlock
  BY <1>1 DEF DeliverBlock, OutputDeliver
<1>2. CASE /\ OutputTake \/ OutputClear \/ OutputAdvance \/ OutputExit
           /\ UNCHANGED <<poolVars, loopVars, producerPc, stopRequested, envVars>>
  BY <1>2 DEF OutputTake, OutputClear, OutputAdvance, OutputExit
<1>3. CASE DeviceRelease
  BY <1>3 DEF DeviceRelease
<1> QED BY <1>1, <1>2, <1>3 DEF Output

\* The owner starts both threads together and joins them one after the other.
LEMMA OwnerCtl ==
  CtlInv /\ (Start \/ RequestStop \/ Stopping \/ Reset) => CtlInv'
<1> SUFFICES ASSUME CtlInv, Start \/ RequestStop \/ Stopping \/ Reset PROVE CtlInv'
  OBVIOUS
<1> USE DEF CtlInv, OwnerInv, LoopInv, OwnerPcs, ProducerPcs, InLoop, Goes, OwnerGoes,
        odpVars, loopVars
<1>1. CASE Start
  BY <1>1 DEF Start, StartProcessing
<1>2. CASE RequestStop
  <2>1. stopRequested'
    BY <1>2 DEF RequestStop
  <2> QED BY <1>2, <2>1 DEF RequestStop
<1>3. CASE NotifyStop \/ JoinProducer
  BY <1>3 DEF NotifyStop, JoinProducer
<1>4. CASE StopOutput
  BY <1>4 DEF StopOutput, RequestStopProcessing
<1>5. CASE JoinOutput
  BY <1>5 DEF JoinOutput, JoinOutputThread
<1>6. CASE Reset
  <2>1. ~stopRequested' /\ stopRequested' \in BOOLEAN
    BY <1>6 DEF Reset
  <2> QED BY <1>6, <2>1, MaxRequestsAssumption DEF Reset, ResetProcessor
<1> QED BY <1>1, <1>2, <1>3, <1>4, <1>5, <1>6 DEF Stopping

\* Every step keeps the control invariant.
LEMMA StepCtl == CtlInv /\ [Next]_vars => CtlInv'
<1>1. CtlInv /\ UNCHANGED vars => CtlInv'
  BY DEF CtlInv, OwnerInv, LoopInv, vars, odpVars, loopVars, envVars
<1> QED BY <1>1, LoopCtl, OutputCtl, OwnerCtl DEF Next

\* The control invariant holds throughout.
LEMMA AlwaysCtl == Spec => []CtlInv
<1> QED BY InitCtl, StepCtl, PTL DEF Spec

-----------------------------------------------------------------------------
(* Every step of the reader is a step of OrderedRead or a stutter.         *)

\* Initial states map to initial states of the protocol.
LEMMA InitSimulation == Init => OR!Init
  BY DEF Init, ODPInit, OR!Init, OR!ODPInit, Slots, OR!Slots

\* Steps that the protocol does not see.
LEMMA Unseen ==
  ASSUME UNCHANGED <<odpVars, requestCounter, stopRequested>>,
         \/ UNCHANGED producerPc
         \/ {producerPc, producerPc'} \subseteq {"capacity", "acquire", "read"}
         \/ {producerPc, producerPc'}
              \subseteq {"none", "next", "drain", "cleanup", "exited"}
  PROVE  UNCHANGED OR!vars
  BY DEF odpVars, OR!vars, OR!odpVars, OR!readVars, Claimed

\* Claiming a request and passing the gate are the protocol's steps.
LEMMA GateSimulation ==
  CtlInv /\ (ClaimRequest \/ PassGate \/ LeaveGate) => OR!Next
<1> SUFFICES ASSUME CtlInv, ClaimRequest \/ PassGate \/ LeaveGate PROVE OR!Next
  OBVIOUS
<1> USE DEF CtlInv, OwnerInv, LoopInv, OwnerPcs, InLoop, Goes, odpVars, loopVars, envVars,
            OR!odpVars
<1>1. CASE ClaimRequest
  <2>1. outPc # "none"
    BY <1>1 DEF ClaimRequest
  <2> QED BY <1>1, <2>1 DEF ClaimRequest, OR!Next, OR!ClaimRequest
<1>2. CASE PassGate
  BY <1>2 DEF PassGate, GateOpen, Claimed, SlotOf, OR!Next, OR!PassGate, OR!GateOpen,
     OR!Claimed, OR!SlotOf
<1>3. CASE LeaveGate
  BY <1>3 DEF LeaveGate, OR!Next, OR!LeaveGate
<1> QED BY <1>1, <1>2, <1>3

\* Storing a block and failing a read are the protocol's steps.
LEMMA ReadSimulation ==
  CtlInv /\ (ReadBlock \/ ReadFails \/ FillSlot) => OR!Next
<1> SUFFICES ASSUME CtlInv, ReadBlock \/ ReadFails \/ FillSlot PROVE OR!Next
  OBVIOUS
<1> USE DEF Goes, odpVars, loopVars, envVars, OR!odpVars, Claimed, SlotOf, OR!SlotOf
<1>1. CASE ReadBlock
  BY <1>1 DEF ReadBlock, StoreBlock, Occupied, OR!Next, OR!BeginProcessData,
     OR!StoreBlock, OR!Occupied
<1>2. CASE ReadFails
  BY <1>2 DEF ReadFails, OR!Next, OR!AbandonRead
<1>3. CASE FillSlot
  BY <1>3 DEF FillSlot, MarkFilled, OR!Next, OR!EndProcessData, OR!MarkFilled
<1> QED BY <1>1, <1>2, <1>3

\* The output thread's steps are the protocol's own.
LEMMA OutputSimulation == Output => OR!Next
<1> USE DEF OR!Next, OR!OutputStep, OR!OutputThread, OR!readVars, loopVars, envVars, Claimed
<1>1. DeliverBlock => OR!Next
  BY DEF DeliverBlock, OutputDeliver, OR!OutputDeliver
<1>2. /\ OutputTake \/ OutputClear \/ OutputAdvance \/ OutputExit
      /\ UNCHANGED <<poolVars, loopVars, producerPc, stopRequested, envVars>>
      => OR!Next
  BY DEF OutputTake, OutputClear, OutputAdvance, OutputExit, OR!OutputTake,
     OR!OutputClear, OR!OutputAdvance, OR!OutputExit
<1> QED BY <1>1, <1>2 DEF Output

\* The loop's other steps.  The end of the wait for capacity drops a request
\* when there is a stop, and the end of the files is a stop.
LEMMA LoopSimulation == CtlInv /\ StreamingReadLoop => OR!Next \/ UNCHANGED OR!vars
<1> SUFFICES ASSUME CtlInv, StreamingReadLoop PROVE OR!Next \/ UNCHANGED OR!vars
  OBVIOUS
<1> USE DEF Goes, loopVars, envVars
<1>1. CASE \/ ClaimRequest \/ PassGate \/ LeaveGate
           \/ ReadBlock \/ ReadFails \/ FillSlot
  BY <1>1, GateSimulation, ReadSimulation
<1>2. CASE FilesDone \/ TakeBuffer \/ WaitForBuffer \/ UseOwnBuffer \/ CleanupBuffer
  BY <1>2, Unseen DEF FilesDone, TakeBuffer, WaitForBuffer, UseOwnBuffer, CleanupBuffer
<1>3. CASE WaitForPendingCapacity
  <2>1. CASE ~stopRequested
    BY <1>3, <2>1, Unseen DEF WaitForPendingCapacity
  <2>2. CASE stopRequested
    BY <1>3, <2>2 DEF WaitForPendingCapacity, odpVars, Claimed, OR!Next, OR!AbandonRead,
       OR!odpVars
  <2> QED BY <2>1, <2>2
<1>4. CASE DrainDone
  <2>1. CASE stopRequested
    <3>1. UNCHANGED stopRequested
      BY <1>4, <2>1 DEF DrainDone, CtlInv, LoopInv
    <3> QED BY <1>4, <3>1, Unseen DEF DrainDone
  <2>2. CASE ~stopRequested
    <3>1. outPc # "none"
      BY <1>4 DEF DrainDone, CtlInv, OwnerInv, OwnerPcs
    <3> QED BY <1>4, <2>2, <3>1 DEF DrainDone, odpVars, Claimed, OR!Next, OR!RequestStop,
            OR!odpVars
  <2> QED BY <2>1, <2>2
<1> QED BY <1>1, <1>2, <1>3, <1>4 DEF StreamingReadLoop

\* The owner's start, stop and reset are the protocol's.
LEMMA OwnerSimulation ==
  CtlInv /\ (Start \/ RequestStop \/ Stopping \/ Reset) => OR!Next \/ UNCHANGED OR!vars
<1> SUFFICES ASSUME CtlInv, Start \/ RequestStop \/ Stopping \/ Reset
             PROVE  OR!Next \/ UNCHANGED OR!vars
  OBVIOUS
<1> USE DEF Goes, OwnerGoes, loopVars, OR!Next, OR!readVars, OR!odpVars, OR!Quiet
<1>1. CASE Start
  <2>1. producerPc = "none" /\ ~stopRequested
    BY <1>1 DEF Start, CtlInv, OwnerInv
  <2> QED BY <1>1, <2>1 DEF Start, StartProcessing, OR!StartSession, OR!StartProcessing
<1>2. CASE RequestStop
  <2>1. CASE stopRequested
    <3>1. UNCHANGED stopRequested
      BY <1>2, <2>1 DEF RequestStop, CtlInv, LoopInv
    <3> QED BY <1>2, <3>1, Unseen DEF RequestStop
  <2>2. CASE ~stopRequested
    <3>1. outPc # "none"
      BY <1>2 DEF RequestStop, CtlInv, OwnerInv
    <3> QED BY <1>2, <2>2, <3>1 DEF RequestStop, odpVars, Claimed, OR!RequestStop
  <2> QED BY <2>1, <2>2
<1>3. CASE NotifyStop \/ JoinProducer
  BY <1>3, Unseen DEF NotifyStop, JoinProducer
<1>4. CASE StopOutput
  <2>1. producerPc = "none" /\ ~stopThread /\ stopRequested
    BY <1>4 DEF StopOutput, CtlInv, OwnerInv
  <2> QED BY <1>4, <2>1 DEF StopOutput, RequestStopProcessing, Claimed, OR!StopOutput,
          OR!RequestStopProcessing
<1>5. CASE JoinOutput
  BY <1>5 DEF JoinOutput, JoinOutputThread, Claimed, OR!JoinOutput, OR!JoinOutputThread
<1>6. CASE Reset
  <2>1. producerPc = "none" /\ outPc = "none" /\ stopRequested
    BY <1>6 DEF Reset, CtlInv, OwnerInv
  <2> QED BY <1>6, <2>1 DEF Reset, ResetProcessor, Slots, OR!ResetSession,
          OR!ResetProcessor, OR!Slots
<1> QED BY <1>1, <1>2, <1>3, <1>4, <1>5, <1>6 DEF Stopping

\* Every step of the reader is a step of the protocol or a stutter.
LEMMA StepSimulation == CtlInv /\ [Next]_vars => [OR!Next]_(OR!vars)
<1> SUFFICES ASSUME CtlInv, [Next]_vars PROVE OR!Next \/ UNCHANGED OR!vars
  OBVIOUS
<1>1. CASE StreamingReadLoop
  BY <1>1, LoopSimulation
<1>2. CASE Output
  BY <1>2, OutputSimulation
<1>3. CASE DeviceRelease
  BY <1>3, Unseen DEF DeviceRelease, loopVars
<1>4. CASE Start \/ RequestStop \/ Stopping \/ Reset
  BY <1>4, OwnerSimulation
<1>5. CASE UNCHANGED vars
  BY <1>5, Unseen DEF vars, loopVars
<1> QED BY <1>1, <1>2, <1>3, <1>4, <1>5 DEF Next

\* The streaming loop, with its pool, output thread, device and owner, does
\* what the protocol of the readers allows and nothing else, for every ring,
\* pool, device and number of blocks.
THEOREM FollowsProtocol == Spec => ImplementsOrderedRead
<1>1. Init => OR!Init
  BY InitSimulation
<1>2. CtlInv /\ [Next]_vars => [OR!Next]_(OR!vars)
  BY StepSimulation
<1> QED BY <1>1, <1>2, AlwaysCtl, PTL DEF Spec, ImplementsOrderedRead, OR!SafeSpec

-----------------------------------------------------------------------------
(* What is proved of OrderedRead holds of the reader.                      *)

ORP == INSTANCE OrderedRead_proofs WITH
  atGate <- producerPc = "gate",
  reading <- IF producerPc \in {"capacity", "acquire", "read"} THEN {Claimed} ELSE {},
  storing <- IF producerPc = "store" THEN {Claimed} ELSE {}

\* The two instances are of one protocol.
LEMMA SameInit == OR!Init => ORP!Init
  BY DEF OR!Init, ORP!Init, OR!ODPInit, ORP!ODPInit, OR!Slots, ORP!Slots

\* The steps of the two instances are the same.
LEMMA SameProtocol == [OR!Next]_(OR!vars) => [ORP!Next]_(ORP!vars)
  BY DEF OR!Next, ORP!Next, OR!vars, ORP!vars, OR!odpVars, ORP!odpVars, OR!readVars,
     ORP!readVars, OR!ClaimRequest, ORP!ClaimRequest, OR!PassGate, ORP!PassGate,
     OR!LeaveGate, ORP!LeaveGate, OR!BeginProcessData, ORP!BeginProcessData,
     OR!EndProcessData, ORP!EndProcessData, OR!AbandonRead, ORP!AbandonRead,
     OR!StartSession, ORP!StartSession, OR!RequestStop, ORP!RequestStop,
     OR!StopOutput, ORP!StopOutput, OR!JoinOutput, ORP!JoinOutput,
     OR!ResetSession, ORP!ResetSession, OR!OutputStep, ORP!OutputStep,
     OR!ListenerThrows, ORP!ListenerThrows, OR!GateOpen, ORP!GateOpen,
     OR!Claimed, ORP!Claimed, OR!SlotOf, ORP!SlotOf, OR!Slots, ORP!Slots,
     OR!Quiet, ORP!Quiet, OR!StoreBlock, ORP!StoreBlock, OR!MarkFilled,
     ORP!MarkFilled, OR!Occupied, ORP!Occupied, OR!OutputThread,
     ORP!OutputThread, OR!OutputTake, ORP!OutputTake, OR!OutputDeliver,
     ORP!OutputDeliver, OR!OutputThrow, ORP!OutputThrow, OR!OutputClear,
     ORP!OutputClear, OR!OutputAdvance, ORP!OutputAdvance, OR!OutputExit,
     ORP!OutputExit, OR!StartProcessing, ORP!StartProcessing,
     OR!RequestStopProcessing, ORP!RequestStopProcessing, OR!JoinOutputThread,
     ORP!JoinOutputThread, OR!ResetProcessor, ORP!ResetProcessor

\* The window invariant holds initially.
LEMMA InitWindow == Init => ORP!IInv
  BY InitSimulation, SameInit, ORP!InitInv, TotalSlotsAssumption, NoBlockAssumption,
     MaxRequestsAssumption

\* Every step keeps the window, because it is a step of the protocol.
LEMMA StepWindow == CtlInv /\ ORP!IInv /\ [Next]_vars => ORP!IInv'
  BY StepSimulation, SameProtocol, ORP!StepInv, TotalSlotsAssumption,
     NoBlockAssumption, MaxRequestsAssumption

\* The requests of the streaming loop and the blocks in its slots stay within
\* the window.
THEOREM WindowHolds == Spec => []ORP!IInv
<1> QED BY InitWindow, StepWindow, AlwaysCtl, PTL DEF Spec

\* The listener gets the blocks that the streaming loop reads in file order,
\* none twice, none skipped.
THEOREM DeliveredInOrder == Spec => []OR!InOrder
<1>1. ORP!IInv => OR!InOrder
  BY DEF ORP!IInv, ORP!InOrder, OR!InOrder
<1> QED BY <1>1, WindowHolds, PTL

\* The two instances map to one abstract delivery.
LEMMA SameDelivery ==
  /\ OR!OD!Init <=> ORP!OD!Init
  /\ [ORP!OD!Next]_(ORP!OD!vars) => [OR!OD!Next]_(OR!OD!vars)
<1>1. OR!Accepted = ORP!Accepted /\ OR!Accepted' = ORP!Accepted'
  BY DEF OR!Accepted, ORP!Accepted, OR!Slots, ORP!Slots
<1>2. OR!Requests = ORP!Requests
  BY DEF OR!Requests, ORP!Requests
<1> QED
  BY <1>1, <1>2 DEF OR!OD!Init, ORP!OD!Init, OR!OD!Next, ORP!OD!Next, OR!OD!vars,
     ORP!OD!vars, OR!OD!Accept, ORP!OD!Accept, OR!OD!Deliver, ORP!OD!Deliver,
     OR!OD!Restart, ORP!OD!Restart

\* The reader delivers each block once, in request order.
THEOREM DeliversEachOnce == Spec => OR!ImplementsOrderedDelivery
<1>1. Init => OR!OD!Init
  BY InitSimulation, SameInit, ORP!DeliveryInit, SameDelivery, TotalSlotsAssumption,
     NoBlockAssumption, MaxRequestsAssumption
<1>2. CtlInv /\ ORP!IInv /\ [Next]_vars => [OR!OD!Next]_(OR!OD!vars)
  BY StepSimulation, SameProtocol, ORP!StepSimulation, SameDelivery, TotalSlotsAssumption,
     NoBlockAssumption, MaxRequestsAssumption
<1> QED BY <1>1, <1>2, AlwaysCtl, WindowHolds, PTL
        DEF Spec, OR!ImplementsOrderedDelivery, OR!OD!Spec

\* The two instances name the same stalls.
LEMMA SameStalls == [ORP!KeepsStall]_(ORP!vars) => [OR!KeepsStall]_(OR!vars)
<1>1. OR!Accepted = ORP!Accepted /\ OR!Accepted' = ORP!Accepted'
  BY DEF OR!Accepted, ORP!Accepted, OR!Slots, ORP!Slots
<1>2. OR!Issued = ORP!Issued /\ OR!Issued' = ORP!Issued' /\ OR!Claimed = ORP!Claimed
  BY DEF OR!Issued, ORP!Issued, OR!Claimed, ORP!Claimed
<1>3. (OR!CaughtUp <=> ORP!CaughtUp) /\ OR!Requests = ORP!Requests
  BY <1>2 DEF OR!CaughtUp, ORP!CaughtUp, OR!Requests, ORP!Requests
<1>4. \A r : (OR!Lost(r) <=> ORP!Lost(r)) /\ (OR!Lost(r)' <=> ORP!Lost(r)')
  BY <1>1, <1>2 DEF OR!Lost, ORP!Lost
<1>5. (OR!RequestStop <=> ORP!RequestStop) /\ (OR!ResetSession <=> ORP!ResetSession)
  BY DEF OR!RequestStop, ORP!RequestStop, OR!ResetSession, ORP!ResetSession, OR!odpVars,
     ORP!odpVars, OR!Quiet, ORP!Quiet, OR!ResetProcessor, ORP!ResetProcessor,
     OR!Slots, ORP!Slots
<1> QED
  BY <1>3, <1>4, <1>5 DEF OR!KeepsStall, ORP!KeepsStall, OR!vars, ORP!vars,
     OR!odpVars, ORP!odpVars, OR!readVars, ORP!readVars

\* A stall of the reader lasts until the user stops it, and a block whose read
\* failed is not read again.
THEOREM StalledForGood == Spec => OR!StallsStay
<1>1. CtlInv /\ ORP!IInv /\ [Next]_vars => [OR!KeepsStall]_(OR!vars)
  BY StepSimulation, SameProtocol, ORP!StallsStayStep, SameStalls, TotalSlotsAssumption,
     NoBlockAssumption, MaxRequestsAssumption
<1> QED BY <1>1, AlwaysCtl, WindowHolds, PTL DEF Spec, OR!StallsStay

\* No two threads of the reader meet in a slot.
THEOREM SlotsExclusive == Spec => []OR!SlotExclusive
<1>1. ORP!IInv => OR!SlotExclusive
  BY ORP!SlotExclusiveByInv, TotalSlotsAssumption, NoBlockAssumption,
     MaxRequestsAssumption
     DEF OR!SlotExclusive, ORP!SlotExclusive, OR!NoRefusal, ORP!NoRefusal,
     OR!Occupied, ORP!Occupied, OR!SlotOf, ORP!SlotOf
<1> QED BY <1>1, WindowHolds, PTL

-----------------------------------------------------------------------------
(* The pool's blocks, and the loop's own buffer.                           *)

BufferTypes ==
  /\ freeBlocks \in Nat
  /\ poolWait \in [PoolUsers -> PoolWaits]
  /\ deviceHolds \in 0 .. DeviceBlocks
  /\ ownBuffer \in BOOLEAN
  /\ ownRequests \in SUBSET Requests
  /\ slotBlock \in [Slots -> Requests \union {NoBlock}]

BufferInv == BufferTypes /\ BlocksConserved /\ OwnBufferUsedOnce

\* What the window says of the slots, in the reader's terms.
WindowFacts ==
  /\ slotFilled \in [Slots -> BOOLEAN]
  /\ nextOutputSlot \in Slots
  /\ outPc \in {"deliver", "clear"} => slotFilled[nextOutputSlot]
  /\ outPc = "advance" => ~slotFilled[nextOutputSlot]
  /\ producerPc \in InLoop => Claimed \in Requests /\ SlotOf(Claimed) \in Slots
  /\ producerPc = "store" => /\ ~slotFilled[SlotOf(Claimed)]
                             /\ slotBlock[SlotOf(Claimed)] = Claimed
  /\ producerPc \in {"acquire", "read", "store"}
       => \A s \in Slots : slotFilled[s] => slotBlock[s] # Claimed

\* The window invariant, said of the loop's own slots.
LEMMA WindowGivesFacts == CtlInv /\ ORP!IInv => WindowFacts
<1> SUFFICES ASSUME CtlInv, ORP!IInv PROVE WindowFacts
  OBVIOUS
<1> USE DEF ORP!IInv, ORP!Slots, Slots, ORP!SlotOf, SlotOf
<1>1. slotFilled \in [Slots -> BOOLEAN] /\ nextOutputSlot \in Slots
  BY DEF ORP!TypeOK
<1>2. /\ outPc \in {"deliver", "clear"} => slotFilled[nextOutputSlot]
      /\ outPc = "advance" => ~slotFilled[nextOutputSlot]
  BY DEF ORP!OutputInv
<1>3. producerPc \in InLoop => Claimed \in Requests /\ SlotOf(Claimed) \in Slots
  BY TotalSlotsAssumption, MaxRequestsAssumption
  DEF CtlInv, LoopInv, Claimed, Requests
<1>4. producerPc = "store" => /\ ~slotFilled[SlotOf(Claimed)]
                             /\ slotBlock[SlotOf(Claimed)] = Claimed
  BY DEF ORP!InFlightInv
<1>5. producerPc \in {"acquire", "read", "store"}
        => \A s \in Slots : slotFilled[s] => slotBlock[s] # Claimed
  BY DEF ORP!SlotInv
<1> QED BY <1>1, <1>2, <1>3, <1>4, <1>5 DEF WindowFacts

\* The slots with a pool block can be counted.
LEMMA PoolSlotsFinite == IsFiniteSet(PoolSlots) /\ Cardinality(PoolSlots) \in Nat
<1>1. IsFiniteSet(Slots)
  BY FS_Interval, TotalSlotsAssumption DEF Slots
<1>2. PoolSlots \in SUBSET Slots
  BY DEF PoolSlots
<1>3. IsFiniteSet(PoolSlots)
  BY <1>1, <1>2, FS_Subset
<1> QED BY <1>3, FS_CardinalityType

\* A release gives one block back to the pool's count, whoever is woken.
LEMMA ReleaseCounts ==
  ASSUME BufferTypes, ReleaseBlock
  PROVE  freeBlocks' = freeBlocks + 1 /\ poolWait' \in [PoolUsers -> PoolWaits]
  BY DEF BufferTypes, ReleaseBlock, WakeOne, PoolWaits

\* Initially every block is in the pool.
LEMMA InitBuffer == Init => BufferInv
<1> SUFFICES ASSUME Init PROVE BufferInv
  OBVIOUS
<1>1. BufferTypes /\ OwnBufferUsedOnce
  <2>1. ownBuffer \in BOOLEAN /\ ownRequests = {}
    BY DEF Init
  <2>2. /\ freeBlocks \in Nat /\ deviceHolds \in 0 .. DeviceBlocks
        /\ poolWait \in [PoolUsers -> PoolWaits]
    BY PoolBlocksAssumption, DeviceBlocksAssumption DEF Init, PoolInit, PoolWaits
  <2>3. slotBlock \in [Slots -> Requests \union {NoBlock}]
    BY DEF Init, ODPInit
  <2> QED BY <2>1, <2>2, <2>3 DEF BufferTypes, OwnBufferUsedOnce
<1>2. PoolSlots = {} /\ Held = 0
  BY DEF Init, ODPInit, PoolSlots, Held
<1>3. Cardinality(PoolSlots) = 0
  BY <1>2, FS_EmptySet
<1>4. BlocksConserved
  BY <1>2, <1>3, PoolBlocksAssumption DEF BlocksConserved, Init, PoolInit
<1> QED BY <1>1, <1>4 DEF BufferInv

\* Steps that move no block: the slots, the loop's hands, the device and the
\* pool keep theirs.
LEMMA NothingMoves ==
  ASSUME BlocksConserved, UNCHANGED <<freeBlocks, deviceHolds>>, Held' = Held,
         PoolSlots' = PoolSlots
  PROVE  BlocksConserved'
  BY DEF BlocksConserved

\* The loop takes a block, stores it or gives it back.
LEMMA LoopBuffer ==
  CtlInv /\ WindowFacts /\ BufferInv /\ StreamingReadLoop => BufferInv'
<1> SUFFICES ASSUME CtlInv, WindowFacts, BufferInv, StreamingReadLoop PROVE BufferInv'
  OBVIOUS
<1> USE DEF BufferInv, Goes, loopVars, envVars
<1>0. /\ Cardinality(PoolSlots) \in Nat /\ IsFiniteSet(PoolSlots)
      /\ freeBlocks \in Nat /\ deviceHolds \in Nat /\ PoolBlocks \in Nat
  BY PoolSlotsFinite, PoolBlocksAssumption, DeviceBlocksAssumption DEF BufferTypes
<1>1. CASE ClaimRequest
  <2>1. BufferTypes' /\ Held' = Held /\ PoolSlots' = PoolSlots
    BY <1>1 DEF ClaimRequest, BufferTypes, poolVars, odpVars, Held, PoolSlots, FromPool
  <2>2. OwnBufferUsedOnce'
    BY <1>1 DEF ClaimRequest, OwnBufferUsedOnce
  <2> QED BY <1>1, <2>1, <2>2, NothingMoves DEF ClaimRequest, poolVars
<1>2. CASE FilesDone \/ PassGate \/ LeaveGate \/ WaitForPendingCapacity
  <2> USE <1>2 DEF FilesDone, PassGate, LeaveGate, WaitForPendingCapacity, poolVars, odpVars
  <2>1. BufferTypes' /\ Held' = Held /\ PoolSlots' = PoolSlots /\ OwnBufferUsedOnce'
    BY DEF BufferTypes, Held, PoolSlots, FromPool, OwnBufferUsedOnce, Claimed
  <2> QED BY <2>1, NothingMoves
<1>3. CASE TakeBuffer
  <2> USE <1>3 DEF TakeBuffer, AcquireBlock, odpVars
  <2>1. FromPool(Claimed)
    BY DEF OwnBufferUsedOnce, FromPool
  <2>2. Held = 0 /\ Held' = 1 /\ PoolSlots' = PoolSlots
    BY <2>1 DEF Held, PoolSlots, FromPool, Claimed
  <2>3. BufferTypes' /\ OwnBufferUsedOnce' /\ freeBlocks' = freeBlocks - 1
    BY DEF BufferTypes, OwnBufferUsedOnce, Claimed
  <2> QED BY <1>0, <2>2, <2>3 DEF BlocksConserved
<1>4. CASE WaitForBuffer
  <2> USE <1>4 DEF WaitForBuffer, AcquireCheck, AcquireSleep, odpVars
  <2>1. BufferTypes'
    BY DEF BufferTypes, PoolWaits
  <2>2. Held' = Held /\ PoolSlots' = PoolSlots /\ OwnBufferUsedOnce'
    BY DEF Held, PoolSlots, FromPool, OwnBufferUsedOnce, Claimed
  <2> QED BY <2>1, <2>2, NothingMoves
<1>5. CASE UseOwnBuffer
  <2> USE <1>5 DEF UseOwnBuffer, AcquireStopped, odpVars, poolVars
  <2>1. Claimed \in Requests /\ Claimed' = Claimed
    BY DEF WindowFacts, InLoop, Claimed
  <2>2. BufferTypes' /\ OwnBufferUsedOnce'
    BY <2>1 DEF BufferTypes, OwnBufferUsedOnce
  <2>3. Held' = Held
    BY <2>1 DEF Held, FromPool
  <2>4. PoolSlots' = PoolSlots
    BY DEF PoolSlots, FromPool, WindowFacts, InLoop
  <2> QED BY <2>2, <2>3, <2>4, NothingMoves
<1>6. CASE ReadBlock
  <2>1. Claimed \in Requests /\ SlotOf(Claimed) \in Slots /\ Claimed' = Claimed
    BY <1>6 DEF ReadBlock, WindowFacts, InLoop, Claimed
  <2>2. OwnBufferUsedOnce'
    BY <1>6, <2>1 DEF ReadBlock, OwnBufferUsedOnce
  <2>3. CASE Occupied(Claimed)
    <3>1. PoolSlots' = PoolSlots
      BY <1>6, <2>3 DEF ReadBlock, StoreBlock, PoolSlots, FromPool
    <3>2. CASE FromPool(Claimed)
      <4>1. ReleaseBlock
        BY <1>6, <2>3, <3>2 DEF ReadBlock, GiveBack
      <4>2. Held = 1 /\ Held' = 0
        BY <1>6, <2>3, <3>2 DEF ReadBlock, Held
      <4>3. BufferTypes'
        BY <1>0, <1>6, <2>3, <4>1, ReleaseCounts DEF BufferTypes, ReadBlock, StoreBlock
      <4> QED BY <1>0, <1>6, <2>2, <3>1, <4>1, <4>2, <4>3, ReleaseCounts
              DEF ReadBlock, BlocksConserved
    <3>3. CASE ~FromPool(Claimed)
      <4>1. UNCHANGED poolVars
        BY <1>6, <2>3, <3>3 DEF ReadBlock, GiveBack
      <4>2. Held' = Held
        BY <1>6, <2>1, <2>3, <3>3 DEF ReadBlock, Held, FromPool
      <4>3. BufferTypes'
        BY <1>6, <2>3, <4>1 DEF BufferTypes, ReadBlock, StoreBlock, poolVars
      <4> QED BY <1>6, <2>2, <3>1, <4>1, <4>2, <4>3, NothingMoves DEF ReadBlock, poolVars
    <3> QED BY <3>2, <3>3
  <2>4. CASE ~Occupied(Claimed)
    <3>1. UNCHANGED poolVars
      BY <1>6, <2>4 DEF ReadBlock
    <3>2. Held' = Held
      BY <1>6, <2>1, <2>4 DEF ReadBlock, Held, FromPool
    <3>3. BufferTypes'
      BY <1>6, <2>1, <2>4, <3>1 DEF BufferTypes, ReadBlock, StoreBlock, poolVars
    <3>4. PoolSlots' = PoolSlots
      BY <1>6, <2>1, <2>4 DEF ReadBlock, StoreBlock, PoolSlots, FromPool, Occupied,
         BufferTypes
    <3> QED BY <1>6, <2>2, <3>1, <3>2, <3>3, <3>4, NothingMoves DEF ReadBlock, poolVars
  <2> QED BY <2>3, <2>4
<1>7. CASE ReadFails
  <2>1. OwnBufferUsedOnce' /\ PoolSlots' = PoolSlots /\ Claimed' = Claimed
    BY <1>7 DEF ReadFails, odpVars, OwnBufferUsedOnce, PoolSlots, FromPool, Claimed
  <2>2. CASE FromPool(Claimed)
    <3>1. ReleaseBlock
      BY <1>7, <2>2 DEF ReadFails, GiveBack
    <3>2. Held = 1 /\ Held' = 0
      BY <1>7, <2>2 DEF ReadFails, Held
    <3>3. BufferTypes'
      BY <1>0, <1>7, <3>1, ReleaseCounts DEF BufferTypes, ReadFails, odpVars
    <3> QED BY <1>0, <1>7, <2>1, <3>1, <3>2, <3>3, ReleaseCounts
            DEF ReadFails, BlocksConserved
  <2>3. CASE ~FromPool(Claimed)
    <3>1. UNCHANGED poolVars
      BY <1>7, <2>3 DEF ReadFails, GiveBack
    <3>2. Held' = Held
      BY <1>7, <2>1, <2>3 DEF ReadFails, Held, FromPool
    <3>3. BufferTypes'
      BY <1>7, <3>1 DEF BufferTypes, ReadFails, poolVars, odpVars
    <3> QED BY <1>7, <2>1, <3>1, <3>2, <3>3, NothingMoves DEF ReadFails, poolVars
  <2> QED BY <2>2, <2>3
<1>8. CASE FillSlot
  <2> DEFINE s == SlotOf(Claimed)
  <2>0. /\ s \in Slots /\ ~slotFilled[s] /\ slotBlock[s] = Claimed
        /\ outPc = "clear" => s # nextOutputSlot
    BY <1>8 DEF FillSlot, WindowFacts, InLoop
  <2>1. BufferTypes' /\ OwnBufferUsedOnce' /\ Claimed' = Claimed
    BY <1>8 DEF FillSlot, MarkFilled, BufferTypes, poolVars, OwnBufferUsedOnce, Claimed
  <2>2. slotFilled' = [slotFilled EXCEPT ![s] = TRUE]
    BY <1>8 DEF FillSlot, MarkFilled
  <2>3. UNCHANGED <<slotBlock, outPc, nextOutputSlot, ownRequests, freeBlocks, deviceHolds>>
    BY <1>8 DEF FillSlot, MarkFilled, poolVars
  <2>4. s \notin PoolSlots
    BY <2>0 DEF PoolSlots
  <2> HIDE DEF s
  <2>5. CASE FromPool(Claimed)
    <3>1. PoolSlots' = PoolSlots \union {s}
      BY <2>0, <2>2, <2>3, <2>5 DEF PoolSlots, FromPool, WindowFacts
    <3>2. Held = 1 /\ Held' = 0
      BY <1>8, <2>5 DEF FillSlot, Held
    <3>3. Cardinality(PoolSlots') = Cardinality(PoolSlots) + 1
      BY <1>0, <2>4, <3>1, FS_AddElement
    <3> QED BY <1>0, <2>1, <2>3, <3>2, <3>3 DEF BlocksConserved
  <2>6. CASE ~FromPool(Claimed)
    <3>1. PoolSlots' = PoolSlots
      BY <2>0, <2>2, <2>3, <2>6 DEF PoolSlots, FromPool, WindowFacts
    <3>2. Held' = Held
      BY <1>8, <2>6 DEF FillSlot, Held
    <3> QED BY <2>1, <2>3, <3>1, <3>2, NothingMoves
  <2> QED BY <2>5, <2>6
<1>9. CASE DrainDone \/ CleanupBuffer
  <2>1. PoolSlots' = PoolSlots /\ Held' = Held
    BY <1>9 DEF DrainDone, CleanupBuffer, odpVars, PoolSlots, FromPool, Held
  <2>2. OwnBufferUsedOnce'
    BY <1>9 DEF DrainDone, CleanupBuffer, OwnBufferUsedOnce, Claimed
  <2>3. BufferTypes'
    BY <1>9 DEF DrainDone, CleanupBuffer, odpVars, poolVars, BufferTypes
  <2> QED BY <1>9, <2>1, <2>2, <2>3, NothingMoves DEF DrainDone, CleanupBuffer, poolVars
<1> QED BY <1>1, <1>2, <1>3, <1>4, <1>5, <1>6, <1>7, <1>8, <1>9 DEF StreamingReadLoop

\* The slot being delivered hands its block to the device or back to the pool.
LEMMA OutputBuffer == WindowFacts /\ BufferInv /\ Output => BufferInv'
<1> SUFFICES ASSUME WindowFacts, BufferInv, Output PROVE BufferInv'
  OBVIOUS
<1> USE DEF BufferInv, loopVars, envVars
<1>0. /\ Cardinality(PoolSlots) \in Nat /\ IsFiniteSet(PoolSlots)
      /\ freeBlocks \in Nat /\ deviceHolds \in Nat /\ PoolBlocks \in Nat
      /\ Held \in Nat
  BY PoolSlotsFinite, PoolBlocksAssumption, DeviceBlocksAssumption DEF BufferTypes, Held
<1>1. CASE DeliverBlock
  <2>1. /\ slotFilled[nextOutputSlot] /\ nextOutputSlot \in Slots
        /\ outPc = "deliver" /\ outPc' = "clear"
        /\ UNCHANGED <<slotFilled, slotBlock, nextOutputSlot, loopVars, producerPc,
                       stopRequested>>
    BY <1>1 DEF DeliverBlock, OutputDeliver, WindowFacts
  <2>2. OwnBufferUsedOnce' /\ Held' = Held
    BY <2>1 DEF OwnBufferUsedOnce, Held, FromPool, Claimed
  <2>3. CASE FromPool(Delivering)
    <3>1. nextOutputSlot \in PoolSlots /\ PoolSlots' = PoolSlots \ {nextOutputSlot}
      BY <2>1, <2>3 DEF PoolSlots, FromPool, Delivering
    <3>2. Cardinality(PoolSlots') = Cardinality(PoolSlots) - 1
      BY <1>0, <3>1, FS_RemoveElement
    <3>3. CASE deviceHolds < DeviceBlocks /\ deviceHolds' = deviceHolds + 1
               /\ UNCHANGED poolVars
      <4>1. BufferTypes'
        BY <2>1, <3>3, DeviceBlocksAssumption DEF BufferTypes, poolVars
      <4> QED BY <1>0, <2>2, <3>2, <3>3, <4>1 DEF BlocksConserved, poolVars
    <3>4. CASE ReleaseBlock /\ UNCHANGED deviceHolds
      <4>1. BufferTypes'
        BY <1>0, <2>1, <3>4, ReleaseCounts DEF BufferTypes
      <4> QED BY <1>0, <2>2, <3>2, <3>4, <4>1, ReleaseCounts DEF BlocksConserved
    <3> QED BY <1>1, <2>3, <3>3, <3>4 DEF DeliverBlock
  <2>4. CASE ~FromPool(Delivering)
    <3>1. PoolSlots' = PoolSlots
      BY <2>1, <2>4 DEF PoolSlots, FromPool, Delivering
    <3>2. UNCHANGED <<poolVars, deviceHolds>>
      BY <1>1, <2>4 DEF DeliverBlock
    <3>3. BufferTypes'
      BY <2>1, <3>2 DEF BufferTypes, poolVars
    <3> QED BY <2>2, <3>1, <3>2, <3>3, NothingMoves DEF poolVars
  <2> QED BY <2>3, <2>4
<1>2. CASE /\ OutputTake \/ OutputClear \/ OutputAdvance \/ OutputExit
           /\ UNCHANGED <<poolVars, loopVars, producerPc, stopRequested, envVars>>
  <2>1. OwnBufferUsedOnce' /\ Held' = Held
    BY <1>2 DEF OwnBufferUsedOnce, Held, FromPool, Claimed
  <2>2. BufferTypes'
    BY <1>2 DEF BufferTypes, poolVars, OutputTake, OutputClear, OutputAdvance, OutputExit
  <2>3. PoolSlots' = PoolSlots
    <3>1. CASE OutputClear
      <4>1. outPc = "clear" /\ outPc' = "advance" /\ nextOutputSlot \in Slots
        BY <3>1 DEF OutputClear, WindowFacts
      <4>2. slotFilled' = [slotFilled EXCEPT ![nextOutputSlot] = FALSE]
        BY <3>1 DEF OutputClear
      <4>3. /\ slotBlock' = [slotBlock EXCEPT ![nextOutputSlot] = NoBlock]
            /\ UNCHANGED <<nextOutputSlot, ownRequests>>
        BY <1>2, <3>1 DEF OutputClear
      <4>4. /\ slotFilled \in [Slots -> BOOLEAN]
            /\ slotBlock \in [Slots -> Requests \union {NoBlock}]
        BY DEF WindowFacts, BufferTypes
      <4> QED BY <4>1, <4>2, <4>3, <4>4 DEF PoolSlots, FromPool
    <3>2. CASE OutputTake \/ OutputAdvance \/ OutputExit
      BY <1>2, <3>2 DEF OutputTake, OutputAdvance, OutputExit, PoolSlots, FromPool
    <3> QED BY <1>2, <3>1, <3>2
  <2> QED BY <1>2, <2>1, <2>2, <2>3, NothingMoves DEF poolVars
<1> QED BY <1>1, <1>2 DEF Output

\* The device gives its blocks back one at a time.
LEMMA DeviceBuffer == BufferInv /\ DeviceRelease => BufferInv'
<1> SUFFICES ASSUME BufferInv, DeviceRelease PROVE BufferInv'
  OBVIOUS
<1> USE DEF BufferInv, DeviceRelease, loopVars, odpVars
<1>1. /\ Cardinality(PoolSlots) \in Nat /\ freeBlocks \in Nat
      /\ deviceHolds \in 0 .. DeviceBlocks /\ PoolBlocks \in Nat /\ Held \in Nat
  BY PoolSlotsFinite, PoolBlocksAssumption DEF BufferTypes, Held
<1>2. Held' = Held /\ PoolSlots' = PoolSlots /\ OwnBufferUsedOnce'
  BY DEF Held, PoolSlots, FromPool, OwnBufferUsedOnce, Claimed
<1>3. freeBlocks' = freeBlocks + 1 /\ deviceHolds' = deviceHolds - 1
  BY ReleaseCounts
<1>4. BufferTypes'
  BY <1>1, <1>3, ReleaseCounts, DeviceBlocksAssumption DEF BufferTypes
<1> QED BY <1>1, <1>2, <1>3, <1>4 DEF BlocksConserved

\* A reset refills the pool only when no block is out of its hands.
LEMMA OwnerBuffer ==
  CtlInv /\ BufferInv /\ (Start \/ RequestStop \/ Stopping \/ Reset) => BufferInv'
<1> SUFFICES ASSUME CtlInv, BufferInv, Start \/ RequestStop \/ Stopping \/ Reset
             PROVE  BufferInv'
  OBVIOUS
<1> USE DEF BufferInv, loopVars
<1>1. CASE Start
  <2> USE <1>1 DEF Start, StartProcessing, OwnerGoes
  <2>1. BufferTypes'
    BY DEF BufferTypes, poolVars
  <2>2. Held' = Held /\ PoolSlots' = PoolSlots /\ OwnBufferUsedOnce'
    BY DEF Held, PoolSlots, FromPool, OwnBufferUsedOnce, Claimed, CtlInv, OwnerInv
  <2> QED BY <2>1, <2>2, NothingMoves DEF poolVars
<1>2. CASE RequestStop \/ NotifyStop \/ JoinProducer
  <2> USE <1>2 DEF RequestStop, NotifyStop, NotifyAll, JoinProducer, Goes, OwnerGoes,
                   odpVars, poolVars
  <2>1. BufferTypes'
    BY DEF BufferTypes, PoolWaits
  <2>2. Held' = Held /\ PoolSlots' = PoolSlots /\ OwnBufferUsedOnce'
    BY DEF Held, PoolSlots, FromPool, OwnBufferUsedOnce, Claimed
  <2> QED BY <2>1, <2>2, NothingMoves
<1>3. CASE StopOutput \/ JoinOutput
  <2> USE <1>3 DEF StopOutput, JoinOutput, RequestStopProcessing, JoinOutputThread,
                   OwnerGoes, poolVars
  <2>1. BufferTypes' /\ Held' = Held /\ OwnBufferUsedOnce'
    BY DEF BufferTypes, Held, FromPool, OwnBufferUsedOnce, Claimed
  <2>2. PoolSlots' = PoolSlots
    BY DEF PoolSlots, FromPool
  <2> QED BY <2>1, <2>2, NothingMoves
<1>4. CASE Reset
  <2> USE <1>4 DEF Reset, ResetProcessor, ResetPool, OwnerGoes
  <2>1. BufferTypes'
    BY PoolBlocksAssumption DEF BufferTypes, PoolWaits
  <2>2. OwnBufferUsedOnce'
    BY DEF OwnBufferUsedOnce
  <2>3. PoolSlots' = {} /\ Held' = 0
    BY DEF PoolSlots, Held, CtlInv, OwnerInv
  <2>4. Cardinality(PoolSlots') = 0
    BY <2>3, FS_EmptySet
  <2> QED BY <2>1, <2>2, <2>3, <2>4, PoolBlocksAssumption DEF BlocksConserved
<1> QED BY <1>1, <1>2, <1>3, <1>4 DEF Stopping

\* Every step keeps the buffer invariant.
LEMMA StepBuffer == CtlInv /\ ORP!IInv /\ BufferInv /\ [Next]_vars => BufferInv'
<1> SUFFICES ASSUME CtlInv, ORP!IInv, BufferInv, [Next]_vars PROVE BufferInv'
  OBVIOUS
<1>1. WindowFacts
  BY WindowGivesFacts
<1>2. CASE UNCHANGED vars
  <2> USE <1>2 DEF vars, odpVars, poolVars, loopVars, envVars
  <2>1. BufferTypes' /\ Held' = Held /\ PoolSlots' = PoolSlots /\ OwnBufferUsedOnce'
    BY DEF BufferInv, BufferTypes, Held, PoolSlots, FromPool, OwnBufferUsedOnce, Claimed
  <2> QED BY <2>1, NothingMoves DEF BufferInv
<1> QED BY <1>1, <1>2, LoopBuffer, OutputBuffer, DeviceBuffer, OwnerBuffer DEF Next

\* The pool's blocks are all accounted for, and the loop's own buffer is at
\* most in the slot of the last request of a stopped session.
THEOREM BuffersHold == Spec => []BufferInv
<1> QED BY InitBuffer, StepBuffer, AlwaysCtl, WindowHolds, PTL DEF Spec

\* No pool block is lost or released twice by the streaming loop, the output
\* thread or the device, whatever fails and whenever a stop comes.
THEOREM BuffersConserved == Spec => []BlocksConserved
<1>1. BufferInv => BlocksConserved
  BY DEF BufferInv
<1> QED BY <1>1, BuffersHold, PTL

\* The loop's own buffer takes the last block of a stopped session only, and
\* so is never overwritten while a slot refers to it.
THEOREM OwnBufferOnce == Spec => []OwnBufferUsedOnce
<1>1. BufferInv => OwnBufferUsedOnce
  BY DEF BufferInv
<1> QED BY <1>1, BuffersHold, PTL

\* The blocks that are out of the pool bound the free ones.
LEMMA FreeBounded == BufferInv => freeBlocks \in 0 .. PoolBlocks
<1> SUFFICES ASSUME BufferInv PROVE freeBlocks \in 0 .. PoolBlocks
  OBVIOUS
<1>1. /\ Cardinality(PoolSlots) \in Nat /\ freeBlocks \in Nat /\ deviceHolds \in Nat
      /\ Held \in Nat /\ PoolBlocks \in Nat
  BY PoolSlotsFinite, PoolBlocksAssumption, DeviceBlocksAssumption
  DEF BufferInv, BufferTypes, Held
<1> QED BY <1>1 DEF BufferInv, BlocksConserved

\* In request order, the delivered requests are among those numbered.
LEMMA DeliveredType == CtlInv /\ ORP!IInv => delivered \in Seq(Requests)
<1> SUFFICES ASSUME CtlInv, ORP!IInv PROVE delivered \in Seq(Requests)
  OBVIOUS
<1>1. delivered \in Seq(Nat) /\ Len(delivered) \in Nat
  BY DEF ORP!IInv, ORP!TypeOK
<1>2. Len(delivered) <= requestCounter /\ requestCounter \in 0 .. MaxRequests
  BY <1>1 DEF ORP!IInv, ORP!WindowInv, ORP!Issued, CtlInv, LoopInv
<1>3. \A i \in 1 .. Len(delivered) : delivered[i] \in Requests
  BY <1>1, <1>2, MaxRequestsAssumption DEF ORP!IInv, ORP!InOrder, Requests
<1> QED BY <1>1, <1>3

\* The variables keep their types; the pool never counts more free blocks
\* than it has, and what is delivered are blocks of the session.
THEOREM TypeCorrect == Spec => []TypeOK
<1>1. CtlInv /\ ORP!IInv /\ BufferInv => TypeOK
  <2> SUFFICES ASSUME CtlInv, ORP!IInv, BufferInv PROVE TypeOK
    OBVIOUS
  <2>1. /\ slotFilled \in [Slots -> BOOLEAN] /\ nextOutputSlot \in Slots
        /\ stopThread \in BOOLEAN /\ outPc \in OutputPcs
    BY DEF ORP!IInv, ORP!TypeOK, ORP!Slots, Slots, ORP!OutputPcs, OutputPcs
  <2>2. /\ requestCounter \in 0 .. MaxRequests /\ producerPc \in ProducerPcs
        /\ stopRequested \in BOOLEAN /\ ownerPc \in OwnerPcs
    BY DEF CtlInv, LoopInv, OwnerInv
  <2> QED BY <2>1, <2>2, FreeBounded, DeliveredType DEF TypeOK, BufferInv, BufferTypes
<1> QED BY <1>1, AlwaysCtl, WindowHolds, BuffersHold, PTL
=============================================================================
