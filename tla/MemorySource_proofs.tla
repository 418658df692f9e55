-------------------------- MODULE MemorySource_proofs --------------------------
(***************************************************************************)
(* Proofs about the memory source, which feeds the ordered data processor  *)
(* without a gate: the ring itself keeps its blocks in order, the pool     *)
(* loses none, and only a full ring ends the production, for every size of *)
(* ring and pool, every device and every number of blocks.                 *)
(***************************************************************************)
EXTENDS MemorySource, FiniteSetTheorems, TLAPS

(***************************************************************************)
(* What is true of the threads in each state of the window.                *)
(***************************************************************************)
OwnerInv ==
  /\ ownerPc \in OwnerPcs
  /\ stopThread \in BOOLEAN /\ stopRequested \in BOOLEAN
  /\ ownerPc \in {"idle", "stopOutput", "joinOutput", "stopped"} => producerPc = "none"
  /\ ownerPc \in {"idle", "stopped"} => outPc = "none"
  /\ ownerPc = "idle" => /\ requestCounter = 0 /\ deviceHolds = 0
                         /\ \A s \in Slots : ~slotFilled[s]

\* The producer has numbered a block that it has not yet given up.
InHand == producerPc \in {"acquire", "submit", "copy", "mark"}

\* A session uses the pool or the memory of the copy mode, never both.
ProducerInv ==
  /\ producerPc \in ProducerPcs
  /\ requestCounter \in 0 .. MaxRequests
  /\ InHand => requestCounter > 0
  /\ external \in BOOLEAN /\ hasMemory \in BOOLEAN
  /\ external => ~hasMemory
  /\ producerPc \in {"acquire", "submit"} => external

CtlInv == OwnerInv /\ ProducerInv

(***************************************************************************)
(* The ring.  The producer submits its blocks one after the other, so what *)
(* is in the ring is always a run of numbers: from the first block whose   *)
(* slot has not been cleared up to the last one marked, and each is in its *)
(* own slot.                                                               *)
(***************************************************************************)
Cleared == IF outPc = "clear" THEN Len(delivered) - 1 ELSE Len(delivered)
Emptied == IF outPc \in {"clear", "advance"} THEN Len(delivered) - 1 ELSE Len(delivered)

OutputInv ==
  /\ slotFilled \in [Slots -> BOOLEAN]
  /\ slotBlock \in [Slots -> Nat \union {NoBlock}]
  /\ outPc \in OutputPcs
  /\ delivered \in Seq(Nat)
  /\ \A i \in 1 .. Len(delivered) : delivered[i] = i - 1
  /\ outPc \in {"clear", "advance"} => Len(delivered) > 0
  /\ nextOutputSlot = SlotOf(Emptied)
  /\ outPc \in {"deliver", "clear"} => slotFilled[nextOutputSlot]

\* The blocks before k have been marked.
Run(k) ==
  /\ Cleared <= k /\ Len(delivered) <= k /\ k <= Cleared + TotalSlots
  /\ \A r \in Nat : Cleared <= r /\ r < k => /\ slotFilled[SlotOf(r)]
                                             /\ slotBlock[SlotOf(r)] = r
  /\ \A s \in Slots : slotFilled[s] => /\ slotBlock[s] \in Nat
                                       /\ Cleared <= slotBlock[s] /\ slotBlock[s] < k
                                       /\ SlotOf(slotBlock[s]) = s

\* The count of the blocks marked, and the block that is being stored.
Place(k) ==
  /\ k = requestCounter \/ k = Claimed
  /\ producerPc = "next" => k = requestCounter
  /\ InHand => k = Claimed
  /\ producerPc = "mark" => /\ ~slotFilled[SlotOf(Claimed)]
                            /\ slotBlock[SlotOf(Claimed)] = Claimed
  /\ producerPc = "none" /\ ownerPc = "idle" => k = 0

RingInv == OutputInv /\ (\E k \in Nat : Run(k) /\ Place(k))

\* The counts of the pool and of the device.
PoolTypes ==
  /\ freeBlocks \in Nat
  /\ poolWait \in [PoolUsers -> PoolWaits]
  /\ deviceHolds \in 0 .. DeviceBlocks
  /\ deviceFailed \in BOOLEAN

\* Without memory to copy to, a block that is being marked is of the pool.
PoolInv == /\ PoolTypes
           /\ BlocksConserved

\* What is left in a slot, filled or not, is a block of the session.
BlockTypes == slotBlock \in [Slots -> Requests \union {NoBlock}]

IInv == CtlInv /\ RingInv /\ PoolInv /\ BlockTypes

-----------------------------------------------------------------------------
(* Facts about the slots, as proved for the readers.                       *)

Ring == INSTANCE OrderedRead_proofs WITH
  atGate <- FALSE, reading <- {}, storing <- {}

\* Every block has a slot, one ring further the same one, and the next block
\* the next one; within one ring no two blocks share a slot.
LEMMA SlotFacts ==
  /\ SlotOf(0) = 0
  /\ \A r \in Nat : /\ SlotOf(r) \in Slots
                    /\ SlotOf(r + TotalSlots) = SlotOf(r)
                    /\ (SlotOf(r) + 1) % TotalSlots = SlotOf(r + 1)
  /\ \A lo, q, r \in Nat :
       lo <= q /\ q < lo + TotalSlots /\ lo <= r /\ r < lo + TotalSlots
         /\ SlotOf(q) = SlotOf(r) => q = r
<1> USE TotalSlotsAssumption, NoBlockAssumption, MaxRequestsAssumption
<1>1. \A r : Ring!SlotOf(r) = SlotOf(r)
  BY DEF Ring!SlotOf, SlotOf
<1>2. Ring!Slots = Slots
  BY DEF Ring!Slots, Slots
<1>3. SlotOf(0) = 0
  BY <1>1, Ring!SlotOfZero
<1>4. \A r \in Nat : SlotOf(r) \in Slots
  BY <1>1, <1>2, Ring!SlotOfInRing
<1>5. ASSUME NEW r \in Nat PROVE SlotOf(r + TotalSlots) = SlotOf(r)
  BY <1>1, Ring!SlotOfPeriod
<1>6. ASSUME NEW r \in Nat PROVE (SlotOf(r) + 1) % TotalSlots = SlotOf(r + 1)
  BY <1>1, Ring!SlotOfNext
<1>7. ASSUME NEW lo \in Nat, NEW q \in Nat, NEW r \in Nat,
             lo <= q, q < lo + TotalSlots, lo <= r, r < lo + TotalSlots,
             SlotOf(q) = SlotOf(r)
      PROVE  q = r
  BY <1>1, <1>7, Ring!WindowInjective
<1> QED BY <1>3, <1>4, <1>5, <1>6, <1>7

\* In any run of blocks as long as the ring there is one for each slot.
LEMMA SlotIsUsed ==
  ASSUME NEW lo \in Nat, NEW s \in Slots
  PROVE  \E r \in Nat : lo <= r /\ r < lo + TotalSlots /\ SlotOf(r) = s
<1> USE TotalSlotsAssumption, NoBlockAssumption, MaxRequestsAssumption
<1>1. \A r : Ring!SlotOf(r) = SlotOf(r)
  BY DEF Ring!SlotOf, SlotOf
<1>2. Ring!Slots = Slots
  BY DEF Ring!Slots, Slots
<1> DEFINE x == lo \div TotalSlots
           c == SlotOf(lo)
<1>3. x \in Nat /\ lo = TotalSlots * x + c
  BY <1>1, Ring!Quotient
<1>4. c \in 0 .. (TotalSlots - 1) /\ s \in 0 .. (TotalSlots - 1)
  BY SlotFacts DEF Slots
<1> HIDE DEF x, c
<1>5. ASSUME NEW y \in Nat PROVE TotalSlots * y + s \in Nat /\ SlotOf(TotalSlots * y + s) = s
  <2> DEFINE r == TotalSlots * y + s
             z == r \div TotalSlots
  <2>1. r \in Nat
    BY <1>4
  <2>2. z \in Nat /\ r = TotalSlots * z + SlotOf(r) /\ SlotOf(r) \in Slots
    BY <2>1, <1>1, Ring!Quotient, SlotFacts
  <2> HIDE DEF z
  <2>3. TotalSlots * y + s = TotalSlots * z + SlotOf(r)
    BY <2>2
  <2>4. /\ y \in Int /\ z \in Int
        /\ s \in Ring!Slots /\ SlotOf(r) \in Ring!Slots
    BY <2>2, <1>2
  <2> HIDE DEF r
  <2>5. s = SlotOf(r)
    BY <2>4, <2>3, Ring!UniqueRemainder
  <2> QED BY <2>1, <2>5 DEF r
<1>6. CASE s >= c
  <2>1. lo <= TotalSlots * x + s /\ TotalSlots * x + s < lo + TotalSlots
    BY <1>3, <1>4, <1>6
  <2> QED BY <2>1, <1>3, <1>5
<1>7. CASE s < c
  <2>1. TotalSlots * (x + 1) = TotalSlots * x + TotalSlots
    BY <1>3
  <2>2. lo <= TotalSlots * (x + 1) + s /\ TotalSlots * (x + 1) + s < lo + TotalSlots
    BY <2>1, <1>3, <1>4, <1>7
  <2>3. x + 1 \in Nat
    BY <1>3
  <2> QED BY <2>2, <2>3, <1>5
<1> QED BY <1>4, <1>6, <1>7

-----------------------------------------------------------------------------
(* The threads and the window.                                             *)

\* Initially nothing runs.
LEMMA InitCtl == Init => CtlInv
<1> SUFFICES ASSUME Init PROVE CtlInv
  OBVIOUS
<1>1. OwnerInv
  BY DEF Init, ODPInit, OwnerInv, OwnerPcs
<1>2. external = TRUE /\ hasMemory = FALSE /\ producerPc = "none" /\ requestCounter = 0
  BY DEF Init
<1>3. external \in BOOLEAN /\ hasMemory \in BOOLEAN /\ (external => ~hasMemory)
  BY <1>2
<1>4. ProducerInv
  BY <1>2, <1>3, MaxRequestsAssumption DEF ProducerInv, ProducerPcs, InHand
<1> QED BY <1>1, <1>4 DEF CtlInv

\* The producer's steps.
LEMMA ProducerCtl == CtlInv /\ ownerPc # "crashed" /\ Producer => CtlInv'
<1> SUFFICES ASSUME CtlInv, ownerPc # "crashed", Producer PROVE CtlInv'
  OBVIOUS
<1> USE DEF CtlInv, OwnerInv, ProducerInv, InHand, ProducerPcs, OwnerPcs, Goes, odpVars,
            modeVars, deviceVars
<1>1. CASE ClaimBlock
  BY <1>1, MaxRequestsAssumption DEF ClaimBlock
<1>2. CASE LoopEnds \/ TakeBuffer \/ WaitForBuffer
  BY <1>2 DEF LoopEnds, TakeBuffer, WaitForBuffer
<1>5. CASE FallBackToCopy
  BY <1>5 DEF FallBackToCopy
<1>3. CASE SubmitBlock \/ CopyBlock
  BY <1>3 DEF SubmitBlock, CopyBlock, StoreBlock
<1>4. CASE MarkBlock
  BY <1>4 DEF MarkBlock, MarkFilled
<1> QED BY <1>1, <1>2, <1>3, <1>4, <1>5 DEF Producer

\* A crash, the output thread and the device leave the producer alone.
LEMMA OutputCtl ==
  CtlInv /\ ownerPc # "crashed" /\ (NullDereference \/ Output \/ DeviceRelease) => CtlInv'
<1> SUFFICES ASSUME CtlInv, ownerPc # "crashed", NullDereference \/ Output \/ DeviceRelease
             PROVE  CtlInv'
  OBVIOUS
<1> USE DEF CtlInv, OwnerInv, ProducerInv, InHand, ProducerPcs, OwnerPcs, odpVars, modeVars,
            deviceVars
<1>1. CASE NullDereference
  BY <1>1 DEF NullDereference
<1>2. CASE DeliverBlock
  BY <1>2 DEF DeliverBlock, OutputDeliver
<1>3. CASE /\ OutputTake \/ OutputClear \/ OutputAdvance \/ OutputExit
           /\ UNCHANGED <<poolVars, requestCounter, producerPc, modeVars, stopRequested,
                          deviceVars, ownerPc>>
  <2>1. ownerPc # "idle"
    BY <1>3 DEF OutputTake, OutputClear, OutputAdvance, OutputExit
  <2> QED BY <1>3, <2>1 DEF OutputTake, OutputClear, OutputAdvance, OutputExit
<1>4. CASE DeviceRelease
  <2>1. ownerPc # "idle"
    BY <1>4 DEF DeviceRelease
  <2> QED BY <1>4, <2>1 DEF DeviceRelease
<1> QED BY <1>1, <1>2, <1>3, <1>4 DEF Output

\* The window joins the producer before the output thread.
LEMMA OwnerCtl ==
  CtlInv /\ (Start \/ StopSending \/ Stopping \/ Reset) => CtlInv'
<1> SUFFICES ASSUME CtlInv, Start \/ StopSending \/ Stopping \/ Reset PROVE CtlInv'
  OBVIOUS
<1> USE DEF CtlInv, OwnerInv, ProducerInv, InHand, ProducerPcs, OwnerPcs, OwnerGoes, Goes,
            odpVars, modeVars, deviceVars
<1>1. CASE Start
  BY <1>1 DEF Start, StartProcessing
<1>2. CASE StopSending \/ JoinProducer
  BY <1>2 DEF StopSending, JoinProducer
<1>3. CASE RequestStop
  <2>1. stopRequested' \in BOOLEAN
    BY <1>3 DEF RequestStop
  <2> QED BY <1>3, <2>1 DEF RequestStop
<1>4. CASE StopOutput
  <2>1. stopThread' \in BOOLEAN
    BY <1>4 DEF StopOutput, RequestStopProcessing
  <2> QED BY <1>4, <2>1 DEF StopOutput, RequestStopProcessing
<1>5. CASE JoinOutput
  BY <1>5 DEF JoinOutput, JoinOutputThread
<1>6. CASE Reset
  <2>1. /\ external' \in BOOLEAN /\ hasMemory' \in BOOLEAN /\ (external' => ~hasMemory')
        /\ stopRequested' \in BOOLEAN
    BY <1>6 DEF Reset
  <2>2. \A s \in Slots : ~slotFilled'[s]
    BY <1>6 DEF Reset, ResetProcessor
  <2>3. producerPc' = "none" /\ outPc' = "none" /\ ownerPc' = "idle"
    BY <1>6 DEF Reset, ResetProcessor
  <2> HIDE DEF CtlInv, OwnerInv
  <2>4. OwnerInv'
    BY <1>6, <2>1, <2>2, <2>3 DEF Reset, ResetProcessor, CtlInv, OwnerInv
  <2> QED BY <1>6, <2>1, <2>3, <2>4, MaxRequestsAssumption DEF Reset, CtlInv
<1> QED BY <1>1, <1>2, <1>3, <1>4, <1>5, <1>6 DEF Stopping

\* Every step keeps the threads as the window expects them.
LEMMA StepCtl == CtlInv /\ [Next]_vars => CtlInv'
<1> SUFFICES ASSUME CtlInv, [Next]_vars PROVE CtlInv'
  OBVIOUS
<1>1. CASE UNCHANGED vars
  BY <1>1 DEF vars, odpVars, modeVars, deviceVars, CtlInv, OwnerInv, ProducerInv, InHand
<1> QED BY <1>1, ProducerCtl, OutputCtl, OwnerCtl DEF Next

-----------------------------------------------------------------------------
(* The ring.                                                               *)

RingIsEmpty ==
  /\ slotFilled = [s \in Slots |-> FALSE] /\ slotBlock = [s \in Slots |-> NoBlock]
  /\ nextOutputSlot = 0 /\ outPc = "none" /\ delivered = <<>>

\* An empty ring holds no run but the empty one.
LEMMA EmptyRing == RingIsEmpty => OutputInv /\ Run(0)
<1> SUFFICES ASSUME RingIsEmpty PROVE OutputInv /\ Run(0)
  OBVIOUS
<1> USE DEF RingIsEmpty
<1>1. Len(delivered) = 0 /\ delivered \in Seq(Nat) /\ Cleared = 0 /\ Emptied = 0
  BY DEF Cleared, Emptied
<1>2. \A s \in Slots : ~slotFilled[s]
  OBVIOUS
<1>3. OutputInv
  BY <1>1, <1>2, SlotFacts DEF OutputInv, OutputPcs
<1>4. Run(0)
  BY <1>1, <1>2, TotalSlotsAssumption DEF Run
<1> QED BY <1>3, <1>4

\* What the numbers of a run are.
LEMMA RunNumbers ==
  ASSUME OutputInv, NEW k \in Nat, Run(k)
  PROVE  /\ Len(delivered) \in Nat /\ Cleared \in Nat /\ Emptied \in Nat
         /\ outPc \in {"deliver", "clear"} =>
              /\ Cleared < k /\ Emptied = Cleared
              /\ slotBlock[nextOutputSlot] = Cleared
<1>1. Len(delivered) \in Nat
  BY DEF OutputInv
<1>2. Cleared \in Nat /\ Emptied \in Nat
  BY <1>1 DEF OutputInv, Cleared, Emptied
<1>3. ASSUME outPc \in {"deliver", "clear"}
      PROVE  /\ Cleared < k /\ Emptied = Cleared
             /\ slotBlock[nextOutputSlot] = Cleared
  <2>1. Emptied = Cleared
    BY <1>3 DEF Emptied, Cleared
  <2>2. nextOutputSlot = SlotOf(Cleared) /\ slotFilled[nextOutputSlot] /\ nextOutputSlot \in Slots
    BY <1>2, <1>3, <2>1, SlotFacts DEF OutputInv
  <2> DEFINE b == slotBlock[nextOutputSlot]
  <2>3. b \in Nat /\ Cleared <= b /\ b < k /\ SlotOf(b) = SlotOf(Cleared)
    BY <2>2 DEF Run
  <2>4. k <= Cleared + TotalSlots
    BY DEF Run
  <2> HIDE DEF b
  <2>5. Cleared < k /\ b < Cleared + TotalSlots /\ Cleared < Cleared + TotalSlots
    BY <1>2, <2>3, <2>4, TotalSlotsAssumption
  <2>6. b = Cleared
    BY <1>2, <2>3, <2>5, SlotFacts
  <2> QED BY <2>1, <2>5, <2>6 DEF b
<1> QED BY <1>1, <1>2, <1>3

\* A block that finds its slot occupied laps the ring: every slot is filled,
\* and its own is the first.
LEMMA OccupiedIsFull ==
  ASSUME OutputInv, NEW k \in Nat, Run(k), Occupied(k)
  PROVE  /\ k = Cleared + TotalSlots
         /\ SlotOf(k) = SlotOf(Cleared)
         /\ \A s \in Slots : slotFilled[s]
<1>1. Cleared \in Nat /\ k <= Cleared + TotalSlots /\ Cleared <= k
  BY RunNumbers DEF Run
<1>2. k = Cleared + TotalSlots
  <2> SUFFICES ASSUME k < Cleared + TotalSlots PROVE FALSE
    BY <1>1, TotalSlotsAssumption
  <2> DEFINE b == slotBlock[SlotOf(k)]
  <2>1. b \in Nat /\ Cleared <= b /\ b < k /\ SlotOf(b) = SlotOf(k)
    BY SlotFacts DEF Occupied, Run
  <2> HIDE DEF b
  <2>2. b < Cleared + TotalSlots
    BY <2>1, <1>1, TotalSlotsAssumption
  <2>3. b = k
    BY <1>1, <2>1, <2>2, SlotFacts
  <2> QED BY <2>1, <2>3
<1>3. SlotOf(k) = SlotOf(Cleared)
  BY <1>1, <1>2, SlotFacts
<1>4. ASSUME NEW s \in Slots PROVE slotFilled[s]
  <2>1. PICK r \in Nat : Cleared <= r /\ r < Cleared + TotalSlots /\ SlotOf(r) = s
    BY <1>1, SlotIsUsed
  <2> QED BY <2>1, <1>2 DEF Run
<1> QED BY <1>2, <1>3, <1>4

\* StoreBlock leaves the run as it is, and the block in its slot if that is
\* empty.
LEMMA StoreRun ==
  ASSUME OutputInv, NEW k \in Nat, Run(k), StoreBlock(k)
  PROVE  /\ OutputInv' /\ Run(k)'
         /\ ~Occupied(k) => ~slotFilled'[SlotOf(k)] /\ slotBlock'[SlotOf(k)] = k
<1>1. SlotOf(k) \in Slots
  BY SlotFacts
<1>2. /\ slotBlock' \in [Slots -> Nat \union {NoBlock}]
      /\ \A s \in Slots : slotFilled[s] => slotBlock'[s] = slotBlock[s]
      /\ ~Occupied(k) => slotBlock'[SlotOf(k)] = k
  BY <1>1 DEF StoreBlock, OutputInv, Occupied
<1>3. Cleared' = Cleared /\ Emptied' = Emptied
  BY DEF StoreBlock, Cleared, Emptied
<1>4. OutputInv'
  BY <1>2, <1>3 DEF OutputInv, StoreBlock
<1>5. Run(k)'
  BY <1>2, <1>3, SlotFacts DEF Run, StoreBlock
<1> QED BY <1>2, <1>4, <1>5 DEF StoreBlock, Occupied

\* MarkFilled makes the run one block longer.
LEMMA MarkRun ==
  ASSUME OutputInv, NEW k \in Nat, Run(k), MarkFilled(k),
         ~slotFilled[SlotOf(k)], slotBlock[SlotOf(k)] = k
  PROVE  OutputInv' /\ Run(k + 1)'
<1>1. SlotOf(k) \in Slots
  BY SlotFacts
<1>2. Cleared \in Nat /\ Len(delivered) \in Nat
  BY RunNumbers
<1>3. k < Cleared + TotalSlots
  <2> SUFFICES ASSUME k = Cleared + TotalSlots PROVE FALSE
    BY <1>2, TotalSlotsAssumption DEF Run
  <2>1. SlotOf(k) = SlotOf(Cleared) /\ Cleared < k
    BY <1>2, SlotFacts, TotalSlotsAssumption
  <2> QED BY <1>2, <2>1 DEF Run
<1>4. /\ slotFilled' \in [Slots -> BOOLEAN]
      /\ \A s \in Slots : slotFilled'[s] <=> slotFilled[s] \/ s = SlotOf(k)
  BY <1>1 DEF MarkFilled, OutputInv
<1>5. Cleared' = Cleared /\ Emptied' = Emptied
  BY DEF MarkFilled, Cleared, Emptied
<1>6. OutputInv'
  BY <1>2, <1>4, <1>5, SlotFacts, RunNumbers DEF OutputInv, MarkFilled
<1>7. Run(k + 1)'
  <2>1. Cleared' <= k + 1 /\ Len(delivered)' <= k + 1 /\ k + 1 <= Cleared' + TotalSlots
    BY <1>2, <1>3, <1>5, TotalSlotsAssumption DEF Run, MarkFilled
  <2>2. ASSUME NEW r \in Nat, Cleared <= r, r < k + 1
        PROVE  slotFilled'[SlotOf(r)] /\ slotBlock'[SlotOf(r)] = r
    <3>1. r < k \/ r = k
      BY <2>2
    <3> QED BY <2>2, <3>1, <1>4, SlotFacts DEF Run, MarkFilled
  <2>3. ASSUME NEW s \in Slots, slotFilled'[s]
        PROVE  /\ slotBlock'[s] \in Nat
               /\ Cleared <= slotBlock'[s] /\ slotBlock'[s] < k + 1
               /\ SlotOf(slotBlock'[s]) = s
    <3>1. CASE slotFilled[s]
      BY <3>1, <1>2 DEF Run, MarkFilled
    <3>2. CASE s = SlotOf(k)
      BY <3>2, <1>2 DEF Run, MarkFilled
    <3> QED BY <2>3, <3>1, <3>2, <1>4
  <2> QED BY <2>1, <2>2, <2>3, <1>5 DEF Run
<1> QED BY <1>6, <1>7

\* The output thread's steps keep the run; clearing a slot takes its first
\* block from it.
LEMMA OutputRun ==
  ASSUME OutputInv, NEW k \in Nat, Run(k), OutputThread
  PROVE  OutputInv' /\ Run(k)'
<1>1. /\ Len(delivered) \in Nat /\ Cleared \in Nat /\ Emptied \in Nat
      /\ outPc \in {"deliver", "clear"} =>
              /\ Cleared < k /\ Emptied = Cleared
              /\ slotBlock[nextOutputSlot] = Cleared
  BY RunNumbers
<1>2. CASE OutputTake \/ OutputExit
  <2>1. Cleared' = Cleared /\ Emptied' = Emptied
    BY <1>2 DEF OutputTake, OutputExit, Cleared, Emptied
  <2>2. OutputInv'
    BY <1>2, <2>1 DEF OutputInv, OutputTake, OutputExit, OutputPcs
  <2> QED BY <1>2, <2>1, <2>2 DEF Run, OutputTake, OutputExit
<1>3. CASE OutputDeliver
  <2>1. Cleared = Len(delivered) /\ delivered' = Append(delivered, Len(delivered))
    BY <1>1, <1>3 DEF OutputDeliver, Cleared
  <2>2. /\ delivered' \in Seq(Nat) /\ Len(delivered') = Len(delivered) + 1
        /\ \A i \in 1 .. Len(delivered') : delivered'[i] = i - 1
    <3>1. delivered \in Seq(Nat) /\ (\A i \in 1 .. Len(delivered) : delivered[i] = i - 1)
      BY DEF OutputInv
    <3>2. /\ delivered' \in Seq(Nat) /\ Len(delivered') = Len(delivered) + 1
          /\ \A i \in 1 .. Len(delivered) : delivered'[i] = delivered[i]
          /\ delivered'[Len(delivered) + 1] = Len(delivered)
      BY <2>1, <3>1
    <3> HIDE DEF OutputInv
    <3> QED BY <1>1, <3>1, <3>2
  <2>3. Cleared' = Cleared /\ Emptied' = Emptied
    BY <1>1, <1>3, <2>1, <2>2 DEF OutputDeliver, Cleared, Emptied
  <2>4. OutputInv'
    BY <1>1, <1>3, <2>2, <2>3 DEF OutputInv, OutputDeliver, OutputPcs
  <2>5. Len(delivered') <= k
    BY <1>1, <1>3, <2>1, <2>2 DEF OutputDeliver
  <2> QED BY <1>3, <2>3, <2>4, <2>5 DEF Run, OutputDeliver
<1>4. CASE OutputClear
  <2>1. Cleared' = Cleared + 1 /\ Emptied' = Emptied /\ Len(delivered) > 0
    BY <1>1, <1>4 DEF OutputClear, Cleared, Emptied, OutputInv
  <2>2. nextOutputSlot = SlotOf(Cleared) /\ nextOutputSlot \in Slots
    BY <1>1, <1>4, SlotFacts DEF OutputInv, OutputClear
  <2>3. /\ slotFilled' \in [Slots -> BOOLEAN]
        /\ slotBlock' \in [Slots -> Nat \union {NoBlock}]
        /\ \A s \in Slots : slotFilled'[s] <=> slotFilled[s] /\ s # nextOutputSlot
        /\ \A s \in Slots : s # nextOutputSlot => slotBlock'[s] = slotBlock[s]
    BY <1>4, <2>2 DEF OutputClear, OutputInv
  <2>4. OutputInv'
    BY <1>4, <2>1, <2>3 DEF OutputInv, OutputClear, OutputPcs
  <2>5. ASSUME NEW r \in Nat, Cleared + 1 <= r, r < k
        PROVE  slotFilled'[SlotOf(r)] /\ slotBlock'[SlotOf(r)] = r
    <3>1. r < Cleared + TotalSlots /\ Cleared < Cleared + TotalSlots /\ Cleared <= r /\ r # Cleared
      BY <1>1, <2>5, TotalSlotsAssumption DEF Run
    <3>2. SlotOf(r) # SlotOf(Cleared)
      BY <1>1, <3>1, SlotFacts
    <3>3. slotFilled[SlotOf(r)] /\ slotBlock[SlotOf(r)] = r
      BY <2>5, <3>1 DEF Run
    <3> QED BY <2>2, <2>3, <3>2, <3>3, SlotFacts
  <2>6. ASSUME NEW s \in Slots, slotFilled'[s]
        PROVE  /\ slotBlock'[s] \in Nat
               /\ Cleared + 1 <= slotBlock'[s] /\ slotBlock'[s] < k
               /\ SlotOf(slotBlock'[s]) = s
    <3>1. slotFilled[s] /\ s # SlotOf(Cleared) /\ slotBlock'[s] = slotBlock[s]
      BY <2>2, <2>3, <2>6
    <3>2. /\ slotBlock[s] \in Nat /\ Cleared <= slotBlock[s] /\ slotBlock[s] < k
          /\ SlotOf(slotBlock[s]) = s
      BY <3>1 DEF Run
    <3> QED BY <1>1, <3>1, <3>2
  <2>7. Cleared + 1 <= k /\ k <= Cleared + 1 + TotalSlots /\ Len(delivered)' <= k
    BY <1>1, <1>4, TotalSlotsAssumption DEF Run, OutputClear
  <2> QED BY <2>1, <2>4, <2>5, <2>6, <2>7 DEF Run
<1>5. CASE OutputAdvance
  <2>1. Cleared' = Cleared /\ Emptied' = Emptied + 1
    BY <1>1, <1>5 DEF OutputAdvance, Cleared, Emptied
  <2>2. nextOutputSlot' = SlotOf(Emptied')
    BY <1>1, <1>5, <2>1, SlotFacts DEF OutputAdvance, OutputInv
  <2>3. OutputInv'
    BY <1>5, <2>2 DEF OutputAdvance, OutputInv, OutputPcs
  <2> QED BY <1>5, <2>1, <2>3 DEF Run, OutputAdvance
<1> QED BY <1>2, <1>3, <1>4, <1>5 DEF OutputThread

\* Starting and joining the output thread leave the run as it is.
LEMMA OwnerRun ==
  ASSUME OutputInv, NEW k \in Nat, Run(k),
         StartProcessing \/ RequestStopProcessing \/ JoinOutputThread
  PROVE  OutputInv' /\ Run(k)'
<1>1. Cleared' = Cleared /\ Emptied' = Emptied
  BY DEF StartProcessing, RequestStopProcessing, JoinOutputThread, Cleared, Emptied
<1>2. OutputInv'
  BY <1>1 DEF OutputInv, StartProcessing, RequestStopProcessing, JoinOutputThread, OutputPcs
<1> QED BY <1>1, <1>2 DEF Run, StartProcessing, RequestStopProcessing, JoinOutputThread

\* So does a step that does not touch the processor.
LEMMA SameRun ==
  ASSUME OutputInv, NEW k \in Nat, Run(k), UNCHANGED odpVars
  PROVE  OutputInv' /\ Run(k)'
<1>1. Cleared' = Cleared /\ Emptied' = Emptied
  BY DEF odpVars, Cleared, Emptied
<1>2. OutputInv'
  BY <1>1 DEF OutputInv, odpVars
<1> QED BY <1>1, <1>2 DEF Run, odpVars

-----------------------------------------------------------------------------
(* Every step keeps the ring in order.                                     *)

\* Initially the ring is empty.
LEMMA InitRing == Init => RingInv
<1> SUFFICES ASSUME Init PROVE RingInv
  OBVIOUS
<1>1. OutputInv /\ Run(0)
  BY EmptyRing DEF Init, ODPInit, RingIsEmpty
<1>2. Place(0)
  BY DEF Init, Place, InHand
<1> QED BY <1>1, <1>2 DEF RingInv

\* The producer's steps: only MarkBlock makes the run longer.
LEMMA ProducerRing == CtlInv /\ RingInv /\ ownerPc # "crashed" /\ Producer => RingInv'
<1> SUFFICES ASSUME CtlInv, RingInv, ownerPc # "crashed", Producer PROVE RingInv'
  OBVIOUS
<1>1. OutputInv
  BY DEF RingInv
<1>2. PICK k \in Nat : Run(k) /\ Place(k)
  BY DEF RingInv
<1>4. SUFFICES OutputInv' /\ (\E j \in Nat : Run(j)' /\ Place(j)')
  BY DEF RingInv
<1>5. CASE ClaimBlock
  <2>1. k = requestCounter
    BY <1>2, <1>5 DEF ClaimBlock, Goes, Place
  <2>2. OutputInv' /\ Run(k)'
    BY <1>1, <1>2, <1>5, SameRun DEF ClaimBlock
  <2>3. Place(k)'
    BY <1>2, <1>5, <2>1 DEF ClaimBlock, Goes, Place, Claimed, InHand, CtlInv, ProducerInv
  <2> QED BY <2>2, <2>3
<1>6. CASE LoopEnds \/ TakeBuffer \/ WaitForBuffer \/ FallBackToCopy
  <2>1. UNCHANGED odpVars
    BY <1>6 DEF LoopEnds, TakeBuffer, WaitForBuffer, FallBackToCopy
  <2>2. OutputInv' /\ Run(k)'
    BY <1>1, <1>2, <2>1, SameRun
  <2>3. Place(k)'
    BY <1>2, <1>6, <2>1 DEF LoopEnds, TakeBuffer, WaitForBuffer, FallBackToCopy, Goes, Place,
          Claimed, InHand, odpVars
  <2> QED BY <2>2, <2>3
<1>7. CASE SubmitBlock \/ CopyBlock
  <2>1. /\ k = Claimed /\ StoreBlock(k) /\ UNCHANGED <<requestCounter, ownerPc>>
        /\ producerPc \in {"submit", "copy"}
        /\ producerPc' = IF Occupied(k) THEN "exited" ELSE "mark"
    BY <1>2, <1>7 DEF SubmitBlock, CopyBlock, Goes, Place, InHand
  <2>2. /\ OutputInv' /\ Run(k)'
        /\ ~Occupied(k) => ~slotFilled'[SlotOf(k)] /\ slotBlock'[SlotOf(k)] = k
    BY <1>1, <1>2, <2>1, StoreRun
  <2>3. Place(k)'
    BY <1>2, <2>1, <2>2 DEF Place, Claimed, InHand
  <2> QED BY <2>2, <2>3
<1>8. CASE MarkBlock
  <2>1. /\ k = Claimed /\ MarkFilled(k) /\ ~slotFilled[SlotOf(k)] /\ slotBlock[SlotOf(k)] = k
        /\ producerPc' = "next" /\ UNCHANGED requestCounter
    BY <1>2, <1>8 DEF MarkBlock, Goes, Place, InHand
  <2>2. OutputInv' /\ Run(k + 1)'
    BY <1>1, <1>2, <2>1, MarkRun
  <2>3. k + 1 = requestCounter
    BY <2>1 DEF Claimed, CtlInv, ProducerInv
  <2>4. Place(k + 1)'
    BY <2>1, <2>3 DEF Place, Claimed, InHand
  <2> QED BY <2>2, <2>4
<1> QED BY <1>5, <1>6, <1>7, <1>8 DEF Producer

\* The block that the producer marks is not in the output thread's way.
LEMMA OutputRing ==
  RingInv /\ (NullDereference \/ Output \/ DeviceRelease) => RingInv'
<1> SUFFICES ASSUME RingInv, NullDereference \/ Output \/ DeviceRelease PROVE RingInv'
  OBVIOUS
<1>1. OutputInv
  BY DEF RingInv
<1>2. PICK k \in Nat : Run(k) /\ Place(k)
  BY DEF RingInv
<1>3. /\ OutputThread \/ UNCHANGED odpVars
      /\ UNCHANGED <<producerPc, requestCounter>>
      /\ ownerPc' = ownerPc \/ ownerPc' = "crashed"
  BY DEF NullDereference, DeviceRelease, Output, DeliverBlock, OutputThread
<1>4. OutputInv' /\ Run(k)'
  BY <1>1, <1>2, <1>3, OutputRun, SameRun
<1>5. ASSUME producerPc = "mark"
      PROVE  ~slotFilled'[SlotOf(k)] /\ slotBlock'[SlotOf(k)] = k
  <2>1. k = Claimed /\ ~slotFilled[SlotOf(k)] /\ slotBlock[SlotOf(k)] = k
    BY <1>2, <1>5 DEF Place, InHand
  <2>2. CASE OutputClear
    <3>1. slotFilled[nextOutputSlot]
      BY <1>1, <2>2 DEF OutputInv, OutputClear
    <3>2. SlotOf(k) \in Slots /\ SlotOf(k) # nextOutputSlot
      BY <2>1, <3>1, SlotFacts
    <3> QED BY <1>1, <2>1, <2>2, <3>2 DEF OutputClear, OutputInv
  <2>3. CASE ~OutputClear
    <3>1. slotFilled' = slotFilled /\ slotBlock' = slotBlock
      BY <1>3, <2>3 DEF OutputThread, OutputTake, OutputDeliver, OutputAdvance, OutputExit,
            odpVars
    <3> QED BY <2>1, <3>1
  <2> QED BY <2>2, <2>3
<1>6. Place(k)'
  BY <1>2, <1>3, <1>5 DEF Place, Claimed, InHand
<1> QED BY <1>4, <1>6 DEF RingInv

\* A session ends with whatever the ring holds, and the next one starts with
\* an empty ring.
LEMMA OwnerRing ==
  CtlInv /\ RingInv /\ (Start \/ StopSending \/ Stopping \/ Reset) => RingInv'
<1> SUFFICES ASSUME CtlInv, RingInv, Start \/ StopSending \/ Stopping \/ Reset PROVE RingInv'
  OBVIOUS
<1>1. OutputInv
  BY DEF RingInv
<1>2. PICK k \in Nat : Run(k) /\ Place(k)
  BY DEF RingInv
<1>3. CASE Start
  <2>1. producerPc = "none" /\ requestCounter = 0 /\ k = 0
    BY <1>2, <1>3 DEF Start, OwnerGoes, CtlInv, OwnerInv, Place
  <2>2. OutputInv' /\ Run(k)'
    BY <1>1, <1>2, <1>3, OwnerRun DEF Start
  <2>3. Place(k)'
    BY <1>3, <2>1 DEF Start, OwnerGoes, Place, Claimed, InHand
  <2> QED BY <2>2, <2>3 DEF RingInv
<1>4. CASE StopSending \/ Stopping
  <2>1. /\ UNCHANGED odpVars \/ RequestStopProcessing \/ JoinOutputThread
        /\ UNCHANGED requestCounter
        /\ \/ producerPc' = producerPc
           \/ producerPc = "exited" /\ producerPc' = "none"
        /\ ownerPc' # "idle"
    BY <1>4 DEF StopSending, Stopping, RequestStop, JoinProducer, StopOutput, JoinOutput,
          OwnerGoes, Goes
  <2>2. OutputInv' /\ Run(k)'
    BY <1>1, <1>2, <2>1, OwnerRun, SameRun
  <2>3. slotFilled' = slotFilled /\ slotBlock' = slotBlock
    BY <2>1 DEF odpVars, RequestStopProcessing, JoinOutputThread
  <2>4. Place(k)'
    BY <1>2, <2>1, <2>3 DEF Place, Claimed, InHand
  <2> QED BY <2>2, <2>4 DEF RingInv
<1>5. CASE Reset
  <2>1. /\ slotFilled' = [s \in Slots |-> FALSE] /\ slotBlock' = [s \in Slots |-> NoBlock]
        /\ nextOutputSlot' = 0 /\ outPc' = "none" /\ delivered' = <<>>
        /\ producerPc' = "none" /\ requestCounter' = 0
    BY <1>5 DEF Reset, ResetProcessor, OwnerGoes, CtlInv, OwnerInv
  <2>2. OutputInv' /\ Run(0)'
    <3>1. RingIsEmpty'
      BY <2>1 DEF RingIsEmpty
    <3> QED BY <3>1, EmptyRing, PTL
  <2>3. Place(0)'
    BY <2>1 DEF Place, Claimed, InHand
  <2> QED BY <2>2, <2>3 DEF RingInv
<1> QED BY <1>3, <1>4, <1>5

\* Every step keeps the ring in order.
LEMMA StepRing == CtlInv /\ RingInv /\ [Next]_vars => RingInv'
<1> SUFFICES ASSUME CtlInv, RingInv, [Next]_vars PROVE RingInv'
  OBVIOUS
<1>1. CASE UNCHANGED vars
  <2>1. PICK k \in Nat : Run(k) /\ Place(k)
    BY DEF RingInv
  <2>2. OutputInv' /\ Run(k)'
    BY <1>1, <2>1, SameRun DEF RingInv, vars
  <2>3. Place(k)'
    BY <1>1, <2>1 DEF vars, odpVars, Place, Claimed, InHand
  <2> QED BY <2>2, <2>3 DEF RingInv
<1> QED BY <1>1, ProducerRing, OutputRing, OwnerRing DEF Next

-----------------------------------------------------------------------------
(* The pool's blocks.                                                      *)

\* What the pool's count needs to know of the ring.
RingFacts ==
  /\ slotFilled \in [Slots -> BOOLEAN]
  /\ nextOutputSlot \in Slots
  /\ outPc \in {"deliver", "clear"} => slotFilled[nextOutputSlot]
  /\ producerPc = "mark" => SlotOf(Claimed) \in Slots /\ ~slotFilled[SlotOf(Claimed)]

LEMMA RingGivesFacts == RingInv => RingFacts
<1> SUFFICES ASSUME RingInv PROVE RingFacts
  OBVIOUS
<1>1. PICK k \in Nat : Run(k) /\ Place(k)
  BY DEF RingInv
<1>2. nextOutputSlot \in Slots
  BY <1>1, RunNumbers, SlotFacts DEF RingInv, OutputInv
<1>3. producerPc = "mark" => k = Claimed
  BY <1>1 DEF Place, InHand
<1>4. producerPc = "mark" => SlotOf(Claimed) \in Slots /\ ~slotFilled[SlotOf(Claimed)]
  BY <1>1, <1>3, SlotFacts DEF Place
<1> QED BY <1>2, <1>4 DEF RingInv, OutputInv, RingFacts

\* The slots with a pool block can be counted.
LEMMA PoolSlotsFinite == IsFiniteSet(PoolSlots) /\ Cardinality(PoolSlots) \in Nat
<1>1. IsFiniteSet(Slots)
  BY FS_Interval, TotalSlotsAssumption DEF Slots
<1>2. PoolSlots \in SUBSET Slots
  BY DEF PoolSlots
<1>3. IsFiniteSet(PoolSlots)
  BY <1>1, <1>2, FS_Subset
<1> QED BY <1>3, FS_CardinalityType

\* The numbers that the pool's count adds up.
LEMMA PoolNumbers ==
  ASSUME PoolInv
  PROVE  /\ Cardinality(PoolSlots) \in Nat /\ IsFiniteSet(PoolSlots)
         /\ freeBlocks \in Nat /\ deviceHolds \in Nat /\ PoolBlocks \in Nat /\ Held \in {0, 1}
         /\ freeBlocks + deviceHolds + Held + Cardinality(PoolSlots) = PoolBlocks
  BY PoolSlotsFinite, PoolBlocksAssumption, DeviceBlocksAssumption
  DEF PoolInv, PoolTypes, Held, BlocksConserved

\* A release gives one block back to the pool's count, whoever is woken.
LEMMA ReleaseCounts ==
  ASSUME PoolTypes, ReleaseBlock
  PROVE  freeBlocks' = freeBlocks + 1 /\ poolWait' \in [PoolUsers -> PoolWaits]
  BY DEF PoolTypes, ReleaseBlock, WakeOne, PoolWaits

\* Initially every block is in the pool.
LEMMA InitPool == Init => PoolInv
<1> SUFFICES ASSUME Init PROVE PoolInv
  OBVIOUS
<1>1. deviceFailed \in BOOLEAN
  BY DEF Init
<1>2. /\ freeBlocks = PoolBlocks /\ deviceHolds = 0
      /\ poolWait \in [PoolUsers -> PoolWaits]
  BY DEF Init, PoolInit, PoolWaits
<1>3. PoolTypes
  BY <1>1, <1>2, PoolBlocksAssumption, DeviceBlocksAssumption DEF PoolTypes
<1>4. PoolSlots = {} /\ Held = 0
  BY DEF Init, ODPInit, PoolSlots, Held
<1>5. Cardinality(PoolSlots) = 0
  BY <1>4, FS_EmptySet
<1> QED BY <1>2, <1>3, <1>4, <1>5, PoolBlocksAssumption DEF PoolInv, BlocksConserved

\* A step that moves no block.
LEMMA NothingMoves ==
  ASSUME PoolInv, UNCHANGED <<poolVars, deviceHolds>>, deviceFailed' \in BOOLEAN,
         Held' = Held, PoolSlots' = PoolSlots
  PROVE  PoolInv'
  BY DEF PoolInv, PoolTypes, BlocksConserved, poolVars

\* The producer takes a block, leaves it in a slot or gives it back.
LEMMA ProducerPool == CtlInv /\ RingFacts /\ PoolInv /\ Producer => PoolInv'
<1> SUFFICES ASSUME CtlInv, RingFacts, PoolInv, Producer PROVE PoolInv'
  OBVIOUS
<1> USE DEF Goes, modeVars, deviceVars
<1>1. deviceFailed \in BOOLEAN /\ PoolTypes
  BY DEF PoolInv, PoolTypes
<1>2. CASE ClaimBlock \/ LoopEnds \/ FallBackToCopy
  <2> USE <1>2 DEF ClaimBlock, LoopEnds, FallBackToCopy, AcquireStopped, odpVars, poolVars
  <2>1. Held' = Held /\ PoolSlots' = PoolSlots
    BY DEF Held, PoolSlots, UsesPool
  <2> QED BY <1>1, <2>1, NothingMoves
<1>3. CASE TakeBuffer
  <2> USE <1>3 DEF TakeBuffer, AcquireBlock, odpVars
  <2>1. Held = 0 /\ Held' = 1 /\ PoolSlots' = PoolSlots
    BY DEF Held, PoolSlots, UsesPool, CtlInv, ProducerInv
  <2>2. PoolTypes' /\ freeBlocks' = freeBlocks - 1 /\ deviceHolds' = deviceHolds
    BY <1>1 DEF PoolTypes
  <2> QED BY <2>1, <2>2, PoolNumbers DEF PoolInv, BlocksConserved
<1>4. CASE WaitForBuffer
  <2> USE <1>4 DEF WaitForBuffer, odpVars
  <2>1. PoolTypes' /\ freeBlocks' = freeBlocks /\ deviceHolds' = deviceHolds
    BY <1>1 DEF AcquireCheck, AcquireSleep, PoolTypes, PoolWaits
  <2>2. Held' = Held /\ PoolSlots' = PoolSlots
    BY DEF Held, PoolSlots, UsesPool
  <2> QED BY <2>1, <2>2, PoolNumbers DEF PoolInv, BlocksConserved
<1>5. CASE SubmitBlock
  <2> USE <1>5 DEF SubmitBlock, StoreBlock
  <2>1. PoolSlots' = PoolSlots /\ Held = 1
    BY DEF PoolSlots, Held, UsesPool, CtlInv, ProducerInv
  <2>2. CASE Occupied(Claimed)
    <3>1. Held' = 0
      BY <2>2 DEF Held
    <3>2. PoolTypes' /\ freeBlocks' = freeBlocks + 1 /\ deviceHolds' = deviceHolds
      BY <1>1, <2>2, ReleaseCounts DEF PoolTypes
    <3> QED BY <2>1, <3>1, <3>2, PoolNumbers DEF PoolInv, BlocksConserved
  <2>3. CASE ~Occupied(Claimed)
    <3>1. Held' = Held
      BY <2>1, <2>3 DEF Held, UsesPool, CtlInv, ProducerInv
    <3> QED BY <1>1, <2>1, <2>3, <3>1, NothingMoves
  <2> QED BY <2>2, <2>3
<1>6. CASE CopyBlock
  <2> USE <1>6 DEF CopyBlock, StoreBlock
  <2>1. Held' = Held /\ PoolSlots' = PoolSlots
    BY DEF Held, PoolSlots, UsesPool
  <2> QED BY <1>1, <2>1, NothingMoves
<1>7. CASE MarkBlock
  <2> USE <1>7 DEF MarkBlock, MarkFilled
  <2> DEFINE m == SlotOf(Claimed)
  <2>1. /\ m \in Slots /\ ~slotFilled[m] /\ slotFilled \in [Slots -> BOOLEAN]
        /\ outPc = "clear" => m # nextOutputSlot
    BY DEF RingFacts
  <2>2. slotFilled' = [slotFilled EXCEPT ![m] = TRUE]
    OBVIOUS
  <2> HIDE DEF m
  <2>3. CASE UsesPool
    <3>1. Held = 1 /\ Held' = 0
      BY <2>3 DEF Held
    <3>2. m \notin PoolSlots /\ PoolSlots' = PoolSlots \union {m}
      BY <2>1, <2>2, <2>3 DEF PoolSlots, UsesPool
    <3>3. Cardinality(PoolSlots') = Cardinality(PoolSlots) + 1
      BY <3>2, PoolSlotsFinite, FS_AddElement
    <3>4. PoolTypes' /\ freeBlocks' = freeBlocks /\ deviceHolds' = deviceHolds
      BY <1>1 DEF PoolTypes, poolVars
    <3> QED BY <3>1, <3>3, <3>4, PoolNumbers DEF PoolInv, BlocksConserved
  <2>4. CASE ~UsesPool
    <3>1. Held' = Held /\ PoolSlots' = PoolSlots
      BY <2>4 DEF Held, PoolSlots, UsesPool
    <3> QED BY <1>1, <3>1, NothingMoves
  <2> QED BY <2>3, <2>4
<1> QED BY <1>2, <1>3, <1>4, <1>5, <1>6, <1>7 DEF Producer

\* The slot being delivered hands its block to the device or back to the pool.
LEMMA OutputPool == RingFacts /\ PoolInv /\ Output => PoolInv'
<1> SUFFICES ASSUME RingFacts, PoolInv, Output PROVE PoolInv'
  OBVIOUS
<1> USE DEF modeVars, deviceVars
<1>1. deviceFailed \in BOOLEAN /\ PoolTypes
  BY DEF PoolInv, PoolTypes
<1>2. CASE DeliverBlock
  <2>1. /\ slotFilled[nextOutputSlot] /\ nextOutputSlot \in Slots
        /\ outPc = "deliver" /\ outPc' = "clear"
        /\ UNCHANGED <<slotFilled, nextOutputSlot, producerPc, hasMemory, deviceFailed>>
    BY <1>2 DEF DeliverBlock, OutputDeliver, RingFacts
  <2>2. Held' = Held
    BY <2>1 DEF Held, UsesPool
  <2>3. CASE UsesPool
    <3>1. nextOutputSlot \in PoolSlots /\ PoolSlots' = PoolSlots \ {nextOutputSlot}
      BY <2>1, <2>3 DEF PoolSlots, UsesPool
    <3>2. Cardinality(PoolSlots') = Cardinality(PoolSlots) - 1
      BY <3>1, PoolSlotsFinite, FS_RemoveElement
    <3>3. CASE deviceHolds < DeviceBlocks /\ deviceHolds' = deviceHolds + 1
               /\ UNCHANGED poolVars
      <4>1. PoolTypes'
        BY <1>1, <2>1, <3>3, DeviceBlocksAssumption DEF PoolTypes, poolVars
      <4> QED BY <2>2, <3>2, <3>3, <4>1, PoolNumbers DEF PoolInv, BlocksConserved, poolVars
    <3>4. CASE ReleaseBlock /\ UNCHANGED deviceHolds
      <4>1. PoolTypes' /\ freeBlocks' = freeBlocks + 1
        BY <1>1, <2>1, <3>4, ReleaseCounts DEF PoolTypes
      <4> QED BY <2>2, <3>2, <3>4, <4>1, PoolNumbers DEF PoolInv, BlocksConserved
    <3> QED BY <1>2, <2>3, <3>3, <3>4 DEF DeliverBlock
  <2>4. CASE ~UsesPool
    <3>1. PoolSlots' = PoolSlots
      BY <2>1, <2>4 DEF PoolSlots, UsesPool
    <3>2. UNCHANGED <<poolVars, deviceHolds>>
      BY <1>2, <2>4 DEF DeliverBlock
    <3> QED BY <1>1, <2>1, <2>2, <3>1, <3>2, NothingMoves
  <2> QED BY <2>3, <2>4
<1>3. CASE /\ OutputTake \/ OutputClear \/ OutputAdvance \/ OutputExit
           /\ UNCHANGED <<poolVars, requestCounter, producerPc, modeVars, stopRequested,
                          deviceVars, ownerPc>>
  <2>1. Held' = Held
    BY <1>3 DEF Held, UsesPool
  <2>2. PoolSlots' = PoolSlots
    <3>1. CASE OutputClear
      <4>1. outPc = "clear" /\ outPc' = "advance" /\ nextOutputSlot \in Slots
        BY <3>1 DEF OutputClear, RingFacts
      <4>2. /\ slotFilled' = [slotFilled EXCEPT ![nextOutputSlot] = FALSE]
            /\ UNCHANGED <<nextOutputSlot, hasMemory>>
        BY <1>3, <3>1 DEF OutputClear
      <4> QED BY <4>1, <4>2 DEF PoolSlots, UsesPool, RingFacts
    <3>2. CASE OutputTake \/ OutputAdvance \/ OutputExit
      BY <1>3, <3>2 DEF OutputTake, OutputAdvance, OutputExit, PoolSlots, UsesPool
    <3> QED BY <1>3, <3>1, <3>2
  <2> QED BY <1>1, <1>3, <2>1, <2>2, NothingMoves
<1> QED BY <1>2, <1>3 DEF Output

\* The device gives its blocks back one at a time; a crash moves none.
LEMMA DevicePool == PoolInv /\ (DeviceRelease \/ NullDereference) => PoolInv'
<1> SUFFICES ASSUME PoolInv, DeviceRelease \/ NullDereference PROVE PoolInv'
  OBVIOUS
<1>1. CASE DeviceRelease
  <2>1. Held' = Held /\ PoolSlots' = PoolSlots
    BY <1>1 DEF DeviceRelease, Held, PoolSlots, UsesPool, modeVars, odpVars
  <2>2. /\ freeBlocks' = freeBlocks + 1 /\ deviceHolds' = deviceHolds - 1
        /\ PoolTypes'
    BY <1>1, ReleaseCounts, DeviceBlocksAssumption DEF DeviceRelease, PoolInv, PoolTypes
  <2> QED BY <2>1, <2>2, PoolNumbers DEF PoolInv, BlocksConserved
<1>2. CASE NullDereference
  <2>1. Held' = Held /\ PoolSlots' = PoolSlots
    BY <1>2 DEF NullDereference, Held, PoolSlots, UsesPool, modeVars, odpVars
  <2> QED BY <1>2, <2>1, NothingMoves DEF NullDereference, deviceVars, PoolInv, PoolTypes
<1> QED BY <1>1, <1>2

\* A session starts when no block is out of the pool's hands, with the pool or
\* without it; a reset refills it.
LEMMA OwnerPool ==
  CtlInv /\ PoolInv /\ (Start \/ StopSending \/ Stopping \/ Reset) => PoolInv'
<1> SUFFICES ASSUME CtlInv, PoolInv, Start \/ StopSending \/ Stopping \/ Reset PROVE PoolInv'
  OBVIOUS
<1>1. deviceFailed \in BOOLEAN
  BY DEF PoolInv, PoolTypes
<1>2. CASE Start
  <2>1. ownerPc = "idle" /\ producerPc = "none" /\ producerPc' \in {"next", "exited"}
        /\ UNCHANGED <<slotFilled, poolVars, deviceVars>>
    BY <1>2 DEF Start, StartProcessing, OwnerGoes, CtlInv, OwnerInv
  <2>2. Held = 0 /\ Held' = 0
    BY <2>1 DEF Held
  <2>3. PoolSlots = {} /\ PoolSlots' = {}
    BY <2>1 DEF PoolSlots, CtlInv, OwnerInv
  <2> QED BY <1>1, <2>1, <2>2, <2>3, NothingMoves DEF deviceVars
<1>3. CASE StopSending \/ RequestStop \/ JoinProducer
  <2>1. Held' = Held /\ PoolSlots' = PoolSlots
    BY <1>3 DEF StopSending, RequestStop, JoinProducer, Goes, Held, PoolSlots, UsesPool,
          odpVars, modeVars
  <2> QED BY <1>1, <1>3, <2>1, NothingMoves DEF StopSending, RequestStop, JoinProducer,
          deviceVars
<1>5. CASE StopOutput \/ JoinOutput
  <2>1. Held' = Held /\ PoolSlots' = PoolSlots
    BY <1>5 DEF StopOutput, JoinOutput, RequestStopProcessing, JoinOutputThread, Held,
          PoolSlots, UsesPool, modeVars
  <2> QED BY <1>1, <1>5, <2>1, NothingMoves DEF StopOutput, JoinOutput, deviceVars
<1>4. CASE Reset
  <2>1. deviceFailed' \in BOOLEAN /\ freeBlocks' = PoolBlocks /\ deviceHolds' = 0
    BY <1>4 DEF Reset, ResetPool
  <2>2. poolWait' \in [PoolUsers -> PoolWaits]
    BY <1>4 DEF Reset, ResetPool, PoolInv, PoolTypes, PoolWaits
  <2>3. PoolTypes'
    BY <2>1, <2>2, PoolBlocksAssumption, DeviceBlocksAssumption DEF PoolTypes
  <2>4. PoolSlots' = {} /\ Held' = 0
    BY <1>4 DEF Reset, ResetProcessor, OwnerGoes, PoolSlots, Held, CtlInv, OwnerInv
  <2>5. Cardinality(PoolSlots') = 0
    BY <2>4, FS_EmptySet
  <2> QED BY <2>1, <2>3, <2>4, <2>5, PoolBlocksAssumption DEF PoolInv, BlocksConserved
<1> QED BY <1>2, <1>3, <1>4, <1>5 DEF Stopping

\* Every step keeps the pool's count.
LEMMA StepPool == CtlInv /\ RingInv /\ PoolInv /\ [Next]_vars => PoolInv'
<1> SUFFICES ASSUME CtlInv, RingInv, PoolInv, [Next]_vars PROVE PoolInv'
  OBVIOUS
<1>1. RingFacts
  BY RingGivesFacts
<1>2. CASE UNCHANGED vars
  <2> USE <1>2 DEF vars, odpVars, modeVars, deviceVars
  <2>1. Held' = Held /\ PoolSlots' = PoolSlots
    BY DEF Held, PoolSlots, UsesPool
  <2> QED BY <2>1, NothingMoves DEF PoolInv, PoolTypes
<1> QED BY <1>1, <1>2, ProducerPool, OutputPool, DevicePool, OwnerPool DEF Next

-----------------------------------------------------------------------------
(* The invariant.                                                          *)

\* What a step other than MarkBlock and Reset does to the ring.
LEMMA RingSteps ==
  [Next]_vars /\ ~MarkBlock /\ ~Reset
    => \/ UNCHANGED odpVars
       \/ StoreBlock(Claimed) /\ producerPc \in {"submit", "copy"}
       \/ OutputThread
       \/ StartProcessing \/ RequestStopProcessing \/ JoinOutputThread
<1> SUFFICES ASSUME [Next]_vars, ~MarkBlock, ~Reset
             PROVE  \/ UNCHANGED odpVars
                    \/ StoreBlock(Claimed) /\ producerPc \in {"submit", "copy"}
                    \/ OutputThread
                    \/ StartProcessing \/ RequestStopProcessing \/ JoinOutputThread
  OBVIOUS
<1>1. CASE Producer
  BY <1>1 DEF Producer, ClaimBlock, LoopEnds, TakeBuffer, WaitForBuffer, FallBackToCopy,
        SubmitBlock, CopyBlock, Goes
<1>2. CASE NullDereference \/ DeviceRelease
  BY <1>2 DEF NullDereference, DeviceRelease
<1>3. CASE Output
  BY <1>3 DEF Output, DeliverBlock, OutputThread
<1>4. CASE Start \/ StopSending \/ Stopping
  BY <1>4 DEF Start, StopSending, Stopping, RequestStop, JoinProducer, StopOutput, JoinOutput
<1>5. CASE UNCHANGED vars
  BY <1>5 DEF vars
<1> QED BY <1>1, <1>2, <1>3, <1>4, <1>5 DEF Next

\* Only blocks of the session are stored.
LEMMA StepBlocks == CtlInv /\ OutputInv /\ BlockTypes /\ [Next]_vars => BlockTypes'
<1> SUFFICES ASSUME CtlInv, OutputInv, BlockTypes, [Next]_vars PROVE BlockTypes'
  OBVIOUS
<1>1. CASE MarkBlock \/ Reset
  BY <1>1 DEF MarkBlock, MarkFilled, Reset, ResetProcessor, BlockTypes
<1>2. CASE ~MarkBlock /\ ~Reset
  <2>1. CASE StoreBlock(Claimed) /\ producerPc \in {"submit", "copy"}
    <3>1. Claimed \in Requests
      BY <2>1, MaxRequestsAssumption DEF Claimed, Requests, CtlInv, ProducerInv, InHand
    <3> QED BY <2>1, <3>1 DEF StoreBlock, BlockTypes
  <2>2. CASE OutputThread
    BY <2>2 DEF OutputThread, OutputTake, OutputDeliver, OutputClear, OutputAdvance,
          OutputExit, BlockTypes
  <2>3. CASE \/ UNCHANGED odpVars
             \/ StartProcessing \/ RequestStopProcessing \/ JoinOutputThread
    BY <2>3 DEF odpVars, StartProcessing, RequestStopProcessing, JoinOutputThread, BlockTypes
  <2> QED BY <1>2, <2>1, <2>2, <2>3, RingSteps
<1> QED BY <1>1, <1>2

\* The invariant holds in every state of every behaviour.
LEMMA AlwaysInv == Spec => []IInv
<1>1. Init => IInv
  <2>1. Init => BlockTypes
    BY DEF Init, ODPInit, BlockTypes
  <2> QED BY <2>1, InitCtl, InitRing, InitPool DEF IInv
<1>2. IInv /\ [Next]_vars => IInv'
  BY StepCtl, StepRing, StepPool, StepBlocks DEF IInv, RingInv
<1> QED BY <1>1, <1>2, PTL DEF Spec

-----------------------------------------------------------------------------
(* What follows.                                                           *)

\* Every block of the pool is free, with the producer, in one filled slot, or
\* with the channel, when ProcessData refuses a block, a write fails or a
\* session is stopped too.
THEOREM BuffersConserved == Spec => []BlocksConserved
<1>1. IInv => BlocksConserved
  BY DEF IInv, PoolInv
<1> QED BY <1>1, AlwaysInv, PTL

\* The pool's counter stays within its bounds.
LEMMA FreeBounded == PoolInv => freeBlocks \in 0 .. PoolBlocks
<1> SUFFICES ASSUME PoolInv PROVE freeBlocks \in 0 .. PoolBlocks
  OBVIOUS
<1> QED BY PoolNumbers

\* The listener gets blocks of the session only.
LEMMA DeliveredType == CtlInv /\ RingInv => delivered \in Seq(Requests)
<1> SUFFICES ASSUME CtlInv, RingInv PROVE delivered \in Seq(Requests)
  OBVIOUS
<1>1. PICK k \in Nat : Run(k) /\ Place(k)
  BY DEF RingInv
<1>2. Len(delivered) \in Nat /\ Len(delivered) <= MaxRequests
  BY <1>1, RunNumbers, MaxRequestsAssumption
  DEF RingInv, Run, Place, Claimed, CtlInv, ProducerInv
<1>3. \A i \in 1 .. Len(delivered) : delivered[i] \in Requests
  BY <1>2, MaxRequestsAssumption DEF RingInv, OutputInv, Requests
<1> QED BY <1>3 DEF RingInv, OutputInv

\* Every variable keeps its type: no index leaves the ring, no count of buffers
\* or of the channel's blocks its bounds.
THEOREM TypeCorrect == Spec => []TypeOK
<1>1. IInv => TypeOK
  <2> SUFFICES ASSUME IInv PROVE TypeOK
    OBVIOUS
  <2>1. freeBlocks \in 0 .. PoolBlocks /\ delivered \in Seq(Requests)
    BY FreeBounded, DeliveredType DEF IInv
  <2>2. nextOutputSlot \in Slots /\ slotFilled \in [Slots -> BOOLEAN]
    BY RingGivesFacts DEF IInv, RingFacts
  <2>3. /\ stopThread \in BOOLEAN /\ stopRequested \in BOOLEAN /\ ownerPc \in OwnerPcs
        /\ producerPc \in ProducerPcs /\ requestCounter \in 0 .. MaxRequests
        /\ external \in BOOLEAN /\ hasMemory \in BOOLEAN
    BY DEF IInv, CtlInv, OwnerInv, ProducerInv
  <2>4. /\ outPc \in OutputPcs /\ poolWait \in [PoolUsers -> PoolWaits]
        /\ deviceHolds \in 0 .. DeviceBlocks /\ deviceFailed \in BOOLEAN
        /\ slotBlock \in [Slots -> Requests \union {NoBlock}]
    BY DEF IInv, RingInv, OutputInv, PoolInv, PoolTypes, BlockTypes
  <2> QED BY <2>1, <2>2, <2>3, <2>4 DEF TypeOK
<1> QED BY <1>1, AlwaysInv, PTL

-----------------------------------------------------------------------------
(* The refinement of OrderedDelivery.                                      *)

Below(k) == {r \in Nat : r < k}
RunAccepted == \A k \in Nat : OutputInv /\ Run(k) => Accepted = Below(k)

\* The blocks taken over are those of the run and those before it.
LEMMA AcceptedIsRun == RunAccepted
<1> SUFFICES ASSUME NEW k \in Nat, OutputInv, Run(k) PROVE Accepted = Below(k)
  BY DEF RunAccepted
<1>1. /\ Len(delivered) \in Nat /\ Cleared \in Nat /\ Len(delivered) <= k
      /\ Cleared <= Len(delivered)
      /\ \A i \in 1 .. Len(delivered) : delivered[i] = i - 1
  BY RunNumbers DEF Run, OutputInv, Cleared
<1>2. ASSUME NEW r \in Accepted PROVE r \in Below(k)
  <2>1. CASE \E i \in 1 .. Len(delivered) : r = delivered[i]
    BY <1>1, <2>1 DEF Below
  <2>2. CASE \E s \in Slots : slotFilled[s] /\ r = slotBlock[s]
    BY <2>2 DEF Run, Below
  <2> QED BY <1>2, <2>1, <2>2 DEF Accepted
<1>3. ASSUME NEW r \in Below(k) PROVE r \in Accepted
  <2>1. r \in Nat /\ r < k
    BY <1>3 DEF Below
  <2>2. CASE r < Cleared
    <3>1. r + 1 \in 1 .. Len(delivered) /\ delivered[r + 1] = r
      BY <1>1, <2>1, <2>2
    <3> QED BY <3>1 DEF Accepted
  <2>3. CASE Cleared <= r
    <3>1. SlotOf(r) \in Slots /\ slotFilled[SlotOf(r)] /\ slotBlock[SlotOf(r)] = r
      BY <2>1, <2>3, SlotFacts DEF Run
    <3> QED BY <3>1 DEF Accepted
  <2> QED BY <1>1, <2>1, <2>2, <2>3
<1> QED BY <1>2, <1>3

\* Initially nothing is accepted.
LEMMA InitDelivery == Init => OD!Init
  BY DEF Init, ODPInit, OD!Init, Accepted

\* Marking a slot takes the block over, calling the listener hands over the
\* next one, a reset starts again, and no other step shows.
LEMMA StepDelivery == CtlInv /\ RingInv /\ [Next]_vars => [OD!Next]_(OD!vars)
<1> SUFFICES ASSUME CtlInv, RingInv, [Next]_vars PROVE OD!Next \/ UNCHANGED OD!vars
  OBVIOUS
<1>1. OutputInv
  BY DEF RingInv
<1>2. PICK k \in Nat : Run(k) /\ Place(k)
  BY DEF RingInv
<1>3. Accepted = Below(k)
  BY <1>1, <1>2, AcceptedIsRun DEF RunAccepted
<1>4. RunAccepted'
  BY AcceptedIsRun, PTL
<1>5. CASE MarkBlock
  <2>1. /\ k = Claimed /\ MarkFilled(k) /\ ~slotFilled[SlotOf(k)] /\ slotBlock[SlotOf(k)] = k
    BY <1>2, <1>5 DEF MarkBlock, Goes, Place, InHand
  <2>2. OutputInv' /\ Run(k + 1)'
    BY <1>1, <1>2, <2>1, MarkRun
  <2>3. Accepted' = Below(k + 1)
    BY <1>4, <2>2 DEF RunAccepted
  <2>4. k \in Requests /\ k \notin Below(k) /\ Below(k + 1) = Below(k) \union {k}
    BY <2>1, MaxRequestsAssumption DEF Below, Claimed, Requests, CtlInv, ProducerInv
  <2>5. delivered' = delivered
    BY <2>1 DEF MarkFilled
  <2>6. OD!Accept
    BY <1>3, <2>3, <2>4, <2>5 DEF OD!Accept
  <2> QED BY <2>6 DEF OD!Next
<1>6. CASE Reset
  <2>1. /\ \A s \in Slots : ~slotFilled'[s]
        /\ delivered' = <<>>
    BY <1>6 DEF Reset, ResetProcessor
  <2>2. Accepted' = {}
    BY <2>1 DEF Accepted
  <2> QED BY <2>1, <2>2 DEF OD!Restart, OD!Next
<1>7. CASE ~MarkBlock /\ ~Reset
  <2>1. CASE StoreBlock(Claimed) /\ producerPc \in {"submit", "copy"}
    <3>1. k = Claimed
      BY <1>2, <2>1 DEF Place, InHand
    <3>2. OutputInv' /\ Run(k)'
      BY <1>1, <1>2, <2>1, <3>1, StoreRun
    <3>3. Accepted' = Accepted /\ delivered' = delivered
      BY <1>3, <1>4, <2>1, <3>2 DEF StoreBlock, RunAccepted
    <3> QED BY <3>3 DEF OD!vars
  <2>2. CASE OutputThread
    <3>1. OutputInv' /\ Run(k)'
      BY <1>1, <1>2, <2>2, OutputRun
    <3>2. Accepted' = Accepted
      BY <1>3, <1>4, <3>1 DEF RunAccepted
    <3>3. CASE OutputDeliver
      <4>1. Cleared = Len(delivered) /\ outPc = "deliver"
        BY <3>3 DEF OutputDeliver, Cleared
      <4>2. delivered' = Append(delivered, Len(delivered)) /\ Len(delivered) \in Below(k)
        BY <1>1, <1>2, <3>3, <4>1, RunNumbers DEF OutputDeliver, Below
      <4> QED BY <1>3, <3>2, <4>2 DEF OD!Deliver, OD!Next
    <3>4. CASE ~OutputDeliver
      <4>1. delivered' = delivered
        BY <2>2, <3>4 DEF OutputThread, OutputTake, OutputClear, OutputAdvance, OutputExit
      <4> QED BY <3>2, <4>1 DEF OD!vars
    <3> QED BY <3>3, <3>4
  <2>3. CASE \/ UNCHANGED odpVars
             \/ StartProcessing \/ RequestStopProcessing \/ JoinOutputThread
    <3>1. /\ UNCHANGED <<slotFilled, slotBlock, delivered>>
      BY <2>3 DEF odpVars, StartProcessing, RequestStopProcessing, JoinOutputThread
    <3> QED BY <3>1 DEF Accepted, OD!vars
  <2> QED BY <1>7, <2>1, <2>2, <2>3, RingSteps
<1> QED BY <1>5, <1>6, <1>7

\* Without a gate too the listener gets the blocks in order, each once and none
\* skipped, for every ring, pool and number of blocks, through the fallback to
\* the copy mode and through stops and resets.
THEOREM Refinement == Spec => ImplementsOrderedDelivery
<1>1. IInv /\ [Next]_vars => [OD!Next]_(OD!vars)
  BY StepDelivery DEF IInv
<1> QED BY <1>1, InitDelivery, AlwaysInv, PTL DEF Spec, ImplementsOrderedDelivery, OD!Spec

-----------------------------------------------------------------------------
(* The end of a production.                                                *)

\* Only a refused block ends the production at a submission.
LEMMA RefusedAtEnd ==
  CtlInv /\ [Next]_vars /\ producerPc = "submit" /\ producerPc' = "exited"
    => Occupied(Claimed)
<1> SUFFICES ASSUME CtlInv, [Next]_vars, producerPc = "submit", producerPc' = "exited"
             PROVE  Occupied(Claimed)
  OBVIOUS
<1>1. CASE Producer
  BY <1>1 DEF Producer, ClaimBlock, LoopEnds, TakeBuffer, WaitForBuffer, FallBackToCopy,
        SubmitBlock, CopyBlock, MarkBlock, Goes
<1>2. CASE NullDereference \/ Output \/ DeviceRelease \/ StopSending \/ Stopping
  BY <1>2 DEF NullDereference, Output, DeliverBlock, DeviceRelease, StopSending, Stopping,
        RequestStop, JoinProducer, StopOutput, JoinOutput, Goes
<1>3. CASE Start \/ Reset
  BY <1>3 DEF Start, Reset, OwnerGoes, CtlInv, OwnerInv
<1> QED BY <1>1, <1>2, <1>3 DEF Next, vars

\* A pool no larger than the ring cannot fill every slot and have one block
\* more: one slot is being cleared, and it is the first of the run.
LEMMA FullRingIsClearing ==
  CtlInv /\ RingInv /\ PoolInv /\ producerPc = "submit" /\ Occupied(Claimed)
    => outPc = "clear" /\ SlotOf(Claimed) = nextOutputSlot
<1> SUFFICES ASSUME CtlInv, RingInv, PoolInv, producerPc = "submit", Occupied(Claimed)
             PROVE  outPc = "clear" /\ SlotOf(Claimed) = nextOutputSlot
  OBVIOUS
<1>1. PICK k \in Nat : Run(k) /\ Place(k)
  BY DEF RingInv
<1>2. k = Claimed /\ OutputInv
  BY <1>1 DEF Place, InHand, RingInv
<1>3. SlotOf(k) = SlotOf(Cleared) /\ (\A s \in Slots : slotFilled[s])
  BY <1>1, <1>2, OccupiedIsFull
<1>4. Held = 1 /\ UsesPool
  BY DEF Held, UsesPool, CtlInv, ProducerInv
<1>5. outPc = "clear"
  <2> SUFFICES ASSUME outPc # "clear" PROVE FALSE
    OBVIOUS
  <2>1. PoolSlots = Slots
    BY <1>3, <1>4 DEF PoolSlots
  <2>2. Cardinality(Slots) = TotalSlots
    <3>1. Cardinality(0 .. (TotalSlots - 1)) = (TotalSlots - 1) - 0 + 1
      BY FS_Interval, TotalSlotsAssumption
    <3> QED BY <3>1, TotalSlotsAssumption DEF Slots
  <2>3. freeBlocks + deviceHolds + 1 + TotalSlots = PoolBlocks
    BY <1>4, <2>1, <2>2, PoolNumbers
  <2> QED BY <2>3, PoolNumbers, PoolFitsRing, TotalSlotsAssumption
<1>6. nextOutputSlot = SlotOf(Cleared)
  BY <1>1, <1>2, <1>5, RunNumbers DEF OutputInv
<1> QED BY <1>2, <1>3, <1>5, <1>6

\* A source with a pool ends by itself only in the moment between the return of
\* a buffer and the clearing of its slot, for every ring and every pool no
\* larger than it.
THEOREM EndsAtFullRing == Spec => EndsOnlyAtFullRing
<1>1. IInv /\ [Next]_vars
        => [producerPc = "submit" /\ producerPc' = "exited"
              => outPc = "clear" /\ SlotOf(Claimed) = nextOutputSlot]_vars
  BY RefusedAtEnd, FullRingIsClearing DEF IInv
<1> QED BY <1>1, AlwaysInv, PTL DEF Spec, EndsOnlyAtFullRing
=============================================================================
