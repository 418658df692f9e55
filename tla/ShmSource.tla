------------------------------ MODULE ShmSource ------------------------------
(***************************************************************************)
(* CInputDataFromSHM and the program at the other end of the ring,         *)
(* tools/shm_producer.cpp.  The consumer thread peeks a slot, hands it to  *)
(* ProcessData, which copies it, and gives the slot back; a slot the       *)
(* processor refuses is tried again.  Nothing starts the processor's       *)
(* output thread: the model has none.                                      *)
(*                                                                         *)
(* Either process may die between any two steps and be started again.  The *)
(* window does not stop this source: a second press of the start button    *)
(* runs Init under the consumer thread, which replaces the slot flags and  *)
(* the mapping it is using.  The outcome is undefined; the model lets the  *)
(* application crash or go on with an empty processor.                     *)
(***************************************************************************)
EXTENDS OrderedDataProcessor, ShmRing

VARIABLES
  toolPc,      \* where the producer program is
  consumerPc,  \* where ConsumerThreadFunc is
  appPc,       \* whether the application runs
  takenCount,  \* history: slots the processor has taken, ever
  taken        \* history: the payload it took last

historyVars == <<takenCount, taken>>
vars == <<odpVars, shmVars, toolPc, consumerPc, appPc, historyVars>>

ToolPcs == {"off", "acquire", "write", "length", "commit"}
ConsumerPcs == {"none", "peek", "copy", "mark", "advance"}
AppPcs == {"off", "running", "leaving"}

Init == /\ ODPInit /\ ShmInit
        /\ toolPc = "off" /\ consumerPc = "none" /\ appPc = "off"
        /\ takenCount = 0
        /\ taken = CHOOSE p \in Payloads : TRUE

-----------------------------------------------------------------------------
(* The producer program.                                                   *)

ToolGoes(from, to) == /\ toolPc = from
                      /\ toolPc' = to
                      /\ UNCHANGED <<odpVars, consumerPc, appPc, historyVars>>

ToolStart == ToolGoes("off", "acquire") /\ UNCHANGED shmVars

AcquireSlot == /\ ToolGoes("acquire", "write")
               /\ tail < MaxItems
               /\ HasRoom
               /\ UNCHANGED shmVars

WriteSlot == ToolGoes("write", "length") /\ WritePayload
CommitLength == ToolGoes("length", "commit") /\ StoreLength
CommitTail == ToolGoes("commit", "acquire") /\ MoveTail

Tool == AcquireSlot \/ WriteSlot \/ CommitLength \/ CommitTail

\* The program ends after its last slot, or dies wherever it is.
ToolEnd == /\ toolPc # "off"
           /\ toolPc' = "off"
           /\ UNCHANGED <<odpVars, shmVars, consumerPc, appPc, historyVars>>

-----------------------------------------------------------------------------
(* ConsumerThreadFunc; the index of the slot it is at is head.             *)

ConsumerGoes(from, to) == /\ consumerPc = from
                          /\ consumerPc' = to
                          /\ UNCHANGED <<toolPc, appPc>>

Peek == /\ ConsumerGoes("peek", "copy")
        /\ appPc = "running"
        /\ Peekable
        /\ UNCHANGED <<odpVars, shmVars, historyVars>>

TakeSlot == /\ ConsumerGoes("copy", "mark")
            /\ ~Occupied(head)
            /\ StoreBlock(head)
            /\ takenCount' = head + 1
            /\ taken' = slotPayload[RingSlot(head)]
            /\ UNCHANGED shmVars

\* ProcessData refuses: back to the top of the loop.
Refused == /\ ConsumerGoes("copy", "peek")
           /\ Occupied(head)
           /\ UNCHANGED <<odpVars, shmVars, historyVars>>

MarkSlot == /\ ConsumerGoes("mark", "advance")
            /\ MarkFilled(head)
            /\ UNCHANGED <<shmVars, historyVars>>

Advance == /\ ConsumerGoes("advance", "peek")
           /\ MoveHead
           /\ UNCHANGED <<odpVars, historyVars>>

Consumer == Peek \/ TakeSlot \/ Refused \/ MarkSlot \/ Advance

-----------------------------------------------------------------------------
(* The application.                                                        *)

AppStart == /\ appPc = "off"
            /\ appPc' = "running" /\ consumerPc' = "peek"
            /\ UNCHANGED <<odpVars, shmVars, toolPc, historyVars>>

\* Init of a source that runs; Start then finds it running.
StartAgain == /\ appPc = "running"
              /\ consumerPc # "copy"
              /\ ResetProcessor
              /\ UNCHANGED <<shmVars, toolPc, consumerPc, appPc, historyVars>>

\* The process is gone, and with it all but the ring.
AppEnds == /\ appPc' = "off" /\ consumerPc' = "none"
           /\ ResetProcessor
           /\ UNCHANGED <<shmVars, toolPc, historyVars>>

AppCrash == appPc # "off" /\ AppEnds

\* Destroy raises the stop flag, which the thread sees at the top of its loop.
Leave == /\ appPc = "running"
         /\ appPc' = "leaving"
         /\ UNCHANGED <<odpVars, shmVars, toolPc, consumerPc, historyVars>>

Left == appPc = "leaving" /\ consumerPc = "peek" /\ AppEnds

-----------------------------------------------------------------------------
Next == \/ ToolStart \/ Tool \/ ToolEnd \/ Consumer
        \/ AppStart \/ StartAgain \/ AppCrash \/ Leave \/ Left

\* Nothing is assumed of the user or of crashes; an application told to end ends.
Fairness == WF_vars(Tool) /\ WF_vars(Consumer) /\ WF_vars(Left)

Spec == Init /\ [][Next]_vars /\ Fairness

-----------------------------------------------------------------------------
(* Properties.                                                             *)

TypeOK ==
  /\ slotFilled \in [Slots -> BOOLEAN]
  /\ slotBlock \in [Slots -> 0 .. (MaxItems - 1) \union {NoBlock}]
  /\ head \in 0 .. MaxItems /\ tail \in 0 .. MaxItems /\ head <= tail
  /\ slotLength \in [RingSlots -> BOOLEAN]
  /\ slotPayload \in [RingSlots -> Payloads]
  /\ toolPc \in ToolPcs /\ consumerPc \in ConsumerPcs /\ appPc \in AppPcs
  /\ takenCount \in head .. (head + 1)
  /\ taken \in Payloads

\* What the processor has not taken of what was committed.
Queue == [k \in 1 .. (tail - takenCount) |-> slotPayload[RingSlot(takenCount + k - 1)]]

Fifo == INSTANCE BoundedFifo WITH
  Items <- Payloads, Capacity <- SlotCount, queue <- Queue

\* The processor takes what the producer committed, in order and nothing half
\* written, whichever process dies where: a slot that was being written is not
\* seen, and one that was taken but not given back is taken again unchanged.
ImplementsFifo == Fifo!Spec

\* Not so: what the processor has taken is consumed.
TakenIsConsumed == slotFilled[nextOutputSlot] ~> ~slotFilled[nextOutputSlot]
=============================================================================
