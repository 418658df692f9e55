------------------------- MODULE OrderedDataProcessor -------------------------
(***************************************************************************)
(* COrderedDataProcessor: a ring of slots in which reader threads put the  *)
(* blocks they have read, and an output thread that empties the slots in   *)
(* ring order and calls the listener with each block.                      *)
(*                                                                         *)
(* A block is identified by the number of its read request; the slot it    *)
(* goes to is that number modulo the ring size.  Block contents, lengths   *)
(* and the copy mode are left out: a slot holds a request number or        *)
(* NoBlock.  The module states the component's variables and one action    *)
(* per step of its code; the modules that EXTEND it say who calls          *)
(* ProcessData and when.                                                   *)
(***************************************************************************)
EXTENDS Integers, Sequences

CONSTANTS TotalSlots,  \* m_uiTotalSlots = MAX_DISORDER_GROUPS * io_request_num
          NoBlock      \* an empty slot_blocks_ entry (InputBlock{})

ASSUME TotalSlotsAssumption == TotalSlots \in Nat \ {0}
ASSUME NoBlockAssumption == NoBlock \notin Nat

VARIABLES
  slotFilled,      \* m_pSlotFilled
  slotBlock,       \* slot_blocks_, by request number
  nextOutputSlot,  \* m_uiNextOutputSlot
  stopThread,      \* m_bStopThread
  outPc,           \* where the output thread is
  delivered        \* history: the requests the listener was called with

odpVars == <<slotFilled, slotBlock, nextOutputSlot, stopThread, outPc, delivered>>

Slots == 0 .. (TotalSlots - 1)
SlotOf(r) == r % TotalSlots

(***************************************************************************)
(* The output thread: "none" before StartProcessing and after the join,    *)
(* "poll" at the top of the loop, "deliver" inside the listener call,      *)
(* "clear" and "advance" before the two stores that follow it, "exited"    *)
(* once the thread function has returned and the thread can be joined.     *)
(***************************************************************************)
OutputPcs == {"none", "poll", "deliver", "clear", "advance", "exited"}

ODPInit == /\ slotFilled = [s \in Slots |-> FALSE]
           /\ slotBlock = [s \in Slots |-> NoBlock]
           /\ nextOutputSlot = 0
           /\ stopThread = FALSE
           /\ outPc = "none"
           /\ delivered = <<>>

-----------------------------------------------------------------------------
(* ProcessData, called by the reader threads: it writes the block, unless  *)
(* the slot is occupied, and then marks the slot filled with a release     *)
(* store.  A block that finds its slot occupied is refused: nothing is     *)
(* written and the caller is told.                                         *)

Occupied(r) == slotFilled[SlotOf(r)]

StoreBlock(r) ==
  /\ slotBlock' = IF Occupied(r) THEN slotBlock
                                 ELSE [slotBlock EXCEPT ![SlotOf(r)] = r]
  /\ UNCHANGED <<slotFilled, nextOutputSlot, stopThread, outPc, delivered>>

MarkFilled(r) ==
  /\ slotFilled' = [slotFilled EXCEPT ![SlotOf(r)] = TRUE]
  /\ UNCHANGED <<slotBlock, nextOutputSlot, stopThread, outPc, delivered>>

-----------------------------------------------------------------------------
(* The output thread.                                                      *)

\* The next slot is filled: take its block to the listener.
OutputTake == /\ outPc = "poll"
              /\ ~stopThread
              /\ slotFilled[nextOutputSlot]
              /\ outPc' = "deliver"
              /\ UNCHANGED <<slotFilled, slotBlock, nextOutputSlot, stopThread, delivered>>

\* InputData returns: the listener has the block.
OutputDeliver == /\ outPc = "deliver"
                 /\ delivered' = Append(delivered, slotBlock[nextOutputSlot])
                 /\ outPc' = "clear"
                 /\ UNCHANGED <<slotFilled, slotBlock, nextOutputSlot, stopThread>>

\* InputData throws: the slot keeps its block and the thread ends.
OutputThrow == /\ outPc = "deliver"
               /\ outPc' = "exited"
               /\ UNCHANGED <<slotFilled, slotBlock, nextOutputSlot, stopThread, delivered>>

\* Mutant of OutputClear: the slot's flag stays up.
OutputClearForgetsFlag ==
  /\ outPc = "clear"
  /\ slotBlock' = [slotBlock EXCEPT ![nextOutputSlot] = NoBlock]
  /\ outPc' = "advance"
  /\ UNCHANGED <<slotFilled, nextOutputSlot, stopThread, delivered>>

OutputClear == /\ outPc = "clear"
               /\ slotBlock' = [slotBlock EXCEPT ![nextOutputSlot] = NoBlock]
               /\ slotFilled' = [slotFilled EXCEPT ![nextOutputSlot] = FALSE]
               /\ outPc' = "advance"
               /\ UNCHANGED <<nextOutputSlot, stopThread, delivered>>

\* Mutant of OutputAdvance: the ring is taken to be a slot shorter.
OutputAdvanceWrapsEarly ==
  /\ outPc = "advance"
  /\ nextOutputSlot' = (nextOutputSlot + 1) % (TotalSlots - 1)
  /\ outPc' = "poll"
  /\ UNCHANGED <<slotFilled, slotBlock, stopThread, delivered>>

OutputAdvance == /\ outPc = "advance"
                 /\ nextOutputSlot' = (nextOutputSlot + 1) % TotalSlots
                 /\ outPc' = "poll"
                 /\ UNCHANGED <<slotFilled, slotBlock, stopThread, delivered>>

\* The loops see the stop flag only between two blocks.
OutputExit == /\ outPc = "poll"
              /\ stopThread
              /\ outPc' = "exited"
              /\ UNCHANGED <<slotFilled, slotBlock, nextOutputSlot, stopThread, delivered>>

OutputThread == \/ OutputTake \/ OutputDeliver \/ OutputClear
                \/ OutputAdvance \/ OutputExit

-----------------------------------------------------------------------------
(* The owner's calls.                                                      *)

StartProcessing == /\ outPc = "none"
                   /\ stopThread' = FALSE
                   /\ outPc' = "poll"
                   /\ UNCHANGED <<slotFilled, slotBlock, nextOutputSlot, delivered>>

\* StopProcessing sets the flag and then joins the thread, if there is one.
RequestStopProcessing ==
  /\ stopThread' = TRUE
  /\ UNCHANGED <<slotFilled, slotBlock, nextOutputSlot, outPc, delivered>>

JoinOutputThread ==
  /\ stopThread
  /\ outPc = "exited"
  /\ outPc' = "none"
  /\ UNCHANGED <<slotFilled, slotBlock, nextOutputSlot, stopThread, delivered>>

\* Reset empties every slot; its contract is that no thread is at work.
ResetProcessor ==
  /\ slotFilled' = [s \in Slots |-> FALSE]
  /\ slotBlock' = [s \in Slots |-> NoBlock]
  /\ nextOutputSlot' = 0
  /\ delivered' = <<>>
  /\ UNCHANGED <<stopThread, outPc>>
=============================================================================
