------------------------- MODULE SPSCDescriptorQueue -------------------------
(***************************************************************************)
(* SPSCDescriptorQueue: a ring of descriptors shared without a lock by one *)
(* producer (Send) and one consumer (the DMA worker, or whoever drains the *)
(* queue once the worker is joined).  Each side stores only its own index; *)
(* the indices are not reduced modulo the ring size but run through the    *)
(* whole width of their type and wrap there.                               *)
(*                                                                         *)
(* A step is one access to the shared state: the load of the other side's  *)
(* index with the decision it leads to, the access to the ring, the store  *)
(* of the own index.  Release stores and acquire loads make these accesses *)
(* appear in program order.                                                *)
(***************************************************************************)
EXTENDS Integers, Sequences

CONSTANTS Items,       \* the descriptors
          Capacity,    \* capacity_, a power of two in the code
          Laps         \* times an index goes round the ring before it wraps

ASSUME CapacityAssumption == Capacity \in Nat \ {0}
ASSUME LapsAssumption == Laps \in Nat /\ Laps > 1

\* Number of values of an index: 2^64 in the code, a multiple of the capacity.
IndexRange == Laps * Capacity

VARIABLES
  buffer,      \* buffer_
  getIndex,    \* get_index_
  putIndex,    \* put_index_
  producerPc,  \* where PutDescriptor is
  item,        \* its argument
  consumerPc,  \* where GetDescriptor is
  out          \* its result

producerVars == <<putIndex, producerPc, item>>
consumerVars == <<getIndex, consumerPc, out>>
vars == <<buffer, producerVars, consumerVars>>

Indices == 0 .. (IndexRange - 1)
Ring == 0 .. (Capacity - 1)
Masked(i) == i % Capacity              \* index & mask_
Following(i) == (i + 1) % IndexRange   \* unsigned index + 1

\* current_put - current_get, unsigned
DataSize == (putIndex - getIndex) % IndexRange

TypeOK == /\ buffer \in [Ring -> Items]
          /\ getIndex \in Indices
          /\ putIndex \in Indices
          /\ producerPc \in {"idle", "write", "publish"}
          /\ item \in Items
          /\ consumerPc \in {"idle", "read", "publish"}
          /\ out \in Items

\* The ring's memory is not initialised.
Init == /\ buffer \in [Ring -> Items]
        /\ putIndex = 0
        /\ getIndex = 0
        /\ producerPc = "idle"
        /\ item \in Items
        /\ consumerPc = "idle"
        /\ out \in Items

-----------------------------------------------------------------------------
(* PutDescriptor.                                                          *)

\* Mutant of FreeSlots: one slot too many.
FreeSlotsOneTooMany == Capacity + 1 - DataSize

FreeSlots == Capacity - DataSize

\* With no free slot PutDescriptor returns false and changes nothing.
BeginPut == /\ producerPc = "idle"
            /\ FreeSlots # 0
            /\ item' \in Items
            /\ producerPc' = "write"
            /\ UNCHANGED <<buffer, putIndex, consumerVars>>

WriteSlot == /\ producerPc = "write"
             /\ buffer' = [buffer EXCEPT ![Masked(putIndex)] = item]
             /\ producerPc' = "publish"
             /\ UNCHANGED <<putIndex, item, consumerVars>>

PublishPut == /\ producerPc = "publish"
              /\ putIndex' = Following(putIndex)
              /\ producerPc' = "idle"
              /\ UNCHANGED <<buffer, item, consumerVars>>

-----------------------------------------------------------------------------
(* GetDescriptor.                                                          *)

\* Mutant of BeginGet: the emptiness of the queue is not looked at.
BeginGetBlindly == /\ consumerPc = "idle"
                   /\ consumerPc' = "read"
                   /\ UNCHANGED <<buffer, producerVars, getIndex, out>>

BeginGet == /\ consumerPc = "idle"
            /\ getIndex # putIndex
            /\ consumerPc' = "read"
            /\ UNCHANGED <<buffer, producerVars, getIndex, out>>

ReadSlot == /\ consumerPc = "read"
            /\ out' = buffer[Masked(getIndex)]
            /\ consumerPc' = "publish"
            /\ UNCHANGED <<buffer, producerVars, getIndex>>

PublishGet == /\ consumerPc = "publish"
              /\ getIndex' = Following(getIndex)
              /\ consumerPc' = "idle"
              /\ UNCHANGED <<buffer, producerVars, out>>

-----------------------------------------------------------------------------
\* Reset, by the owner while neither side is at work, drops what is queued.
Reset == /\ producerPc = "idle" /\ consumerPc = "idle"
         /\ getIndex' = 0
         /\ putIndex' = 0
         /\ UNCHANGED <<buffer, producerPc, item, consumerPc, out>>

Next == \/ BeginPut \/ WriteSlot \/ PublishPut
        \/ BeginGet \/ ReadSlot \/ PublishGet
        \/ Reset

Spec == Init /\ [][Next]_vars

-----------------------------------------------------------------------------
(* Properties.                                                             *)

\* The queue never holds more than the ring has room for, counted by the
\* difference of two indices that wrap, and a side that has seen room, or
\* data, still has it when it gets to the ring.
SizeBounded ==
  /\ DataSize <= Capacity
  /\ producerPc \in {"write", "publish"} => DataSize < Capacity
  /\ consumerPc \in {"read", "publish"} => DataSize > 0

\* The two sides are never at the same slot of the ring, which is why it
\* needs no lock.
NoSharedSlot ==
  producerPc = "write" /\ consumerPc = "read" => Masked(putIndex) # Masked(getIndex)

\* The descriptors in the ring, oldest first.  The consumer takes its copy
\* before it gives up the slot: from then on the item counts as taken.
Contents(from, n) == [i \in 1 .. n |-> buffer[Masked(from + i - 1)]]
Queue == IF consumerPc = "publish" THEN Contents(getIndex + 1, DataSize - 1)
                                   ELSE Contents(getIndex, DataSize)

Fifo == INSTANCE BoundedFifo WITH queue <- Queue, taken <- out

\* The ring implements the queue: nothing is lost, repeated, reordered or
\* overwritten, whatever the interleaving and wherever the indices wrap.
ImplementsFifo == Fifo!Spec

\* What the slot between "publish" states holds.
IInv == /\ TypeOK
        /\ SizeBounded
        /\ producerPc = "publish" => buffer[Masked(putIndex)] = item
        /\ consumerPc = "publish" => out = buffer[Masked(getIndex)]
=============================================================================
