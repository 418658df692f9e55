------------------------------- MODULE ShmRing -------------------------------
(***************************************************************************)
(* ShmRing: a ring of slots in POSIX shared memory between one producer    *)
(* process and the application.  It outlives both: a process that ends, or *)
(* dies at any point, leaves head, tail and the slots as they are, and     *)
(* whoever opens the ring next goes on from there.                         *)
(*                                                                         *)
(* A slot holds a length, of which only "zero or not" matters, and a       *)
(* payload.  The indices have 64 bits and are not reduced.                 *)
(***************************************************************************)
EXTENDS Integers, Sequences

CONSTANTS SlotCount,  \* slot_count of the header
          Payloads,   \* what a slot may hold
          MaxItems    \* bound: slots committed in a behaviour

ASSUME SlotCountAssumption == SlotCount \in Nat \ {0}
ASSUME PayloadsAssumption == Payloads # {}
ASSUME MaxItemsAssumption == MaxItems \in Nat

VARIABLES head,         \* header_->head
          tail,         \* header_->tail
          slotLength,   \* whether the length stored in a slot is not zero
          slotPayload   \* the bytes after it

shmVars == <<head, tail, slotLength, slotPayload>>

RingSlots == 0 .. (SlotCount - 1)
RingSlot(i) == i % SlotCount

\* A ring that CreateShm has just made is filled with zeros.
ShmInit == /\ head = 0 /\ tail = 0
           /\ slotLength = [s \in RingSlots |-> FALSE]
           /\ slotPayload = [s \in RingSlots |-> CHOOSE p \in Payloads : TRUE]

\* Mutant of HasRoom: the count of the slots taken starts too low.
HasRoomOneTooMany == tail - head <= SlotCount

\* ProducerAcquire: (tail + 1) - head > slot_count is "full".
HasRoom == tail + 1 - head <= SlotCount

\* The producer fills the slot it acquired, in place.
WritePayload == /\ \E p \in Payloads : slotPayload' = [slotPayload EXCEPT ![RingSlot(tail)] = p]
                /\ UNCHANGED <<head, tail, slotLength>>

\* ProducerCommit stores the length and then moves tail.
StoreLength == /\ slotLength' = [slotLength EXCEPT ![RingSlot(tail)] = TRUE]
               /\ UNCHANGED <<head, tail, slotPayload>>

MoveTail == /\ tail' = tail + 1
            /\ UNCHANGED <<head, slotLength, slotPayload>>

\* ConsumerPeek finds a slot.
Peekable == head < tail /\ slotLength[RingSlot(head)]

\* ConsumerAdvance, called with the index that was peeked.
MoveHead == /\ head' = head + 1
            /\ UNCHANGED <<tail, slotLength, slotPayload>>
=============================================================================
