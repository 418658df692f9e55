----------------------------- MODULE BoundedFifo -----------------------------
(***************************************************************************)
(* A first-in first-out queue of limited size between one producer and one *)
(* consumer: what the descriptor queue promises the DMA channel.           *)
(***************************************************************************)
EXTENDS Naturals, Sequences

CONSTANTS Items,     \* what may be queued
          Capacity   \* how many at most

VARIABLES queue,     \* what is queued, oldest first
          taken      \* the item the consumer got last

vars == <<queue, taken>>

Init == queue = <<>> /\ taken \in Items

Put == /\ Len(queue) < Capacity
       /\ \E d \in Items : queue' = Append(queue, d)
       /\ UNCHANGED taken

Get == /\ queue # <<>>
       /\ taken' = Head(queue)
       /\ queue' = Tail(queue)

Clear == queue' = <<>> /\ UNCHANGED taken

Next == Put \/ Get \/ Clear

Spec == Init /\ [][Next]_vars
=============================================================================
