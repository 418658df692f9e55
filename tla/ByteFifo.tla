------------------------------- MODULE ByteFifo -------------------------------
(***************************************************************************)
(* A first-in first-out queue of bytes between one producer and one        *)
(* consumer, who put and get several bytes at once: what the copy queue    *)
(* promises the DMA channel.                                               *)
(***************************************************************************)
EXTENDS Naturals, Sequences

CONSTANTS Chunks,    \* the sequences of bytes that may be put at once
          Capacity   \* how many bytes may be queued

VARIABLES queue,     \* what is queued, oldest first
          offered,   \* what the producer is putting, or nothing
          received   \* what the consumer's last Get gave it

vars == <<queue, offered, received>>

Init == queue = <<>> /\ offered = <<>> /\ received = <<>>

\* The producer offers what there is room for, and keeps to it.
Offer == /\ offered = <<>>
         /\ \E c \in Chunks : Len(queue) + Len(c) <= Capacity /\ offered' = c
         /\ UNCHANGED <<queue, received>>

Put == /\ queue' = queue \o offered
       /\ offered' = <<>>
       /\ UNCHANGED received

Get == /\ \E n \in 1 .. Len(queue) :
            /\ received' = SubSeq(queue, 1, n)
            /\ queue' = SubSeq(queue, n + 1, Len(queue))
       /\ UNCHANGED offered

Clear == /\ offered = <<>>
         /\ queue' = <<>>
         /\ UNCHANGED <<offered, received>>

Next == Offer \/ Put \/ Get \/ Clear

Spec == Init /\ [][Next]_vars
=============================================================================
