--------------------------- MODULE OrderedDelivery ---------------------------
(***************************************************************************)
(* What the ordered data processor promises its listener: blocks are       *)
(* accepted in any order and handed on in the order of their request       *)
(* numbers, each exactly once and none skipped.  Requests are numbered     *)
(* from 0 within a session; Restart begins a new one.                      *)
(***************************************************************************)
EXTENDS Naturals, Sequences

CONSTANT Requests      \* the request numbers a block may carry

VARIABLES accepted,    \* numbers of the blocks taken over from the readers
          delivered    \* numbers of the blocks the listener got, in order

vars == <<accepted, delivered>>

Init == /\ accepted = {}
        /\ delivered = <<>>

\* A block is taken over, once, whatever came before it.
Accept == \E r \in Requests \ accepted :
            /\ accepted' = accepted \union {r}
            /\ UNCHANGED delivered

\* The listener gets the block whose number is the count of those before it.
Deliver == /\ Len(delivered) \in accepted
           /\ delivered' = Append(delivered, Len(delivered))
           /\ UNCHANGED accepted

Restart == /\ accepted' = {}
           /\ delivered' = <<>>

Next == Accept \/ Deliver \/ Restart

Spec == Init /\ [][Next]_vars
=============================================================================
