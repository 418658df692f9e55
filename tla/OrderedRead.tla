----------------------------- MODULE OrderedRead -----------------------------
(***************************************************************************)
(* The protocol by which the file readers feed the ordered data processor. *)
(* One thread numbers the read requests from a counter and holds each one  *)
(* at a gate until the slot it maps to is not the next one the output      *)
(* thread will empty.  The reads finish in any order, on any thread; a     *)
(* finished read calls ProcessData, a failed one does not.  Nothing else   *)
(* keeps two requests out of one slot: the ring has no lock and            *)
(* ProcessData drops a block that finds its slot occupied.                 *)
(*                                                                         *)
(* The legacy, the streaming and the IOCP reader share this protocol.  The *)
(* module keeps what the processor sees of them; queues, threads, buffers  *)
(* and the limit on outstanding reads are in the readers' own modules.     *)
(***************************************************************************)
EXTENDS OrderedDataProcessor

CONSTANT MaxRequests   \* bound: requests numbered in one session

ASSUME MaxRequestsAssumption == MaxRequests \in Nat

VARIABLES
  requestCounter,  \* global_request_counter_
  atGate,          \* the last number taken is held at the gate
  reading,         \* requests past the gate whose read is not over
  storing,         \* requests inside ProcessData, before the release store
  stopRequested    \* stop_requested_

readVars == <<requestCounter, atGate, reading, storing, stopRequested>>
vars == <<odpVars, readVars>>

Requests == 0 .. (MaxRequests - 1)

TypeOK ==
  /\ slotFilled \in [Slots -> BOOLEAN]
  /\ slotBlock \in [Slots -> Nat \union {NoBlock}]
  /\ nextOutputSlot \in Slots
  /\ stopThread \in BOOLEAN
  /\ outPc \in OutputPcs
  /\ delivered \in Seq(Nat)
  /\ requestCounter \in 0 .. MaxRequests
  /\ atGate \in BOOLEAN
  /\ atGate => requestCounter > 0
  /\ reading \in SUBSET Requests
  /\ storing \in SUBSET Requests
  /\ stopRequested \in BOOLEAN

Init == /\ ODPInit
        /\ requestCounter = 0
        /\ atGate = FALSE
        /\ reading = {}
        /\ storing = {}
        /\ stopRequested = FALSE

-----------------------------------------------------------------------------
(* The thread that issues the requests.                                    *)

ClaimRequest == /\ outPc # "none"
                /\ ~stopRequested
                /\ ~atGate
                /\ requestCounter < MaxRequests
                /\ requestCounter' = requestCounter + 1
                /\ atGate' = TRUE
                /\ UNCHANGED <<odpVars, reading, storing, stopRequested>>

Claimed == requestCounter - 1

\* Mutant of GateOpen: the whole first lap and one request more pass freely.
GateOpenOneTooMany == Claimed <= TotalSlots \/ SlotOf(Claimed) # nextOutputSlot

\* The first request passes as it is; a later one waits while its slot is
\* the next to be output.
GateOpen == Claimed = 0 \/ SlotOf(Claimed) # nextOutputSlot

PassGate == /\ atGate
            /\ GateOpen
            /\ ~stopRequested
            /\ atGate' = FALSE
            /\ reading' = reading \union {Claimed}
            /\ UNCHANGED <<odpVars, requestCounter, storing, stopRequested>>

\* A stop ends the wait, and the request is never issued.
LeaveGate == /\ atGate
             /\ stopRequested
             /\ atGate' = FALSE
             /\ UNCHANGED <<odpVars, requestCounter, reading, storing, stopRequested>>

-----------------------------------------------------------------------------
(* The end of a read, on whichever thread performed it.                    *)

\* A reader whose block ProcessData refuses drops it.
BeginProcessData == \E r \in reading :
  /\ StoreBlock(r)
  /\ reading' = reading \ {r}
  /\ storing' = IF Occupied(r) THEN storing ELSE storing \union {r}
  /\ UNCHANGED <<requestCounter, atGate, stopRequested>>

EndProcessData == \E r \in storing :
  /\ MarkFilled(r)
  /\ storing' = storing \ {r}
  /\ UNCHANGED <<requestCounter, atGate, reading, stopRequested>>

\* The read fails, returns nothing, or is given up because of a stop.
AbandonRead == \E r \in reading :
  /\ reading' = reading \ {r}
  /\ UNCHANGED <<odpVars, requestCounter, atGate, storing, stopRequested>>

-----------------------------------------------------------------------------
(* The owner: Start, Stop (request, wait for the readers, stop the output  *)
(* thread, join it) and Reset before the next Start.                       *)

StartSession == /\ ~stopRequested
                /\ StartProcessing
                /\ UNCHANGED readVars

RequestStop == /\ outPc # "none"
               /\ ~stopRequested
               /\ stopRequested' = TRUE
               /\ UNCHANGED <<odpVars, requestCounter, atGate, reading, storing>>

\* No reader thread is at work; requests may be left in a reader's queue.
Quiet == ~atGate /\ storing = {}

StopOutput == /\ stopRequested /\ Quiet /\ ~stopThread
              /\ RequestStopProcessing
              /\ UNCHANGED readVars

JoinOutput == /\ JoinOutputThread
              /\ UNCHANGED readVars

ResetSession == /\ stopRequested /\ Quiet
                /\ outPc = "none"
                /\ ResetProcessor
                /\ requestCounter' = 0
                /\ reading' = {}
                /\ stopRequested' = FALSE
                /\ UNCHANGED <<atGate, storing>>

-----------------------------------------------------------------------------
OutputStep == OutputThread /\ UNCHANGED readVars
ListenerThrows == OutputThrow /\ UNCHANGED readVars

Next == \/ ClaimRequest \/ PassGate \/ LeaveGate
        \/ BeginProcessData \/ EndProcessData \/ AbandonRead
        \/ StartSession \/ RequestStop \/ StopOutput \/ JoinOutput \/ ResetSession
        \/ OutputStep \/ ListenerThrows

\* The output thread is a thread of its own that polls its slot every
\* millisecond; nothing is assumed of the readers or of the user.
Fairness == WF_vars(OutputStep)

SafeSpec == Init /\ [][Next]_vars
Spec == SafeSpec /\ Fairness

-----------------------------------------------------------------------------
(* Properties.                                                             *)

\* Number of slots the output thread has emptied and moved past.
Emptied == IF outPc \in {"clear", "advance"} THEN Len(delivered) - 1
                                             ELSE Len(delivered)

\* ProcessData never meets an occupied slot, so no block that was read is
\* dropped there: the check in ProcessData relies on the gate alone.
NoRefusal == \A r \in reading : ~Occupied(r)

\* No two threads meet in a slot, which ProcessData and the output thread touch
\* without a lock: two readers never write the same one at the same time, none
\* writes the slot whose block the listener is being given, and none is refused.
SlotExclusive ==
  /\ \A q, r \in reading \union storing : SlotOf(q) = SlotOf(r) => q = r
  /\ outPc \in {"deliver", "clear"}
       => \A r \in storing : SlotOf(r) # nextOutputSlot
  /\ NoRefusal

\* The listener gets the blocks of a session in request order from the first
\* on, none twice and none skipped, whatever order the reads finish in.
InOrder == \A i \in 1 .. Len(delivered) : delivered[i] = i - 1

\* The blocks the processor has taken over: those delivered and those in a
\* filled slot.
Accepted == {delivered[i] : i \in 1 .. Len(delivered)}
              \union {slotBlock[s] : s \in {t \in Slots : slotFilled[t]}}

OD == INSTANCE OrderedDelivery WITH accepted <- Accepted

\* The slot ring with its gate implements in-order, exactly-once delivery.
ImplementsOrderedDelivery == OD!Spec

\* A block is delivered once it and all before it have been taken over,
\* unless the session is stopped or the listener has thrown.
InFilledSlot(r) == slotFilled[SlotOf(r)] /\ slotBlock[SlotOf(r)] = r
Deliverable(r) == /\ outPc # "none"
                  /\ \A q \in 0 .. r : q < Len(delivered) \/ InFilledSlot(q)
DeliveryProgress ==
  \A r \in Requests :
    Deliverable(r) ~> (r < Len(delivered) \/ stopRequested \/ outPc = "exited")

\* The number of requests that have passed the gate.
Issued == IF atGate THEN requestCounter - 1 ELSE requestCounter

\* The output thread has delivered all that came before the request at the gate.
CaughtUp == /\ atGate /\ Claimed > 0 /\ Len(delivered) = Claimed
            /\ outPc = "poll" /\ ~stopThread

\* A request that was issued and will not be stored: its read was given up.
Lost(r) == r < Issued /\ r \notin Accepted \union reading \union storing

\* What stalls the delivery stalls it until the user stops the session.  Once the
\* output thread has caught up with the request at the gate, the gate waits for the
\* output thread and the output thread for the request: nothing but a stop can
\* happen.  And a read that failed leaves its slot empty for good: its request is
\* not read again, so neither it nor a later one is delivered.
KeepsStall == /\ CaughtUp /\ ~stopRequested => RequestStop
              /\ \A r \in Requests : Lost(r) => Lost(r)' \/ ResetSession
StallsStay == [][KeepsStall]_vars

\* The strengthening of InOrder, NoRefusal and SlotExclusive that every step
\* preserves.  The requests past the gate lie in a window that starts at
\* the slot to be emptied next and is at most TotalSlots long, so that no
\* two of them share a slot, and a filled slot holds the one request of the
\* window that maps to it.
WindowInv ==
  /\ nextOutputSlot = SlotOf(Emptied)
  /\ Emptied >= 0
  /\ Len(delivered) <= Issued
  /\ ~stopRequested => Issued <= Emptied + TotalSlots

InWindow(r) == r < Issued /\ r < Emptied + TotalSlots

InFlightInv ==
  /\ reading \intersect storing = {}
  /\ \A r \in reading \union storing : Len(delivered) <= r /\ InWindow(r)
  /\ \A r \in storing : ~slotFilled[SlotOf(r)] /\ slotBlock[SlotOf(r)] = r

SlotInv ==
  \A s \in Slots : slotFilled[s] =>
    /\ slotBlock[s] \in Nat
    /\ SlotOf(slotBlock[s]) = s
    /\ Emptied <= slotBlock[s] /\ InWindow(slotBlock[s])
    /\ slotBlock[s] \notin reading \union storing

OutputInv ==
  /\ outPc \in {"deliver", "clear"} => slotFilled[nextOutputSlot]
  /\ outPc = "advance" => ~slotFilled[nextOutputSlot]

IInv == TypeOK /\ InOrder /\ WindowInv /\ InFlightInv /\ SlotInv /\ OutputInv
=============================================================================
