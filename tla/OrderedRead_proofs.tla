-------------------------- MODULE OrderedRead_proofs --------------------------
(***************************************************************************)
(* Proofs about OrderedRead, for every ring size and every number of       *)
(* requests: the window invariant IInv and what follows from it.           *)
(***************************************************************************)
EXTENDS OrderedRead, TLAPS

-----------------------------------------------------------------------------
(* Facts about the slot a request maps to.                                 *)

\* The slot of a request is one of the ring's (the index computed at the top
\* of ProcessData stays in bounds).
LEMMA SlotOfInRing == \A r \in Nat : SlotOf(r) \in Slots
  BY TotalSlotsAssumption, SMT DEF SlotOf, Slots

\* Division with remainder by the ring size.
LEMMA Quotient ==
  \A r \in Nat : /\ r \div TotalSlots \in Nat
                 /\ r = TotalSlots * (r \div TotalSlots) + SlotOf(r)
  BY TotalSlotsAssumption, SMT DEF SlotOf

\* Quotient and remainder are unique.
LEMMA UniqueRemainder ==
  ASSUME NEW x \in Int, NEW y \in Int, NEW s \in Slots, NEW t \in Slots,
         TotalSlots * x + s = TotalSlots * y + t
  PROVE  x = y /\ s = t
<1>0. s \in Int /\ t \in Int /\ t - s < TotalSlots /\ s - t < TotalSlots
  BY TotalSlotsAssumption DEF Slots
<1>1. CASE x > y
  <2>1. TotalSlots * (x - y) >= TotalSlots
    BY <1>1, TotalSlotsAssumption
  <2>2. t - s = TotalSlots * (x - y)
    BY <1>0, TotalSlotsAssumption
  <2> QED BY <1>0, <2>1, <2>2, TotalSlotsAssumption
<1>2. CASE x < y
  <2>1. TotalSlots * (y - x) >= TotalSlots
    BY <1>2, TotalSlotsAssumption
  <2>2. s - t = TotalSlots * (y - x)
    BY <1>0, TotalSlotsAssumption
  <2> QED BY <1>0, <2>1, <2>2, TotalSlotsAssumption
<1>3. CASE x = y
  BY <1>0, <1>3, TotalSlotsAssumption
<1> QED BY <1>1, <1>2, <1>3

\* Two requests less than a ring apart map to different slots.
LEMMA SlotOfInjective ==
  ASSUME NEW q \in Nat, NEW r \in Nat, q <= r, r < q + TotalSlots,
         SlotOf(q) = SlotOf(r)
  PROVE  q = r
<1> DEFINE x == q \div TotalSlots
           y == r \div TotalSlots
<1>1. /\ x \in Nat /\ y \in Nat
      /\ SlotOf(q) \in Int
      /\ q = TotalSlots * x + SlotOf(q)
      /\ r = TotalSlots * y + SlotOf(r)
  BY Quotient, SlotOfInRing DEF Slots
<1> HIDE DEF x, y
<1>2. r - q = TotalSlots * (y - x)
  BY <1>1, TotalSlotsAssumption
<1>3. CASE y > x
  <2>1. TotalSlots * (y - x) >= TotalSlots
    BY <1>3, <1>1, TotalSlotsAssumption
  <2> QED BY <2>1, <1>2, TotalSlotsAssumption
<1>4. CASE y <= x
  <2>1. TotalSlots * (y - x) <= 0
    BY <1>4, <1>1, TotalSlotsAssumption
  <2> QED BY <2>1, <1>2
<1> QED BY <1>1, <1>3, <1>4

\* Requests a whole ring apart share a slot.
LEMMA SlotOfPeriod ==
  ASSUME NEW r \in Nat
  PROVE  SlotOf(r + TotalSlots) = SlotOf(r)
<1> DEFINE x == r \div TotalSlots
           y == (r + TotalSlots) \div TotalSlots
<1>1. r + TotalSlots \in Nat
  BY TotalSlotsAssumption
<1>2. /\ x \in Nat /\ y \in Nat
      /\ SlotOf(r) \in Slots /\ SlotOf(r + TotalSlots) \in Slots
      /\ r = TotalSlots * x + SlotOf(r)
      /\ r + TotalSlots = TotalSlots * y + SlotOf(r + TotalSlots)
  BY <1>1, Quotient, SlotOfInRing
<1> HIDE DEF x, y
<1>3. TotalSlots * (x + 1) + SlotOf(r) = TotalSlots * y + SlotOf(r + TotalSlots)
  BY <1>2, TotalSlotsAssumption DEF Slots
<1> QED BY <1>2, <1>3, UniqueRemainder

\* The output thread's increment modulo the ring size moves to the slot of
\* the next request.
LEMMA SlotOfNext ==
  ASSUME NEW r \in Nat
  PROVE  (SlotOf(r) + 1) % TotalSlots = SlotOf(r + 1)
<1> DEFINE x == r \div TotalSlots
           y == (r + 1) \div TotalSlots
           s == SlotOf(r)
<1>1. /\ x \in Nat /\ y \in Nat
      /\ s \in Slots /\ SlotOf(r + 1) \in Slots
      /\ r = TotalSlots * x + s
      /\ r + 1 = TotalSlots * y + SlotOf(r + 1)
  BY Quotient, SlotOfInRing
<1> HIDE DEF x, y, s
<1>2. CASE s + 1 = TotalSlots
  <2>1. (s + 1) % TotalSlots = 0
    BY <1>2, TotalSlotsAssumption
  <2>2. 0 \in Slots
    BY TotalSlotsAssumption DEF Slots
  <2>3. TotalSlots * (x + 1) + 0 = TotalSlots * y + SlotOf(r + 1)
    BY <1>1, <1>2, TotalSlotsAssumption DEF Slots
  <2>4. SlotOf(r + 1) = 0
    BY <1>1, <2>2, <2>3, UniqueRemainder
  <2> QED BY <2>1, <2>4 DEF s
<1>3. CASE s + 1 # TotalSlots
  <2>1. s + 1 \in Slots
    BY <1>1, <1>3, TotalSlotsAssumption DEF Slots
  <2>2. (s + 1) % TotalSlots = s + 1
    BY <2>1, TotalSlotsAssumption, SMT DEF Slots
  <2>3. TotalSlots * x + (s + 1) = TotalSlots * y + SlotOf(r + 1)
    BY <1>1, TotalSlotsAssumption DEF Slots
  <2>4. SlotOf(r + 1) = s + 1
    BY <1>1, <2>1, <2>3, UniqueRemainder
  <2> QED BY <2>2, <2>4 DEF s
<1> QED BY <1>2, <1>3

\* Within a window of one ring a slot determines the request.
LEMMA WindowInjective ==
  ASSUME NEW lo \in Nat, NEW q \in Nat, NEW r \in Nat,
         lo <= q, q < lo + TotalSlots, lo <= r, r < lo + TotalSlots,
         SlotOf(q) = SlotOf(r)
  PROVE  q = r
<1>1. CASE q <= r
  BY <1>1, SlotOfInjective, TotalSlotsAssumption
<1>2. CASE r < q
  BY <1>2, SlotOfInjective, TotalSlotsAssumption
<1> QED BY <1>1, <1>2

\* Numbering starts at slot 0.
LEMMA SlotOfZero == SlotOf(0) = 0
  BY TotalSlotsAssumption DEF SlotOf

-----------------------------------------------------------------------------
(* The window invariant.  The helper facts are read off the invariant in   *)
(* one state; the lemma after them has a step for every action.            *)

\* The block in a filled slot is determined by the window: the slot to be
\* output next holds exactly the request that is due.
LEMMA DueBlock ==
  ASSUME IInv, slotFilled[nextOutputSlot]
  PROVE  slotBlock[nextOutputSlot] = Emptied
<1> DEFINE b == slotBlock[nextOutputSlot]
<1>1. Emptied \in Nat /\ nextOutputSlot \in Slots /\ nextOutputSlot = SlotOf(Emptied)
  BY DEF IInv, TypeOK, WindowInv, Emptied
<1>2. b \in Nat /\ SlotOf(b) = nextOutputSlot /\ Emptied <= b /\ b < Emptied + TotalSlots
  BY <1>1 DEF IInv, SlotInv, InWindow
<1> HIDE DEF b
<1>3. Emptied = b
  BY <1>1, <1>2, SlotOfInjective
<1> QED BY <1>3 DEF b

\* Two requests in flight that share a slot are one request.
LEMMA InFlightDistinct ==
  ASSUME IInv, NEW q \in reading \union storing, NEW r \in reading \union storing,
         SlotOf(q) = SlotOf(r)
  PROVE  q = r
<1>1. q \in Nat /\ r \in Nat /\ Emptied \in Nat
  BY DEF IInv, TypeOK, WindowInv, Emptied, Requests
<1>2. Emptied <= q /\ q < Emptied + TotalSlots /\ Emptied <= r /\ r < Emptied + TotalSlots
  BY <1>1 DEF IInv, TypeOK, InFlightInv, InWindow, Emptied
<1> QED BY <1>1, <1>2, WindowInjective

\* A request in flight and a filled slot never collide: ProcessData accepts.
LEMMA InFlightSlotFree ==
  ASSUME IInv, NEW r \in reading \union storing
  PROVE  ~slotFilled[SlotOf(r)]
<1> SUFFICES ASSUME slotFilled[SlotOf(r)] PROVE FALSE
  OBVIOUS
<1> DEFINE b == slotBlock[SlotOf(r)]
<1>1. r \in Nat /\ Emptied \in Nat /\ SlotOf(r) \in Slots
  BY SlotOfInRing DEF IInv, TypeOK, WindowInv, Emptied, Requests
<1>2. Emptied <= r /\ r < Emptied + TotalSlots
  BY <1>1 DEF IInv, TypeOK, InFlightInv, InWindow, Emptied
<1>3. /\ b \in Nat /\ SlotOf(b) = SlotOf(r)
      /\ Emptied <= b /\ b < Emptied + TotalSlots
      /\ b \notin reading \union storing
  BY <1>1 DEF IInv, SlotInv, InWindow
<1> HIDE DEF b
<1>4. b = r
  BY <1>1, <1>2, <1>3, WindowInjective
<1> QED BY <1>3, <1>4

\* Init: an empty ring, nothing in flight.
LEMMA InitInv == Init => IInv
<1> SUFFICES ASSUME Init PROVE IInv
  OBVIOUS
<1> USE TotalSlotsAssumption, MaxRequestsAssumption DEF Init, ODPInit
<1>1. TypeOK
  <2>1. slotFilled \in [Slots -> BOOLEAN] /\ slotBlock \in [Slots -> Nat \union {NoBlock}]
    OBVIOUS
  <2>2. delivered \in Seq(Nat)
    OBVIOUS
  <2>3. nextOutputSlot \in Slots /\ requestCounter \in 0 .. MaxRequests
    BY DEF Slots
  <2>4. atGate \in BOOLEAN /\ stopThread \in BOOLEAN /\ stopRequested \in BOOLEAN
    OBVIOUS
  <2> QED BY <2>1, <2>2, <2>3, <2>4 DEF TypeOK, OutputPcs
<1>2. InOrder /\ Emptied = 0 /\ Issued = 0
  BY DEF InOrder, Emptied, Issued
<1>3. WindowInv
  BY <1>2, SlotOfZero DEF WindowInv
<1>4. InFlightInv /\ SlotInv /\ OutputInv
  BY DEF InFlightInv, SlotInv, OutputInv
<1> QED BY <1>1, <1>2, <1>3, <1>4 DEF IInv

\* Steps that leave the ring, the history and the requests in flight alone
\* keep the whole invariant.
LEMMA RingUntouched ==
  ASSUME IInv, TypeOK',
         UNCHANGED <<slotFilled, slotBlock, nextOutputSlot, delivered, reading, storing>>,
         Emptied' = Emptied, Issued' = Issued,
         stopRequested => stopRequested',
         OutputInv'
  PROVE  IInv'
<1>1. InOrder'
  BY DEF IInv, InOrder
<1>2. WindowInv'
  BY DEF IInv, WindowInv
<1>3. InFlightInv'
  BY DEF IInv, InFlightInv, InWindow
<1>4. SlotInv'
  BY DEF IInv, SlotInv, InWindow
<1> QED BY <1>1, <1>2, <1>3, <1>4 DEF IInv
-----------------------------------------------------------------------------
(* The readers' steps.                                                     *)

\* A claimed number is new and behind the gate, so the window keeps.
LEMMA ClaimRequestInv == IInv /\ ClaimRequest => IInv'
<1> SUFFICES ASSUME IInv, ClaimRequest PROVE IInv'
  OBVIOUS
<1> USE DEF ClaimRequest, odpVars
<1>1. TypeOK'
  BY MaxRequestsAssumption DEF IInv, TypeOK
<1>2. Emptied' = Emptied /\ Issued' = Issued
  BY DEF Emptied, Issued, IInv, TypeOK
<1>3. OutputInv'
  BY DEF IInv, OutputInv
<1> QED BY <1>1, <1>2, <1>3, RingUntouched

\* The gate lets a request pass only if it is not a whole ring ahead of the
\* slot to be emptied, so the window grows to a ring at most.
LEMMA PassGateInv == IInv /\ PassGate => IInv'
<1> SUFFICES ASSUME IInv, PassGate PROVE IInv'
  OBVIOUS
<1> USE DEF PassGate, odpVars
<1>0. /\ Claimed \in Requests /\ Claimed \in Nat /\ Claimed = Issued
      /\ Emptied \in Nat /\ Emptied <= Len(delivered)
      /\ Len(delivered) \in Nat /\ Issued \in Nat
  BY MaxRequestsAssumption DEF IInv, TypeOK, WindowInv, Claimed, Issued, Requests, Emptied
<1>1. TypeOK'
  BY <1>0 DEF IInv, TypeOK
<1>2. Emptied' = Emptied /\ Issued' = Issued + 1
  BY <1>0 DEF Emptied, Issued, Claimed, IInv, TypeOK
<1>3. Claimed < Emptied + TotalSlots
  <2>1. Issued <= Emptied + TotalSlots
    BY DEF IInv, WindowInv
  <2>2. Issued # Emptied + TotalSlots
    <3> SUFFICES ASSUME Issued = Emptied + TotalSlots PROVE FALSE
      OBVIOUS
    <3>1. SlotOf(Claimed) = nextOutputSlot
      BY <1>0, SlotOfPeriod DEF IInv, WindowInv
    <3>2. Claimed # 0
      BY <1>0, TotalSlotsAssumption
    <3> QED BY <3>1, <3>2 DEF GateOpen
  <2> QED BY <2>1, <2>2, <1>0, TotalSlotsAssumption
<1>4. InOrder'
  BY DEF IInv, InOrder
<1>5. WindowInv'
  BY <1>0, <1>2, <1>3, TotalSlotsAssumption DEF IInv, WindowInv
<1>6. InFlightInv'
  <2>1. \A r \in reading \union storing : r \in Nat /\ r < Issued
    BY DEF IInv, TypeOK, InFlightInv, InWindow, Requests
  <2>2. reading' \intersect storing' = {}
    BY <2>1, <1>0 DEF IInv, InFlightInv
  <2>3. Len(delivered) <= Claimed /\ Claimed < Issued'
    BY <1>0, <1>2 DEF IInv, WindowInv
  <2>4. \A r \in reading' \union storing' : Len(delivered)' <= r /\ InWindow(r)'
    BY <2>1, <2>3, <1>0, <1>2, <1>3, TotalSlotsAssumption DEF IInv, InFlightInv, InWindow
  <2> QED BY <2>2, <2>4 DEF IInv, InFlightInv
<1>7. SlotInv'
  BY <1>0, <1>2 DEF IInv, SlotInv, InWindow
<1>8. OutputInv'
  BY DEF IInv, OutputInv
<1> QED BY <1>1, <1>4, <1>5, <1>6, <1>7, <1>8 DEF IInv

\* A stop lets the request at the gate go: its number stays used and nothing
\* passes the gate any more.
LEMMA LeaveGateInv == IInv /\ LeaveGate => IInv'
<1> SUFFICES ASSUME IInv, LeaveGate PROVE IInv'
  OBVIOUS
<1> USE DEF LeaveGate, odpVars
<1>0. Emptied \in Nat /\ Len(delivered) \in Nat /\ Issued \in Nat
  BY DEF IInv, TypeOK, WindowInv, Issued, Emptied
<1>1. TypeOK'
  BY DEF IInv, TypeOK
<1>2. Emptied' = Emptied /\ Issued' = Issued + 1
  BY DEF Emptied, Issued, IInv, TypeOK
<1>3. InOrder' /\ OutputInv'
  BY DEF IInv, InOrder, OutputInv
<1>4. WindowInv'
  BY <1>0, <1>2 DEF IInv, WindowInv
<1>5. InFlightInv'
  BY <1>0, <1>2 DEF IInv, TypeOK, InFlightInv, InWindow, Requests
<1>6. SlotInv'
  BY <1>0, <1>2 DEF IInv, SlotInv, InWindow
<1> QED BY <1>1, <1>3, <1>4, <1>5, <1>6 DEF IInv

\* The block goes into a slot that no filled block and no other request in
\* flight uses.
LEMMA BeginProcessDataInv == IInv /\ BeginProcessData => IInv'
<1> SUFFICES ASSUME IInv, NEW r \in reading,
                    slotBlock' = [slotBlock EXCEPT ![SlotOf(r)] = r],
                    UNCHANGED <<slotFilled, nextOutputSlot, stopThread, outPc, delivered>>,
                    reading' = reading \ {r},
                    storing' = storing \union {r},
                    UNCHANGED <<requestCounter, atGate, stopRequested>>
             PROVE  IInv'
  BY InFlightSlotFree DEF BeginProcessData, StoreBlock, Occupied
<1>0. r \in Requests /\ r \in Nat /\ SlotOf(r) \in Slots
  BY SlotOfInRing DEF IInv, TypeOK, Requests
<1>free. ~slotFilled[SlotOf(r)]
  BY InFlightSlotFree
<1>1. TypeOK'
  BY <1>0 DEF IInv, TypeOK
<1>2. Emptied' = Emptied /\ Issued' = Issued
  BY DEF Emptied, Issued
<1>3. InOrder' /\ OutputInv' /\ WindowInv'
  BY <1>2 DEF IInv, InOrder, OutputInv, WindowInv
<1>4. slotBlock \in [Slots -> Nat \union {NoBlock}]
  BY DEF IInv, TypeOK
<1>5. reading' \union storing' = reading \union storing
  OBVIOUS
<1>6. InFlightInv'
  <2>1. reading' \intersect storing' = {}
    BY DEF IInv, InFlightInv
  <2>2. \A q \in reading' \union storing' : Len(delivered)' <= q /\ InWindow(q)'
    BY <1>2, <1>5 DEF IInv, InFlightInv, InWindow
  <2>3. ASSUME NEW q \in storing'
        PROVE  ~slotFilled'[SlotOf(q)] /\ slotBlock'[SlotOf(q)] = q
    <3>1. CASE q = r
      BY <3>1, <1>0, <1>free, <1>4
    <3>2. CASE q \in storing /\ q # r
      <4>1. SlotOf(q) # SlotOf(r)
        BY <3>2, InFlightDistinct
      <4> QED BY <4>1, <3>2, <1>4 DEF IInv, InFlightInv
    <3> QED BY <3>1, <3>2
  <2> QED BY <2>1, <2>2, <2>3 DEF InFlightInv
<1>7. SlotInv'
  BY <1>0, <1>free, <1>2, <1>4, <1>5 DEF IInv, SlotInv, InWindow
<1> QED BY <1>1, <1>3, <1>6, <1>7 DEF IInv

\* Setting the flag turns the stored block into a filled slot.
LEMMA EndProcessDataInv == IInv /\ EndProcessData => IInv'
<1> SUFFICES ASSUME IInv, NEW r \in storing,
                    MarkFilled(r),
                    storing' = storing \ {r},
                    UNCHANGED <<requestCounter, atGate, reading, stopRequested>>
             PROVE  IInv'
  BY DEF EndProcessData
<1> USE DEF MarkFilled
<1>0. /\ r \in Nat /\ SlotOf(r) \in Slots
      /\ Emptied \in Nat /\ Emptied <= Len(delivered) /\ Len(delivered) \in Nat
  BY SlotOfInRing DEF IInv, TypeOK, Requests, WindowInv, Emptied
<1>1. TypeOK'
  BY <1>0 DEF IInv, TypeOK
<1>2. Emptied' = Emptied /\ Issued' = Issued
  BY DEF Emptied, Issued
<1>3. InOrder' /\ WindowInv'
  BY <1>2 DEF IInv, InOrder, WindowInv
<1>4. slotFilled \in [Slots -> BOOLEAN]
  BY DEF IInv, TypeOK
<1>5. InFlightInv'
  <2>1. reading' \intersect storing' = {}
    BY DEF IInv, InFlightInv
  <2>2. \A q \in reading' \union storing' : Len(delivered)' <= q /\ InWindow(q)'
    BY <1>2 DEF IInv, InFlightInv, InWindow
  <2>3. ASSUME NEW q \in storing'
        PROVE  ~slotFilled'[SlotOf(q)] /\ slotBlock'[SlotOf(q)] = q
    <3>1. SlotOf(q) # SlotOf(r)
      BY InFlightDistinct
    <3> QED BY <3>1, <1>4, <1>0 DEF IInv, InFlightInv
  <2> QED BY <2>1, <2>2, <2>3 DEF InFlightInv
<1>6. SlotInv'
  <2> SUFFICES ASSUME NEW s \in Slots, slotFilled'[s]
               PROVE  /\ slotBlock[s] \in Nat
                      /\ SlotOf(slotBlock[s]) = s
                      /\ Emptied <= slotBlock[s] /\ InWindow(slotBlock[s])
                      /\ slotBlock[s] \notin reading' \union storing'
    BY <1>2 DEF SlotInv, InWindow
  <2>1. CASE s = SlotOf(r)
    BY <2>1, <1>0 DEF IInv, InFlightInv
  <2>2. CASE s # SlotOf(r)
    BY <2>2, <1>4, <1>0 DEF IInv, SlotInv
  <2> QED BY <2>1, <2>2
<1>7. OutputInv'
  <2>1. outPc = "advance" => SlotOf(r) # nextOutputSlot
    <3> SUFFICES ASSUME outPc = "advance", SlotOf(r) = nextOutputSlot PROVE FALSE
      OBVIOUS
    <3>1. Emptied < r /\ r < Emptied + TotalSlots /\ SlotOf(Emptied) = SlotOf(r)
      BY <1>0 DEF IInv, TypeOK, WindowInv, InFlightInv, InWindow, Emptied
    <3> QED BY <3>1, <1>0, SlotOfInjective
  <2>2. nextOutputSlot \in Slots
    BY DEF IInv, TypeOK
  <2> QED BY <2>1, <2>2, <1>0, <1>4 DEF IInv, OutputInv
<1> QED BY <1>1, <1>3, <1>5, <1>6, <1>7 DEF IInv

\* A request that leaves without a block - refused or abandoned - only makes
\* the set of requests in flight smaller.
LEMMA DropInv ==
  ASSUME IInv, NEW r \in reading, reading' = reading \ {r},
         UNCHANGED <<odpVars, requestCounter, atGate, storing, stopRequested>>
  PROVE  IInv'
<1> USE DEF odpVars
<1>1. TypeOK'
  BY DEF IInv, TypeOK
<1>2. Emptied' = Emptied /\ Issued' = Issued
  BY DEF Emptied, Issued
<1>3. InOrder' /\ WindowInv' /\ OutputInv'
  BY <1>2 DEF IInv, InOrder, WindowInv, OutputInv
<1>4. InFlightInv'
  BY <1>2 DEF IInv, InFlightInv, InWindow
<1>5. SlotInv'
  BY <1>2 DEF IInv, SlotInv, InWindow
<1> QED BY <1>1, <1>3, <1>4, <1>5 DEF IInv
-----------------------------------------------------------------------------
(* The output thread's steps.                                              *)

\* The output thread takes the slot only when its flag is set.
LEMMA OutputTakeInv == IInv /\ OutputTake /\ UNCHANGED readVars => IInv'
<1> SUFFICES ASSUME IInv, OutputTake, UNCHANGED readVars PROVE IInv'
  OBVIOUS
<1> USE DEF OutputTake, readVars
<1>1. TypeOK'
  BY DEF IInv, TypeOK, OutputPcs
<1>2. Emptied' = Emptied /\ Issued' = Issued
  BY DEF Emptied, Issued
<1>3. OutputInv'
  BY DEF OutputInv
<1> QED BY <1>1, <1>2, <1>3, RingUntouched

\* The listener is given the request that is due: the history grows by its
\* own length.
LEMMA OutputDeliverInv == IInv /\ OutputDeliver /\ UNCHANGED readVars => IInv'
<1> SUFFICES ASSUME IInv, OutputDeliver, UNCHANGED readVars PROVE IInv'
  OBVIOUS
<1> USE DEF OutputDeliver, readVars
<1> DEFINE n == Len(delivered)
<1>0. /\ delivered \in Seq(Nat) /\ n \in Nat /\ Emptied = n
      /\ slotFilled[nextOutputSlot] /\ nextOutputSlot \in Slots
  BY DEF IInv, TypeOK, OutputInv, Emptied
<1>1. slotBlock[nextOutputSlot] = n
  BY <1>0, DueBlock
<1>2. /\ delivered' = Append(delivered, n)
      /\ delivered' \in Seq(Nat)
      /\ Len(delivered') = n + 1
  BY <1>0, <1>1
<1>3. Emptied' = Emptied /\ Issued' = Issued
  BY <1>0, <1>2 DEF Emptied, Issued
<1>4. n < Issued /\ n \notin reading \union storing
  BY <1>0, <1>1 DEF IInv, SlotInv, InWindow
<1>5. TypeOK'
  BY <1>2 DEF IInv, TypeOK, OutputPcs
<1>6. InOrder'
  <2> SUFFICES ASSUME NEW i \in 1 .. Len(delivered') PROVE delivered'[i] = i - 1
    BY DEF InOrder
  <2>1. CASE i = n + 1
    BY <2>1, <1>0, <1>2
  <2>2. CASE i \in 1 .. n
    BY <2>2, <1>0, <1>2 DEF IInv, InOrder
  <2> QED BY <2>1, <2>2, <1>0, <1>2
<1>7. WindowInv'
  <2>1. Issued \in Nat
    BY DEF IInv, TypeOK, Issued
  <2> QED BY <2>1, <1>0, <1>2, <1>3, <1>4 DEF IInv, WindowInv
<1>8. InFlightInv'
  <2>1. \A r \in reading \union storing : r \in Nat /\ n <= r /\ r # n /\ InWindow(r)
    BY <1>4 DEF IInv, TypeOK, InFlightInv, Requests
  <2> QED BY <2>1, <1>0, <1>2, <1>3 DEF IInv, InFlightInv, InWindow
<1>9. SlotInv'
  BY <1>3 DEF IInv, SlotInv, InWindow
<1>10. OutputInv'
  BY <1>0 DEF OutputInv
<1> QED BY <1>5, <1>6, <1>7, <1>8, <1>9, <1>10 DEF IInv

\* Clearing the flag takes the delivered request out of its slot; the window
\* moves on only with the next step.
LEMMA OutputClearInv == IInv /\ OutputClear /\ UNCHANGED readVars => IInv'
<1> SUFFICES ASSUME IInv, OutputClear, UNCHANGED readVars PROVE IInv'
  OBVIOUS
<1> USE DEF OutputClear, readVars
<1>0. /\ slotBlock \in [Slots -> Nat \union {NoBlock}]
      /\ slotFilled \in [Slots -> BOOLEAN]
      /\ slotFilled[nextOutputSlot] /\ nextOutputSlot \in Slots
  BY DEF IInv, TypeOK, OutputInv
<1>1. TypeOK'
  BY <1>0 DEF IInv, TypeOK, OutputPcs
<1>2. Emptied' = Emptied /\ Issued' = Issued
  BY DEF Emptied, Issued
<1>3. InOrder' /\ WindowInv'
  BY <1>2 DEF IInv, InOrder, WindowInv
<1>4. InFlightInv'
  <2>1. ASSUME NEW r \in storing
        PROVE  ~slotFilled'[SlotOf(r)] /\ slotBlock'[SlotOf(r)] = r
    <3>1. ~slotFilled[SlotOf(r)] /\ slotBlock[SlotOf(r)] = r
      BY DEF IInv, InFlightInv
    <3>2. SlotOf(r) # nextOutputSlot /\ SlotOf(r) \in Slots
      BY <3>1, <1>0, SlotOfInRing DEF IInv, TypeOK, Requests
    <3> QED BY <3>1, <3>2, <1>0
  <2> QED BY <2>1, <1>2 DEF IInv, InFlightInv, InWindow
<1>5. SlotInv'
  BY <1>0, <1>2 DEF IInv, SlotInv, InWindow
<1>6. OutputInv'
  BY <1>0 DEF OutputInv
<1> QED BY <1>1, <1>3, <1>4, <1>5, <1>6 DEF IInv

\* Moving on makes room for one more request.
LEMMA OutputAdvanceInv == IInv /\ OutputAdvance /\ UNCHANGED readVars => IInv'
<1> SUFFICES ASSUME IInv, OutputAdvance, UNCHANGED readVars PROVE IInv'
  OBVIOUS
<1> USE DEF OutputAdvance, readVars
<1>0. /\ Emptied \in Nat /\ Len(delivered) = Emptied + 1 /\ Len(delivered) \in Nat
      /\ nextOutputSlot = SlotOf(Emptied) /\ ~slotFilled[nextOutputSlot]
      /\ Issued \in Nat
  BY DEF IInv, TypeOK, WindowInv, OutputInv, Emptied, Issued
<1>1. Emptied' = Emptied + 1 /\ Issued' = Issued
  BY <1>0 DEF Emptied, Issued
<1>2. nextOutputSlot' = SlotOf(Emptied')
  BY <1>0, <1>1, SlotOfNext
<1>3. TypeOK'
  BY <1>0, <1>1, <1>2, SlotOfInRing DEF IInv, TypeOK, OutputPcs
<1>4. InOrder' /\ OutputInv'
  BY DEF IInv, InOrder, OutputInv
<1>5. WindowInv'
  BY <1>0, <1>1, <1>2, TotalSlotsAssumption DEF IInv, WindowInv
<1>6. InFlightInv'
  BY <1>0, <1>1, TotalSlotsAssumption DEF IInv, TypeOK, InFlightInv, InWindow, Requests
<1>7. SlotInv'
  <2> SUFFICES ASSUME NEW s \in Slots, slotFilled[s]
               PROVE  Emptied + 1 <= slotBlock[s] /\ slotBlock[s] < Issued
                      /\ slotBlock[s] < Emptied + 1 + TotalSlots
    BY <1>1 DEF IInv, SlotInv, InWindow
  <2>1. slotBlock[s] # Emptied
    BY <1>0 DEF IInv, SlotInv
  <2> QED BY <2>1, <1>0, TotalSlotsAssumption DEF IInv, SlotInv, InWindow
<1> QED BY <1>3, <1>4, <1>5, <1>6, <1>7 DEF IInv

\* The thread ends, by the flag or by an exception of the listener.
LEMMA OutputEndInv == IInv /\ (OutputExit \/ OutputThrow) /\ UNCHANGED readVars => IInv'
<1> SUFFICES ASSUME IInv, OutputExit \/ OutputThrow, UNCHANGED readVars PROVE IInv'
  OBVIOUS
<1> USE DEF OutputExit, OutputThrow, readVars
<1>1. TypeOK'
  BY DEF IInv, TypeOK, OutputPcs
<1>2. Emptied' = Emptied /\ Issued' = Issued
  BY DEF Emptied, Issued
<1>3. OutputInv'
  BY DEF OutputInv
<1> QED BY <1>1, <1>2, <1>3, RingUntouched

-----------------------------------------------------------------------------
(* The owner's steps.                                                      *)

\* Start, stop and join leave the window alone.
LEMMA OwnerInv ==
  IInv /\ (StartSession \/ RequestStop \/ StopOutput \/ JoinOutput) => IInv'
<1> SUFFICES ASSUME IInv, StartSession \/ RequestStop \/ StopOutput \/ JoinOutput
             PROVE  IInv'
  OBVIOUS
<1> USE DEF StartSession, StartProcessing, RequestStop, StopOutput,
            RequestStopProcessing, JoinOutput, JoinOutputThread, odpVars, readVars
<1>1. TypeOK'
  <2>1. outPc' \in OutputPcs
    BY DEF IInv, TypeOK, OutputPcs
  <2>2. stopThread' \in BOOLEAN /\ stopRequested' \in BOOLEAN
    BY DEF IInv, TypeOK
  <2>3. UNCHANGED <<slotFilled, slotBlock, nextOutputSlot, delivered>>
    OBVIOUS
  <2>4. UNCHANGED <<requestCounter, atGate, reading, storing>>
    OBVIOUS
  <2> QED BY <2>1, <2>2, <2>3, <2>4 DEF IInv, TypeOK
<1>2. Emptied' = Emptied /\ Issued' = Issued
  BY DEF Emptied, Issued
<1>3. OutputInv'
  BY DEF IInv, OutputInv
<1>4. stopRequested => stopRequested'
  OBVIOUS
<1>5. UNCHANGED <<slotFilled, slotBlock, nextOutputSlot, delivered, reading, storing>>
  OBVIOUS
<1> QED BY <1>1, <1>2, <1>3, <1>4, <1>5, RingUntouched

\* A reset begins a new session with an empty window.
LEMMA ResetSessionInv == IInv /\ ResetSession => IInv'
<1> SUFFICES ASSUME IInv, ResetSession PROVE IInv'
  OBVIOUS
<1> USE TotalSlotsAssumption, MaxRequestsAssumption DEF ResetSession, ResetProcessor, Quiet
<1>1. TypeOK'
  <2>1. slotFilled' \in [Slots -> BOOLEAN] /\ slotBlock' \in [Slots -> Nat \union {NoBlock}]
    OBVIOUS
  <2>2. delivered' \in Seq(Nat)
    OBVIOUS
  <2>3. nextOutputSlot' \in Slots /\ requestCounter' \in 0 .. MaxRequests
    BY DEF Slots
  <2>4. atGate' \in BOOLEAN /\ stopThread' \in BOOLEAN /\ stopRequested' \in BOOLEAN
    BY DEF IInv, TypeOK
  <2>5. ~atGate' /\ outPc' \in OutputPcs /\ reading' \in SUBSET Requests
        /\ storing' \in SUBSET Requests
    BY DEF IInv, TypeOK
  <2> QED BY <2>1, <2>2, <2>3, <2>4, <2>5 DEF TypeOK
<1>2. InOrder' /\ Emptied' = 0 /\ Issued' = 0
  BY DEF InOrder, Emptied, Issued
<1>3. WindowInv'
  BY <1>2, SlotOfZero DEF WindowInv
<1>4. InFlightInv' /\ SlotInv' /\ OutputInv'
  BY DEF InFlightInv, SlotInv, OutputInv
<1> QED BY <1>1, <1>2, <1>3, <1>4 DEF IInv

\* The invariant is about the variables only.
LEMMA StutterInv == IInv /\ UNCHANGED vars => IInv'
  BY DEF vars, odpVars, readVars, IInv, TypeOK, InOrder, WindowInv, InFlightInv,
         SlotInv, OutputInv, InWindow, Emptied, Issued

\* Every step preserves the window invariant.
LEMMA StepInv == IInv /\ [Next]_vars => IInv'
<1> SUFFICES ASSUME IInv, [Next]_vars PROVE IInv'
  OBVIOUS
<1>1. CASE ClaimRequest \/ PassGate \/ LeaveGate
  BY <1>1, ClaimRequestInv, PassGateInv, LeaveGateInv
<1>2. CASE BeginProcessData \/ EndProcessData
  BY <1>2, BeginProcessDataInv, EndProcessDataInv
<1>3. CASE AbandonRead
  BY <1>3, DropInv DEF AbandonRead, odpVars
<1>4. CASE StartSession \/ RequestStop \/ StopOutput \/ JoinOutput \/ ResetSession
  BY <1>4, OwnerInv, ResetSessionInv
<1>5. CASE OutputStep
  BY <1>5, OutputTakeInv, OutputDeliverInv, OutputClearInv, OutputAdvanceInv,
     OutputEndInv DEF OutputStep, OutputThread
<1>6. CASE ListenerThrows
  BY <1>6, OutputEndInv DEF ListenerThrows
<1>7. CASE UNCHANGED vars
  BY <1>7, StutterInv
<1> QED BY <1>1, <1>2, <1>3, <1>4, <1>5, <1>6, <1>7 DEF Next

\* In every reachable state, for every ring size and any number of requests,
\* the requests in flight and in the ring fit the window.
THEOREM Invariance == Spec => []IInv
<1>1. Init => IInv
  BY InitInv
<1>2. IInv /\ [Next]_vars => IInv'
  BY StepInv
<1> QED BY <1>1, <1>2, PTL DEF Spec, SafeSpec

\* The variables keep their types; in particular the listener's history is
\* of request numbers only, an empty slot is never delivered.
THEOREM TypeCorrect == Spec => []TypeOK
<1>1. IInv => TypeOK
  BY DEF IInv
<1> QED BY <1>1, Invariance, PTL

\* The listener gets the blocks in request order, none twice, none skipped.
THEOREM DeliveredInOrder == Spec => []InOrder
<1>1. IInv => InOrder
  BY DEF IInv
<1> QED BY <1>1, Invariance, PTL

\* ProcessData never refuses a block for an occupied slot.
THEOREM NeverRefused == Spec => []NoRefusal
<1>1. IInv => NoRefusal
  BY InFlightSlotFree DEF NoRefusal, Occupied
<1> QED BY <1>1, Invariance, PTL

\* A slot has one writer at a time, none while its block is read, and no block
\* finds it occupied.
LEMMA SlotExclusiveByInv == IInv => SlotExclusive
<1> SUFFICES ASSUME IInv PROVE SlotExclusive
  OBVIOUS
<1>1. ASSUME outPc \in {"deliver", "clear"}, NEW r \in storing
      PROVE  SlotOf(r) # nextOutputSlot
  BY <1>1 DEF IInv, InFlightInv, OutputInv
<1>2. NoRefusal
  BY InFlightSlotFree DEF NoRefusal, Occupied
<1> QED BY <1>1, <1>2, InFlightDistinct DEF SlotExclusive

\* No two threads meet in a slot of the ring, in any reachable state.
THEOREM SlotsExclusive == Spec => []SlotExclusive
<1>1. IInv => SlotExclusive
  BY SlotExclusiveByInv
<1> QED BY <1>1, Invariance, PTL
-----------------------------------------------------------------------------
(* The slot ring implements OrderedDelivery.                               *)

\* Filling a slot is taking over its block, which was not taken over before.
LEMMA AcceptStep == IInv /\ EndProcessData => OD!Accept
<1> SUFFICES ASSUME IInv, NEW r \in storing, MarkFilled(r) PROVE OD!Accept
  BY DEF EndProcessData
<1> USE DEF MarkFilled
<1>1. /\ r \in Requests /\ r \in Nat /\ SlotOf(r) \in Slots
      /\ slotFilled \in [Slots -> BOOLEAN] /\ slotBlock[SlotOf(r)] = r
      /\ Len(delivered) <= r /\ Len(delivered) \in Nat
  BY SlotOfInRing DEF IInv, TypeOK, InFlightInv, Requests
<1>2. \A i \in 1 .. Len(delivered) : delivered[i] # r
  BY <1>1 DEF IInv, InOrder
<1>3. \A s \in Slots : slotFilled[s] => slotBlock[s] # r
  BY DEF IInv, SlotInv
<1>4. r \notin Accepted
  BY <1>2, <1>3 DEF Accepted
<1>5. Accepted' = Accepted \union {r}
  BY <1>1 DEF Accepted
<1> QED BY <1>1, <1>4, <1>5 DEF OD!Accept

\* The call of the listener is the abstract delivery.
LEMMA DeliverStep == IInv /\ OutputDeliver => OD!Deliver
<1> SUFFICES ASSUME IInv, OutputDeliver PROVE OD!Deliver
  OBVIOUS
<1> USE DEF OutputDeliver
<1> DEFINE n == Len(delivered)
<1>1. /\ delivered \in Seq(Nat) /\ n \in Nat /\ Emptied = n
      /\ slotFilled[nextOutputSlot] /\ nextOutputSlot \in Slots
  BY DEF IInv, TypeOK, OutputInv, Emptied
<1>2. slotBlock[nextOutputSlot] = n
  BY <1>1, DueBlock
<1>3. n \in Accepted
  BY <1>1, <1>2 DEF Accepted
<1>4. delivered' = Append(delivered, n)
  BY <1>2
<1>5. {delivered'[i] : i \in 1 .. Len(delivered')}
        = {delivered[i] : i \in 1 .. n} \union {n}
  <2>1. Len(delivered') = n + 1 /\ delivered'[n + 1] = n
        /\ \A i \in 1 .. n : delivered'[i] = delivered[i]
    BY <1>1, <1>4
  <2>2. 1 .. (n + 1) = (1 .. n) \union {n + 1}
    BY <1>1
  <2> HIDE DEF n
  <2> QED BY <2>1, <2>2
<1>6. Accepted' = Accepted
  BY <1>3, <1>5 DEF Accepted
<1> QED BY <1>3, <1>4, <1>6 DEF OD!Deliver

\* Emptying a slot forgets nothing: its block has been delivered.
LEMMA ClearStep == IInv /\ OutputClear => UNCHANGED <<Accepted, delivered>>
<1> SUFFICES ASSUME IInv, OutputClear PROVE Accepted' = Accepted
  BY DEF OutputClear
<1> USE DEF OutputClear
<1> DEFINE done == {delivered[i] : i \in 1 .. Len(delivered)}
           b == slotBlock[nextOutputSlot]
<1>1. /\ nextOutputSlot \in Slots /\ slotFilled[nextOutputSlot]
      /\ slotFilled \in [Slots -> BOOLEAN]
      /\ slotBlock \in [Slots -> Nat \union {NoBlock}]
  BY DEF IInv, TypeOK, OutputInv
<1>2. b \in done
  <2>1. Emptied = Len(delivered) - 1 /\ Emptied \in Nat /\ Len(delivered) \in Nat
    BY DEF IInv, TypeOK, WindowInv, Emptied
  <2>2. delivered[Len(delivered)] = Emptied
    BY <2>1 DEF IInv, InOrder
  <2> QED BY <1>1, <2>1, <2>2, DueBlock
<1>3. {slotBlock[s] : s \in {t \in Slots : slotFilled[t]}}
        = {slotBlock'[s] : s \in {t \in Slots : slotFilled'[t]}} \union {b}
  BY <1>1
<1>4. done' = done
  OBVIOUS
<1>5. Accepted = done \union {slotBlock[s] : s \in {t \in Slots : slotFilled[t]}}
  BY DEF Accepted
<1>6. Accepted' = done \union {slotBlock'[s] : s \in {t \in Slots : slotFilled'[t]}}
  BY <1>4 DEF Accepted
<1> QED BY <1>2, <1>3, <1>5, <1>6

\* Writing a block into an empty slot is not yet taking it over.
LEMMA StoreStep == IInv /\ BeginProcessData => UNCHANGED <<Accepted, delivered>>
  BY SlotOfInRing DEF BeginProcessData, StoreBlock, Occupied, Accepted, IInv, TypeOK, Requests

\* Steps that leave ring and log alone are abstract stutters.
LEMMA RingUnchangedStep ==
  UNCHANGED <<slotFilled, slotBlock, delivered>> => UNCHANGED <<Accepted, delivered>>
  BY DEF Accepted

\* A reset is the abstract restart.
LEMMA RestartStep == ResetSession => OD!Restart
  BY DEF ResetSession, ResetProcessor, Accepted, OD!Restart

\* Every step of the protocol is a step of OrderedDelivery or a stutter.
LEMMA StepSimulation == IInv /\ [Next]_vars => [OD!Next]_(OD!vars)
<1> SUFFICES ASSUME IInv, [Next]_vars PROVE [OD!Next]_(OD!vars)
  OBVIOUS
<1> USE DEF OD!Next, OD!vars
<1>1. CASE ClaimRequest \/ PassGate \/ LeaveGate \/ AbandonRead \/ RequestStop
  BY <1>1, RingUnchangedStep DEF ClaimRequest, PassGate, LeaveGate, AbandonRead,
     RequestStop, odpVars
<1>2. CASE StartSession \/ StopOutput \/ JoinOutput
  BY <1>2, RingUnchangedStep DEF StartSession, StartProcessing, StopOutput,
     RequestStopProcessing, JoinOutput, JoinOutputThread
<1>3. CASE BeginProcessData
  BY <1>3, StoreStep
<1>4. CASE EndProcessData
  BY <1>4, AcceptStep
<1>5. CASE ResetSession
  BY <1>5, RestartStep
<1>6. CASE OutputStep
  <2>1. CASE OutputTake \/ OutputAdvance \/ OutputExit
    BY <2>1, RingUnchangedStep DEF OutputTake, OutputAdvance, OutputExit
  <2>2. CASE OutputDeliver
    BY <2>2, DeliverStep
  <2>3. CASE OutputClear
    BY <2>3, ClearStep
  <2> QED BY <1>6, <2>1, <2>2, <2>3 DEF OutputStep, OutputThread
<1>7. CASE ListenerThrows
  BY <1>7, RingUnchangedStep DEF ListenerThrows, OutputThrow
<1>8. CASE UNCHANGED vars
  BY <1>8, RingUnchangedStep DEF vars, odpVars
<1> QED BY <1>1, <1>2, <1>3, <1>4, <1>5, <1>6, <1>7, <1>8 DEF Next

\* An empty ring has taken over nothing.
LEMMA DeliveryInit == Init => OD!Init
  BY DEF Init, ODPInit, Accepted, OD!Init

\* The readers' protocol over the slot ring implements in-order, exactly-once
\* delivery, for every ring size and any number of requests.
THEOREM Refinement == Spec => ImplementsOrderedDelivery
<1>1. Init => OD!Init
  BY DeliveryInit
<1>2. IInv /\ [Next]_vars => [OD!Next]_(OD!vars)
  BY StepSimulation
<1> QED BY <1>1, <1>2, Invariance, PTL DEF Spec, SafeSpec, ImplementsOrderedDelivery, OD!Spec

-----------------------------------------------------------------------------
(* What stalls the delivery stalls it until the session is stopped.        *)

\* Once the output thread has caught up with the gate, no request is in flight
\* and no slot is filled, and the gate is shut.
LEMMA CaughtUpIsIdle ==
  ASSUME IInv, CaughtUp
  PROVE  /\ ~GateOpen
         /\ reading = {} /\ storing = {}
         /\ \A s \in Slots : ~slotFilled[s]
         /\ nextOutputSlot \in Slots
<1>1. /\ Emptied = Claimed /\ Issued = Claimed /\ Len(delivered) = Claimed
      /\ Claimed \in Nat /\ Claimed > 0
  BY DEF CaughtUp, Emptied, Issued, Claimed, IInv, TypeOK
<1>2. ~GateOpen
  BY <1>1 DEF GateOpen, IInv, WindowInv
<1>3. \A r \in reading \union storing : FALSE
  BY <1>1 DEF IInv, TypeOK, InFlightInv, InWindow, Requests
<1>4. \A s \in Slots : ~slotFilled[s]
  BY <1>1 DEF IInv, SlotInv, InWindow
<1> QED BY <1>2, <1>3, <1>4 DEF IInv, TypeOK

\* In such a state every step of the protocol is the user's stop.
LEMMA CaughtUpWaits ==
  ASSUME IInv, CaughtUp, ~stopRequested, Next
  PROVE  RequestStop
<1>1. /\ ~GateOpen /\ reading = {} /\ storing = {}
      /\ ~slotFilled[nextOutputSlot]
  BY CaughtUpIsIdle
<1>2. atGate /\ outPc = "poll" /\ ~stopThread
  BY DEF CaughtUp
<1>3. ~ClaimRequest /\ ~PassGate /\ ~LeaveGate
  BY <1>1, <1>2 DEF ClaimRequest, PassGate, LeaveGate
<1>4. ~BeginProcessData /\ ~EndProcessData /\ ~AbandonRead
  BY <1>1 DEF BeginProcessData, EndProcessData, AbandonRead
<1>5. ~StartSession /\ ~StopOutput /\ ~JoinOutput /\ ~ResetSession
  BY <1>2 DEF StartSession, StartProcessing, StopOutput, JoinOutput,
     JoinOutputThread, ResetSession
<1>6. ~OutputStep /\ ~ListenerThrows
  BY <1>1, <1>2 DEF OutputStep, OutputThread, OutputTake, OutputDeliver, OutputClear,
     OutputAdvance, OutputExit, ListenerThrows, OutputThrow
<1> QED BY <1>3, <1>4, <1>5, <1>6 DEF Next

\* A step takes over blocks that were being stored and no others.
LEMMA AcceptedFromStoring ==
  ASSUME IInv, [Next]_vars, ~ResetSession
  PROVE  Accepted' \subseteq Accepted \union storing
<1>1. CASE EndProcessData
  <2> SUFFICES ASSUME NEW r \in storing, MarkFilled(r)
               PROVE  Accepted' \subseteq Accepted \union {r}
    BY <1>1 DEF EndProcessData
  <2>1. /\ slotBlock[SlotOf(r)] = r /\ SlotOf(r) \in Slots
        /\ slotFilled \in [Slots -> BOOLEAN]
    BY SlotOfInRing DEF IInv, TypeOK, InFlightInv, Requests
  <2> QED BY <2>1 DEF Accepted, MarkFilled
<1>2. CASE OutputStep
  <2>1. CASE OutputTake \/ OutputAdvance \/ OutputExit
    BY <2>1, RingUnchangedStep DEF OutputTake, OutputAdvance, OutputExit
  <2>2. CASE OutputDeliver
    BY <2>2, DeliverStep DEF OD!Deliver
  <2>3. CASE OutputClear
    BY <2>3, ClearStep
  <2> QED BY <1>2, <2>1, <2>2, <2>3 DEF OutputStep, OutputThread
<1>3. CASE BeginProcessData
  BY <1>3, StoreStep
<1>4. CASE ClaimRequest \/ PassGate \/ LeaveGate \/ AbandonRead \/ RequestStop
  BY <1>4, RingUnchangedStep DEF ClaimRequest, PassGate, LeaveGate, AbandonRead,
     RequestStop, odpVars
<1>5. CASE StartSession \/ StopOutput \/ JoinOutput \/ ListenerThrows
  BY <1>5, RingUnchangedStep DEF StartSession, StartProcessing, StopOutput,
     RequestStopProcessing, JoinOutput, JoinOutputThread, ListenerThrows, OutputThrow
<1>6. CASE UNCHANGED vars
  BY <1>6, RingUnchangedStep DEF vars, odpVars
<1> QED BY <1>1, <1>2, <1>3, <1>4, <1>5, <1>6 DEF Next

\* The requests issued stay issued, and the requests in flight are among
\* those that were, but for the one that passes the gate.
LEMMA InFlightFromIssued ==
  ASSUME IInv, [Next]_vars, ~ResetSession
  PROVE  /\ Issued <= Issued'
         /\ \A r \in reading' \union storing' : r \in reading \union storing \/ r >= Issued
<1>0. Issued \in Nat /\ requestCounter \in Nat
  BY DEF Issued, IInv, TypeOK
<1>1. CASE ClaimRequest \/ PassGate \/ LeaveGate
  BY <1>0, <1>1 DEF ClaimRequest, PassGate, LeaveGate, Issued, Claimed, odpVars
<1>2. CASE BeginProcessData \/ EndProcessData \/ AbandonRead
  BY <1>0, <1>2 DEF BeginProcessData, EndProcessData, AbandonRead, Issued
<1>3. CASE StartSession \/ RequestStop \/ StopOutput \/ JoinOutput \/ OutputStep
           \/ ListenerThrows
  BY <1>0, <1>3 DEF StartSession, RequestStop, StopOutput, JoinOutput, OutputStep,
     ListenerThrows, readVars, Issued
<1>4. CASE UNCHANGED vars
  BY <1>0, <1>4 DEF vars, readVars, Issued
<1> QED BY <1>1, <1>2, <1>3, <1>4 DEF Next

\* A request whose read was given up is not taken up again.
LEMMA LostForGood ==
  ASSUME IInv, [Next]_vars, ~ResetSession, NEW r \in Requests, Lost(r)
  PROVE  Lost(r)'
<1>1. /\ r \in Nat /\ Issued \in Nat /\ Issued' \in Nat
      /\ r < Issued /\ r \notin Accepted \union reading \union storing
  BY StepInv DEF Lost, Requests, Issued, IInv, TypeOK
<1>2. r \notin Accepted'
  BY <1>1, AcceptedFromStoring
<1>3. r < Issued' /\ r \notin reading' \union storing'
  BY <1>1, InFlightFromIssued
<1> QED BY <1>2, <1>3 DEF Lost

\* Every step of the protocol keeps a stall.
LEMMA StallsStayStep == IInv /\ [Next]_vars => [KeepsStall]_vars
<1> SUFFICES ASSUME IInv, [Next]_vars, ~UNCHANGED vars PROVE KeepsStall
  OBVIOUS
<1> QED BY CaughtUpWaits, LostForGood DEF KeepsStall

\* A caught-up gate can only be stopped, and a read that failed leaves its slot
\* empty for good, for every ring size and any number of requests.
THEOREM StalledForGood == Spec => StallsStay
<1>1. IInv /\ [Next]_vars => [KeepsStall]_vars
  BY StallsStayStep
<1> QED BY <1>1, Invariance, PTL DEF Spec, SafeSpec, StallsStay

=============================================================================
