---------------------- MODULE SPSCDescriptorQueue_proofs ----------------------
(***************************************************************************)
(* Proofs about SPSCDescriptorQueue, for every set of descriptors, every   *)
(* capacity and every width of the indices: the ring is a FIFO queue, and  *)
(* its two sides are never at the same slot.                               *)
(***************************************************************************)
EXTENDS SPSCDescriptorQueue, SequenceTheorems, TLAPS

-----------------------------------------------------------------------------
(* Facts about the indices.                                                *)

\* An index runs at least twice round the ring before it wraps.
LEMMA RangeIsTwoLaps == IndexRange \in Nat /\ IndexRange >= Capacity + Capacity
<1>1. (Laps - 2) * Capacity >= 0 /\ (Laps - 2) * Capacity \in Int
  BY CapacityAssumption, LapsAssumption
<1>2. Laps * Capacity = (Laps - 2) * Capacity + Capacity + Capacity
  BY CapacityAssumption, LapsAssumption
<1> QED BY <1>1, <1>2, CapacityAssumption DEF IndexRange

\* Division with remainder.
LEMMA Division ==
  ASSUME NEW n \in Nat \ {0}, NEW a \in Int
  PROVE  /\ a \div n \in Int
         /\ a % n \in 0 .. (n - 1)
         /\ a = n * (a \div n) + (a % n)
<1>1. a \div n \in Int
  BY SMT
<1>2. a % n \in 0 .. (n - 1)
  BY SMT
<1>3. a = n * (a \div n) + (a % n)
  BY SMT
<1> QED BY <1>1, <1>2, <1>3

\* Quotient and remainder are unique.
LEMMA UniqueRemainder ==
  ASSUME NEW n \in Nat \ {0}, NEW x \in Int, NEW y \in Int,
         NEW s \in 0 .. (n - 1), NEW t \in 0 .. (n - 1),
         n * x + s = n * y + t
  PROVE  s = t
<1>0. s \in Int /\ t \in Int /\ t - s < n /\ s - t < n
  OBVIOUS
<1>1. CASE x > y
  <2>1. n * (x - y) >= n /\ t - s = n * (x - y)
    BY <1>0, <1>1
  <2> QED BY <1>0, <2>1
<1>2. CASE x < y
  <2>1. n * (y - x) >= n /\ s - t = n * (y - x)
    BY <1>0, <1>2
  <2> QED BY <1>0, <2>1
<1>3. CASE x = y
  BY <1>0, <1>3
<1> QED BY <1>1, <1>2, <1>3

\* A remainder is known by any division.
LEMMA RemainderIs ==
  ASSUME NEW n \in Nat \ {0}, NEW a \in Int, NEW x \in Int,
         NEW s \in 0 .. (n - 1), a = n * x + s
  PROVE  a % n = s
  BY Division, UniqueRemainder

\* Adding one modulo the index range.
LEMMA FollowingIs ==
  ASSUME NEW i \in Indices
  PROVE  Following(i) = IF i + 1 = IndexRange THEN 0 ELSE i + 1
<1>1. IndexRange \in Nat \ {0} /\ i \in Int
  BY RangeIsTwoLaps, CapacityAssumption DEF Indices
<1>2. CASE i + 1 = IndexRange
  <2>1. i + 1 = IndexRange * 1 + 0 /\ 0 \in 0 .. (IndexRange - 1)
    BY <1>1, <1>2
  <2> QED BY <1>1, <1>2, <2>1, RemainderIs DEF Following
<1>3. CASE i + 1 # IndexRange
  <2>1. i + 1 = IndexRange * 0 + (i + 1) /\ i + 1 \in 0 .. (IndexRange - 1)
    BY <1>1, <1>3 DEF Indices
  <2> QED BY <1>1, <1>3, <2>1, RemainderIs DEF Following
<1> QED BY <1>2, <1>3

\* The unsigned difference of two indices.
Distance(get, put) == (put - get) % IndexRange

\* The wrapped difference of two indices without the remainder.
LEMMA DistanceIs ==
  ASSUME NEW get \in Indices, NEW put \in Indices
  PROVE  Distance(get, put) = IF get <= put THEN put - get ELSE put - get + IndexRange
<1>1. IndexRange \in Nat \ {0} /\ get \in Int /\ put \in Int
  BY RangeIsTwoLaps, CapacityAssumption DEF Indices
<1>2. CASE get <= put
  <2>1. put - get = IndexRange * 0 + (put - get) /\ put - get \in 0 .. (IndexRange - 1)
    BY <1>1, <1>2 DEF Indices
  <2> QED BY <1>1, <1>2, <2>1, RemainderIs DEF Distance
<1>3. CASE ~(get <= put)
  <2>1. /\ put - get = IndexRange * (-1) + (put - get + IndexRange)
        /\ put - get + IndexRange \in 0 .. (IndexRange - 1)
    BY <1>1, <1>3 DEF Indices
  <2> QED BY <1>1, <1>3, <2>1, RemainderIs DEF Distance
<1> QED BY <1>2, <1>3

\* What a put and a get do to the difference.
LEMMA DistanceSteps ==
  ASSUME NEW get \in Indices, NEW put \in Indices
  PROVE  /\ Distance(get, put) \in Nat
         /\ Distance(get, put) = 0 <=> get = put
         /\ Distance(get, get) = 0
         /\ Distance(get, put) < Capacity
              => /\ Following(put) \in Indices
                 /\ Distance(get, Following(put)) = Distance(get, put) + 1
         /\ Distance(get, put) > 0
              => /\ Following(get) \in Indices
                 /\ Distance(Following(get), put) = Distance(get, put) - 1
<1>1. /\ IndexRange \in Nat /\ IndexRange >= Capacity + Capacity
      /\ Capacity \in Nat \ {0} /\ get \in Nat /\ put \in Nat
      /\ get < IndexRange /\ put < IndexRange
  BY RangeIsTwoLaps, CapacityAssumption DEF Indices
<1>2. Following(put) \in Indices /\ Following(get) \in Indices
  BY <1>1, FollowingIs DEF Indices
<1>3. /\ Following(put) = IF put + 1 = IndexRange THEN 0 ELSE put + 1
      /\ Following(get) = IF get + 1 = IndexRange THEN 0 ELSE get + 1
  BY FollowingIs
<1>4. /\ Distance(get, put) = IF get <= put THEN put - get ELSE put - get + IndexRange
      /\ Distance(get, get) = get - get
      /\ Distance(get, Following(put))
           = IF get <= Following(put) THEN Following(put) - get
                                      ELSE Following(put) - get + IndexRange
      /\ Distance(Following(get), put)
           = IF Following(get) <= put THEN put - Following(get)
                                      ELSE put - Following(get) + IndexRange
  BY <1>1, <1>2, DistanceIs DEF Indices
<1>5. /\ Distance(get, put) \in Nat /\ (Distance(get, put) = 0 <=> get = put)
      /\ Distance(get, get) = 0
  BY <1>1, <1>4
<1>6. ASSUME Distance(get, put) < Capacity
      PROVE  Distance(get, Following(put)) = Distance(get, put) + 1
  <2>1. CASE put + 1 = IndexRange
    BY <1>1, <1>3, <1>4, <1>6, <2>1
  <2>2. CASE put + 1 # IndexRange
    BY <1>1, <1>3, <1>4, <1>6, <2>2
  <2> QED BY <2>1, <2>2
<1>7. ASSUME Distance(get, put) > 0
      PROVE  Distance(Following(get), put) = Distance(get, put) - 1
  <2>1. CASE get + 1 = IndexRange
    <3>1. put < get /\ Following(get) = 0
      BY <1>1, <1>3, <1>5, <1>4, <1>7, <2>1
    <3> QED BY <1>1, <1>4, <2>1, <3>1
  <2>2. CASE get + 1 # IndexRange
    BY <1>1, <1>3, <1>4, <1>5, <1>7, <2>2
  <2> QED BY <2>1, <2>2
<1> QED BY <1>2, <1>5, <1>6, <1>7

-----------------------------------------------------------------------------
(* Facts about the slot of an index.                                       *)

\* The masked index is a slot of the ring.
LEMMA MaskedInRing == \A x \in Int : Masked(x) \in Ring
  BY Division, CapacityAssumption DEF Masked, Ring

\* The range of the indices is a multiple of the capacity, so that the wrap
\* of an index does not move it to another slot.
LEMMA MaskedPeriod ==
  ASSUME NEW x \in Int
  PROVE  Masked(x + IndexRange) = Masked(x) /\ Masked(x - IndexRange) = Masked(x)
<1> DEFINE q == x \div Capacity
           r == x % Capacity
<1>1. /\ q \in Int /\ r \in 0 .. (Capacity - 1) /\ r \in Int
      /\ x = Capacity * q + r
  BY Division, CapacityAssumption
<1>2. IndexRange = Capacity * Laps /\ Laps \in Int /\ Capacity \in Nat \ {0}
  BY CapacityAssumption, LapsAssumption DEF IndexRange
<1>3. r = Masked(x)
  BY DEF Masked
<1> HIDE DEF q, r
<1>4. /\ x + IndexRange = Capacity * (q + Laps) + r
      /\ x - IndexRange = Capacity * (q - Laps) + r
  BY <1>1, <1>2
<1>5. /\ x + IndexRange \in Int /\ x - IndexRange \in Int
      /\ q + Laps \in Int /\ q - Laps \in Int
  BY <1>1, <1>2
<1>6. (x + IndexRange) % Capacity = r
  BY <1>1, <1>2, <1>4, <1>5, RemainderIs
<1>7. (x - IndexRange) % Capacity = r
  BY <1>1, <1>2, <1>4, <1>5, RemainderIs
<1> QED BY <1>3, <1>6, <1>7 DEF Masked

\* Indices less than a lap apart have different slots.
LEMMA MaskedDistinct ==
  ASSUME NEW x \in Int, NEW y \in Int, x < y, y < x + Capacity
  PROVE  Masked(x) # Masked(y)
<1> SUFFICES ASSUME Masked(x) = Masked(y) PROVE FALSE
  OBVIOUS
<1> DEFINE p == x \div Capacity
           q == y \div Capacity
<1>1. /\ p \in Int /\ q \in Int /\ Masked(x) \in Int /\ Capacity \in Nat \ {0}
      /\ x = Capacity * p + Masked(x) /\ y = Capacity * q + Masked(y)
  BY Division, CapacityAssumption DEF Masked
<1> HIDE DEF p, q
<1>2. y - x = Capacity * (q - p)
  BY <1>1
<1>3. CASE q > p
  <2>1. Capacity * (q - p) >= Capacity
    BY <1>1, <1>3
  <2> QED BY <1>1, <1>2, <2>1
<1>4. CASE q <= p
  <2>1. Capacity * (q - p) <= 0
    BY <1>1, <1>4
  <2> QED BY <1>1, <1>2, <2>1
<1> QED BY <1>1, <1>3, <1>4

\* The slot of the put index is the one as far from the get index as the
\* queue is long, and that of a following index the next.
LEMMA MaskedAt ==
  ASSUME NEW get \in Indices, NEW put \in Indices
  PROVE  /\ Masked(put) = Masked(get + Distance(get, put))
         /\ \A j \in Int : Masked(Following(get) + j) = Masked(get + 1 + j)
<1>1. IndexRange \in Int /\ get \in Int /\ put \in Int
  BY RangeIsTwoLaps DEF Indices
<1>2. Masked(put) = Masked(get + Distance(get, put))
  <2>1. CASE get <= put
    BY <1>1, <2>1, DistanceIs
  <2>2. CASE ~(get <= put)
    <3>1. get + Distance(get, put) = put + IndexRange
      BY <1>1, <2>2, DistanceIs
    <3> QED BY <1>1, <3>1, MaskedPeriod
  <2> QED BY <2>1, <2>2
<1>3. ASSUME NEW j \in Int PROVE Masked(Following(get) + j) = Masked(get + 1 + j)
  <2>1. CASE get + 1 = IndexRange
    <3>1. Following(get) + j = (get + 1 + j) - IndexRange
      BY <1>1, <2>1, FollowingIs
    <3>2. get + 1 + j \in Int
      BY <1>1
    <3> QED BY <3>1, <3>2, MaskedPeriod
  <2>2. CASE get + 1 # IndexRange
    BY <1>1, <2>2, FollowingIs
  <2> QED BY <2>1, <2>2
<1> QED BY <1>2, <1>3

-----------------------------------------------------------------------------
(* The invariant.                                                          *)

\* The empty ring satisfies the invariant.
LEMMA InitInv == Init => IInv
<1> SUFFICES ASSUME Init PROVE IInv
  OBVIOUS
<1>1. 0 \in Indices
  BY RangeIsTwoLaps, CapacityAssumption DEF Indices
<1>2. DataSize = 0
  BY <1>1, DistanceSteps DEF Init, DataSize, Distance
<1> QED BY <1>1, <1>2, CapacityAssumption DEF Init, IInv, TypeOK, SizeBounded

\* While either side is between its look at the indices and its store, the
\* other side can only make its situation better.
LEMMA StepInv == IInv /\ [Next]_vars => IInv'
<1> SUFFICES ASSUME IInv, [Next]_vars PROVE IInv'
  OBVIOUS
<1>0. /\ TypeOK /\ SizeBounded
      /\ getIndex \in Indices /\ putIndex \in Indices /\ DataSize \in Nat
      /\ DataSize = Distance(getIndex, putIndex)
      /\ DataSize' = Distance(getIndex', putIndex')
      /\ Capacity \in Nat \ {0}
      /\ Masked(putIndex) \in Ring /\ Masked(getIndex) \in Ring
  <2>1. getIndex \in Indices /\ putIndex \in Indices
    BY DEF IInv, TypeOK
  <2>2. getIndex \in Int /\ putIndex \in Int
    BY <2>1 DEF Indices
  <2> QED BY <2>1, <2>2, DistanceSteps, MaskedInRing, CapacityAssumption
          DEF IInv, DataSize, Distance
<1> USE DEF IInv, TypeOK
<1>1. CASE BeginPut
  <2>1. DataSize < Capacity /\ DataSize' = DataSize
    BY <1>0, <1>1 DEF BeginPut, FreeSlots, SizeBounded, consumerVars
  <2> QED BY <1>0, <1>1, <2>1 DEF BeginPut, SizeBounded, consumerVars
<1>2. CASE WriteSlot
  <2>1. DataSize' = DataSize
    BY <1>0, <1>2 DEF WriteSlot, consumerVars
  <2>2. SizeBounded'
    BY <1>0, <1>2, <2>1 DEF WriteSlot, SizeBounded, consumerVars
  <2>3. consumerPc = "publish" => Masked(getIndex) # Masked(putIndex)
    <3> SUFFICES ASSUME consumerPc = "publish" PROVE Masked(getIndex) # Masked(putIndex)
      OBVIOUS
    <3>1. 0 < DataSize /\ DataSize < Capacity
      BY <1>0, <1>2 DEF WriteSlot, SizeBounded
    <3>2. Masked(putIndex) = Masked(getIndex + DataSize)
      BY <1>0, MaskedAt
    <3>3. getIndex \in Int /\ getIndex + DataSize \in Int
      BY <1>0 DEF Indices
    <3> QED BY <1>0, <3>1, <3>2, <3>3, MaskedDistinct
  <2> QED BY <1>0, <1>2, <2>2, <2>3 DEF WriteSlot, consumerVars
<1>3. CASE PublishPut
  <2>1. DataSize < Capacity
    BY <1>0, <1>3 DEF PublishPut, SizeBounded
  <2>2. putIndex' \in Indices /\ DataSize' = DataSize + 1
    BY <1>0, <1>3, <2>1, DistanceSteps DEF PublishPut, consumerVars
  <2> QED BY <1>0, <1>3, <2>1, <2>2 DEF PublishPut, SizeBounded, consumerVars
<1>4. CASE BeginGet
  <2>1. DataSize > 0 /\ DataSize' = DataSize
    BY <1>0, <1>4, DistanceSteps DEF BeginGet, producerVars
  <2> QED BY <1>0, <1>4, <2>1 DEF BeginGet, SizeBounded, producerVars
<1>5. CASE ReadSlot
  <2>1. DataSize' = DataSize
    BY <1>0, <1>5 DEF ReadSlot, producerVars
  <2> QED BY <1>0, <1>5, <2>1 DEF ReadSlot, SizeBounded, producerVars
<1>6. CASE PublishGet
  <2>1. DataSize > 0
    BY <1>0, <1>6 DEF PublishGet, SizeBounded
  <2>2. getIndex' \in Indices /\ DataSize' = DataSize - 1
    BY <1>0, <1>6, <2>1, DistanceSteps DEF PublishGet, producerVars
  <2> QED BY <1>0, <1>6, <2>1, <2>2 DEF PublishGet, SizeBounded, producerVars
<1>7. CASE Reset
  <2>1. 0 \in Indices
    BY RangeIsTwoLaps, CapacityAssumption DEF Indices
  <2>2. DataSize' = 0
    BY <1>0, <1>7, <2>1, DistanceSteps DEF Reset
  <2> QED BY <1>0, <1>7, <2>1, <2>2 DEF Reset, SizeBounded
<1>8. CASE UNCHANGED vars
  <2>1. DataSize' = DataSize
    BY <1>0, <1>8 DEF vars, producerVars, consumerVars
  <2> QED BY <1>0, <1>8, <2>1 DEF vars, producerVars, consumerVars, SizeBounded
<1> QED BY <1>1, <1>2, <1>3, <1>4, <1>5, <1>6, <1>7, <1>8 DEF Next

\* The ring never overflows or underflows, although its indices wrap, and
\* what a side is about to publish is still what it wrote or read.
THEOREM Invariance == Spec => []IInv
<1> QED BY InitInv, StepInv, PTL DEF Spec

\* The producer's write and the consumer's read never meet in one slot.
THEOREM SlotsApart == Spec => []NoSharedSlot
<1>1. IInv => NoSharedSlot
  <2> SUFFICES ASSUME IInv, producerPc = "write", consumerPc = "read"
               PROVE  Masked(putIndex) # Masked(getIndex)
    BY DEF NoSharedSlot
  <2>1. /\ getIndex \in Indices /\ putIndex \in Indices
        /\ 0 < DataSize /\ DataSize < Capacity
        /\ DataSize = Distance(getIndex, putIndex)
    BY DEF IInv, TypeOK, SizeBounded, DataSize, Distance
  <2>2. DataSize \in Nat /\ Masked(putIndex) = Masked(getIndex + DataSize)
    BY <2>1, DistanceSteps, MaskedAt
  <2>3. /\ getIndex \in Int /\ getIndex + DataSize \in Int
        /\ getIndex < getIndex + DataSize
        /\ getIndex + DataSize < getIndex + Capacity
    BY <2>1, <2>2, CapacityAssumption DEF Indices
  <2> QED BY <2>2, <2>3, MaskedDistinct
<1> QED BY <1>1, Invariance, PTL

-----------------------------------------------------------------------------
(* The ring implements BoundedFifo.                                        *)

\* Contents, for any content b of the ring.
View(b, from, n) == [i \in 1 .. n |-> b[Masked(from + i - 1)]]

\* The abstract queue depends on the ring and both indices only.
LEMMA QueueIsView ==
  /\ Queue = IF consumerPc = "publish" THEN View(buffer, getIndex + 1, DataSize - 1)
                                       ELSE View(buffer, getIndex, DataSize)
  /\ Queue' = IF consumerPc' = "publish"
                THEN View(buffer', getIndex' + 1, DataSize' - 1)
                ELSE View(buffer', getIndex', DataSize')
  BY DEF Queue, Contents, View

\* A view is a sequence of descriptors.
LEMMA ViewIsSeq ==
  ASSUME NEW b \in [Ring -> Items], NEW from \in Int, NEW n \in Nat
  PROVE  /\ View(b, from, n) \in Seq(Items)
         /\ Len(View(b, from, n)) = n
         /\ \A i \in 1 .. n : View(b, from, n)[i] = b[Masked(from + i - 1)]
<1>1. \A i \in 1 .. n : b[Masked(from + i - 1)] \in Items
  BY MaskedInRing
<1>2. View(b, from, n) \in [1 .. n -> Items]
  BY <1>1 DEF View
<1> QED BY <1>2 DEF View

\* Two views are equal when they show the same slots.
LEMMA ViewEqual ==
  ASSUME NEW b \in [Ring -> Items], NEW c \in [Ring -> Items],
         NEW from \in Int, NEW to \in Int, NEW n \in Nat,
         \A i \in 1 .. n : b[Masked(from + i - 1)] = c[Masked(to + i - 1)]
  PROVE  View(b, from, n) = View(c, to, n)
  BY DEF View

\* The slot behind a view extends it.
LEMMA ViewAppend ==
  ASSUME NEW b \in [Ring -> Items], NEW from \in Int, NEW n \in Nat
  PROVE  View(b, from, n + 1) = Append(View(b, from, n), b[Masked(from + n)])
<1> DEFINE short == View(b, from, n)
           long == View(b, from, n + 1)
           last == b[Masked(from + n)]
<1>1. /\ short \in Seq(Items) /\ Len(short) = n
      /\ long \in Seq(Items) /\ Len(long) = n + 1 /\ last \in Items
      /\ \A i \in 1 .. n : short[i] = b[Masked(from + i - 1)]
      /\ \A i \in 1 .. (n + 1) : long[i] = b[Masked(from + i - 1)]
  BY ViewIsSeq, MaskedInRing
<1>2. from + (n + 1) - 1 = from + n
  OBVIOUS
<1> HIDE DEF short, long, last
<1>3. /\ Append(short, last) \in Seq(Items) /\ Len(Append(short, last)) = n + 1
      /\ \A i \in 1 .. n : Append(short, last)[i] = short[i]
      /\ Append(short, last)[n + 1] = last
  BY <1>1, AppendProperties
<1>4. \A i \in 1 .. (n + 1) : long[i] = Append(short, last)[i]
  BY <1>1, <1>2, <1>3 DEF last
<1>5. long = Append(short, last)
  BY <1>1, <1>3, <1>4, SeqEqual
<1> QED BY <1>5 DEF short, long, last

\* Its first slot is the head, the rest the tail.
LEMMA ViewTail ==
  ASSUME NEW b \in [Ring -> Items], NEW from \in Int, NEW n \in Nat \ {0}
  PROVE  /\ View(b, from, n) # <<>>
         /\ Head(View(b, from, n)) = b[Masked(from)]
         /\ Tail(View(b, from, n)) = View(b, from + 1, n - 1)
<1> DEFINE whole == View(b, from, n)
           rest == View(b, from + 1, n - 1)
<1>1. /\ whole \in Seq(Items) /\ Len(whole) = n /\ n - 1 \in Nat
      /\ rest \in Seq(Items) /\ Len(rest) = n - 1
      /\ \A i \in 1 .. n : whole[i] = b[Masked(from + i - 1)]
      /\ \A i \in 1 .. (n - 1) : rest[i] = b[Masked(from + 1 + i - 1)]
  BY ViewIsSeq
<1>2. from + 1 - 1 = from
  OBVIOUS
<1> HIDE DEF whole, rest
<1>3. whole # <<>>
  BY <1>1
<1>4. Head(whole) = b[Masked(from)]
  BY <1>1, <1>2, <1>3
<1>5. /\ Tail(whole) \in Seq(Items) /\ Len(Tail(whole)) = n - 1
      /\ \A i \in 1 .. (n - 1) : Tail(whole)[i] = whole[i + 1]
  BY <1>1, <1>3, HeadTailProperties
<1>6. ASSUME NEW i \in 1 .. (n - 1) PROVE Tail(whole)[i] = rest[i]
  <2>1. i + 1 \in 1 .. n /\ from + 1 + i - 1 = from + (i + 1) - 1
    OBVIOUS
  <2>2. Tail(whole)[i] = b[Masked(from + (i + 1) - 1)]
    BY <1>1, <1>5, <2>1
  <2> QED BY <1>1, <2>1, <2>2
<1>7. Tail(whole) = rest
  BY <1>1, <1>5, <1>6, SeqEqual
<1> QED BY <1>3, <1>4, <1>7 DEF whole, rest

\* Nothing is seen in no slots.
LEMMA ViewEmpty ==
  ASSUME NEW b \in [Ring -> Items], NEW from \in Int
  PROVE  View(b, from, 0) = <<>>
<1>1. View(b, from, 0) \in Seq(Items) /\ Len(View(b, from, 0)) = 0
  BY ViewIsSeq
<1> QED BY <1>1, EmptySeq

-----------------------------------------------------------------------------
\* The abstract queue starts empty.
LEMMA InitSimulation == Init => Fifo!Init
<1> SUFFICES ASSUME Init PROVE Fifo!Init
  OBVIOUS
<1>1. IInv /\ DataSize = 0
  <2>1. 0 \in Indices
    BY RangeIsTwoLaps, CapacityAssumption DEF Indices
  <2> QED BY <2>1, InitInv, DistanceSteps DEF Init, DataSize, Distance
<1>2. Queue = View(buffer, 0, 0)
  BY <1>1, QueueIsView DEF Init
<1>3. Queue = <<>>
  BY <1>2, ViewEmpty DEF Init
<1> QED BY <1>3 DEF Init, Fifo!Init

\* The store of the put index is the abstract Put.
LEMMA PutStep == IInv /\ IInv' /\ PublishPut => Fifo!Put
<1> SUFFICES ASSUME IInv, IInv', PublishPut PROVE Fifo!Put
  OBVIOUS
<1> USE DEF PublishPut, consumerVars
<1> DEFINE from == IF consumerPc = "publish" THEN getIndex + 1 ELSE getIndex
           n == IF consumerPc = "publish" THEN DataSize - 1 ELSE DataSize
<1>1. /\ buffer \in [Ring -> Items] /\ item \in Items
      /\ getIndex \in Indices /\ putIndex \in Indices
      /\ DataSize < Capacity /\ DataSize = Distance(getIndex, putIndex)
      /\ buffer[Masked(putIndex)] = item
      /\ consumerPc = "publish" => DataSize > 0
  BY DEF IInv, TypeOK, SizeBounded, DataSize, Distance
<1>2. /\ DataSize \in Nat /\ DataSize' = DataSize + 1
      /\ Masked(putIndex) = Masked(getIndex + DataSize)
  BY <1>1, DistanceSteps, MaskedAt DEF DataSize, Distance
<1>3. /\ from \in Int /\ n \in Nat /\ from + n = getIndex + DataSize
      /\ n < Capacity
  BY <1>1, <1>2, CapacityAssumption DEF Indices
<1>4. Queue = View(buffer, from, n) /\ Queue' = View(buffer, from, n + 1)
  BY <1>2, QueueIsView
<1> HIDE DEF from, n
<1>5. Len(Queue) < Capacity
  BY <1>1, <1>3, <1>4, ViewIsSeq
<1>6. Queue' = Append(Queue, item)
  BY <1>1, <1>2, <1>3, <1>4, ViewAppend
<1> QED BY <1>1, <1>5, <1>6 DEF Fifo!Put

\* The consumer's read of its slot is the abstract Get.
LEMMA GetStep == IInv /\ ReadSlot => Fifo!Get
<1> SUFFICES ASSUME IInv, ReadSlot PROVE Fifo!Get
  OBVIOUS
<1> USE DEF ReadSlot, producerVars
<1>1. /\ buffer \in [Ring -> Items] /\ getIndex \in Indices /\ putIndex \in Indices
      /\ DataSize > 0 /\ DataSize = Distance(getIndex, putIndex)
  BY DEF IInv, TypeOK, SizeBounded, DataSize, Distance
<1>2. DataSize \in Nat \ {0} /\ DataSize' = DataSize /\ getIndex \in Int
  BY <1>1, DistanceSteps DEF DataSize, Indices
<1>3. /\ Queue = View(buffer, getIndex, DataSize)
      /\ Queue' = View(buffer, getIndex + 1, DataSize - 1)
  BY <1>2, QueueIsView
<1>4. Queue # <<>> /\ Head(Queue) = buffer[Masked(getIndex)] /\ Queue' = Tail(Queue)
  BY <1>1, <1>2, <1>3, ViewTail
<1> QED BY <1>4 DEF Fifo!Get

\* The producer writes outside what is queued.
LEMMA WriteStep == IInv /\ IInv' /\ WriteSlot => UNCHANGED <<Queue, out>>
<1> SUFFICES ASSUME IInv, IInv', WriteSlot PROVE Queue' = Queue
  BY DEF WriteSlot, consumerVars
<1> USE DEF WriteSlot, consumerVars
<1> DEFINE from == IF consumerPc = "publish" THEN getIndex + 1 ELSE getIndex
           n == IF consumerPc = "publish" THEN DataSize - 1 ELSE DataSize
<1>1. /\ buffer \in [Ring -> Items] /\ buffer' \in [Ring -> Items]
      /\ getIndex \in Indices /\ putIndex \in Indices
      /\ DataSize < Capacity /\ DataSize = Distance(getIndex, putIndex)
      /\ consumerPc = "publish" => DataSize > 0
  BY DEF IInv, TypeOK, SizeBounded, DataSize, Distance
<1>2. /\ DataSize \in Nat /\ DataSize' = DataSize /\ getIndex \in Int
      /\ Masked(putIndex) = Masked(getIndex + DataSize)
  BY <1>1, DistanceSteps, MaskedAt DEF DataSize, Indices
<1>3. /\ from \in Int /\ n \in Nat /\ from + n = getIndex + DataSize
      /\ getIndex <= from
  BY <1>1, <1>2
<1>4. Queue = View(buffer, from, n) /\ Queue' = View(buffer', from, n)
  BY <1>2, QueueIsView
<1> HIDE DEF from, n
<1>5. ASSUME NEW i \in 1 .. n
      PROVE  buffer'[Masked(from + i - 1)] = buffer[Masked(from + i - 1)]
  <2>1. /\ from + i - 1 \in Int /\ getIndex + DataSize \in Int
        /\ from + i - 1 < getIndex + DataSize
        /\ getIndex + DataSize < from + i - 1 + Capacity
    BY <1>1, <1>2, <1>3, CapacityAssumption
  <2>2. Masked(from + i - 1) # Masked(putIndex)
    BY <1>2, <2>1, MaskedDistinct
  <2>3. Masked(from + i - 1) \in Ring
    BY <2>1, MaskedInRing
  <2> QED BY <1>1, <2>2, <2>3
<1> DEFINE after == buffer'
<1>6. \A i \in 1 .. n : after[Masked(from + i - 1)] = buffer[Masked(from + i - 1)]
  BY <1>5
<1> HIDE DEF after
<1>7. View(after, from, n) = View(buffer, from, n)
  <2> HIDE DEF WriteSlot, consumerVars
  <2> QED BY <1>6 DEF View
<1> QED BY <1>4, <1>7 DEF after

\* The store of the get index moves no item: they were taken before.
LEMMA ReleaseStep == IInv /\ IInv' /\ PublishGet => UNCHANGED <<Queue, out>>
<1> SUFFICES ASSUME IInv, IInv', PublishGet PROVE Queue' = Queue
  BY DEF PublishGet, producerVars
<1> USE DEF PublishGet, producerVars
<1>1. /\ buffer \in [Ring -> Items]
      /\ getIndex \in Indices /\ putIndex \in Indices /\ getIndex' \in Indices
      /\ DataSize > 0 /\ DataSize = Distance(getIndex, putIndex)
  BY DEF IInv, TypeOK, SizeBounded, DataSize, Distance
<1>2. /\ DataSize \in Nat /\ DataSize' = DataSize - 1 /\ DataSize - 1 \in Nat
      /\ getIndex + 1 \in Int /\ getIndex' \in Int
  BY <1>1, DistanceSteps DEF DataSize, Distance, Indices
<1>3. /\ Queue = View(buffer, getIndex + 1, DataSize - 1)
      /\ Queue' = View(buffer, getIndex', DataSize - 1)
  BY <1>2, QueueIsView
<1>4. ASSUME NEW i \in 1 .. (DataSize - 1)
      PROVE  Masked(getIndex' + i - 1) = Masked(getIndex + 1 + i - 1)
  <2>1. i - 1 \in Int /\ getIndex \in Int
    BY <1>1 DEF Indices
  <2>2. Masked(Following(getIndex) + (i - 1)) = Masked(getIndex + 1 + (i - 1))
    BY <1>1, <2>1, MaskedAt
  <2>3. /\ Following(getIndex) + (i - 1) = getIndex' + i - 1
        /\ getIndex + 1 + (i - 1) = getIndex + 1 + i - 1
    BY <1>2, <2>1
  <2> QED BY <2>2, <2>3
<1>5. PICK n \in Nat, from \in Int, to \in Int :
        n = DataSize - 1 /\ from = getIndex' /\ to = getIndex + 1
  BY <1>2
<1>6. \A i \in 1 .. n : buffer[Masked(from + i - 1)] = buffer[Masked(to + i - 1)]
  BY <1>4, <1>5
<1>7. View(buffer, from, n) = View(buffer, to, n)
  BY <1>1, <1>6, ViewEqual
<1> QED BY <1>3, <1>5, <1>7

\* A reset of the ring clears the abstract queue.
LEMMA ResetStep == IInv /\ IInv' /\ Reset => Fifo!Clear
<1> SUFFICES ASSUME IInv, IInv', Reset PROVE Fifo!Clear
  OBVIOUS
<1>1. 0 \in Indices /\ buffer' \in [Ring -> Items]
  BY RangeIsTwoLaps, CapacityAssumption DEF Indices, IInv, TypeOK
<1>2. DataSize' = 0 /\ getIndex' = 0 /\ consumerPc' # "publish"
  BY <1>1, DistanceSteps DEF Reset, DataSize, Distance
<1>3. Queue' = View(buffer', 0, 0)
  BY <1>2, QueueIsView
<1> QED BY <1>1, <1>3, ViewEmpty DEF Reset, Fifo!Clear

\* A step that leaves the indices and the ring alone leaves the queue alone.
LEMMA QuietStep ==
  /\ UNCHANGED <<buffer, getIndex, putIndex, out>>
  /\ \/ consumerPc # "publish" /\ consumerPc' # "publish"
     \/ consumerPc' = consumerPc
  => UNCHANGED <<Queue, out>>
  BY DEF Queue, Contents, DataSize

\* Every step of the ring is a step of the FIFO or a stutter.
LEMMA StepSimulation == IInv /\ [Next]_vars => [Fifo!Next]_(Fifo!vars)
<1> SUFFICES ASSUME IInv, [Next]_vars PROVE [Fifo!Next]_(Fifo!vars)
  OBVIOUS
<1>0. IInv'
  BY StepInv
<1> USE DEF Fifo!Next, Fifo!vars
<1>1. CASE BeginPut
  BY <1>1, QuietStep DEF BeginPut, consumerVars
<1>2. CASE WriteSlot
  BY <1>0, <1>2, WriteStep
<1>3. CASE PublishPut
  BY <1>0, <1>3, PutStep
<1>4. CASE BeginGet
  BY <1>4, QuietStep DEF BeginGet, producerVars
<1>5. CASE ReadSlot
  BY <1>5, GetStep
<1>6. CASE PublishGet
  BY <1>0, <1>6, ReleaseStep
<1>7. CASE Reset
  BY <1>0, <1>7, ResetStep
<1>8. CASE UNCHANGED vars
  BY <1>8, QuietStep DEF vars, producerVars, consumerVars
<1> QED BY <1>1, <1>2, <1>3, <1>4, <1>5, <1>6, <1>7, <1>8 DEF Next

\* The ring is a bounded FIFO queue: nothing that was put is lost, repeated,
\* reordered or overwritten, for every capacity and width of the indices.
THEOREM Refinement == Spec => ImplementsFifo
<1> QED BY InitSimulation, StepSimulation, Invariance, PTL
        DEF Spec, ImplementsFifo, Fifo!Spec
=============================================================================
