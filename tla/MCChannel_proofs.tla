--------------------------- MODULE MCChannel_proofs ---------------------------
(***************************************************************************)
(* Proofs about what MCChannel instantiates.  The ring of bytes, for every *)
(* size of the ring, every width of the indices and every length of the    *)
(* calls: it is a first-in first-out queue, and its two sides are never at *)
(* the same byte.  The Windows channel: it writes in order.  The sizing of *)
(* the ring, for every width of a word: what it computes, and that the     *)
(* sizes it gives are those the ring is proved for.                        *)
(***************************************************************************)
EXTENDS MCChannel, SPSCDescriptorQueue_proofs, SequenceTheorems,
        FiniteSetTheorems, TLAPS

-----------------------------------------------------------------------------
(* Facts about the indices; the ones about division are those of the       *)
(* descriptor queue.                                                       *)

\* An index runs at least twice round the ring before it wraps.
LEMMA ByteRange == MQ!IndexRange \in Nat /\ MQ!IndexRange >= Size + Size
<1>1. (Rounds - 2) * Size >= 0 /\ (Rounds - 2) * Size \in Int
  BY SizeAssumption, RoundsAssumption
<1>2. Rounds * Size = (Rounds - 2) * Size + Size + Size
  BY SizeAssumption, RoundsAssumption
<1> QED BY <1>1, <1>2, SizeAssumption DEF MQ!IndexRange

\* Adding modulo the index range.
LEMMA PlusIs ==
  ASSUME NEW i \in MQ!Indices, NEW n \in 0 .. Size
  PROVE  /\ MQ!Plus(i, n) = IF i + n < MQ!IndexRange THEN i + n ELSE i + n - MQ!IndexRange
         /\ MQ!Plus(i, n) \in MQ!Indices
<1> DEFINE R == MQ!IndexRange
<1>1. R \in Nat \ {0} /\ R >= Size + Size /\ i \in Int /\ 0 <= i /\ i < R
  BY ByteRange, SizeAssumption DEF MQ!Indices
<1>2. n \in Int /\ 0 <= n /\ n <= Size /\ n < R
  BY <1>1, SizeAssumption
<1>3. MQ!Plus(i, n) = (i + n) % R
  BY DEF MQ!Plus
<1>4. MQ!Indices = 0 .. (R - 1)
  BY DEF MQ!Indices
<1> HIDE DEF R
<1>5. CASE i + n < R
  <2>1. i + n = R * 0 + (i + n) /\ i + n \in 0 .. (R - 1) /\ i + n \in Int
    BY <1>1, <1>2, <1>5
  <2>2. (i + n) % R = i + n
    BY <1>1, <2>1, RemainderIs
  <2> QED BY <1>3, <1>4, <1>5, <2>1, <2>2 DEF R
<1>6. CASE ~(i + n < R)
  <2>1. /\ i + n = R * 1 + (i + n - R) /\ i + n - R \in 0 .. (R - 1) /\ i + n \in Int
    BY <1>1, <1>2, <1>6
  <2>2. (i + n) % R = i + n - R
    BY <1>1, <2>1, RemainderIs
  <2> QED BY <1>3, <1>4, <1>6, <2>1, <2>2 DEF R
<1> QED BY <1>5, <1>6

\* The unsigned difference of two indices.
Between(get, put) == (put - get) % MQ!IndexRange

\* The same without the remainder.
LEMMA BetweenIs ==
  ASSUME NEW get \in MQ!Indices, NEW put \in MQ!Indices
  PROVE  Between(get, put) = IF get <= put THEN put - get ELSE put - get + MQ!IndexRange
<1> DEFINE R == MQ!IndexRange
<1>1. R \in Nat \ {0} /\ get \in Int /\ put \in Int
  BY ByteRange, SizeAssumption DEF MQ!Indices
<1>2. CASE get <= put
  <2>1. put - get = R * 0 + (put - get) /\ put - get \in 0 .. (R - 1)
    BY <1>1, <1>2 DEF MQ!Indices
  <2> QED BY <1>1, <1>2, <2>1, RemainderIs DEF Between
<1>3. CASE ~(get <= put)
  <2>1. /\ put - get = R * (-1) + (put - get + R)
        /\ put - get + R \in 0 .. (R - 1)
    BY <1>1, <1>3 DEF MQ!Indices
  <2> QED BY <1>1, <1>3, <2>1, RemainderIs DEF Between
<1> QED BY <1>2, <1>3

\* What is known of a difference.
LEMMA BetweenFacts ==
  ASSUME NEW get \in MQ!Indices, NEW put \in MQ!Indices
  PROVE  Between(get, put) \in Nat /\ Between(get, get) = 0
<1>1. PICK r \in Nat : r = MQ!IndexRange
  BY ByteRange
<1>2. get \in Int /\ put \in Int /\ Between(get, put) \in Int /\ Between(get, get) \in Int
  BY <1>1, BetweenIs DEF MQ!Indices
<1>3. PICK d \in Int, z \in Int : d = Between(get, put) /\ z = Between(get, get)
  BY <1>2
<1>4. /\ get \in Nat /\ put \in Nat /\ get < r /\ put < r
      /\ d = IF get <= put THEN put - get ELSE put - get + r
      /\ z = IF get <= get THEN get - get ELSE get - get + r
  BY <1>1, <1>3, BetweenIs DEF MQ!Indices
<1>5. d \in Nat /\ z = 0
  BY <1>4
<1> QED BY <1>3, <1>5

\* A put of n bytes adds n to the difference.
LEMMA BetweenAfterPut ==
  ASSUME NEW get \in MQ!Indices, NEW put \in MQ!Indices, NEW n \in 0 .. Size,
         Between(get, put) + n <= Size
  PROVE  Between(get, MQ!Plus(put, n)) = Between(get, put) + n
<1>1. MQ!Plus(put, n) \in MQ!Indices
  BY PlusIs
<1>2. /\ Between(get, put) \in Nat /\ Between(get, MQ!Plus(put, n)) \in Nat
      /\ MQ!IndexRange \in Nat /\ MQ!Plus(put, n) \in Nat
  BY <1>1, BetweenFacts, ByteRange DEF MQ!Indices
<1>3. PICK r \in Nat, d \in Nat, e \in Nat, new \in Nat :
        /\ r = MQ!IndexRange /\ new = MQ!Plus(put, n)
        /\ d = Between(get, put) /\ e = Between(get, new)
  BY <1>2
<1>4. /\ get \in Nat /\ put \in Nat /\ get < r /\ put < r /\ Size \in Nat /\ n \in Nat
      /\ n <= Size /\ r >= Size + Size /\ new < r /\ d + n <= Size
      /\ new = IF put + n < r THEN put + n ELSE put + n - r
  BY <1>3, ByteRange, PlusIs, SizeAssumption DEF MQ!Indices
<1>5. new \in MQ!Indices
  BY <1>1, <1>3
<1>6. /\ d = IF get <= put THEN put - get ELSE put - get + r
      /\ e = IF get <= new THEN new - get ELSE new - get + r
  BY <1>3, <1>5, BetweenIs
<1>7. e = d + n
  BY <1>4, <1>6
<1> QED BY <1>3, <1>7

\* A get of n bytes takes n from it.
LEMMA BetweenAfterGet ==
  ASSUME NEW get \in MQ!Indices, NEW put \in MQ!Indices, NEW n \in 0 .. Size,
         n <= Between(get, put)
  PROVE  Between(MQ!Plus(get, n), put) = Between(get, put) - n
<1>1. MQ!Plus(get, n) \in MQ!Indices
  BY PlusIs
<1>2. /\ Between(get, put) \in Nat /\ Between(MQ!Plus(get, n), put) \in Nat
      /\ MQ!IndexRange \in Nat /\ MQ!Plus(get, n) \in Nat
  BY <1>1, BetweenFacts, ByteRange DEF MQ!Indices
<1>3. PICK r \in Nat, d \in Nat, e \in Nat, new \in Nat :
        /\ r = MQ!IndexRange /\ new = MQ!Plus(get, n)
        /\ d = Between(get, put) /\ e = Between(new, put)
  BY <1>2
<1>4. /\ get \in Nat /\ put \in Nat /\ get < r /\ put < r /\ Size \in Nat /\ n \in Nat
      /\ n <= Size /\ r >= Size + Size /\ new < r /\ n <= d
      /\ new = IF get + n < r THEN get + n ELSE get + n - r
  BY <1>3, ByteRange, PlusIs, SizeAssumption DEF MQ!Indices
<1>5. new \in MQ!Indices
  BY <1>1, <1>3
<1>6. /\ d = IF get <= put THEN put - get ELSE put - get + r
      /\ e = IF new <= put THEN put - new ELSE put - new + r
  BY <1>3, <1>5, BetweenIs
<1>7. e = d - n
  BY <1>4, <1>6
<1> QED BY <1>3, <1>7

-----------------------------------------------------------------------------
(* Facts about the byte of an index.                                       *)

\* The masked index is a byte of the ring.
LEMMA PlaceInRing == \A x \in Int : MQ!Masked(x) \in MQ!Ring /\ MQ!Masked(x) \in Nat
  BY Division, SizeAssumption DEF MQ!Masked, MQ!Ring

\* The wrap of an index does not move it to another byte.
LEMMA PlacePeriod ==
  ASSUME NEW x \in Int
  PROVE  MQ!Masked(x + MQ!IndexRange) = MQ!Masked(x) /\ MQ!Masked(x - MQ!IndexRange) = MQ!Masked(x)
<1> DEFINE q == x \div Size
           r == x % Size
<1>1. /\ q \in Int /\ r \in 0 .. (Size - 1) /\ r \in Int
      /\ x = Size * q + r
  BY Division, SizeAssumption
<1>2. MQ!IndexRange = Size * Rounds /\ Rounds \in Int /\ Size \in Nat \ {0}
  BY SizeAssumption, RoundsAssumption DEF MQ!IndexRange
<1>3. r = MQ!Masked(x)
  BY DEF MQ!Masked
<1> HIDE DEF q, r
<1>4. /\ x + MQ!IndexRange = Size * (q + Rounds) + r
      /\ x - MQ!IndexRange = Size * (q - Rounds) + r
  BY <1>1, <1>2
<1>5. /\ x + MQ!IndexRange \in Int /\ x - MQ!IndexRange \in Int
      /\ q + Rounds \in Int /\ q - Rounds \in Int
  BY <1>1, <1>2
<1>6. (x + MQ!IndexRange) % Size = r
  BY <1>1, <1>2, <1>4, <1>5, RemainderIs
<1>7. (x - MQ!IndexRange) % Size = r
  BY <1>1, <1>2, <1>4, <1>5, RemainderIs
<1> QED BY <1>3, <1>6, <1>7 DEF MQ!Masked

\* The byte j places further on, in the same lap or in the next.
LEMMA PlaceFurther ==
  ASSUME NEW x \in Int, NEW j \in 0 .. Size
  PROVE  MQ!Masked(x + j) = IF MQ!Masked(x) + j < Size THEN MQ!Masked(x) + j
                            ELSE MQ!Masked(x) + j - Size
<1> DEFINE q == x \div Size
           r == x % Size
<1>1. /\ q \in Int /\ r \in 0 .. (Size - 1) /\ r \in Int
      /\ x = Size * q + r /\ Size \in Nat \ {0} /\ j \in Int
  BY Division, SizeAssumption
<1>2. r = MQ!Masked(x) /\ MQ!Masked(x + j) = (x + j) % Size
  BY DEF MQ!Masked
<1> HIDE DEF q, r
<1>3. CASE r + j < Size
  <2>1. x + j = Size * q + (r + j) /\ r + j \in 0 .. (Size - 1) /\ x + j \in Int
    BY <1>1, <1>3
  <2>2. (x + j) % Size = r + j
    BY <1>1, <2>1, RemainderIs
  <2> QED BY <1>2, <1>3, <2>2
<1>4. CASE ~(r + j < Size)
  <2>1. /\ x + j = Size * (q + 1) + (r + j - Size) /\ r + j - Size \in 0 .. (Size - 1)
        /\ x + j \in Int /\ q + 1 \in Int
    BY <1>1, <1>4
  <2>2. (x + j) % Size = r + j - Size
    BY <1>1, <2>1, RemainderIs
  <2> QED BY <1>2, <1>4, <2>2
<1> QED BY <1>3, <1>4

\* Indices less than a lap apart have different bytes.
LEMMA PlacesDiffer ==
  ASSUME NEW x \in Int, NEW i \in 0 .. (Size - 1), NEW j \in 0 .. (Size - 1), i # j
  PROVE  MQ!Masked(x + i) # MQ!Masked(x + j)
<1>1. /\ i \in 0 .. Size /\ j \in 0 .. Size /\ i \in Int /\ j \in Int
      /\ MQ!Masked(x) \in Nat /\ MQ!Masked(x) < Size /\ Size \in Nat
  BY SizeAssumption, PlaceInRing DEF MQ!Ring
<1>2. /\ MQ!Masked(x + i) = (IF MQ!Masked(x) + i < Size THEN MQ!Masked(x) + i
                             ELSE MQ!Masked(x) + i - Size)
      /\ MQ!Masked(x + j) = (IF MQ!Masked(x) + j < Size THEN MQ!Masked(x) + j
                             ELSE MQ!Masked(x) + j - Size)
  BY <1>1, PlaceFurther
<1> QED BY <1>1, <1>2

\* The put index is where the queued bytes end, and an index that has moved on
\* by n where the n-th further byte was.
LEMMA PlaceAt ==
  ASSUME NEW get \in MQ!Indices, NEW put \in MQ!Indices
  PROVE  /\ \A j \in Int : MQ!Masked(put + j) = MQ!Masked(get + Between(get, put) + j)
         /\ \A n \in 0 .. Size : \A j \in Int :
              MQ!Masked(MQ!Plus(get, n) + j) = MQ!Masked(get + n + j)
<1>1. MQ!IndexRange \in Int /\ get \in Int /\ put \in Int
  BY ByteRange DEF MQ!Indices
<1>2. ASSUME NEW j \in Int
      PROVE  MQ!Masked(put + j) = MQ!Masked(get + Between(get, put) + j)
  <2>1. CASE get <= put
    <3>1. get + Between(get, put) + j = put + j
      BY <1>1, <2>1, BetweenIs
    <3> QED BY <3>1
  <2>2. CASE ~(get <= put)
    <3>1. get + Between(get, put) + j = (put + j) + MQ!IndexRange
      BY <1>1, <2>2, BetweenIs
    <3>2. put + j \in Int
      BY <1>1
    <3> QED BY <3>1, <3>2, PlacePeriod
  <2> QED BY <2>1, <2>2
<1>3. ASSUME NEW n \in 0 .. Size, NEW j \in Int
      PROVE  MQ!Masked(MQ!Plus(get, n) + j) = MQ!Masked(get + n + j)
  <2>0. n \in Int
    BY SizeAssumption
  <2>1. CASE get + n < MQ!IndexRange
    BY <1>1, <2>0, <2>1, PlusIs
  <2>2. CASE ~(get + n < MQ!IndexRange)
    <3>1. MQ!Plus(get, n) + j = (get + n + j) - MQ!IndexRange
      BY <1>1, <2>0, <2>2, PlusIs
    <3>2. get + n + j \in Int
      BY <1>1, <2>0
    <3> QED BY <3>1, <3>2, PlacePeriod
  <2> QED BY <2>1, <2>2
<1> QED BY <1>2, <1>3
-----------------------------------------------------------------------------
(* The bytes between two indices.                                          *)

\* What is queued in a ring of bytes between two indices, oldest first.
Content(ring, get, put) ==
  [k \in 1 .. Between(get, put) |-> ring[MQ!Masked(get + k - 1)]]

LEMMA ContentIsSeq ==
  ASSUME NEW ring \in [MQ!Ring -> Bytes], NEW get \in MQ!Indices, NEW put \in MQ!Indices
  PROVE  /\ Content(ring, get, put) \in Seq(Bytes)
         /\ Len(Content(ring, get, put)) = Between(get, put)
<1>1. Between(get, put) \in Nat /\ get \in Int
  BY BetweenFacts, ByteRange DEF MQ!Indices
<1>2. \A k \in 1 .. Between(get, put) : ring[MQ!Masked(get + k - 1)] \in Bytes
  <2> SUFFICES ASSUME NEW k \in 1 .. Between(get, put)
               PROVE  ring[MQ!Masked(get + k - 1)] \in Bytes
    OBVIOUS
  <2>1. get + k - 1 \in Int
    BY <1>1
  <2> QED BY <2>1, PlaceInRing
<1> QED BY <1>1, <1>2 DEF Content

\* Writing where the producer may leaves what is queued alone.
LEMMA WriteElsewhere ==
  ASSUME NEW ring \in [MQ!Ring -> Bytes], NEW new \in [MQ!Ring -> Bytes],
         NEW get \in MQ!Indices, NEW put \in MQ!Indices, NEW n \in Nat,
         Between(get, put) + n <= Size,
         \A b \in MQ!Ring : \/ new[b] = ring[b]
                            \/ \E i \in 0 .. (n - 1) : b = MQ!Masked(put + i)
  PROVE  /\ Content(new, get, put) = Content(ring, get, put)
         /\ \A k \in 1 .. Between(get, put) :
              new[MQ!Masked(get + k - 1)] = ring[MQ!Masked(get + k - 1)]
<1>1. Between(get, put) \in Nat /\ get \in Int /\ put \in Int /\ Size \in Nat
  BY BetweenFacts, ByteRange, SizeAssumption DEF MQ!Indices
<1>2. ASSUME NEW k \in 1 .. Between(get, put)
      PROVE  new[MQ!Masked(get + k - 1)] = ring[MQ!Masked(get + k - 1)]
  <2>1. get + k - 1 \in Int /\ MQ!Masked(get + k - 1) \in MQ!Ring
    <3>1. get + k - 1 \in Int
      BY <1>1
    <3> QED BY <3>1, PlaceInRing
  <2>2. ASSUME NEW i \in 0 .. (n - 1), MQ!Masked(get + k - 1) = MQ!Masked(put + i)
        PROVE  FALSE
    <3>1. PICK d \in Nat, j \in Int : d = Between(get, put) /\ j = k - 1
      BY <1>1
    <3>2. /\ j \in 0 .. (Size - 1) /\ d + i \in 0 .. (Size - 1) /\ j # d + i
          /\ i \in Int
      BY <1>1, <3>1
    <3>3. MQ!Masked(put + i) = MQ!Masked(get + d + i)
      BY <3>1, <3>2, PlaceAt
    <3>4. MQ!Masked(get + j) # MQ!Masked(get + (d + i))
      BY <1>1, <3>2, PlacesDiffer
    <3>5. get + d + i = get + (d + i) /\ get + k - 1 = get + j
      BY <1>1, <3>1, <3>2
    <3> QED BY <2>2, <3>3, <3>4, <3>5
  <2> QED BY <2>1, <2>2
<1> QED BY <1>2 DEF Content

\* When the bytes of a put are at their places, moving the index queues them.
LEMMA PutAppends ==
  ASSUME NEW ring \in [MQ!Ring -> Bytes], NEW get \in MQ!Indices, NEW put \in MQ!Indices,
         NEW d \in Seq(Bytes), Between(get, put) + Len(d) <= Size,
         \A k \in 1 .. Len(d) : ring[MQ!Masked(put + k - 1)] = d[k]
  PROVE  /\ MQ!Plus(put, Len(d)) \in MQ!Indices
         /\ Between(get, MQ!Plus(put, Len(d))) = Between(get, put) + Len(d)
         /\ Content(ring, get, MQ!Plus(put, Len(d))) = Content(ring, get, put) \o d
<1> DEFINE old == Content(ring, get, put)
           new == Content(ring, get, MQ!Plus(put, Len(d)))
<1>1. PICK m \in Nat, n \in Nat : m = Between(get, put) /\ n = Len(d)
  BY BetweenFacts
<1>2. /\ get \in Int /\ put \in Int /\ Size \in Nat /\ n \in 0 .. Size /\ m + n <= Size
  BY <1>1, ByteRange, SizeAssumption DEF MQ!Indices
<1>3. MQ!Plus(put, n) \in MQ!Indices /\ Between(get, MQ!Plus(put, n)) = m + n
  BY <1>1, <1>2, PlusIs, BetweenAfterPut
<1>4. /\ old \in Seq(Bytes) /\ Len(old) = m
      /\ new \in Seq(Bytes) /\ Len(new) = m + n
  BY <1>1, <1>3, ContentIsSeq
<1>5. /\ old \o d \in Seq(Bytes) /\ Len(old \o d) = m + n
      /\ \A k \in 1 .. (m + n) : (old \o d)[k] = IF k <= m THEN old[k] ELSE d[k - m]
  BY <1>1, <1>4, ConcatProperties
<1>6. ASSUME NEW k \in 1 .. (m + n)
      PROVE  new[k] = (old \o d)[k]
  <2>1. new[k] = ring[MQ!Masked(get + k - 1)]
    BY <1>1, <1>3 DEF Content
  <2>2. CASE k <= m
    <3>1. old[k] = ring[MQ!Masked(get + k - 1)]
      BY <1>1, <2>2 DEF Content
    <3> QED BY <1>5, <2>1, <2>2, <3>1
  <2>3. CASE ~(k <= m)
    <3>1. PICK j \in Int : j = k - m - 1
      OBVIOUS
    <3>2. /\ j + 1 \in 1 .. n /\ k - m = j + 1 /\ put + (j + 1) - 1 = put + j
          /\ get + m + j = get + k - 1
      BY <1>2, <2>3, <3>1
    <3>3. ring[MQ!Masked(put + (j + 1) - 1)] = d[j + 1]
      BY <1>1, <3>2
    <3>4. MQ!Masked(put + j) = MQ!Masked(get + m + j)
      BY <1>1, PlaceAt
    <3> QED BY <1>5, <2>1, <2>3, <3>2, <3>3, <3>4
  <2> QED BY <2>2, <2>3
<1> HIDE DEF old, new
<1>7. new = old \o d
  BY <1>4, <1>5, <1>6, SeqEqual
<1> QED BY <1>1, <1>3, <1>7 DEF old, new

\* Moving the other index takes the oldest bytes off.
LEMMA GetRemoves ==
  ASSUME NEW ring \in [MQ!Ring -> Bytes], NEW get \in MQ!Indices, NEW put \in MQ!Indices,
         Between(get, put) <= Size, NEW n \in 1 .. Between(get, put)
  PROVE  /\ MQ!Plus(get, n) \in MQ!Indices
         /\ Between(MQ!Plus(get, n), put) = Between(get, put) - n
         /\ Content(ring, MQ!Plus(get, n), put)
              = SubSeq(Content(ring, get, put), n + 1, Between(get, put))
<1> DEFINE old == Content(ring, get, put)
           new == Content(ring, MQ!Plus(get, n), put)
           rest == SubSeq(old, n + 1, Between(get, put))
<1>1. PICK m \in Nat : m = Between(get, put)
  BY BetweenFacts
<1>2. /\ get \in Int /\ put \in Int /\ Size \in Nat /\ n \in 0 .. Size /\ n <= m
      /\ n \in 1 .. m
  BY <1>1, ByteRange, SizeAssumption DEF MQ!Indices
<1>3. MQ!Plus(get, n) \in MQ!Indices /\ Between(MQ!Plus(get, n), put) = m - n
  BY <1>1, <1>2, PlusIs, BetweenAfterGet
<1>4. /\ old \in Seq(Bytes) /\ Len(old) = m
      /\ new \in Seq(Bytes) /\ Len(new) = m - n
  BY <1>1, <1>3, ContentIsSeq
<1>5. /\ rest \in Seq(Bytes) /\ Len(rest) = m - n
      /\ \A k \in 1 .. (m - n) : rest[k] = old[n + k]
  <2> HIDE DEF old
  <2>1. rest = SubSeq(old, n + 1, m)
    BY <1>1
  <2> HIDE DEF rest
  <2>2. Len(SubSeq(old, n + 1, m)) = m - n /\ SubSeq(old, n + 1, m) \in Seq(Bytes)
    BY <1>2, <1>4
  <2>3. \A k \in 1 .. (m - n) : SubSeq(old, n + 1, m)[k] = old[n + k]
    BY <1>2, <1>4
  <2> QED BY <2>1, <2>2, <2>3
<1>6. ASSUME NEW k \in 1 .. (m - n)
      PROVE  new[k] = rest[k]
  <2>1. new[k] = ring[MQ!Masked(MQ!Plus(get, n) + k - 1)]
    BY <1>1, <1>3 DEF Content
  <2>2. n + k \in 1 .. m
    BY <1>2
  <2>3. old[n + k] = ring[MQ!Masked(get + (n + k) - 1)]
    BY <1>1, <2>2 DEF Content
  <2>4. PICK j \in Int : j = k - 1
    OBVIOUS
  <2>5. MQ!Masked(MQ!Plus(get, n) + j) = MQ!Masked(get + n + j)
    BY <1>2, <2>4, PlaceAt
  <2>6. MQ!Plus(get, n) + k - 1 = MQ!Plus(get, n) + j
    <3>1. MQ!Plus(get, n) \in Int
      BY <1>3, ByteRange DEF MQ!Indices
    <3> QED BY <2>4, <3>1
  <2>7. get + (n + k) - 1 = get + n + j
    BY <1>2, <2>4
  <2> QED BY <1>5, <2>1, <2>3, <2>5, <2>6, <2>7
<1> HIDE DEF old, new, rest
<1>7. new = rest
  BY <1>4, <1>5, <1>6, SeqEqual
<1> QED BY <1>1, <1>3, <1>7 DEF old, new, rest

\* Bytes copied from where the get index points are the oldest ones.
LEMMA CopiedAreOldest ==
  ASSUME NEW ring \in [MQ!Ring -> Bytes], NEW get \in MQ!Indices, NEW put \in MQ!Indices,
         NEW o \in Seq(Bytes), Len(o) <= Between(get, put),
         \A k \in 1 .. Len(o) : ring[MQ!Masked(get + k - 1)] = o[k]
  PROVE  o = SubSeq(Content(ring, get, put), 1, Len(o))
<1> DEFINE old == Content(ring, get, put)
           first == SubSeq(old, 1, Len(o))
<1>1. PICK m \in Nat, n \in Nat : m = Between(get, put) /\ n = Len(o)
  BY BetweenFacts
<1>2. old \in Seq(Bytes) /\ Len(old) = m /\ n <= m
  BY <1>1, ContentIsSeq
<1>3. \A k \in 1 .. n : old[k] = o[k]
  BY <1>1, <1>2 DEF Content
<1> HIDE DEF old
<1>4. first = SubSeq(old, 1, n)
  BY <1>1
<1>5. first \in Seq(Bytes) /\ Len(first) = n /\ \A k \in 1 .. n : first[k] = old[k]
  BY <1>2, <1>4
<1> HIDE DEF first
<1>6. o = first
  BY <1>1, <1>3, <1>5, SeqEqual
<1> QED BY <1>6 DEF first, old

\* Where the two pieces of a copy of n bytes lie.
LEMMA TwoPieces ==
  ASSUME NEW x \in Int, NEW n \in Nat, n <= Size
  PROVE  /\ MQ!ToEnd(n, x) \in Nat /\ MQ!ToEnd(n, x) <= n
         /\ MQ!Masked(x) + MQ!ToEnd(n, x) <= Size
         /\ MQ!ToEnd(n, x) < n => MQ!Masked(x) + MQ!ToEnd(n, x) = Size
         /\ \A j \in 0 .. (MQ!ToEnd(n, x) - 1) : MQ!Masked(x + j) = MQ!Masked(x) + j
         /\ \A j \in MQ!ToEnd(n, x) .. (n - 1) : MQ!Masked(x + j) = j - MQ!ToEnd(n, x)
<1>1. PICK p \in Nat, t \in Int : p = MQ!Masked(x) /\ t = MQ!ToEnd(n, x)
  BY PlaceInRing, SizeAssumption DEF MQ!ToEnd, MQ!Smaller
<1>2. p < Size /\ Size \in Nat
  BY <1>1, PlaceInRing, SizeAssumption DEF MQ!Ring
<1>3. t = IF n <= Size - p THEN n ELSE Size - p
  BY <1>1 DEF MQ!ToEnd, MQ!Smaller
<1>4. t \in Nat /\ t <= n /\ p + t <= Size /\ (t < n => p + t = Size)
  BY <1>2, <1>3
<1>5. ASSUME NEW j \in 0 .. (t - 1)
      PROVE  MQ!Masked(x + j) = p + j
  <2>1. j \in 0 .. Size /\ p + j < Size
    BY <1>2, <1>4
  <2> QED BY <1>1, <2>1, PlaceFurther
<1>6. ASSUME NEW j \in t .. (n - 1)
      PROVE  MQ!Masked(x + j) = j - t
  <2>1. j \in 0 .. Size /\ ~(p + j < Size) /\ p + j - Size = j - t
    BY <1>2, <1>4
  <2> QED BY <1>1, <2>1, PlaceFurther
<1> QED BY <1>1, <1>4, <1>5, <1>6
-----------------------------------------------------------------------------
(* The inductive invariant.                                                *)

ByteTypes ==
  /\ memory \in [MQ!Ring -> Bytes]
  /\ memoryGet \in MQ!Indices /\ memoryPut \in MQ!Indices
  /\ putPc \in {"idle", "tail", "head", "publish"}
  /\ getPc \in {"idle", "tail", "head", "publish"}
  /\ data \in Seq(Bytes) /\ got \in Seq(Bytes) /\ received \in Seq(Bytes)
  /\ length \in Nat

\* What a side has claimed fits, what it has copied is right, and a call that
\* gets bytes gets one at least.
ByteInv ==
  /\ ByteTypes
  /\ MQ!SizeBounded
  /\ MQ!CopiesAgree
  /\ getPc # "idle" => length > 0

LEMMA ByteFacts ==
  ASSUME ByteInv
  PROVE  /\ memoryGet \in Int /\ memoryPut \in Int /\ Size \in Nat
         /\ Between(memoryGet, memoryPut) \in Nat
         /\ MQ!DataSize = Between(memoryGet, memoryPut)
         /\ MQ!Queued = Content(memory, memoryGet, memoryPut)
         /\ Len(data) \in Nat /\ Len(got) \in Nat /\ length \in Nat
         /\ Between(memoryGet, memoryPut) + Len(data) <= Size
         /\ length <= Between(memoryGet, memoryPut)
         /\ Len(data) <= Size /\ length <= Size /\ Between(memoryGet, memoryPut) <= Size
<1>1. memoryGet \in MQ!Indices /\ memoryPut \in MQ!Indices
  BY DEF ByteInv, ByteTypes
<1>2. memoryGet \in Int /\ memoryPut \in Int /\ Size \in Nat
  BY <1>1, ByteRange, SizeAssumption DEF MQ!Indices
<1>3. Between(memoryGet, memoryPut) \in Nat
  BY <1>1, BetweenFacts
<1>4. MQ!DataSize = Between(memoryGet, memoryPut)
  BY DEF MQ!DataSize, Between
<1>5. MQ!Queued = Content(memory, memoryGet, memoryPut)
  BY <1>4 DEF MQ!Queued, Content
<1>6. Len(data) \in Nat /\ Len(got) \in Nat /\ length \in Nat
  BY DEF ByteInv, ByteTypes
<1>7. Between(memoryGet, memoryPut) + Len(data) <= Size /\ length <= Between(memoryGet, memoryPut)
  BY <1>4 DEF ByteInv, MQ!SizeBounded
<1>8. PICK b \in Nat, n \in Nat, k \in Nat, z \in Nat :
        b = Between(memoryGet, memoryPut) /\ n = Len(data) /\ k = length /\ z = Size
  BY <1>2, <1>3, <1>6
<1>9. b + n <= z /\ k <= b
  BY <1>7, <1>8
<1>10. n <= z /\ k <= z /\ b <= z
  BY <1>9
<1> QED BY <1>2, <1>3, <1>4, <1>5, <1>6, <1>7, <1>8, <1>10

\* The same of the next state, as far as the definitions go.
LEMMA NextContent ==
  /\ MQ!DataSize' = Between(memoryGet', memoryPut')
  /\ MQ!Queued' = Content(memory', memoryGet', memoryPut')
<1>1. MQ!DataSize' = Between(memoryGet', memoryPut')
  BY DEF MQ!DataSize, Between
<1> QED BY <1>1 DEF MQ!Queued, Content

\* How far a side has come is a part of its call.
LEMMA CopiedFacts ==
  ASSUME ByteInv
  PROVE  /\ MQ!ProducerCopied \in 0 .. Len(data)
         /\ MQ!ConsumerCopied \in 0 .. length
<1>1. /\ MQ!ToEnd(Len(data), memoryPut) \in 0 .. Len(data)
      /\ MQ!ToEnd(length, memoryGet) \in 0 .. length
  BY ByteFacts, TwoPieces
<1> QED BY <1>1, ByteFacts DEF MQ!ProducerCopied, MQ!ConsumerCopied

\* A step that leaves the consumer and its bytes alone leaves its copy right.
LEMMA ConsumerUndisturbed ==
  ASSUME ByteInv, memoryGet' = memoryGet, getPc' = getPc, length' = length, got' = got,
         \A k \in 1 .. Between(memoryGet, memoryPut) :
           memory'[MQ!Masked(memoryGet + k - 1)] = memory[MQ!Masked(memoryGet + k - 1)]
  PROVE  /\ Len(got') = MQ!ConsumerCopied'
         /\ \A k \in 1 .. MQ!ConsumerCopied' :
              memory'[MQ!Masked(memoryGet' + k - 1)] = got'[k]
<1>1. MQ!ConsumerCopied' = MQ!ConsumerCopied
  BY DEF MQ!ConsumerCopied, MQ!ToEnd, MQ!Smaller, MQ!Masked
<1>2. \A k \in 1 .. MQ!ConsumerCopied : k \in 1 .. Between(memoryGet, memoryPut)
  BY CopiedFacts, ByteFacts
<1> QED BY <1>1, <1>2 DEF ByteInv, MQ!CopiesAgree

\* A step that leaves the producer and the ring alone leaves its copy right.
LEMMA ProducerUndisturbed ==
  ASSUME ByteInv, memory' = memory, memoryPut' = memoryPut, putPc' = putPc, data' = data
  PROVE  \A k \in 1 .. MQ!ProducerCopied' :
           memory'[MQ!Masked(memoryPut' + k - 1)] = data'[k]
<1>1. MQ!ProducerCopied' = MQ!ProducerCopied
  BY DEF MQ!ProducerCopied, MQ!ToEnd, MQ!Smaller, MQ!Masked
<1> QED BY <1>1 DEF ByteInv, MQ!CopiesAgree

\* Nothing the queue of bytes is about changes.
SameFifo == MQ!Queued' = MQ!Queued /\ data' = data /\ received' = received

-----------------------------------------------------------------------------
(* The steps of the producer.                                              *)

\* What a call may put at once: a part of what it was given.
LEMMA Offered ==
  ASSUME ByteInv, MQ!PutSome \/ MQ!PutFixedLength
  PROVE  /\ data' \in Seq(Bytes)
         /\ Between(memoryGet, memoryPut) + Len(data') <= Size
         /\ data' = <<>> \/ data' \in MQ!Chunks
<1>1. PICK free \in Nat, d \in Nat :
        /\ d = Between(memoryGet, memoryPut) /\ free = Size - d /\ free = MQ!FreeSize
        /\ d + free = Size
  BY ByteFacts DEF MQ!FreeSize
<1>2. CASE MQ!PutSome
  <2>1. PICK c \in MQ!Chunks : data' = SubSeq(c, 1, MQ!Smaller(Len(c), free))
    BY <1>1, <1>2 DEF MQ!PutSome
  <2>2. PICK n \in 1 .. MaxLength : c \in [1 .. n -> Bytes]
    BY DEF MQ!Chunks
  <2>3. n \in Nat /\ c \in Seq(Bytes) /\ Len(c) = n
    BY <2>2, MaxLengthAssumption
  <2>4. PICK k \in Nat : k = MQ!Smaller(n, free) /\ k <= n /\ k <= free
    BY <2>3 DEF MQ!Smaller
  <2>5. data' = SubSeq(c, 1, k)
    BY <2>1, <2>3, <2>4
  <2>6. /\ data' \in Seq(Bytes) /\ Len(data') = k
        /\ data' \in [1 .. k -> Bytes]
    <3>1. data' \in Seq(Bytes) /\ Len(data') = k
      BY <2>3, <2>4, <2>5
    <3> QED BY <3>1, LenProperties
  <2>7. d + k <= Size
    BY <1>1, <2>4, SizeAssumption
  <2>8. CASE k = 0
    <3>1. data' = <<>>
      BY <2>6, <2>8
    <3> QED BY <1>1, <2>6, <2>7, <3>1
  <2>9. CASE k # 0
    <3>1. k \in 1 .. MaxLength
      BY <2>2, <2>4, <2>9, MaxLengthAssumption
    <3>2. data' \in MQ!Chunks
      BY <2>6, <3>1 DEF MQ!Chunks
    <3> QED BY <1>1, <2>6, <2>7, <3>2
  <2> QED BY <2>8, <2>9
<1>3. CASE MQ!PutFixedLength
  <2>1. data' \in MQ!Chunks /\ Len(data') <= free
    BY <1>1, <1>3 DEF MQ!PutFixedLength
  <2>2. PICK n \in 1 .. MaxLength : data' \in [1 .. n -> Bytes]
    BY <2>1 DEF MQ!Chunks
  <2>3. data' \in Seq(Bytes) /\ Len(data') \in Nat
    <3>1. n \in Nat
      BY MaxLengthAssumption
    <3> QED BY <2>2, <3>1
  <2>4. d + Len(data') <= Size
    BY <1>1, <2>1, <2>3, SizeAssumption
  <2> QED BY <1>1, <2>1, <2>3, <2>4
<1> QED BY <1>2, <1>3

\* Put claims room.
LEMMA BeginPutStep ==
  ASSUME ByteInv, MQ!BeginPut
  PROVE  ByteInv' /\ [MQ!Fifo!Next]_(MQ!Fifo!vars)
<1>1. /\ memory' = memory /\ memoryPut' = memoryPut /\ memoryGet' = memoryGet
      /\ getPc' = getPc /\ length' = length /\ got' = got /\ received' = received
      /\ putPc = "idle" /\ putPc' = "tail" /\ data = <<>>
  BY DEF MQ!BeginPut, MQ!consumerVars, ByteInv, MQ!SizeBounded
<1>2. /\ data' \in Seq(Bytes)
      /\ Between(memoryGet, memoryPut) + Len(data') <= Size
      /\ data' = <<>> \/ data' \in MQ!Chunks
  BY Offered DEF MQ!BeginPut
<1>3. MQ!DataSize' = MQ!DataSize /\ MQ!Queued' = MQ!Queued
  BY <1>1, ByteFacts, NextContent
<1>4. ByteTypes'
  BY <1>1, <1>2 DEF ByteInv, ByteTypes
<1>5. MQ!SizeBounded'
  BY <1>1, <1>2, <1>3, ByteFacts DEF ByteInv, MQ!SizeBounded
<1>6. MQ!CopiesAgree'
  <2>1. MQ!ProducerCopied' = 0
    BY <1>1 DEF MQ!ProducerCopied
  <2> QED BY <1>1, <2>1, ConsumerUndisturbed DEF MQ!CopiesAgree
<1>7. ByteInv'
  BY <1>1, <1>4, <1>5, <1>6 DEF ByteInv
<1>8. CASE data' = <<>>
  BY <1>1, <1>3, <1>7, <1>8 DEF MQ!Fifo!vars
<1>9. CASE data' \in MQ!Chunks
  <2>1. Len(MQ!Queued) = Between(memoryGet, memoryPut)
    BY ByteFacts, ContentIsSeq DEF ByteInv, ByteTypes
  <2>2. MQ!Fifo!Offer
    BY <1>1, <1>2, <1>3, <1>9, <2>1 DEF MQ!Fifo!Offer
  <2> QED BY <1>7, <2>2 DEF MQ!Fifo!Next
<1> QED BY <1>2, <1>8, <1>9
\* The first copy fills the ring up to its end.
LEMMA CopyToTailStep ==
  ASSUME ByteInv, MQ!CopyToTail
  PROVE  ByteInv' /\ SameFifo
<1>1. /\ memoryPut' = memoryPut /\ memoryGet' = memoryGet
      /\ getPc' = getPc /\ length' = length /\ got' = got /\ received' = received
      /\ putPc = "tail" /\ putPc' = "head" /\ data' = data
  BY DEF MQ!CopyToTail, MQ!consumerVars
<1>2. PICK p \in Nat, t \in Nat, n \in Nat, d \in Seq(Bytes), x \in MQ!Indices :
        /\ p = MQ!Masked(memoryPut) /\ t = MQ!ToEnd(Len(data), memoryPut)
        /\ d = data /\ n = Len(d) /\ x = memoryPut
  BY ByteFacts, TwoPieces, PlaceInRing DEF ByteInv, ByteTypes
<1>3. /\ t <= n /\ p + t <= Size /\ x \in Int /\ n <= Size /\ Size \in Nat
      /\ \A j \in 0 .. (t - 1) : MQ!Masked(x + j) = p + j
  BY <1>2, ByteFacts, TwoPieces
<1>4. /\ SubSeq(d, 1, t) \in Seq(Bytes) /\ Len(SubSeq(d, 1, t)) = t
      /\ \A k \in 1 .. t : SubSeq(d, 1, t)[k] = d[k]
  BY <1>2, <1>3
<1>5. memory' = MQ!Written(p, SubSeq(d, 1, t))
  BY <1>2 DEF MQ!CopyToTail
<1>6. memory' = [b \in MQ!Ring |-> IF b - p + 1 \in 1 .. t
                                   THEN SubSeq(d, 1, t)[b - p + 1] ELSE memory[b]]
  BY <1>4, <1>5 DEF MQ!Written
<1>7. \A b \in MQ!Ring :
        memory'[b] = IF b - p + 1 \in 1 .. t THEN SubSeq(d, 1, t)[b - p + 1] ELSE memory[b]
  BY <1>6
<1>8. memory \in [MQ!Ring -> Bytes] /\ memory' \in [MQ!Ring -> Bytes]
  <2>1. memory \in [MQ!Ring -> Bytes]
    BY DEF ByteInv, ByteTypes
  <2>2. ASSUME NEW b \in MQ!Ring
        PROVE  (IF b - p + 1 \in 1 .. t THEN SubSeq(d, 1, t)[b - p + 1] ELSE memory[b]) \in Bytes
    <3>1. CASE b - p + 1 \in 1 .. t
      <4>1. SubSeq(d, 1, t)[b - p + 1] \in Bytes
        BY <1>4, <3>1, ElementOfSeq
      <4> QED BY <3>1, <4>1
    <3> QED BY <2>1, <3>1
  <2> QED BY <1>6, <2>1, <2>2
<1>9. \A b \in MQ!Ring : \/ memory'[b] = memory[b]
                         \/ \E i \in 0 .. (n - 1) : b = MQ!Masked(x + i)
  <2> SUFFICES ASSUME NEW b \in MQ!Ring, b - p + 1 \in 1 .. t
               PROVE  \E i \in 0 .. (n - 1) : b = MQ!Masked(x + i)
    BY <1>7
  <2>1. PICK i \in Int : i = b - p
    BY <1>3 DEF MQ!Ring
  <2>2. b \in Int
    BY <1>3 DEF MQ!Ring
  <2>3. i \in 0 .. (t - 1) /\ i \in 0 .. (n - 1) /\ p + i = b
    BY <1>3, <2>1, <2>2
  <2> QED BY <1>3, <2>3
<1>10. /\ Content(memory', memoryGet, memoryPut) = Content(memory, memoryGet, memoryPut)
       /\ \A k \in 1 .. Between(memoryGet, memoryPut) :
            memory'[MQ!Masked(memoryGet + k - 1)] = memory[MQ!Masked(memoryGet + k - 1)]
  <2>1. memoryGet \in MQ!Indices /\ memoryPut \in MQ!Indices
        /\ Between(memoryGet, memoryPut) + n <= Size
    BY <1>2, ByteFacts DEF ByteInv, ByteTypes
  <2> QED BY <1>2, <1>8, <1>9, <2>1, WriteElsewhere
<1>11. ASSUME NEW k \in 1 .. t
       PROVE  memory'[MQ!Masked(memoryPut + k - 1)] = data[k]
  <2>1. PICK j \in Int : j = k - 1
    OBVIOUS
  <2>2. j \in 0 .. (t - 1) /\ p + j \in MQ!Ring /\ (p + j) - p + 1 = k /\ x + j = x + k - 1
    BY <1>3, <2>1 DEF MQ!Ring
  <2>3. memory'[p + j] = SubSeq(d, 1, t)[k]
    BY <1>7, <2>2
  <2>4. MQ!Masked(x + j) = p + j
    BY <1>3, <2>2
  <2> QED BY <1>2, <1>4, <2>2, <2>3, <2>4
<1>12. MQ!DataSize' = MQ!DataSize /\ MQ!Queued' = MQ!Queued
  BY <1>1, <1>10, ByteFacts, NextContent
<1>13. ByteTypes'
  BY <1>1, <1>8 DEF ByteInv, ByteTypes
<1>14. MQ!SizeBounded'
  BY <1>1, <1>12 DEF ByteInv, MQ!SizeBounded
<1>15. MQ!CopiesAgree'
  <2>1. MQ!ProducerCopied' = t
    BY <1>1, <1>2 DEF MQ!ProducerCopied, MQ!ToEnd, MQ!Smaller, MQ!Masked
  <2> QED BY <1>1, <1>10, <1>11, <2>1, ConsumerUndisturbed DEF MQ!CopiesAgree
<1> QED BY <1>1, <1>12, <1>13, <1>14, <1>15 DEF ByteInv, SameFifo

\* The second puts the rest at the beginning.
LEMMA CopyToHeadStep ==
  ASSUME ByteInv, MQ!CopyToHead
  PROVE  ByteInv' /\ SameFifo
<1>1. /\ memoryPut' = memoryPut /\ memoryGet' = memoryGet
      /\ getPc' = getPc /\ length' = length /\ got' = got /\ received' = received
      /\ putPc = "head" /\ putPc' = "publish" /\ data' = data
  BY DEF MQ!CopyToHead, MQ!consumerVars
<1>2. PICK t \in Nat, n \in Nat, d \in Seq(Bytes), x \in MQ!Indices :
        /\ t = MQ!ToEnd(Len(data), memoryPut)
        /\ d = data /\ n = Len(d) /\ x = memoryPut
  BY ByteFacts, TwoPieces DEF ByteInv, ByteTypes
<1>3. /\ t <= n /\ x \in Int /\ n <= Size /\ Size \in Nat
      /\ \A j \in t .. (n - 1) : MQ!Masked(x + j) = j - t
      /\ \A j \in 0 .. (t - 1) : MQ!Masked(x + j) = MQ!Masked(x) + j
      /\ MQ!Masked(x) \in Nat /\ MQ!Masked(x) + t <= Size
      /\ t < n => MQ!Masked(x) + t = Size
  BY <1>2, ByteFacts, TwoPieces, PlaceInRing
<1> DEFINE rest == SubSeq(d, t + 1, n)
<1>4. /\ rest \in Seq(Bytes) /\ Len(rest) = n - t
      /\ \A k \in 1 .. (n - t) : rest[k] = d[t + k]
  <2>1. Len(SubSeq(d, t + 1, n)) = n - t /\ SubSeq(d, t + 1, n) \in Seq(Bytes)
    BY <1>2, <1>3, SMTT(30)
  <2>2. \A k \in 1 .. (n - t) : SubSeq(d, t + 1, n)[k] = d[t + k]
    BY <1>2, <1>3, SMTT(30)
  <2> QED BY <2>1, <2>2
<1>5. memory' = MQ!Written(0, rest)
  BY <1>2 DEF MQ!CopyToHead
<1> HIDE DEF rest
<1>6. memory' = [b \in MQ!Ring |-> IF b - 0 + 1 \in 1 .. (n - t)
                                   THEN rest[b - 0 + 1] ELSE memory[b]]
  BY <1>4, <1>5 DEF MQ!Written
<1>7. \A b \in MQ!Ring :
        memory'[b] = IF b + 1 \in 1 .. (n - t) THEN rest[b + 1] ELSE memory[b]
  BY <1>3, <1>6 DEF MQ!Ring
<1>8. memory \in [MQ!Ring -> Bytes] /\ memory' \in [MQ!Ring -> Bytes]
  <2>1. memory \in [MQ!Ring -> Bytes]
    BY DEF ByteInv, ByteTypes
  <2>2. ASSUME NEW b \in MQ!Ring
        PROVE  (IF b - 0 + 1 \in 1 .. (n - t) THEN rest[b - 0 + 1] ELSE memory[b]) \in Bytes
    <3>1. CASE b - 0 + 1 \in 1 .. (n - t)
      <4>1. rest[b - 0 + 1] \in Bytes
        BY <1>4, <3>1, ElementOfSeq
      <4> QED BY <3>1, <4>1
    <3> QED BY <2>1, <3>1
  <2> QED BY <1>6, <2>1, <2>2
<1>9. \A b \in MQ!Ring : \/ memory'[b] = memory[b]
                         \/ \E i \in 0 .. (n - 1) : b = MQ!Masked(x + i)
  <2> SUFFICES ASSUME NEW b \in MQ!Ring, b + 1 \in 1 .. (n - t)
               PROVE  \E i \in 0 .. (n - 1) : b = MQ!Masked(x + i)
    BY <1>7
  <2>1. b \in Int
    BY <1>3 DEF MQ!Ring
  <2>2. PICK i \in Int : i = b + t
    BY <1>3, <2>1
  <2>3. i \in t .. (n - 1) /\ i \in 0 .. (n - 1) /\ i - t = b
    BY <1>3, <2>1, <2>2
  <2> QED BY <1>3, <2>3
<1>10. /\ Content(memory', memoryGet, memoryPut) = Content(memory, memoryGet, memoryPut)
       /\ \A k \in 1 .. Between(memoryGet, memoryPut) :
            memory'[MQ!Masked(memoryGet + k - 1)] = memory[MQ!Masked(memoryGet + k - 1)]
  <2>1. memoryGet \in MQ!Indices /\ memoryPut \in MQ!Indices
        /\ Between(memoryGet, memoryPut) + n <= Size
    BY <1>2, ByteFacts DEF ByteInv, ByteTypes
  <2> QED BY <1>2, <1>8, <1>9, <2>1, WriteElsewhere
<1>11. ASSUME NEW k \in 1 .. n
       PROVE  memory'[MQ!Masked(memoryPut + k - 1)] = data[k]
  <2>1. PICK j \in Int : j = k - 1
    OBVIOUS
  <2>2. j \in 0 .. (n - 1) /\ x + j = x + k - 1
    BY <1>3, <2>1
  <2>3. CASE k <= t
    <3>1. memory[MQ!Masked(x + k - 1)] = d[k]
      <4>1. MQ!ProducerCopied = t
        BY <1>1, <1>2 DEF MQ!ProducerCopied
      <4>2. k \in 1 .. t
        BY <2>3
      <4> QED BY <1>2, <4>1, <4>2 DEF ByteInv, MQ!CopiesAgree
    <3>2. MQ!Masked(x + j) = MQ!Masked(x) + j /\ MQ!Masked(x + j) \in MQ!Ring
      <4>1. j \in 0 .. (t - 1) /\ x + j \in Int
        BY <1>3, <2>1, <2>3
      <4> QED BY <1>3, <4>1, PlaceInRing
    <3>3. ~(MQ!Masked(x) + j + 1 \in 1 .. (n - t))
      <4> SUFFICES ASSUME MQ!Masked(x) + j + 1 \in 1 .. (n - t)
                   PROVE  FALSE
        OBVIOUS
      <4>1. PICK p \in Nat : p = MQ!Masked(x)
        BY <1>3
      <4>2. t < n
        BY <1>3, <2>2, <4>1
      <4>3. p + t = Size
        BY <1>3, <4>1, <4>2
      <4> QED BY <1>3, <2>2, <4>1, <4>3
    <3> QED BY <1>2, <1>7, <2>2, <3>1, <3>2, <3>3
  <2>4. CASE ~(k <= t)
    <3>1. j \in t .. (n - 1) /\ j - t \in MQ!Ring
      BY <1>3, <2>1, <2>4 DEF MQ!Ring
    <3>2. MQ!Masked(x + j) = j - t
      BY <1>3, <3>1
    <3>3. (j - t) + 1 \in 1 .. (n - t) /\ t + ((j - t) + 1) = k
      BY <1>3, <2>1, <3>1
    <3>4. memory'[j - t] = rest[(j - t) + 1] /\ rest[(j - t) + 1] = d[k]
      BY <1>4, <1>7, <3>1, <3>3
    <3> QED BY <1>2, <2>2, <3>2, <3>4
  <2> QED BY <2>3, <2>4
<1>12. MQ!DataSize' = MQ!DataSize /\ MQ!Queued' = MQ!Queued
  BY <1>1, <1>10, ByteFacts, NextContent
<1>13. ByteTypes'
  BY <1>1, <1>8 DEF ByteInv, ByteTypes
<1>14. MQ!SizeBounded'
  BY <1>1, <1>12 DEF ByteInv, MQ!SizeBounded
<1>15. MQ!CopiesAgree'
  <2>1. MQ!ProducerCopied' = n
    BY <1>1, <1>2 DEF MQ!ProducerCopied
  <2> QED BY <1>1, <1>10, <1>11, <2>1, ConsumerUndisturbed DEF MQ!CopiesAgree
<1> QED BY <1>1, <1>12, <1>13, <1>14, <1>15 DEF ByteInv, SameFifo

\* Moving the index queues what was put.
LEMMA PublishPutStep ==
  ASSUME ByteInv, MQ!PublishPut
  PROVE  ByteInv' /\ MQ!Fifo!Put
<1>1. /\ memory' = memory /\ memoryPut' = MQ!Plus(memoryPut, Len(data))
      /\ memoryGet' = memoryGet /\ getPc' = getPc /\ length' = length /\ got' = got
      /\ received' = received /\ putPc = "publish" /\ putPc' = "idle" /\ data' = <<>>
  BY DEF MQ!PublishPut, MQ!consumerVars
<1>2. /\ memory \in [MQ!Ring -> Bytes] /\ data \in Seq(Bytes)
      /\ memoryGet \in MQ!Indices /\ memoryPut \in MQ!Indices
  BY DEF ByteInv, ByteTypes
<1>3. \A k \in 1 .. Len(data) : memory[MQ!Masked(memoryPut + k - 1)] = data[k]
  <2>1. MQ!ProducerCopied = Len(data)
    BY <1>1 DEF MQ!ProducerCopied
  <2> QED BY <2>1 DEF ByteInv, MQ!CopiesAgree
<1>4. /\ memoryPut' \in MQ!Indices
      /\ Between(memoryGet, memoryPut') = Between(memoryGet, memoryPut) + Len(data)
      /\ Content(memory, memoryGet, memoryPut')
           = Content(memory, memoryGet, memoryPut) \o data
  BY <1>1, <1>2, <1>3, ByteFacts, PutAppends
<1>5. /\ MQ!DataSize' = MQ!DataSize + Len(data)
      /\ MQ!Queued' = MQ!Queued \o data
  BY <1>1, <1>4, ByteFacts, NextContent
<1>6. ByteTypes'
  BY <1>1, <1>2, <1>4 DEF ByteInv, ByteTypes
<1>7. MQ!SizeBounded'
  <2>1. PICK b \in Nat, n \in Nat, k \in Nat, b2 \in Nat :
          b = MQ!DataSize /\ n = Len(data) /\ k = length /\ b2 = MQ!DataSize'
    BY <1>5, ByteFacts
  <2>2. b2 = b + n /\ b + n <= Size /\ k <= b
    BY <1>5, <2>1 DEF ByteInv, MQ!SizeBounded
  <2>3. Len(data') = 0
    BY <1>1
  <2>4. b2 + 0 <= Size /\ k <= b2
    BY <2>2
  <2> QED BY <1>1, <2>1, <2>3, <2>4 DEF ByteInv, MQ!SizeBounded
<1>8. MQ!CopiesAgree'
  <2>1. MQ!ProducerCopied' = 0
    BY <1>1 DEF MQ!ProducerCopied
  <2> QED BY <1>1, <2>1, ConsumerUndisturbed DEF MQ!CopiesAgree
<1>9. ByteInv'
  BY <1>1, <1>6, <1>7, <1>8 DEF ByteInv
<1> QED BY <1>1, <1>5, <1>9 DEF MQ!Fifo!Put
-----------------------------------------------------------------------------
(* The steps of the consumer.                                              *)

\* Get claims bytes that are there.
LEMMA BeginGetStep ==
  ASSUME ByteInv, MQ!BeginGet
  PROVE  ByteInv' /\ SameFifo
<1>1. /\ memory' = memory /\ memoryPut' = memoryPut /\ memoryGet' = memoryGet
      /\ putPc' = putPc /\ data' = data /\ got' = got /\ received' = received
      /\ getPc = "idle" /\ getPc' = "tail" /\ got = <<>>
  BY DEF MQ!BeginGet, MQ!producerVars, ByteInv, MQ!SizeBounded
<1>2. length' \in 1 .. MQ!DataSize
  <2>1. length' \in 1 .. MQ!Smaller(MaxLength, MQ!DataSize) /\ MQ!DataSize \in Nat
    BY ByteFacts DEF MQ!BeginGet
  <2> QED BY <2>1, MaxLengthAssumption DEF MQ!Smaller
<1>3. MQ!DataSize' = MQ!DataSize /\ MQ!Queued' = MQ!Queued
  BY <1>1, ByteFacts, NextContent
<1>4. ByteTypes'
  BY <1>1, <1>2, ByteFacts DEF ByteInv, ByteTypes
<1>5. MQ!SizeBounded'
  BY <1>1, <1>2, <1>3, ByteFacts DEF ByteInv, MQ!SizeBounded
<1>6. MQ!CopiesAgree'
  <2>1. MQ!ConsumerCopied' = 0
    BY <1>1 DEF MQ!ConsumerCopied
  <2>2. Len(got') = 0
    BY <1>1
  <2> QED BY <1>1, <2>1, <2>2, ProducerUndisturbed DEF MQ!CopiesAgree
<1>7. length' > 0
  BY <1>2, ByteFacts
<1> QED BY <1>1, <1>3, <1>4, <1>5, <1>6, <1>7 DEF ByteInv, SameFifo

\* A piece of the ring is a sequence of bytes.
LEMMA PieceIsSeq ==
  ASSUME memory \in [MQ!Ring -> Bytes], NEW p \in Nat, NEW n \in Nat, p + n <= Size
  PROVE  /\ MQ!Piece(p, n) \in Seq(Bytes) /\ Len(MQ!Piece(p, n)) = n
         /\ \A k \in 1 .. n : MQ!Piece(p, n)[k] = memory[p + k - 1]
<1>1. \A k \in 1 .. n : memory[p + k - 1] \in Bytes
  <2> SUFFICES ASSUME NEW k \in 1 .. n PROVE memory[p + k - 1] \in Bytes
    OBVIOUS
  <2>1. p + k - 1 \in MQ!Ring
    BY SizeAssumption DEF MQ!Ring
  <2> QED BY <2>1
<1> QED BY <1>1 DEF MQ!Piece

\* The first copy takes the bytes before the end of the ring.
LEMMA CopyFromTailStep ==
  ASSUME ByteInv, MQ!CopyFromTail
  PROVE  ByteInv' /\ SameFifo
<1>1. /\ memory' = memory /\ memoryPut' = memoryPut /\ memoryGet' = memoryGet
      /\ putPc' = putPc /\ data' = data /\ length' = length /\ received' = received
      /\ getPc = "tail" /\ getPc' = "head"
  BY DEF MQ!CopyFromTail, MQ!producerVars
<1>2. PICK p \in Nat, t \in Nat, n \in Nat, x \in MQ!Indices :
        /\ p = MQ!Masked(memoryGet) /\ t = MQ!ToEnd(length, memoryGet)
        /\ n = length /\ x = memoryGet
  BY ByteFacts, TwoPieces, PlaceInRing DEF ByteInv, ByteTypes
<1>3. /\ t <= n /\ p + t <= Size /\ x \in Int
      /\ \A j \in 0 .. (t - 1) : MQ!Masked(x + j) = p + j
  BY <1>2, ByteFacts, TwoPieces
<1>4. memory \in [MQ!Ring -> Bytes]
  BY DEF ByteInv, ByteTypes
<1>5. got' = MQ!Piece(p, t)
  BY <1>2 DEF MQ!CopyFromTail
<1>6. /\ got' \in Seq(Bytes) /\ Len(got') = t
      /\ \A k \in 1 .. t : got'[k] = memory[p + k - 1]
  BY <1>3, <1>4, <1>5, PieceIsSeq
<1>7. ASSUME NEW k \in 1 .. t
      PROVE  memory'[MQ!Masked(memoryGet' + k - 1)] = got'[k]
  <2>1. PICK j \in Int : j = k - 1
    OBVIOUS
  <2>2. j \in 0 .. (t - 1) /\ p + j = p + k - 1 /\ x + j = x + k - 1
    BY <1>3, <2>1
  <2> QED BY <1>1, <1>2, <1>3, <1>6, <2>2
<1>8. MQ!DataSize' = MQ!DataSize /\ MQ!Queued' = MQ!Queued
  BY <1>1, ByteFacts, NextContent
<1>9. ByteTypes'
  BY <1>1, <1>6 DEF ByteInv, ByteTypes
<1>10. MQ!SizeBounded'
  BY <1>1, <1>8 DEF ByteInv, MQ!SizeBounded
<1>11. MQ!CopiesAgree'
  <2>1. MQ!ConsumerCopied' = t
    BY <1>1, <1>2 DEF MQ!ConsumerCopied, MQ!ToEnd, MQ!Smaller, MQ!Masked
  <2> QED BY <1>1, <1>6, <1>7, <2>1, ProducerUndisturbed DEF MQ!CopiesAgree
<1> QED BY <1>1, <1>8, <1>9, <1>10, <1>11 DEF ByteInv, SameFifo

\* The second takes the rest from the beginning.
LEMMA CopyFromHeadStep ==
  ASSUME ByteInv, MQ!CopyFromHead
  PROVE  ByteInv' /\ SameFifo
<1>1. /\ memory' = memory /\ memoryPut' = memoryPut /\ memoryGet' = memoryGet
      /\ putPc' = putPc /\ data' = data /\ length' = length /\ received' = received
      /\ getPc = "head" /\ getPc' = "publish"
  BY DEF MQ!CopyFromHead, MQ!producerVars
<1>2. PICK t \in Nat, n \in Nat, x \in MQ!Indices :
        t = MQ!ToEnd(length, memoryGet) /\ n = length /\ x = memoryGet
  BY ByteFacts, TwoPieces DEF ByteInv, ByteTypes
<1>3. /\ t <= n /\ n <= Size /\ x \in Int /\ Size \in Nat
      /\ \A j \in t .. (n - 1) : MQ!Masked(x + j) = j - t
  BY <1>2, ByteFacts, TwoPieces
<1>4. memory \in [MQ!Ring -> Bytes]
  BY DEF ByteInv, ByteTypes
<1>5. /\ got \in Seq(Bytes) /\ Len(got) = t
      /\ \A k \in 1 .. t : memory[MQ!Masked(x + k - 1)] = got[k]
  <2>1. MQ!ConsumerCopied = t
    BY <1>1, <1>2 DEF MQ!ConsumerCopied
  <2> QED BY <1>2, <2>1 DEF ByteInv, ByteTypes, MQ!CopiesAgree
<1> DEFINE rest == MQ!Piece(0, n - t)
<1>6. /\ rest \in Seq(Bytes) /\ Len(rest) = n - t
      /\ \A k \in 1 .. (n - t) : rest[k] = memory[0 + k - 1]
  <2>1. n - t \in Nat /\ 0 + (n - t) <= Size
    BY <1>3
  <2> QED BY <1>4, <2>1, PieceIsSeq
<1>7. got' = got \o rest
  BY <1>2, <1>5 DEF MQ!CopyFromHead
<1> HIDE DEF rest
<1>8. /\ got' \in Seq(Bytes) /\ Len(got') = n
      /\ \A k \in 1 .. n : got'[k] = IF k <= t THEN got[k] ELSE rest[k - t]
  <2>1. PICK c \in Nat : c = n - t /\ t + c = n
    BY <1>3
  <2>2. Len(rest) = c
    BY <1>6, <2>1
  <2>3. /\ got \o rest \in Seq(Bytes) /\ Len(got \o rest) = t + c
        /\ \A k \in 1 .. (t + c) : (got \o rest)[k] = IF k <= t THEN got[k] ELSE rest[k - t]
    <3>1. /\ got \o rest \in Seq(Bytes) /\ Len(got \o rest) = Len(got) + Len(rest)
          /\ \A k \in 1 .. Len(got) + Len(rest) :
               (got \o rest)[k] = IF k <= Len(got) THEN got[k] ELSE rest[k - Len(got)]
      BY <1>5, <1>6, ConcatProperties
    <3> QED BY <1>5, <2>2, <3>1
  <2> QED BY <1>7, <2>1, <2>3
<1>9. ASSUME NEW k \in 1 .. n
      PROVE  memory'[MQ!Masked(memoryGet' + k - 1)] = got'[k]
  <2>1. CASE k <= t
    <3>1. k \in 1 .. t
      BY <2>1
    <3> QED BY <1>1, <1>2, <1>5, <1>8, <2>1, <3>1
  <2>2. CASE ~(k <= t)
    <3>1. PICK j \in Int : j = k - 1
      OBVIOUS
    <3>2. /\ j \in t .. (n - 1) /\ k - t \in 1 .. (n - t) /\ 0 + (k - t) - 1 = j - t
          /\ x + j = x + k - 1
      BY <1>3, <2>2, <3>1
    <3>3. MQ!Masked(x + j) = j - t
      BY <1>3, <3>2
    <3>4. rest[k - t] = memory[0 + (k - t) - 1]
      BY <1>6, <3>2
    <3> QED BY <1>1, <1>2, <1>8, <2>2, <3>2, <3>3, <3>4
  <2> QED BY <2>1, <2>2
<1>10. MQ!DataSize' = MQ!DataSize /\ MQ!Queued' = MQ!Queued
  BY <1>1, ByteFacts, NextContent
<1>11. ByteTypes'
  BY <1>1, <1>8 DEF ByteInv, ByteTypes
<1>12. MQ!SizeBounded'
  BY <1>1, <1>10 DEF ByteInv, MQ!SizeBounded
<1>13. MQ!CopiesAgree'
  <2>1. MQ!ConsumerCopied' = n
    BY <1>1, <1>2 DEF MQ!ConsumerCopied
  <2> QED BY <1>1, <1>8, <1>9, <2>1, ProducerUndisturbed DEF MQ!CopiesAgree
<1> QED BY <1>1, <1>10, <1>11, <1>12, <1>13 DEF ByteInv, SameFifo

\* Moving the index takes the bytes off that the caller now has.
LEMMA PublishGetStep ==
  ASSUME ByteInv, MQ!PublishGet
  PROVE  ByteInv' /\ MQ!Fifo!Get
<1>1. /\ memory' = memory /\ memoryPut' = memoryPut
      /\ memoryGet' = MQ!Plus(memoryGet, length)
      /\ putPc' = putPc /\ data' = data /\ length' = 0 /\ got' = <<>>
      /\ received' = got /\ getPc = "publish" /\ getPc' = "idle"
  BY DEF MQ!PublishGet, MQ!producerVars
<1>2. PICK b \in Nat, n \in Nat : b = Between(memoryGet, memoryPut) /\ n = length
  BY ByteFacts
<1>3. n \in 1 .. b /\ b <= Size
  <2>1. n > 0 /\ n <= b /\ b <= Size
    BY <1>1, <1>2, ByteFacts DEF ByteInv
  <2> QED BY <2>1
<1>4. /\ memory \in [MQ!Ring -> Bytes] /\ got \in Seq(Bytes)
      /\ memoryGet \in MQ!Indices /\ memoryPut \in MQ!Indices
  BY DEF ByteInv, ByteTypes
<1>5. /\ Len(got) = n
      /\ \A k \in 1 .. n : memory[MQ!Masked(memoryGet + k - 1)] = got[k]
  <2>1. MQ!ConsumerCopied = n
    BY <1>1, <1>2 DEF MQ!ConsumerCopied
  <2> QED BY <2>1 DEF ByteInv, MQ!CopiesAgree
<1>6. got = SubSeq(MQ!Queued, 1, n)
  <2>1. Len(got) <= Between(memoryGet, memoryPut)
    BY <1>2, <1>3, <1>5
  <2> QED BY <1>4, <1>5, <2>1, ByteFacts, CopiedAreOldest
<1>7. /\ memoryGet' \in MQ!Indices
      /\ Between(memoryGet', memoryPut) = b - n
      /\ Content(memory, memoryGet', memoryPut)
           = SubSeq(Content(memory, memoryGet, memoryPut), n + 1, b)
  <2>1. MQ!Plus(memoryGet, n) = memoryGet'
    BY <1>1, <1>2
  <2> QED BY <1>2, <1>3, <1>4, <2>1, GetRemoves
<1>8. Len(MQ!Queued) = b
  BY <1>2, <1>4, ByteFacts, ContentIsSeq
<1>9. /\ MQ!DataSize' = b - n
      /\ MQ!Queued' = SubSeq(MQ!Queued, n + 1, Len(MQ!Queued))
  BY <1>1, <1>7, <1>8, ByteFacts, NextContent
<1>10. ByteTypes'
  BY <1>1, <1>4, <1>7 DEF ByteInv, ByteTypes
<1>11. MQ!SizeBounded'
  <2>1. PICK d \in Nat, b2 \in Int : d = Len(data) /\ b2 = MQ!DataSize' /\ b2 = b - n
    BY <1>9, ByteFacts
  <2>2. b + d <= Size
    BY <1>2, <2>1, ByteFacts
  <2>3. b2 + d <= Size /\ 0 <= b2
    BY <1>3, <2>1, <2>2, SizeAssumption
  <2> QED BY <1>1, <2>1, <2>3 DEF ByteInv, MQ!SizeBounded
<1>12. MQ!CopiesAgree'
  <2>1. MQ!ConsumerCopied' = 0 /\ Len(got') = 0
    BY <1>1 DEF MQ!ConsumerCopied
  <2> QED BY <1>1, <2>1, ProducerUndisturbed DEF MQ!CopiesAgree
<1>13. ByteInv'
  BY <1>1, <1>10, <1>11, <1>12 DEF ByteInv
<1>14. MQ!Fifo!Get
  BY <1>1, <1>3, <1>6, <1>8, <1>9 DEF MQ!Fifo!Get
<1> QED BY <1>13, <1>14

\* Resetting the indices empties the queue.
LEMMA ResetIndicesStep ==
  ASSUME ByteInv, MQ!Reset
  PROVE  ByteInv' /\ MQ!Fifo!Clear
<1>1. /\ memory' = memory /\ memoryPut' = 0 /\ memoryGet' = 0
      /\ putPc' = putPc /\ data' = data /\ getPc' = getPc /\ length' = length
      /\ got' = got /\ received' = received
      /\ putPc = "idle" /\ getPc = "idle"
  BY DEF MQ!Reset
<1>2. data = <<>> /\ length = 0 /\ got = <<>>
  BY <1>1 DEF ByteInv, MQ!SizeBounded
<1>3. 0 \in MQ!Indices /\ Between(0, 0) = 0
  <2>1. 0 \in MQ!Indices
    BY ByteRange, SizeAssumption DEF MQ!Indices
  <2> QED BY <2>1, BetweenFacts
<1>4. memory \in [MQ!Ring -> Bytes]
  BY DEF ByteInv, ByteTypes
<1>5. MQ!DataSize' = 0 /\ MQ!Queued' = <<>>
  <2>1. Content(memory, 0, 0) = <<>>
    BY <1>3, <1>4, ContentIsSeq
  <2> QED BY <1>1, <1>3, <2>1, NextContent
<1>6. ByteTypes'
  BY <1>1, <1>3 DEF ByteInv, ByteTypes
<1>7. MQ!SizeBounded'
  <2>1. Len(data') = 0 /\ length' = 0
    BY <1>1, <1>2
  <2> QED BY <1>1, <1>2, <1>5, <2>1, SizeAssumption DEF MQ!SizeBounded
<1>8. MQ!CopiesAgree'
  <2>1. MQ!ConsumerCopied' = 0 /\ Len(got') = 0
    BY <1>1, <1>2 DEF MQ!ConsumerCopied
  <2>2. MQ!ProducerCopied' = 0
    BY <1>1 DEF MQ!ProducerCopied
  <2> QED BY <2>1, <2>2 DEF MQ!CopiesAgree
<1>9. ByteInv'
  BY <1>1, <1>6, <1>7, <1>8 DEF ByteInv
<1> QED BY <1>1, <1>2, <1>5, <1>9 DEF MQ!Fifo!Clear
-----------------------------------------------------------------------------
(* The invariant, and what follows from it.                                *)

LEMMA ByteInit == MQ!Init => ByteInv /\ MQ!Fifo!Init
<1> SUFFICES ASSUME MQ!Init PROVE ByteInv /\ MQ!Fifo!Init
  OBVIOUS
<1>1. /\ memory \in [MQ!Ring -> Bytes] /\ memoryPut = 0 /\ memoryGet = 0
      /\ putPc = "idle" /\ data = <<>> /\ getPc = "idle" /\ length = 0
      /\ got = <<>> /\ received = <<>>
  BY DEF MQ!Init
<1>2. 0 \in MQ!Indices /\ Between(0, 0) = 0
  <2>1. 0 \in MQ!Indices
    BY ByteRange, SizeAssumption DEF MQ!Indices
  <2> QED BY <2>1, BetweenFacts
<1>3. ByteTypes
  BY <1>1, <1>2 DEF ByteTypes
<1>4. MQ!DataSize = 0
  BY <1>1, <1>2 DEF MQ!DataSize, Between
<1>5. Len(data) = 0 /\ Len(got) = 0
  BY <1>1
<1>6. MQ!SizeBounded
  BY <1>1, <1>4, <1>5, SizeAssumption DEF MQ!SizeBounded
<1>7. MQ!CopiesAgree
  <2>1. MQ!ProducerCopied = 0 /\ MQ!ConsumerCopied = 0
    BY <1>1 DEF MQ!ProducerCopied, MQ!ConsumerCopied
  <2> QED BY <1>5, <2>1 DEF MQ!CopiesAgree
<1>8. ByteInv
  BY <1>1, <1>3, <1>6, <1>7 DEF ByteInv
<1>9. MQ!Queued = <<>>
  BY <1>4 DEF MQ!Queued
<1> QED BY <1>1, <1>8, <1>9 DEF MQ!Fifo!Init

\* Every step of the ring keeps the invariant and is one of the queue, or none.
LEMMA ByteStep ==
  ByteInv /\ [MQ!Next]_(MQ!vars) => ByteInv' /\ [MQ!Fifo!Next]_(MQ!Fifo!vars)
<1> SUFFICES ASSUME ByteInv, [MQ!Next]_(MQ!vars)
             PROVE  ByteInv' /\ [MQ!Fifo!Next]_(MQ!Fifo!vars)
  OBVIOUS
<1>1. CASE MQ!BeginPut
  BY <1>1, BeginPutStep
<1>2. CASE MQ!PublishPut
  BY <1>2, PublishPutStep DEF MQ!Fifo!Next
<1>3. CASE MQ!PublishGet
  BY <1>3, PublishGetStep DEF MQ!Fifo!Next
<1>4. CASE MQ!Reset
  BY <1>4, ResetIndicesStep DEF MQ!Fifo!Next
<1>5. CASE MQ!CopyToTail \/ MQ!CopyToHead \/ MQ!BeginGet \/ MQ!CopyFromTail \/ MQ!CopyFromHead
  <2>1. ByteInv' /\ SameFifo
    BY <1>5, CopyToTailStep, CopyToHeadStep, BeginGetStep, CopyFromTailStep, CopyFromHeadStep
  <2> QED BY <2>1 DEF SameFifo, MQ!Fifo!vars
<1>6. CASE UNCHANGED MQ!vars
  <2>1. /\ memory' = memory /\ memoryPut' = memoryPut /\ memoryGet' = memoryGet
        /\ putPc' = putPc /\ data' = data /\ getPc' = getPc /\ length' = length
        /\ got' = got /\ received' = received
    BY <1>6 DEF MQ!vars, MQ!producerVars, MQ!consumerVars
  <2>2. MQ!DataSize' = MQ!DataSize /\ MQ!Queued' = MQ!Queued
    BY <2>1, ByteFacts, NextContent
  <2>3. ByteTypes'
    BY <2>1 DEF ByteInv, ByteTypes
  <2>4. MQ!SizeBounded'
    BY <2>1, <2>2 DEF ByteInv, MQ!SizeBounded
  <2>5. MQ!CopiesAgree'
    BY <2>1, ConsumerUndisturbed, ProducerUndisturbed DEF MQ!CopiesAgree
  <2> QED BY <2>1, <2>2, <2>3, <2>4, <2>5 DEF ByteInv, MQ!Fifo!vars
<1> QED BY <1>1, <1>2, <1>3, <1>4, <1>5, <1>6 DEF MQ!Next

\* A step of the parts is one of the ring of bytes or leaves it alone.
LEMMA PartsStep ==
  [PartsNext]_<<exercised, channelVars, winVars, vars, memoryVars, sizingVars>>
    => [MQ!Next]_(MQ!vars)
<1>1. UNCHANGED memoryVars => UNCHANGED MQ!vars
  BY DEF memoryVars, MQ!vars, MQ!producerVars, MQ!consumerVars
<1>2. PartsNext => MQ!Next \/ UNCHANGED memoryVars
  BY DEF PartsNext, Linux, Windows, Descriptors, CopiedBytes, Sizes
<1> QED BY <1>1, <1>2

\* The claims of the two sides are disjoint parts of one lap of the ring.
LEMMA ClaimsAreDisjoint == ByteInv => NoSharedByte
<1> SUFFICES ASSUME ByteInv,
                    NEW i \in 0 .. (Len(data) - 1), NEW j \in 0 .. (length - 1),
                    MQ!Masked(memoryPut + i) = MQ!Masked(memoryGet + j)
             PROVE  FALSE
  BY DEF NoSharedByte, MQ!NoSharedByte, MQ!Touched
<1>1. memoryGet \in MQ!Indices /\ memoryPut \in MQ!Indices
  BY DEF ByteInv, ByteTypes
<1>2. PICK b \in Nat, n \in Nat, k \in Nat, x \in Int :
        /\ b = Between(memoryGet, memoryPut) /\ n = Len(data) /\ k = length
        /\ x = memoryGet /\ b + n <= Size /\ k <= b
  BY ByteFacts
<1>3. i \in 0 .. (n - 1) /\ j \in 0 .. (k - 1)
  BY <1>2
<1>4. /\ i \in Int /\ j \in 0 .. (Size - 1) /\ b + i \in 0 .. (Size - 1) /\ b + i # j
      /\ x + b + i = x + (b + i)
  BY <1>2, <1>3, SizeAssumption, SMTT(30)
<1>5. MQ!Masked(memoryPut + i) = MQ!Masked(x + b + i)
  BY <1>1, <1>2, <1>4, PlaceAt
<1>6. MQ!Masked(x + (b + i)) # MQ!Masked(x + j)
  BY <1>2, <1>4, PlacesDiffer
<1> QED BY <1>2, <1>4, <1>5, <1>6

\* In every behaviour the producer and the consumer of the copy queue are at
\* different bytes of the ring, for every size of the ring, every width of the
\* indices and every length of the calls: SPSCMemoryQueue needs no lock.
THEOREM SidesStayApart == PartsSpec => []NoSharedByte
<1>1. PartsSpec => []ByteInv
  <2>1. PartsInit => ByteInv
    BY ByteInit DEF PartsInit
  <2>2. ByteInv /\ [PartsNext]_<<exercised, channelVars, winVars, vars, memoryVars, sizingVars>>
          => ByteInv'
    BY PartsStep, ByteStep
  <2> QED BY <2>1, <2>2, PTL DEF PartsSpec
<1> QED BY <1>1, ClaimsAreDisjoint, PTL

\* The copy queue is a first-in first-out queue of bytes: what one call puts
\* appears at once, whole and as it was given, and a call gets the oldest bytes
\* in their order, wherever the pieces are cut and the indices wrap.
THEOREM CopyQueueIsFifo == PartsSpec => ImplementsByteFifo
<1>1. PartsInit => ByteInv /\ MQ!Fifo!Init
  BY ByteInit DEF PartsInit
<1>2. ByteInv /\ [PartsNext]_<<exercised, channelVars, winVars, vars, memoryVars, sizingVars>>
        => ByteInv' /\ [MQ!Fifo!Next]_(MQ!Fifo!vars)
  BY PartsStep, ByteStep
<1> QED BY <1>1, <1>2, PTL DEF PartsSpec, ImplementsByteFifo, MQ!ImplementsByteFifo, MQ!Fifo!Spec
-----------------------------------------------------------------------------
(* The Windows channel: how many blocks are where.                         *)

\* Blocks are numbered as Send accepts them, what is queued and what is in the
\* DMA buffer are the last of them, and what is written are the first.  While
\* the worker lives none is missing between the two.
WinNumbers ==
  /\ \A i \in 1 .. Len(winAccepted) : winAccepted[i] = i
  /\ \A i \in 1 .. Len(winWritten) : winWritten[i] = i
  /\ \A i \in 1 .. Len(winQueue) : winQueue[i] = Len(winAccepted) - Len(winQueue) + i
  /\ \A i \in 1 .. Len(winWriting) : winWriting[i] = Len(winAccepted) - Len(winQueue)
  /\ Len(winWritten) + Len(winWriting) + Len(winQueue) <= Len(winAccepted)
  /\ winPc \notin {"none", "exited"} =>
       Len(winWritten) + Len(winWriting) + Len(winQueue) = Len(winAccepted)

WinActors ==
  /\ winOwner = "idle" => winPc = "none"
  /\ winSender = "send" => Len(winAccepted) + 1 \in Win!Blocks

WinInv == Win!TypeOK /\ WinActors /\ WinNumbers

LEMMA WinFacts ==
  ASSUME WinInv
  PROVE  /\ winAccepted \in Seq(Win!Blocks) /\ winWritten \in Seq(Win!Blocks)
         /\ winQueue \in Seq(Win!Blocks) /\ winWriting \in Seq(Win!Blocks)
         /\ Len(winAccepted) \in Nat /\ Len(winWritten) \in Nat
         /\ Len(winQueue) \in Nat /\ Len(winWriting) \in Nat
         /\ Len(winQueue) <= CopyCapacity /\ CopyCapacity \in Nat \ {0}
         /\ Len(winWriting) = IF winPc \in {"fetched", "write"} THEN 1 ELSE 0
         /\ MaxBlocks \in Nat
  BY QueuesAssumption, MaxBlocksAssumption DEF WinInv, Win!TypeOK

LEMMA WinInit == Win!Init => WinInv
<1> SUFFICES ASSUME Win!Init PROVE WinInv
  OBVIOUS
<1>1. Len(<<>>) = 0 /\ <<>> \in Seq(Win!Blocks)
  BY EmptySeq
<1>2. Win!TypeOK
  <2>1. /\ winState = "NotStarted" /\ winStop = FALSE /\ winPc = "none"
        /\ winWriting = <<>> /\ winQueue = <<>> /\ winSender = "none"
        /\ winSendStopped = FALSE /\ winOwner = "idle" /\ winAccepted = <<>>
        /\ winWritten = <<>> /\ winMissed = FALSE
    BY DEF Win!Init
  <2>2. winStop \in BOOLEAN /\ winSendStopped \in BOOLEAN /\ winMissed \in BOOLEAN
    BY <2>1
  <2>3. Len(winQueue) <= CopyCapacity /\ Len(winWriting) = 0
    BY <1>1, <2>1, QueuesAssumption
  <2> QED BY <1>1, <2>1, <2>2, <2>3 DEF Win!TypeOK
<1>3. WinActors
  BY DEF Win!Init, WinActors
<1>4. WinNumbers
  BY <1>1 DEF Win!Init, WinNumbers
<1> QED BY <1>2, <1>3, <1>4 DEF WinInv

\* A step that moves no block, and may end the worker or wake it, keeps the
\* numbers.
LEMMA WinNoBlockMoves ==
  ASSUME WinInv, winQueue' = winQueue, winAccepted' = winAccepted,
         winWritten' = winWritten, winWriting' = winWriting,
         winPc' = winPc \/ winPc' \in {"none", "exited"} \/ winPc \notin {"none", "exited"}
  PROVE  WinNumbers'
  BY DEF WinInv, WinNumbers

LEMMA WinQueueBlock == WinInv /\ Win!QueueBlock => WinInv'
<1> SUFFICES ASSUME WinInv, Win!QueueBlock PROVE WinInv'
  OBVIOUS
<1>1. /\ winSender = "send" /\ winSender' = "queued" /\ Len(winQueue) < CopyCapacity
      /\ winQueue' = Append(winQueue, Len(winAccepted) + 1)
      /\ winAccepted' = Append(winAccepted, Len(winAccepted) + 1)
      /\ winWritten' = winWritten /\ winPc' = winPc /\ winWriting' = winWriting
      /\ winMissed' = winMissed /\ winState' = winState /\ winStop' = winStop
      /\ winSendStopped' = winSendStopped /\ winOwner' = winOwner
  BY DEF Win!QueueBlock, Win!workerVars, Win!ownerVars
<1>2. PICK a \in Nat, q \in Nat, h \in Nat, w \in Nat, b \in Win!Blocks :
        /\ a = Len(winAccepted) /\ q = Len(winQueue) /\ h = Len(winWriting)
        /\ w = Len(winWritten) /\ b = a + 1
  BY <1>1, WinFacts DEF WinInv, WinActors
<1>3. /\ winQueue' \in Seq(Win!Blocks) /\ Len(winQueue') = q + 1
      /\ winQueue'[q + 1] = b /\ \A i \in 1 .. q : winQueue'[i] = winQueue[i]
      /\ winAccepted' \in Seq(Win!Blocks) /\ Len(winAccepted') = a + 1
      /\ winAccepted'[a + 1] = b /\ \A i \in 1 .. a : winAccepted'[i] = winAccepted[i]
  BY <1>1, <1>2, WinFacts, AppendProperties
<1>4. Win!TypeOK'
  <2>1. q + 1 <= CopyCapacity
    BY <1>1, <1>2, WinFacts
  <2> QED BY <1>1, <1>3, <2>1 DEF WinInv, Win!TypeOK
<1>5. WinActors'
  BY <1>1 DEF WinInv, WinActors
<1>6. WinNumbers'
  <2>1. ASSUME NEW i \in 1 .. (a + 1) PROVE winAccepted'[i] = i
    <3>1. CASE i = a + 1
      BY <1>2, <1>3, <3>1
    <3>2. CASE i # a + 1
      <4>1. i \in 1 .. a
        BY <3>2
      <4> QED BY <1>2, <1>3, <4>1 DEF WinInv, WinNumbers
    <3> QED BY <3>1, <3>2
  <2>2. ASSUME NEW i \in 1 .. (q + 1) PROVE winQueue'[i] = (a + 1) - (q + 1) + i
    <3>1. CASE i = q + 1
      <4>1. (a + 1) - (q + 1) + i = b
        BY <1>2, <3>1
      <4> QED BY <1>3, <3>1, <4>1
    <3>2. CASE i # q + 1
      <4>1. i \in 1 .. q /\ (a + 1) - (q + 1) + i = a - q + i
        BY <3>2
      <4>2. winQueue[i] = a - q + i
        BY <1>2, <4>1 DEF WinInv, WinNumbers
      <4> QED BY <1>3, <4>1, <4>2
    <3> QED BY <3>1, <3>2
  <2>3. \A i \in 1 .. h : winWriting'[i] = (a + 1) - (q + 1)
    <3>1. \A i \in 1 .. h : winWriting[i] = a - q
      BY <1>2 DEF WinInv, WinNumbers
    <3>2. (a + 1) - (q + 1) = a - q
      OBVIOUS
    <3> QED BY <1>1, <3>1, <3>2
  <2>4. /\ w + h + (q + 1) <= a + 1
        /\ winPc' \notin {"none", "exited"} => w + h + (q + 1) = a + 1
    <3>1. w + h + q <= a /\ (winPc' \notin {"none", "exited"} => w + h + q = a)
      BY <1>1, <1>2 DEF WinInv, WinNumbers
    <3> QED BY <3>1
  <2>5. \A i \in 1 .. w : winWritten'[i] = i
    BY <1>1, <1>2 DEF WinInv, WinNumbers
  <2>6. /\ Len(winAccepted') = a + 1 /\ Len(winQueue') = q + 1
        /\ Len(winWriting') = h /\ Len(winWritten') = w
    BY <1>1, <1>2, <1>3
  <2> QED BY <2>1, <2>2, <2>3, <2>4, <2>5, <2>6 DEF WinNumbers
<1> QED BY <1>4, <1>5, <1>6 DEF WinInv

LEMMA WinFetchBlock == WinInv /\ Win!FetchBlock => WinInv'
<1> SUFFICES ASSUME WinInv, Win!FetchBlock PROVE WinInv'
  OBVIOUS
<1>1. /\ winPc = "loop" /\ winPc' = "fetched" /\ winQueue # <<>>
      /\ winWriting' = <<Head(winQueue)>> /\ winQueue' = Tail(winQueue)
      /\ winMissed' = FALSE /\ winAccepted' = winAccepted /\ winWritten' = winWritten
      /\ winState' = winState /\ winStop' = winStop
      /\ winSendStopped' = winSendStopped /\ winOwner' = winOwner /\ winSender' = winSender
  BY DEF Win!FetchBlock, Win!WorkerGoes, Win!historyVars, Win!ownerVars
<1>2. PICK a \in Nat, q \in Nat, w \in Nat, r \in Nat :
        /\ a = Len(winAccepted) /\ q = Len(winQueue) /\ w = Len(winWritten)
        /\ q = r + 1
  <2>1. Len(winQueue) \in Nat /\ Len(winQueue) # 0
    BY <1>1, WinFacts, EmptySeq
  <2>2. Len(winQueue) - 1 \in Nat /\ Len(winQueue) = (Len(winQueue) - 1) + 1
    BY <2>1
  <2> QED BY <2>2, WinFacts
<1>3. /\ winQueue' \in Seq(Win!Blocks) /\ Len(winQueue') = r
      /\ \A i \in 1 .. r : winQueue'[i] = winQueue[i + 1]
      /\ Head(winQueue) = winQueue[1] /\ Head(winQueue) \in Win!Blocks
  <2>1. /\ Len(Tail(winQueue)) = r /\ Tail(winQueue) \in Seq(Win!Blocks)
        /\ \A i \in 1 .. Len(Tail(winQueue)) : Tail(winQueue)[i] = winQueue[i + 1]
    <3>1. /\ Len(Tail(winQueue)) = Len(winQueue) - 1 /\ Tail(winQueue) \in Seq(Win!Blocks)
          /\ \A i \in 1 .. Len(Tail(winQueue)) : Tail(winQueue)[i] = winQueue[i + 1]
      BY <1>1, WinFacts, HeadTailProperties
    <3>2. Len(winQueue) - 1 = r
      BY <1>2
    <3> QED BY <3>1, <3>2
  <2>2. Head(winQueue) = winQueue[1] /\ Head(winQueue) \in Win!Blocks
    BY <1>1, WinFacts, HeadTailProperties
  <2> QED BY <1>1, <2>1, <2>2
<1>4. /\ winWriting' \in Seq(Win!Blocks) /\ Len(winWriting') = 1
      /\ winWriting'[1] = winQueue[1]
  BY <1>1, <1>3
<1>5. Win!TypeOK'
  <2>1. r <= CopyCapacity
    BY <1>2, WinFacts
  <2> QED BY <1>1, <1>3, <1>4, <2>1 DEF WinInv, Win!TypeOK
<1>6. WinActors'
  BY <1>1 DEF WinInv, WinActors
<1>7. WinNumbers'
  <2>1. w + q = a
    <3>1. Len(winWriting) = 0
      BY <1>1, WinFacts
    <3>2. w + 0 + q = a
      BY <1>1, <1>2, <3>1 DEF WinInv, WinNumbers
    <3> QED BY <3>2
  <2>2. \A i \in 1 .. q : winQueue[i] = a - q + i
    BY <1>2 DEF WinInv, WinNumbers
  <2>3. ASSUME NEW i \in 1 .. r PROVE winQueue'[i] = a - r + i
    <3>1. i + 1 \in 1 .. q /\ a - q + (i + 1) = a - r + i
      BY <1>2
    <3> QED BY <1>3, <2>2, <3>1
  <2>4. winWriting'[1] = a - r
    <3>1. 1 \in 1 .. q /\ a - q + 1 = a - r
      BY <1>2
    <3> QED BY <1>4, <2>2, <3>1
  <2>5. w + 1 + r = a
    BY <1>2, <2>1
  <2>6. /\ \A i \in 1 .. a : winAccepted'[i] = i
        /\ \A i \in 1 .. w : winWritten'[i] = i
    BY <1>1, <1>2 DEF WinInv, WinNumbers
  <2>7. /\ Len(winAccepted') = a /\ Len(winQueue') = r
        /\ Len(winWriting') = 1 /\ Len(winWritten') = w
    BY <1>1, <1>2, <1>3, <1>4
  <2>8. \A i \in 1 .. 1 : winWriting'[i] = a - r
    BY <2>4
  <2> QED BY <2>3, <2>5, <2>6, <2>7, <2>8 DEF WinNumbers
<1> QED BY <1>5, <1>6, <1>7 DEF WinInv

LEMMA WinWriteSucceeds == WinInv /\ Win!WriteSucceeds => WinInv'
<1> SUFFICES ASSUME WinInv, Win!WriteSucceeds PROVE WinInv'
  OBVIOUS
<1>1. /\ winPc = "write" /\ winPc' = "loop"
      /\ winWritten' = winWritten \o winWriting /\ winWriting' = <<>>
      /\ winQueue' = winQueue /\ winAccepted' = winAccepted /\ winMissed' = winMissed
      /\ winState' = winState /\ winStop' = winStop
      /\ winSendStopped' = winSendStopped /\ winOwner' = winOwner /\ winSender' = winSender
  BY DEF Win!WriteSucceeds, Win!WorkerGoes, Win!ownerVars
<1>2. PICK a \in Nat, q \in Nat, w \in Nat :
        a = Len(winAccepted) /\ q = Len(winQueue) /\ w = Len(winWritten)
  BY WinFacts
<1>3. Len(winWriting) = 1 /\ 1 \in 1 .. Len(winWriting)
  <2>1. Len(winWriting) = 1
    BY <1>1, WinFacts
  <2> QED BY <2>1
<1>4. w + 1 + q = a /\ winWriting[1] = a - q
  BY <1>1, <1>2, <1>3 DEF WinInv, WinNumbers
<1>5. winWriting[1] = w + 1
  BY <1>4
<1>6. /\ winWritten' \in Seq(Win!Blocks) /\ Len(winWritten') = w + 1
      /\ \A i \in 1 .. (w + 1) :
           winWritten'[i] = IF i <= w THEN winWritten[i] ELSE winWriting[i - w]
  <2>1. winWritten \in Seq(Win!Blocks) /\ winWriting \in Seq(Win!Blocks)
    BY WinFacts
  <2>2. /\ winWritten' \in Seq(Win!Blocks)
        /\ Len(winWritten') = Len(winWritten) + Len(winWriting)
        /\ \A i \in 1 .. Len(winWritten) + Len(winWriting) :
             winWritten'[i] = IF i <= Len(winWritten) THEN winWritten[i]
                              ELSE winWriting[i - Len(winWritten)]
    BY <1>1, <2>1, ConcatProperties
  <2>3. Len(winWritten) + Len(winWriting) = w + 1
    BY <1>2, <1>3
  <2> QED BY <1>2, <2>2, <2>3
<1>7. Win!TypeOK'
  <2>1. <<>> \in Seq(Win!Blocks) /\ Len(<<>>) = 0
    BY EmptySeq
  <2> QED BY <1>1, <1>6, <2>1 DEF WinInv, Win!TypeOK
<1>8. WinActors'
  BY <1>1 DEF WinInv, WinActors
<1>9. WinNumbers'
  <2>1. ASSUME NEW i \in 1 .. (w + 1) PROVE winWritten'[i] = i
    <3>1. CASE i <= w
      <4>1. i \in 1 .. w
        BY <3>1
      <4>2. winWritten[i] = i
        BY <1>2, <4>1 DEF WinInv, WinNumbers
      <4> QED BY <1>6, <3>1, <4>2
    <3>2. CASE ~(i <= w)
      <4>1. i = w + 1 /\ i - w = 1
        BY <3>2
      <4> QED BY <1>5, <1>6, <3>2, <4>1
    <3> QED BY <3>1, <3>2
  <2>2. /\ \A i \in 1 .. a : winAccepted'[i] = i
        /\ \A i \in 1 .. q : winQueue'[i] = a - q + i
    BY <1>1, <1>2 DEF WinInv, WinNumbers
  <2>3. Len(winWriting') = 0 /\ (w + 1) + 0 + q = a
    BY <1>1, <1>4, EmptySeq
  <2>4. Len(winAccepted') = a /\ Len(winQueue') = q
    BY <1>1, <1>2
  <2> QED BY <1>6, <2>1, <2>2, <2>3, <2>4 DEF WinNumbers
<1> QED BY <1>7, <1>8, <1>9 DEF WinInv

\* A failed or cancelled write ends the worker and loses the block in its hands.
LEMMA WinLosesBlock ==
  ASSUME WinInv, winPc = "write", winPc' = "exited", winWriting' = <<>>,
         winQueue' = winQueue, winAccepted' = winAccepted, winWritten' = winWritten
  PROVE  WinNumbers'
<1>1. PICK a \in Nat, q \in Nat, w \in Nat :
        a = Len(winAccepted) /\ q = Len(winQueue) /\ w = Len(winWritten)
  BY WinFacts
<1>2. w + 1 + q <= a
  <2>1. Len(winWriting) = 1
    BY WinFacts
  <2> QED BY <1>1, <2>1 DEF WinInv, WinNumbers
<1>3. Len(winWriting') = 0 /\ w + 0 + q <= a
  BY <1>2, EmptySeq
<1> QED BY <1>1, <1>3 DEF WinInv, WinNumbers
LEMMA WinQuietSender ==
  WinInv /\ (Win!TakeBlock \/ Win!NotifyWorker \/ Win!GiveUp) => WinInv'
<1> SUFFICES ASSUME WinInv, Win!TakeBlock \/ Win!NotifyWorker \/ Win!GiveUp
             PROVE  WinInv'
  OBVIOUS
<1> USE DEF Win!TakeBlock, Win!NotifyWorker, Win!GiveUp, Win!Awake, Win!historyVars,
            Win!workerVars, Win!ownerVars
<1>1. /\ winQueue' = winQueue /\ winAccepted' = winAccepted
      /\ winWritten' = winWritten /\ winWriting' = winWriting
      /\ winState' = winState /\ winStop' = winStop
      /\ winSendStopped' = winSendStopped /\ winOwner' = winOwner
  OBVIOUS
<1>2. /\ winPc' = winPc \/ (winPc = "asleep" /\ winPc' = "loop")
      /\ winMissed' \in BOOLEAN
  BY DEF WinInv, Win!TypeOK
<1>3. winSender' \in {"idle", "send"}
  OBVIOUS
<1>4. Win!TypeOK'
  BY <1>1, <1>2, <1>3 DEF WinInv, Win!TypeOK
<1>5. WinActors'
  BY <1>1, <1>2 DEF WinInv, WinActors
<1>6. WinNumbers'
  BY <1>1, <1>2, WinNoBlockMoves
<1> QED BY <1>4, <1>5, <1>6 DEF WinInv

LEMMA WinQuietWorker ==
  WinInv /\ (Win!WorkerExits \/ Win!WaitForData \/ Win!BeginWrite) => WinInv'
<1> SUFFICES ASSUME WinInv, Win!WorkerExits \/ Win!WaitForData \/ Win!BeginWrite
             PROVE  WinInv'
  OBVIOUS
<1> USE DEF Win!WorkerExits, Win!WaitForData, Win!BeginWrite, Win!WorkerGoes,
            Win!historyVars, Win!ownerVars
<1>1. /\ winQueue' = winQueue /\ winAccepted' = winAccepted
      /\ winWritten' = winWritten /\ winWriting' = winWriting
      /\ winState' = winState /\ winStop' = winStop /\ winMissed' = winMissed
      /\ winSendStopped' = winSendStopped /\ winOwner' = winOwner /\ winSender' = winSender
  OBVIOUS
<1>2. \/ winPc = "loop" /\ winPc' \in {"exited", "checked"}
      \/ winPc = "checked" /\ winPc' = "asleep"
      \/ winPc = "fetched" /\ winPc' = "write"
  OBVIOUS
<1>3. Win!TypeOK'
  BY <1>1, <1>2 DEF WinInv, Win!TypeOK
<1>4. WinActors'
  BY <1>1, <1>2 DEF WinInv, WinActors
<1>5. WinNumbers'
  BY <1>1, <1>2, WinNoBlockMoves
<1> QED BY <1>3, <1>4, <1>5 DEF WinInv

LEMMA WinWriteFails == WinInv /\ Win!WriteFails => WinInv'
<1> SUFFICES ASSUME WinInv, Win!WriteFails PROVE WinInv'
  OBVIOUS
<1>1. /\ winPc = "write" /\ winPc' = "exited" /\ winWriting' = <<>>
      /\ winQueue' = winQueue /\ winAccepted' = winAccepted /\ winMissed' = winMissed
      /\ winState' = winState /\ winStop' = winStop /\ winWritten' = winWritten
      /\ winSendStopped' = winSendStopped /\ winOwner' = winOwner /\ winSender' = winSender
  BY DEF Win!WriteFails, Win!WorkerGoes, Win!historyVars, Win!ownerVars
<1>2. Win!TypeOK'
  <2>1. <<>> \in Seq(Win!Blocks) /\ Len(<<>>) = 0
    BY EmptySeq
  <2> QED BY <1>1, <2>1 DEF WinInv, Win!TypeOK
<1>3. WinActors'
  BY <1>1 DEF WinInv, WinActors
<1>4. WinNumbers'
  BY <1>1, WinLosesBlock
<1> QED BY <1>2, <1>3, <1>4 DEF WinInv

\* A new session starts from nothing; the worker of the last has gone.
LEMMA WinStart == WinInv /\ Win!StartTransfer => WinInv'
<1> SUFFICES ASSUME WinInv, Win!StartTransfer PROVE WinInv'
  OBVIOUS
<1>1. /\ winPc = "none" /\ winOwner' = "running" /\ winState' = "Running"
      /\ winStop' = FALSE /\ winSendStopped' = FALSE /\ winPc' = "loop"
      /\ winSender' = "idle" /\ winQueue' = <<>> /\ winAccepted' = <<>>
      /\ winWritten' = <<>> /\ winMissed' = FALSE /\ winWriting' = winWriting
  BY DEF Win!StartTransfer, Win!OwnerGoes, WinInv, WinActors
<1>2. /\ <<>> \in Seq(Win!Blocks) /\ Len(<<>>) = 0
      /\ winWriting' \in Seq(Win!Blocks) /\ Len(winWriting') = 0
  BY <1>1, EmptySeq, WinFacts
<1>3. winStop' \in BOOLEAN /\ winSendStopped' \in BOOLEAN /\ winMissed' \in BOOLEAN
  BY <1>1
<1>4. Win!TypeOK'
  BY <1>1, <1>2, <1>3, WinFacts DEF Win!TypeOK
<1>5. WinActors'
  BY <1>1 DEF WinActors
<1>6. WinNumbers'
  BY <1>1, <1>2 DEF WinNumbers
<1> QED BY <1>4, <1>5, <1>6 DEF WinInv

LEMMA WinQuietOwner ==
  WinInv /\ (Win!StopTransfer \/ Win!JoinInput \/ Win!RaiseStop \/ Win!NotifyStop
               \/ Win!JoinWorker) => WinInv'
<1> SUFFICES ASSUME WinInv,
                    Win!StopTransfer \/ Win!JoinInput \/ Win!RaiseStop \/ Win!NotifyStop
                      \/ Win!JoinWorker
             PROVE  WinInv'
  OBVIOUS
<1> USE DEF Win!StopTransfer, Win!JoinInput, Win!RaiseStop, Win!NotifyStop,
            Win!JoinWorker, Win!OwnerGoes, Win!WorkerGoes, Win!Awake, Win!historyVars,
            Win!workerVars
<1>1. /\ winQueue' = winQueue /\ winAccepted' = winAccepted
      /\ winWritten' = winWritten /\ winWriting' = winWriting /\ winMissed' = winMissed
  OBVIOUS
<1>2. \/ winPc' = winPc /\ winOwner' # "idle"
      \/ winPc = "asleep" /\ winPc' = "loop" /\ winOwner' # "idle"
      \/ winPc = "exited" /\ winPc' = "none"
  OBVIOUS
<1>3. /\ winState' \in {"NotStarted", "Running", "Stopping", "Stopped"}
      /\ winStop' \in BOOLEAN /\ winSendStopped' \in BOOLEAN
  BY DEF WinInv, Win!TypeOK
<1>4. /\ winSender' = winSender \/ winSender' = "none"
      /\ winOwner' \in {"idle", "joinInput", "raise", "cancel", "join"}
  OBVIOUS
<1>5. Win!TypeOK'
  BY <1>1, <1>2, <1>3, <1>4 DEF WinInv, Win!TypeOK
<1>6. WinActors'
  BY <1>1, <1>2, <1>4 DEF WinInv, WinActors
<1>7. WinNumbers'
  BY <1>1, <1>2, WinNoBlockMoves
<1> QED BY <1>5, <1>6, <1>7 DEF WinInv

\* Stop cancels the write, if there is one.
LEMMA WinCancelWrite == WinInv /\ Win!CancelWrite => WinInv'
<1> SUFFICES ASSUME WinInv, Win!CancelWrite PROVE WinInv'
  OBVIOUS
<1>1. /\ winOwner = "cancel" /\ winOwner' = "notify"
      /\ winQueue' = winQueue /\ winAccepted' = winAccepted /\ winMissed' = winMissed
      /\ winState' = winState /\ winStop' = winStop /\ winWritten' = winWritten
      /\ winSendStopped' = winSendStopped /\ winSender' = winSender
  BY DEF Win!CancelWrite, Win!OwnerGoes, Win!historyVars
<1>2. \/ winPc = "write" /\ winPc' = "exited" /\ winWriting' = <<>>
      \/ winPc' = winPc /\ winWriting' = winWriting
  BY DEF Win!CancelWrite, Win!WorkerGoes
<1>3. <<>> \in Seq(Win!Blocks) /\ Len(<<>>) = 0
  BY EmptySeq
<1>4. Win!TypeOK'
  <2>1. CASE winPc = "write" /\ winPc' = "exited" /\ winWriting' = <<>>
    BY <1>1, <1>3, <2>1 DEF WinInv, Win!TypeOK
  <2>2. CASE winPc' = winPc /\ winWriting' = winWriting
    BY <1>1, <2>2 DEF WinInv, Win!TypeOK
  <2> QED BY <1>2, <2>1, <2>2
<1>5. WinActors'
  BY <1>1 DEF WinInv, WinActors
<1>6. WinNumbers'
  BY <1>1, <1>2, WinLosesBlock, WinNoBlockMoves
<1> QED BY <1>4, <1>5, <1>6 DEF WinInv

LEMMA WinStep ==
  [PartsNext]_<<exercised, channelVars, winVars, vars, memoryVars, sizingVars>> /\ WinInv
    => WinInv'
<1>1. PartsNext => Win!Next \/ UNCHANGED winVars
  BY DEF PartsNext, Linux, Windows, Descriptors, CopiedBytes, Sizes
<1>2. WinInv /\ UNCHANGED winVars => WinInv'
  <2> SUFFICES ASSUME WinInv, UNCHANGED winVars PROVE WinInv'
    OBVIOUS
  <2>1. /\ winQueue' = winQueue /\ winAccepted' = winAccepted /\ winMissed' = winMissed
        /\ winState' = winState /\ winStop' = winStop /\ winWritten' = winWritten
        /\ winSendStopped' = winSendStopped /\ winOwner' = winOwner
        /\ winSender' = winSender /\ winPc' = winPc /\ winWriting' = winWriting
    BY DEF winVars
  <2>2. Win!TypeOK'
    BY <2>1 DEF WinInv, Win!TypeOK
  <2>3. WinActors'
    BY <2>1 DEF WinInv, WinActors
  <2>4. WinNumbers'
    BY <2>1, WinNoBlockMoves
  <2> QED BY <2>2, <2>3, <2>4 DEF WinInv
<1>3. WinInv /\ Win!Next => WinInv'
  BY WinQueueBlock, WinQuietSender, WinFetchBlock, WinWriteSucceeds, WinWriteFails,
     WinQuietWorker, WinStart, WinQuietOwner, WinCancelWrite
     DEF Win!Next, Win!Sender, Win!Worker, Win!Stopping
<1> QED BY <1>1, <1>2, <1>3

\* What is written is the beginning of what was accepted.
LEMMA WinIsInOrder == WinInv => Win!InOrder
<1> SUFFICES ASSUME WinInv PROVE Win!InOrder
  OBVIOUS
<1>1. PICK a \in Nat, w \in Nat, h \in Nat, q \in Nat :
        /\ a = Len(winAccepted) /\ w = Len(winWritten)
        /\ h = Len(winWriting) /\ q = Len(winQueue)
  BY WinFacts
<1>2. /\ winAccepted \in Seq(Win!Blocks) /\ winWritten \in Seq(Win!Blocks)
      /\ \A i \in 1 .. a : winAccepted[i] = i
      /\ \A i \in 1 .. w : winWritten[i] = i
      /\ w + h + q <= a
  BY <1>1, WinFacts DEF WinInv, WinNumbers
<1>3. w <= a
  BY <1>2
<1>4. SubSeq(winWritten, 1, w) = SubSeq(winAccepted, 1, w)
  <2>1. /\ SubSeq(winWritten, 1, w) \in Seq(Win!Blocks) /\ Len(SubSeq(winWritten, 1, w)) = w
        /\ \A i \in 1 .. w : SubSeq(winWritten, 1, w)[i] = winWritten[i]
    BY <1>1, <1>2
  <2>2. /\ SubSeq(winAccepted, 1, w) \in Seq(Win!Blocks)
        /\ Len(SubSeq(winAccepted, 1, w)) = w
        /\ \A i \in 1 .. w : SubSeq(winAccepted, 1, w)[i] = winAccepted[i]
    BY <1>1, <1>2, <1>3
  <2>3. \A i \in 1 .. w : winWritten[i] = winAccepted[i]
    BY <1>2, <1>3
  <2> QED BY <2>1, <2>2, <2>3, SeqEqual
<1>5. IsPrefix(winWritten, winAccepted)
  BY <1>1, <1>3, <1>4 DEF IsPrefix
<1> QED BY <1>1, <1>2, <1>5 DEF Win!InOrder, Win!IsPrefix, IsPrefix

\* The device gets from the Windows channel the first blocks that Send accepted in
\* this session, in order, each once, whatever write fails, is cancelled or waits
\* for a notification that was missed.
THEOREM WindowsKeepsOrder == PartsSpec => [](Win!TypeOK /\ Win!InOrder)
<1>1. PartsInit => WinInv
  BY WinInit DEF PartsInit
<1>2. WinInv => Win!TypeOK /\ Win!InOrder
  BY WinIsInOrder DEF WinInv
<1> QED BY <1>1, <1>2, WinStep, PTL DEF PartsSpec

-----------------------------------------------------------------------------
(* Induction, powers of two and bits, for the sizing of the copy queue.    *)

\* The order of the naturals as a set of pairs.
LEMMA LessThanPairs == \A m, n \in Nat : m < n => <<m, n>> \in OpToRel(<, Nat)
  BY ZenonT(20) DEF OpToRel

\* Induction over the naturals.  The induction theorems of the library take the
\* predicate as an operator; here it is a set, and what is used is that the order
\* is well founded: a least number outside the set has a predecessor inside.
LEMMA NatSetInduction ==
  ASSUME NEW T, 0 \in T, \A n \in Nat : n \in T => n + 1 \in T
  PROVE  \A n \in Nat : n \in T
<1> DEFINE Miss == Nat \ T
<1> SUFFICES ASSUME Miss # {} PROVE FALSE
  OBVIOUS
<1>1. PICK x \in Miss : \A y \in Miss : ~(<<y, x>> \in OpToRel(<, Nat))
  BY NatLessThanWellFounded, WFMin, Zenon
<1>2. x - 1 \in Miss /\ x - 1 < x /\ x \in Nat
  <2>1. x \in Nat /\ x # 0 /\ x \notin T
    OBVIOUS
  <2>2. x - 1 \in Nat /\ (x - 1) + 1 = x
    BY <2>1
  <2> QED BY <2>1, <2>2
<1> QED BY <1>1, <1>2, LessThanPairs

\* A power of two counts subsets, and a further element doubles their number: the
\* old ones, and the old ones with the element.
LEMMA PowerDoubles ==
  \A n \in Nat : /\ 2^n \in Nat /\ 2^n >= 1
                 /\ 2^(n + 1) = 2 * 2^n
<1> SUFFICES ASSUME NEW n \in Nat PROVE 2^n \in Nat /\ 2^n >= 1 /\ 2^(n + 1) = 2 * 2^n
  OBVIOUS
<1> DEFINE A == SUBSET (1 .. n)
           B == {S \union {n + 1} : S \in A}
           f == [S \in A |-> S \union {n + 1}]
<1>1. IsFiniteSet(1 .. n) /\ Cardinality(1 .. n) = n
  BY FS_Interval
<1>2. IsFiniteSet(1 .. (n + 1)) /\ Cardinality(1 .. (n + 1)) = n + 1
  BY FS_Interval
<1>3. IsFiniteSet(A) /\ Cardinality(A) = 2^n
  BY <1>1, FS_SUBSET
<1>4. Cardinality(SUBSET (1 .. (n + 1))) = 2^(n + 1)
  BY <1>2, FS_SUBSET
<1>5. f \in Bijection(A, B)
  <2>1. f \in [A -> B]
    OBVIOUS
  <2>2. \A S, U \in A : f[S] = f[U] => S = U
    <3> SUFFICES ASSUME NEW S \in A, NEW U \in A, f[S] = f[U] PROVE S = U
      OBVIOUS
    <3>1. n + 1 \notin S /\ n + 1 \notin U
      OBVIOUS
    <3>2. S \union {n + 1} = U \union {n + 1}
      OBVIOUS
    <3> QED BY <3>1, <3>2
  <2>3. \A b \in B : \E S \in A : f[S] = b
    OBVIOUS
  <2> QED BY <2>1, <2>2, <2>3 DEF Bijection, Injection, Surjection, IsInjective
<1>6. IsFiniteSet(B) /\ Cardinality(B) = 2^n
  BY <1>3, <1>5, FS_Bijection DEF ExistsBijection
<1>7. SUBSET (1 .. (n + 1)) = A \union B
  <2>1. /\ \A S \in A : S \subseteq 1 .. (n + 1)
        /\ \A S \in A : S \union {n + 1} \subseteq 1 .. (n + 1)
    OBVIOUS
  <2>2. ASSUME NEW S \in SUBSET (1 .. (n + 1)), n + 1 \in S PROVE S \in B
    <3>1. S \ {n + 1} \in A
      OBVIOUS
    <3>2. S = (S \ {n + 1}) \union {n + 1}
      BY <2>2
    <3> QED BY <3>1, <3>2
  <2>3. ASSUME NEW S \in SUBSET (1 .. (n + 1)), n + 1 \notin S PROVE S \in A
    BY <2>3
  <2>4. SUBSET (1 .. (n + 1)) \subseteq A \union B
    BY <2>2, <2>3
  <2>5. A \subseteq SUBSET (1 .. (n + 1)) /\ B \subseteq SUBSET (1 .. (n + 1))
    BY <2>1, Zenon
  <2> HIDE DEF A, B
  <2> QED BY <2>4, <2>5, Zenon
<1>8. A \intersect B = {}
  OBVIOUS
<1>9. Cardinality(A \union B) = Cardinality(A) + Cardinality(B)
  <2>1. Cardinality(A \union B) = Cardinality(A) + Cardinality(B) - Cardinality(A \intersect B)
    BY <1>3, <1>6, FS_Union
  <2>2. Cardinality(A \intersect B) = 0
    BY <1>8, FS_EmptySet
  <2>3. Cardinality(A) \in Nat /\ Cardinality(B) \in Nat
    BY <1>3, <1>6, FS_CardinalityType
  <2> QED BY <2>1, <2>2, <2>3
<1>10. 2^n \in Nat /\ 2^n # 0
  <2>1. 2^n \in Nat
    BY <1>3, FS_CardinalityType
  <2>2. A # {}
    OBVIOUS
  <2> QED BY <1>3, <2>1, <2>2, FS_EmptySet
<1>11. 2^(n + 1) = 2^n + 2^n
  BY <1>3, <1>4, <1>6, <1>7, <1>9
<1> QED BY <1>10, <1>11

LEMMA PowerZero == 2^0 = 1
  OBVIOUS

LEMMA PowerPositive == \A n \in Nat : 2^n \in Nat \ {0}
  BY PowerDoubles

\* The powers of two increase.
LEMMA PowerIncreases ==
  ASSUME NEW m \in Nat, NEW n \in Nat, m <= n
  PROVE  2^m <= 2^n
<1> DEFINE T == {d \in Nat : 2^m <= 2^(m + d)}
<1>1. 0 \in T
  BY PowerPositive
<1>2. ASSUME NEW d \in Nat, d \in T PROVE d + 1 \in T
  <2>1. m + d \in Nat /\ m + (d + 1) = (m + d) + 1
    OBVIOUS
  <2>2. 2^m \in Nat /\ 2^(m + d) \in Nat /\ 2^((m + d) + 1) = 2 * 2^(m + d)
    BY <2>1, PowerDoubles
  <2> QED BY <1>2, <2>1, <2>2
<1>3. \A d \in Nat : d \in T
  <2> HIDE DEF T
  <2> QED BY <1>1, <1>2, NatSetInduction
<1>4. n - m \in Nat /\ m + (n - m) = n
  OBVIOUS
<1> QED BY <1>3, <1>4

\* Every word from 1 on has a top bit.
LEMMA TopPower ==
  ASSUME NEW n \in Nat, NEW v \in 1 .. (2^n - 1)
  PROVE  \E h \in 0 .. (n - 1) : 2^h <= v /\ v < 2^(h + 1)
<1> DEFINE Has(m, w) == \E h \in 0 .. (m - 1) : 2^h <= w /\ w < 2^(h + 1)
           T == {m \in Nat : \A w \in 1 .. (2^m - 1) : Has(m, w)}
<1>1. 0 \in T
  BY PowerZero
<1>2. ASSUME NEW m \in Nat, m \in T PROVE m + 1 \in T
  <2>1. 2^m \in Nat /\ m + 1 \in Nat /\ 2^(m + 1) \in Nat
    BY PowerPositive
  <2> SUFFICES ASSUME NEW w \in 1 .. (2^(m + 1) - 1) PROVE Has(m + 1, w)
    OBVIOUS
  <2>2. CASE w < 2^m
    <3>1. w \in 1 .. (2^m - 1)
      BY <2>1, <2>2
    <3>2. PICK h \in 0 .. (m - 1) : 2^h <= w /\ w < 2^(h + 1)
      BY <1>2, <3>1
    <3>3. h \in 0 .. ((m + 1) - 1)
      OBVIOUS
    <3> QED BY <3>2, <3>3
  <2>3. CASE 2^m <= w
    <3>1. m \in 0 .. ((m + 1) - 1) /\ w < 2^(m + 1)
      BY <2>1
    <3> QED BY <2>3, <3>1
  <2> QED BY <2>1, <2>2, <2>3
<1>3. \A m \in Nat : m \in T
  <2> HIDE DEF T
  <2> QED BY <1>1, <1>2, NatSetInduction
<1> QED BY <1>3

\* The quotient is the number that brackets v.
LEMMA QuotientIs ==
  ASSUME NEW v \in Nat, NEW p \in Nat \ {0}, NEW q \in Nat,
         q * p <= v, v < q * p + p
  PROVE  v \div p = q
  OBVIOUS

LEMMA QuotientBounds ==
  ASSUME NEW v \in Nat, NEW p \in Nat \ {0}
  PROVE  /\ v \div p \in Nat
         /\ (v \div p) * p <= v /\ v < (v \div p) * p + p
  OBVIOUS

\* Dividing by two first.
LEMMA HalfFirst ==
  ASSUME NEW v \in Nat, NEW p \in Nat \ {0}
  PROVE  v \div (2 * p) = (v \div 2) \div p
<1> DEFINE u == v \div 2
           q == u \div p
<1>1. u \in Nat /\ 2 * u <= v /\ v < 2 * u + 2
  OBVIOUS
<1>2. q \in Nat /\ q * p <= u /\ u < q * p + p
  BY <1>1, QuotientBounds
<1>3. 2 * p \in Nat \ {0} /\ q * (2 * p) = 2 * (q * p) /\ q * p \in Nat
  BY <1>2
<1>4. q * (2 * p) <= v /\ v < q * (2 * p) + 2 * p
  <2> HIDE DEF u, q
  <2> QED BY <1>1, <1>2, <1>3
<1> QED BY <1>2, <1>3, <1>4, QuotientIs

\* The bits of a word are its lowest one and those of its half.
LEMMA BitZero == \A v \in Nat : Bit(v, 0) = v % 2
  BY PowerZero DEF Bit

LEMMA BitNext ==
  ASSUME NEW v \in Nat, NEW k \in Nat
  PROVE  Bit(v, k + 1) = Bit(v \div 2, k)
<1>1. 2^k \in Nat \ {0} /\ 2^(k + 1) = 2 * 2^k
  BY PowerDoubles
<1> QED BY <1>1, HalfFirst DEF Bit

\* Two words of n bits with the same bits are the same.
LEMMA SameBits ==
  ASSUME NEW n \in Nat, NEW u \in 0 .. (2^n - 1), NEW v \in 0 .. (2^n - 1),
         \A k \in 0 .. (n - 1) : Bit(u, k) = Bit(v, k)
  PROVE  u = v
<1> DEFINE Same(m, a, b) == (\A k \in 0 .. (m - 1) : Bit(a, k) = Bit(b, k)) => a = b
           T == {m \in Nat : \A a, b \in 0 .. (2^m - 1) : Same(m, a, b)}
<1>1. 0 \in T
  BY PowerZero
<1>2. ASSUME NEW m \in Nat, m \in T PROVE m + 1 \in T
  <2> SUFFICES ASSUME NEW a \in 0 .. (2^(m + 1) - 1), NEW b \in 0 .. (2^(m + 1) - 1),
                      \A k \in 0 .. ((m + 1) - 1) : Bit(a, k) = Bit(b, k)
               PROVE  a = b
    OBVIOUS
  <2>1. 2^m \in Nat /\ 2^(m + 1) = 2 * 2^m
    BY PowerDoubles
  <2>2. /\ a \in Nat /\ b \in Nat
        /\ a \div 2 \in 0 .. (2^m - 1) /\ b \div 2 \in 0 .. (2^m - 1)
    BY <2>1
  <2>3. \A k \in 0 .. (m - 1) : Bit(a \div 2, k) = Bit(b \div 2, k)
    <3> TAKE k \in 0 .. (m - 1)
    <3>1. k \in Nat /\ k + 1 \in 0 .. ((m + 1) - 1)
      OBVIOUS
    <3> QED BY <2>2, <3>1, BitNext
  <2>4. a \div 2 = b \div 2
    BY <1>2, <2>2, <2>3
  <2>5. a % 2 = b % 2
    <3>1. 0 \in 0 .. ((m + 1) - 1)
      OBVIOUS
    <3> QED BY <2>2, <3>1, BitZero
  <2> QED BY <2>2, <2>4, <2>5
<1>3. \A m \in Nat : m \in T
  <2> HIDE DEF T
  <2> QED BY <1>1, <1>2, NatSetInduction
<1> QED BY <1>3

\* Below a power of two are all ones.
LEMMA LowOnes ==
  ASSUME NEW n \in Nat, NEW k \in 0 .. (n - 1)
  PROVE  Bit(2^n - 1, k) = 1
<1> DEFINE T == {m \in Nat : \A j \in 0 .. (m - 1) : Bit(2^m - 1, j) = 1}
<1>1. 0 \in T
  OBVIOUS
<1>2. ASSUME NEW m \in Nat, m \in T PROVE m + 1 \in T
  <2> SUFFICES ASSUME NEW j \in 0 .. ((m + 1) - 1) PROVE Bit(2^(m + 1) - 1, j) = 1
    OBVIOUS
  <2>1. 2^m \in Nat \ {0} /\ 2^(m + 1) = 2 * 2^m
    BY PowerDoubles
  <2>2. /\ 2^(m + 1) - 1 \in Nat
        /\ (2^(m + 1) - 1) \div 2 = 2^m - 1 /\ (2^(m + 1) - 1) % 2 = 1
    BY <2>1
  <2>3. CASE j = 0
    BY <2>2, <2>3, BitZero
  <2>4. CASE j # 0
    <3>1. j - 1 \in 0 .. (m - 1) /\ j - 1 \in Nat /\ (j - 1) + 1 = j
      BY <2>4
    <3>2. Bit(2^(m + 1) - 1, (j - 1) + 1) = Bit((2^(m + 1) - 1) \div 2, j - 1)
      BY <2>2, <3>1, BitNext
    <3> QED BY <1>2, <2>2, <3>1, <3>2
  <2> QED BY <2>3, <2>4
<1>3. \A m \in Nat : m \in T
  <2> HIDE DEF T
  <2> QED BY <1>1, <1>2, NatSetInduction
<1> QED BY <1>3

\* Above its top bit a word has zeros.
LEMMA HighZeros ==
  ASSUME NEW n \in Nat, NEW v \in 0 .. (2^n - 1), NEW k \in Nat, n <= k
  PROVE  Bit(v, k) = 0
<1>1. 2^n \in Nat /\ 2^k \in Nat \ {0} /\ 2^n <= 2^k
  BY PowerPositive, PowerIncreases
<1>2. v \in Nat /\ 0 * 2^k <= v /\ v < 0 * 2^k + 2^k
  BY <1>1
<1>3. v \div 2^k = 0
  BY <1>1, <1>2, QuotientIs
<1>4. 0 % 2 = 0
  OBVIOUS
<1> QED BY <1>3, <1>4, Zenon DEF Bit

\* A number between two powers has a one there.
LEMMA TopBit ==
  ASSUME NEW h \in Nat, NEW v \in Nat, 2^h <= v, v < 2^(h + 1)
  PROVE  Bit(v, h) = 1
<1>1. 2^h \in Nat \ {0} /\ 2^(h + 1) = 2 * 2^h
  BY PowerDoubles
<1>2. 1 * 2^h <= v /\ v < 1 * 2^h + 2^h
  BY <1>1
<1>3. v \div 2^h = 1
  BY <1>1, <1>2, QuotientIs
<1>4. 1 % 2 = 1
  OBVIOUS
<1> QED BY <1>3, <1>4, Zenon DEF Bit

-----------------------------------------------------------------------------
(* The bit tricks of Init.                                                 *)

\* The shifts are as many as the width has doublings.
LEMMA WidthIsPower ==
  /\ Width \in Nat \ {0} /\ Doublings \in Nat /\ Width = 2^Doublings
<1>1. Doublings \in 1 .. Width /\ Width = 2^Doublings
  BY WidthAssumption DEF Doublings
<1>2. Doublings \in Nat
  BY <1>1
<1> QED BY <1>1, <1>2, PowerPositive

\* The loop of shifts is well defined.
LEMMA SpreadDef ==
  ASSUME NEW v
  PROVE  \E f : /\ f[0] = Ones(v)
                /\ \A i \in 0 .. (Doublings - 1) :
                     f[i + 1] = f[i] \union ShiftedRight(f[i], 2^i)
                /\ Spread(v) = f[Doublings]
<1> DEFINE Step(g, i) == IF i = 0 THEN Ones(v)
                         ELSE g[i - 1] \union ShiftedRight(g[i - 1], 2^(i - 1))
           IsLoop(n, g) == g = [i \in 0 .. n |-> Step(g, i)]
           T == {n \in Nat : \E g : IsLoop(n, g)}
<1>1. 0 \in T
  <2> DEFINE g == [i \in 0 .. 0 |-> Ones(v)]
  <2>1. IsLoop(0, g)
    OBVIOUS
  <2> QED BY <2>1
<1>2. ASSUME NEW n \in Nat, n \in T PROVE n + 1 \in T
  <2>1. PICK g : IsLoop(n, g)
    BY <1>2
  <2> DEFINE h == [i \in 0 .. (n + 1) |-> IF i = n + 1 THEN Step(g, n + 1) ELSE g[i]]
  <2>2. ASSUME NEW i \in 0 .. (n + 1) PROVE h[i] = Step(h, i)
    <3>1. CASE i = n + 1
      <4>1. h[i] = Step(g, n + 1) /\ h[n] = g[n] /\ n + 1 # 0 /\ (n + 1) - 1 = n
        BY <3>1
      <4> QED BY <3>1, <4>1
    <3>2. CASE i = 0
      BY <2>1, <3>2
    <3>3. CASE i \in 1 .. n
      <4>1. h[i] = g[i] /\ h[i - 1] = g[i - 1] /\ i # 0 /\ i \in 0 .. n
        BY <3>3
      <4>2. g[i] = Step(g, i)
        BY <2>1, <4>1
      <4> QED BY <4>1, <4>2
    <3> QED BY <3>1, <3>2, <3>3
  <2>3. h = [i \in 0 .. (n + 1) |-> h[i]]
    OBVIOUS
  <2>4. IsLoop(n + 1, h)
    <3> HIDE DEF h
    <3> QED BY <2>2, <2>3
  <2> HIDE DEF h, IsLoop
  <2> QED BY <2>4
<1>3. Doublings \in T
  <2> HIDE DEF T
  <2> QED BY <1>1, <1>2, NatSetInduction, WidthIsPower
<1> DEFINE f == CHOOSE g : IsLoop(Doublings, g)
<1>4. IsLoop(Doublings, f)
  BY <1>3
<1>5. Spread(v) = f[Doublings]
  BY DEF Spread
<1>6. f[0] = Ones(v)
  <2> HIDE DEF f
  <2> QED BY <1>4, WidthIsPower
<1>7. ASSUME NEW i \in 0 .. (Doublings - 1)
      PROVE  f[i + 1] = f[i] \union ShiftedRight(f[i], 2^i)
  <2>1. i + 1 \in 0 .. Doublings /\ i + 1 # 0 /\ (i + 1) - 1 = i
    BY WidthIsPower
  <2>2. f[i + 1] = Step(f, i + 1)
    <3> HIDE DEF f
    <3> QED BY <1>4, <2>1
  <2> HIDE DEF f
  <2> QED BY <2>1, <2>2
<1> HIDE DEF f
<1> QED BY <1>5, <1>6, <1>7

\* After i shifts the top one has spread over the 2^i places from it down.
LEMMA SpreadFills ==
  ASSUME NEW v \in Nat, NEW h \in 0 .. (Width - 1), 2^h <= v, v < 2^(h + 1)
  PROVE  Spread(v) = 0 .. h
<1> DEFINE Lap(i) == {k \in 0 .. h : h < k + 2^i}
<1>1. PICK f : /\ f[0] = Ones(v)
               /\ \A i \in 0 .. (Doublings - 1) :
                    f[i + 1] = f[i] \union ShiftedRight(f[i], 2^i)
               /\ Spread(v) = f[Doublings]
  BY SpreadDef
<1> DEFINE T == {i \in Nat : i <= Doublings => Lap(i) \subseteq f[i] /\ f[i] \subseteq 0 .. h}
<1>2. 0 \in T
  <2>1. h \in Nat /\ h + 1 \in Nat /\ v \in 0 .. (2^(h + 1) - 1)
    BY PowerPositive
  <2>2. h \in Ones(v)
    BY <2>1, TopBit DEF Ones
  <2>3. Ones(v) \subseteq 0 .. h
    <3> SUFFICES ASSUME NEW k \in Ones(v), h < k PROVE FALSE
      BY <2>1, WidthIsPower DEF Ones
    <3>1. k \in Nat /\ h + 1 <= k /\ Bit(v, k) = 1
      BY <2>1 DEF Ones
    <3> QED BY <2>1, <3>1, HighZeros
  <2>4. Lap(0) \subseteq {h}
    BY PowerZero
  <2> QED BY <1>1, <2>2, <2>3, <2>4
<1>3. ASSUME NEW i \in Nat, i \in T PROVE i + 1 \in T
  <2> SUFFICES ASSUME i + 1 <= Doublings
               PROVE  Lap(i + 1) \subseteq f[i + 1] /\ f[i + 1] \subseteq 0 .. h
    OBVIOUS
  <2>1. /\ f[i + 1] = f[i] \union ShiftedRight(f[i], 2^i)
        /\ Lap(i) \subseteq f[i] /\ f[i] \subseteq 0 .. h
    BY <1>1, <1>3, WidthIsPower
  <2>2. 2^i \in Nat /\ 2^(i + 1) = 2 * 2^i
    BY PowerDoubles
  <2>3. f[i + 1] \subseteq 0 .. h
    BY <2>1, <2>2 DEF ShiftedRight
  <2>4. ASSUME NEW k \in Lap(i + 1), k \notin Lap(i) PROVE k \in ShiftedRight(f[i], 2^i)
    <3>1. k \in Nat /\ k + 2^i \in Lap(i)
      BY <2>2, <2>4
    <3>2. k + 2^i \in f[i] /\ k + 2^i >= 2^i /\ k = (k + 2^i) - 2^i
      BY <2>1, <2>2, <3>1
    <3> QED BY <3>2 DEF ShiftedRight
  <2> QED BY <2>1, <2>3, <2>4
<1>4. Lap(Doublings) \subseteq f[Doublings] /\ f[Doublings] \subseteq 0 .. h
  <2> HIDE DEF T
  <2>1. Doublings \in T
    BY <1>2, <1>3, NatSetInduction, WidthIsPower
  <2> QED BY <2>1, WidthIsPower DEF T
<1>5. 0 .. h \subseteq Lap(Doublings)
  BY WidthIsPower
<1> QED BY <1>1, <1>4, <1>5

\* A word is known from its ones.
LEMMA ValueOfOnes ==
  ASSUME NEW v \in Words
  PROVE  Value(Ones(v)) = v
<1>1. \A u \in Words : Ones(u) = Ones(v) => u = v
  <2> SUFFICES ASSUME NEW u \in Words, Ones(u) = Ones(v) PROVE u = v
    OBVIOUS
  <2>1. Width \in Nat /\ u \in Nat /\ v \in Nat
    BY WidthIsPower, PowerPositive DEF Words
  <2>2. ASSUME NEW k \in 0 .. (Width - 1) PROVE Bit(u, k) = Bit(v, k)
    <3>1. Bit(u, k) = 1 <=> Bit(v, k) = 1
      BY DEF Ones
    <3>2. 2^k \in Nat \ {0}
      BY <2>1, PowerPositive
    <3>3. u \div 2^k \in Nat /\ v \div 2^k \in Nat
      BY <2>1, <3>2, QuotientBounds
    <3>4. Bit(u, k) \in {0, 1} /\ Bit(v, k) \in {0, 1}
      BY <3>3 DEF Bit
    <3> QED BY <3>1, <3>4
  <2> QED BY <2>1, <2>2, SameBits DEF Words
<1> QED BY <1>1 DEF Value

\* The next power of two of a word with top bit h in what precedes it.
LEMMA NextPowerIs ==
  ASSUME NEW v \in Nat, NEW h \in 0 .. (Width - 1), 2^h <= v - 1, v - 1 < 2^(h + 1),
         h + 1 < Width
  PROVE  NextPowerOfTwo(v) = 2^(h + 1)
<1> DEFINE w == 2^(h + 1) - 1
<1>1. /\ Width \in Nat /\ h + 1 \in Nat /\ 2^(h + 1) \in Nat \ {0} /\ 2^h \in Nat
      /\ 2^(h + 1) <= 2^(Width - 1) /\ 2^(Width - 1) \in Nat \ {0}
      /\ 2^Width = 2 * 2^(Width - 1)
  <2>1. Width \in Nat /\ Width - 1 \in Nat /\ (Width - 1) + 1 = Width
    BY WidthIsPower
  <2>2. h \in Nat /\ h + 1 \in Nat /\ h + 1 <= Width - 1
    BY <2>1
  <2> QED BY <2>1, <2>2, PowerPositive, PowerDoubles, PowerIncreases
<1>2. v - 1 \in Nat /\ w \in Words /\ w \in Nat
  BY <1>1 DEF Words
<1>3. Ones(w) = 0 .. h
  <2>1. \A k \in 0 .. h : Bit(w, k) = 1 /\ k \in 0 .. (Width - 1)
    BY <1>1, LowOnes
  <2>2. ASSUME NEW k \in 0 .. (Width - 1), k \notin 0 .. h PROVE Bit(w, k) = 0
    <3>1. k \in Nat /\ h + 1 <= k /\ w \in 0 .. (2^(h + 1) - 1)
      BY <1>1, <1>2, <2>2
    <3> QED BY <1>1, <3>1, HighZeros
  <2> HIDE DEF w
  <2> QED BY <2>1, <2>2 DEF Ones
<1>4. Spread(v - 1) = 0 .. h
  BY <1>2, SpreadFills
<1>5. Value(Spread(v - 1)) = w
  BY <1>2, <1>3, <1>4, ValueOfOnes
<1>6. w + 1 = 2^(h + 1) /\ 2^(h + 1) % 2^Width = 2^(h + 1)
  BY <1>1
<1> QED BY <1>5, <1>6 DEF NextPowerOfTwo, Word

\* What Init takes for a power of two is one.
LEMMA RecognisedIsPower ==
  ASSUME NEW v \in 1 .. (2^Width - 1), IsPowerOfTwo(v)
  PROVE  \E k \in 0 .. (Width - 1) : v = 2^k
<1>1. Width \in Nat /\ v \in Nat /\ v - 1 \in Nat
  BY WidthIsPower, PowerPositive
<1>2. PICK h \in 0 .. (Width - 1) : 2^h <= v /\ v < 2^(h + 1)
  BY <1>1, TopPower
<1>3. h \in Nat /\ 2^h \in Nat /\ 2^(h + 1) \in Nat
  BY <1>1, <1>2, PowerPositive
<1>4. ASSUME v # 2^h PROVE FALSE
  <2>1. 2^h <= v - 1 /\ v - 1 < 2^(h + 1)
    BY <1>1, <1>2, <1>3, <1>4
  <2>2. h \in Ones(v) /\ h \in Ones(v - 1)
    BY <1>1, <1>2, <1>3, <2>1, TopBit DEF Ones
  <2> QED BY <2>2 DEF IsPowerOfTwo
<1> QED BY <1>4

\* One is a power of two, whose predecessor has no ones.
LEMMA OneIsRecognised == IsPowerOfTwo(1)
<1>1. Ones(0) = {}
  <2>1. \A k \in 0 .. (Width - 1) : 0 \in 0 .. (2^0 - 1) /\ k \in Nat
    BY PowerZero, WidthIsPower
  <2>2. ASSUME NEW k \in 0 .. (Width - 1) PROVE Bit(0, k) = 0
    <3>1. 0 \in Nat /\ 0 <= k
      OBVIOUS
    <3> QED BY <2>1, <3>1, HighZeros
  <2> QED BY <2>2 DEF Ones
<1> QED BY <1>1 DEF IsPowerOfTwo

\* Init rounds up to the smallest power of two.
LEMMA RoundsUp ==
  ASSUME NEW v \in 1 .. LargestPower
  PROVE  /\ RoundedUp(v) \in {2^k : k \in 0 .. (Width - 1)}
         /\ v \in (RoundedUp(v) \div 2) + 1 .. RoundedUp(v)
<1>1. /\ Width \in Nat /\ Width - 1 \in Nat /\ (Width - 1) + 1 = Width
      /\ LargestPower \in Nat \ {0} /\ 2^Width = 2 * LargestPower
      /\ v \in Nat /\ v \in 1 .. (2^Width - 1)
  <2>1. Width \in Nat /\ Width - 1 \in Nat /\ (Width - 1) + 1 = Width
    BY WidthIsPower
  <2>2. LargestPower \in Nat \ {0} /\ 2^Width = 2 * LargestPower
    BY <2>1, PowerDoubles DEF LargestPower
  <2> QED BY <2>1, <2>2
<1>2. CASE IsPowerOfTwo(v)
  <2>1. PICK k \in 0 .. (Width - 1) : v = 2^k
    BY <1>1, <1>2, RecognisedIsPower
  <2>2. v \in (v \div 2) + 1 .. v
    BY <1>1
  <2> QED BY <1>2, <2>1, <2>2 DEF RoundedUp
<1>3. CASE ~IsPowerOfTwo(v)
  <2>1. v - 1 \in 1 .. (2^(Width - 1) - 1)
    <3>1. v # 1
      BY <1>3, OneIsRecognised
    <3> QED BY <1>1, <3>1 DEF LargestPower
  <2>2. PICK h \in 0 .. ((Width - 1) - 1) : 2^h <= v - 1 /\ v - 1 < 2^(h + 1)
    BY <1>1, <2>1, TopPower
  <2>3. h \in 0 .. (Width - 1) /\ h + 1 < Width /\ h + 1 \in 0 .. (Width - 1) /\ h \in Nat
    BY <1>1, <2>2
  <2>4. RoundedUp(v) = 2^(h + 1)
    BY <1>1, <1>3, <2>2, <2>3, NextPowerIs DEF RoundedUp
  <2>5. 2^h \in Nat /\ 2^(h + 1) = 2 * 2^h
    BY <2>3, PowerDoubles
  <2>6. v \in (2^(h + 1) \div 2) + 1 .. 2^(h + 1)
    <3>1. 2^(h + 1) \div 2 = 2^h
      BY <2>5
    <3> QED BY <1>1, <2>2, <2>5, <3>1
  <2> QED BY <2>3, <2>4, <2>6
<1> QED BY <1>2, <1>3

\* Before the first device is opened nothing is asked.
LEMMA SizingInitInv == SizingInit => SizedAsAsked
<1> SUFFICES ASSUME SizingInit PROVE SizedAsAsked
  OBVIOUS
<1>1. megabytes * Megabyte = 0
  BY MegabyteAssumption DEF SizingInit
<1> QED BY <1>1 DEF SizedAsAsked

\* Opening the device sizes the queue as asked.
LEMMA OpenDeviceSizes == OpenAny => SizedAsAsked'
<1> SUFFICES ASSUME NEW mb \in 0 .. 2^Width, OpenDevice(mb),
                    mb * Megabyte \in 1 .. LargestPower
             PROVE  /\ opened'
                    /\ size' \in {2^k : k \in 0 .. (Width - 1)}
                    /\ mb * Megabyte \in (size' \div 2) + 1 .. size'
  BY DEF OpenAny, OpenDevice, SizedAsAsked
<1> DEFINE v == mb * Megabyte
<1>1. v \in Nat /\ v # 0 /\ LargestPower \in Nat /\ 2^Width = 2 * LargestPower
  <2>1. Width - 1 \in Nat /\ (Width - 1) + 1 = Width
    BY WidthIsPower
  <2> QED BY <2>1, PowerDoubles DEF LargestPower
<1>2. QueueBytes(mb) = v
  BY <1>1 DEF QueueBytes, Word
<1>3. opened' /\ size' = RoundedUp(v)
  BY <1>1, <1>2 DEF OpenDevice, RoundedUp
<1> QED BY <1>3, RoundsUp

LEMMA SizesStep ==
  [PartsNext]_<<exercised, channelVars, winVars, vars, memoryVars, sizingVars>>
    /\ SizedAsAsked => SizedAsAsked'
<1>1. PartsNext => OpenAny \/ UNCHANGED sizingVars
  BY DEF PartsNext, Linux, Windows, Descriptors, CopiedBytes, Sizes
<1>2. SizedAsAsked /\ UNCHANGED sizingVars => SizedAsAsked'
  BY DEF SizedAsAsked, sizingVars
<1> QED BY <1>1, <1>2, OpenDeviceSizes

\* Whatever the width of a word and the size of a megabyte: an opened copy queue has
\* the smallest power of two of bytes that holds what was typed, as long as a word
\* can hold one.  The smear of Init does compute what its name promises.
THEOREM CopyQueueSized == PartsSpec => []SizedAsAsked
<1>1. PartsInit => SizedAsAsked
  BY SizingInitInv DEF PartsInit
<1> QED BY <1>1, SizesStep, PTL DEF PartsSpec

\* Beyond the largest power of two that fits, the size comes out as zero, and Init
\* opens a queue without room: the bound in SizedAsAsked cannot be relaxed.
THEOREM LargerComesOutEmpty ==
  ASSUME NEW v \in (LargestPower + 1) .. (2^Width - 1)
  PROVE  RoundedUp(v) = 0
<1>1. /\ Width \in Nat /\ Width - 1 \in Nat /\ (Width - 1) + 1 = Width
      /\ LargestPower \in Nat \ {0} /\ 2^Width = 2 * LargestPower
      /\ v \in Nat /\ v \in 1 .. (2^Width - 1)
      /\ 2^Width - 1 \in Nat /\ 2^Width \in Nat
  <2>1. Width \in Nat /\ Width - 1 \in Nat /\ (Width - 1) + 1 = Width
    BY WidthIsPower
  <2>2. LargestPower \in Nat \ {0} /\ 2^Width = 2 * LargestPower
    BY <2>1, PowerDoubles DEF LargestPower
  <2> QED BY <2>1, <2>2
<1>2. ~IsPowerOfTwo(v)
  <2> SUFFICES ASSUME IsPowerOfTwo(v) PROVE FALSE
    OBVIOUS
  <2>1. PICK k \in 0 .. (Width - 1) : v = 2^k
    BY <1>1, RecognisedIsPower
  <2>2. 2^k <= 2^(Width - 1)
    BY <1>1, PowerIncreases
  <2> QED BY <1>1, <2>1, <2>2 DEF LargestPower
<1>3. Ones(2^Width - 1) = 0 .. (Width - 1)
  BY <1>1, LowOnes DEF Ones
<1>4. Spread(v - 1) = 0 .. (Width - 1)
  <2>1. /\ Width - 1 \in 0 .. (Width - 1) /\ v - 1 \in Nat
        /\ 2^(Width - 1) <= v - 1 /\ v - 1 < 2^((Width - 1) + 1)
    BY <1>1 DEF LargestPower
  <2> QED BY <2>1, SpreadFills
<1>5. Value(Spread(v - 1)) = 2^Width - 1
  BY <1>1, <1>3, <1>4, ValueOfOnes DEF Words
<1>6. (2^Width - 1) + 1 = 2^Width /\ 2^Width % 2^Width = 0
  BY <1>1
<1> QED BY <1>2, <1>5, <1>6 DEF RoundedUp, NextPowerOfTwo, Word

-----------------------------------------------------------------------------
(* The sizes that Init computes are sizes the ring of bytes works with.    *)

\* Powers of two multiply by adding exponents.
LEMMA PowerSum ==
  ASSUME NEW m \in Nat, NEW n \in Nat
  PROVE  2^(m + n) = 2^m * 2^n
<1> DEFINE T == {d \in Nat : 2^(m + d) = 2^m * 2^d}
<1>0. 2^m \in Nat
  BY PowerPositive
<1>1. 0 \in T
  BY <1>0, PowerZero
<1>2. ASSUME NEW d \in Nat, d \in T PROVE d + 1 \in T
  <2>1. m + d \in Nat /\ m + (d + 1) = (m + d) + 1
    OBVIOUS
  <2>2. /\ 2^d \in Nat /\ 2^(d + 1) = 2 * 2^d
        /\ 2^(m + d) \in Nat /\ 2^((m + d) + 1) = 2 * 2^(m + d)
    BY <2>1, PowerDoubles
  <2>3. 2 * (2^m * 2^d) = 2^m * (2 * 2^d)
    BY <1>0, <2>2
  <2> QED BY <1>2, <2>1, <2>2, <2>3
<1>3. \A d \in Nat : d \in T
  <2> HIDE DEF T
  <2> QED BY <1>1, <1>2, NatSetInduction
<1> QED BY <1>3

\* A number is twice its half and its lowest bit.
LEMMA Halves ==
  ASSUME NEW w \in Nat
  PROVE  w \div 2 \in Nat /\ w % 2 \in 0 .. 1 /\ w = 2 * (w \div 2) + (w % 2)
<1>1. w \div 2 \in Nat
  OBVIOUS
<1>2. w % 2 \in 0 .. 1
  OBVIOUS
<1>3. 2 \in Nat \ {0} /\ w \in Int
  OBVIOUS
<1>4. w = 2 * (w \div 2) + (w % 2)
  BY <1>3, Division, Zenon
<1> QED BY <1>1, <1>2, <1>4

\* The remainder by a power of two keeps the low bits.
LEMMA RemainderKeepsLowBits ==
  ASSUME NEW n \in Nat, NEW v \in Nat, NEW k \in 0 .. (n - 1)
  PROVE  Bit(v % 2^n, k) = Bit(v, k)
<1> DEFINE T == {m \in Nat : \A w \in Nat : \A j \in 0 .. (m - 1) :
                                Bit(w % 2^m, j) = Bit(w, j)}
<1>1. 0 \in T
  OBVIOUS
<1>2. ASSUME NEW m \in Nat, m \in T PROVE m + 1 \in T
  <2> SUFFICES ASSUME NEW w \in Nat, NEW j \in 0 .. ((m + 1) - 1)
               PROVE  Bit(w % 2^(m + 1), j) = Bit(w, j)
    OBVIOUS
  <2> DEFINE p == 2^m
             u == w \div 2
             r == u % p
             q == u \div p
             b == w % 2
             low == 2 * r + b
  <2>1. p \in Nat \ {0} /\ 2^(m + 1) = 2 * p
    BY PowerDoubles
  <2>2. u \in Nat /\ b \in 0 .. 1 /\ w = 2 * u + b
    BY Halves
  <2>3. q \in Nat /\ r \in Nat /\ r < p /\ u = q * p + r
    <3> HIDE DEF p, u
    <3>1. q \in Nat /\ r \in Nat /\ r < p /\ u = p * q + r
      BY <2>1, <2>2
    <3> QED BY <2>1, <3>1
  <2>4. w % (2 * p) = low
    <3> HIDE DEF p, u, r, q, b
    <3>1. /\ 2 * p \in Nat \ {0} /\ low \in Nat /\ low \in 0 .. (2 * p - 1)
          /\ w \in Int /\ q \in Int
      BY <2>1, <2>2, <2>3
    <3>2. q * (2 * p) = 2 * (q * p) /\ q * p \in Nat
      BY <2>1, <2>3
    <3>3. w = 2 * (q * p) + low
      BY <2>2, <2>3, <3>2
    <3>4. w = (2 * p) * q + low
      <4>1. (2 * p) * q = 2 * (q * p)
        BY <2>1, <2>3
      <4> QED BY <3>3, <4>1
    <3> HIDE DEF low
    <3> QED BY <2>3, <3>1, <3>4, RemainderIs
  <2>5. low \in Nat /\ low \div 2 = r /\ low % 2 = b
    <3> HIDE DEF r, b
    <3> QED BY <2>2, <2>3
  <2> HIDE DEF low, q
  <2>6. CASE j = 0
    BY <2>1, <2>4, <2>5, <2>6, BitZero
  <2>7. CASE j # 0
    <3>1. j - 1 \in 0 .. (m - 1) /\ j - 1 \in Nat /\ (j - 1) + 1 = j
      BY <2>7
    <3>2. Bit(low, (j - 1) + 1) = Bit(r, j - 1) /\ Bit(w, (j - 1) + 1) = Bit(u, j - 1)
      BY <2>5, <3>1, BitNext
    <3>3. Bit(r, j - 1) = Bit(u, j - 1)
      BY <1>2, <2>2, <3>1
    <3> QED BY <2>1, <2>4, <3>1, <3>2, <3>3
  <2> QED BY <2>6, <2>7
<1>3. \A m \in Nat : m \in T
  <2> HIDE DEF T
  <2> QED BY <1>1, <1>2, NatSetInduction
<1> QED BY <1>3

\* And with the number before a power of two is the remainder by that power.
LEMMA MaskIsRemainder ==
  ASSUME NEW v \in Words, NEW k \in 0 .. (Width - 1)
  PROVE  Value(Ones(v) \intersect Ones(2^k - 1)) = v % 2^k
<1> DEFINE p == 2^k
           m == 2^k - 1
           r == v % p
<1>1. /\ Width \in Nat /\ k \in Nat /\ p \in Nat \ {0} /\ v \in Nat
      /\ m \in 0 .. (2^k - 1)
  BY WidthIsPower, PowerPositive DEF Words
<1>2. r \in 0 .. (2^k - 1) /\ r <= v
  <2> HIDE DEF p
  <2>1. r \in Nat /\ r < p /\ (v \div p) * p <= v /\ v \div p \in Nat
    BY <1>1, QuotientBounds
  <2>2. v = p * (v \div p) + r /\ p * (v \div p) \in Nat
    BY <1>1, <2>1
  <2> QED BY <1>1, <2>1, <2>2 DEF p
<1>3. r \in Words
  BY <1>1, <1>2, PowerPositive DEF Words
<1>4. ASSUME NEW j \in 0 .. (Width - 1)
      PROVE  (Bit(v, j) = 1 /\ Bit(m, j) = 1) <=> Bit(r, j) = 1
  <2>1. CASE j < k
    <3>1. j \in 0 .. (k - 1)
      BY <1>1, <2>1
    <3> QED BY <1>1, <3>1, LowOnes, RemainderKeepsLowBits
  <2>2. CASE k <= j
    <3>1. j \in Nat
      OBVIOUS
    <3>2. Bit(m, j) = 0 /\ Bit(r, j) = 0
      <4> HIDE DEF m, r
      <4> QED BY <1>1, <1>2, <2>2, <3>1, HighZeros
    <3> QED BY <3>2
  <2> QED BY <1>1, <2>1, <2>2
<1> HIDE DEF m, r
<1>5. Ones(v) \intersect Ones(m) = Ones(r)
  BY <1>4 DEF Ones
<1> QED BY <1>3, <1>5, ValueOfOnes DEF m, r

\* A queue that comes out with room is one the theorems above are about: its size
\* goes a whole number of times into the range of an index, more than once, so
\* that an index wraps at the ring's start and full differs from empty; and masking
\* an index with the size less one is taking it modulo the size.
THEOREM SizesFitTheRing ==
  ASSUME NEW asked \in 1 .. LargestPower
  PROVE  LET s == RoundedUp(asked) IN
         /\ s \in Nat \ {0}
         /\ \E rounds \in Nat : rounds > 1 /\ 2^Width = rounds * s
         /\ \A i \in Words : Value(Ones(i) \intersect Ones(s - 1)) = i % s
<1>1. PICK k \in 0 .. (Width - 1) : RoundedUp(asked) = 2^k
  BY RoundsUp
<1>2. /\ Width \in Nat /\ k \in Nat /\ Width - k \in Nat /\ (Width - k) + k = Width
      /\ (Width - k) - 1 \in Nat /\ ((Width - k) - 1) + 1 = Width - k
  BY WidthIsPower
<1>3. 2^k \in Nat \ {0} /\ 2^(Width - k) \in Nat /\ 2^(Width - k) > 1
  <2>1. 2^((Width - k) - 1) >= 1 /\ 2^(Width - k) = 2 * 2^((Width - k) - 1)
        /\ 2^((Width - k) - 1) \in Nat
    BY <1>2, PowerDoubles
  <2> QED BY <1>2, <2>1, PowerPositive
<1>4. 2^Width = 2^(Width - k) * 2^k
  BY <1>2, PowerSum
<1>5. \A i \in Words : Value(Ones(i) \intersect Ones(2^k - 1)) = i % 2^k
  BY MaskIsRemainder
<1> QED BY <1>1, <1>3, <1>4, <1>5
=============================================================================
