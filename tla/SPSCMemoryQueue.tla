--------------------------- MODULE SPSCMemoryQueue ---------------------------
(***************************************************************************)
(* SPSCMemoryQueue, the channel's copy queue: a ring of bytes shared       *)
(* without a lock by one producer (Send) and one consumer (the DMA         *)
(* worker).  Put and Get move several bytes at once, in two pieces when    *)
(* they run over the end of the buffer; the two variants with a fixed      *)
(* length move all of their bytes or none.  As in the descriptor queue     *)
(* each side stores only its own index, once its bytes are moved, and the  *)
(* indices run through the whole width of their type.                      *)
(*                                                                         *)
(* A step is the load of the other side's index with the decision it leads *)
(* to, one memcpy, or the store of the own index.                          *)
(***************************************************************************)
EXTENDS CopyQueueConstants, Integers, Sequences

\* Number of values of an index: 2^32 in the code, a multiple of the size.
IndexRange == Rounds * Size

VARIABLES
  buffer,      \* buffer_
  getIndex,    \* get_index_
  putIndex,    \* put_index_
  producerPc,  \* where Put is
  data,        \* the bytes it will have put
  consumerPc,  \* where Get is
  length,      \* how many bytes it will have got
  out,         \* the caller's buffer, as far as it is filled
  received     \* what the last Get returned

producerVars == <<putIndex, producerPc, data>>
consumerVars == <<getIndex, consumerPc, length, out, received>>
vars == <<buffer, producerVars, consumerVars>>

Ring == 0 .. (Size - 1)
Indices == 0 .. (IndexRange - 1)
Masked(i) == i % Size                     \* index & (size_ - 1)
Plus(i, n) == (i + n) % IndexRange        \* unsigned index + n
DataSize == (putIndex - getIndex) % IndexRange

\* Mutant of FreeSize: the byte the producer is about to reach counts twice.
FreeSizeOneTooMany == Size + 1 - DataSize

FreeSize == Size - DataSize

Chunks == UNION {[1 .. n -> Bytes] : n \in 1 .. MaxLength}
Smaller(m, n) == IF m <= n THEN m ELSE n

Init == /\ buffer \in [Ring -> Bytes]
        /\ putIndex = 0 /\ getIndex = 0
        /\ producerPc = "idle" /\ data = <<>>
        /\ consumerPc = "idle" /\ length = 0 /\ out = <<>>
        /\ received = <<>>

-----------------------------------------------------------------------------
(* Put and PutFixedLength.                                                 *)

\* Put takes as many bytes as there is room for.
PutSome == \E c \in Chunks : data' = SubSeq(c, 1, Smaller(Len(c), FreeSize))

\* With too little room for all of them PutFixedLength returns false.
PutFixedLength == \E c \in Chunks : Len(c) <= FreeSize /\ data' = c

BeginPut ==
  /\ producerPc = "idle"
  /\ PutSome \/ PutFixedLength
  /\ producerPc' = "tail"
  /\ UNCHANGED <<buffer, putIndex, consumerVars>>

\* Bytes that fit between an index and the end of the buffer.
ToEnd(n, i) == Smaller(n, Size - Masked(i))

\* The buffer with d copied to the place p of the buffer.
Written(p, d) ==
  [b \in Ring |-> IF b - p + 1 \in 1 .. Len(d) THEN d[b - p + 1] ELSE buffer[b]]

\* The first memcpy fills the buffer up to its end.
CopyToTail ==
  /\ producerPc = "tail"
  /\ buffer' = Written(Masked(putIndex),
                       SubSeq(data, 1, ToEnd(Len(data), putIndex)))
  /\ producerPc' = "head"
  /\ UNCHANGED <<putIndex, data, consumerVars>>

\* Mutant of CopyToHead: the second memcpy starts over with the data.
CopyToHeadRestarts ==
  /\ producerPc = "head"
  /\ buffer' = Written(0, SubSeq(data, 1, Len(data) - ToEnd(Len(data), putIndex)))
  /\ producerPc' = "publish"
  /\ UNCHANGED <<putIndex, data, consumerVars>>

\* The second puts the rest, if there is one, at the beginning.
CopyToHead ==
  /\ producerPc = "head"
  /\ buffer' = Written(0, SubSeq(data, ToEnd(Len(data), putIndex) + 1, Len(data)))
  /\ producerPc' = "publish"
  /\ UNCHANGED <<putIndex, data, consumerVars>>

PublishPut ==
  /\ producerPc = "publish"
  /\ putIndex' = Plus(putIndex, Len(data))
  /\ data' = <<>>
  /\ producerPc' = "idle"
  /\ UNCHANGED <<buffer, consumerVars>>

-----------------------------------------------------------------------------
(* Get and GetFixedLength.                                                 *)

\* Get gives at most what is there; GetFixedLength returns false if that is
\* too little.  Which of the two was called cannot be told from the length.
BeginGet ==
  /\ consumerPc = "idle"
  /\ length' \in 1 .. Smaller(MaxLength, DataSize)
  /\ consumerPc' = "tail"
  /\ UNCHANGED <<buffer, producerVars, getIndex, out, received>>

Piece(p, n) == [k \in 1 .. n |-> buffer[p + k - 1]]

CopyFromTail ==
  /\ consumerPc = "tail"
  /\ out' = Piece(Masked(getIndex), ToEnd(length, getIndex))
  /\ consumerPc' = "head"
  /\ UNCHANGED <<buffer, producerVars, getIndex, length, received>>

CopyFromHead ==
  /\ consumerPc = "head"
  /\ out' = out \o Piece(0, length - Len(out))
  /\ consumerPc' = "publish"
  /\ UNCHANGED <<buffer, producerVars, getIndex, length, received>>

\* The store of the index, after which the call returns.
PublishGet ==
  /\ consumerPc = "publish"
  /\ getIndex' = Plus(getIndex, length)
  /\ received' = out
  /\ length' = 0 /\ out' = <<>>
  /\ consumerPc' = "idle"
  /\ UNCHANGED <<buffer, producerVars>>

-----------------------------------------------------------------------------
\* Reset, by the owner while neither side is at work.
Reset ==
  /\ producerPc = "idle" /\ consumerPc = "idle"
  /\ getIndex' = 0 /\ putIndex' = 0
  /\ UNCHANGED <<buffer, producerPc, data, consumerPc, length, out, received>>

Next == \/ BeginPut \/ CopyToTail \/ CopyToHead \/ PublishPut
        \/ BeginGet \/ CopyFromTail \/ CopyFromHead \/ PublishGet
        \/ Reset

Spec == Init /\ [][Next]_vars

-----------------------------------------------------------------------------
(* Properties.                                                             *)

TypeOK ==
  /\ buffer \in [Ring -> Bytes]
  /\ getIndex \in Indices /\ putIndex \in Indices
  /\ producerPc \in {"idle", "tail", "head", "publish"}
  /\ consumerPc \in {"idle", "tail", "head", "publish"}
  /\ {Len(data), Len(out), Len(received), length} \subseteq 0 .. MaxLength
  /\ \A s \in {data, out, received} : s \in [1 .. Len(s) -> Bytes]

\* A side that has seen room, or bytes, still has them when it gets there,
\* and what it has copied so far is what the ring, or the caller, will have.
\* The invariant is inductive.
SizeBounded ==
  /\ DataSize + Len(data) <= Size
  /\ length <= DataSize
  /\ producerPc = "idle" => data = <<>>
  /\ consumerPc = "idle" => length = 0 /\ out = <<>>

ProducerCopied ==
  CASE producerPc = "head"    -> ToEnd(Len(data), putIndex)
    [] producerPc = "publish" -> Len(data)
    [] OTHER                  -> 0
ConsumerCopied ==
  CASE consumerPc = "head"    -> ToEnd(length, getIndex)
    [] consumerPc = "publish" -> length
    [] OTHER                  -> 0

CopiesAgree ==
  /\ \A k \in 1 .. ProducerCopied : buffer[Masked(putIndex + k - 1)] = data[k]
  /\ Len(out) = ConsumerCopied
  /\ \A k \in 1 .. ConsumerCopied : buffer[Masked(getIndex + k - 1)] = out[k]

IInv == TypeOK /\ SizeBounded /\ CopiesAgree

\* No byte is in the hands of both sides: what the producer is copying to and
\* what the consumer is copying from are disjoint parts of the ring, also when
\* both run over its end.
Touched(from, n) == {Masked(from + k) : k \in 0 .. (n - 1)}
NoSharedByte == Touched(putIndex, Len(data)) \cap Touched(getIndex, length) = {}

\* The bytes in the ring, oldest first.
Queued == [k \in 1 .. DataSize |-> buffer[Masked(getIndex + k - 1)]]

Fifo == INSTANCE ByteFifo WITH Capacity <- Size, queue <- Queued, offered <- data

\* The ring implements the queue: the bytes of a put appear together, and as
\* they were given, and a get returns the oldest bytes in their order, wherever
\* the two pieces are cut and the indices wrap.
ImplementsByteFifo == Fifo!Spec
=============================================================================
