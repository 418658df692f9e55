----------------------------- MODULE QueueSizing -----------------------------
(***************************************************************************)
(* From the number of megabytes the user types to the size of the copy     *)
(* queue, computed in unsigned words of Width bits (32 in the code).       *)
(***************************************************************************)
EXTENDS Integers

CONSTANTS Width,     \* bits of an unsigned int, a power of two
          Megabyte   \* 1024 * 1024

ASSUME WidthAssumption == \E k \in 1 .. Width : Width = 2^k
ASSUME MegabyteAssumption == Megabyte \in Nat \ {0}

VARIABLES megabytes,   \* editSendBufferSize
          opened,      \* Initialize succeeded
          size         \* size_

sizingVars == <<megabytes, opened, size>>

Word(n) == n % 2^Width
LargestPower == 2^(Width - 1)

\* onOpenDevice multiplies what was typed in 32 bits.
QueueBytes(mb) == Word(mb * Megabyte)

\* A word as the set of the places of its ones, so that & is the intersection
\* and | the union.
Words == 0 .. (2^Width - 1)
Bit(v, k) == (v \div 2^k) % 2
Ones(v) == {k \in 0 .. (Width - 1) : Bit(v, k) = 1}
Value(ones) == CHOOSE v \in Words : Ones(v) = ones
ShiftedRight(ones, s) == {k - s : k \in {j \in ones : j >= s}}

IsPowerOfTwo(v) == v # 0 /\ Ones(v) \intersect Ones(v - 1) = {}

\* Mutant of Doublings: the last shift is missing.
DoublingsOneShort == (CHOOSE k \in 1 .. Width : Width = 2^k) - 1

Doublings == CHOOSE k \in 1 .. Width : Width = 2^k

\* v |= v >> s for the shifts 1, 2, 4 and so on: the top bit spreads over all
\* lower ones.
Spread(v) ==
  LET after[i \in 0 .. Doublings] ==
        IF i = 0 THEN Ones(v)
        ELSE after[i - 1] \union ShiftedRight(after[i - 1], 2^(i - 1))
  IN after[Doublings]

NextPowerOfTwo(v) == Word(Value(Spread(v - 1)) + 1)

RoundedUp(v) == IF IsPowerOfTwo(v) THEN v ELSE NextPowerOfTwo(v)

SizingInit == megabytes = 0 /\ opened = FALSE /\ size = 0

\* onOpenDevice down to SPSCMemoryQueue::Init, which refuses 0 but takes the
\* size it rounds to, 0 included: malloc(0) gives a pointer.
OpenDevice(mb) ==
  /\ megabytes' = mb
  /\ LET asked == QueueBytes(mb) IN
       \/ asked = 0 /\ opened' = FALSE /\ size' = 0
       \/ /\ asked # 0
          /\ opened' = TRUE
          /\ size' = RoundedUp(asked)

OpenAny == \E mb \in 0 .. 2^Width : OpenDevice(mb)

-----------------------------------------------------------------------------
(* Properties.                                                             *)

\* An opened copy queue has the smallest power of two of bytes that holds what
\* the user asked for, as long as that is at most the largest power of two a
\* word can hold.  Beyond it the arithmetic wraps: the queue may come out too
\* small, or open with no room at all, and nobody is told.
SizedAsAsked ==
  megabytes * Megabyte \in 1 .. LargestPower =>
    /\ opened
    /\ size \in {2^k : k \in 0 .. (Width - 1)}
    /\ megabytes * Megabyte \in (size \div 2) + 1 .. size
=============================================================================
