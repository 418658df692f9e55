-------------------------- MODULE CopyQueueConstants --------------------------
\* The parameters of SPSCMemoryQueue, the channel's copy queue.
EXTENDS Naturals

CONSTANTS Bytes,      \* the values of a byte
          Size,       \* size_, a power of two in the code
          Rounds,     \* times an index goes round the ring before it wraps
          MaxLength   \* bound: bytes in one call

ASSUME BytesAssumption == Bytes # {}
ASSUME SizeAssumption == Size \in Nat \ {0}
ASSUME RoundsAssumption == Rounds \in Nat /\ Rounds > 1
ASSUME MaxLengthAssumption == MaxLength \in Nat
=============================================================================
