------------------------------- MODULE MCChannel -------------------------------
(***************************************************************************)
(* The DMA channels and the queues they are made of.  These share no       *)
(* state, so a behaviour exercises one of them: the channel of the Linux   *)
(* or of the Windows build, the ring of descriptors, the ring of bytes, or *)
(* the arithmetic that sizes the latter.                                   *)
(***************************************************************************)
EXTENDS DmaChannelLinux, SPSCDescriptorQueue, CopyQueueConstants, QueueSizing

VARIABLES
  exercised,  \* which of the five
  winState, winStop, winPc, winWriting, winQueue, winSender, winSendStopped,
  winOwner, winAccepted, winWritten, winMissed,              \* of DmaChannel
  memory, memoryGet, memoryPut, putPc, data, getPc, length,
  got, received                                              \* of SPSCMemoryQueue

Win == INSTANCE DmaChannel WITH
  threadState <- winState, stopFlag <- winStop, workerPc <- winPc,
  writing <- winWriting, sendQueue <- winQueue, senderPc <- winSender,
  sendStopped <- winSendStopped, ownerPc <- winOwner, accepted <- winAccepted,
  written <- winWritten, missed <- winMissed

MQ == INSTANCE SPSCMemoryQueue WITH
  buffer <- memory, getIndex <- memoryGet, putIndex <- memoryPut,
  producerPc <- putPc, consumerPc <- getPc, out <- got

winVars == <<winState, winStop, winPc, winWriting, winQueue, winSender,
             winSendStopped, winOwner, winAccepted, winWritten, winMissed>>
memoryVars == <<memory, memoryGet, memoryPut, putPc, data, getPc, length, got, received>>

\* A queue that is not exercised has some fixed content.
PartsInit ==
  /\ exercised \in {"linux", "windows", "descriptors", "bytes", "sizes"}
  /\ ChannelInit /\ Win!Init /\ Init /\ MQ!Init /\ SizingInit
  /\ exercised # "descriptors" =>
       LET d == CHOOSE d \in Items : TRUE
       IN buffer = [i \in Ring |-> d] /\ item = d /\ out = d
  /\ exercised # "bytes" => memory = [i \in MQ!Ring |-> CHOOSE b \in Bytes : TRUE]

Linux == ChannelNext /\ UNCHANGED <<winVars, vars, memoryVars, sizingVars>>
Windows == Win!Next /\ UNCHANGED <<channelVars, vars, memoryVars, sizingVars>>
Descriptors == Next /\ UNCHANGED <<channelVars, winVars, memoryVars, sizingVars>>
CopiedBytes == MQ!Next /\ UNCHANGED <<channelVars, winVars, vars, sizingVars>>
Sizes == OpenAny /\ UNCHANGED <<channelVars, winVars, vars, memoryVars>>

PartsNext ==
  /\ UNCHANGED exercised
  /\ \/ exercised = "linux" /\ Linux
     \/ exercised = "windows" /\ Windows
     \/ exercised = "descriptors" /\ Descriptors
     \/ exercised = "bytes" /\ CopiedBytes
     \/ exercised = "sizes" /\ Sizes

PartsSpec ==
  /\ PartsInit
  /\ [][PartsNext]_<<exercised, channelVars, winVars, vars, memoryVars, sizingVars>>
  /\ ChannelFairness /\ Win!Fairness

\* The Windows channel writes what Send accepted, in order.
WindowsDelivers == Win!Delivers

\* The producer and the consumer of the byte ring never touch the same byte.
NoSharedByte == MQ!NoSharedByte

\* The byte ring implements a first-in first-out queue of bytes.
ImplementsByteFifo == MQ!ImplementsByteFifo
=============================================================================
