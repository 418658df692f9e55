------------------------ MODULE DmaChannelLinux_proofs ------------------------
(***************************************************************************)
(* The Linux DMA channel keeps its pool blocks and its order on each path, *)
(* for every size of the queues and the pool and every number of blocks.   *)
(***************************************************************************)
EXTENDS DmaChannelLinux, SequenceTheorems, TLAPS

(***************************************************************************)
(* The inductive invariant: the types, where the three actors can be at    *)
(* once, the count of the pool's blocks, and what lies between Send and    *)
(* the device on each path.                                                *)
(***************************************************************************)
QueueOf(p) == IF p = "descriptor" THEN descQueue ELSE copyQueue

\* The block of path p that the worker has taken.
Taken(p) == IF workerPc = "write" /\ writing[1].path = p THEN <<writing[1].block>> ELSE <<>>

TypeInv ==
  /\ ChannelTypeOK
  /\ senderPc \in {"send", "failed"} => Sending \in Blocks

ActorsInv ==
  /\ ownerPc = "idle" => workerPc = "none" /\ senderPc = "none"
  /\ ownerPc \in {"raise", "notify", "join"} => senderPc = "none"
  /\ threadState = "Stopped" => ownerPc = "idle" /\ descQueue = <<>>

\* Until the worker ends, nothing that was accepted is lost on the way.
NothingLost ==
  workerPc \in {"loop", "checked", "asleep", "write"} =>
    \A p \in Paths : accepted[p] = written[p] \o Taken(p) \o QueueOf(p)

IInv == TypeInv /\ ActorsInv /\ BlocksConserved /\ NothingLost /\ PathsInOrder

-----------------------------------------------------------------------------
(* Sequences on a path: accepted, taken and written.                       *)

\* Accepting a block appends it to what is under way.
LEMMA AcceptAtTheEnd ==
  ASSUME NEW w \in Seq(Blocks), NEW x \in Seq(Blocks), NEW q \in Seq(Blocks),
         NEW b \in Blocks
  PROVE  Append(w \o x \o q, b) = w \o x \o Append(q, b)
<1>1. w \o x \in Seq(Blocks) /\ (w \o x) \o q \in Seq(Blocks) /\ <<b>> \in Seq(Blocks)
  BY ConcatProperties
<1>2. Append(w \o x \o q, b) = ((w \o x) \o q) \o <<b>>
  BY <1>1, AppendIsConcat
<1>3. Append(q, b) = q \o <<b>>
  BY AppendIsConcat
<1>4. ((w \o x) \o q) \o <<b>> = (w \o x) \o (q \o <<b>>)
  BY <1>1, ConcatAssociative
<1> QED BY <1>2, <1>3, <1>4

\* Taking the head of a queue leaves the order as it was.
LEMMA TakeFromTheHead ==
  ASSUME NEW w \in Seq(Blocks), NEW q \in Seq(Blocks), q # <<>>
  PROVE  w \o <<>> \o q = w \o <<Head(q)>> \o Tail(q)
<1>1. Head(q) \in Blocks /\ Tail(q) \in Seq(Blocks)
  BY HeadTailProperties
<1>2. q = <<Head(q)>> \o Tail(q)
  <2>1. <<Head(q)>> \o Tail(q) \in Seq(Blocks)
    BY <1>1, ConcatProperties
  <2>2. <<Head(q)>> \in Seq(Blocks) /\ Len(<<Head(q)>>) = 1 /\ <<Head(q)>>[1] = q[1]
    BY <1>1
  <2>3. /\ Len(<<Head(q)>> \o Tail(q)) = 1 + Len(Tail(q))
        /\ \A i \in 1 .. 1 + Len(Tail(q)) :
             (<<Head(q)>> \o Tail(q))[i] = IF i <= 1 THEN q[1] ELSE Tail(q)[i - 1]
    BY <1>1, <2>2, ConcatProperties
  <2>4. /\ Len(q) \in Nat /\ 1 + Len(Tail(q)) = Len(q)
        /\ \A i \in 1 .. Len(Tail(q)) : Tail(q)[i] = q[i + 1]
    BY HeadTailProperties, LenProperties
  <2>5. \A i \in 1 .. Len(q) : q[i] = (<<Head(q)>> \o Tail(q))[i]
    BY <2>3, <2>4
  <2> QED BY <2>1, <2>3, <2>4, <2>5, SeqEqual
<1>3. <<Head(q)>> \in Seq(Blocks) /\ w \o <<>> = w
  BY <1>1, ConcatEmptySeq
<1>4. w \o (<<Head(q)>> \o Tail(q)) = w \o <<Head(q)>> \o Tail(q)
  BY <1>1, <1>3, ConcatAssociative
<1> QED BY <1>2, <1>3, <1>4

\* The block that is written is the next one.
LEMMA WriteTheTaken ==
  ASSUME NEW w \in Seq(Blocks), NEW q \in Seq(Blocks), NEW b \in Blocks
  PROVE  w \o <<b>> \o q = Append(w, b) \o <<>> \o q
<1>1. Append(w, b) = w \o <<b>> /\ Append(w, b) \in Seq(Blocks)
  BY AppendIsConcat, AppendProperties
<1> QED BY <1>1, ConcatEmptySeq

\* What comes first in a sequence is a prefix of it.
LEMMA FirstIsPrefix ==
  ASSUME NEW w \in Seq(Blocks), NEW x \in Seq(Blocks), NEW q \in Seq(Blocks)
  PROVE  IsPrefix(w, w \o x \o q)
<1>1. x \o q \in Seq(Blocks) /\ w \o x \o q = w \o (x \o q)
  BY ConcatProperties, ConcatAssociative
<1>2. Len(w) \in Nat /\ Len(x \o q) \in Nat /\ Len(w) <= Len(w \o (x \o q))
  BY <1>1, ConcatProperties, LenProperties
<1>3. SubSeq(w, 1, Len(w)) = SubSeq(w \o (x \o q), 1, Len(w))
  <2>1. CASE Len(w) = 0
    BY <2>1, SubSeqEmpty
  <2>2. CASE Len(w) # 0
    <3>1. 1 \in 1 .. Len(w) /\ Len(w) \in 1 .. Len(w)
      BY <1>2, <2>2
    <3> QED BY <1>1, <3>1, SubSeqOfConcat1
  <2> QED BY <2>1, <2>2
<1> QED BY <1>1, <1>2, <1>3 DEF IsPrefix

\* A prefix stays one when the sequence grows.
LEMMA PrefixOfAppend ==
  ASSUME NEW w \in Seq(Blocks), NEW a \in Seq(Blocks), NEW b \in Blocks, IsPrefix(w, a)
  PROVE  IsPrefix(w, Append(a, b))
<1>1. Append(a, b) = a \o <<b>> /\ <<b>> \in Seq(Blocks)
  BY AppendIsConcat
<1>2. Len(w) \in Nat /\ Len(a) \in Nat /\ Len(Append(a, b)) = Len(a) + 1
  BY LenProperties, AppendProperties
<1>3. SubSeq(a, 1, Len(w)) = SubSeq(Append(a, b), 1, Len(w))
  <2>1. CASE Len(w) = 0
    BY <2>1, SubSeqEmpty
  <2>2. CASE Len(w) # 0
    <3>1. 1 \in 1 .. Len(a) /\ Len(w) \in 1 .. Len(a)
      BY <1>2, <2>2 DEF IsPrefix
    <3> QED BY <1>1, <3>1, SubSeqOfConcat1
  <2> QED BY <2>1, <2>2
<1> QED BY <1>2, <1>3 DEF IsPrefix

-----------------------------------------------------------------------------
(* The invariant holds initially and is kept by every step.                *)

\* Neither path has a block.
LEMMA NothingOnPath == \A p \in Paths : Nothing[p] = <<>>
  BY DEF Nothing

\* An empty path is in order.
LEMMA EmptyPath ==
  /\ <<>> \in Seq(Blocks) /\ Len(<<>>) = 0
  /\ <<>> = <<>> \o <<>> \o <<>>
  /\ IsPrefix(<<>>, <<>>)
<1>1. <<>> \in Seq(Blocks) /\ Len(<<>>) = 0
  BY EmptySeq
<1>2. <<>> = <<>> \o <<>> \o <<>>
  BY <1>1, ConcatEmptySeq
<1> QED BY <1>1, <1>2 DEF IsPrefix

\* Initially nothing is under way.
LEMMA InitInv == ChannelInit => IInv
<1> SUFFICES ASSUME ChannelInit PROVE IInv
  OBVIOUS
<1> USE DEF ChannelInit
<1>1. TypeInv
  <2>1. accepted \in [Paths -> Seq(Blocks)] /\ written \in [Paths -> Seq(Blocks)]
    BY EmptySeq DEF Nothing
  <2>2. writing \in Seq(Entries) /\ Len(writing) = 0
    BY EmptySeq
  <2>3. <<>> \in Seq(Blocks) /\ Len(<<>>) = 0
    BY EmptySeq
  <2>4. /\ descQueue \in Seq(Blocks) /\ Len(descQueue) <= DescCapacity
        /\ copyQueue \in Seq(Blocks) /\ Len(copyQueue) <= CopyCapacity
        /\ freeBlocks \in 0 .. PoolBlocks
    BY <2>3, QueuesAssumption, PoolBlocksAssumption
  <2>5. /\ threadState \in ThreadStates /\ workerPc \in WorkerPcs /\ workerPc # "write"
        /\ senderPc \in SenderPcs /\ senderPc \notin {"send", "failed"}
        /\ ownerPc \in OwnerPcs
        /\ {stopFlag, usesPool, sendStopped} \subseteq BOOLEAN
    BY DEF ThreadStates, WorkerPcs, SenderPcs, OwnerPcs
  <2> QED BY <2>1, <2>2, <2>4, <2>5 DEF TypeInv, ChannelTypeOK
<1>2. ActorsInv /\ NothingLost
  BY DEF ActorsInv, NothingLost
<1>3. BlocksConserved
  BY EmptySeq, PoolBlocksAssumption DEF BlocksConserved, WithSender, BeingWritten
<1>4. PathsInOrder
  BY NothingOnPath, EmptyPath DEF PathsInOrder
<1> QED BY <1>1, <1>2, <1>3, <1>4 DEF IInv

\* The worker has at most one block in its hands, of one path.
LEMMA TakenIsASeq == TypeInv => \A p \in Paths : Taken(p) \in Seq(Blocks)
<1> SUFFICES ASSUME TypeInv, NEW p \in Paths PROVE Taken(p) \in Seq(Blocks)
  OBVIOUS
<1>1. CASE workerPc = "write" /\ writing[1].path = p
  <2>1. writing \in Seq(Entries) /\ 1 \in 1 .. Len(writing)
    BY <1>1 DEF TypeInv, ChannelTypeOK
  <2>2. writing[1] \in Entries
    BY <2>1, ElementOfSeq
  <2> QED BY <1>1, <2>2 DEF Taken, Entries
<1>2. CASE ~(workerPc = "write" /\ writing[1].path = p)
  BY <1>2, EmptySeq DEF Taken
<1> QED BY <1>1, <1>2

\* InputData takes a block out of the pool.
LEMMA TakeBlockInv == IInv /\ TakeBlock => IInv'
<1> SUFFICES ASSUME IInv, TakeBlock PROVE IInv'
  OBVIOUS
<1> USE DEF IInv, TakeBlock, queueVars, historyVars, workerVars, ownerVars
<1>1. TypeInv'
  <2>1. Sending' \in Blocks
    BY DEF Sending
  <2>2. freeBlocks' \in 0 .. PoolBlocks
    BY PoolBlocksAssumption DEF TypeInv, ChannelTypeOK
  <2> QED BY <2>1, <2>2 DEF TypeInv, ChannelTypeOK, SenderPcs
<1>2. ActorsInv'
  BY DEF ActorsInv
<1>3. BlocksConserved'
  BY PoolBlocksAssumption
  DEF TypeInv, ChannelTypeOK, BlocksConserved, WithSender, BeingWritten
<1>4. NothingLost' /\ PathsInOrder'
  BY DEF NothingLost, Taken, QueueOf, PathsInOrder
<1> QED BY <1>1, <1>2, <1>3, <1>4

\* Send puts the block on one path and counts it as accepted there.
LEMMA QueueBlockInv == IInv /\ QueueBlock => IInv'
<1> SUFFICES ASSUME IInv, QueueBlock PROVE IInv'
  OBVIOUS
<1> USE DEF IInv, queueVars, historyVars, workerVars, ownerVars
<1>0. PICK path \in Paths :
        /\ Accept(path)
        /\ path = "descriptor" => /\ descQueue' = Append(descQueue, Sending)
                                  /\ usesPool /\ Len(descQueue) < DescCapacity
                                  /\ UNCHANGED <<copyQueue, freeBlocks>>
        /\ path = "copy" =>
             /\ copyQueue' = Append(copyQueue, Sending)
             /\ Len(copyQueue) < CopyCapacity
             /\ freeBlocks' = IF usesPool THEN freeBlocks + 1 ELSE freeBlocks
             /\ UNCHANGED descQueue
  BY DEF QueueBlock, PutDescriptor, PutCopy, Paths
<1>1. /\ senderPc = "send" /\ senderPc' = "queued" /\ threadState = "Running"
      /\ UNCHANGED <<written, workerVars, ownerVars>>
  BY DEF QueueBlock
<1>2. Sending \in Blocks
  BY <1>1 DEF TypeInv
<1>3. /\ accepted' = [accepted EXCEPT ![path] = Append(@, Sending)]
      /\ accepted \in [Paths -> Seq(Blocks)] /\ written \in [Paths -> Seq(Blocks)]
      /\ descQueue \in Seq(Blocks) /\ copyQueue \in Seq(Blocks)
  BY <1>0 DEF Accept, TypeInv, ChannelTypeOK
<1>4. Append(accepted[path], Sending) \in Seq(Blocks)
  BY <1>2, <1>3, AppendProperties
<1>5. accepted' \in [Paths -> Seq(Blocks)]
  BY <1>3, <1>4
<1>6. TypeInv' /\ BlocksConserved'
  <2>1. /\ Len(descQueue) \in Nat /\ Len(copyQueue) \in Nat
        /\ freeBlocks \in Nat /\ freeBlocks <= PoolBlocks
        /\ Len(descQueue) <= DescCapacity /\ Len(copyQueue) <= CopyCapacity
    BY <1>3, LenProperties, PoolBlocksAssumption DEF TypeInv, ChannelTypeOK
  <2>2. /\ freeBlocks + WithSender + Len(descQueue) + BeingWritten = PoolBlocks
        /\ WithSender = (IF usesPool THEN 1 ELSE 0) /\ WithSender' = 0
        /\ BeingWritten \in 0 .. 1 /\ BeingWritten' = BeingWritten
    BY <1>1 DEF BlocksConserved, WithSender, BeingWritten
  <2>3. /\ descQueue' \in Seq(Blocks) /\ Len(descQueue') <= DescCapacity
        /\ copyQueue' \in Seq(Blocks) /\ Len(copyQueue') <= CopyCapacity
        /\ freeBlocks' \in 0 .. PoolBlocks
        /\ freeBlocks' + WithSender' + Len(descQueue') + BeingWritten' = PoolBlocks
    <3>1. CASE path = "descriptor"
      <4>1. descQueue' = Append(descQueue, Sending)
        BY <3>1, <1>0
      <4>2. descQueue' \in Seq(Blocks) /\ Len(descQueue') = Len(descQueue) + 1
        BY <4>1, <1>2, <1>3, AppendProperties
      <4> QED BY <4>2, <3>1, <1>0, <1>3, <2>1, <2>2, QueuesAssumption, PoolBlocksAssumption
    <3>2. CASE path = "copy"
      <4>1. copyQueue' = Append(copyQueue, Sending)
        BY <3>2, <1>0
      <4>2. copyQueue' \in Seq(Blocks) /\ Len(copyQueue') = Len(copyQueue) + 1
        BY <4>1, <1>2, <1>3, AppendProperties
      <4>3. freeBlocks' = freeBlocks + WithSender /\ descQueue' = descQueue
        BY <3>2, <1>0, <2>1, <2>2
      <4>4. Len(copyQueue') <= CopyCapacity
        BY <4>2, <3>2, <1>0, <2>1, QueuesAssumption
      <4>5. freeBlocks' + WithSender' + Len(descQueue') + BeingWritten' = PoolBlocks
        BY <4>3, <2>1, <2>2
      <4>6. freeBlocks' \in 0 .. PoolBlocks
        BY <4>3, <2>1, <2>2, PoolBlocksAssumption
      <4> QED BY <4>2, <4>3, <4>4, <4>5, <4>6, <1>3, <2>1
    <3> QED BY <3>1, <3>2 DEF Paths
  <2> QED BY <1>1, <1>3, <1>5, <2>3
          DEF TypeInv, ChannelTypeOK, SenderPcs, BlocksConserved
<1>7. ActorsInv'
  BY <1>1 DEF ActorsInv
<1>8. NothingLost'
  <2> SUFFICES ASSUME workerPc \in {"loop", "checked", "asleep", "write"},
                      NEW p \in Paths
               PROVE  accepted'[p] = written[p] \o Taken(p) \o QueueOf(p)'
    BY <1>1 DEF NothingLost, Taken
  <2>1. accepted[p] = written[p] \o Taken(p) \o QueueOf(p)
    BY DEF NothingLost
  <2>2. CASE p # path
    BY <2>1, <2>2, <1>0, <1>3 DEF QueueOf, Paths
  <2>3. CASE p = path
    <3>1. QueueOf(p)' = Append(QueueOf(p), Sending) /\ QueueOf(p) \in Seq(Blocks)
      BY <2>3, <1>0, <1>3 DEF QueueOf, Paths
    <3>2. Taken(p) \in Seq(Blocks) /\ written[p] \in Seq(Blocks)
      BY <1>3, TakenIsASeq
    <3>3. accepted'[p] = Append(accepted[p], Sending)
      BY <2>3, <1>3
    <3>4. Append(written[p] \o Taken(p) \o QueueOf(p), Sending)
            = written[p] \o Taken(p) \o Append(QueueOf(p), Sending)
      BY <3>1, <3>2, <1>2, AcceptAtTheEnd
    <3> QED BY <3>1, <3>3, <3>4, <2>1
  <2> QED BY <2>2, <2>3
<1>9. PathsInOrder'
  <2> SUFFICES ASSUME NEW p \in Paths PROVE IsPrefix(written[p], accepted'[p])
    BY <1>1 DEF PathsInOrder
  <2>1. IsPrefix(written[p], accepted[p])
    BY DEF PathsInOrder
  <2>2. accepted[p] \in Seq(Blocks) /\ written[p] \in Seq(Blocks)
    BY <1>3
  <2>3. accepted'[p] = accepted[p] \/ accepted'[p] = Append(accepted[p], Sending)
    BY <1>3
  <2> QED BY <2>1, <2>2, <2>3, <1>2, PrefixOfAppend
<1> QED BY <1>6, <1>7, <1>8, <1>9

\* A step that moves no block from where it is, or gives the sender's back.
LEMMA NoBlockMoves ==
  ASSUME IInv, ActorsInv', UNCHANGED <<queueVars, historyVars, writing>>,
         \/ workerPc' = workerPc
         \/ workerPc \in {"loop", "checked", "asleep"} /\ workerPc' \in WorkerPcs \ {"write"},
         workerPc' \in {"loop", "checked", "asleep", "write"}
           => workerPc \in {"loop", "checked", "asleep", "write"},
         threadState' \in ThreadStates, senderPc' \in SenderPcs, ownerPc' \in OwnerPcs,
         stopFlag' \in BOOLEAN, sendStopped' \in BOOLEAN, UNCHANGED usesPool,
         senderPc' \in {"send", "failed"} => senderPc \in {"send", "failed"},
         freeBlocks' + WithSender' = freeBlocks + WithSender, freeBlocks' \in Nat
  PROVE  IInv'
<1> USE DEF IInv, queueVars, historyVars
<1>1. workerPc' = "write" <=> workerPc = "write"
  OBVIOUS
<1>2. BeingWritten' = BeingWritten /\ \A p \in Paths : Taken(p)' = Taken(p)
  BY <1>1 DEF BeingWritten, Taken
<1>3. WithSender \in {0, 1} /\ WithSender' \in {0, 1} /\ BeingWritten \in {0, 1}
  BY DEF WithSender, BeingWritten
<1>4. Len(descQueue) \in Nat /\ freeBlocks \in Nat
  BY LenProperties, PoolBlocksAssumption DEF TypeInv, ChannelTypeOK
<1>5. BlocksConserved' /\ freeBlocks' \in 0 .. PoolBlocks
  <2>1. Len(descQueue') = Len(descQueue)
    OBVIOUS
  <2>2. freeBlocks + WithSender + Len(descQueue) + BeingWritten = PoolBlocks
    BY DEF BlocksConserved
  <2>3. freeBlocks' + WithSender' + Len(descQueue') + BeingWritten' = PoolBlocks
    BY <1>2, <1>3, <1>4, <2>1, <2>2
  <2>4. freeBlocks' <= PoolBlocks
    BY <1>2, <1>3, <1>4, <2>1, <2>3, PoolBlocksAssumption
  <2> QED BY <2>3, <2>4, PoolBlocksAssumption DEF BlocksConserved
<1>6. TypeInv'
  <2>1. Sending' = Sending
    BY DEF Sending
  <2>2. workerPc' \in WorkerPcs
    BY DEF TypeInv, ChannelTypeOK
  <2> QED BY <1>1, <1>5, <2>1, <2>2 DEF TypeInv, ChannelTypeOK
<1>7. NothingLost' /\ PathsInOrder'
  BY <1>2 DEF NothingLost, QueueOf, PathsInOrder
<1> QED BY <1>5, <1>6, <1>7

\* The rest of the sender: a failed Send, a notified worker, a repeated or
\* abandoned block.
LEMMA SenderInv == IInv /\ Sender => IInv'
<1> SUFFICES ASSUME IInv, Sender PROVE IInv'
  OBVIOUS
<1> USE DEF workerVars, ownerVars
<1>0. /\ freeBlocks \in Nat /\ usesPool \in BOOLEAN /\ stopFlag \in BOOLEAN
      /\ sendStopped \in BOOLEAN /\ threadState \in ThreadStates
      /\ ownerPc \in OwnerPcs /\ workerPc \in WorkerPcs /\ ActorsInv
  BY PoolBlocksAssumption DEF IInv, TypeInv, ChannelTypeOK
<1>1. CASE TakeBlock
  BY <1>1, TakeBlockInv
<1>2. CASE QueueBlock
  BY <1>2, QueueBlockInv
<1>3. CASE SendFails
  <2>1. freeBlocks' + WithSender' = freeBlocks + WithSender
    BY <1>3 DEF SendFails, WithSender
  <2>2. ActorsInv' /\ senderPc' \in SenderPcs /\ senderPc = "send"
    BY <1>3, <1>0 DEF SendFails, ActorsInv, SenderPcs, queueVars
  <2> QED BY <1>0, <1>3, <2>1, <2>2, NoBlockMoves DEF SendFails
<1>4. CASE NotifyWorker
  <2>1. freeBlocks' + WithSender' = freeBlocks + WithSender
    BY <1>4 DEF NotifyWorker, WithSender
  <2>2. ActorsInv' /\ senderPc' = "idle" /\ senderPc' \in SenderPcs
    BY <1>4, <1>0 DEF NotifyWorker, ActorsInv, SenderPcs, queueVars, Awake
  <2>3. \/ workerPc' = workerPc
        \/ workerPc = "asleep" /\ workerPc' = "loop"
    BY <1>4 DEF NotifyWorker, Awake
  <2> QED BY <1>0, <1>4, <2>1, <2>2, <2>3, NoBlockMoves DEF NotifyWorker, WorkerPcs
<1>5. CASE RetryOrGiveUp
  <2>1. freeBlocks' + WithSender' = freeBlocks + WithSender /\ freeBlocks' \in Nat
    BY <1>5, <1>0 DEF RetryOrGiveUp, WithSender
  <2>2. ActorsInv' /\ senderPc' \in {"send", "idle"} /\ senderPc' \in SenderPcs
    BY <1>5, <1>0 DEF RetryOrGiveUp, ActorsInv, SenderPcs, queueVars
  <2>3. senderPc = "failed"
    BY <1>5 DEF RetryOrGiveUp
  <2> QED BY <1>0, <1>5, <2>1, <2>2, <2>3, NoBlockMoves DEF RetryOrGiveUp
<1> QED BY <1>1, <1>2, <1>3, <1>4, <1>5 DEF Sender

\* The worker takes the head of one path's queue: the block stays counted and
\* stays the next one of its path.
LEMMA FetchBlockInv == IInv /\ FetchBlock => IInv'
<1> SUFFICES ASSUME IInv, FetchBlock PROVE IInv'
  OBVIOUS
<1> USE DEF IInv, historyVars, ownerVars
<1>0. PICK path \in Paths :
        /\ QueueOf(path) # <<>>
        /\ writing' = <<Entry(QueueOf(path), path)>>
        /\ path = "descriptor" => descQueue' = Tail(descQueue) /\ UNCHANGED copyQueue
        /\ path = "copy" => copyQueue' = Tail(copyQueue) /\ UNCHANGED descQueue
  <2>1. CASE GetDescriptor
    <3> QED BY <2>1 DEF GetDescriptor, QueueOf, Paths
  <2>2. CASE GetCopy
    <3> QED BY <2>2 DEF GetCopy, QueueOf, Paths
  <2> QED BY <2>1, <2>2 DEF FetchBlock
<1>1. /\ workerPc = "loop" /\ workerPc' = "write"
      /\ UNCHANGED <<historyVars, ownerVars, freeBlocks, senderPc, threadState>>
  BY DEF FetchBlock
<1>2. /\ descQueue \in Seq(Blocks) /\ copyQueue \in Seq(Blocks)
      /\ written \in [Paths -> Seq(Blocks)] /\ QueueOf(path) \in Seq(Blocks)
  BY DEF TypeInv, ChannelTypeOK, QueueOf
<1>3. /\ Head(QueueOf(path)) \in Blocks /\ Tail(QueueOf(path)) \in Seq(Blocks)
      /\ Len(Tail(QueueOf(path))) = Len(QueueOf(path)) - 1
      /\ Len(descQueue) \in Nat /\ Len(copyQueue) \in Nat
  BY <1>0, <1>2, HeadTailProperties, LenProperties
<1>4. /\ writing'[1] = [block |-> Head(QueueOf(path)), path |-> path]
      /\ writing' \in Seq(Entries) /\ Len(writing') = 1
  <2>1. Entry(QueueOf(path), path) \in Entries
    BY <1>3 DEF Entry, Entries
  <2> QED BY <1>0, <2>1 DEF Entry
<1>5. /\ QueueOf(path)' = Tail(QueueOf(path))
      /\ \A p \in Paths \ {path} : QueueOf(p)' = QueueOf(p)
  BY <1>0 DEF QueueOf, Paths
<1>6. /\ BeingWritten = 0
      /\ BeingWritten' = IF path = "descriptor" THEN 1 ELSE 0
      /\ WithSender' = WithSender
  BY <1>1, <1>4 DEF BeingWritten, WithSender
<1>7. /\ descQueue' \in Seq(Blocks)
      /\ Len(descQueue') = IF path = "descriptor" THEN Len(descQueue) - 1
                                                  ELSE Len(descQueue)
  BY <1>0, <1>2, <1>3 DEF QueueOf, Paths
<1>8. /\ copyQueue' \in Seq(Blocks)
      /\ Len(copyQueue') = IF path = "copy" THEN Len(copyQueue) - 1 ELSE Len(copyQueue)
  BY <1>0, <1>2, <1>3 DEF QueueOf, Paths
<1>9. BlocksConserved'
  <2>1. Len(descQueue') + BeingWritten' = Len(descQueue) + BeingWritten
    BY <1>3, <1>6, <1>7
  <2>2. BeingWritten' \in Nat /\ Len(descQueue') \in Nat
    BY <1>6, <1>7, LenProperties
  <2>3. freeBlocks \in Nat /\ WithSender \in Nat
    BY PoolBlocksAssumption DEF TypeInv, ChannelTypeOK, WithSender
  <2> QED BY <1>1, <1>3, <1>6, <2>1, <2>2, <2>3 DEF BlocksConserved
<1>10. TypeInv'
  <2>1. Sending' = Sending /\ workerPc' \in WorkerPcs
    BY <1>1 DEF Sending, WorkerPcs
  <2>2. Len(descQueue') <= DescCapacity /\ Len(copyQueue') <= CopyCapacity
    BY <1>3, <1>7, <1>8, QueuesAssumption DEF TypeInv, ChannelTypeOK
  <2> QED BY <1>1, <1>4, <1>7, <1>8, <2>1, <2>2 DEF TypeInv, ChannelTypeOK
<1>11. ActorsInv' /\ PathsInOrder'
  BY <1>1 DEF ActorsInv, PathsInOrder
<1>12. NothingLost'
  <2> SUFFICES ASSUME NEW p \in Paths
               PROVE  accepted[p] = written[p] \o Taken(p)' \o QueueOf(p)'
    BY <1>1 DEF NothingLost
  <2>1. accepted[p] = written[p] \o <<>> \o QueueOf(p)
    BY <1>1 DEF NothingLost, Taken
  <2>2. CASE p # path
    <3>1. Taken(p)' = <<>>
      BY <2>2, <1>4 DEF Taken
    <3> QED BY <2>1, <2>2, <3>1, <1>5
  <2>3. CASE p = path
    <3>1. Taken(p)' = <<Head(QueueOf(p))>>
      BY <2>3, <1>1, <1>4 DEF Taken
    <3>2. written[p] \in Seq(Blocks) /\ QueueOf(p) \in Seq(Blocks) /\ QueueOf(p) # <<>>
      BY <2>3, <1>0, <1>2
    <3> QED BY <2>1, <2>3, <3>1, <3>2, <1>5, TakeFromTheHead
  <2> QED BY <2>2, <2>3
<1> QED BY <1>9, <1>10, <1>11, <1>12

\* What the worker has in its hands while it writes.
LEMMA InHand ==
  ASSUME TypeInv, workerPc = "write"
  PROVE  /\ writing[1].path \in Paths /\ writing[1].block \in Blocks
         /\ Taken(writing[1].path) = <<writing[1].block>>
         /\ \A p \in Paths \ {writing[1].path} : Taken(p) = <<>>
<1>1. writing \in Seq(Entries) /\ 1 \in 1 .. Len(writing)
  BY DEF TypeInv, ChannelTypeOK
<1>2. writing[1] \in Entries
  BY <1>1, ElementOfSeq
<1> QED BY <1>2 DEF Entries, Taken

\* After the write, failed or not, a pool block is free and the count is right.
LEMMA WriteFreesBlock ==
  ASSUME IInv, workerPc = "write", FreeWritten, workerPc' # "write",
         UNCHANGED <<descQueue, usesPool, senderPc>>
  PROVE  BlocksConserved' /\ freeBlocks' \in 0 .. PoolBlocks
<1>1. /\ freeBlocks \in Nat /\ WithSender \in Nat /\ Len(descQueue) \in Nat
      /\ WithSender' = WithSender /\ Len(descQueue') = Len(descQueue)
  BY LenProperties, PoolBlocksAssumption DEF IInv, TypeInv, ChannelTypeOK, WithSender
<1>2. freeBlocks' = freeBlocks + BeingWritten /\ BeingWritten' = 0
      /\ BeingWritten \in Nat
  BY <1>1 DEF FreeWritten, BeingWritten
<1>3. freeBlocks + WithSender + Len(descQueue) + BeingWritten = PoolBlocks
  BY DEF IInv, BlocksConserved
<1>4. freeBlocks' + WithSender' + Len(descQueue') + BeingWritten' = PoolBlocks
  BY <1>1, <1>2, <1>3
<1>5. freeBlocks' \in 0 .. PoolBlocks
  BY <1>1, <1>2, <1>3, PoolBlocksAssumption
<1> QED BY <1>4, <1>5 DEF BlocksConserved

\* A written block is the next one of its path.
LEMMA WriteSucceedsInv == IInv /\ WriteSucceeds => IInv'
<1> SUFFICES ASSUME IInv, WriteSucceeds PROVE IInv'
  OBVIOUS
<1> DEFINE path == writing[1].path
           b == writing[1].block
<1>1. /\ workerPc = "write" /\ workerPc' = "loop" /\ FreeWritten /\ writing' = <<>>
      /\ written' = [written EXCEPT ![path] = Append(@, b)]
      /\ UNCHANGED <<queueVars, accepted, ownerVars, senderPc, threadState>>
  BY DEF WriteSucceeds
<1>2. /\ path \in Paths /\ b \in Blocks /\ Taken(path) = <<b>>
      /\ \A p \in Paths \ {path} : Taken(p) = <<>>
  BY <1>1, InHand DEF IInv
<1>3. /\ written \in [Paths -> Seq(Blocks)] /\ accepted \in [Paths -> Seq(Blocks)]
      /\ \A p \in Paths : QueueOf(p) \in Seq(Blocks) /\ QueueOf(p)' = QueueOf(p)
  BY <1>1 DEF IInv, TypeInv, ChannelTypeOK, QueueOf, queueVars
<1>4. \A p \in Paths : Taken(p)' = <<>>
  BY <1>1 DEF Taken
<1>5. Append(written[path], b) \in Seq(Blocks)
  BY <1>2, <1>3, AppendProperties
<1> HIDE DEF path, b
<1>6. BlocksConserved' /\ freeBlocks' \in 0 .. PoolBlocks
  BY <1>1, WriteFreesBlock DEF queueVars, ownerVars
<1>7. TypeInv'
  <2>1. Sending' = Sending /\ workerPc' \in WorkerPcs
    BY <1>1 DEF Sending, WorkerPcs
  <2>2. writing' \in Seq(Entries) /\ Len(writing') = 0
    BY <1>1, EmptySeq
  <2>3. written' \in [Paths -> Seq(Blocks)]
    BY <1>1, <1>3, <1>5
  <2> QED BY <1>1, <1>6, <2>1, <2>2, <2>3
          DEF IInv, TypeInv, ChannelTypeOK, queueVars, ownerVars
<1>8. ActorsInv'
  BY <1>1 DEF IInv, ActorsInv, queueVars, ownerVars
<1>9. \A p \in Paths : accepted[p] = written'[p] \o <<>> \o QueueOf(p)
  <2> SUFFICES ASSUME NEW p \in Paths
               PROVE  accepted[p] = written'[p] \o <<>> \o QueueOf(p)
    OBVIOUS
  <2>1. accepted[p] = written[p] \o Taken(p) \o QueueOf(p)
    BY <1>1 DEF IInv, NothingLost
  <2>2. CASE p # path
    BY <2>1, <2>2, <1>1, <1>2, <1>3
  <2>3. CASE p = path
    <3>1. written[p] \o <<b>> \o QueueOf(p) = Append(written[p], b) \o <<>> \o QueueOf(p)
      BY <1>2, <1>3, WriteTheTaken
    <3>2. written'[p] = Append(written[p], b) /\ Taken(p) = <<b>>
      BY <2>3, <1>1, <1>2, <1>3
    <3> QED BY <2>1, <3>1, <3>2
  <2> QED BY <2>2, <2>3
<1>10. NothingLost'
  BY <1>1, <1>3, <1>4, <1>9 DEF NothingLost
<1>11. PathsInOrder'
  <2> SUFFICES ASSUME NEW p \in Paths PROVE IsPrefix(written'[p], accepted[p])
    BY <1>1 DEF PathsInOrder
  <2>1. written'[p] \in Seq(Blocks) /\ <<>> \in Seq(Blocks) /\ QueueOf(p) \in Seq(Blocks)
    BY <1>1, <1>3, <1>5, EmptySeq
  <2>2. IsPrefix(written'[p], written'[p] \o <<>> \o QueueOf(p))
    BY <2>1, FirstIsPrefix
  <2> QED BY <2>2, <1>9
<1> QED BY <1>6, <1>7, <1>8, <1>10, <1>11 DEF IInv

\* A failed write ends the worker and cuts the order off.
LEMMA WriteFailsInv == IInv /\ WriteFails => IInv'
<1> SUFFICES ASSUME IInv, WriteFails PROVE IInv'
  OBVIOUS
<1>1. /\ workerPc = "write" /\ workerPc' = "exited" /\ threadState' = "Error"
      /\ FreeWritten /\ writing' = <<>>
      /\ UNCHANGED <<queueVars, historyVars, ownerVars, senderPc>>
  BY DEF WriteFails
<1>2. BlocksConserved' /\ freeBlocks' \in 0 .. PoolBlocks
  BY <1>1, WriteFreesBlock DEF queueVars, ownerVars
<1>3. TypeInv'
  <2>1. Sending' = Sending /\ workerPc' \in WorkerPcs /\ threadState' \in ThreadStates
    BY <1>1 DEF Sending, WorkerPcs, ThreadStates, historyVars
  <2>2. writing' \in Seq(Entries) /\ Len(writing') = 0
    BY <1>1, EmptySeq
  <2> QED BY <1>1, <1>2, <2>1, <2>2
          DEF IInv, TypeInv, ChannelTypeOK, queueVars, ownerVars, historyVars
<1>4. ActorsInv' /\ NothingLost' /\ PathsInOrder'
  BY <1>1 DEF IInv, ActorsInv, NothingLost, PathsInOrder, ownerVars, historyVars
<1> QED BY <1>2, <1>3, <1>4 DEF IInv

\* The worker.
LEMMA WorkerInv == IInv /\ Worker => IInv'
<1> SUFFICES ASSUME IInv, Worker PROVE IInv'
  OBVIOUS
<1>1. CASE WorkerExits \/ WaitForData
  <2>1. /\ workerPc \in {"loop", "checked"} /\ workerPc' \in {"checked", "asleep", "exited"}
        /\ UNCHANGED <<queueVars, historyVars, ownerVars, freeBlocks, senderPc, threadState,
                       writing>>
    BY <1>1 DEF WorkerExits, WaitForData
  <2>2. freeBlocks' + WithSender' = freeBlocks + WithSender
    BY <2>1 DEF WithSender, ownerVars
  <2>3. /\ freeBlocks \in Nat /\ stopFlag \in BOOLEAN /\ sendStopped \in BOOLEAN
        /\ threadState \in ThreadStates /\ ownerPc \in OwnerPcs /\ senderPc \in SenderPcs
    BY PoolBlocksAssumption DEF IInv, TypeInv, ChannelTypeOK
  <2>4. ActorsInv'
    BY <2>1 DEF IInv, ActorsInv, ownerVars, queueVars
  <2> QED BY <2>1, <2>2, <2>3, <2>4, NoBlockMoves DEF WorkerPcs, ownerVars
<1> QED BY <1>1, FetchBlockInv, WriteSucceedsInv, WriteFailsInv DEF Worker

\* A new session starts with a full pool, empty queues and idle threads.
LEMMA StartInv == IInv /\ StartTransfer => IInv'
<1> SUFFICES ASSUME IInv, StartTransfer PROVE IInv'
  OBVIOUS
<1>1. /\ ownerPc = "idle" /\ ownerPc' = "running" /\ threadState' = "Running"
      /\ stopFlag' = FALSE /\ sendStopped' = FALSE /\ workerPc' = "loop"
      /\ senderPc' = "idle" /\ descQueue' = <<>> /\ copyQueue' = <<>>
      /\ accepted' = Nothing /\ written' = Nothing /\ usesPool' \in BOOLEAN
      /\ freeBlocks' = PoolBlocks /\ UNCHANGED writing
  BY DEF StartTransfer
<1>2. writing' \in Seq(Entries) /\ Len(writing') = 0
  BY <1>1 DEF IInv, TypeInv, ChannelTypeOK, ActorsInv
<1>3. <<>> \in Seq(Blocks) /\ Len(<<>>) = 0
  BY EmptySeq
<1>4. Nothing \in [Paths -> Seq(Blocks)]
  BY <1>3 DEF Nothing
<1>5. TypeInv'
  <2>1. /\ threadState' \in ThreadStates /\ workerPc' \in WorkerPcs
        /\ senderPc' \in SenderPcs /\ ownerPc' \in OwnerPcs
        /\ workerPc' # "write" /\ senderPc' \notin {"send", "failed"}
    BY <1>1 DEF ThreadStates, WorkerPcs, SenderPcs, OwnerPcs
  <2>2. Len(<<>>) <= DescCapacity /\ Len(<<>>) <= CopyCapacity
        /\ freeBlocks' \in 0 .. PoolBlocks
    BY <1>1, <1>3, QueuesAssumption, PoolBlocksAssumption
  <2> QED BY <1>1, <1>2, <1>3, <1>4, <2>1, <2>2 DEF TypeInv, ChannelTypeOK
<1>6. ActorsInv'
  BY <1>1 DEF ActorsInv
<1>7. BlocksConserved'
  <2>1. WithSender' = 0 /\ BeingWritten' = 0
    BY <1>1 DEF WithSender, BeingWritten
  <2> QED BY <1>1, <1>3, <2>1, PoolBlocksAssumption DEF BlocksConserved
<1>8. NothingLost'
  <2>1. \A p \in Paths : Taken(p)' = <<>> /\ QueueOf(p)' = <<>>
    BY <1>1 DEF Taken, QueueOf
  <2> QED BY <1>1, <2>1, NothingOnPath, EmptyPath DEF NothingLost
<1>9. PathsInOrder'
  BY <1>1, NothingOnPath, EmptyPath DEF PathsInOrder
<1> QED BY <1>5, <1>6, <1>7, <1>8, <1>9 DEF IInv

\* The owner joins the worker and gives the descriptors left over back.
LEMMA JoinInv == IInv /\ JoinAndDrain => IInv'
<1> SUFFICES ASSUME IInv, JoinAndDrain PROVE IInv'
  OBVIOUS
<1>1. /\ ownerPc = "join" /\ ownerPc' = "idle" /\ threadState' = "Stopped"
      /\ workerPc = "exited" /\ workerPc' = "none" /\ descQueue' = <<>>
      /\ freeBlocks' = freeBlocks + Len(descQueue)
      /\ UNCHANGED <<copyQueue, historyVars, writing, senderPc, stopFlag, usesPool,
                     sendStopped>>
  BY DEF JoinAndDrain, OwnerGoes
<1>2. senderPc = "none"
  BY <1>1 DEF IInv, ActorsInv
<1>3. <<>> \in Seq(Blocks) /\ Len(<<>>) = 0
  BY EmptySeq
<1>4. freeBlocks' = PoolBlocks
  <2>1. WithSender = 0 /\ BeingWritten = 0
    BY <1>1, <1>2 DEF WithSender, BeingWritten
  <2>2. freeBlocks \in Nat /\ Len(descQueue) \in Nat
    BY LenProperties, PoolBlocksAssumption DEF IInv, TypeInv, ChannelTypeOK
  <2> QED BY <1>1, <2>1, <2>2 DEF IInv, BlocksConserved
<1>5. BlocksConserved'
  <2>1. WithSender' = 0 /\ BeingWritten' = 0
    BY <1>1, <1>2 DEF WithSender, BeingWritten
  <2> QED BY <1>1, <1>3, <1>4, <2>1, PoolBlocksAssumption DEF BlocksConserved
<1>6. TypeInv'
  <2>1. /\ threadState' \in ThreadStates /\ workerPc' \in WorkerPcs /\ ownerPc' \in OwnerPcs
        /\ workerPc' # "write" /\ Sending' = Sending
    BY <1>1 DEF ThreadStates, WorkerPcs, OwnerPcs, Sending, historyVars
  <2>2. Len(<<>>) <= DescCapacity /\ freeBlocks' \in 0 .. PoolBlocks
    BY <1>3, <1>4, QueuesAssumption, PoolBlocksAssumption
  <2> QED BY <1>1, <1>3, <2>1, <2>2 DEF IInv, TypeInv, ChannelTypeOK, historyVars
<1>7. ActorsInv' /\ NothingLost' /\ PathsInOrder'
  BY <1>1, <1>2 DEF IInv, ActorsInv, NothingLost, PathsInOrder, historyVars
<1> QED BY <1>5, <1>6, <1>7 DEF IInv

\* The owner's other steps move no block.
LEMMA OwnerInv ==
  IInv /\ (StartAfterError \/ StopTransfer \/ JoinInput \/ RaiseStop \/ NotifyStop)
    => IInv'
<1> SUFFICES ASSUME IInv,
                    StartAfterError \/ StopTransfer \/ JoinInput \/ RaiseStop \/ NotifyStop
             PROVE  IInv'
  OBVIOUS
<1> USE DEF OwnerGoes, workerVars
<1>0. /\ freeBlocks \in Nat /\ stopFlag \in BOOLEAN /\ sendStopped \in BOOLEAN
      /\ threadState \in ThreadStates /\ senderPc \in SenderPcs /\ workerPc \in WorkerPcs
  BY PoolBlocksAssumption DEF IInv, TypeInv, ChannelTypeOK
<1>1. /\ ownerPc' \in OwnerPcs /\ stopFlag' \in BOOLEAN /\ sendStopped' \in BOOLEAN
      /\ UNCHANGED <<queueVars, historyVars, writing, freeBlocks, usesPool, threadState>>
      /\ \/ workerPc' = workerPc
         \/ workerPc = "asleep" /\ workerPc' = "loop"
      /\ \/ senderPc' = senderPc
         \/ senderPc = "idle" /\ senderPc' = "none"
  <2>1. CASE StartAfterError \/ StopTransfer \/ JoinInput
    BY <2>1, <1>0 DEF StartAfterError, StopTransfer, JoinInput, OwnerPcs
  <2>2. CASE RaiseStop
    BY <2>2, <1>0 DEF RaiseStop, OwnerPcs
  <2>3. CASE NotifyStop
    BY <2>3, <1>0 DEF NotifyStop, OwnerPcs, Awake
  <2> QED BY <2>1, <2>2, <2>3
<1>2. freeBlocks' + WithSender' = freeBlocks + WithSender
  BY <1>1 DEF WithSender
<1>3. ActorsInv'
  BY <1>1 DEF IInv, ActorsInv, StartAfterError, StopTransfer, JoinInput, RaiseStop,
     NotifyStop, queueVars
<1> QED BY <1>0, <1>1, <1>2, <1>3, NoBlockMoves DEF SenderPcs, WorkerPcs

\* Every step keeps the invariant.
LEMMA StepInv == IInv /\ [ChannelNext]_channelVars => IInv'
<1> SUFFICES ASSUME IInv, [ChannelNext]_channelVars PROVE IInv'
  OBVIOUS
<1>1. CASE UNCHANGED channelVars
  BY <1>1 DEF channelVars, queueVars, historyVars, workerVars, ownerVars, IInv, TypeInv,
     ChannelTypeOK, Sending, ActorsInv, BlocksConserved, WithSender, BeingWritten,
     NothingLost, Taken, QueueOf, PathsInOrder
<1>2. CASE ChannelNext
  BY <1>2, SenderInv, WorkerInv, StartInv, JoinInv, OwnerInv DEF ChannelNext, Stopping
<1> QED BY <1>1, <1>2

\* The invariant holds throughout.
LEMMA AlwaysInv == ChannelSpec => []IInv
<1> QED BY InitInv, StepInv, PTL DEF ChannelSpec

-----------------------------------------------------------------------------
(* The theorems.                                                           *)

\* The variables stay in their types, the queues within their capacity and the
\* free blocks within the pool.
THEOREM ChannelTypeCorrect == ChannelSpec => []ChannelTypeOK
<1>1. IInv => ChannelTypeOK
  BY DEF IInv, TypeInv
<1> QED BY <1>1, AlwaysInv, PTL

\* No pool block is lost or given back twice: not by a Send that fails or
\* copies, a failed write, a stop or the drain of the descriptors left over.
THEOREM ChannelConservesBlocks == ChannelSpec => []BlocksConserved
<1>1. IInv => BlocksConserved
  BY DEF IInv
<1> QED BY <1>1, AlwaysInv, PTL

\* The device gets the blocks of each path in the order in which Send accepted
\* them, with no gap and no repetition.
THEOREM ChannelKeepsPathsInOrder == ChannelSpec => []PathsInOrder
<1>1. IInv => PathsInOrder
  BY DEF IInv
<1> QED BY <1>1, AlwaysInv, PTL

\* Until a write fails or a stop ends the worker, every accepted block is
\* written, in the worker's hands or on its queue.
THEOREM AcceptedIsNotLost == ChannelSpec => []NothingLost
<1>1. IInv => NothingLost
  BY DEF IInv
<1> QED BY <1>1, AlwaysInv, PTL

\* A stopped channel holds no pool block and has no thread.
THEOREM ChannelStopsClean == ChannelSpec => []StoppedIsClean
<1>1. IInv => StoppedIsClean
  <2> SUFFICES ASSUME IInv, threadState = "Stopped" PROVE StoppedIsClean
    BY DEF StoppedIsClean
  <2>1. /\ workerPc = "none" /\ senderPc = "none" /\ descQueue = <<>>
    BY DEF IInv, ActorsInv
  <2>2. writing = <<>>
    BY <2>1, EmptySeq DEF IInv, TypeInv, ChannelTypeOK
  <2>3. WithSender = 0 /\ BeingWritten = 0 /\ Len(descQueue) = 0
    BY <2>1, EmptySeq DEF WithSender, BeingWritten
  <2>4. freeBlocks = PoolBlocks
    BY <2>3, PoolBlocksAssumption DEF IInv, TypeInv, ChannelTypeOK, BlocksConserved
  <2> QED BY <2>1, <2>2, <2>4 DEF StoppedIsClean
<1> QED BY <1>1, AlwaysInv, PTL

-----------------------------------------------------------------------------
(* A missed stop.                                                          *)

\* Stop has notified and is in the join, and the worker is asleep: it looked
\* at its predicate before the flag was raised and went to sleep after the
\* notification.
MissedStop == ownerPc = "join" /\ workerPc = "asleep"

\* Nobody is left who could wake the worker.
LEMMA MissedStopStays == ActorsInv /\ MissedStop /\ [ChannelNext]_channelVars => MissedStop'
<1> SUFFICES ASSUME ActorsInv, MissedStop, [ChannelNext]_channelVars PROVE MissedStop'
  OBVIOUS
<1> USE DEF MissedStop
<1>1. ~Sender
  BY DEF ActorsInv, Sender, TakeBlock, QueueBlock, SendFails, NotifyWorker, RetryOrGiveUp
<1>2. ~Worker
  BY DEF Worker, WorkerExits, WaitForData, FetchBlock, WriteSucceeds, WriteFails
<1>3. ~StartTransfer /\ ~StartAfterError /\ ~StopTransfer /\ ~Stopping
  BY DEF StartTransfer, StartAfterError, StopTransfer, Stopping, JoinInput, RaiseStop,
     NotifyStop, JoinAndDrain, OwnerGoes
<1>4. UNCHANGED channelVars
  BY <1>1, <1>2, <1>3 DEF ChannelNext
<1> QED BY <1>4 DEF channelVars, workerVars, ownerVars

\* Stop notifies without data_mutex_, and where that notification is missed the
\* worker sleeps and the join waits for good: the input's output thread is gone,
\* so no Send will pass through the mutex any more.
THEOREM MissedStopIsForGood == ChannelSpec => [](MissedStop => []MissedStop)
<1>1. IInv => ActorsInv
  BY DEF IInv
<1>2. []IInv /\ [][ChannelNext]_channelVars => [](MissedStop => []MissedStop)
  BY <1>1, MissedStopStays, PTL
<1> QED BY <1>2, AlwaysInv, PTL DEF ChannelSpec
=============================================================================
