----------------------------- MODULE MCWindow_proofs -----------------------------
(***************************************************************************)
(* Proofs about the sources that MCWindow puts side by side, and about the *)
(* window, for every ring, every number of requests in flight, every file  *)
(* and every number of sessions.  Each part is proved about on its own and *)
(* the results are carried over to PartsSpec at the end.                   *)
(***************************************************************************)
EXTENDS MCWindow, MemorySource_proofs, SequenceTheorems, FiniteSetTheorems, TLAPS

(***************************************************************************)
(* The IOCP reader.                                                        *)
(*                                                                         *)
(* What is true of the reader's thread and of the output thread in each    *)
(* state of the window.                                                    *)
(***************************************************************************)
IocpOwnerInv ==
  /\ iocpOwner \in Iocp!OwnerPcs
  /\ iocpStop \in BOOLEAN /\ iocpRequested \in BOOLEAN
  /\ iocpOwner = "idle" => /\ readerPc = "none" /\ iocpOut = "none"
                           /\ iocpCounter = 0 /\ activeRequests = 0 /\ initialLeft = 0
                           /\ batch = {}
  /\ iocpOwner \in {"running", "join"} => readerPc # "none" /\ iocpOut # "none" /\ ~iocpStop
  /\ iocpOwner = "stopOutput" => readerPc = "exited" /\ iocpOut # "none" /\ ~iocpStop
  /\ iocpOwner = "joinOutput" => readerPc = "exited" /\ iocpOut # "none" /\ iocpStop
  /\ iocpOwner = "stopped" => readerPc = "exited" /\ iocpOut = "none"

(***************************************************************************)
(* Where the thread is, between its initial requests and the end of its    *)
(* loop.                                                                   *)
(***************************************************************************)
InLoop == {"wait", "collected", "process", "mark", "next"}
Submitting == {"gate", "issue"}
Counting == InLoop \union Submitting \union {"initial"}

\* A number is taken only while there are bytes left, and there are none left
\* once the bound on the numbers is reached.
IocpReaderInv ==
  /\ readerPc \in Iocp!ReaderPcs
  /\ iocpCounter \in 0 .. MaxRequests
  /\ readerPc \in Submitting => iocpCounter > 0
  /\ remaining \in BOOLEAN /\ lastFile \in BOOLEAN /\ loop \in BOOLEAN
  /\ readerPc \in InLoop \union {"initial"} /\ remaining => iocpCounter < MaxRequests
  /\ initialLeft \in 0 .. IoRequestNum
  /\ readerPc \in InLoop => initialLeft = 0
  /\ readerPc = "initial" => batch = {}
  /\ readerPc \in Submitting /\ initialLeft > 0 => batch = {}
  /\ readerPc = "wait" => batch = {}

\* The reads the thread answers for.
Reads == inFlight \union queued \union batch
Issued == IF readerPc \in Submitting THEN iocpCounter - 1 ELSE iocpCounter

\* A read is in one place.
IocpPlaceInv ==
  /\ Reads \subseteq 0 .. (MaxRequests - 1)
  /\ \A r \in Reads : r < iocpCounter
  /\ readerPc \in Counting => /\ \A r \in Reads : r < Issued
                              /\ inFlight \intersect batch = {}
                              /\ queued \intersect batch = {}
  /\ inFlight \intersect queued = {}
  /\ readerPc = "mark" => current \notin Reads
  /\ current \in 0 .. (MaxRequests - 1) \union {NoBlock}
  /\ readerPc = "mark" => current \in 0 .. (MaxRequests - 1) /\ current < iocpCounter

(***************************************************************************)
(* active_requests counts the reads the thread answers for.  A break drops *)
(* completions from the batch that are counted, so that at the end of the  *)
(* loop it may count too many, but never too few.                          *)
(***************************************************************************)
IocpCountInv ==
  /\ activeRequests \in Nat
  /\ readerPc \in Counting => activeRequests = Cardinality(Reads)
  /\ readerPc = "drain" => Cardinality(inFlight \union queued) <= activeRequests
  /\ readerPc \in {"none", "exited"} => inFlight = {} /\ queued = {}
  /\ activeRequests + initialLeft <= IoRequestNum
  /\ readerPc \in {"mark", "next"} => activeRequests < IoRequestNum
  /\ readerPc \in Submitting /\ initialLeft = 0 => activeRequests < IoRequestNum

IocpInv == IocpOwnerInv /\ IocpReaderInv /\ IocpPlaceInv /\ IocpCountInv

threadVars == <<iocpCounter, inFlight, queued, batch, current, activeRequests,
                initialLeft, remaining, lastFile, loop, readerPc>>

-----------------------------------------------------------------------------
(* The counting of reads.                                                  *)

\* The reader's count is the one of the theorems.
LEMMA SameCardinality == \A S : Iocp!Cardinality(S) = Cardinality(S)
  BY DEF Iocp!Cardinality, Cardinality

\* The sets of reads can be counted.
LEMMA ReadsFinite ==
  ASSUME IocpPlaceInv
  PROVE  /\ IsFiniteSet(Reads) /\ IsFiniteSet(inFlight) /\ IsFiniteSet(queued)
         /\ IsFiniteSet(inFlight \union queued)
         /\ Cardinality(Reads) \in Nat /\ Cardinality(inFlight \union queued) \in Nat
         /\ Cardinality(inFlight \union queued) <= Cardinality(Reads)
<1>1. IsFiniteSet(0 .. (MaxRequests - 1))
  BY FS_Interval, MaxRequestsAssumption
<1>2. IsFiniteSet(Reads)
  BY <1>1, FS_Subset DEF IocpPlaceInv
<1>3. IsFiniteSet(inFlight) /\ IsFiniteSet(queued) /\ IsFiniteSet(inFlight \union queued)
  BY <1>2, FS_Subset DEF Reads
<1>4. Cardinality(inFlight \union queued) <= Cardinality(Reads)
  BY <1>2, FS_Subset DEF Reads
<1> QED BY <1>2, <1>3, <1>4, FS_CardinalityType

\* Initially there is no thread.
LEMMA IocpInitInv == Iocp!Init => IocpInv
<1> SUFFICES ASSUME Iocp!Init PROVE IocpInv
  OBVIOUS
<1>1. IocpOwnerInv
  BY DEF Iocp!Init, Iocp!ODPInit, IocpOwnerInv, Iocp!OwnerPcs
<1>2. remaining \in BOOLEAN /\ lastFile \in BOOLEAN /\ loop \in BOOLEAN
  BY DEF Iocp!Init
<1>3. IocpReaderInv
  BY <1>2, MaxRequestsAssumption, IoRequestNumAssumption
  DEF Iocp!Init, IocpReaderInv, Iocp!ReaderPcs, InLoop, Submitting
<1>4. IocpPlaceInv
  BY DEF Iocp!Init, IocpPlaceInv, Reads, Counting, InLoop, Submitting
<1>5. IocpCountInv
  BY IoRequestNumAssumption DEF Iocp!Init, IocpCountInv, Counting, InLoop, Submitting
<1> QED BY <1>1, <1>3, <1>4, <1>5 DEF IocpInv

-----------------------------------------------------------------------------
(* The reader's steps.                                                     *)

\* The numbers of the requests.
LEMMA IocpNumbers ==
  ASSUME IocpInv
  PROVE  /\ MaxRequests \in Nat /\ IoRequestNum \in Nat \ {0}
         /\ iocpCounter \in Nat /\ iocpCounter <= MaxRequests
         /\ activeRequests \in Nat /\ initialLeft \in Nat
         /\ activeRequests + initialLeft <= IoRequestNum
  BY MaxRequestsAssumption, IoRequestNumAssumption
  DEF IocpInv, IocpReaderInv, IocpCountInv

\* A number is taken: it is larger than all others.
LEMMA IocpClaims ==
  ASSUME IocpInv, Iocp!ClaimInitial \/ Iocp!ClaimNext
  PROVE  IocpReaderInv' /\ IocpPlaceInv' /\ IocpCountInv'
<1> USE DEF Iocp!ClaimInitial, Iocp!ClaimNext, Iocp!Claim, Iocp!Goes, Iocp!readVars,
            Iocp!fileVars, Iocp!ReaderPcs, Counting, InLoop, Submitting, Reads
<1>1. /\ readerPc \in {"initial", "next"} /\ readerPc' = "gate" /\ remaining
      /\ readerPc = "initial" => initialLeft > 0 /\ batch = {}
      /\ readerPc = "next" => initialLeft = 0
      /\ iocpCounter' = iocpCounter + 1
      /\ UNCHANGED <<inFlight, queued, batch, current, activeRequests, initialLeft,
                     remaining, lastFile, loop>>
  BY DEF IocpInv, IocpReaderInv
<1>2. IocpReaderInv'
  BY <1>1, IocpNumbers DEF IocpInv, IocpReaderInv
<1>3. IocpPlaceInv'
  BY <1>1, IocpNumbers DEF IocpInv, IocpPlaceInv, Issued
<1>4. IocpCountInv'
  BY <1>1, IocpNumbers DEF IocpInv, IocpCountInv
<1> QED BY <1>2, <1>3, <1>4

\* The request's read is handed to the kernel, or never issued.
LEMMA IocpIssues ==
  ASSUME IocpInv, Iocp!PassGate \/ Iocp!IssueRead \/ Iocp!IssueFails
  PROVE  IocpReaderInv' /\ IocpPlaceInv' /\ IocpCountInv'
<1> USE DEF Iocp!Goes, Iocp!readVars, Iocp!fileVars, Iocp!ReaderPcs, Counting, InLoop,
            Submitting, Iocp!Claimed
<1>0. IocpPlaceInv /\ IocpReaderInv /\ IocpCountInv
  BY DEF IocpInv
<1>1. CASE Iocp!PassGate
  <2>1. /\ readerPc = "gate" /\ readerPc' = "issue"
        /\ UNCHANGED <<iocpCounter, inFlight, queued, batch, current, activeRequests,
                       initialLeft, remaining, lastFile, loop>>
    BY <1>1 DEF Iocp!PassGate
  <2>2. IocpReaderInv'
    BY <1>0, <2>1 DEF IocpReaderInv
  <2>3. IocpPlaceInv' /\ IocpCountInv'
    BY <1>0, <2>1 DEF IocpPlaceInv, IocpCountInv, Reads, Issued
  <2> QED BY <2>2, <2>3
<1>2. CASE Iocp!IssueRead
  <2> DEFINE c == iocpCounter - 1
  <2>1. /\ readerPc = "issue"
        /\ readerPc' = IF initialLeft > 0 THEN "initial" ELSE "process"
        /\ inFlight' = inFlight \union {c}
        /\ activeRequests' = activeRequests + 1
        /\ initialLeft' = IF initialLeft > 0 THEN initialLeft - 1 ELSE 0
        /\ remaining' \in Iocp!MayRemain
        /\ UNCHANGED <<iocpCounter, queued, batch, current, lastFile, loop>>
    BY <1>2 DEF Iocp!IssueRead
  <2>2. remaining' \in BOOLEAN /\ (remaining' => iocpCounter < MaxRequests)
    BY <2>1 DEF Iocp!MayRemain
  <2>3. c \in 0 .. (MaxRequests - 1) /\ c \notin Reads /\ c < iocpCounter
    BY <1>0, <2>1, IocpNumbers DEF IocpReaderInv, IocpPlaceInv, Issued
  <2>4. Reads' = Reads \union {c}
    BY <2>1 DEF Reads
  <2> HIDE DEF c
  <2>5. Cardinality(Reads') = Cardinality(Reads) + 1
    BY <1>0, <2>3, <2>4, ReadsFinite, FS_AddElement
  <2>6. IocpReaderInv'
    BY <1>0, <2>1, <2>2, IocpNumbers DEF IocpReaderInv
  <2>7. IocpPlaceInv'
    <3>1. /\ Reads' \subseteq 0 .. (MaxRequests - 1)
          /\ \A r \in Reads' : r < iocpCounter
      BY <1>0, <2>3, <2>4 DEF IocpPlaceInv
    <3>2. inFlight' \intersect batch' = {} /\ inFlight' \intersect queued' = {}
      BY <1>0, <2>1, <2>3 DEF IocpPlaceInv, Reads
    <3> QED BY <1>0, <2>1, <3>1, <3>2 DEF IocpPlaceInv, Issued
  <2>8. IocpCountInv'
    BY <1>0, <2>1, <2>5, IocpNumbers DEF IocpCountInv
  <2> QED BY <2>6, <2>7, <2>8
<1>3. CASE Iocp!IssueFails
  <2> DEFINE c == iocpCounter - 1
  <2>1. /\ readerPc = "issue" /\ readerPc' \in {"undefined", "drain"}
        /\ batch' = batch \union {c}
        /\ UNCHANGED <<iocpCounter, inFlight, queued, current, activeRequests,
                       initialLeft, remaining, lastFile, loop>>
    BY <1>3 DEF Iocp!IssueFails
  <2>2. IocpReaderInv'
    BY <1>0, <2>1 DEF IocpReaderInv
  <2>3. c \in 0 .. (MaxRequests - 1) /\ c < iocpCounter /\ Reads' = Reads \union {c}
    BY <1>0, <2>1, IocpNumbers DEF IocpReaderInv, Reads
  <2>4. IocpPlaceInv'
    BY <1>0, <2>1, <2>3 DEF IocpPlaceInv
  <2>5. Cardinality(inFlight \union queued) <= activeRequests
    BY <1>0, <2>1, ReadsFinite DEF IocpCountInv
  <2>6. IocpCountInv'
    BY <1>0, <2>1, <2>5 DEF IocpCountInv
  <2> QED BY <2>2, <2>4, <2>6
<1> QED BY <1>1, <1>2, <1>3

\* Steps in which no read changes hands: they stay in the loop or leave it.
LEMMA IocpMoves ==
  ASSUME IocpInv,
         UNCHANGED <<iocpCounter, inFlight, queued, batch, current, activeRequests>>,
         readerPc \in InLoop \union {"initial"},
         readerPc' \in (InLoop \ {"mark"}) \union {"drain"},
         readerPc' = "next" => readerPc \in {"mark", "next"},
         readerPc' = "wait" => batch = {},
         initialLeft' = 0,
         remaining' \in BOOLEAN, lastFile' \in BOOLEAN, loop' \in BOOLEAN,
         remaining' => iocpCounter < MaxRequests
  PROVE  IocpReaderInv' /\ IocpPlaceInv' /\ IocpCountInv'
<1> USE DEF Counting, InLoop, Submitting
<1>0. IocpPlaceInv /\ IocpReaderInv /\ IocpCountInv
  BY DEF IocpInv
<1>1. IocpReaderInv'
  BY <1>0, IoRequestNumAssumption DEF IocpReaderInv, Iocp!ReaderPcs
<1>2. Reads' = Reads
  BY DEF Reads
<1>3. IocpPlaceInv'
  BY <1>0, <1>2 DEF IocpPlaceInv, Issued
<1>4. Cardinality(inFlight \union queued) <= activeRequests
  BY <1>0, ReadsFinite DEF IocpCountInv
<1>5. IocpCountInv'
  BY <1>0, <1>2, <1>4, IocpNumbers DEF IocpCountInv
<1> QED BY <1>1, <1>3, <1>5

\* These are the looks at the stop flag, the changes of file and the ends of
\* a batch.
LEMMA IocpLoopSteps ==
  ASSUME IocpInv,
         \/ Iocp!InitialDone \/ Iocp!LeaveLoop \/ Iocp!LookAtStop \/ Iocp!MarkEntry
         \/ Iocp!NoMoreFiles \/ Iocp!NextFile \/ Iocp!OpenFails \/ Iocp!BatchDone
  PROVE  IocpReaderInv' /\ IocpPlaceInv' /\ IocpCountInv'
<1> USE DEF Iocp!Goes, Iocp!readVars, Iocp!fileVars, InLoop
<1>0. IocpReaderInv
  BY DEF IocpInv
<1>1. CASE Iocp!InitialDone \/ Iocp!LeaveLoop \/ Iocp!LookAtStop \/ Iocp!MarkEntry
  BY <1>0, <1>1, IocpMoves
  DEF Iocp!InitialDone, Iocp!LeaveLoop, Iocp!LookAtStop, Iocp!MarkEntry, IocpReaderInv
<1>2. CASE Iocp!NoMoreFiles \/ Iocp!OpenFails \/ Iocp!BatchDone
  BY <1>0, <1>2, IocpMoves
  DEF Iocp!NoMoreFiles, Iocp!OpenFails, Iocp!BatchDone, IocpReaderInv
<1>3. CASE Iocp!NextFile
  <2>1. remaining' \in BOOLEAN /\ (remaining' => iocpCounter < MaxRequests)
    BY <1>3 DEF Iocp!NextFile, Iocp!MayRemain
  <2> QED BY <1>0, <1>3, <2>1, IocpMoves DEF Iocp!NextFile, IocpReaderInv
<1> QED BY <1>1, <1>2, <1>3

\* Completed reads pass from the kernel to the port and from there to the
\* batch.
LEMMA IocpCompletions ==
  ASSUME IocpInv, Iocp!Collect \/ Iocp!CompleteRead
  PROVE  IocpReaderInv' /\ IocpPlaceInv' /\ IocpCountInv'
<1> USE DEF Iocp!Goes, Iocp!fileVars, Counting, InLoop, Submitting
<1>0. IocpPlaceInv /\ IocpReaderInv /\ IocpCountInv
  BY DEF IocpInv
<1>1. CASE Iocp!Collect
  <2>1. /\ readerPc = "wait" /\ readerPc' = "collected" /\ batch = {}
        /\ batch' = queued /\ queued' = {}
        /\ UNCHANGED <<iocpCounter, inFlight, current, activeRequests, initialLeft,
                       remaining, lastFile, loop>>
    BY <1>0, <1>1 DEF Iocp!Collect, IocpReaderInv
  <2>2. Reads' = Reads
    BY <2>1 DEF Reads
  <2>3. IocpReaderInv'
    BY <1>0, <2>1 DEF IocpReaderInv, Iocp!ReaderPcs
  <2>4. IocpPlaceInv'
    BY <1>0, <2>1, <2>2 DEF IocpPlaceInv, Issued
  <2>5. IocpCountInv'
    BY <1>0, <2>1, <2>2 DEF IocpCountInv
  <2> QED BY <2>3, <2>4, <2>5
<1>2. CASE Iocp!CompleteRead
  <2>1. PICK r \in inFlight : /\ inFlight' = inFlight \ {r} /\ queued' = queued \union {r}
                              /\ UNCHANGED <<iocpCounter, batch, current, activeRequests,
                                             initialLeft, remaining, lastFile, loop, readerPc>>
    BY <1>2 DEF Iocp!CompleteRead
  <2>2. Reads' = Reads /\ (inFlight \union queued)' = inFlight \union queued
    BY <2>1 DEF Reads
  <2>3. IocpReaderInv'
    BY <1>0, <2>1 DEF IocpReaderInv
  <2>4. IocpPlaceInv'
    BY <1>0, <2>1, <2>2 DEF IocpPlaceInv, Issued
  <2>5. IocpCountInv'
    BY <1>0, <2>1, <2>2 DEF IocpCountInv
  <2> QED BY <2>3, <2>4, <2>5
<1> QED BY <1>1, <1>2

\* A completion is processed, and counted, or dropped with the rest of the
\* batch.
LEMMA IocpEntries ==
  ASSUME IocpInv, Iocp!ProcessEntry \/ Iocp!WrongLength
  PROVE  IocpReaderInv' /\ IocpPlaceInv' /\ IocpCountInv'
<1> USE DEF Iocp!Goes, Iocp!readVars, Iocp!fileVars, Counting, InLoop, Submitting
<1>0. /\ IocpPlaceInv /\ IocpReaderInv /\ IocpCountInv
      /\ IsFiniteSet(Reads) /\ Cardinality(Reads) \in Nat
  BY ReadsFinite DEF IocpInv
<1>1. CASE Iocp!ProcessEntry
  <2>1. PICK r \in batch : /\ readerPc = "process" /\ readerPc' \in {"mark", "next"}
                           /\ batch' = batch \ {r} /\ current' = r
                           /\ activeRequests' = activeRequests - 1
                           /\ UNCHANGED <<iocpCounter, inFlight, queued, initialLeft,
                                          remaining, lastFile, loop>>
    BY <1>1 DEF Iocp!ProcessEntry
  <2>2. r \in Reads /\ Reads' = Reads \ {r} /\ r \in 0 .. (MaxRequests - 1) /\ r < iocpCounter
    BY <1>0, <2>1 DEF Reads, IocpPlaceInv
  <2>3. Cardinality(Reads') = Cardinality(Reads) - 1
    BY <1>0, <2>2, FS_RemoveElement
  <2>4. IocpReaderInv'
    BY <1>0, <2>1 DEF IocpReaderInv, Iocp!ReaderPcs
  <2>5. IocpPlaceInv'
    BY <1>0, <2>1, <2>2 DEF IocpPlaceInv, Issued
  <2>6. Cardinality(Reads) > 0
    BY <1>0, <2>2, FS_EmptySet
  <2>7. IocpCountInv'
    BY <1>0, <2>1, <2>3, <2>6, IocpNumbers DEF IocpCountInv
  <2> QED BY <2>4, <2>5, <2>7
<1>2. CASE Iocp!WrongLength
  <2>1. /\ readerPc = "process" /\ readerPc' = "drain" /\ batch # {}
        /\ activeRequests' = activeRequests - 1
        /\ UNCHANGED <<iocpCounter, inFlight, queued, batch, current, initialLeft,
                       remaining, lastFile, loop>>
    BY <1>2 DEF Iocp!WrongLength
  <2>2. PICK r : r \in batch
    BY <2>1
  <2>3. Cardinality(Reads \ {r}) = Cardinality(Reads) - 1 /\ IsFiniteSet(Reads \ {r})
    BY <1>0, <2>2, FS_RemoveElement DEF Reads
  <2>4. inFlight \union queued \in SUBSET (Reads \ {r})
    BY <1>0, <2>1, <2>2 DEF Reads, IocpPlaceInv
  <2>5. /\ Cardinality(inFlight \union queued) <= Cardinality(Reads) - 1
        /\ Cardinality(inFlight \union queued) \in Nat
    BY <1>0, <2>3, <2>4, FS_Subset, ReadsFinite
  <2>6. IocpReaderInv'
    BY <1>0, <2>1 DEF IocpReaderInv, Iocp!ReaderPcs
  <2>7. IocpPlaceInv'
    BY <1>0, <2>1 DEF IocpPlaceInv, Reads
  <2>8. IocpCountInv'
    BY <1>0, <2>1, <2>5, IocpNumbers DEF IocpCountInv
  <2> QED BY <2>6, <2>7, <2>8
<1> QED BY <1>1, <1>2

\* The thread waits for as many completions as it counts, which may be too
\* many, and ends.
LEMMA IocpEnd ==
  ASSUME IocpInv, Iocp!Drain \/ Iocp!ReaderEnds
  PROVE  IocpReaderInv' /\ IocpPlaceInv' /\ IocpCountInv'
<1> USE DEF Iocp!Goes, Iocp!readVars, Iocp!fileVars, Counting, InLoop, Submitting
<1>0. /\ IocpPlaceInv /\ IocpReaderInv /\ IocpCountInv
      /\ IsFiniteSet(inFlight) /\ IsFiniteSet(queued) /\ IsFiniteSet(inFlight \union queued)
  BY ReadsFinite DEF IocpInv
<1>1. CASE Iocp!Drain
  <2>1. /\ readerPc = "drain" /\ batch' = batch \union queued /\ queued' = {}
        /\ activeRequests' = activeRequests - Cardinality(queued)
        /\ UNCHANGED <<iocpCounter, inFlight, current, initialLeft, remaining, lastFile, loop,
                       readerPc>>
    BY <1>1, SameCardinality DEF Iocp!Drain
  <2>2. inFlight \intersect queued = {}
    BY <1>0 DEF IocpPlaceInv
  <2>3. /\ Cardinality(inFlight \union queued) = Cardinality(inFlight) + Cardinality(queued)
        /\ Cardinality(inFlight) \in Nat /\ Cardinality(queued) \in Nat
    <3>1. Cardinality(inFlight \union queued)
            = Cardinality(inFlight) + Cardinality(queued) - Cardinality(inFlight \intersect queued)
      BY <1>0, FS_Union
    <3>2. Cardinality(inFlight \intersect queued) = 0
      BY <2>2, FS_EmptySet
    <3>3. Cardinality(inFlight) \in Nat /\ Cardinality(queued) \in Nat
      BY <1>0, FS_CardinalityType
    <3> QED BY <3>1, <3>2, <3>3
  <2>4. Reads' = Reads /\ (inFlight \union queued)' = inFlight
    BY <2>1 DEF Reads
  <2>5. IocpReaderInv'
    BY <1>0, <2>1 DEF IocpReaderInv
  <2>6. IocpPlaceInv'
    BY <1>0, <2>1, <2>4 DEF IocpPlaceInv
  <2>7. IocpCountInv'
    BY <1>0, <2>1, <2>3, <2>4, IocpNumbers DEF IocpCountInv
  <2> QED BY <2>5, <2>6, <2>7
<1>2. CASE Iocp!ReaderEnds
  <2>1. /\ readerPc = "drain" /\ readerPc' = "exited" /\ activeRequests = 0
        /\ UNCHANGED <<iocpCounter, inFlight, queued, batch, current, activeRequests,
                       initialLeft, remaining, lastFile, loop>>
    BY <1>2 DEF Iocp!ReaderEnds
  <2>2. Cardinality(inFlight \union queued) = 0
    BY <1>0, <2>1, FS_CardinalityType DEF IocpCountInv
  <2>3. inFlight = {} /\ queued = {}
    BY <1>0, <2>2, FS_EmptySet
  <2>4. IocpReaderInv'
    BY <1>0, <2>1 DEF IocpReaderInv, Iocp!ReaderPcs
  <2>5. IocpPlaceInv'
    BY <1>0, <2>1 DEF IocpPlaceInv, Reads
  <2>6. IocpCountInv'
    BY <1>0, <2>1, <2>3 DEF IocpCountInv
  <2> QED BY <2>4, <2>5, <2>6
<1> QED BY <1>1, <1>2

\* The window and the output thread see of the reader's steps only that the
\* thread is there, and at the end that it has exited.
LEMMA IocpReaderOwner ==
  ASSUME IocpInv, Iocp!Reader \/ Iocp!PortFails \/ Iocp!CompleteRead
  PROVE  IocpOwnerInv'
<1>1. UNCHANGED <<iocpOut, iocpStop, iocpRequested, iocpOwner>>
  BY DEF Iocp!Reader, Iocp!PassGate, Iocp!IssueRead, Iocp!IssueFails, Iocp!ClaimInitial,
     Iocp!InitialDone, Iocp!StopAtTop, Iocp!LeaveLoop, Iocp!Collect, Iocp!LookAtStop,
     Iocp!ProcessEntry, Iocp!MarkEntry, Iocp!WrongLength, Iocp!ClaimNext,
     Iocp!NoMoreFiles, Iocp!NextFile, Iocp!OpenFails, Iocp!BatchDone, Iocp!Drain,
     Iocp!ReaderEnds, Iocp!PortFails, Iocp!CompleteRead, Iocp!odpVars, Iocp!StoreBlock,
     Iocp!MarkFilled
<1>2. readerPc \notin {"none", "exited"} /\ readerPc' # "none"
  <2>1. CASE Iocp!CompleteRead
    BY <2>1 DEF Iocp!CompleteRead, IocpInv, IocpCountInv
  <2>2. CASE Iocp!Reader \/ Iocp!PortFails
    BY <2>2 DEF Iocp!Goes, Iocp!Claim, Iocp!Reader, Iocp!PassGate, Iocp!IssueRead,
       Iocp!IssueFails, Iocp!ClaimInitial, Iocp!InitialDone, Iocp!StopAtTop,
       Iocp!LeaveLoop, Iocp!Collect, Iocp!LookAtStop, Iocp!ProcessEntry, Iocp!MarkEntry,
       Iocp!WrongLength, Iocp!ClaimNext, Iocp!NoMoreFiles, Iocp!NextFile,
       Iocp!OpenFails, Iocp!BatchDone, Iocp!Drain, Iocp!ReaderEnds, Iocp!PortFails
  <2> QED BY <2>1, <2>2
<1> QED BY <1>1, <1>2 DEF IocpInv, IocpOwnerInv

\* The reader's and the kernel's steps.
LEMMA IocpReaderStep ==
  IocpInv /\ (Iocp!Reader \/ Iocp!PortFails \/ Iocp!CompleteRead) => IocpInv'
<1> SUFFICES ASSUME IocpInv, Iocp!Reader \/ Iocp!PortFails \/ Iocp!CompleteRead
             PROVE  IocpInv'
  OBVIOUS
<1>1. \/ Iocp!ClaimInitial \/ Iocp!ClaimNext
      \/ Iocp!PassGate \/ Iocp!IssueRead \/ Iocp!IssueFails
      \/ Iocp!InitialDone \/ Iocp!LeaveLoop \/ Iocp!LookAtStop \/ Iocp!MarkEntry
      \/ Iocp!NoMoreFiles \/ Iocp!NextFile \/ Iocp!OpenFails \/ Iocp!BatchDone
      \/ Iocp!Collect \/ Iocp!CompleteRead
      \/ Iocp!ProcessEntry \/ Iocp!WrongLength
      \/ Iocp!Drain \/ Iocp!ReaderEnds
  BY DEF Iocp!Reader, Iocp!StopAtTop, Iocp!PortFails
<1>2. IocpReaderInv' /\ IocpPlaceInv' /\ IocpCountInv'
  BY <1>1, IocpClaims, IocpIssues, IocpLoopSteps, IocpCompletions, IocpEntries, IocpEnd
<1> QED BY <1>2, IocpReaderOwner DEF IocpInv

\* The output thread touches nothing of the reader's, and does not end by
\* itself.
LEMMA IocpOutputStep == IocpInv /\ Iocp!Output => IocpInv'
<1> SUFFICES ASSUME IocpInv, Iocp!Output PROVE IocpInv'
  OBVIOUS
<1>1. /\ UNCHANGED <<threadVars, iocpStop, iocpRequested, iocpOwner>>
      /\ iocpOut # "none" /\ iocpOut' # "none"
  BY DEF Iocp!Output, Iocp!OutputThread, Iocp!OutputTake, Iocp!OutputDeliver,
     Iocp!OutputClear, Iocp!OutputAdvance, Iocp!OutputExit, Iocp!readVars, Iocp!fileVars,
     threadVars
<1>2. IocpOwnerInv'
  BY <1>1 DEF IocpInv, IocpOwnerInv, threadVars
<1>3. IocpReaderInv' /\ IocpPlaceInv' /\ IocpCountInv'
  BY <1>1 DEF IocpInv, IocpReaderInv, IocpPlaceInv, IocpCountInv, Reads, Issued, threadVars
<1> QED BY <1>2, <1>3 DEF IocpInv

\* The window starts the thread with nothing in the port, and joins it before
\* it stops the output thread.
LEMMA IocpOwnerStep ==
  IocpInv /\ (Iocp!Start \/ Iocp!RequestStop \/ Iocp!Stopping \/ Iocp!Reset) => IocpInv'
<1> SUFFICES ASSUME IocpInv, Iocp!Start \/ Iocp!RequestStop \/ Iocp!Stopping \/ Iocp!Reset
             PROVE  IocpInv'
  OBVIOUS
<1> USE DEF Iocp!OwnerGoes, Iocp!OwnerPcs, Iocp!readVars, Iocp!fileVars, Iocp!odpVars
<1>0. IocpOwnerInv /\ IocpReaderInv /\ IocpPlaceInv /\ IocpCountInv
  BY DEF IocpInv
<1>1. CASE Iocp!Start
  <2>1. /\ iocpOwner = "idle" /\ iocpOwner' = "running"
        /\ readerPc = "none" /\ readerPc' = "initial"
        /\ iocpOut' = "poll" /\ initialLeft' = IoRequestNum
        /\ UNCHANGED <<iocpCounter, inFlight, queued, batch, current, activeRequests>>
    BY <1>0, <1>1 DEF Iocp!Start, Iocp!StartProcessing, IocpOwnerInv
  <2>2. /\ iocpStop' \in BOOLEAN /\ ~iocpStop'
        /\ iocpRequested' \in BOOLEAN /\ lastFile' \in BOOLEAN /\ loop' \in BOOLEAN
    BY <1>1 DEF Iocp!Start, Iocp!StartProcessing
  <2>3. remaining' \in BOOLEAN /\ (remaining' => iocpCounter < MaxRequests)
    BY <1>1 DEF Iocp!Start, Iocp!MayRemain
  <2>4. batch = {} /\ activeRequests = 0 /\ Reads = {} /\ inFlight = {} /\ queued = {}
    BY <1>0, <2>1 DEF IocpOwnerInv, IocpCountInv, Reads
  <2>5. IocpOwnerInv'
    BY <2>1, <2>2 DEF IocpOwnerInv
  <2>6. IocpReaderInv'
    BY <1>0, <2>1, <2>2, <2>3, <2>4, IoRequestNumAssumption
    DEF IocpReaderInv, Iocp!ReaderPcs, InLoop, Submitting
  <2>7. Reads' = {}
    BY <2>1, <2>4 DEF Reads
  <2>8. IocpPlaceInv'
    BY <1>0, <2>1, <2>4, <2>7 DEF IocpPlaceInv
  <2>9. IocpCountInv'
    BY <1>0, <2>1, <2>4, <2>7, IoRequestNumAssumption, FS_EmptySet
    DEF IocpCountInv, Submitting
  <2> QED BY <2>5, <2>6, <2>8, <2>9 DEF IocpInv
<1>2. CASE Iocp!RequestStop \/ Iocp!Stopping
  <2>1. UNCHANGED threadVars
    BY <1>2 DEF Iocp!RequestStop, Iocp!Stopping, Iocp!JoinReader, Iocp!StopOutput,
       Iocp!JoinOutput, threadVars
  <2>2. iocpStop' \in BOOLEAN /\ iocpRequested' \in BOOLEAN
    BY <1>0, <1>2 DEF Iocp!RequestStop, Iocp!Stopping, Iocp!JoinReader, Iocp!StopOutput,
       Iocp!JoinOutput, Iocp!RequestStopProcessing, Iocp!JoinOutputThread, IocpOwnerInv
  <2>3. IocpOwnerInv'
    <3>1. CASE Iocp!RequestStop
      BY <1>0, <2>1, <2>2, <3>1 DEF Iocp!RequestStop, IocpOwnerInv, threadVars
    <3>2. CASE Iocp!JoinReader
      BY <1>0, <2>1, <2>2, <3>2 DEF Iocp!JoinReader, IocpOwnerInv, threadVars
    <3>3. CASE Iocp!StopOutput
      BY <1>0, <2>1, <2>2, <3>3 DEF Iocp!StopOutput, Iocp!RequestStopProcessing,
         IocpOwnerInv, threadVars
    <3>4. CASE Iocp!JoinOutput
      BY <1>0, <2>1, <2>2, <3>4 DEF Iocp!JoinOutput, Iocp!JoinOutputThread, IocpOwnerInv,
         threadVars
    <3> QED BY <1>2, <3>1, <3>2, <3>3, <3>4 DEF Iocp!Stopping
  <2>4. IocpReaderInv' /\ IocpPlaceInv' /\ IocpCountInv'
    BY <1>0, <2>1 DEF IocpReaderInv, IocpPlaceInv, IocpCountInv, Reads, Issued, threadVars
  <2> QED BY <2>3, <2>4 DEF IocpInv
<1>3. CASE Iocp!Reset
  <2>1. /\ iocpOwner = "stopped" /\ iocpOwner' = "idle"
        /\ readerPc = "exited" /\ readerPc' = "none"
        /\ iocpOut' = "none" /\ iocpCounter' = 0 /\ activeRequests' = 0 /\ initialLeft' = 0
        /\ batch' = {} /\ current' = NoBlock
        /\ UNCHANGED <<inFlight, queued>>
    BY <1>0, <1>3 DEF Iocp!Reset, Iocp!ResetProcessor, IocpOwnerInv
  <2>2. /\ iocpStop' \in BOOLEAN /\ iocpRequested' \in BOOLEAN
        /\ remaining' \in BOOLEAN /\ lastFile' \in BOOLEAN /\ loop' \in BOOLEAN
    BY <1>0, <1>3 DEF Iocp!Reset, Iocp!ResetProcessor, IocpOwnerInv
  <2>3. inFlight = {} /\ queued = {}
    BY <1>0, <2>1 DEF IocpCountInv
  <2>4. IocpOwnerInv'
    BY <2>1, <2>2 DEF IocpOwnerInv
  <2>5. IocpReaderInv'
    BY <2>1, <2>2, MaxRequestsAssumption, IoRequestNumAssumption
    DEF IocpReaderInv, Iocp!ReaderPcs, InLoop, Submitting
  <2>6. Reads' = {}
    BY <2>1, <2>3 DEF Reads
  <2>7. IocpPlaceInv' /\ IocpCountInv'
    BY <2>1, <2>3, <2>6, IoRequestNumAssumption
    DEF IocpPlaceInv, IocpCountInv, Counting, InLoop, Submitting
  <2> QED BY <2>4, <2>5, <2>7 DEF IocpInv
<1> QED BY <1>1, <1>2, <1>3

\* Every step keeps the invariant of the IOCP reader.
LEMMA IocpStep == IocpInv /\ [Iocp!Next]_(Iocp!vars) => IocpInv'
<1> SUFFICES ASSUME IocpInv, [Iocp!Next]_(Iocp!vars) PROVE IocpInv'
  OBVIOUS
<1>1. CASE UNCHANGED Iocp!vars
  BY <1>1 DEF Iocp!vars, Iocp!odpVars, Iocp!readVars, Iocp!fileVars, IocpInv, IocpOwnerInv,
     IocpReaderInv, IocpPlaceInv, IocpCountInv, Reads, Issued
<1> QED BY <1>1, IocpReaderStep, IocpOutputStep, IocpOwnerStep DEF Iocp!Next

\* The invariant holds in every state of the reader.
LEMMA IocpAlways == Iocp!Spec => []IocpInv
<1> QED BY IocpInitInv, IocpStep, PTL DEF Iocp!Spec

\* When the IOCP reader's thread has ended no read is outstanding, however its
\* loop ended: the count that it waits for may be too high but never too low.
LEMMA IocpKeepsMemory == Iocp!Spec => []KeepsMemoryWhileReading
<1>1. IocpInv => KeepsMemoryWhileReading
  BY DEF IocpInv, IocpCountInv, KeepsMemoryWhileReading, Iocp!KeepsMemoryWhileReading,
     Iocp!Outstanding
<1> QED BY <1>1, IocpAlways, PTL
-----------------------------------------------------------------------------
(* Every step of the IOCP reader is a step of OrderedRead or a stutter.    *)

\* What the protocol sees of the thread.
ProtocolReads == Reads \union (IF readerPc = "issue" THEN {iocpCounter - 1} ELSE {})
ProtocolStores == IF readerPc = "mark" THEN {current} ELSE {}
Stopped == readerPc \in {"drain", "exited"}

ringVars == <<iocpFilled, iocpBlock, iocpNext, iocpStop, iocpOut, iocpDelivered>>

\* Initial states map to initial states of the protocol.
LEMMA IocpInitSimulation == Iocp!Init => Iocp!OR!Init
  BY DEF Iocp!Init, Iocp!ODPInit, Iocp!OR!Init, Iocp!OR!ODPInit, Iocp!Outstanding,
     Iocp!Slots, Iocp!OR!Slots, Iocp!Claimed

\* Steps that the protocol does not see.
LEMMA IocpUnseen ==
  ASSUME UNCHANGED <<ringVars, iocpCounter, ProtocolReads, ProtocolStores, Stopped>>,
         readerPc' = "gate" <=> readerPc = "gate"
  PROVE  UNCHANGED Iocp!OR!vars
  BY DEF ringVars, ProtocolReads, ProtocolStores, Stopped, Reads, Iocp!Outstanding,
     Iocp!Claimed, Iocp!OR!vars, Iocp!OR!odpVars, Iocp!OR!readVars

\* A step that takes the thread to the wait for its reads, and changes nothing
\* else the protocol sees, is the protocol's stop.
LEMMA IocpStops ==
  ASSUME UNCHANGED <<ringVars, iocpCounter, ProtocolReads, ProtocolStores>>,
         iocpOut # "none", ~Stopped, Stopped',
         readerPc \notin {"gate", "mark"}, readerPc' \notin {"gate", "mark"}
  PROVE  Iocp!OR!Next
  BY DEF ringVars, ProtocolReads, ProtocolStores, Stopped, Reads, Iocp!Outstanding,
     Iocp!Claimed, Iocp!OR!Next, Iocp!OR!RequestStop, Iocp!OR!odpVars

\* While the thread runs, so does the output thread.
LEMMA IocpThreadRuns ==
  IocpInv /\ readerPc \in Counting \union {"drain", "undefined"} => iocpOut # "none"
  BY DEF IocpInv, IocpOwnerInv, Iocp!OwnerPcs, Counting, InLoop, Submitting

\* A number is taken.
LEMMA IocpClaimSimulation ==
  IocpInv /\ (Iocp!ClaimInitial \/ Iocp!ClaimNext) => Iocp!OR!Next
<1> SUFFICES ASSUME IocpInv, Iocp!ClaimInitial \/ Iocp!ClaimNext PROVE Iocp!OR!Next
  OBVIOUS
<1>1. /\ readerPc \in {"initial", "next"} /\ readerPc' = "gate"
      /\ iocpCounter' = iocpCounter + 1 /\ iocpCounter < MaxRequests
      /\ UNCHANGED <<ringVars, inFlight, queued, batch>>
  BY DEF Iocp!ClaimInitial, Iocp!ClaimNext, Iocp!Claim, Iocp!Goes, Iocp!readVars,
     Iocp!odpVars, ringVars, IocpInv, IocpReaderInv, InLoop
<1>2. iocpOut # "none"
  BY <1>1, IocpThreadRuns DEF Counting, InLoop
<1> QED BY <1>1, <1>2 DEF ringVars, Iocp!Outstanding, Iocp!OR!Next, Iocp!OR!ClaimRequest,
        Iocp!OR!odpVars

\* The gate is passed, and the read issued or not.
LEMMA IocpIssueSimulation ==
  ASSUME IocpInv, Iocp!PassGate \/ Iocp!IssueRead \/ Iocp!IssueFails
  PROVE  Iocp!OR!Next \/ UNCHANGED Iocp!OR!vars
<1> USE DEF Iocp!Goes, Iocp!readVars, Iocp!odpVars, ringVars, Iocp!Claimed
<1>1. CASE Iocp!PassGate
  <2>1. /\ readerPc = "gate" /\ readerPc' = "issue"
        /\ iocpCounter - 1 = 0 \/ (iocpCounter - 1) % TotalSlots # iocpNext
        /\ UNCHANGED <<ringVars, iocpCounter, inFlight, queued, batch>>
    BY <1>1 DEF Iocp!PassGate, Iocp!GateOpen, Iocp!SlotOf
  <2> QED BY <2>1 DEF Iocp!Outstanding, Iocp!OR!Next, Iocp!OR!PassGate, Iocp!OR!GateOpen,
          Iocp!OR!Claimed, Iocp!OR!SlotOf, Iocp!OR!odpVars
<1>2. CASE Iocp!IssueRead
  <2>1. UNCHANGED <<ringVars, iocpCounter, ProtocolReads, ProtocolStores, Stopped>>
    BY <1>2 DEF Iocp!IssueRead, ProtocolReads, ProtocolStores, Stopped, Reads
  <2> QED BY <1>2, <2>1, IocpUnseen DEF Iocp!IssueRead
<1>3. CASE Iocp!IssueFails
  <2>1. /\ UNCHANGED <<ringVars, iocpCounter, ProtocolReads, ProtocolStores>>
        /\ readerPc = "issue" /\ readerPc' \in {"undefined", "drain"}
    BY <1>3 DEF Iocp!IssueFails, ProtocolReads, ProtocolStores, Reads
  <2>2. CASE readerPc' = "undefined"
    BY <2>1, <2>2, IocpUnseen DEF Stopped
  <2>3. CASE readerPc' = "drain"
    BY <2>1, <2>3, IocpStops, IocpThreadRuns DEF Stopped, Counting, Submitting
  <2> QED BY <2>1, <2>2, <2>3
<1> QED BY <1>1, <1>2, <1>3

\* The loop's other steps stay in it or leave it.
LEMMA IocpLoopSimulation ==
  ASSUME IocpInv,
         \/ Iocp!InitialDone \/ Iocp!LeaveLoop \/ Iocp!Collect \/ Iocp!LookAtStop
         \/ Iocp!WrongLength \/ Iocp!NoMoreFiles \/ Iocp!NextFile \/ Iocp!OpenFails
         \/ Iocp!BatchDone \/ Iocp!Drain \/ Iocp!ReaderEnds \/ Iocp!CompleteRead
  PROVE  Iocp!OR!Next \/ UNCHANGED Iocp!OR!vars
<1> USE DEF Iocp!Goes, Iocp!readVars, Iocp!odpVars, ringVars
<1>1. UNCHANGED <<ringVars, iocpCounter>>
  BY DEF Iocp!InitialDone, Iocp!LeaveLoop, Iocp!Collect, Iocp!LookAtStop, Iocp!WrongLength,
     Iocp!NoMoreFiles, Iocp!NextFile, Iocp!OpenFails, Iocp!BatchDone, Iocp!Drain,
     Iocp!ReaderEnds, Iocp!CompleteRead
<1>2. Reads' = Reads
  <2>1. CASE Iocp!Collect
    BY <2>1 DEF Iocp!Collect, Reads, IocpInv, IocpReaderInv
  <2>2. CASE Iocp!CompleteRead
    BY <2>2 DEF Iocp!CompleteRead, Reads
  <2>3. CASE Iocp!Drain
    BY <2>3 DEF Iocp!Drain, Reads
  <2> QED BY <2>1, <2>2, <2>3 DEF Iocp!InitialDone, Iocp!LeaveLoop, Iocp!LookAtStop,
          Iocp!WrongLength, Iocp!NoMoreFiles, Iocp!NextFile, Iocp!OpenFails,
          Iocp!BatchDone, Iocp!ReaderEnds, Reads
<1>3. CASE Iocp!CompleteRead \/ Iocp!Drain
  <2>1. readerPc' = readerPc /\ UNCHANGED <<current, iocpCounter>>
    BY <1>3 DEF Iocp!CompleteRead, Iocp!Drain
  <2> QED BY <1>1, <1>2, <2>1, IocpUnseen DEF ProtocolReads, ProtocolStores, Stopped
<1>4. CASE Iocp!ReaderEnds
  BY <1>1, <1>2, <1>4, IocpUnseen DEF Iocp!ReaderEnds, ProtocolReads, ProtocolStores, Stopped
<1>5. CASE ~(Iocp!CompleteRead \/ Iocp!Drain \/ Iocp!ReaderEnds)
  <2>1. /\ readerPc \in {"initial", "wait", "collected", "process", "next"}
        /\ readerPc' \in {"wait", "collected", "process", "next", "drain"}
    BY <1>5 DEF Iocp!InitialDone, Iocp!LeaveLoop, Iocp!Collect, Iocp!LookAtStop,
       Iocp!WrongLength, Iocp!NoMoreFiles, Iocp!NextFile, Iocp!OpenFails, Iocp!BatchDone
  <2>2. UNCHANGED <<ProtocolReads, ProtocolStores>>
    BY <1>2, <2>1 DEF ProtocolReads, ProtocolStores
  <2>3. CASE readerPc' = "drain"
    BY <1>1, <2>1, <2>2, <2>3, IocpStops, IocpThreadRuns DEF Stopped, Counting, InLoop
  <2>4. CASE readerPc' # "drain"
    BY <1>1, <2>1, <2>2, <2>4, IocpUnseen DEF Stopped
  <2> QED BY <2>3, <2>4
<1> QED BY <1>3, <1>4, <1>5

\* A block is stored and its slot marked.
LEMMA IocpStoreSimulation ==
  IocpInv /\ (Iocp!ProcessEntry \/ Iocp!MarkEntry) => Iocp!OR!Next
<1> SUFFICES ASSUME IocpInv, Iocp!ProcessEntry \/ Iocp!MarkEntry PROVE Iocp!OR!Next
  OBVIOUS
<1> USE DEF Iocp!Goes, Iocp!Occupied, Iocp!SlotOf, Iocp!OR!SlotOf
<1>1. CASE Iocp!ProcessEntry
  <2>1. PICK r \in batch :
          /\ readerPc = "process"
          /\ readerPc' = IF iocpFilled[r % TotalSlots] THEN "next" ELSE "mark"
          /\ Iocp!StoreBlock(r)
          /\ batch' = batch \ {r} /\ current' = r
          /\ UNCHANGED <<iocpCounter, inFlight, queued>>
    BY <1>1 DEF Iocp!ProcessEntry
  <2>2. r \in Reads /\ Reads' = Reads \ {r}
    BY <2>1 DEF Reads, IocpInv, IocpPlaceInv, Counting, InLoop
  <2>3. Iocp!OR!StoreBlock(r)
    BY <2>1 DEF Iocp!StoreBlock, Iocp!OR!StoreBlock, Iocp!OR!Occupied
  <2> DEFINE stores == IF readerPc = "mark" THEN {current} ELSE {}
             reads == Iocp!Outstanding \union batch
                        \union (IF readerPc = "issue" THEN {Iocp!Claimed} ELSE {})
  <2>4. reads = Reads /\ reads' = Reads' /\ stores = {}
    BY <2>1 DEF Reads, Iocp!Outstanding
  <2>5. stores' = IF Iocp!OR!Occupied(r) THEN stores ELSE stores \union {r}
    <3>1. CASE iocpFilled[r % TotalSlots]
      BY <2>1, <2>4, <3>1 DEF Iocp!OR!Occupied
    <3>2. CASE ~iocpFilled[r % TotalSlots]
      BY <2>1, <2>4, <3>2 DEF Iocp!OR!Occupied
    <3> QED BY <3>1, <3>2
  <2>6. r \in reads /\ reads' = reads \ {r}
    BY <2>2, <2>4
  <2>7. Iocp!OR!BeginProcessData
    BY <2>1, <2>3, <2>5, <2>6 DEF Iocp!OR!BeginProcessData
  <2> QED BY <2>7 DEF Iocp!OR!Next
<1>2. CASE Iocp!MarkEntry
  <2>1. /\ readerPc = "mark" /\ readerPc' = "next" /\ Iocp!OR!MarkFilled(current)
        /\ UNCHANGED <<iocpCounter, inFlight, queued, batch, current>>
    BY <1>2 DEF Iocp!MarkEntry, Iocp!MarkFilled, Iocp!OR!MarkFilled, Iocp!readVars
  <2> QED BY <2>1 DEF Iocp!Outstanding, Iocp!OR!Next, Iocp!OR!EndProcessData
<1> QED BY <1>1, <1>2

\* The output thread's steps are the protocol's own.
LEMMA IocpOutputSimulation == Iocp!Output => Iocp!OR!Next
<1> SUFFICES ASSUME Iocp!Output PROVE Iocp!OR!Next
  OBVIOUS
<1>1. UNCHANGED <<iocpCounter, inFlight, queued, batch, current, readerPc>>
  BY DEF Iocp!Output, Iocp!readVars
<1>2. UNCHANGED Iocp!OR!readVars
  BY <1>1 DEF Iocp!OR!readVars, Iocp!Outstanding, Iocp!Claimed
<1>3. Iocp!OR!OutputThread
  BY DEF Iocp!Output, Iocp!OutputThread, Iocp!OutputTake, Iocp!OutputDeliver,
     Iocp!OutputClear, Iocp!OutputAdvance, Iocp!OutputExit, Iocp!OR!OutputThread,
     Iocp!OR!OutputTake, Iocp!OR!OutputDeliver, Iocp!OR!OutputClear,
     Iocp!OR!OutputAdvance, Iocp!OR!OutputExit
<1> QED BY <1>2, <1>3 DEF Iocp!OR!Next, Iocp!OR!OutputStep

\* The window's start, stop and reset are the protocol's.
LEMMA IocpOwnerSimulation ==
  ASSUME IocpInv, Iocp!Start \/ Iocp!RequestStop \/ Iocp!Stopping \/ Iocp!Reset
  PROVE  Iocp!OR!Next \/ UNCHANGED Iocp!OR!vars
<1> USE DEF Iocp!OwnerGoes, Iocp!readVars, Iocp!odpVars
<1>0. IocpOwnerInv /\ IocpCountInv
  BY DEF IocpInv
<1>1. CASE Iocp!Start
  <2>1. /\ readerPc = "none" /\ readerPc' = "initial"
        /\ UNCHANGED <<iocpCounter, inFlight, queued, batch>>
        /\ Iocp!OR!StartProcessing
    BY <1>0, <1>1 DEF Iocp!Start, IocpOwnerInv, Iocp!StartProcessing,
       Iocp!OR!StartProcessing
  <2>2. UNCHANGED Iocp!OR!readVars
    BY <2>1 DEF Iocp!OR!readVars, Iocp!Outstanding
  <2> QED BY <2>1, <2>2 DEF Iocp!OR!Next, Iocp!OR!StartSession
<1>2. CASE Iocp!RequestStop \/ Iocp!JoinReader
  <2>1. UNCHANGED <<threadVars, ringVars>>
    BY <1>2 DEF Iocp!RequestStop, Iocp!JoinReader, threadVars, ringVars, Iocp!fileVars
  <2> QED BY <2>1, IocpUnseen DEF threadVars, ProtocolReads, ProtocolStores, Stopped, Reads
<1>3. CASE Iocp!StopOutput
  <2>1. /\ readerPc = "exited" /\ ~iocpStop /\ Iocp!OR!RequestStopProcessing
        /\ UNCHANGED <<iocpCounter, inFlight, queued, batch, current, readerPc>>
    BY <1>0, <1>3 DEF Iocp!StopOutput, IocpOwnerInv, Iocp!RequestStopProcessing,
       Iocp!OR!RequestStopProcessing
  <2>2. UNCHANGED Iocp!OR!readVars
    BY <2>1 DEF Iocp!OR!readVars, Iocp!Outstanding, Iocp!Claimed
  <2> QED BY <2>1, <2>2 DEF Iocp!OR!Next, Iocp!OR!StopOutput, Iocp!OR!Quiet
<1>4. CASE Iocp!JoinOutput
  <2>1. /\ Iocp!OR!JoinOutputThread
        /\ UNCHANGED <<iocpCounter, inFlight, queued, batch, current, readerPc>>
    BY <1>4 DEF Iocp!JoinOutput, Iocp!JoinOutputThread, Iocp!OR!JoinOutputThread
  <2>2. UNCHANGED Iocp!OR!readVars
    BY <2>1 DEF Iocp!OR!readVars, Iocp!Outstanding, Iocp!Claimed
  <2> QED BY <2>1, <2>2 DEF Iocp!OR!Next, Iocp!OR!JoinOutput
<1>5. CASE Iocp!Reset
  <2>1. /\ readerPc = "exited" /\ readerPc' = "none" /\ iocpOut = "none"
        /\ inFlight' = {} /\ queued' = {} /\ batch' = {} /\ iocpCounter' = 0
        /\ Iocp!OR!ResetProcessor
    BY <1>0, <1>5 DEF Iocp!Reset, IocpOwnerInv, IocpCountInv, Iocp!ResetProcessor,
       Iocp!OR!ResetProcessor, Iocp!Slots, Iocp!OR!Slots
  <2> QED BY <2>1 DEF Iocp!Outstanding, Iocp!OR!Next, Iocp!OR!ResetSession, Iocp!OR!Quiet
<1> QED BY <1>1, <1>2, <1>3, <1>4, <1>5 DEF Iocp!Stopping

\* Every step of the reader is a step of the protocol or a stutter.
LEMMA IocpSimulation ==
  IocpInv /\ [Iocp!Next]_(Iocp!vars) => [Iocp!OR!Next]_(Iocp!OR!vars)
<1> SUFFICES ASSUME IocpInv, [Iocp!Next]_(Iocp!vars)
             PROVE  Iocp!OR!Next \/ UNCHANGED Iocp!OR!vars
  OBVIOUS
<1>1. CASE UNCHANGED Iocp!vars
  <2>1. UNCHANGED <<ringVars, iocpCounter, inFlight, queued, batch, current, readerPc>>
    BY <1>1 DEF Iocp!vars, Iocp!odpVars, Iocp!readVars, ringVars
  <2> QED BY <2>1, IocpUnseen DEF ProtocolReads, ProtocolStores, Stopped, Reads
<1>2. CASE Iocp!Reader \/ Iocp!PortFails \/ Iocp!CompleteRead
  BY <1>2, IocpClaimSimulation, IocpIssueSimulation, IocpLoopSimulation,
     IocpStoreSimulation DEF Iocp!Reader, Iocp!StopAtTop, Iocp!PortFails
<1> QED BY <1>1, <1>2, IocpOutputSimulation, IocpOwnerSimulation DEF Iocp!Next

\* The IOCP reader does what the protocol of the readers allows and nothing
\* else, whatever the order of the completions and however its loop ends.
LEMMA IocpFollowsProtocol == Iocp!Spec => IocpImplementsOrderedRead
<1>1. Iocp!Init => Iocp!OR!Init
  BY IocpInitSimulation
<1>2. IocpInv /\ [Iocp!Next]_(Iocp!vars) => [Iocp!OR!Next]_(Iocp!OR!vars)
  BY IocpSimulation
<1> QED BY <1>1, <1>2, IocpAlways, PTL
    DEF Iocp!Spec, IocpImplementsOrderedRead, Iocp!ImplementsOrderedRead, Iocp!OR!SafeSpec
-----------------------------------------------------------------------------
(* What is proved of OrderedRead holds of the IOCP reader.                 *)

IocpP == INSTANCE OrderedRead_proofs WITH
  slotFilled <- iocpFilled, slotBlock <- iocpBlock, nextOutputSlot <- iocpNext,
  stopThread <- iocpStop, outPc <- iocpOut, delivered <- iocpDelivered,
  requestCounter <- iocpCounter, atGate <- readerPc = "gate",
  reading <- ProtocolReads, storing <- ProtocolStores, stopRequested <- Stopped

\* The two instances are of one protocol.
LEMMA IocpSameInit == Iocp!OR!Init => IocpP!Init
  BY DEF Iocp!OR!Init, IocpP!Init, Iocp!OR!ODPInit, IocpP!ODPInit, Iocp!OR!Slots,
     IocpP!Slots, ProtocolReads, ProtocolStores, Stopped, Reads, Iocp!Outstanding,
     Iocp!Claimed

\* The steps of the two instances are the same.
LEMMA IocpSameProtocol ==
  [Iocp!OR!Next]_(Iocp!OR!vars) => [IocpP!Next]_(IocpP!vars)
<1>1. /\ ProtocolReads = Iocp!Outstanding \union batch
            \union (IF readerPc = "issue" THEN {Iocp!Claimed} ELSE {})
      /\ ProtocolReads' = (Iocp!Outstanding \union batch
            \union (IF readerPc = "issue" THEN {Iocp!Claimed} ELSE {}))'
  BY DEF ProtocolReads, Reads, Iocp!Outstanding, Iocp!Claimed
<1> QED
  BY <1>1
  DEF ProtocolStores, Stopped, Iocp!OR!Next, IocpP!Next, Iocp!OR!vars, IocpP!vars,
     Iocp!OR!odpVars, IocpP!odpVars, Iocp!OR!readVars, IocpP!readVars, Iocp!OR!ClaimRequest,
     IocpP!ClaimRequest, Iocp!OR!PassGate, IocpP!PassGate, Iocp!OR!LeaveGate,
     IocpP!LeaveGate, Iocp!OR!BeginProcessData, IocpP!BeginProcessData,
     Iocp!OR!EndProcessData, IocpP!EndProcessData, Iocp!OR!AbandonRead,
     IocpP!AbandonRead, Iocp!OR!StartSession, IocpP!StartSession, Iocp!OR!RequestStop,
     IocpP!RequestStop, Iocp!OR!StopOutput, IocpP!StopOutput, Iocp!OR!JoinOutput,
     IocpP!JoinOutput, Iocp!OR!ResetSession, IocpP!ResetSession, Iocp!OR!OutputStep,
     IocpP!OutputStep, Iocp!OR!ListenerThrows, IocpP!ListenerThrows, Iocp!OR!GateOpen,
     IocpP!GateOpen, Iocp!OR!Claimed, IocpP!Claimed, Iocp!OR!SlotOf, IocpP!SlotOf,
     Iocp!OR!Slots, IocpP!Slots, Iocp!OR!Quiet, IocpP!Quiet, Iocp!OR!StoreBlock,
     IocpP!StoreBlock, Iocp!OR!MarkFilled, IocpP!MarkFilled, Iocp!OR!Occupied,
     IocpP!Occupied, Iocp!OR!OutputThread, IocpP!OutputThread, Iocp!OR!OutputTake,
     IocpP!OutputTake, Iocp!OR!OutputDeliver, IocpP!OutputDeliver, Iocp!OR!OutputThrow,
     IocpP!OutputThrow, Iocp!OR!OutputClear, IocpP!OutputClear, Iocp!OR!OutputAdvance,
     IocpP!OutputAdvance, Iocp!OR!OutputExit, IocpP!OutputExit, Iocp!OR!StartProcessing,
     IocpP!StartProcessing, Iocp!OR!RequestStopProcessing, IocpP!RequestStopProcessing,
     Iocp!OR!JoinOutputThread, IocpP!JoinOutputThread, Iocp!OR!ResetProcessor,
     IocpP!ResetProcessor

\* The requests of the IOCP reader and the blocks in its slots stay within the
\* window.
LEMMA IocpWindow == Iocp!Spec => []IocpP!IInv
<1>1. Iocp!Init => IocpP!IInv
  BY IocpInitSimulation, IocpSameInit, IocpP!InitInv, TotalSlotsAssumption,
     NoBlockAssumption, MaxRequestsAssumption
<1>2. IocpInv /\ IocpP!IInv /\ [Iocp!Next]_(Iocp!vars) => IocpP!IInv'
  BY IocpSimulation, IocpSameProtocol, IocpP!StepInv, TotalSlotsAssumption,
     NoBlockAssumption, MaxRequestsAssumption
<1> QED BY <1>1, <1>2, IocpAlways, PTL DEF Iocp!Spec

\* The two instances map to one abstract delivery.
LEMMA IocpSameDelivery ==
  /\ IocpP!OD!Init => Iocp!OR!OD!Init
  /\ [IocpP!OD!Next]_(IocpP!OD!vars) => [Iocp!OR!OD!Next]_(Iocp!OR!OD!vars)
<1>1. Iocp!OR!Accepted = IocpP!Accepted /\ Iocp!OR!Accepted' = IocpP!Accepted'
  BY DEF Iocp!OR!Accepted, IocpP!Accepted, Iocp!OR!Slots, IocpP!Slots
<1>2. Iocp!OR!Requests = IocpP!Requests
  BY DEF Iocp!OR!Requests, IocpP!Requests
<1> QED
  BY <1>1, <1>2 DEF Iocp!OR!OD!Init, IocpP!OD!Init, Iocp!OR!OD!Next, IocpP!OD!Next,
     Iocp!OR!OD!vars, IocpP!OD!vars, Iocp!OR!OD!Accept, IocpP!OD!Accept,
     Iocp!OR!OD!Deliver, IocpP!OD!Deliver, Iocp!OR!OD!Restart, IocpP!OD!Restart

\* The blocks the kernel reads in any order are delivered once each, in order.
LEMMA IocpDeliversOnce == Iocp!Spec => Iocp!OR!ImplementsOrderedDelivery
<1>1. Iocp!Init => Iocp!OR!OD!Init
  BY IocpInitSimulation, IocpSameInit, IocpP!DeliveryInit, IocpSameDelivery,
     TotalSlotsAssumption, NoBlockAssumption, MaxRequestsAssumption
<1>2. IocpInv /\ IocpP!IInv /\ [Iocp!Next]_(Iocp!vars)
        => [Iocp!OR!OD!Next]_(Iocp!OR!OD!vars)
  BY IocpSimulation, IocpSameProtocol, IocpP!StepSimulation, IocpSameDelivery,
     TotalSlotsAssumption, NoBlockAssumption, MaxRequestsAssumption
<1> QED BY <1>1, <1>2, IocpAlways, IocpWindow, PTL
        DEF Iocp!Spec, Iocp!OR!ImplementsOrderedDelivery, Iocp!OR!OD!Spec

\* No read completes into a slot that is occupied or that the listener is
\* being given.
LEMMA IocpSlotsExclusive == Iocp!Spec => []Iocp!OR!SlotExclusive
<1>1. ProtocolReads = Iocp!Outstanding \union batch
        \union (IF readerPc = "issue" THEN {Iocp!Claimed} ELSE {})
  BY DEF ProtocolReads, Reads, Iocp!Outstanding, Iocp!Claimed
<1>2. IocpP!IInv => Iocp!OR!SlotExclusive
  BY <1>1, IocpP!SlotExclusiveByInv, TotalSlotsAssumption, NoBlockAssumption,
     MaxRequestsAssumption
     DEF ProtocolStores, Iocp!OR!SlotExclusive, IocpP!SlotExclusive, Iocp!OR!NoRefusal,
     IocpP!NoRefusal, Iocp!OR!Occupied, IocpP!Occupied, Iocp!OR!SlotOf, IocpP!SlotOf
<1> QED BY <1>2, IocpWindow, PTL

-----------------------------------------------------------------------------
(* The two places in which the IOCP reader hangs are left by no step.      *)

\* The thread at the gate waits for the output thread, and the output thread
\* for a completion that only the thread at the gate could process.
LEMMA GateStuckStays ==
  ASSUME IocpInv, Iocp!GateStuck, [Iocp!Next]_(Iocp!vars)
  PROVE  Iocp!GateStuck'
<1>1. /\ readerPc = "gate" /\ ~Iocp!GateOpen
      /\ iocpOut = "poll" /\ ~iocpFilled[iocpNext] /\ ~iocpStop
  <2>1. iocpOwner \in {"running", "join"}
    BY DEF Iocp!GateStuck, IocpInv, IocpOwnerInv, Iocp!OwnerPcs
  <2> QED BY <2>1 DEF Iocp!GateStuck, IocpInv, IocpOwnerInv
<1>2. SUFFICES UNCHANGED <<readerPc, iocpCounter, iocpOut, iocpFilled, iocpNext>>
  BY <1>1 DEF Iocp!GateStuck, Iocp!GateOpen, Iocp!Claimed, Iocp!SlotOf
<1>3. ~Iocp!Reader /\ ~Iocp!PortFails
  BY <1>1 DEF Iocp!Reader, Iocp!PortFails, Iocp!PassGate, Iocp!IssueRead, Iocp!IssueFails,
     Iocp!ClaimInitial, Iocp!ClaimNext, Iocp!Claim, Iocp!InitialDone, Iocp!StopAtTop,
     Iocp!LeaveLoop, Iocp!Collect, Iocp!LookAtStop, Iocp!ProcessEntry, Iocp!MarkEntry,
     Iocp!WrongLength, Iocp!NoMoreFiles, Iocp!NextFile, Iocp!OpenFails, Iocp!BatchDone,
     Iocp!Drain, Iocp!ReaderEnds, Iocp!Goes
<1>4. ~Iocp!Output
  BY <1>1 DEF Iocp!Output, Iocp!OutputThread, Iocp!OutputTake, Iocp!OutputDeliver,
     Iocp!OutputClear, Iocp!OutputAdvance, Iocp!OutputExit
<1>5. ~Iocp!Start /\ ~Iocp!Stopping /\ ~Iocp!Reset
  <2>1. iocpOwner \in {"running", "join"} /\ readerPc # "exited"
    BY <1>1 DEF IocpInv, IocpOwnerInv, Iocp!OwnerPcs
  <2> QED BY <2>1 DEF Iocp!Start, Iocp!Stopping, Iocp!JoinReader, Iocp!StopOutput,
          Iocp!JoinOutput, Iocp!Reset, Iocp!OwnerGoes
<1>6. CASE Iocp!CompleteRead
  BY <1>6 DEF Iocp!CompleteRead, Iocp!odpVars
<1>7. CASE Iocp!RequestStop
  BY <1>7 DEF Iocp!RequestStop, Iocp!odpVars
<1>8. CASE UNCHANGED Iocp!vars
  BY <1>8 DEF Iocp!vars, Iocp!odpVars
<1> QED BY <1>3, <1>4, <1>5, <1>6, <1>7, <1>8 DEF Iocp!Next

\* A completion that was dropped uncounted is never counted.
LEMMA MiscountedStays ==
  ASSUME IocpInv, Iocp!Miscounted, [Iocp!Next]_(Iocp!vars)
  PROVE  Iocp!Miscounted'
<1> DEFINE out == inFlight \union queued
<1>1. /\ readerPc = "drain" /\ activeRequests > Cardinality(out)
      /\ IsFiniteSet(inFlight) /\ IsFiniteSet(queued) /\ IsFiniteSet(out)
      /\ Cardinality(out) \in Nat /\ activeRequests \in Nat
      /\ inFlight \intersect queued = {}
  BY SameCardinality, ReadsFinite
     DEF Iocp!Miscounted, Iocp!Outstanding, IocpInv, IocpPlaceInv, IocpCountInv
<1>2. SUFFICES readerPc' = "drain" /\ activeRequests' > Cardinality(out')
  BY SameCardinality DEF Iocp!Miscounted, Iocp!Outstanding
<1>3. CASE Iocp!Drain
  <2>1. /\ readerPc' = "drain" /\ queued' = {} /\ inFlight' = inFlight
        /\ activeRequests' = activeRequests - Cardinality(queued)
    BY <1>1, <1>3, SameCardinality DEF Iocp!Drain
  <2>2. /\ Cardinality(out) = Cardinality(inFlight) + Cardinality(queued)
        /\ Cardinality(inFlight) \in Nat /\ Cardinality(queued) \in Nat
    <3>1. Cardinality(out) = Cardinality(inFlight) + Cardinality(queued)
                               - Cardinality(inFlight \intersect queued)
      BY <1>1, FS_Union
    <3>2. Cardinality(inFlight \intersect queued) = 0
      BY <1>1, FS_EmptySet
    <3>3. Cardinality(inFlight) \in Nat /\ Cardinality(queued) \in Nat
      BY <1>1, FS_CardinalityType
    <3> QED BY <3>1, <3>2, <3>3
  <2>3. out' = inFlight
    BY <2>1
  <2> HIDE DEF out
  <2> QED BY <1>1, <2>1, <2>2, <2>3
<1>4. ~(Iocp!Reader /\ ~Iocp!Drain) /\ ~Iocp!PortFails
  BY <1>1 DEF Iocp!Reader, Iocp!PortFails, Iocp!PassGate, Iocp!IssueRead, Iocp!IssueFails,
     Iocp!ClaimInitial, Iocp!ClaimNext, Iocp!Claim, Iocp!InitialDone, Iocp!StopAtTop,
     Iocp!LeaveLoop, Iocp!Collect, Iocp!LookAtStop, Iocp!ProcessEntry, Iocp!MarkEntry,
     Iocp!WrongLength, Iocp!NoMoreFiles, Iocp!NextFile, Iocp!OpenFails, Iocp!BatchDone,
     Iocp!ReaderEnds, Iocp!Goes
<1>5. CASE Iocp!CompleteRead
  <2>1. readerPc' = "drain" /\ activeRequests' = activeRequests /\ out' = out
    BY <1>1, <1>5 DEF Iocp!CompleteRead
  <2> QED BY <1>1, <2>1
<1>6. CASE Iocp!Output
  BY <1>1, <1>6 DEF Iocp!Output, Iocp!readVars
<1>7. ~Iocp!Start /\ ~Iocp!Stopping /\ ~Iocp!Reset
  <2>1. iocpOwner \in {"running", "join"} /\ readerPc # "exited"
    BY <1>1 DEF IocpInv, IocpOwnerInv, Iocp!OwnerPcs
  <2> QED BY <2>1 DEF Iocp!Start, Iocp!Stopping, Iocp!JoinReader, Iocp!StopOutput,
          Iocp!JoinOutput, Iocp!Reset, Iocp!OwnerGoes
<1>8. CASE Iocp!RequestStop
  BY <1>1, <1>8 DEF Iocp!RequestStop, Iocp!readVars
<1>9. CASE UNCHANGED Iocp!vars
  BY <1>1, <1>9 DEF Iocp!vars, Iocp!readVars
<1> QED BY <1>3, <1>4, <1>5, <1>6, <1>7, <1>8, <1>9 DEF Iocp!Next

\* A hang of the IOCP reader is for good: a stop does not end it either.
LEMMA IocpHangs ==
  Iocp!Spec => /\ [](Iocp!GateStuck => []Iocp!GateStuck)
               /\ [](Iocp!Miscounted => []Iocp!Miscounted)
<1>1. IocpInv /\ Iocp!GateStuck /\ [Iocp!Next]_(Iocp!vars) => Iocp!GateStuck'
  BY GateStuckStays
<1>2. IocpInv /\ Iocp!Miscounted /\ [Iocp!Next]_(Iocp!vars) => Iocp!Miscounted'
  BY MiscountedStays
<1> QED BY <1>1, <1>2, IocpAlways, PTL DEF Iocp!Spec

-----------------------------------------------------------------------------
\* What the listener was called with are requests of the session.
LEMMA IocpDelivered == IocpInv /\ IocpP!IInv => iocpDelivered \in Seq(Iocp!Requests)
<1> SUFFICES ASSUME IocpInv, IocpP!IInv PROVE iocpDelivered \in Seq(Iocp!Requests)
  OBVIOUS
<1>1. iocpDelivered \in Seq(Nat) /\ Len(iocpDelivered) \in Nat
  BY DEF IocpP!IInv, IocpP!TypeOK
<1>2. Len(iocpDelivered) <= iocpCounter /\ iocpCounter \in 0 .. MaxRequests
  BY <1>1 DEF IocpP!IInv, IocpP!WindowInv, IocpP!Issued, IocpInv, IocpReaderInv
<1>3. \A i \in 1 .. Len(iocpDelivered) : iocpDelivered[i] \in Iocp!Requests
  BY <1>1, <1>2, MaxRequestsAssumption DEF IocpP!IInv, IocpP!InOrder, Iocp!Requests
<1> QED BY <1>1, <1>3
\* A slot holds a block of the session or none.
IocpBlocks == iocpBlock \in [Iocp!Slots -> Iocp!Requests \union {NoBlock}]

\* Blocks come from the batch and go to the listener or with a reset.
LEMMA IocpBlocksStep == IocpInv /\ IocpBlocks /\ [Iocp!Next]_(Iocp!vars) => IocpBlocks'
<1> SUFFICES ASSUME IocpInv, IocpBlocks, [Iocp!Next]_(Iocp!vars),
                    iocpBlock' # iocpBlock
             PROVE  IocpBlocks'
  BY DEF IocpBlocks
<1> USE DEF Iocp!odpVars
<1>1. \/ Iocp!ProcessEntry \/ Iocp!Output \/ Iocp!Reset
  BY DEF Iocp!vars, Iocp!Next, Iocp!Reader, Iocp!PassGate, Iocp!IssueRead, Iocp!IssueFails,
     Iocp!ClaimInitial, Iocp!InitialDone, Iocp!StopAtTop, Iocp!LeaveLoop, Iocp!Collect,
     Iocp!LookAtStop, Iocp!MarkEntry, Iocp!MarkFilled, Iocp!WrongLength, Iocp!ClaimNext,
     Iocp!NoMoreFiles, Iocp!NextFile, Iocp!OpenFails, Iocp!BatchDone, Iocp!Drain,
     Iocp!ReaderEnds, Iocp!PortFails, Iocp!CompleteRead, Iocp!Start,
     Iocp!StartProcessing, Iocp!RequestStop, Iocp!Stopping, Iocp!JoinReader,
     Iocp!StopOutput, Iocp!RequestStopProcessing, Iocp!JoinOutput,
     Iocp!JoinOutputThread
<1>2. CASE Iocp!ProcessEntry
  <2>1. PICK r \in batch : Iocp!StoreBlock(r)
    BY <1>2 DEF Iocp!ProcessEntry
  <2>2. r \in Iocp!Requests
    BY <2>1 DEF IocpInv, IocpPlaceInv, Reads, Iocp!Requests
  <2> QED BY <2>1, <2>2 DEF Iocp!StoreBlock, IocpBlocks
<1>3. CASE Iocp!Output
  BY <1>3 DEF Iocp!Output, Iocp!OutputThread, Iocp!OutputTake, Iocp!OutputDeliver,
     Iocp!OutputClear, Iocp!OutputAdvance, Iocp!OutputExit, IocpBlocks
<1>4. CASE Iocp!Reset
  BY <1>4 DEF Iocp!Reset, Iocp!ResetProcessor, IocpBlocks
<1> QED BY <1>1, <1>2, <1>3, <1>4

\* The variables of the IOCP reader keep their types: it counts no more reads
\* than it may have in flight, and numbers no more than the file has.
LEMMA IocpTypes == Iocp!Spec => []Iocp!TypeOK
<1>1. Iocp!Init => IocpBlocks
  BY DEF Iocp!Init, Iocp!ODPInit, IocpBlocks
<1>2. Iocp!Spec => []IocpBlocks
  BY <1>1, IocpBlocksStep, IocpAlways, PTL DEF Iocp!Spec
<1>3. IocpInv /\ IocpP!IInv /\ IocpBlocks => Iocp!TypeOK
  <2> SUFFICES ASSUME IocpInv, IocpP!IInv, IocpBlocks PROVE Iocp!TypeOK
    OBVIOUS
  <2>1. /\ iocpFilled \in [Iocp!Slots -> BOOLEAN] /\ iocpNext \in Iocp!Slots
        /\ iocpOut \in Iocp!OutputPcs
    BY DEF IocpP!IInv, IocpP!TypeOK, IocpP!Slots, Iocp!Slots, IocpP!OutputPcs,
       Iocp!OutputPcs
  <2>2. /\ iocpStop \in BOOLEAN /\ iocpRequested \in BOOLEAN
        /\ iocpOwner \in Iocp!OwnerPcs /\ readerPc \in Iocp!ReaderPcs
        /\ iocpCounter \in 0 .. MaxRequests /\ initialLeft \in 0 .. IoRequestNum
        /\ Iocp!fileVars \in BOOLEAN \X BOOLEAN \X BOOLEAN
    BY DEF IocpInv, IocpOwnerInv, IocpReaderInv, Iocp!fileVars
  <2>3. /\ inFlight \subseteq Iocp!Requests /\ queued \subseteq Iocp!Requests
        /\ batch \subseteq Iocp!Requests /\ current \in Iocp!Requests \union {NoBlock}
    BY DEF IocpInv, IocpPlaceInv, Reads, Iocp!Requests
  <2>4. activeRequests \in 0 .. IoRequestNum
    BY IocpNumbers DEF IocpInv
  <2> QED BY <2>1, <2>2, <2>3, <2>4, IocpDelivered DEF Iocp!TypeOK, IocpBlocks
<1> QED BY <1>2, <1>3, IocpAlways, IocpWindow, PTL
-----------------------------------------------------------------------------
(***************************************************************************)
(* The shared-memory ring and its two processes.                           *)
(*                                                                         *)
(* The indices survive every death.  The producer's steps matter only while*)
(* there is room for its slot, the consumer's only while there is a slot   *)
(* to consume, and the slot the processor has taken last stays as it is    *)
(* until it is given back.                                                 *)
(***************************************************************************)
ShmIndexInv ==
  /\ head \in Nat /\ tail \in 0 .. MaxItems
  /\ head <= tail /\ tail <= head + SlotCount
  /\ takenCount \in head .. (head + 1) /\ takenCount <= tail

ShmThreadInv ==
  /\ toolPc \in Shm!ToolPcs /\ consumerPc \in Shm!ConsumerPcs /\ appPc \in Shm!AppPcs
  /\ toolPc \in {"write", "length", "commit"} => tail < MaxItems /\ tail < head + SlotCount
  /\ consumerPc \in {"copy", "mark", "advance"} => head < tail
  /\ consumerPc \in {"mark", "advance"} => takenCount = head + 1

ShmSlotInv ==
  /\ slotLength \in [Shm!RingSlots -> BOOLEAN]
  /\ slotPayload \in [Shm!RingSlots -> Payloads]
  /\ taken \in Payloads
  /\ takenCount = head + 1 => taken = slotPayload[Shm!RingSlot(head)]

ShmBlockInv ==
  /\ shmFilled \in [Shm!Slots -> BOOLEAN]
  /\ shmBlock \in [Shm!Slots -> 0 .. (MaxItems - 1) \union {NoBlock}]

ShmInv == ShmIndexInv /\ ShmThreadInv /\ ShmSlotInv /\ ShmBlockInv
\* Initially the ring is empty and nobody is there.
LEMMA ShmInitInv == Shm!Init => ShmInv
<1> SUFFICES ASSUME Shm!Init PROVE ShmInv
  OBVIOUS
<1>1. taken \in Payloads
  BY PayloadsAssumption DEF Shm!Init
<1>2. ShmIndexInv
  BY SlotCountAssumption, MaxItemsAssumption DEF Shm!Init, Shm!ShmInit, ShmIndexInv
<1>3. ShmThreadInv
  BY DEF Shm!Init, ShmThreadInv, Shm!ToolPcs, Shm!ConsumerPcs, Shm!AppPcs
<1>4. ShmSlotInv
  BY <1>1, PayloadsAssumption DEF Shm!Init, Shm!ShmInit, ShmSlotInv
<1>5. ShmBlockInv
  BY DEF Shm!Init, Shm!ODPInit, ShmBlockInv
<1> QED BY <1>2, <1>3, <1>4, <1>5 DEF ShmInv

\* The places of a ring.
ShmRingProofs == INSTANCE OrderedRead_proofs WITH
  TotalSlots <- SlotCount,
  slotFilled <- shmFilled, slotBlock <- shmBlock, nextOutputSlot <- shmNext,
  stopThread <- shmStop, outPc <- shmOut, delivered <- shmDelivered,
  requestCounter <- 0, atGate <- FALSE, reading <- {}, storing <- {},
  stopRequested <- FALSE

\* Every index has a place in the ring, and indices less than a ring apart
\* have different ones.
LEMMA ShmPlaces ==
  /\ \A i \in Nat : Shm!RingSlot(i) \in Shm!RingSlots
  /\ \A i, j \in Nat :
       i < j /\ j < i + SlotCount => Shm!RingSlot(i) # Shm!RingSlot(j)
<1> USE SlotCountAssumption, NoBlockAssumption, MaxRequestsAssumption
<1>1. /\ \A i : ShmRingProofs!SlotOf(i) = Shm!RingSlot(i)
      /\ ShmRingProofs!Slots = Shm!RingSlots
  BY DEF ShmRingProofs!SlotOf, Shm!RingSlot, ShmRingProofs!Slots, Shm!RingSlots
<1>2. \A i \in Nat : Shm!RingSlot(i) \in Shm!RingSlots
  BY <1>1, ShmRingProofs!SlotOfInRing
<1>3. ASSUME NEW i \in Nat, NEW j \in Nat, i < j, j < i + SlotCount,
             Shm!RingSlot(i) = Shm!RingSlot(j)
      PROVE  FALSE
  <2>1. i = j
    BY <1>1, <1>3, ShmRingProofs!SlotOfInjective
  <2> QED BY <1>3, <2>1
<1> QED BY <1>2, <1>3

\* Numbers that the invariant is about.
LEMMA ShmNumbers ==
  ASSUME ShmInv
  PROVE  /\ head \in Nat /\ tail \in Nat /\ takenCount \in Nat
         /\ SlotCount \in Nat \ {0} /\ MaxItems \in Nat
         /\ tail <= MaxItems /\ head <= tail /\ tail <= head + SlotCount
         /\ takenCount = head \/ takenCount = head + 1
         /\ takenCount <= tail
  BY SlotCountAssumption, MaxItemsAssumption DEF ShmInv, ShmIndexInv

\* The slot the producer acquired is none of those it committed and the
\* consumer has not given back.
LEMMA ShmFreePlace ==
  ASSUME ShmInv, toolPc \in {"write", "length", "commit"},
         NEW i \in Nat, head <= i, i < tail
  PROVE  Shm!RingSlot(i) # Shm!RingSlot(tail)
<1>1. tail < i + SlotCount
  BY ShmNumbers DEF ShmInv, ShmThreadInv
<1> QED BY <1>1, ShmNumbers, ShmPlaces

\* The producer's steps, from a start to a death at any point.
LEMMA ShmToolStep == ShmInv /\ (Shm!ToolStart \/ Shm!Tool \/ Shm!ToolEnd) => ShmInv'
<1> SUFFICES ASSUME ShmInv, Shm!ToolStart \/ Shm!Tool \/ Shm!ToolEnd PROVE ShmInv'
  OBVIOUS
<1> USE DEF Shm!ToolGoes, Shm!odpVars, Shm!shmVars, Shm!historyVars
<1>1. ShmIndexInv /\ ShmThreadInv /\ ShmSlotInv /\ ShmBlockInv
  BY DEF ShmInv
<1>2. UNCHANGED <<shmFilled, shmBlock, consumerPc, appPc, head, takenCount, taken>>
  BY DEF Shm!ToolStart, Shm!Tool, Shm!ToolEnd, Shm!AcquireSlot, Shm!WriteSlot,
     Shm!CommitLength, Shm!CommitTail, Shm!WritePayload, Shm!StoreLength, Shm!MoveTail
<1>3. ShmBlockInv'
  BY <1>1, <1>2 DEF ShmBlockInv
<1>4. CASE Shm!ToolStart \/ Shm!ToolEnd
  <2>1. UNCHANGED <<tail, slotLength, slotPayload>> /\ toolPc' \in {"off", "acquire"}
    BY <1>4 DEF Shm!ToolStart, Shm!ToolEnd
  <2> QED BY <1>1, <1>2, <1>3, <2>1
          DEF ShmInv, ShmIndexInv, ShmThreadInv, ShmSlotInv, Shm!ToolPcs
<1>5. CASE Shm!AcquireSlot
  <2>1. /\ UNCHANGED <<tail, slotLength, slotPayload>> /\ toolPc' = "write"
        /\ tail < MaxItems /\ tail + 1 - head <= SlotCount
    BY <1>5 DEF Shm!AcquireSlot, Shm!HasRoom
  <2>2. tail < head + SlotCount
    BY <2>1, ShmNumbers
  <2> QED BY <1>1, <1>2, <1>3, <2>1, <2>2
          DEF ShmInv, ShmIndexInv, ShmThreadInv, ShmSlotInv, Shm!ToolPcs
<1>6. CASE Shm!WriteSlot
  <2>1. PICK p \in Payloads : slotPayload' = [slotPayload EXCEPT ![Shm!RingSlot(tail)] = p]
    BY <1>6 DEF Shm!WriteSlot, Shm!WritePayload
  <2>2. UNCHANGED <<tail, slotLength>> /\ toolPc = "write" /\ toolPc' = "length"
    BY <1>6 DEF Shm!WriteSlot, Shm!WritePayload
  <2>3. slotPayload' \in [Shm!RingSlots -> Payloads]
    BY <1>1, <2>1 DEF ShmSlotInv
  <2>4. takenCount = head + 1 => slotPayload'[Shm!RingSlot(head)] = slotPayload[Shm!RingSlot(head)]
    <3> SUFFICES ASSUME takenCount = head + 1
                 PROVE  Shm!RingSlot(head) # Shm!RingSlot(tail)
      BY <1>1, <2>1, ShmNumbers, ShmPlaces DEF ShmSlotInv
    <3> QED BY <2>2, ShmNumbers, ShmFreePlace
  <2>5. ShmSlotInv'
    BY <1>1, <1>2, <2>2, <2>3, <2>4 DEF ShmSlotInv
  <2> QED BY <1>1, <1>2, <1>3, <2>2, <2>5
          DEF ShmInv, ShmIndexInv, ShmThreadInv, Shm!ToolPcs
<1>7. CASE Shm!CommitLength
  <2>1. /\ UNCHANGED <<tail, slotPayload>> /\ toolPc = "length" /\ toolPc' = "commit"
        /\ slotLength' = [slotLength EXCEPT ![Shm!RingSlot(tail)] = TRUE]
    BY <1>7 DEF Shm!CommitLength, Shm!StoreLength
  <2>2. slotLength' \in [Shm!RingSlots -> BOOLEAN]
    BY <1>1, <2>1 DEF ShmSlotInv
  <2> QED BY <1>1, <1>2, <1>3, <2>1, <2>2
          DEF ShmInv, ShmIndexInv, ShmThreadInv, ShmSlotInv, Shm!ToolPcs
<1>8. CASE Shm!CommitTail
  <2>1. /\ UNCHANGED <<slotLength, slotPayload>> /\ toolPc = "commit" /\ toolPc' = "acquire"
        /\ tail' = tail + 1
    BY <1>8 DEF Shm!CommitTail, Shm!MoveTail
  <2>2. ShmIndexInv'
    BY <1>1, <1>2, <2>1, ShmNumbers DEF ShmIndexInv, ShmThreadInv
  <2>3. ShmThreadInv'
    BY <1>1, <1>2, <2>1, ShmNumbers DEF ShmThreadInv, Shm!ToolPcs
  <2> QED BY <1>1, <1>2, <1>3, <2>1, <2>2, <2>3 DEF ShmInv, ShmSlotInv
<1> QED BY <1>4, <1>5, <1>6, <1>7, <1>8 DEF Shm!Tool

\* The consumer's steps.
LEMMA ShmConsumerStep == ShmInv /\ Shm!Consumer => ShmInv'
<1> SUFFICES ASSUME ShmInv, Shm!Consumer PROVE ShmInv'
  OBVIOUS
<1> USE DEF Shm!ConsumerGoes, Shm!odpVars, Shm!shmVars, Shm!historyVars, Shm!ConsumerPcs
<1>1. ShmIndexInv /\ ShmThreadInv /\ ShmSlotInv /\ ShmBlockInv
  BY DEF ShmInv
<1>2. UNCHANGED <<toolPc, appPc, tail, slotLength, slotPayload>>
  BY DEF Shm!Consumer, Shm!Peek, Shm!TakeSlot, Shm!Refused, Shm!MarkSlot, Shm!Advance,
     Shm!MoveHead
<1>3. CASE Shm!Peek
  <2>1. /\ UNCHANGED <<shmFilled, shmBlock, head, takenCount, taken>>
        /\ consumerPc' = "copy" /\ head < tail
    BY <1>3 DEF Shm!Peek, Shm!Peekable
  <2> QED BY <1>1, <1>2, <2>1
          DEF ShmInv, ShmIndexInv, ShmThreadInv, ShmSlotInv, ShmBlockInv
<1>4. CASE Shm!TakeSlot
  <2>1. /\ consumerPc = "copy" /\ consumerPc' = "mark"
        /\ Shm!StoreBlock(head)
        /\ takenCount' = head + 1 /\ taken' = slotPayload[Shm!RingSlot(head)]
        /\ UNCHANGED head
    BY <1>4 DEF Shm!TakeSlot
  <2>2. head < tail /\ head \in 0 .. (MaxItems - 1)
    BY <1>1, <2>1, ShmNumbers DEF ShmThreadInv
  <2>3. ShmBlockInv'
    BY <1>1, <2>1, <2>2 DEF ShmBlockInv, Shm!StoreBlock
  <2>4. ShmIndexInv' /\ ShmThreadInv'
    BY <1>1, <1>2, <2>1, <2>2, ShmNumbers DEF ShmIndexInv, ShmThreadInv
  <2>5. ShmSlotInv'
    BY <1>1, <1>2, <2>1, ShmNumbers, ShmPlaces DEF ShmSlotInv
  <2> QED BY <2>3, <2>4, <2>5 DEF ShmInv
<1>5. CASE Shm!Refused
  <2>1. /\ UNCHANGED <<shmFilled, shmBlock, head, takenCount, taken>>
        /\ consumerPc' = "peek"
    BY <1>5 DEF Shm!Refused
  <2> QED BY <1>1, <1>2, <2>1
          DEF ShmInv, ShmIndexInv, ShmThreadInv, ShmSlotInv, ShmBlockInv
<1>6. CASE Shm!MarkSlot
  <2>1. /\ consumerPc = "mark" /\ consumerPc' = "advance" /\ Shm!MarkFilled(head)
        /\ UNCHANGED <<head, takenCount, taken>>
    BY <1>6 DEF Shm!MarkSlot
  <2>2. ShmBlockInv'
    BY <1>1, <2>1 DEF ShmBlockInv, Shm!MarkFilled
  <2> QED BY <1>1, <1>2, <2>1, <2>2 DEF ShmInv, ShmIndexInv, ShmThreadInv, ShmSlotInv
<1>7. CASE Shm!Advance
  <2>1. /\ consumerPc = "advance" /\ consumerPc' = "peek" /\ head' = head + 1
        /\ UNCHANGED <<shmFilled, shmBlock, takenCount, taken>>
    BY <1>7 DEF Shm!Advance, Shm!MoveHead
  <2>2. takenCount = head + 1 /\ head < tail
    BY <1>1, <2>1 DEF ShmThreadInv
  <2>3. ShmIndexInv' /\ takenCount' # head' + 1
    BY <1>1, <1>2, <2>1, <2>2, ShmNumbers DEF ShmIndexInv
  <2>4. ShmThreadInv'
    BY <1>1, <1>2, <2>1, ShmNumbers DEF ShmThreadInv
  <2> QED BY <1>1, <1>2, <2>1, <2>3, <2>4 DEF ShmInv, ShmSlotInv, ShmBlockInv
<1> QED BY <1>3, <1>4, <1>5, <1>6, <1>7 DEF Shm!Consumer

\* The application starts, is started again, crashes or ends; the ring stays
\* as it is.
LEMMA ShmAppStep ==
  ShmInv /\ (Shm!AppStart \/ Shm!StartAgain \/ Shm!AppCrash \/ Shm!Leave \/ Shm!Left)
    => ShmInv'
<1> SUFFICES ASSUME ShmInv,
                    \/ Shm!AppStart \/ Shm!StartAgain \/ Shm!AppCrash
                    \/ Shm!Leave \/ Shm!Left
             PROVE  ShmInv'
  OBVIOUS
<1>1. /\ UNCHANGED <<head, tail, slotLength, slotPayload, toolPc, takenCount, taken>>
      /\ consumerPc' = consumerPc \/ consumerPc' \in {"none", "peek"}
      /\ appPc' = appPc \/ appPc' \in {"off", "running", "leaving"}
      /\ \/ UNCHANGED <<shmFilled, shmBlock>>
         \/ Shm!ResetProcessor
  BY DEF Shm!AppStart, Shm!StartAgain, Shm!AppCrash, Shm!Leave, Shm!Left, Shm!AppEnds,
     Shm!odpVars, Shm!shmVars, Shm!historyVars
<1>2. ShmBlockInv'
  BY <1>1 DEF ShmInv, ShmBlockInv, Shm!ResetProcessor
<1> QED BY <1>1, <1>2 DEF ShmInv, ShmIndexInv, ShmThreadInv, ShmSlotInv, Shm!ConsumerPcs,
        Shm!AppPcs

\* Every step keeps the invariant of the ring.
LEMMA ShmStep == ShmInv /\ [Shm!Next]_(Shm!vars) => ShmInv'
<1>1. ShmInv /\ UNCHANGED Shm!vars => ShmInv'
  BY DEF ShmInv, ShmIndexInv, ShmThreadInv, ShmSlotInv, ShmBlockInv, Shm!vars,
     Shm!odpVars, Shm!shmVars, Shm!historyVars
<1> QED BY <1>1, ShmToolStep, ShmConsumerStep, ShmAppStep DEF Shm!Next

\* The invariant holds whatever dies where.
LEMMA ShmAlways == Shm!Spec => []ShmInv
<1> QED BY ShmInitInv, ShmStep, PTL DEF Shm!Spec

\* The variables of the ring and of its two processes keep their types: the
\* indices never cross and the one of what was taken is at most one ahead.
LEMMA ShmTypes == Shm!Spec => []Shm!TypeOK
<1>1. ShmInv => Shm!TypeOK
  <2> SUFFICES ASSUME ShmInv PROVE Shm!TypeOK
    OBVIOUS
  <2>1. /\ head \in 0 .. MaxItems /\ tail \in 0 .. MaxItems /\ head <= tail
        /\ takenCount \in head .. (head + 1)
    BY ShmNumbers
  <2> QED BY <2>1 DEF ShmInv, ShmThreadInv, ShmSlotInv, ShmBlockInv, Shm!TypeOK
<1> QED BY <1>1, ShmAlways, PTL
-----------------------------------------------------------------------------
(* The ring between two processes is a first-in first-out queue.           *)

\* What a run of n slots of a ring with payloads p holds.
View(p, from, n) == [k \in 1 .. n |-> p[Shm!RingSlot(from + k - 1)]]

\* The abstract queue is such a run, before and after a step.
LEMMA QueueIsView ==
  /\ Shm!Queue = View(slotPayload, takenCount, tail - takenCount)
  /\ Shm!Queue' = View(slotPayload', takenCount', tail' - takenCount')
  BY DEF Shm!Queue, View

\* A run is a sequence of payloads.
LEMMA ViewIsSeq ==
  ASSUME NEW p \in [Shm!RingSlots -> Payloads], NEW from \in Nat, NEW n \in Nat
  PROVE  /\ View(p, from, n) \in Seq(Payloads)
         /\ Len(View(p, from, n)) = n
         /\ \A k \in 1 .. n : View(p, from, n)[k] = p[Shm!RingSlot(from + k - 1)]
<1>1. \A k \in 1 .. n : from + k - 1 \in Nat
  OBVIOUS
<1>2. \A k \in 1 .. n : p[Shm!RingSlot(from + k - 1)] \in Payloads
  BY <1>1, ShmPlaces
<1>3. View(p, from, n) \in [1 .. n -> Payloads]
  BY <1>2 DEF View
<1>4. View(p, from, n) \in Seq(Payloads) /\ Len(View(p, from, n)) = n
  BY <1>3
<1>5. \A k \in 1 .. n : View(p, from, n)[k] = p[Shm!RingSlot(from + k - 1)]
  BY DEF View
<1> QED BY <1>4, <1>5

\* The slot behind a run extends it.
LEMMA ViewAppend ==
  ASSUME NEW p \in [Shm!RingSlots -> Payloads], NEW from \in Nat, NEW n \in Nat
  PROVE  View(p, from, n + 1) = Append(View(p, from, n), p[Shm!RingSlot(from + n)])
<1> DEFINE short == View(p, from, n)
           long == View(p, from, n + 1)
           last == p[Shm!RingSlot(from + n)]
<1>0. n + 1 \in Nat /\ from + n \in Nat
  OBVIOUS
<1>1. /\ short \in Seq(Payloads) /\ Len(short) = n
      /\ long \in Seq(Payloads) /\ Len(long) = n + 1 /\ last \in Payloads
      /\ \A k \in 1 .. n : short[k] = p[Shm!RingSlot(from + k - 1)]
      /\ \A k \in 1 .. (n + 1) : long[k] = p[Shm!RingSlot(from + k - 1)]
  <2>1. last \in Payloads
    BY <1>0, ShmPlaces
  <2>2. /\ short \in Seq(Payloads) /\ Len(short) = n
        /\ \A k \in 1 .. n : short[k] = p[Shm!RingSlot(from + k - 1)]
    BY ViewIsSeq
  <2>3. /\ long \in Seq(Payloads) /\ Len(long) = n + 1
        /\ \A k \in 1 .. (n + 1) : long[k] = p[Shm!RingSlot(from + k - 1)]
    BY <1>0, ViewIsSeq
  <2> QED BY <2>1, <2>2, <2>3
<1>2. from + (n + 1) - 1 = from + n
  OBVIOUS
<1> HIDE DEF short, long, last
<1>3. /\ Append(short, last) \in Seq(Payloads) /\ Len(Append(short, last)) = n + 1
      /\ \A k \in 1 .. n : Append(short, last)[k] = short[k]
      /\ Append(short, last)[n + 1] = last
  BY <1>1, AppendProperties
<1>4. \A k \in 1 .. (n + 1) : long[k] = Append(short, last)[k]
  BY <1>1, <1>2, <1>3 DEF last
<1>5. long = Append(short, last)
  BY <1>1, <1>3, <1>4, SeqEqual
<1> QED BY <1>5 DEF short, long, last

\* The first slot of a run is its head, the rest its tail.
LEMMA ViewTail ==
  ASSUME NEW p \in [Shm!RingSlots -> Payloads], NEW from \in Nat, NEW n \in Nat \ {0}
  PROVE  /\ View(p, from, n) # <<>>
         /\ Head(View(p, from, n)) = p[Shm!RingSlot(from)]
         /\ Tail(View(p, from, n)) = View(p, from + 1, n - 1)
<1> DEFINE whole == View(p, from, n)
           rest == View(p, from + 1, n - 1)
<1>0. n \in Nat /\ n - 1 \in Nat /\ from + 1 \in Nat
  OBVIOUS
<1>1. /\ whole \in Seq(Payloads) /\ Len(whole) = n /\ n - 1 \in Nat
      /\ rest \in Seq(Payloads) /\ Len(rest) = n - 1
      /\ \A k \in 1 .. n : whole[k] = p[Shm!RingSlot(from + k - 1)]
      /\ \A k \in 1 .. (n - 1) : rest[k] = p[Shm!RingSlot(from + 1 + k - 1)]
  <2>1. /\ whole \in Seq(Payloads) /\ Len(whole) = n
        /\ \A k \in 1 .. n : whole[k] = p[Shm!RingSlot(from + k - 1)]
    BY <1>0, ViewIsSeq
  <2>2. /\ rest \in Seq(Payloads) /\ Len(rest) = n - 1
        /\ \A k \in 1 .. (n - 1) : rest[k] = p[Shm!RingSlot(from + 1 + k - 1)]
    BY <1>0, ViewIsSeq
  <2> QED BY <1>0, <2>1, <2>2
<1>2. from + 1 - 1 = from
  OBVIOUS
<1> HIDE DEF whole, rest
<1>3. whole # <<>>
  BY <1>1
<1>4. Head(whole) = p[Shm!RingSlot(from)]
  BY <1>1, <1>2, <1>3
<1>5. /\ Tail(whole) \in Seq(Payloads) /\ Len(Tail(whole)) = n - 1
      /\ \A k \in 1 .. (n - 1) : Tail(whole)[k] = whole[k + 1]
  BY <1>1, <1>3, HeadTailProperties
<1>6. ASSUME NEW k \in 1 .. (n - 1) PROVE Tail(whole)[k] = rest[k]
  <2>1. k + 1 \in 1 .. n /\ from + 1 + k - 1 = from + (k + 1) - 1
    OBVIOUS
  <2>2. Tail(whole)[k] = p[Shm!RingSlot(from + (k + 1) - 1)]
    BY <1>1, <1>5, <2>1
  <2> QED BY <1>1, <2>1, <2>2
<1>7. Tail(whole) = rest
  BY <1>1, <1>5, <1>6, SeqEqual
<1> QED BY <1>3, <1>4, <1>7 DEF whole, rest

\* A committed slot is the abstract Put, and there is room for it.
LEMMA ShmPut == ShmInv /\ Shm!CommitTail => Shm!Fifo!Put
<1> SUFFICES ASSUME ShmInv, Shm!CommitTail PROVE Shm!Fifo!Put
  OBVIOUS
<1> DEFINE n == tail - takenCount
           item == slotPayload[Shm!RingSlot(tail)]
<1>1. /\ toolPc = "commit" /\ tail' = tail + 1
      /\ UNCHANGED <<slotPayload, takenCount, taken>>
  BY DEF Shm!CommitTail, Shm!ToolGoes, Shm!MoveTail, Shm!historyVars
<1>2. slotPayload \in [Shm!RingSlots -> Payloads] /\ tail < head + SlotCount
  BY <1>1 DEF ShmInv, ShmSlotInv, ShmThreadInv
<1>3. /\ n \in Nat /\ n < SlotCount /\ takenCount + n = tail
      /\ tail' - takenCount' = n + 1
  BY <1>1, <1>2, ShmNumbers
<1>4. item \in Payloads
  BY <1>2, ShmNumbers, ShmPlaces
<1> HIDE DEF n, item
<1>5. Shm!Queue = View(slotPayload, takenCount, n)
  BY QueueIsView DEF n
<1>6. Shm!Queue' = View(slotPayload, takenCount, n + 1)
  BY <1>1, <1>3, QueueIsView
<1>7. Len(Shm!Queue) < SlotCount
  BY <1>2, <1>3, <1>5, ShmNumbers, ViewIsSeq
<1>8. Shm!Queue' = Append(Shm!Queue, item)
  BY <1>2, <1>3, <1>5, <1>6, ShmNumbers, ViewAppend DEF item
<1> QED BY <1>1, <1>4, <1>7, <1>8 DEF Shm!Fifo!Put

\* The processor's copy is the abstract Get, unless it is the second of a slot
\* that was taken before a crash and not given back: then nothing changes.
LEMMA ShmGet ==
  ShmInv /\ Shm!TakeSlot => Shm!Fifo!Get \/ UNCHANGED <<Shm!Queue, taken>>
<1> SUFFICES ASSUME ShmInv, Shm!TakeSlot
             PROVE  Shm!Fifo!Get \/ UNCHANGED <<Shm!Queue, taken>>
  OBVIOUS
<1>1. /\ consumerPc = "copy" /\ takenCount' = head + 1
      /\ taken' = slotPayload[Shm!RingSlot(head)]
      /\ UNCHANGED <<head, tail, slotPayload>>
  BY DEF Shm!TakeSlot, Shm!ConsumerGoes, Shm!shmVars
<1>2. slotPayload \in [Shm!RingSlots -> Payloads] /\ head < tail
  BY <1>1 DEF ShmInv, ShmSlotInv, ShmThreadInv
<1>3. CASE takenCount = head
  <2> DEFINE n == tail - takenCount
  <2>1. n \in Nat \ {0} /\ tail' - takenCount' = n - 1 /\ takenCount' = takenCount + 1
    BY <1>1, <1>2, <1>3, ShmNumbers
  <2> HIDE DEF n
  <2>2. /\ Shm!Queue = View(slotPayload, takenCount, n)
        /\ Shm!Queue' = View(slotPayload, takenCount + 1, n - 1)
    BY <1>1, <2>1, QueueIsView DEF n
  <2>3. /\ Shm!Queue # <<>> /\ Shm!Queue' = Tail(Shm!Queue)
        /\ Head(Shm!Queue) = slotPayload[Shm!RingSlot(takenCount)]
    <3>1. takenCount \in Nat
      BY ShmNumbers
    <3>2. /\ View(slotPayload, takenCount, n) # <<>>
          /\ Head(View(slotPayload, takenCount, n)) = slotPayload[Shm!RingSlot(takenCount)]
          /\ Tail(View(slotPayload, takenCount, n)) = View(slotPayload, takenCount + 1, n - 1)
      BY <1>2, <2>1, <3>1, ViewTail, Zenon
    <3> QED BY <2>2, <3>2, Zenon
  <2> QED BY <1>1, <1>3, <2>3 DEF Shm!Fifo!Get
<1>4. CASE takenCount = head + 1
  <2>1. taken' = taken
    BY <1>1, <1>4 DEF ShmInv, ShmSlotInv
  <2>2. Shm!Queue' = Shm!Queue
    BY <1>1, <1>4, QueueIsView
  <2> QED BY <2>1, <2>2
<1> QED BY <1>3, <1>4, ShmNumbers

\* The producer writes outside what is queued.
LEMMA ShmWrite == ShmInv /\ Shm!WriteSlot => UNCHANGED <<Shm!Queue, taken>>
<1> SUFFICES ASSUME ShmInv, Shm!WriteSlot PROVE UNCHANGED <<Shm!Queue, taken>>
  OBVIOUS
<1> DEFINE n == tail - takenCount
<1>1. /\ toolPc = "write" /\ UNCHANGED <<head, tail, takenCount, taken>>
      /\ \E p \in Payloads : slotPayload' = [slotPayload EXCEPT ![Shm!RingSlot(tail)] = p]
  BY DEF Shm!WriteSlot, Shm!ToolGoes, Shm!WritePayload, Shm!historyVars
<1>2. slotPayload \in [Shm!RingSlots -> Payloads] /\ n \in Nat
  BY ShmNumbers DEF ShmInv, ShmSlotInv
<1>3. ASSUME NEW k \in 1 .. n
      PROVE  slotPayload'[Shm!RingSlot(takenCount + k - 1)]
               = slotPayload[Shm!RingSlot(takenCount + k - 1)]
  <2> DEFINE i == takenCount + k - 1
  <2>1. i \in Nat /\ head <= i /\ i < tail
    BY <1>2, ShmNumbers
  <2> HIDE DEF i
  <2>2. /\ Shm!RingSlot(i) # Shm!RingSlot(tail)
        /\ Shm!RingSlot(i) \in Shm!RingSlots
    BY <1>1, <2>1, ShmFreePlace, ShmPlaces
  <2>3. slotPayload'[Shm!RingSlot(i)] = slotPayload[Shm!RingSlot(i)]
    BY <1>1, <1>2, <2>2
  <2> QED BY <2>3 DEF i
<1>4. View(slotPayload', takenCount, n) = View(slotPayload, takenCount, n)
  BY <1>3 DEF View
<1> QED BY <1>1, <1>4, QueueIsView

\* Every step of the two processes is one of the queue's, or none.
LEMMA ShmSimulation ==
  ShmInv /\ [Shm!Next]_(Shm!vars) => [Shm!Fifo!Next]_(Shm!Fifo!vars)
<1> SUFFICES ASSUME ShmInv, [Shm!Next]_(Shm!vars)
             PROVE  Shm!Fifo!Next \/ UNCHANGED <<Shm!Queue, taken>>
  BY DEF Shm!Fifo!vars
<1>1. CASE Shm!WriteSlot \/ Shm!CommitTail \/ Shm!TakeSlot
  BY <1>1, ShmWrite, ShmPut, ShmGet DEF Shm!Fifo!Next
<1>2. CASE ~(Shm!WriteSlot \/ Shm!CommitTail \/ Shm!TakeSlot)
  <2>1. UNCHANGED <<tail, takenCount, taken, slotPayload>>
    BY <1>2 DEF Shm!Next, Shm!ToolStart, Shm!Tool, Shm!ToolEnd, Shm!ToolGoes,
       Shm!AcquireSlot, Shm!CommitLength, Shm!StoreLength, Shm!Consumer, Shm!ConsumerGoes,
       Shm!Peek, Shm!Refused, Shm!MarkSlot, Shm!Advance, Shm!MoveHead, Shm!AppStart,
       Shm!StartAgain, Shm!AppCrash, Shm!AppEnds, Shm!Leave, Shm!Left, Shm!vars,
       Shm!shmVars, Shm!historyVars
  <2> QED BY <2>1, QueueIsView
<1> QED BY <1>1, <1>2

\* The ring in shared memory is a queue between the two processes: what was
\* committed is taken in order, whole, and at most once, whichever dies where.
LEMMA ShmIsFifo == Shm!Spec => ShmImplementsFifo
<1>1. Shm!Init => Shm!Fifo!Init
  <2> SUFFICES ASSUME Shm!Init PROVE Shm!Fifo!Init
    OBVIOUS
  <2>1. slotPayload \in [Shm!RingSlots -> Payloads] /\ taken \in Payloads
    BY ShmInitInv DEF ShmInv, ShmSlotInv
  <2>2. Shm!Queue = View(slotPayload, 0, 0)
    BY QueueIsView DEF Shm!Init, Shm!ShmInit
  <2>3. View(slotPayload, 0, 0) = <<>>
    BY <2>1, ViewIsSeq, EmptySeq
  <2> QED BY <2>1, <2>2, <2>3 DEF Shm!Fifo!Init
<1>2. ShmInv /\ [Shm!Next]_(Shm!vars) => [Shm!Fifo!Next]_(Shm!Fifo!vars)
  BY ShmSimulation
<1> QED BY <1>1, <1>2, ShmAlways, PTL
    DEF Shm!Spec, ShmImplementsFifo, Shm!ImplementsFifo, Shm!Fifo!Spec
-----------------------------------------------------------------------------
(***************************************************************************)
(* The window and its transfers.                                           *)
(*                                                                         *)
(* The types that need no argument.                                        *)
(***************************************************************************)
ThreadStates == {"NotStarted", "Running", "Stopped", "Error"}

WindowTypes ==
  /\ build \in {"linux", "windows"} /\ single \in BOOLEAN
  /\ enabled \subseteq Window!Buttons
  /\ stopSending \in BOOLEAN /\ closing \in BOOLEAN /\ deviceOpen \in BOOLEAN
  /\ uiPc \in {"idle", "joinReader", "joinWorker", "terminated"}
  /\ threadState \in ThreadStates
  /\ worker \in {"none", "alive", "ended"}
  /\ sent \in Nat
  /\ status \in [threadState : ThreadStates, sent : Nat]
  /\ reader \in {"none", "starting", "reading", "ended"} /\ readerRunning \in BOOLEAN
  /\ inputNum \in 0 .. FileBlocks /\ outputNum \in 0 .. inputNum
  /\ output \in {"none", "idle", "send"}
  /\ session \in 0 .. MaxSessions
  /\ resetFailed \in BOOLEAN /\ foreign \in BOOLEAN
  /\ ownWritten \in Nat

\* What the buttons and the flag say of the threads; the status is not needed.
ThreadsInv ==
  /\ "reset" \in enabled => output = "none" /\ worker = "none"
  /\ "open" \in enabled => /\ enabled = {"open"} /\ uiPc = "idle" /\ ~deviceOpen
                           /\ output = "none" /\ worker = "none"
  /\ stopSending /\ uiPc = "idle" => output = "none" /\ worker = "none"
  /\ uiPc \in {"joinReader", "joinWorker"} => stopSending
  /\ uiPc = "joinWorker" => output = "none"
  /\ output # "none" => threadState \in {"Running", "Error"} /\ session # 0
  /\ reader = "reading" => readerRunning
  /\ reader = "starting" => inputNum = 0

(***************************************************************************)
(* Each queue holds the blocks of this session behind those that an earlier*)
(* one left, and only a failed reset leaves any.  What this session has    *)
(* written, queued and in hand it has been given by the output thread.     *)
(***************************************************************************)
Leftover(p, n) ==
  /\ n <= Len(queues[p])
  /\ \A i \in 1 .. Len(queues[p]) : queues[p][i] = session <=> n < i

InSend == IF output = "send" THEN 1 ELSE 0

Given(n) ==
  ownWritten + (Len(queues["descriptor"]) - n["descriptor"])
             + (Len(queues["copy"]) - n["copy"]) + InSend <= outputNum

QueueTypes ==
  /\ queues \in [Window!AllPaths -> Seq(1 .. session)]
  /\ \A p \in Window!AllPaths : Len(queues[p]) <= QueueCapacity

BlocksInv == \E n \in [Window!AllPaths -> 0 .. QueueCapacity] :
  /\ \A p \in Window!AllPaths : Leftover(p, n[p])
  /\ ~resetFailed => \A p \in Window!AllPaths : n[p] = 0
  /\ Given(n)

\* The published count is behind, never ahead.
SentInv == ~resetFailed => status.sent <= sent /\ sent <= ownWritten /\ ~foreign

WindowInv == WindowTypes /\ ThreadsInv /\ QueueTypes /\ BlocksInv /\ SentInv
-----------------------------------------------------------------------------
(* The types and the threads.                                              *)

\* Initially the device is closed.
LEMMA WindowInit == Window!Init => WindowInv
<1> SUFFICES ASSUME Window!Init PROVE WindowInv
  OBVIOUS
<1>1. /\ build \in {"linux", "windows"} /\ single \in BOOLEAN
      /\ stopSending \in BOOLEAN /\ closing \in BOOLEAN /\ deviceOpen \in BOOLEAN
      /\ readerRunning \in BOOLEAN /\ resetFailed \in BOOLEAN /\ foreign \in BOOLEAN
      /\ status \in [threadState : ThreadStates, sent : Nat] /\ status.sent = 0
  BY DEF Window!Init, Window!Status, ThreadStates
<1>2. WindowTypes
  BY <1>1, SessionAssumption DEF Window!Init, WindowTypes, Window!Buttons, ThreadStates
<1>3. ThreadsInv
  BY DEF Window!Init, ThreadsInv
<1>4. \A q \in Window!AllPaths : queues[q] = <<>>
  BY DEF Window!Init, Window!NoBlocks
<1>5. QueueTypes
  BY <1>4, SessionAssumption DEF Window!Init, Window!NoBlocks, QueueTypes
<1>6. BlocksInv
  <2> DEFINE n == [q \in Window!AllPaths |-> 0]
  <2>1. n \in [Window!AllPaths -> 0 .. QueueCapacity]
    BY SessionAssumption
  <2>2. \A q \in Window!AllPaths : Leftover(q, n[q])
    BY <1>4 DEF Leftover
  <2>3. Given(n)
    <3>1. /\ n["descriptor"] = 0 /\ n["copy"] = 0
          /\ Len(queues["descriptor"]) = 0 /\ Len(queues["copy"]) = 0
      BY <1>4 DEF Window!AllPaths
    <3>2. ownWritten = 0 /\ outputNum = 0 /\ InSend = 0
      BY DEF Window!Init, InSend
    <3> QED BY <3>1, <3>2 DEF Given
  <2> QED BY <2>1, <2>2, <2>3 DEF BlocksInv
<1>7. SentInv
  BY <1>1 DEF Window!Init, SentInv
<1> QED BY <1>2, <1>3, <1>5, <1>6, <1>7 DEF WindowInv

\* The numbers the invariant is about.
LEMMA WindowNumbers ==
  ASSUME WindowInv
  PROVE  /\ FileBlocks \in Nat /\ QueueCapacity \in Nat \ {0} /\ MaxSessions \in Nat
         /\ inputNum \in Nat /\ inputNum <= FileBlocks
         /\ outputNum \in Nat /\ outputNum <= inputNum
         /\ session \in Nat /\ session <= MaxSessions
         /\ sent \in Nat /\ status.sent \in Nat /\ ownWritten \in Nat
  BY SessionAssumption DEF WindowInv, WindowTypes

\* The reader's and the output thread's steps change no type.
LEMMA InputTypes == WindowInv /\ Window!Input => WindowTypes'
<1> SUFFICES ASSUME WindowInv, Window!Input PROVE WindowTypes'
  OBVIOUS
<1> USE DEF Window!uiVars, Window!channelVars, Window!inputVars, Window!historyVars
<1>1. WindowTypes
  BY DEF WindowInv
<1>2. CASE Window!ReaderBegins
  <2>1. readerRunning' \in BOOLEAN
    BY <1>2 DEF Window!ReaderBegins
  <2> QED BY <1>1, <1>2, <2>1 DEF Window!ReaderBegins, WindowTypes
<1>3. CASE Window!ReadBlock
  <2>1. inputNum' \in 0 .. FileBlocks /\ outputNum' \in 0 .. inputNum'
    BY <1>3, WindowNumbers DEF Window!ReadBlock
  <2> QED BY <1>1, <1>3, <2>1 DEF Window!ReadBlock, WindowTypes
<1>4. CASE Window!ReaderEnds
  <2>1. readerRunning' \in BOOLEAN
    BY <1>4 DEF Window!ReaderEnds, Window!Linux
  <2> QED BY <1>1, <1>4, <2>1 DEF Window!ReaderEnds, WindowTypes
<1>5. CASE Window!TakeBlock
  <2>1. outputNum' \in 0 .. inputNum'
    BY <1>5, WindowNumbers DEF Window!TakeBlock
  <2> QED BY <1>1, <1>5, <2>1 DEF Window!TakeBlock, WindowTypes
<1>6. CASE Window!Send \/ Window!GiveUp
  BY <1>1, <1>6 DEF Window!Send, Window!GiveUp, WindowTypes
<1> QED BY <1>2, <1>3, <1>4, <1>5, <1>6 DEF Window!Input

\* Nor do the channel's.
LEMMA ChannelTypes ==
  WindowInv /\ (Window!WriteBlock \/ Window!WriteFails \/ Window!PublishStatus) => WindowTypes'
<1> SUFFICES ASSUME WindowInv, Window!WriteBlock \/ Window!WriteFails \/ Window!PublishStatus
             PROVE  WindowTypes'
  OBVIOUS
<1> USE DEF Window!uiVars, Window!inputVars, Window!historyVars
<1>1. WindowTypes
  BY DEF WindowInv
<1>2. CASE Window!WriteBlock
  <2>1. status' \in [threadState : ThreadStates, sent : Nat]
    BY <1>1, <1>2, WindowNumbers DEF Window!WriteBlock, WindowTypes
  <2>2. ownWritten' \in Nat /\ sent' \in Nat
    BY <1>2, WindowNumbers DEF Window!WriteBlock
  <2>3. foreign' = TRUE \/ foreign' = foreign
    BY <1>2 DEF Window!WriteBlock
  <2>4. foreign' \in BOOLEAN
    BY <1>1, <2>3 DEF WindowTypes
  <2> QED BY <1>1, <1>2, <2>1, <2>2, <2>4 DEF Window!WriteBlock, WindowTypes
<1>3. CASE Window!WriteFails
  <2>1. status' \in [threadState : ThreadStates, sent : Nat] /\ threadState' \in ThreadStates
    BY <1>1, <1>3 DEF Window!WriteFails, WindowTypes, ThreadStates
  <2> QED BY <1>1, <1>3, <2>1 DEF Window!WriteFails, WindowTypes
<1>4. CASE Window!PublishStatus
  <2>1. status' \in [threadState : ThreadStates, sent : Nat]
    BY <1>1, <1>4 DEF Window!PublishStatus, Window!Status, WindowTypes
  <2> QED BY <1>1, <1>4, <2>1 DEF Window!PublishStatus, WindowTypes
<1> QED BY <1>2, <1>3, <1>4

\* A reset leaves a status.
LEMMA ResetStatus ==
  ASSUME WindowInv, NEW ok \in BOOLEAN
  PROVE  Window!StatusAfterReset(ok) \in [threadState : ThreadStates, sent : Nat]
  BY DEF Window!StatusAfterReset, Window!Status, WindowInv, WindowTypes

\* The start of a session.
LEMMA BeginTypes ==
  ASSUME WindowInv, NEW ok \in BOOLEAN, NEW state \in ThreadStates,
         Window!BeginSession(ok, state),
         enabled' \subseteq enabled,
         worker' \in {"none", "alive", "ended"},
         reader' \in {"none", "starting", "reading", "ended"}, readerRunning' \in BOOLEAN,
         output' \in {"none", "idle", "send"}
  PROVE  WindowTypes'
<1>1. WindowTypes
  BY DEF WindowInv
<1>2. /\ stopSending' \in BOOLEAN /\ resetFailed' \in BOOLEAN /\ foreign' \in BOOLEAN
  BY DEF Window!BeginSession
<1>3. status' \in [threadState : ThreadStates, sent : Nat]
  <2> DEFINE after == Window!StatusAfterReset(ok)
  <2>1. after \in [threadState : ThreadStates, sent : Nat]
    BY ResetStatus
  <2>2. status' = IF Window!Linux THEN [after EXCEPT !.threadState = state] ELSE after
    BY DEF Window!BeginSession
  <2> HIDE DEF after
  <2> QED BY <2>1, <2>2
<1>4. /\ inputNum' = 0 /\ outputNum' = 0 /\ ownWritten' = 0
      /\ session' \in 0 .. MaxSessions /\ sent' \in Nat /\ threadState' = state
  BY WindowNumbers DEF Window!BeginSession
<1>5. UNCHANGED <<build, single, uiPc, closing, deviceOpen>>
  BY DEF Window!BeginSession
<1> QED BY <1>1, <1>2, <1>3, <1>4, <1>5, SessionAssumption DEF WindowTypes

\* The buttons that do not start a session, the joins and the timer.
LEMMA OwnerTypes ==
  ASSUME WindowInv,
         \/ Window!OpenDevice \/ Window!ChooseMode \/ Window!PressReset
         \/ Window!StartAfterError \/ Window!StopTransfer \/ Window!CloseDevice
         \/ Window!Stopping \/ Window!Timer
  PROVE  WindowTypes'
<1> USE DEF Window!uiVars, Window!channelVars, Window!inputVars, Window!historyVars,
            Window!Press
<1>1. WindowTypes
  BY DEF WindowInv
<1>2. CASE Window!OpenDevice
  <2>1. deviceOpen' \in BOOLEAN /\ status' \in [threadState : ThreadStates, sent : Nat]
    BY <1>2 DEF Window!OpenDevice, Window!Status, ThreadStates
  <2> QED BY <1>1, <1>2, <2>1 DEF Window!OpenDevice, WindowTypes, Window!Buttons, ThreadStates
<1>3. CASE Window!ChooseMode
  <2>1. single' \in BOOLEAN
    BY <1>3 DEF Window!ChooseMode
  <2> QED BY <1>1, <1>3, <2>1 DEF Window!ChooseMode, WindowTypes
<1>4. CASE Window!PressReset
  <2>1. PICK ok \in BOOLEAN : sent' = (IF ok THEN 0 ELSE sent)
                              /\ status' = Window!StatusAfterReset(ok)
    BY <1>4 DEF Window!PressReset
  <2>2. status' \in [threadState : ThreadStates, sent : Nat] /\ sent' \in Nat
    BY <2>1, ResetStatus, WindowNumbers
  <2> QED BY <1>1, <1>4, <2>2 DEF Window!PressReset, WindowTypes
<1>5. CASE Window!StartAfterError
  BY <1>1, <1>5 DEF Window!StartAfterError, WindowTypes
<1>6. CASE Window!StopTransfer \/ Window!CloseDevice \/ Window!TimerStops
  <2>1. /\ stopSending' \in BOOLEAN /\ closing' \in BOOLEAN /\ uiPc' = "joinReader"
        /\ enabled' \subseteq enabled
        /\ UNCHANGED <<build, single, deviceOpen, Window!channelVars, Window!inputVars,
                       Window!historyVars>>
    BY <1>6 DEF Window!StopTransfer, Window!CloseDevice, Window!TimerStops, Window!BeginStop
  <2> QED BY <1>1, <2>1 DEF WindowTypes
<1>7. CASE Window!JoinReader
  <2>1. readerRunning' \in BOOLEAN
    BY <1>7 DEF Window!JoinReader
  <2> QED BY <1>1, <1>7, <2>1 DEF Window!JoinReader, WindowTypes
<1>8. CASE Window!JoinWorker
  <2>1. threadState' \in ThreadStates /\ deviceOpen' \in BOOLEAN /\ sent' \in Nat
        /\ enabled' \subseteq Window!Buttons
    BY <1>1, <1>8 DEF Window!JoinWorker, Window!StateAfterStop, WindowTypes, ThreadStates,
       Window!Buttons
  <2>2. status' \in [threadState : ThreadStates, sent : Nat]
    BY <1>1, <1>8 DEF Window!JoinWorker, Window!Status, WindowTypes, ThreadStates
  <2> QED BY <1>1, <1>8, <2>1, <2>2 DEF Window!JoinWorker, WindowTypes
<1>9. CASE Window!TimerOffersStart
  BY <1>1, <1>9 DEF Window!TimerOffersStart, WindowTypes, Window!Buttons
<1> QED BY <1>2, <1>3, <1>4, <1>5, <1>6, <1>7, <1>8, <1>9 DEF Window!Stopping, Window!Timer
\* No step leaves the types.
LEMMA TypesStep == WindowInv /\ Window!Next => WindowTypes'
<1> SUFFICES ASSUME WindowInv, Window!Next PROVE WindowTypes'
  OBVIOUS
<1>1. CASE Window!StartTransfer
  <2>1. PICK ok \in BOOLEAN : Window!BeginSession(ok, "Running")
    BY <1>1 DEF Window!StartTransfer
  <2>2. readerRunning' \in BOOLEAN
    BY <1>1 DEF Window!StartTransfer, Window!Linux
  <2>3. /\ worker' = "alive" /\ reader' \in {"reading", "starting"} /\ output' = "idle"
        /\ enabled' \subseteq enabled
    BY <1>1 DEF Window!StartTransfer
  <2>4. "Running" \in ThreadStates
    BY DEF ThreadStates
  <2> QED BY <2>1, <2>2, <2>3, <2>4, BeginTypes
<1>2. CASE Window!StartFails
  <2>1. PICK ok \in BOOLEAN : Window!BeginSession(ok, "Stopped")
    BY <1>2 DEF Window!StartFails
  <2>2. UNCHANGED <<enabled, worker, reader, readerRunning, output>>
    BY <1>2 DEF Window!StartFails
  <2>3. /\ worker \in {"none", "alive", "ended"} /\ readerRunning \in BOOLEAN
        /\ reader \in {"none", "starting", "reading", "ended"}
        /\ output \in {"none", "idle", "send"}
    BY DEF WindowInv, WindowTypes
  <2>4. readerRunning' \in BOOLEAN
    BY <2>2, <2>3
  <2>5. "Stopped" \in ThreadStates
    BY DEF ThreadStates
  <2> QED BY <2>1, <2>2, <2>3, <2>4, <2>5, BeginTypes
<1> QED BY <1>1, <1>2, InputTypes, ChannelTypes, OwnerTypes DEF Window!Next, Window!User

\* The input's and the channel's steps do not touch the buttons, and what they
\* do to the threads keeps what the buttons say.
LEMMA RunningThreads ==
  ASSUME WindowInv,
         Window!Input \/ Window!WriteBlock \/ Window!WriteFails \/ Window!PublishStatus
  PROVE  ThreadsInv'
<1> USE DEF Window!uiVars, Window!channelVars, Window!inputVars, Window!historyVars
<1>1. ThreadsInv
  BY DEF WindowInv
<1>2. UNCHANGED <<enabled, stopSending, uiPc, deviceOpen, session>>
  BY DEF Window!Input, Window!ReaderBegins, Window!ReadBlock, Window!ReaderEnds,
     Window!TakeBlock, Window!Send, Window!GiveUp, Window!WriteBlock, Window!WriteFails,
     Window!PublishStatus
<1>3. CASE Window!ReaderBegins
  BY <1>1, <1>2, <1>3 DEF Window!ReaderBegins, ThreadsInv
<1>4. CASE Window!ReadBlock
  BY <1>1, <1>2, <1>4 DEF Window!ReadBlock, ThreadsInv
<1>5. CASE Window!ReaderEnds
  BY <1>1, <1>2, <1>5 DEF Window!ReaderEnds, ThreadsInv
<1>6. CASE Window!TakeBlock \/ Window!Send \/ Window!GiveUp
  <2>1. /\ output # "none" /\ output' # "none"
        /\ UNCHANGED <<threadState, worker, reader, readerRunning, inputNum>>
    BY <1>6 DEF Window!TakeBlock, Window!Send, Window!GiveUp
  <2> QED BY <1>1, <1>2, <2>1 DEF ThreadsInv
<1>7. CASE Window!WriteBlock \/ Window!PublishStatus
  <2>1. UNCHANGED <<output, threadState, worker, reader, readerRunning, inputNum>>
    BY <1>7 DEF Window!WriteBlock, Window!PublishStatus
  <2> QED BY <1>1, <1>2, <2>1 DEF ThreadsInv
<1>8. CASE Window!WriteFails
  <2>1. /\ worker # "none" /\ threadState' \in {threadState, "Error"}
        /\ UNCHANGED <<output, reader, readerRunning, inputNum>>
    BY <1>8 DEF Window!WriteFails
  <2> QED BY <1>1, <1>2, <2>1 DEF ThreadsInv
<1> QED BY <1>3, <1>4, <1>5, <1>6, <1>7, <1>8 DEF Window!Input

\* The buttons and the start of a session.
LEMMA PressedThreads == WindowInv /\ Window!User => ThreadsInv'
<1> SUFFICES ASSUME WindowInv, Window!User PROVE ThreadsInv'
  OBVIOUS
<1> USE DEF Window!uiVars, Window!channelVars, Window!inputVars, Window!historyVars,
            Window!Press
<1>1. ThreadsInv
  BY DEF WindowInv
<1>2. CASE Window!OpenDevice
  BY <1>1, <1>2 DEF Window!OpenDevice, ThreadsInv
<1>3. CASE Window!ChooseMode \/ Window!PressReset
  <2>1. UNCHANGED <<enabled, stopSending, uiPc, deviceOpen, output, worker, threadState,
                    reader, readerRunning, inputNum, session>>
    BY <1>3 DEF Window!ChooseMode, Window!PressReset
  <2> QED BY <1>1, <2>1 DEF ThreadsInv
<1>4. CASE Window!StartTransfer
  <2>1. PICK ok \in BOOLEAN : Window!BeginSession(ok, "Running")
    BY <1>4 DEF Window!StartTransfer
  <2>2. /\ uiPc = "idle" /\ "start" \in enabled /\ stopSending' = FALSE
        /\ threadState' = "Running" /\ inputNum' = 0 /\ UNCHANGED <<uiPc, deviceOpen>>
        /\ session' # 0
    BY <2>1, WindowNumbers DEF Window!BeginSession
  <2>3. /\ enabled' = enabled \ {"reset"}
        /\ reader' = (IF Window!Linux THEN "reading" ELSE "starting")
        /\ readerRunning' = Window!Linux
    BY <1>4 DEF Window!StartTransfer
  <2> QED BY <1>1, <2>2, <2>3 DEF ThreadsInv
<1>5. CASE Window!StartFails
  <2>1. PICK ok \in BOOLEAN : Window!BeginSession(ok, "Stopped")
    BY <1>5 DEF Window!StartFails
  <2>2. /\ uiPc = "idle" /\ threadState \notin {"Running", "Error"}
        /\ stopSending' = FALSE /\ inputNum' = 0 /\ UNCHANGED <<uiPc, deviceOpen>>
    BY <2>1 DEF Window!BeginSession
  <2>3. UNCHANGED <<enabled, worker, reader, readerRunning, output>>
    BY <1>5 DEF Window!StartFails
  <2>4. output = "none"
    BY <1>1, <2>2 DEF ThreadsInv
  <2>5. reader' = "reading" => readerRunning'
    BY <1>1, <2>3 DEF ThreadsInv
  <2> QED BY <1>1, <2>2, <2>3, <2>4, <2>5 DEF ThreadsInv
<1>6. CASE Window!StartAfterError
  BY <1>1, <1>6 DEF Window!StartAfterError, ThreadsInv
<1>7. CASE Window!StopTransfer
  BY <1>1, <1>7 DEF Window!StopTransfer, Window!BeginStop, ThreadsInv
<1>8. CASE Window!CloseDevice
  BY <1>1, <1>8 DEF Window!CloseDevice, Window!BeginStop, ThreadsInv
<1> QED BY <1>2, <1>3, <1>4, <1>5, <1>6, <1>7, <1>8 DEF Window!User

\* The joins and the timer: a status that says the transfer is stopped may be of
\* the one before, but stopSending is not.
LEMMA StoppedThreads == WindowInv /\ (Window!Stopping \/ Window!Timer) => ThreadsInv'
<1> SUFFICES ASSUME WindowInv, Window!Stopping \/ Window!Timer PROVE ThreadsInv'
  OBVIOUS
<1> USE DEF Window!uiVars, Window!channelVars, Window!inputVars, Window!historyVars
<1>1. ThreadsInv
  BY DEF WindowInv
<1>2. CASE Window!JoinReader
  BY <1>1, <1>2 DEF Window!JoinReader, ThreadsInv
<1>3. CASE Window!JoinWorker
  <2>1. /\ uiPc = "joinWorker" /\ uiPc' = "idle" /\ worker' = "none"
        /\ enabled' = (IF closing THEN {"open"} ELSE enabled) /\ deviceOpen' = ~closing
        /\ UNCHANGED <<stopSending, output, reader, readerRunning, inputNum, session>>
    BY <1>3 DEF Window!JoinWorker
  <2> QED BY <1>1, <2>1 DEF ThreadsInv
<1>4. CASE Window!TimerOffersStart
  BY <1>1, <1>4 DEF Window!TimerOffersStart, Window!SeesStop, ThreadsInv
<1>5. CASE Window!TimerStops
  BY <1>1, <1>5 DEF Window!TimerStops, Window!BeginStop, ThreadsInv
<1> QED BY <1>2, <1>3, <1>4, <1>5 DEF Window!Stopping, Window!Timer

\* Whatever is done to the window, the buttons keep saying so.
LEMMA ThreadsStep == WindowInv /\ Window!Next => ThreadsInv'
<1> QED BY RunningThreads, PressedThreads, StoppedThreads DEF Window!Next-----------------------------------------------------------------------------
(* Whose the queued blocks are.                                            *)

\* What is known of a queue.
LEMMA QueueFacts ==
  ASSUME WindowInv, NEW p \in Window!AllPaths
  PROVE  /\ queues[p] \in Seq(1 .. session)
         /\ Len(queues[p]) \in Nat /\ Len(queues[p]) <= QueueCapacity
         /\ \A i \in 1 .. Len(queues[p]) : queues[p][i] \in 1 .. session
<1>1. queues[p] \in Seq(1 .. session) /\ Len(queues[p]) <= QueueCapacity
  BY DEF WindowInv, QueueTypes
<1>2. \A i \in 1 .. Len(queues[p]) : queues[p][i] \in 1 .. session
  BY <1>1, ElementOfSeq
<1> QED BY <1>1, <1>2

\* The numbers of left-over blocks that a state of the invariant has.
LEMMA LeftoverNumbers ==
  ASSUME WindowInv
  PROVE  \E n \in [Window!AllPaths -> 0 .. QueueCapacity] :
           /\ \A p \in Window!AllPaths :
                /\ n[p] \in Nat /\ n[p] <= Len(queues[p])
                /\ \A i \in 1 .. Len(queues[p]) : queues[p][i] = session <=> n[p] < i
           /\ ~resetFailed => \A p \in Window!AllPaths : n[p] = 0
           /\ Given(n)
<1>1. PICK n \in [Window!AllPaths -> 0 .. QueueCapacity] :
        /\ \A p \in Window!AllPaths : Leftover(p, n[p])
        /\ ~resetFailed => \A p \in Window!AllPaths : n[p] = 0
        /\ Given(n)
  BY DEF WindowInv, BlocksInv
<1>2. \A p \in Window!AllPaths : n[p] \in Nat
  BY SessionAssumption
<1> QED BY <1>1, <1>2 DEF Leftover

\* What a next state needs.
LEMMA NextBlocks ==
  ASSUME NEW m \in [Window!AllPaths -> 0 .. QueueCapacity],
         \A p \in Window!AllPaths :
           /\ m[p] <= Len(queues'[p])
           /\ \A i \in 1 .. Len(queues'[p]) : queues'[p][i] = session' <=> m[p] < i,
         ~resetFailed' => \A p \in Window!AllPaths : m[p] = 0,
         ownWritten' + (Len(queues'["descriptor"]) - m["descriptor"])
                     + (Len(queues'["copy"]) - m["copy"]) + InSend' <= outputNum'
  PROVE  BlocksInv'
<1>1. \A p \in Window!AllPaths : Leftover(p, m[p])'
  BY DEF Leftover
<1>2. Given(m)'
  BY DEF Given
<1> QED BY <1>1, <1>2 DEF BlocksInv

\* The queues with those of some paths emptied.
Emptying(paths) == [p \in Window!AllPaths |-> IF p \in paths THEN <<>> ELSE queues[p]]

\* The three things a step that takes and adds no block may do with the queues.
LEMMA Emptyings ==
  ASSUME WindowInv
  PROVE  /\ queues = Emptying({})
         /\ Window!NoBlocks = Emptying(Window!AllPaths)
         /\ Window!CopiesLeft = Emptying({"descriptor"})
<1>1. queues = [p \in Window!AllPaths |-> queues[p]]
  BY DEF WindowInv, QueueTypes
<1>2. Window!CopiesLeft = Emptying({"descriptor"})
  BY <1>1 DEF Window!CopiesLeft, Emptying
<1>3. Window!NoBlocks = Emptying(Window!AllPaths)
  BY DEF Window!NoBlocks, Emptying
<1>4. queues = Emptying({})
  BY <1>1 DEF Emptying
<1> QED BY <1>2, <1>3, <1>4

\* Queues of which some are emptied still have their bounds.
LEMMA EmptiedTypes ==
  ASSUME WindowInv, NEW paths, queues' = Emptying(paths),
         session' \in Nat, session <= session'
  PROVE  QueueTypes'
<1>1. 1 .. session \subseteq 1 .. session'
  BY WindowNumbers
<1>2. ASSUME NEW p \in Window!AllPaths
      PROVE  queues'[p] \in Seq(1 .. session') /\ Len(queues'[p]) <= QueueCapacity
  <2>1. CASE p \in paths
    BY <1>2, <2>1, SessionAssumption, EmptySeq DEF Emptying
  <2>2. CASE p \notin paths
    <3>1. queues'[p] = queues[p]
      BY <1>2, <2>2 DEF Emptying
    <3>2. queues[p] \in Seq(1 .. session) /\ Len(queues[p]) <= QueueCapacity
      BY QueueFacts
    <3>3. queues[p] \in Seq(1 .. session')
      BY <1>1, <3>2, SeqMonotonic
    <3> QED BY <3>1, <3>2, <3>3
  <2> QED BY <2>1, <2>2
<1>3. queues' \in [Window!AllPaths -> Seq(1 .. session')]
  BY <1>2 DEF Emptying
<1> QED BY <1>2, <1>3 DEF QueueTypes

\* Within a session, queues that are kept or emptied hold what they held, or
\* nothing.
LEMMA EmptiedBlocks ==
  ASSUME WindowInv, NEW paths, queues' = Emptying(paths),
         session' = session, resetFailed' = resetFailed,
         ownWritten' = ownWritten, outputNum' \in Nat,
         outputNum + InSend' <= outputNum' + InSend
  PROVE  QueueTypes' /\ BlocksInv'
<1>1. PICK n \in [Window!AllPaths -> 0 .. QueueCapacity] :
        /\ \A p \in Window!AllPaths :
             /\ n[p] \in Nat /\ n[p] <= Len(queues[p])
             /\ \A i \in 1 .. Len(queues[p]) : queues[p][i] = session <=> n[p] < i
        /\ ~resetFailed => \A p \in Window!AllPaths : n[p] = 0
        /\ Given(n)
  BY LeftoverNumbers
<1> DEFINE m == [p \in Window!AllPaths |-> IF p \in paths THEN 0 ELSE n[p]]
<1>2. m \in [Window!AllPaths -> 0 .. QueueCapacity]
  BY SessionAssumption
<1>3. ASSUME NEW p \in Window!AllPaths
      PROVE  /\ m[p] \in Nat /\ Len(queues'[p]) \in Nat
             /\ m[p] <= Len(queues'[p])
             /\ Len(queues'[p]) - m[p] <= Len(queues[p]) - n[p]
             /\ \A i \in 1 .. Len(queues'[p]) : queues'[p][i] = session' <=> m[p] < i
             /\ n[p] = 0 => m[p] = 0
  <2>1. CASE p \in paths
    <3>1. queues'[p] = <<>> /\ m[p] = 0
      BY <2>1 DEF Emptying
    <3>2. Len(queues'[p]) = 0
      BY <3>1
    <3> QED BY <1>1, <3>1, <3>2, QueueFacts
  <2>2. CASE p \notin paths
    <3>1. queues'[p] = queues[p] /\ m[p] = n[p]
      BY <2>2 DEF Emptying
    <3> HIDE DEF m
    <3>2. Len(queues'[p]) = Len(queues[p]) /\ Len(queues[p]) \in Nat
      BY <3>1, QueueFacts
    <3>3. \A i \in 1 .. Len(queues'[p]) : queues'[p][i] = session' <=> m[p] < i
      BY <1>1, <3>1
    <3> QED BY <1>1, <3>1, <3>2, <3>3
  <2> QED BY <2>1, <2>2
<1> HIDE DEF m
<1>4. ownWritten' + (Len(queues'["descriptor"]) - m["descriptor"])
                  + (Len(queues'["copy"]) - m["copy"]) + InSend' <= outputNum'
  <2>1. /\ ownWritten \in Nat /\ outputNum \in Nat /\ outputNum' \in Nat
        /\ InSend \in Nat /\ InSend' \in Nat
    BY WindowNumbers DEF InSend
  <2>2. ASSUME NEW p \in {"descriptor", "copy"}
        PROVE  /\ m[p] \in Nat /\ Len(queues'[p]) \in Nat /\ n[p] \in Nat
               /\ Len(queues[p]) \in Nat
               /\ Len(queues'[p]) - m[p] <= Len(queues[p]) - n[p]
    BY <1>1, <1>3, QueueFacts DEF Window!AllPaths
  <2>3. PICK d \in Int, d2 \in Int :
          /\ d = Len(queues["descriptor"]) - n["descriptor"]
          /\ d2 = Len(queues'["descriptor"]) - m["descriptor"]
          /\ d2 <= d
    BY <2>2
  <2>4. PICK c \in Int, c2 \in Int :
          /\ c = Len(queues["copy"]) - n["copy"]
          /\ c2 = Len(queues'["copy"]) - m["copy"]
          /\ c2 <= c
    BY <2>2
  <2>5. PICK own \in Nat, s \in Nat, s2 \in Nat, given \in Nat, given2 \in Nat :
          /\ own = ownWritten /\ s = InSend /\ s2 = InSend'
          /\ given = outputNum /\ given2 = outputNum'
    BY <2>1
  <2>6. own + d + c + s <= given /\ given + s2 <= given2 + s
    BY <1>1, <2>3, <2>4, <2>5 DEF Given
  <2>7. d2 <= d /\ c2 <= c
    BY <2>3, <2>4
  <2>8. own + d2 + c2 + s2 <= given2
    BY <2>6, <2>7
  <2> QED BY <2>3, <2>4, <2>5, <2>8
<1>5. QueueTypes'
  BY WindowNumbers, EmptiedTypes
<1>6. ~resetFailed' => \A p \in Window!AllPaths : m[p] = 0
  BY <1>1, <1>3
<1>7. \A p \in Window!AllPaths :
        /\ m[p] <= Len(queues'[p])
        /\ \A i \in 1 .. Len(queues'[p]) : queues'[p][i] = session' <=> m[p] < i
  BY <1>3
<1>8. BlocksInv'
  BY <1>2, <1>4, <1>6, <1>7, NextBlocks
<1> QED BY <1>5, <1>8

\* A new session finds blocks of earlier ones at most, and none if the device
\* could be reset.
LEMMA BeginBlocks ==
  ASSUME WindowInv, WindowTypes', NEW paths, queues' = Emptying(paths),
         session' = session + 1, ~resetFailed' => paths = Window!AllPaths,
         ownWritten' = 0, output' # "send"
  PROVE  QueueTypes' /\ BlocksInv'
<1>1. session \in Nat /\ outputNum' \in Nat /\ InSend' = 0
  BY WindowNumbers, SessionAssumption DEF InSend, WindowTypes
<1>2. QueueTypes'
  BY <1>1, EmptiedTypes
<1> DEFINE m == [p \in Window!AllPaths |-> Len(queues'[p])]
<1>3. ASSUME NEW p \in Window!AllPaths
      PROVE  /\ queues'[p] = <<>> \/ queues'[p] = queues[p]
             /\ ~resetFailed' => queues'[p] = <<>>
  BY DEF Emptying
<1>4. ASSUME NEW p \in Window!AllPaths
      PROVE  /\ Len(queues'[p]) \in 0 .. QueueCapacity
             /\ \A i \in 1 .. Len(queues'[p]) : queues'[p][i] # session'
             /\ ~resetFailed' => Len(queues'[p]) = 0
  <2>1. CASE queues'[p] = <<>>
    <3>1. Len(queues'[p]) = 0
      BY <2>1
    <3> QED BY <3>1, SessionAssumption
  <2>2. CASE queues'[p] # <<>>
    <3>1. queues'[p] = queues[p] /\ resetFailed'
      BY <1>3, <2>2
    <3>2. \A i \in 1 .. Len(queues[p]) : queues[p][i] \in 1 .. session
      BY QueueFacts
    <3>3. \A i \in 1 .. Len(queues[p]) : queues[p][i] # session'
      BY <1>1, <3>2
    <3> QED BY <3>1, <3>3, QueueFacts, SessionAssumption
  <2> QED BY <2>1, <2>2
<1>5. m \in [Window!AllPaths -> 0 .. QueueCapacity]
  BY <1>4
<1>6. \A p \in Window!AllPaths : m[p] = Len(queues'[p])
  OBVIOUS
<1> HIDE DEF m
<1>7. \A p \in Window!AllPaths :
        /\ m[p] <= Len(queues'[p])
        /\ \A i \in 1 .. Len(queues'[p]) : queues'[p][i] = session' <=> m[p] < i
  BY <1>4, <1>6
<1>8. ownWritten' + (Len(queues'["descriptor"]) - m["descriptor"])
                  + (Len(queues'["copy"]) - m["copy"]) + InSend' <= outputNum'
  <2>1. /\ m["descriptor"] = Len(queues'["descriptor"]) /\ m["copy"] = Len(queues'["copy"])
        /\ Len(queues'["descriptor"]) \in Nat /\ Len(queues'["copy"]) \in Nat
    BY <1>4, <1>6 DEF Window!AllPaths
  <2> QED BY <1>1, <2>1
<1>9. ~resetFailed' => \A p \in Window!AllPaths : m[p] = 0
  BY <1>4, <1>6
<1>10. BlocksInv'
  BY <1>5, <1>7, <1>8, <1>9, NextBlocks
<1> QED BY <1>2, <1>10

\* The worker takes a block of its own session, unless a failed reset left it
\* one of an earlier session; the block it takes is counted once.
LEMMA TakenBlocks ==
  ASSUME WindowInv, Window!TakeEntry,
         session' = session, resetFailed' = resetFailed,
         outputNum' = outputNum, output' = output, ownWritten' \in Nat,
         ownWritten' <= (IF Window!NextEntry = session THEN ownWritten + 1 ELSE ownWritten)
  PROVE  /\ QueueTypes' /\ BlocksInv'
         /\ ~resetFailed => Window!NextEntry = session
<1> DEFINE q == Window!NextPath
<1>1. PICK n \in [Window!AllPaths -> 0 .. QueueCapacity] :
        /\ \A p \in Window!AllPaths :
             /\ n[p] \in Nat /\ n[p] <= Len(queues[p])
             /\ \A i \in 1 .. Len(queues[p]) : queues[p][i] = session <=> n[p] < i
        /\ ~resetFailed => \A p \in Window!AllPaths : n[p] = 0
        /\ Given(n)
  BY LeftoverNumbers
<1>2. /\ q \in Window!AllPaths /\ queues[q] # <<>>
      /\ queues' = [queues EXCEPT ![q] = Tail(queues[q])]
      /\ Window!NextEntry = Head(queues[q])
  BY DEF Window!TakeEntry, Window!NextPath, Window!AllPaths, Window!NextEntry
<1> HIDE DEF q
<1>3. queues \in [Window!AllPaths -> Seq(1 .. session)]
  BY DEF WindowInv, QueueTypes
<1>4. /\ Len(queues[q]) \in Nat \ {0} /\ Head(queues[q]) = queues[q][1]
      /\ queues'[q] = Tail(queues[q])
      /\ queues'[q] \in Seq(1 .. session)
      /\ Len(queues'[q]) = Len(queues[q]) - 1
      /\ \A i \in 1 .. Len(queues'[q]) : queues'[q][i] = queues[q][i + 1]
  <2>1. queues[q] \in Seq(1 .. session) /\ queues'[q] = Tail(queues[q])
    BY <1>2, <1>3
  <2>2. Len(queues[q]) \in Nat \ {0} /\ Head(queues[q]) = queues[q][1]
    BY <1>2, <2>1
  <2>3. /\ Tail(queues[q]) \in Seq(1 .. session)
        /\ Len(Tail(queues[q])) = Len(queues[q]) - 1
        /\ \A i \in 1 .. Len(Tail(queues[q])) : Tail(queues[q])[i] = queues[q][i + 1]
    BY <1>2, <2>1, HeadTailProperties
  <2> QED BY <2>1, <2>2, <2>3
<1>5. \A p \in Window!AllPaths : p # q => queues'[p] = queues[p]
  BY <1>2, <1>3
<1>6. n[q] = 0 <=> Window!NextEntry = session
  BY <1>1, <1>2, <1>4
<1>7. QueueTypes'
  <2>1. ASSUME NEW p \in Window!AllPaths
        PROVE  queues'[p] \in Seq(1 .. session) /\ Len(queues'[p]) <= QueueCapacity
    <3>1. CASE p = q
      BY <1>2, <1>4, <3>1, QueueFacts, SessionAssumption
    <3>2. CASE p # q
      BY <1>5, <3>2, QueueFacts
    <3> QED BY <3>1, <3>2
  <2>2. queues' \in [Window!AllPaths -> Seq(1 .. session)]
    BY <1>2, <1>3, <2>1
  <2> QED BY <2>1, <2>2 DEF QueueTypes
<1> DEFINE m == IF n[q] = 0 THEN n ELSE [n EXCEPT ![q] = @ - 1]
           less(p) == IF p = q /\ n[q] = 0 THEN 1 ELSE 0
<1>8. /\ m \in [Window!AllPaths -> 0 .. QueueCapacity]
      /\ m[q] = (IF n[q] = 0 THEN 0 ELSE n[q] - 1)
      /\ \A p \in Window!AllPaths : p # q => m[p] = n[p]
  <2>1. CASE n[q] = 0
    BY <2>1
  <2>2. CASE n[q] # 0
    <3>1. n[q] - 1 \in 0 .. QueueCapacity
      BY <1>1, <1>2, <2>2, SessionAssumption
    <3> QED BY <1>2, <2>2, <3>1
  <2> QED BY <2>1, <2>2
<1> HIDE DEF m
<1>9. ASSUME NEW p \in Window!AllPaths
      PROVE  /\ m[p] \in Nat /\ Len(queues'[p]) \in Nat
             /\ m[p] <= Len(queues'[p])
             /\ Len(queues'[p]) - m[p] = (Len(queues[p]) - n[p]) - less(p)
             /\ \A i \in 1 .. Len(queues'[p]) : queues'[p][i] = session' <=> m[p] < i
             /\ n[p] = 0 => m[p] = 0
  <2>1. CASE p = q
    <3>1. /\ m[q] \in Nat /\ Len(queues'[q]) \in Nat /\ m[q] <= Len(queues'[q])
          /\ n[q] = 0 => m[q] = 0
      BY <1>1, <1>2, <1>4, <1>8
    <3>2. Len(queues'[q]) - m[q] = (Len(queues[q]) - n[q]) - less(q)
      BY <1>1, <1>2, <1>4, <1>8
    <3>3. ASSUME NEW i \in 1 .. Len(queues'[q])
          PROVE  queues'[q][i] = session' <=> m[q] < i
      <4>1. /\ i + 1 \in 1 .. Len(queues[q]) /\ queues'[q][i] = queues[q][i + 1]
        BY <1>4
      <4>2. queues'[q][i] = session <=> n[q] < i + 1
        BY <1>1, <1>2, <4>1
      <4>3. n[q] < i + 1 <=> m[q] < i
        BY <1>1, <1>2, <1>8
      <4> QED BY <4>2, <4>3
    <3> QED BY <2>1, <3>1, <3>2, <3>3
  <2>2. CASE p # q
    <3>1. queues'[p] = queues[p] /\ m[p] = n[p] /\ less(p) = 0
      BY <1>5, <1>8, <2>2
    <3> HIDE DEF less
    <3>2. \A i \in 1 .. Len(queues'[p]) : queues'[p][i] = session' <=> m[p] < i
      BY <1>1, <3>1
    <3>3. Len(queues'[p]) \in Nat
      BY <3>1, QueueFacts
    <3> QED BY <1>1, <3>1, <3>2, <3>3
  <2> QED BY <2>1, <2>2
<1>10. ownWritten' + (Len(queues'["descriptor"]) - m["descriptor"])
                   + (Len(queues'["copy"]) - m["copy"]) + InSend' <= outputNum'
  <2>1. /\ ownWritten \in Nat /\ outputNum \in Nat /\ InSend \in Nat /\ InSend' = InSend
    BY WindowNumbers DEF InSend
  <2>2. ASSUME NEW p \in {"descriptor", "copy"}
        PROVE  /\ m[p] \in Nat /\ Len(queues'[p]) \in Nat /\ n[p] \in Nat
               /\ Len(queues[p]) \in Nat
               /\ Len(queues'[p]) - m[p] = (Len(queues[p]) - n[p]) - less(p)
               /\ less(p) \in Nat
    BY <1>1, <1>9, QueueFacts DEF Window!AllPaths
  <2>3. PICK d \in Int, d2 \in Int, ld \in Nat :
          /\ d = Len(queues["descriptor"]) - n["descriptor"]
          /\ d2 = Len(queues'["descriptor"]) - m["descriptor"]
          /\ ld = less("descriptor") /\ d2 = d - ld
    <3> HIDE DEF less
    <3> QED BY <2>2
  <2>4. PICK c \in Int, c2 \in Int, lc \in Nat :
          /\ c = Len(queues["copy"]) - n["copy"]
          /\ c2 = Len(queues'["copy"]) - m["copy"]
          /\ lc = less("copy") /\ c2 = c - lc
    <3> HIDE DEF less
    <3> QED BY <2>2
  <2>5. PICK own \in Nat, own2 \in Nat, s \in Nat, given \in Nat :
          /\ own = ownWritten /\ own2 = ownWritten' /\ s = InSend /\ given = outputNum
    BY <2>1
  <2>6. own + d + c + s <= given
    BY <1>1, <2>3, <2>4, <2>5 DEF Given
  <2>7. own2 <= own + ld + lc
    <3>1. CASE n[q] = 0
      <4>1. own2 <= own + 1
        BY <1>6, <2>5, <3>1
      <4>2. ld = 1 \/ lc = 1
        BY <1>2, <2>3, <2>4, <3>1 DEF Window!AllPaths
      <4> QED BY <4>1, <4>2
    <3>2. CASE n[q] # 0
      <4>1. own2 <= own
        BY <1>6, <2>5, <3>2
      <4> QED BY <4>1
    <3> QED BY <3>1, <3>2
  <2>8. d2 = d - ld /\ c2 = c - lc
    BY <2>3, <2>4
  <2>9. own2 + d2 + c2 + s <= given
    BY <2>6, <2>7, <2>8
  <2> QED BY <2>1, <2>3, <2>4, <2>5, <2>9
<1>11. ~resetFailed' => \A p \in Window!AllPaths : m[p] = 0
  BY <1>1, <1>9
<1>12. BlocksInv'
  BY <1>8, <1>9, <1>10, <1>11, NextBlocks
<1> QED BY <1>1, <1>2, <1>6, <1>7, <1>12

\* A block that is queued was in the output thread's hand before.
LEMMA SentBlocks == WindowInv /\ Window!Send => QueueTypes' /\ BlocksInv'
<1> SUFFICES ASSUME WindowInv, Window!Send PROVE QueueTypes' /\ BlocksInv'
  OBVIOUS
<1>1. PICK n \in [Window!AllPaths -> 0 .. QueueCapacity] :
        /\ \A p \in Window!AllPaths :
             /\ n[p] \in Nat /\ n[p] <= Len(queues[p])
             /\ \A i \in 1 .. Len(queues[p]) : queues[p][i] = session <=> n[p] < i
        /\ ~resetFailed => \A p \in Window!AllPaths : n[p] = 0
        /\ Given(n)
  BY LeftoverNumbers
<1>2. PICK q \in Window!AllPaths : /\ Len(queues[q]) < QueueCapacity
                                   /\ queues' = [queues EXCEPT ![q] = Append(@, session)]
  BY DEF Window!Send, Window!Paths, Window!AllPaths
<1>3. /\ output = "send" /\ output' = "idle"
      /\ UNCHANGED <<session, resetFailed, ownWritten, outputNum>>
  BY DEF Window!Send, Window!historyVars
<1>4. queues \in [Window!AllPaths -> Seq(1 .. session)]
  BY DEF WindowInv, QueueTypes
<1>5. session # 0
  BY <1>3 DEF WindowInv, ThreadsInv
<1>6. session \in 1 .. session
  BY <1>5, WindowNumbers
<1>7. /\ queues'[q] = Append(queues[q], session)
      /\ queues'[q] \in Seq(1 .. session)
      /\ Len(queues'[q]) = Len(queues[q]) + 1
      /\ \A i \in 1 .. Len(queues[q]) : queues'[q][i] = queues[q][i]
      /\ queues'[q][Len(queues[q]) + 1] = session
  <2>1. queues[q] \in Seq(1 .. session) /\ queues'[q] = Append(queues[q], session)
    BY <1>2, <1>4
  <2> QED BY <1>6, <2>1, AppendProperties
<1>8. \A p \in Window!AllPaths : p # q => queues'[p] = queues[p]
  BY <1>2, <1>4
<1>9. QueueTypes'
  <2>1. ASSUME NEW p \in Window!AllPaths
        PROVE  queues'[p] \in Seq(1 .. session) /\ Len(queues'[p]) <= QueueCapacity
    <3>1. CASE p = q
      BY <1>2, <1>7, <3>1, QueueFacts, SessionAssumption
    <3>2. CASE p # q
      BY <1>8, <3>2, QueueFacts
    <3> QED BY <3>1, <3>2
  <2>2. queues' \in [Window!AllPaths -> Seq(1 .. session)]
    BY <1>2, <1>4, <2>1
  <2> QED BY <1>3, <2>1, <2>2 DEF QueueTypes
<1>10. ASSUME NEW p \in Window!AllPaths
       PROVE  /\ Len(queues'[p]) \in Nat
              /\ n[p] <= Len(queues'[p])
              /\ Len(queues'[p]) = Len(queues[p]) + (IF p = q THEN 1 ELSE 0)
              /\ \A i \in 1 .. Len(queues'[p]) : queues'[p][i] = session' <=> n[p] < i
  <2>1. CASE p = q
    <3>1. /\ Len(queues'[q]) \in Nat /\ Len(queues[q]) \in Nat /\ n[q] <= Len(queues[q])
          /\ Len(queues'[q]) = Len(queues[q]) + 1 /\ n[q] \in Nat
      BY <1>1, <1>7, QueueFacts
    <3>2. ASSUME NEW i \in 1 .. Len(queues'[q])
          PROVE  queues'[q][i] = session' <=> n[q] < i
      <4>1. CASE i \in 1 .. Len(queues[q])
        BY <1>1, <1>3, <1>7, <4>1
      <4>2. CASE i = Len(queues[q]) + 1
        BY <1>3, <1>7, <3>1, <4>2
      <4> QED BY <3>1, <4>1, <4>2
    <3>3. n[q] <= Len(queues'[q])
      BY <3>1
    <3> QED BY <2>1, <3>1, <3>2, <3>3
  <2>2. CASE p # q
    <3>1. queues'[p] = queues[p]
      BY <1>8, <2>2
    <3> QED BY <1>1, <1>3, <2>2, <3>1, QueueFacts
  <2> QED BY <2>1, <2>2
<1>11. ownWritten' + (Len(queues'["descriptor"]) - n["descriptor"])
                   + (Len(queues'["copy"]) - n["copy"]) + InSend' <= outputNum'
  <2>1. ownWritten \in Nat /\ outputNum \in Nat /\ InSend = 1 /\ InSend' = 0
    BY <1>3, WindowNumbers DEF InSend
  <2>2. ASSUME NEW p \in {"descriptor", "copy"}
        PROVE  /\ n[p] \in Nat /\ Len(queues[p]) \in Nat
               /\ p = q => Len(queues'[p]) = Len(queues[p]) + 1
               /\ p # q => Len(queues'[p]) = Len(queues[p])
               /\ Len(queues'[p]) \in Nat
    <3>1. p \in Window!AllPaths
      BY DEF Window!AllPaths
    <3>2. Len(queues'[p]) = Len(queues[p]) + (IF p = q THEN 1 ELSE 0)
      BY <1>10, <3>1
    <3>3. n[p] \in Nat /\ Len(queues[p]) \in Nat /\ Len(queues'[p]) \in Nat
      BY <1>1, <1>10, <3>1, QueueFacts
    <3>4. CASE p = q
      BY <3>2, <3>3, <3>4
    <3>5. CASE p # q
      BY <3>2, <3>3, <3>5
    <3> QED BY <3>3, <3>4, <3>5
  <2>3. PICK d \in Nat, d2 \in Nat, i \in Nat :
          /\ d = Len(queues["descriptor"]) /\ d2 = Len(queues'["descriptor"])
          /\ i = n["descriptor"]
    BY <2>2
  <2>4. PICK c \in Nat, c2 \in Nat, j \in Nat :
          /\ c = Len(queues["copy"]) /\ c2 = Len(queues'["copy"])
          /\ j = n["copy"]
    BY <2>2
  <2>5. PICK own \in Nat, given \in Nat : own = ownWritten /\ given = outputNum
    BY <2>1
  <2>6. own + (d - i) + (c - j) + 1 <= given
    BY <1>1, <2>1, <2>3, <2>4, <2>5 DEF Given
  <2>7. \/ d2 = d + 1 /\ c2 = c
        \/ d2 = d /\ c2 = c + 1
    <3>1. CASE q = "descriptor"
      BY <2>2, <2>3, <2>4, <3>1
    <3>2. CASE q = "copy"
      BY <2>2, <2>3, <2>4, <3>2
    <3> QED BY <1>2, <3>1, <3>2 DEF Window!AllPaths
  <2>8. own + (d2 - i) + (c2 - j) + 0 <= given
    BY <2>6, <2>7
  <2> QED BY <1>3, <2>1, <2>3, <2>4, <2>5, <2>8
<1>12. ~resetFailed' => \A p \in Window!AllPaths : n[p] = 0
  BY <1>1, <1>3
<1>13. BlocksInv'
  BY <1>10, <1>11, <1>12, NextBlocks
<1> QED BY <1>9, <1>13
\* A step that gives the output thread nothing, and puts nothing in its hand.
LEMMA QuietBlocks ==
  ASSUME WindowInv, NEW paths, queues' = Emptying(paths),
         UNCHANGED <<session, resetFailed, ownWritten, outputNum>>,
         output' = output \/ output' # "send"
  PROVE  QueueTypes' /\ BlocksInv'
<1>1. outputNum \in Nat /\ outputNum' = outputNum
  BY WindowNumbers
<1>2. InSend \in {0, 1} /\ (InSend' = InSend \/ InSend' = 0)
  BY DEF InSend
<1>3. outputNum + InSend' <= outputNum' + InSend
  <2>1. CASE InSend' = InSend
    BY <1>1, <1>2, <2>1
  <2>2. CASE InSend' = 0
    BY <1>1, <1>2, <2>2
  <2> QED BY <1>2, <2>1, <2>2
<1> QED BY <1>1, <1>3, EmptiedBlocks

\* The output thread takes a block.
LEMMA TakeBlocks == WindowInv /\ Window!TakeBlock => QueueTypes' /\ BlocksInv'
<1> SUFFICES ASSUME WindowInv, Window!TakeBlock PROVE QueueTypes' /\ BlocksInv'
  OBVIOUS
<1>1. /\ UNCHANGED <<queues, session, resetFailed, ownWritten>>
      /\ output = "idle" /\ output' = "send" /\ outputNum' = outputNum + 1
  BY DEF Window!TakeBlock, Window!channelVars, Window!historyVars
<1>2. InSend = 0 /\ InSend' = 1 /\ outputNum \in Nat
  BY <1>1, WindowNumbers DEF InSend
<1>3. outputNum' \in Nat /\ outputNum + InSend' <= outputNum' + InSend
  BY <1>1, <1>2
<1>4. queues' = Emptying({})
  BY <1>1, Emptyings
<1> QED BY <1>1, <1>3, <1>4, EmptiedBlocks

\* The start of a session: the channel's Reset, if there is one, empties both
\* queues, and its Stop the one.
LEMMA StartBlocks ==
  WindowInv /\ WindowTypes' /\ (Window!StartTransfer \/ Window!StartFails)
    => QueueTypes' /\ BlocksInv'
<1> SUFFICES ASSUME WindowInv, WindowTypes', Window!StartTransfer \/ Window!StartFails
             PROVE  QueueTypes' /\ BlocksInv'
  OBVIOUS
<1>1. PICK ok \in BOOLEAN :
        /\ Window!BeginSession(ok, "Running") \/ Window!BeginSession(ok, "Stopped")
        /\ queues' \in {Window!QueuesAfterReset(ok), IF ok THEN Window!NoBlocks
                                                     ELSE Window!CopiesLeft}
  BY DEF Window!StartTransfer, Window!StartFails
<1>2. /\ session' = session + 1 /\ resetFailed' = ~ok /\ ownWritten' = 0
      /\ threadState \notin {"Running", "Error"}
  BY <1>1 DEF Window!BeginSession
<1>3. output' # "send"
  BY <1>2 DEF Window!StartTransfer, Window!StartFails, WindowInv, ThreadsInv
<1>4. CASE ok
  <2>1. queues' = Emptying(Window!AllPaths)
    BY <1>1, <1>4, Emptyings DEF Window!QueuesAfterReset
  <2> QED BY <1>2, <1>3, <2>1, BeginBlocks
<1>5. CASE ~ok
  <2>1. resetFailed'
    BY <1>2, <1>5
  <2>2. queues' = Emptying({}) \/ queues' = Emptying({"descriptor"})
    BY <1>1, <1>5, Emptyings DEF Window!QueuesAfterReset
  <2> QED BY <1>2, <1>3, <2>1, <2>2, BeginBlocks
<1> QED BY <1>4, <1>5

\* Every step keeps what is known of the queues.
LEMMA BlocksStep ==
  WindowInv /\ WindowTypes' /\ Window!Next => QueueTypes' /\ BlocksInv'
<1> SUFFICES ASSUME WindowInv, WindowTypes', Window!Next PROVE QueueTypes' /\ BlocksInv'
  OBVIOUS
<1> USE DEF Window!channelVars, Window!historyVars, Window!inputVars
<1>1. CASE Window!Send \/ Window!TakeBlock
  BY <1>1, SentBlocks, TakeBlocks
<1>2. CASE Window!WriteBlock
  <2>1. /\ Window!TakeEntry
        /\ UNCHANGED <<session, resetFailed, outputNum, output>>
        /\ ownWritten' = (IF Window!NextEntry = session THEN ownWritten + 1 ELSE ownWritten)
    BY <1>2 DEF Window!WriteBlock
  <2>2. ownWritten' \in Nat
    BY <2>1, WindowNumbers
  <2>3. ownWritten' <= (IF Window!NextEntry = session THEN ownWritten + 1 ELSE ownWritten)
    BY <2>1, <2>2
  <2> QED BY <2>1, <2>2, <2>3, TakenBlocks
<1>3. CASE Window!WriteFails
  <2>1. /\ Window!TakeEntry
        /\ UNCHANGED <<session, resetFailed, outputNum, output, ownWritten>>
    BY <1>3 DEF Window!WriteFails
  <2>2. ownWritten' \in Nat /\ ownWritten' = ownWritten
    BY <2>1, WindowNumbers
  <2>3. ownWritten' <= (IF Window!NextEntry = session THEN ownWritten + 1 ELSE ownWritten)
    BY <2>2
  <2> QED BY <2>1, <2>2, <2>3, TakenBlocks
<1>4. CASE Window!StartTransfer \/ Window!StartFails
  BY <1>4, StartBlocks
<1>5. CASE Window!OpenDevice \/ Window!PressReset \/ Window!JoinWorker
  <2>1. /\ UNCHANGED <<session, resetFailed, ownWritten, outputNum, output>>
        /\ queues' \in {queues, Window!NoBlocks, Window!CopiesLeft}
    BY <1>5 DEF Window!OpenDevice, Window!PressReset, Window!QueuesAfterReset,
       Window!JoinWorker
  <2>2. \/ queues' = Emptying({}) \/ queues' = Emptying(Window!AllPaths)
        \/ queues' = Emptying({"descriptor"})
    BY <2>1, Emptyings
  <2> QED BY <2>1, <2>2, QuietBlocks
<1>6. CASE \/ Window!ReaderBegins \/ Window!ReadBlock \/ Window!ReaderEnds \/ Window!GiveUp
           \/ Window!PublishStatus \/ Window!ChooseMode \/ Window!StartAfterError
           \/ Window!StopTransfer \/ Window!CloseDevice \/ Window!JoinReader \/ Window!Timer
  <2>1. /\ UNCHANGED <<queues, session, resetFailed, ownWritten, outputNum>>
        /\ output' = output \/ output' # "send"
    BY <1>6 DEF Window!ReaderBegins, Window!ReadBlock, Window!ReaderEnds, Window!GiveUp,
       Window!PublishStatus, Window!ChooseMode, Window!StartAfterError, Window!StopTransfer,
       Window!CloseDevice, Window!BeginStop, Window!JoinReader, Window!Timer,
       Window!TimerOffersStart, Window!TimerStops
  <2>2. queues' = Emptying({})
    BY <2>1, Emptyings
  <2> QED BY <2>1, <2>2, QuietBlocks
<1> QED BY <1>1, <1>2, <1>3, <1>4, <1>5, <1>6
        DEF Window!Next, Window!Input, Window!User, Window!Stopping
-----------------------------------------------------------------------------
(* The counts.                                                             *)

\* Nothing but a write adds to the count, and a reset of it comes with one of
\* the status, whatever the monitor has published before.
LEMMA SentStep == WindowInv /\ Window!Next => SentInv'
<1> SUFFICES ASSUME WindowInv, Window!Next PROVE SentInv'
  OBVIOUS
<1> USE DEF Window!channelVars, Window!historyVars, Window!inputVars
<1>1. /\ sent \in Nat /\ ownWritten \in Nat /\ status.sent \in Nat
      /\ status \in [threadState : ThreadStates, sent : Nat]
  BY WindowNumbers DEF WindowInv, WindowTypes
<1>2. SentInv
  BY DEF WindowInv
<1>3. CASE Window!WriteBlock
  <2>1. /\ Window!TakeEntry /\ sent' = sent + 1
        /\ status' = (IF Window!Linux THEN [status EXCEPT !.sent = sent + 1] ELSE status)
        /\ UNCHANGED <<session, resetFailed, outputNum, output>>
        /\ ownWritten' = (IF Window!NextEntry = session THEN ownWritten + 1 ELSE ownWritten)
        /\ Window!NextEntry = session => foreign' = foreign
    BY <1>3 DEF Window!WriteBlock
  <2>2. ownWritten' \in Nat
    BY <1>1, <2>1
  <2>3. ownWritten' <= (IF Window!NextEntry = session THEN ownWritten + 1 ELSE ownWritten)
    BY <2>1, <2>2
  <2>4. ~resetFailed => Window!NextEntry = session
    BY <2>1, <2>2, <2>3, TakenBlocks
  <2>5. status'.sent \in {status.sent, sent + 1}
    BY <1>1, <2>1
  <2> SUFFICES ASSUME ~resetFailed
               PROVE  status'.sent <= sent' /\ sent' <= ownWritten' /\ ~foreign'
    BY <2>1 DEF SentInv
  <2>6. ownWritten' = ownWritten + 1 /\ foreign' = foreign
    BY <2>1, <2>4
  <2>7. status.sent <= sent /\ sent <= ownWritten /\ ~foreign
    BY <1>2 DEF SentInv
  <2>8. status'.sent <= sent'
    BY <1>1, <2>1, <2>5, <2>7
  <2>9. sent' <= ownWritten'
    BY <1>1, <2>1, <2>6, <2>7
  <2> QED BY <2>6, <2>7, <2>8, <2>9
<1>4. CASE Window!StartTransfer \/ Window!StartFails
  <2>1. PICK ok \in BOOLEAN, state \in {"Running", "Stopped"} :
          Window!BeginSession(ok, state)
    BY <1>4 DEF Window!StartTransfer, Window!StartFails
  <2>2. /\ resetFailed' = ~ok /\ ownWritten' = 0 /\ foreign' = FALSE
        /\ sent' = (IF ok \/ ~Window!Linux THEN 0 ELSE sent)
        /\ status' = (IF Window!Linux
                      THEN [Window!StatusAfterReset(ok) EXCEPT !.threadState = state]
                      ELSE Window!StatusAfterReset(ok))
    BY <2>1 DEF Window!BeginSession
  <2>3. CASE ok
    <3>1. /\ Window!StatusAfterReset(ok) \in [threadState : ThreadStates, sent : Nat]
          /\ Window!StatusAfterReset(ok).sent = 0
      BY <1>1, <2>3, ResetStatus DEF Window!StatusAfterReset, Window!Status
    <3>2. status'.sent = 0
      BY <2>2, <3>1
    <3>3. sent' = 0 /\ ownWritten' = 0 /\ ~foreign'
      BY <2>2, <2>3
    <3>4. status'.sent <= sent' /\ sent' <= ownWritten'
      BY <3>2, <3>3
    <3> QED BY <3>3, <3>4 DEF SentInv
  <2>4. CASE ~ok
    BY <2>2, <2>4 DEF SentInv
  <2> QED BY <2>3, <2>4
<1>5. CASE Window!OpenDevice
  <2>1. status'.sent = 0 /\ sent' = 0 /\ UNCHANGED <<resetFailed, ownWritten, foreign>>
    BY <1>5 DEF Window!OpenDevice, Window!Status
  <2> QED BY <1>1, <1>2, <2>1 DEF SentInv
<1>6. CASE Window!PressReset
  <2>1. PICK ok \in BOOLEAN : /\ sent' = (IF ok THEN 0 ELSE sent)
                              /\ status' = Window!StatusAfterReset(ok)
                              /\ UNCHANGED <<resetFailed, ownWritten, foreign>>
    BY <1>6 DEF Window!PressReset
  <2>2. CASE ok
    <3>1. status'.sent = 0 /\ sent' = 0
      BY <1>1, <2>1, <2>2 DEF Window!StatusAfterReset, Window!Status
    <3>2. status'.sent <= sent' /\ sent' <= ownWritten'
      BY <1>1, <2>1, <3>1
    <3> QED BY <1>2, <2>1, <3>2 DEF SentInv
  <2>3. CASE ~ok
    <3>1. status' = status /\ sent' = sent
      BY <2>1, <2>3 DEF Window!StatusAfterReset
    <3> QED BY <1>2, <2>1, <3>1 DEF SentInv
  <2> QED BY <2>2, <2>3
<1>7. CASE Window!JoinWorker
  <2>1. UNCHANGED <<resetFailed, ownWritten, foreign>>
    BY <1>7 DEF Window!JoinWorker
  <2>2. \/ status'.sent = 0 /\ sent' = 0
        \/ status'.sent = status.sent /\ sent' = sent
    BY <1>1, <1>7 DEF Window!JoinWorker, Window!Status
  <2>3. CASE status'.sent = 0 /\ sent' = 0
    BY <1>1, <1>2, <2>1, <2>3 DEF SentInv
  <2>4. CASE status'.sent = status.sent /\ sent' = sent
    BY <1>2, <2>1, <2>4 DEF SentInv
  <2> QED BY <2>2, <2>3, <2>4
<1>8. CASE Window!WriteFails \/ Window!PublishStatus
  <2>1. UNCHANGED <<resetFailed, ownWritten, foreign, sent>>
    BY <1>8 DEF Window!WriteFails, Window!PublishStatus
  <2>2. status'.sent \in {status.sent, sent}
    BY <1>1, <1>8 DEF Window!WriteFails, Window!PublishStatus, Window!Status
  <2>3. CASE status'.sent = status.sent
    BY <1>2, <2>1, <2>3 DEF SentInv
  <2>4. CASE status'.sent = sent
    BY <1>1, <1>2, <2>1, <2>4 DEF SentInv
  <2> QED BY <2>2, <2>3, <2>4
<1>9. CASE \/ Window!Input \/ Window!ChooseMode \/ Window!StartAfterError
           \/ Window!StopTransfer \/ Window!CloseDevice \/ Window!JoinReader \/ Window!Timer
  <2>1. UNCHANGED <<resetFailed, ownWritten, foreign, sent, status>>
    BY <1>9 DEF Window!Input, Window!ReaderBegins, Window!ReadBlock, Window!ReaderEnds,
       Window!TakeBlock, Window!Send, Window!GiveUp, Window!ChooseMode,
       Window!StartAfterError, Window!StopTransfer, Window!CloseDevice, Window!BeginStop,
       Window!JoinReader, Window!Timer, Window!TimerOffersStart, Window!TimerStops
  <2> QED BY <1>2, <2>1 DEF SentInv
<1> QED BY <1>3, <1>4, <1>5, <1>6, <1>7, <1>8, <1>9
        DEF Window!Next, Window!User, Window!Stopping-----------------------------------------------------------------------------
(* What the window promises.                                               *)

\* Every step of the window keeps the invariant.
LEMMA WindowStep == WindowInv /\ [Window!Next]_(Window!vars) => WindowInv'
<1> SUFFICES ASSUME WindowInv, [Window!Next]_(Window!vars) PROVE WindowInv'
  OBVIOUS
<1>1. CASE Window!Next
  BY <1>1, TypesStep, ThreadsStep, BlocksStep, SentStep DEF WindowInv
<1>2. CASE UNCHANGED Window!vars
  <2> USE <1>2 DEF Window!vars, Window!uiVars, Window!channelVars, Window!inputVars,
                   Window!historyVars
  <2>1. WindowTypes'
    BY DEF WindowInv, WindowTypes
  <2>2. ThreadsInv'
    BY DEF WindowInv, ThreadsInv
  <2>3. QueueTypes' /\ BlocksInv'
    <3>1. queues' = Emptying({})
      BY Emptyings
    <3> QED BY <3>1, QuietBlocks
  <2>4. SentInv'
    BY DEF WindowInv, SentInv
  <2> QED BY <2>1, <2>2, <2>3, <2>4 DEF WindowInv
<1> QED BY <1>1, <1>2

\* The invariant holds in every session.
LEMMA WindowAlways == Window!Spec => []WindowInv
<1> QED BY WindowInit, WindowStep, PTL DEF Window!Spec

\* What a session has written it has been given.
LEMMA WrittenWasGiven == ASSUME WindowInv PROVE ownWritten <= outputNum
<1>1. PICK n \in [Window!AllPaths -> 0 .. QueueCapacity] :
        /\ \A p \in Window!AllPaths :
             /\ n[p] \in Nat /\ n[p] <= Len(queues[p])
             /\ \A i \in 1 .. Len(queues[p]) : queues[p][i] = session <=> n[p] < i
        /\ ~resetFailed => \A p \in Window!AllPaths : n[p] = 0
        /\ Given(n)
  BY LeftoverNumbers
<1>2. ASSUME NEW p \in {"descriptor", "copy"}
      PROVE  n[p] \in Nat /\ Len(queues[p]) \in Nat /\ n[p] <= Len(queues[p])
  BY <1>1, QueueFacts DEF Window!AllPaths
<1>3. PICK d \in Nat, c \in Nat :
        /\ d = Len(queues["descriptor"]) - n["descriptor"]
        /\ c = Len(queues["copy"]) - n["copy"]
  BY <1>2
<1>4. PICK own \in Nat, s \in Nat, given \in Nat :
        own = ownWritten /\ s = InSend /\ given = outputNum
  BY WindowNumbers DEF InSend
<1>5. own + d + c + s <= given
  BY <1>1, <1>3, <1>4 DEF Given
<1>6. own <= given
  BY <1>5
<1> QED BY <1>4, <1>6

\* The variables of the window keep their types; no session writes more blocks
\* than the files have, and no queue outgrows its capacity.
LEMMA WindowKeepsTypes == Window!Spec => []Window!TypeOK
<1>1. WindowInv => Window!TypeOK
  <2> SUFFICES ASSUME WindowInv PROVE Window!TypeOK
    OBVIOUS
  <2>1. WindowTypes
    BY DEF WindowInv
  <2>2. 1 .. session \subseteq 1 .. MaxSessions
    BY WindowNumbers
  <2>3. \A p \in Window!AllPaths : queues[p] \in Seq(1 .. MaxSessions)
    BY <2>2, QueueFacts, SeqMonotonic
  <2>4. /\ queues \in [Window!AllPaths -> Seq(1 .. MaxSessions)]
        /\ \A p \in Window!AllPaths : Len(queues[p]) <= QueueCapacity
    BY <2>3 DEF WindowInv, QueueTypes
  <2>5. ownWritten \in 0 .. FileBlocks
    BY WindowNumbers, WrittenWasGiven
  <2> QED BY <2>1, <2>4, <2>5 DEF WindowTypes, ThreadStates, Window!TypeOK
<1> QED BY <1>1, WindowAlways, PTL

\* Transfers do not mix.
LEMMA WindowKeepsApart == Window!Spec => []SessionsApart
<1>1. WindowInv => SessionsApart
  BY DEF WindowInv, ThreadsInv, SentInv, SessionsApart, Window!SessionsApart
<1> QED BY <1>1, WindowAlways, PTL

\* When the timer stops a transfer the count it reads is behind that of the
\* blocks written, which is behind that of the blocks read: being equal to it,
\* all of them are.
LEMMA TimerIsLate ==
  ASSUME WindowInv, Window!TimerStops
  PROVE  resetFailed \/ (reader \in {"none", "ended"} /\ ownWritten = inputNum)
<1> SUFFICES ASSUME ~resetFailed
             PROVE  reader \in {"none", "ended"} /\ ownWritten = inputNum
  OBVIOUS
<1>1. ~readerRunning /\ status.sent > 0 /\ inputNum = status.sent
  BY DEF Window!TimerStops, Window!TransferIsOver
<1>2. status.sent <= sent /\ sent <= ownWritten
  BY DEF WindowInv, SentInv
<1>3. reader \in {"none", "ended"}
  <2>1. reader \in {"none", "starting", "reading", "ended"}
    BY DEF WindowInv, WindowTypes
  <2>2. reader # "reading"
    BY <1>1 DEF WindowInv, ThreadsInv
  <2>3. reader # "starting"
    BY <1>1, WindowNumbers DEF WindowInv, ThreadsInv
  <2> QED BY <2>1, <2>2, <2>3
<1>4. ownWritten = inputNum
  BY <1>1, <1>2, WindowNumbers, WrittenWasGiven
<1> QED BY <1>3, <1>4

\* The automatic stop cuts nothing off.
LEMMA WindowStopsLate == Window!Spec => AutoStopIsLate
<1>1. WindowInv => [Window!TimerStops =>
                      \/ resetFailed
                      \/ reader \in {"none", "ended"} /\ ownWritten = inputNum]_(Window!vars)
  BY TimerIsLate
<1> QED BY <1>1, WindowAlways, PTL DEF AutoStopIsLate, Window!AutoStopIsLate
-----------------------------------------------------------------------------
(***************************************************************************)
(* The parts together: a step of the whole is a step of one part and       *)
(* leaves the others alone.                                                *)
(***************************************************************************)

LEMMA PartsSteps ==
  [PartsNext]_<<exercised, vars, shmSourceVars, iocpVars, windowVars>> =>
    [Next]_vars /\ [Shm!Next]_(Shm!vars) /\ [Iocp!Next]_(Iocp!vars)
      /\ [Window!Next]_(Window!vars)
<1> SUFFICES ASSUME [PartsNext]_<<exercised, vars, shmSourceVars, iocpVars, windowVars>>
             PROVE  /\ [Next]_vars /\ [Shm!Next]_(Shm!vars)
                    /\ [Iocp!Next]_(Iocp!vars) /\ [Window!Next]_(Window!vars)
  OBVIOUS
<1>1. UNCHANGED shmSourceVars => UNCHANGED Shm!vars
  BY DEF shmSourceVars, Shm!vars, Shm!odpVars, Shm!shmVars, Shm!historyVars, shmVars
<1>2. UNCHANGED iocpVars => UNCHANGED Iocp!vars
  BY DEF iocpVars, Iocp!vars, Iocp!odpVars, Iocp!readVars, Iocp!fileVars
<1>3. UNCHANGED windowVars => UNCHANGED Window!vars
  BY DEF windowVars, Window!vars, Window!uiVars, Window!channelVars, Window!inputVars,
     Window!historyVars
<1>4. CASE PartsNext
  BY <1>1, <1>2, <1>3, <1>4
     DEF PartsNext, Memory, SharedMemory, CompletionPort, Sessions
<1>5. CASE UNCHANGED <<exercised, vars, shmSourceVars, iocpVars, windowVars>>
  BY <1>1, <1>2, <1>3, <1>5
<1> QED BY <1>4, <1>5

\* So a behaviour of the whole is one of every part.
LEMMA PartsAreParts == PartsSpec => Spec /\ Shm!Spec /\ Iocp!Spec /\ Window!Spec
<1>1. PartsInit => Init /\ Shm!Init /\ Iocp!Init /\ Window!Init
  BY DEF PartsInit
<1> QED BY <1>1, PartsSteps, PTL DEF PartsSpec, Spec, Shm!Spec, Iocp!Spec, Window!Spec

\* The variables of every source and of the window keep their types, whatever
\* the sizes of rings, pools, queues and files.
THEOREM PartsTypeCorrect == PartsSpec => []PartsTypeOK
<1>1. TypeOK /\ Shm!TypeOK /\ Iocp!TypeOK /\ Window!TypeOK => PartsTypeOK
  BY DEF PartsTypeOK
<1> QED BY <1>1, PartsAreParts, TypeCorrect, ShmTypes, IocpTypes, WindowKeepsTypes, PTL

\* The buffers of the IOCP reader are in the pool, or destroyed, only when no
\* read of the kernel is under way into them.
THEOREM KeepsReadMemory == PartsSpec => []KeepsMemoryWhileReading
<1> QED BY PartsAreParts, IocpKeepsMemory, PTL

\* The IOCP reader's threads and completions implement the abstract reader:
\* blocks are filled in any order and delivered in that of the files.
THEOREM IocpReadsInOrder == PartsSpec => IocpImplementsOrderedRead
<1> QED BY PartsAreParts, IocpFollowsProtocol, PTL

\* So whatever order the kernel completes the reads in, the listener gets the
\* blocks in file order, each once, and no two of them ever meet in a slot.
THEOREM IocpDeliversEachOnce ==
  PartsSpec => Iocp!OR!ImplementsOrderedDelivery /\ []Iocp!OR!SlotExclusive
<1> QED BY PartsAreParts, IocpDeliversOnce, IocpSlotsExclusive, PTL

\* The two hangs that StopCompletes excepts are hangs: a thread shut in at its
\* gate, or waiting for completions it has dropped, stays there whatever the
\* kernel, the output thread and the window do.
THEOREM IocpHangsForGood ==
  PartsSpec => /\ [](Iocp!GateStuck => []Iocp!GateStuck)
               /\ [](Iocp!Miscounted => []Iocp!Miscounted)
<1> QED BY PartsAreParts, IocpHangs, PTL

\* The ring in shared memory is a first-in first-out queue between the producer
\* program and the processor, whichever of the two dies where.
THEOREM ShmRingIsFifo == PartsSpec => ShmImplementsFifo
<1> QED BY PartsAreParts, ShmIsFifo, PTL

\* A reset of the channel is offered only while nothing uses its queues, and the
\* blocks of two transfers mix only after a reset of the device that failed.
THEOREM TransfersStayApart == PartsSpec => []SessionsApart
<1> QED BY PartsAreParts, WindowKeepsApart, PTL

\* The timer stops a transfer only when every block read has been written,
\* however old the status is that it reads, unless the device's reset failed.
THEOREM TimerCutsNothingOff == PartsSpec => AutoStopIsLate
<1> QED BY PartsAreParts, WindowStopsLate, PTL
=============================================================================
