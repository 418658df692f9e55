------------------------------ MODULE IocpReader ------------------------------
(***************************************************************************)
(* CInputDataFromFileUseIOCP, the Windows file reader.  One thread submits *)
(* overlapped reads, takes their completions from a completion port in     *)
(* batches, hands each block to ProcessData and submits the next read in   *)
(* its place.  The kernel completes reads in any order.  All state is the  *)
(* thread's own, the OVERLAPPED structures and the read buffers included,  *)
(* so the thread must not end while the kernel still reads.                *)
(*                                                                         *)
(* The thread waits at the gate itself, and while it waits nobody processes*)
(* completions.                                                            *)
(***************************************************************************)
EXTENDS OrderedDataProcessor, FiniteSets, SourceConstants

VARIABLES
  requestCounter,  \* global_request_counter
  inFlight,        \* reads the kernel is performing
  queued,          \* completed reads in the port
  batch,           \* reads taken from the port and not processed, or never issued
  current,         \* the read whose block is inside ProcessData
  activeRequests,  \* active_requests
  initialLeft,     \* requests the initial loop has still to submit
  remaining,       \* remaining_bytes # 0
  lastFile,        \* current_file_index >= file_list.size() - 1
  loop,            \* m_InitParam.loop
  readerPc,        \* where ReadData is
  stopRequested,   \* stop_read_data_
  ownerPc          \* where the window is

readVars == <<inFlight, queued, batch>>
fileVars == <<remaining, lastFile, loop>>
vars == <<odpVars, requestCounter, readVars, current, activeRequests, initialLeft,
          fileVars, readerPc, stopRequested, ownerPc>>

Requests == 0 .. (MaxRequests - 1)
Claimed == requestCounter - 1

ReaderPcs == {"none", "initial", "gate", "issue", "wait", "collected", "process",
              "mark", "next", "drain", "undefined", "exited"}
OwnerPcs == {"idle", "running", "join", "stopOutput", "joinOutput", "stopped"}

Init == /\ ODPInit
        /\ requestCounter = 0
        /\ inFlight = {} /\ queued = {} /\ batch = {}
        /\ current = NoBlock
        /\ activeRequests = 0 /\ initialLeft = 0
        /\ remaining = TRUE /\ lastFile = FALSE /\ loop = FALSE
        /\ readerPc = "none"
        /\ stopRequested = FALSE
        /\ ownerPc = "idle"

Goes(from, to) == readerPc = from /\ readerPc' = to

\* What a file may still hold: MaxRequests bounds the blocks of a session, and
\* the files opened after that many are empty.
MayRemain == IF requestCounter < MaxRequests THEN BOOLEAN ELSE {FALSE}

-----------------------------------------------------------------------------
(* SubmitNewReadRequest: number, gate, ReadFile.                           *)

Claim(from) ==
  /\ Goes(from, "gate")
  /\ remaining
  /\ requestCounter' = requestCounter + 1

\* Mutant of GateOpen: a slot that is next to be output is open when it is empty.
GateOpenIfEmpty == ~Occupied(Claimed)

\* The first request passes; a later one sleeps while its slot is the next to
\* be output, whatever the stop flag says.
GateOpen == Claimed = 0 \/ SlotOf(Claimed) # nextOutputSlot

PassGate ==
  /\ Goes("gate", "issue")
  /\ GateOpen
  /\ UNCHANGED <<odpVars, requestCounter, readVars, current, activeRequests,
                 initialLeft, fileVars, stopRequested, ownerPc>>

\* ReadFile succeeds or is pending; the bytes it takes may be the file's last.
IssueRead ==
  /\ Goes("issue", IF initialLeft > 0 THEN "initial" ELSE "process")
  /\ inFlight' = inFlight \union {Claimed}
  /\ activeRequests' = activeRequests + 1
  /\ initialLeft' = IF initialLeft > 0 THEN initialLeft - 1 ELSE 0
  /\ remaining' \in MayRemain
  /\ UNCHANGED <<odpVars, requestCounter, queued, batch, current, lastFile, loop,
                 stopRequested, ownerPc>>

\* ReadFile fails.  In the main loop that leads to the wait for the reads in
\* flight; in the initial loop the thread returns as it is, and the buffers of
\* the reads in flight, if there are any, are freed under the kernel.
IssueFails ==
  /\ Goes("issue", IF initialLeft > 0 /\ activeRequests > 0 THEN "undefined" ELSE "drain")
  /\ batch' = batch \union {Claimed}
  /\ UNCHANGED <<odpVars, requestCounter, inFlight, queued, current, activeRequests,
                 initialLeft, fileVars, stopRequested, ownerPc>>

-----------------------------------------------------------------------------
(* ReadData.                                                               *)

\* The initial requests, as many as the first file has blocks for.
ClaimInitial ==
  /\ Claim("initial")
  /\ initialLeft > 0
  /\ UNCHANGED <<odpVars, readVars, current, activeRequests, initialLeft, fileVars,
                 stopRequested, ownerPc>>

InitialDone ==
  /\ Goes("initial", "wait")
  /\ ~remaining \/ initialLeft = 0
  /\ initialLeft' = 0
  /\ UNCHANGED <<odpVars, requestCounter, readVars, current, activeRequests, fileVars,
                 stopRequested, ownerPc>>

LeaveLoop ==
  /\ Goes("wait", "drain")
  /\ UNCHANGED <<odpVars, requestCounter, readVars, current, activeRequests,
                 initialLeft, fileVars, stopRequested, ownerPc>>

\* Mutant of StopAtTop: the flag is looked at only when a read has completed.
StopAfterCompletion == stopRequested /\ queued # {} /\ LeaveLoop

\* The stop flag ends the main loop at its top, or after the 100 ms for which
\* it waits for completions.
StopAtTop == stopRequested /\ LeaveLoop

\* So does an error of the port.
PortFails == ~stopRequested /\ LeaveLoop

\* GetQueuedCompletionStatusEx returns what is in the port.
Collect ==
  /\ Goes("wait", "collected")
  /\ queued # {}
  /\ batch' = queued
  /\ queued' = {}
  /\ UNCHANGED <<odpVars, requestCounter, inFlight, current, activeRequests,
                 initialLeft, fileVars, stopRequested, ownerPc>>

\* The stop flag is read again; if it is up the batch is dropped uncounted.
LookAtStop ==
  /\ Goes("collected", IF stopRequested THEN "drain" ELSE "process")
  /\ UNCHANGED <<odpVars, requestCounter, readVars, current, activeRequests,
                 initialLeft, fileVars, stopRequested, ownerPc>>

\* An entry with the length asked for: ProcessData copies the block, unless its
\* slot is occupied, in which case it is lost.
ProcessEntry == \E r \in batch :
  /\ Goes("process", IF Occupied(r) THEN "next" ELSE "mark")
  /\ StoreBlock(r)
  /\ batch' = batch \ {r}
  /\ current' = r
  /\ activeRequests' = activeRequests - 1
  /\ UNCHANGED <<requestCounter, inFlight, queued, initialLeft, fileVars,
                 stopRequested, ownerPc>>

MarkEntry ==
  /\ Goes("mark", "next")
  /\ MarkFilled(current)
  /\ UNCHANGED <<requestCounter, readVars, current, activeRequests, initialLeft,
                 fileVars, stopRequested, ownerPc>>

\* An entry of another length ends the loop, and the rest of the batch with it.
WrongLength ==
  /\ Goes("process", "drain")
  /\ batch # {}
  /\ activeRequests' = activeRequests - 1
  /\ UNCHANGED <<odpVars, requestCounter, readVars, current, initialLeft,
                 fileVars, stopRequested, ownerPc>>

\* The next read of the same file ...
ClaimNext ==
  /\ Claim("next")
  /\ UNCHANGED <<odpVars, readVars, current, activeRequests, initialLeft, fileVars,
                 stopRequested, ownerPc>>

\* ... none, after the last file ...
NoMoreFiles ==
  /\ Goes("next", "process")
  /\ ~remaining /\ lastFile /\ ~loop
  /\ UNCHANGED <<odpVars, requestCounter, readVars, current, activeRequests,
                 initialLeft, fileVars, stopRequested, ownerPc>>

\* ... the first of the next file, which may be empty ...
NextFile ==
  /\ ~remaining /\ (lastFile => loop)
  /\ remaining' \in MayRemain
  /\ Goes("next", IF remaining' THEN "next" ELSE "process")
  /\ lastFile' \in BOOLEAN
  /\ UNCHANGED <<odpVars, requestCounter, readVars, current, activeRequests,
                 initialLeft, loop, stopRequested, ownerPc>>

\* ... or none, because it cannot be opened.
OpenFails ==
  /\ Goes("next", "drain")
  /\ ~remaining /\ (lastFile => loop)
  /\ UNCHANGED <<odpVars, requestCounter, readVars, current, activeRequests,
                 initialLeft, fileVars, stopRequested, ownerPc>>

\* The batch is processed.  Everything read ends the loop.
BatchDone ==
  /\ batch = {}
  /\ Goes("process",
          IF ~remaining /\ lastFile /\ activeRequests = 0 THEN "drain" ELSE "wait")
  /\ UNCHANGED <<odpVars, requestCounter, readVars, current, activeRequests,
                 initialLeft, fileVars, stopRequested, ownerPc>>

\* The thread waits for the reads it still counts as active.
Drain ==
  /\ readerPc = "drain"
  /\ queued # {}
  /\ batch' = batch \union queued
  /\ queued' = {}
  /\ activeRequests' = activeRequests - Cardinality(queued)
  /\ UNCHANGED <<odpVars, requestCounter, inFlight, current, initialLeft, fileVars,
                 readerPc, stopRequested, ownerPc>>

\* Mutant of ReaderEnds: the thread does not wait for its reads.
ReaderEndsAtOnce ==
  /\ Goes("drain", "exited")
  /\ UNCHANGED <<odpVars, requestCounter, readVars, current, activeRequests,
                 initialLeft, fileVars, stopRequested, ownerPc>>

ReaderEnds ==
  /\ Goes("drain", "exited")
  /\ activeRequests = 0
  /\ UNCHANGED <<odpVars, requestCounter, readVars, current, activeRequests,
                 initialLeft, fileVars, stopRequested, ownerPc>>

Reader == \/ PassGate \/ IssueRead \/ IssueFails
          \/ ClaimInitial \/ InitialDone \/ StopAtTop \/ Collect \/ LookAtStop
          \/ ProcessEntry \/ MarkEntry \/ WrongLength
          \/ ClaimNext \/ NoMoreFiles \/ NextFile \/ OpenFails \/ BatchDone
          \/ Drain \/ ReaderEnds

\* The kernel completes a read, well or not, and queues it at the port.
CompleteRead == \E r \in inFlight :
  /\ inFlight' = inFlight \ {r}
  /\ queued' = queued \union {r}
  /\ UNCHANGED <<odpVars, requestCounter, batch, current, activeRequests, initialLeft,
                 fileVars, readerPc, stopRequested, ownerPc>>

Output == /\ OutputThread
          /\ UNCHANGED <<requestCounter, readVars, current, activeRequests, initialLeft,
                         fileVars, readerPc, stopRequested, ownerPc>>

-----------------------------------------------------------------------------
(* The window.                                                             *)

OwnerGoes(from, to) == ownerPc = from /\ ownerPc' = to

\* Start, with a first file that may be empty or the only one.
Start ==
  /\ OwnerGoes("idle", "running")
  /\ StartProcessing
  /\ readerPc' = "initial"
  /\ initialLeft' = IoRequestNum
  /\ remaining' \in MayRemain /\ lastFile' \in BOOLEAN /\ loop' \in BOOLEAN
  /\ stopRequested' = FALSE
  /\ UNCHANGED <<requestCounter, readVars, current, activeRequests>>

RequestStop ==
  /\ OwnerGoes("running", "join")
  /\ stopRequested' = TRUE
  /\ UNCHANGED <<odpVars, requestCounter, readVars, current, activeRequests,
                 initialLeft, fileVars, readerPc>>

JoinReader ==
  /\ OwnerGoes("join", "stopOutput")
  /\ readerPc = "exited"
  /\ UNCHANGED <<odpVars, requestCounter, readVars, current, activeRequests,
                 initialLeft, fileVars, readerPc, stopRequested>>

StopOutput ==
  /\ OwnerGoes("stopOutput", "joinOutput")
  /\ RequestStopProcessing
  /\ UNCHANGED <<requestCounter, readVars, current, activeRequests, initialLeft,
                 fileVars, readerPc, stopRequested>>

JoinOutput ==
  /\ OwnerGoes("joinOutput", "stopped")
  /\ JoinOutputThread
  /\ UNCHANGED <<requestCounter, readVars, current, activeRequests, initialLeft,
                 fileVars, readerPc, stopRequested>>

\* Reset before the next start; what was local to the thread went with it.
Reset ==
  /\ OwnerGoes("stopped", "idle")
  /\ ResetProcessor
  /\ requestCounter' = 0 /\ activeRequests' = 0 /\ initialLeft' = 0
  /\ batch' = {} /\ current' = NoBlock
  /\ remaining' = TRUE /\ lastFile' = FALSE /\ loop' = FALSE
  /\ readerPc' = "none"
  /\ UNCHANGED <<inFlight, queued, stopRequested>>

Stopping == JoinReader \/ StopOutput \/ JoinOutput

-----------------------------------------------------------------------------
\* Past undefined behaviour the model says nothing.
Next == /\ readerPc # "undefined"
        /\ \/ Reader \/ PortFails \/ CompleteRead \/ Output
           \/ Start \/ RequestStop \/ Stopping \/ Reset

\* The threads run, the kernel completes every read, and a stop goes on; the
\* port need not fail.
Fairness == /\ WF_vars(readerPc # "undefined" /\ Reader)
            /\ WF_vars(readerPc # "undefined" /\ CompleteRead)
            /\ WF_vars(readerPc # "undefined" /\ Output)
            /\ WF_vars(Stopping)

Spec == Init /\ [][Next]_vars /\ Fairness

-----------------------------------------------------------------------------
(* Properties.                                                             *)

Outstanding == inFlight \union queued

TypeOK ==
  /\ slotFilled \in [Slots -> BOOLEAN]
  /\ slotBlock \in [Slots -> Requests \union {NoBlock}]
  /\ nextOutputSlot \in Slots
  /\ stopThread \in BOOLEAN /\ stopRequested \in BOOLEAN
  /\ outPc \in OutputPcs /\ readerPc \in ReaderPcs /\ ownerPc \in OwnerPcs
  /\ delivered \in Seq(Requests)
  /\ requestCounter \in 0 .. MaxRequests
  /\ inFlight \subseteq Requests /\ queued \subseteq Requests /\ batch \subseteq Requests
  /\ current \in Requests \union {NoBlock}
  /\ activeRequests \in 0 .. IoRequestNum
  /\ initialLeft \in 0 .. IoRequestNum
  /\ fileVars \in BOOLEAN \X BOOLEAN \X BOOLEAN

\* The buffers and OVERLAPPED structures, which go with the thread, outlive
\* every read, and no completion is left in the port for the next session.
KeepsMemoryWhileReading == readerPc \in {"none", "exited"} => Outstanding = {}

OR == INSTANCE OrderedRead WITH
  atGate <- readerPc = "gate",
  reading <- Outstanding \union batch \union (IF readerPc = "issue" THEN {Claimed} ELSE {}),
  storing <- IF readerPc = "mark" THEN {current} ELSE {},
  stopRequested <- readerPc \in {"drain", "exited"}

\* The reader follows the protocol of the file readers, whatever the order of
\* the completions and however the loop ends.
ImplementsOrderedRead == OR!SafeSpec

\* The slot the output thread waits for belongs to the request at the gate, or
\* to one whose completion only the thread at the gate could process.
GateStuck == /\ readerPc = "gate" /\ ~GateOpen
             /\ outPc = "poll" /\ ~slotFilled[nextOutputSlot]

\* Completions were dropped by a break, and will be waited for in vain.
Miscounted == readerPc = "drain" /\ activeRequests > Cardinality(Outstanding)

\* A stop completes unless the thread hangs in one of these two places or its
\* first requests failed half way.
StopCompletes ==
  stopRequested ~> \/ ownerPc \in {"stopped", "idle"}
                   \/ GateStuck \/ Miscounted \/ readerPc = "undefined"
=============================================================================
