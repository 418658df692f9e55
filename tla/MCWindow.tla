-------------------------------- MODULE MCWindow --------------------------------
(***************************************************************************)
(* The window's other input sources, and its own control of a session.  It *)
(* starts one source per session and each has its own ordered data         *)
(* processor; Session sees a source from outside.  A behaviour is that of  *)
(* one source, or of the window, while the rest stays as it was made.      *)
(***************************************************************************)
EXTENDS MemorySource, ShmRing

CONSTANTS FileBlocks, QueueCapacity, MaxSessions             \* of Session

ASSUME SessionAssumption == /\ FileBlocks \in Nat /\ QueueCapacity \in Nat \ {0}
                            /\ MaxSessions \in Nat

VARIABLES
  exercised,                                  \* one of the sources, or the window
  shmFilled, shmBlock, shmNext, shmStop, shmOut, shmDelivered,
  toolPc, consumerPc, appPc, takenCount, taken,              \* of ShmSource
  iocpFilled, iocpBlock, iocpNext, iocpStop, iocpOut, iocpDelivered,
  iocpCounter, inFlight, queued, batch, current, activeRequests, initialLeft,
  remaining, lastFile, loop, readerPc, iocpRequested, iocpOwner, \* of IocpReader
  build, single, enabled, stopSending, uiPc, closing, deviceOpen, threadState,
  worker, queues, sent, status, reader, readerRunning, inputNum, output,
  outputNum, session, resetFailed, ownWritten, foreign       \* of Session

Shm == INSTANCE ShmSource WITH
  slotFilled <- shmFilled, slotBlock <- shmBlock, nextOutputSlot <- shmNext,
  stopThread <- shmStop, outPc <- shmOut, delivered <- shmDelivered

Iocp == INSTANCE IocpReader WITH
  slotFilled <- iocpFilled, slotBlock <- iocpBlock, nextOutputSlot <- iocpNext,
  stopThread <- iocpStop, outPc <- iocpOut, delivered <- iocpDelivered,
  requestCounter <- iocpCounter, stopRequested <- iocpRequested, ownerPc <- iocpOwner

Window == INSTANCE Session

shmSourceVars == <<shmFilled, shmBlock, shmNext, shmStop, shmOut, shmDelivered,
                   shmVars, toolPc, consumerPc, appPc, takenCount, taken>>
iocpVars == <<iocpFilled, iocpBlock, iocpNext, iocpStop, iocpOut, iocpDelivered,
              iocpCounter, inFlight, queued, batch, current, activeRequests,
              initialLeft, remaining, lastFile, loop, readerPc, iocpRequested, iocpOwner>>

windowVars == <<build, single, enabled, stopSending, uiPc, closing, deviceOpen,
                threadState, worker, queues, sent, status, reader, readerRunning,
                inputNum, output, outputNum, session, resetFailed, ownWritten, foreign>>

\* A window that is not exercised is of one build and mode.
PartsInit == /\ exercised \in {"memory", "shm", "iocp", "window"}
             /\ Init /\ Shm!Init /\ Iocp!Init /\ Window!Init
             /\ exercised # "window" => build = "linux" /\ single

Memory == Next /\ UNCHANGED <<shmSourceVars, iocpVars, windowVars>>
SharedMemory == Shm!Next /\ UNCHANGED <<vars, iocpVars, windowVars>>
CompletionPort == Iocp!Next /\ UNCHANGED <<vars, shmSourceVars, windowVars>>
Sessions == Window!Next /\ UNCHANGED <<vars, shmSourceVars, iocpVars>>

PartsNext ==
  /\ UNCHANGED exercised
  /\ \/ exercised = "memory" /\ Memory
     \/ exercised = "shm" /\ SharedMemory
     \/ exercised = "iocp" /\ CompletionPort
     \/ exercised = "window" /\ Sessions

PartsSpec ==
  /\ PartsInit
  /\ [][PartsNext]_<<exercised, vars, shmSourceVars, iocpVars, windowVars>>
  /\ Fairness /\ Shm!Fairness /\ Iocp!Fairness /\ Window!Fairness

\* Every source, and the window, is in one of its states.
PartsTypeOK == TypeOK /\ Shm!TypeOK /\ Iocp!TypeOK /\ Window!TypeOK

\* The processor takes what the producer program committed, in order and whole,
\* whichever process dies where.
ShmImplementsFifo == Shm!ImplementsFifo

\* The IOCP reader's buffers outlive its reads.
KeepsMemoryWhileReading == Iocp!KeepsMemoryWhileReading

\* The IOCP reader follows the protocol of the file readers.
IocpImplementsOrderedRead == Iocp!ImplementsOrderedRead

\* The IOCP reader's stop completes, but for its two hangs and the undefined
\* behaviour after a failed start.
IocpStopCompletes == Iocp!StopCompletes

\* Transfers do not mix, but for a reset of the device that fails.
SessionsApart == Window!SessionsApart

\* The timer stops a transfer only when everything read has been written.
AutoStopIsLate == Window!AutoStopIsLate

\* After a stop the start button comes back.
ButtonComesBack == Window!ButtonComesBack
=============================================================================
