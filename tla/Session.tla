-------------------------------- MODULE Session --------------------------------
(***************************************************************************)
(* MainWindow as the owner of transfers: its buttons, the flag it shares   *)
(* with the listener, the timer that reads a published status, and         *)
(* PcieFacade with the device behind it.  The handlers run on the user-    *)
(* interface thread, one at a time; a stop blocks it while threads are     *)
(* joined.  Reader, output thread, DMA worker and monitor run beside it    *)
(* and are seen here only as far as the window sees them; the modules of   *)
(* the reader and the channel have their inside, their hangs included.     *)
(*                                                                         *)
(* The two builds differ in what the window reads.  On Linux the reader    *)
(* counts as running until it is stopped and the status is up to date; on  *)
(* Windows the reading thread ends by itself and the monitor thread        *)
(* publishes the status once a second.                                     *)
(*                                                                         *)
(* The source is the file reader.  The channel has a queue for each path,  *)
(* and an entry is the number of the session whose block it is.            *)
(***************************************************************************)
EXTENDS Naturals, Sequences

CONSTANTS
  FileBlocks,     \* blocks in the list of files
  QueueCapacity,  \* blocks a queue of the channel holds
  MaxSessions     \* bound: transfers started

VARIABLES
  build,          \* "linux" or "windows"
  single,         \* m_iSendMode is 0: the list is sent once
  enabled,        \* the buttons that can be pressed
  stopSending,    \* m_bStopSendData
  uiPc,           \* where the user-interface thread is
  closing,        \* the stop in progress is that of onCloseDevice
  deviceOpen,     \* IsOpen of the device; the channel exists
  threadState,    \* of the channel
  worker,         \* the channel's worker thread
  queues,         \* the blocks queued, by path
  sent,           \* blocks the channel counts as sent
  status,         \* what GetStatus returns
  reader,         \* the reading thread
  readerRunning,  \* IsRunning of the reader
  inputNum,       \* GetInputDataNum, in blocks
  output,         \* the output thread in InputData
  outputNum,      \* blocks it has been given
  session,        \* history: the number of the session
  resetFailed,    \* history: the device could not be reset for this session
  ownWritten,     \* history: blocks of this session written to the device
  foreign         \* history: a block of an earlier session was, too

uiVars == <<enabled, stopSending, uiPc, closing>>
channelVars == <<threadState, worker, queues, sent, status>>
inputVars == <<reader, readerRunning, inputNum, output, outputNum>>
historyVars == <<session, resetFailed, ownWritten, foreign>>
vars == <<build, single, uiVars, deviceOpen, channelVars, inputVars, historyVars>>

Buttons == {"open", "close", "start", "reset"}
Linux == build = "linux"
AllPaths == {"descriptor", "copy"}
Paths == IF Linux THEN AllPaths ELSE {"copy"}
NoBlocks == [p \in AllPaths |-> <<>>]
Status(state, n) == [threadState |-> state, sent |-> n]

Init ==
  /\ build \in {"linux", "windows"}
  /\ single \in BOOLEAN
  /\ enabled = {"open"}
  /\ stopSending = FALSE
  /\ uiPc = "idle" /\ closing = FALSE
  /\ deviceOpen = FALSE
  /\ threadState = "NotStarted" /\ worker = "none" /\ queues = NoBlocks /\ sent = 0
  /\ status = Status("NotStarted", 0)
  /\ reader = "none" /\ readerRunning = FALSE /\ inputNum = 0
  /\ output = "none" /\ outputNum = 0
  /\ session = 0 /\ resetFailed = FALSE /\ ownWritten = 0 /\ foreign = FALSE

-----------------------------------------------------------------------------
(* The reader and the output thread.                                       *)

\* On Windows the thread itself raises its flag.
ReaderBegins ==
  /\ reader = "starting" /\ reader' = "reading"
  /\ readerRunning' = TRUE
  /\ UNCHANGED <<build, single, uiVars, deviceOpen, channelVars, inputNum, output,
                 outputNum, historyVars>>

ReadBlock ==
  /\ reader = "reading"
  /\ inputNum < FileBlocks
  /\ inputNum' = inputNum + 1
  /\ UNCHANGED <<build, single, uiVars, deviceOpen, channelVars, reader, readerRunning,
                 output, outputNum, historyVars>>

\* The end of the list, or of what can be read.  Only on Windows does it show.
ReaderEnds ==
  /\ reader = "reading" /\ reader' = "ended"
  /\ single
  /\ readerRunning' = Linux
  /\ UNCHANGED <<build, single, uiVars, deviceOpen, channelVars, inputNum, output,
                 outputNum, historyVars>>

TakeBlock ==
  /\ output = "idle" /\ output' = "send"
  /\ outputNum < inputNum
  /\ outputNum' = outputNum + 1
  /\ UNCHANGED <<build, single, uiVars, deviceOpen, channelVars, reader, readerRunning,
                 inputNum, historyVars>>

Send ==
  /\ output = "send" /\ output' = "idle"
  /\ threadState = "Running"
  /\ \E p \in Paths : /\ Len(queues[p]) < QueueCapacity
                       /\ queues' = [queues EXCEPT ![p] = Append(@, session)]
  /\ UNCHANGED <<build, single, uiVars, deviceOpen, threadState, worker, sent, status,
                 reader, readerRunning, inputNum, outputNum, historyVars>>

\* InputData repeats a failed Send until sending is stopped.  A block that finds
\* no room as a descriptor is copied, so that it fails for want of room in the
\* copy queue alone.
GiveUp ==
  /\ output = "send" /\ output' = "idle"
  /\ stopSending
  /\ threadState # "Running" \/ Len(queues["copy"]) = QueueCapacity
  /\ UNCHANGED <<build, single, uiVars, deviceOpen, channelVars, reader, readerRunning,
                 inputNum, outputNum, historyVars>>

Input == ReaderBegins \/ ReadBlock \/ ReaderEnds \/ TakeBlock \/ Send \/ GiveUp

-----------------------------------------------------------------------------
(* The channel's threads.                                                  *)

\* The worker prefers descriptors.
NextPath == IF queues["descriptor"] # <<>> THEN "descriptor" ELSE "copy"
NextEntry == Head(queues[NextPath])

TakeEntry == /\ queues[NextPath] # <<>>
             /\ queues' = [queues EXCEPT ![NextPath] = Tail(@)]

WriteBlock ==
  /\ worker = "alive"
  /\ TakeEntry
  /\ sent' = sent + 1
  /\ status' = IF Linux THEN [status EXCEPT !.sent = sent + 1] ELSE status
  /\ IF NextEntry = session THEN ownWritten' = ownWritten + 1 /\ UNCHANGED foreign
                            ELSE foreign' = TRUE /\ UNCHANGED ownWritten
  /\ UNCHANGED <<build, single, uiVars, deviceOpen, threadState, worker, inputVars,
                 session, resetFailed>>

\* A failed write ends the worker; only the Linux channel says so.
WriteFails ==
  /\ worker = "alive" /\ worker' = "ended"
  /\ TakeEntry
  /\ IF Linux THEN /\ threadState' = "Error"
                   /\ status' = [status EXCEPT !.threadState = "Error"]
              ELSE UNCHANGED <<threadState, status>>
  /\ UNCHANGED <<build, single, uiVars, deviceOpen, sent, inputVars, historyVars>>

\* Mutant of PublishStatus: the monitor ends with the transfer, as it does on Linux.
PublishStatusWhileRunning ==
  /\ ~Linux
  /\ deviceOpen /\ threadState = "Running"
  /\ status' = Status(threadState, sent)
  /\ UNCHANGED <<build, single, uiVars, deviceOpen, threadState, worker, queues, sent,
                 inputVars, historyVars>>

\* MonitorThread, of the Windows channel.
PublishStatus ==
  /\ ~Linux
  /\ deviceOpen
  /\ status' = Status(threadState, sent)
  /\ UNCHANGED <<build, single, uiVars, deviceOpen, threadState, worker, queues, sent,
                 inputVars, historyVars>>

-----------------------------------------------------------------------------
(* The window.                                                             *)

Press(button) == uiPc = "idle" /\ button \in enabled

\* onOpenDevice: a new channel.  If it fails nothing changes.
OpenDevice ==
  /\ Press("open")
  /\ deviceOpen' = TRUE
  /\ threadState' = "NotStarted" /\ worker' = "none" /\ queues' = NoBlocks /\ sent' = 0
  /\ status' = Status("NotStarted", 0)
  /\ enabled' = {"close", "start", "reset"}
  /\ UNCHANGED <<build, single, stopSending, uiPc, closing, inputVars, historyVars>>

\* onSendModeChanged, possible while the device is closed.
ChooseMode ==
  /\ Press("open")
  /\ single' = ~single
  /\ UNCHANGED <<build, uiVars, deviceOpen, channelVars, inputVars, historyVars>>

\* Mutant of QueuesAfterReset: the channel's Reset leaves its queues alone.
QueuesAfterResetKept(ok) == queues

\* The channel's Stop empties the descriptor queue alone.
CopiesLeft == [queues EXCEPT !["descriptor"] = <<>>]

\* PcieFacade::Reset: when the device cannot be reset, the channel is not.
QueuesAfterReset(ok) == IF ok THEN NoBlocks ELSE queues
StatusAfterReset(ok) == IF ~ok THEN status
                        ELSE IF Linux THEN [status EXCEPT !.sent = 0]
                        ELSE Status(threadState, 0)

\* onReset
PressReset ==
  /\ Press("reset")
  /\ \E ok \in BOOLEAN : /\ queues' = QueuesAfterReset(ok)
                         /\ sent' = IF ok THEN 0 ELSE sent
                         /\ status' = StatusAfterReset(ok)
  /\ UNCHANGED <<build, single, uiVars, deviceOpen, threadState, worker, inputVars,
                 historyVars>>

\* onStartTransfer up to the start of the channel: the result of the reset is
\* not looked at.  The Windows channel's Start clears its count as well.
BeginSession(ok, state) ==
  /\ Press("start")
  /\ threadState \notin {"Running", "Error"}
  /\ session < MaxSessions /\ session' = session + 1
  /\ resetFailed' = ~ok
  /\ ownWritten' = 0 /\ foreign' = FALSE
  /\ stopSending' = FALSE
  /\ threadState' = state
  /\ sent' = IF ok \/ ~Linux THEN 0 ELSE sent
  /\ status' = IF Linux THEN [StatusAfterReset(ok) EXCEPT !.threadState = state]
                        ELSE StatusAfterReset(ok)
  /\ inputNum' = 0 /\ outputNum' = 0
  /\ UNCHANGED <<build, single, uiPc, closing, deviceOpen>>

\* The channel and the reader are started.
StartTransfer ==
  /\ \E ok \in BOOLEAN : /\ BeginSession(ok, "Running")
                         /\ queues' = QueuesAfterReset(ok)
  /\ worker' = "alive"
  /\ reader' = IF Linux THEN "reading" ELSE "starting"
  /\ readerRunning' = Linux
  /\ output' = "idle"
  /\ enabled' = enabled \ {"reset"}

\* The reader does not start, and the channel is stopped again; the buttons stay.
StartFails ==
  /\ \E ok \in BOOLEAN : /\ BeginSession(ok, "Stopped")
                         /\ queues' = IF ok THEN NoBlocks ELSE CopiesLeft
  /\ UNCHANGED <<enabled, worker, reader, readerRunning, output>>

\* The same button after a failed write on Linux: see DmaChannelLinux.
StartAfterError ==
  /\ Press("start")
  /\ threadState = "Error"
  /\ uiPc' = "terminated"
  /\ UNCHANGED <<build, single, enabled, stopSending, closing, deviceOpen, channelVars,
                 inputVars, historyVars>>

\* stopSendData begins.
BeginStop(close) ==
  /\ stopSending' = TRUE
  /\ uiPc' = "joinReader"
  /\ closing' = close
  /\ UNCHANGED <<build, single, deviceOpen, channelVars, inputVars, historyVars>>

StopTransfer ==
  /\ Press("start")
  /\ threadState = "Running"
  /\ enabled' = enabled \ {"start"}
  /\ BeginStop(FALSE)

CloseDevice ==
  /\ Press("close")
  /\ UNCHANGED enabled
  /\ BeginStop(TRUE)

\* The reader's Stop joins its threads; the output thread is between two blocks.
JoinReader ==
  /\ uiPc = "joinReader" /\ uiPc' = "joinWorker"
  /\ output \in {"none", "idle"} /\ output' = "none"
  /\ reader' = "none"
  /\ readerRunning' = FALSE
  /\ UNCHANGED <<build, single, enabled, stopSending, closing, deviceOpen, channelVars,
                 inputNum, outputNum, historyVars>>

\* The state Stop leaves: the Windows channel sets it only if it had a worker.
StateAfterStop == IF Linux \/ worker # "none" THEN "Stopped" ELSE threadState

\* The channel's Stop; after onCloseDevice the channel is gone.
JoinWorker ==
  /\ uiPc = "joinWorker" /\ uiPc' = "idle"
  /\ worker' = "none"
  /\ queues' = IF closing THEN NoBlocks ELSE CopiesLeft
  /\ threadState' = IF closing THEN "NotStarted" ELSE StateAfterStop
  /\ sent' = IF closing THEN 0 ELSE sent
  /\ status' = IF closing THEN Status("NotStarted", 0)
               ELSE IF Linux THEN [status EXCEPT !.threadState = "Stopped"] ELSE status
  /\ enabled' = IF closing THEN {"open"} ELSE enabled
  /\ deviceOpen' = ~closing
  /\ UNCHANGED <<build, single, stopSending, closing, inputVars, historyVars>>

SeesStop == stopSending /\ status.threadState = "Stopped"

\* onTimerUpdate after a stop: the buttons come back.
TimerOffersStart ==
  /\ uiPc = "idle" /\ deviceOpen
  /\ SeesStop
  /\ enabled' = enabled \union {"start", "reset"}
  /\ UNCHANGED <<build, single, stopSending, uiPc, closing, deviceOpen, channelVars,
                 inputVars, historyVars>>

\* Mutant of TransferIsOver: the reader may still be reading.
TransferIsOverWhileReading ==
  /\ single
  /\ status.threadState = "Running"
  /\ status.sent > 0
  /\ inputNum = status.sent

\* The condition of the automatic stop.
TransferIsOver ==
  /\ single
  /\ status.threadState = "Running"
  /\ ~readerRunning
  /\ status.sent > 0
  /\ inputNum = status.sent

\* onTimerUpdate in single mode: the transfer is stopped when it is over.
TimerStops ==
  /\ uiPc = "idle" /\ deviceOpen
  /\ TransferIsOver
  /\ UNCHANGED enabled
  /\ BeginStop(FALSE)

-----------------------------------------------------------------------------
User == \/ OpenDevice \/ ChooseMode \/ PressReset \/ StartTransfer \/ StartFails
        \/ StartAfterError \/ StopTransfer \/ CloseDevice
Stopping == JoinReader \/ JoinWorker
Timer == TimerOffersStart \/ TimerStops
Alive == uiPc # "terminated"

Next == Alive /\ (Input \/ WriteBlock \/ WriteFails \/ PublishStatus \/ User \/ Stopping \/ Timer)

\* Threads run and the timer fires; nothing is assumed of the user or of failures.
Fairness == /\ WF_vars(Alive /\ Input) /\ WF_vars(Alive /\ WriteBlock)
            /\ WF_vars(Alive /\ PublishStatus)
            /\ WF_vars(Alive /\ Stopping) /\ WF_vars(Alive /\ Timer)

Spec == Init /\ [][Next]_vars /\ Fairness

-----------------------------------------------------------------------------
(* Properties.                                                             *)

TypeOK ==
  /\ build \in {"linux", "windows"} /\ single \in BOOLEAN
  /\ enabled \subseteq Buttons
  /\ stopSending \in BOOLEAN /\ closing \in BOOLEAN /\ deviceOpen \in BOOLEAN
  /\ uiPc \in {"idle", "joinReader", "joinWorker", "terminated"}
  /\ threadState \in {"NotStarted", "Running", "Stopped", "Error"}
  /\ worker \in {"none", "alive", "ended"}
  /\ queues \in [AllPaths -> Seq(1 .. MaxSessions)]
  /\ \A p \in AllPaths : Len(queues[p]) <= QueueCapacity
  /\ sent \in Nat
  /\ status \in [threadState : {"NotStarted", "Running", "Stopped", "Error"}, sent : Nat]
  /\ reader \in {"none", "starting", "reading", "ended"} /\ readerRunning \in BOOLEAN
  /\ inputNum \in 0 .. FileBlocks /\ outputNum \in 0 .. inputNum
  /\ output \in {"none", "idle", "send"}
  /\ session \in 0 .. MaxSessions
  /\ resetFailed \in BOOLEAN /\ foreign \in BOOLEAN
  /\ ownWritten \in 0 .. FileBlocks

\* Transfers do not mix: a reset is offered only while neither the output thread
\* nor the worker may use the queues, whatever an outdated status says, and no
\* block left over from one transfer is written in another, unless the device's
\* reset failed, which onStartTransfer ignores.
SessionsApart ==
  /\ "reset" \in enabled /\ uiPc = "idle" => output = "none" /\ worker = "none"
  /\ foreign => resetFailed

\* The automatic stop cuts nothing off: when it comes every block read has been
\* written, though the status the timer compares with may be old.  A failed reset
\* can leave the count of the transfer before in it.
AutoStopIsLate ==
  [][TimerStops => resetFailed \/ (reader \in {"none", "ended"} /\ ownWritten = inputNum)]_vars

\* After a stop the start button comes back, or the device is closed.
ButtonComesBack ==
  (deviceOpen /\ "start" \notin enabled) ~> ("start" \in enabled \/ ~deviceOpen)

\* Not so on Linux, where the reader never counts as ended: a list that is sent
\* once is stopped by the timer when all of it has been sent.
AutoStops ==
  (/\ single /\ threadState = "Running" /\ ~foreign
   /\ reader = "ended" /\ ownWritten = FileBlocks) ~> threadState # "Running"
=============================================================================
