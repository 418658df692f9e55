# A TLA+ model of the PCIe data sender

The program reads data files block by block and sends them, in order and as fast
as the disk and the card allow, to an FPGA board through the XDMA driver. It is a
Qt application with a handful of threads, hand-made lock-free rings and several
condition variables. This directory holds TLA+ modules for its core, the TLC
configurations that check them on small instances, and theorems that the TLAPS
proof system has checked for every value of the constants. Paths below are
relative to `src/`.

The model of the channel is of the Linux build with the descriptor queue compiled in
(`DESCRIPTOR_QUEUE_MODE`, defined on the first line of `pcie/DmaChannelLinux.cpp`).
`IocpReader` and `DmaChannel` are of the Windows build, and `Session` is of both.

## The system

```
 files -> producer --tasks--> workers --ProcessData--> slot ring --InputData--> Send
             ^                  |  ^                                             |
        slot gate,              |  +------------ buffer pool <------------+      v
        pending limit           +-- Acquire                       Release |  descriptor queue
                                                                          |  or copy queue
 user interface: start, stop, reset                                       +--- DMA worker -> write()
```

| component | state | operations | how it meets the others |
|---|---|---|---|
| ordered data processor (`common/InOutputData/OrderedDataProcessor`) | slot ring with a flag per slot, next output slot, stop flag | `ProcessData`, output thread, `StartProcessing`, `StopProcessing`, `Reset` | readers call `ProcessData` from any thread; the output thread calls the listener, `MainWindow::InputData` |
| file reader, worker mode (`InputDataFromFileUsePOSIX`) | request counter, task queue, pending count, stop flag, threads | `Start`, producer, workers, `Stop`, `Reset` | reads `GetNextOutputSlot` without a lock, takes pool blocks, feeds the processor |
| file reader, streaming mode (same file) | the same, without queue and workers | `StreamingReadLoop` | one thread numbers, reads and feeds |
| buffer pool (`common/utils/AlignedBufferPool`) | free list, condition variable | `Acquire`, `Release`, `NotifyAll`, `Reset`, `Shutdown` | blocks travel reader -> slot -> descriptor -> device -> pool |
| DMA channel (`pcie/DmaChannelLinux`) | thread state, stop flag, two queues | `Start`, `Stop`, `Send`, worker, `Reset` | `Send` on the output thread, `Start`/`Stop` on the user interface's |
| descriptor queue (`pcie/SPSCDescriptorQueue`) | ring, two free-running indices | `PutDescriptor`, `GetDescriptor`, `Reset` | `Send` and DMA worker, no lock |
| copy queue (`pcie/SPSCMemoryQueue`) | byte ring, 32-bit indices | `PutFixedLength`, `Get`, ... | the same two threads |
| window (`src/mainwindow`) | enabled buttons, stop flag, send mode, chosen source, pool reference | open, close, start/stop and reset buttons, timer, `InputData` | owner of everything above; reads the published status |
| facade and device (`pcie/PcieFacade`, `pcie/PcieDeviceLinux`) | file descriptors, the channel | open, close, reset, registers | forwards to the channel |
| memory source (`InputDataFromMemory`) | request counter, pool, mode of the processor | `Start`, producer, `Stop`, `Reset` | feeds the processor without a gate; only the pool holds it back |
| shared-memory source, ring and producer program (`InputDataFromSHM`, `common/utils/ShmRing`, `tools/shm_producer.cpp`) | head, tail and slots in memory shared by two processes | acquire and commit, peek and advance | the consumer thread feeds the processor; each process may die and come back |
| IOCP reader (`InputDataFromFileUseIOCP`) | overlapped reads, completion port, counters local to one thread | initial requests, batches of completions, resubmission, drain | the same gate and processor; the kernel completes reads in any order |
| Windows channel (`pcie/DmaChannel`) | thread state, stop flag, copy queue, published status | `Start`, `Stop` with `CancelIoEx`, `Send`, worker, monitor thread | as the Linux channel, without descriptors |
| `PreadFileDataProvider` | queue of blocks | `GetNextBlock`, reader thread, `Shutdown` | has no caller |

What makes it correct, component by component:

* processor: blocks reach the listener in request order, exactly once, whatever
  order reads end in; no two threads are in one slot; a block that can be
  delivered is.
* reader: it keeps the processor's side of that bargain (the gate), never has
  more than the limit of reads out, loses no task at a natural end, does not
  starve its workers of buffers, and stops when asked to.
* pool: a block is in one place at a time and always comes back.
* channel: accepted blocks are written, in order on each path; stopping leaves
  nothing behind; errors do not end the program.
* descriptor and copy queue: FIFOs, with no lock, across the wrap of their indices;
  the copy queue as large as the user asked for.
* memory source: order and buffers, though nothing but the pool holds it back.
* shared memory: what was committed is taken in order and whole, whichever process
  dies.
* IOCP reader: its buffers and `OVERLAPPED` structures outlive its reads.
* window: transfers do not mix, none is stopped early, and the buttons come back.

What is hard: five kinds of threads that share rings without locks; condition
variables notified without their mutex; a stop at any point; failing reads and
writes; buffers whose ownership crosses four components. `PROJECT.json` lists
each such hazard at its line with the properties that watch it.

## Modules

| module | models | in terms of the code |
|---|---|---|
| `OrderedDelivery` | abstract: what the processor promises | blocks accepted in any order, delivered in order and once |
| `OrderedDataProcessor` | the processor's state and one action per step of its code | `ProcessData` is two steps (block, flag), the output thread five, `StopProcessing` two (flag, join) |
| `OrderedRead` | the protocol of the file readers over the processor | claim a number, gate, read, `ProcessData`, fail; start, stop, reset |
| `AlignedBufferPool` | the pool with its condition variable | a count of free blocks and where each caller is in the wait |
| `PosixReader` | the whole reader in worker mode, with pool, device and owner | producer, workers, output thread, device, owner as program counters |
| `StreamingReader` | the whole reader in streaming mode | the loop as one program counter, its own buffer, output thread, device, owner |
| `DmaChannelLinux` | sender, worker and owner of the channel | two queues, the listener's retry loop, both paths of the worker, start and stop |
| `DmaChannel` | sender, worker and owner of the Windows channel | one queue, the notification without the mutex, `CancelIoEx` |
| `BoundedFifo`, `ByteFifo` | abstract: what the descriptor and the copy queue promise | put, get, clear |
| `SPSCDescriptorQueue` | the descriptor ring | one action per access to shared memory |
| `SPSCMemoryQueue`, `CopyQueueConstants` | the byte ring, and its parameters | one action per load of the other index, `memcpy` and store of the own index |
| `QueueSizing` | from the megabytes typed to the size of the byte ring | `onOpenDevice` and `next_power_of_two` in words of a given width; a word is the set of the places of its ones, so that `&` and `>>` are operations on sets |
| `MemorySource` | the memory source with pool, processor, channel and window | the producer as a program counter, the mode of the processor, a crash through its null pointer |
| `ShmRing`, `ShmSource` | the ring; the consumer thread and the producer program on it | one action per store a crash can come after |
| `IocpReader` | the IOCP reader with kernel, processor and window | reads in flight, in the port, in the batch; the loop as a program counter |
| `SourceConstants` | parameters the sources share | |
| `Session` | the window, the facade, and what the window sees of reader and channel | one action per button, two per stop, the timer, the monitor thread |
| `OrderedRead_proofs`, `PosixReader_proofs`, `StreamingReader_proofs`, `MemorySource_proofs`, `DmaChannelLinux_proofs`, `SPSCDescriptorQueue_proofs` | theorems about the module of the name | |
| `MCChannel_proofs`, `MCWindow_proofs` | theorems about the modules these two put together: copy queue and Windows channel; IOCP reader, shared memory and session | |
| `MCOrderedRead`, `MCPosixReader`, `MCStreamingReader`, `MCChannel`, `MCWindow` | instances for TLC | |

Composition: `OrderedRead` and the modules of all sources extend
`OrderedDataProcessor`; the POSIX readers and `MemorySource` also extend
`AlignedBufferPool`. The three file readers are shown to implement `OrderedRead`,
which is shown to implement `OrderedDelivery`, so the order of delivery carries
over from the protocol to the readers; `MemorySource`, which has no gate, is shown
to implement `OrderedDelivery` itself. `SPSCDescriptorQueue` is shown to implement
`BoundedFifo` and `SPSCMemoryQueue` to implement `ByteFifo`; the channels use their
queues as bounded FIFOs, which these results justify. What the processor has still
to take from the shared-memory ring is a `BoundedFifo` as well, across two
processes. `Session` has reader, output thread and worker in it only as far as the
window sees them: their inside, and their hangs, are the other modules'.

`MCChannel` and `MCWindow` each put several modules into one run. The modules
share no state: a variable says which of them is exercised and the rest stays in
its initial state, so that the states of the run are the sum, not the product, of
theirs. Where the initial state of a module leaves a choice it is fixed in the
behaviours that do not exercise it.

Conventions: a variable has the name of the field it models; `...Pc` variables
say where a thread is in its function; variables declared as history (`delivered`,
`accepted`, `written`, `readFailed`, `taken`, `missed`, `foreign` and the like) are
read by no guard of a component. A definition
whose comment begins with "Mutant of" is a plausible bug in the definition that
follows it; no specification uses it. `PROJECT.json` pairs each property with a
mutant it catches and maps every modelled definition to its source lines.

Abstractions that matter:

* A block is its request number; lengths, file names and contents are left out.
  The copying mode of the processor (no external buffer) differs from the
  external mode only in where bytes live and has no states of its own.
* Shared accesses are sequentially consistent. The rings' release/acquire pairs
  give that for the slot flag and the queue indices. The gate's relaxed load of
  the next output slot may return an older value than the model's; that keeps a
  request at the gate longer, or lets it pass when the output thread has moved
  on; both are outcomes the model has at another moment, since the output
  thread may be delayed at any step.
* A condition variable's wait is split into the evaluation of the predicate and
  the sleep. A notify that holds the mutex cannot fall between the two, one that
  does not can. Spurious wakeups are left out: they could only hide a lost one.
* Pool blocks are counted, not named. Which thread holds how many follows from
  the program counters.
* Failures of thread creation and of memory allocation are left out, and so are
  `O_DIRECT` fallback, prefetch, diagnostics and CPU affinity. A listener that throws is in `OrderedRead` only: `InputData` does not.
* In the readers' modules the device takes blocks and gives them back; in
  `DmaChannelLinux` the input hands over blocks. Each is the other's environment,
  and neither model lets the device fail while the other side's progress is
  claimed.
* In `DmaChannelLinux` a copied block is written in one piece and completely. The
  code writes it in pieces of the DMA size and does not look at short writes.
* In `SPSCMemoryQueue` a `memcpy` is one step. The other side never looks at the bytes
  it moves before its index is stored: that is what `NoSharedByte` says.
* In `ShmSource` an index and a payload are each written in one step; the death of a
  process comes between steps. Head and tail are 64-bit counters and do not wrap.
* In `MemorySource` and `IocpReader` what follows undefined behaviour (a null
  pointer, memory freed under the kernel) is not modelled: the process stops there
  and the properties say so.
* In `Session` there is a queue per path of the channel (on Windows only the copy
  queue is used), and an entry is the session its block belongs to. In
  `DmaChannelLinux` the histories `accepted` and `written` are kept per path, as the
  order is promised per path. On Linux the status the window reads is up to date, since `GetStatus` and the threads write
  one structure; on Windows it is the copy the monitor thread makes once a second.
* `StartAfterError` ends the model's process: the assignment to a joinable
  `std::thread` calls `std::terminate`.

## What TLC checks

| run | bounds | checks |
|---|---|---|
| `ordered_read` | ring of 3 slots, 7 requests | type and window invariant (order included), no refused block and no shared slot, refinement of `OrderedDelivery`, stalls that last, progress of delivery |
| `posix_reader` | ring of 3, 3 blocks, 2 workers, limit 2, 4 requests, device holds 1 | types and limits, blocks conserved, pending count exact, natural end complete, refinement of `OrderedRead`, buffers come, everything read is delivered |
| `posix_gate` | the same, 2 requests | **violated**: the producer leaves the gate |
| `posix_stop` | the same, 2 requests | **violated**: a stop completes |
| `streaming_reader` | ring of 3, 3 blocks, 6 requests, device holds 2 | types, blocks conserved, own buffer used once, refinement of `OrderedRead`, a stop completes |
| `streaming_buffer` | the same | **violated**: the listener is given live memory |
| `dma_channel` | Linux channel: 2 descriptors, 2 copied blocks, pool of 4, 6 blocks; Windows channel: 2 copied blocks, 6 blocks; descriptor ring of 3 with 2 values and 3 laps to the wrap; byte ring of 3 with 2 values, calls of up to 3 bytes and 2 rounds to the wrap; sizes in words of 8 bits | types and capacities, blocks conserved, order on each path, clean stop, accepted blocks are written; the same order and progress for Windows; no shared slot or byte, refinement of `BoundedFifo` and `ByteFifo`; the size asked for |
| `dma_restart` | Linux channel, 2 blocks | **violated**: the button never ends the program |
| `window` | sources: ring of 3, pool of 3, device holds 3, 6 requests, 2 reads in flight; shared ring of 2 slots, 2 payloads, 5 items; session: list of 3 blocks, 2 entries in each queue, 2 transfers, both builds, both send modes | types; memory source: blocks conserved, refinement of `OrderedDelivery`, ends only at a full ring, a stop completes; shared memory: refinement of `BoundedFifo`; IOCP: memory outlives reads, refinement of `OrderedRead`, a stop completes; session: transfers apart, no early automatic stop, the button comes back |
| `memory_fallback` | memory source as above | **violated**: the fall-back to copying has memory |
| `shm_delivery` | shared-memory source, 3 slots | **violated**: what was taken is consumed |
| `auto_stop` | session, 1 transfer | **violated**: a list sent once is stopped when it is sent |

Why the bounds are enough. Seven requests go round a ring of three twice, so
every slot is reused and requests a lap apart meet; a session may also be
stopped and started again. In the reader four requests wrap the ring of three
while two workers compete for tasks and buffers, the limit of two is reached,
and a device that keeps one block forces the pool to run dry; the pool is as
large as the ring, as in the code (both are `MAX_DISORDER_GROUPS *
io_request_num`). In the channel the pool is larger than the descriptor queue, so
the copying path and a full copy queue both occur. In the descriptor queue
the indices wrap at nine in place of 2^64, after a whole number of laps as in the
code, where capacities are powers of two; in the copy queue at six in place of 2^32,
and calls as long as the ring cut it at every place, with two pieces and with one.
Words of 8 bits and megabytes of 2 leave room for every case of the sizing: sizes
that are and are not powers of two, products that wrap and roundings that wrap. Six requests
take the memory source twice round its ring, and its pool, as large as the
ring, runs dry when the device keeps what it has. Two reads in flight
complete in either order and in one batch or two; three slots for them are enough
for the gate to close, and files end, fail to open and loop. A shared ring of two is
full and empty many times in five items, with either process dying at any step. Two
transfers are what is needed for one to leave something to the next: a block, a
count, an old status, a raised flag; with three blocks both paths of the channel are
in use while a queue of two fills.

All runs but `ordered_read` switch TLC's deadlock check off, because the modelled
system can really come to rest: the readers' hangs at the gate and in the stop are
states in which nobody moves, the channels' stops can hang in the same way, a
terminated or crashed process takes no step, and the sizing of a queue has nothing
to do after it.

Fairness. Threads that can run do (weak fairness of each thread's next step):
the operating system schedules them, the output thread and the gate poll with a
sleep of a millisecond, and no step of a thread waits for a particular choice of
another. The device is assumed to finish its writes. Nothing is assumed of the
user, who need not start or stop anything, so progress is claimed up to a stop.
For the two runs that look for hangs the producer, and an owner who has begun to
stop, are fair as well, so that what they find is not a thread that was merely
never scheduled. `MemorySource` and `IocpReader` assume the same of their threads
and of an owner who has begun to stop; a device writes what it holds until
it fails, which it need not, and the kernel completes every read, while the
completion port may but need not fail. `ShmSource` assumes that either process, as
long as it lives, and the loop of the producer program go on; nothing of the user,
of restarts or of crashes. `DmaChannel` assumes the sender and the worker,
`Session` the threads, the monitor, the timer and a stop in progress.

### Findings

1. The producer can wait at the slot gate for ever
   (`common/InOutputData/InputDataFromFileUsePOSIX.cpp:513`). The gate keeps a
   request back while its slot is the next to be output. It means "the ring is
   full", but holds also when the ring is empty: the output thread then waits for
   the very request the gate holds back. A first block read and delivered before
   the second is numbered is enough. The gate is exactly what makes the ring
   safe (see the proofs); what it lacks is the test of whether the slot is
   occupied. The streaming and the IOCP reader have the same gate. `StallsStay`
   shows the other side of it, and is proved: from there on nothing can happen but
   the user's stop.
2. A stop can hang (`InputDataFromFileUsePOSIX.cpp:350`): the stop flag is stored
   and the condition variables are notified without their mutexes, so a thread
   between its predicate and its sleep is never woken. `DmaChannelLinux::Stop`
   (line 214) does the same; `Send`, which passes through the mutex before it
   notifies, does not, and the run `dma_channel` shows that no wakeup is lost there.
   In streaming mode the notification can be missed as well, yet a stop completes
   (`StopCompletes` in `streaming_reader`): the one waiter waits for a pool block,
   and with a block for every slot one is always on its way back. That the threads
   which miss the notification never wake is proved for the file reader and for
   the channel (`MissedStopIsForGood`).
3. After a stop the listener can be given freed memory
   (`InputDataFromFileUsePOSIX.cpp:815`). When the stop makes `Acquire` refuse, the
   streaming loop reads into a buffer of its own, puts its address in a slot, and
   frees it as it returns; the output thread runs until the loop has been joined,
   and may deliver the slot afterwards. The design notes know pool buffers only.
   `OwnBufferUsedOnce` shows the damage is limited to one block: the buffer is never
   written twice.
4. After a failed device write the start button ends the program
   (`pcie/DmaChannelLinux.cpp:94`).
5. A stop can crash the memory source (`common/InOutputData/InputDataFromMemory.cpp:236`).
   `Acquire` fails only because of a stop; the producer takes that for a missing
   pool, switches the processor to copying and copies to memory that was never
   allocated.
6. Nothing that comes through shared memory is ever sent
   (`common/InOutputData/InputDataFromSHM.cpp:49`): the source does not start the
   processor's output thread, although its comments count on it.
7. On Linux a transfer in single mode never stops by itself
   (`src/mainwindow.cpp:728`): the timer waits until the reader no longer runs, and
   the POSIX reader runs until it is stopped.

Some behaviour that is wrong, or doubtful, but that no document speaks about is not
a finding; the property concerned names it as an exception:

* A read that fails leaves its slot empty, and the output thread waits there until
  the session ends; later blocks are read and never sent (`StallsStay`).
* The IOCP reader hangs a stop in two ways (`StopCompletes` of `IocpReader`): at the
  gate, where its one thread cannot process the completion the gate waits for; and
  in the drain, when a stop or an error left the loop in the middle of a batch and
  the rest of the batch was not counted. If its first requests fail half way, it
  frees buffers under the kernel.
* The Windows `Send` can lose the wakeup of the worker (`Delivers` of `DmaChannel`):
  the block then waits for the next `Send`, the last block of a transfer for the stop.
* Nobody looks at whether the device could be reset (`SessionsApart`,
  `AutoStopIsLate`): if not, blocks of one transfer are sent in the next, and on
  Windows the count of the one before can stop the next early.
* The memory source ends for good when it laps its ring (`EndsOnlyAtFullRing`).
* More than 2048 MB of copy queue wrap to fewer, or to none (`SizedAsAsked`).

## What is proved

`OrderedRead_proofs`, for every ring size and any number of requests, from the
assumptions that the ring has at least one slot, that the bound on requests is a
natural number and that the mark of an empty slot is not a number:

* `Invariance`: the invariant `IInv`. Order and exclusiveness are not inductive:
  they depend on the gate, which compares slot numbers only. `IInv` adds the
  window: the output thread has emptied `Emptied` slots and is at slot
  `Emptied mod TotalSlots`; every request past the gate lies in the window of
  `TotalSlots` requests from there on, so that no two share a slot; a filled slot
  holds the one request of the window that maps to it. The gate is what keeps
  the window from growing: the request at its end is let pass only once its slot
  is no longer the next to be emptied. After a stop the bound on claimed numbers
  no longer matters, because nothing passes the gate.
* `TypeCorrect`, `DeliveredInOrder`, `NeverRefused`, `SlotsExclusive`: what
  follows from it.
* `Refinement`: the protocol implements `OrderedDelivery`.
* `StalledForGood`: what stalls the delivery stalls it until a stop. When the output
  thread has caught up with the request at the gate (`CaughtUp`), everything delivered
  is everything numbered but that one, so nothing is in flight, the slot to be emptied
  next is the gate's own, and every thread waits: that follows from the window. And a
  number given out that is neither in flight nor accepted (`Lost`: its read failed) is
  never read again, since a claim gives out new numbers only.

`StreamingReader_proofs`, for every ring size, any number of blocks in the pool
and at the device (a pool has at least one) and any number of requests, from the
assumption that the loop is the pool's only caller that waits:

* `FollowsProtocol`: the reader implements the protocol of `OrderedRead`, the
  gate being the loop's place `"gate"` and the request in its hands the protocol's
  one read in flight. The simulation needs only where the threads can be while
  the owner is at each of its steps (`CtlInv`).
* `WindowHolds`, `DeliveredInOrder`: the invariant of `OrderedRead_proofs`,
  instantiated with the reader's state, holds of the reader; order and exactly
  once delivery follow without a second proof.
* `DeliversEachOnce`, `SlotsExclusive`, `StalledForGood`: so do the other theorems
  about the protocol. The first composes two refinements: the reader implements the
  protocol, the protocol implements `OrderedDelivery`, therefore the reader does.
* `BuffersConserved`, `OwnBufferOnce`: the buffers. `BlocksConserved` is not
  inductive alone: that filling a slot adds a block to the count, and emptying one
  removes it, needs that the slot was empty, which is the window's doing, and that
  the loop's own buffer is in the slot of the last request alone.
* `TypeCorrect`: types, the bound on the free blocks included.

`SPSCDescriptorQueue_proofs`, for every set of descriptors, every capacity and
every range of the indices that is a multiple of it (at least two laps):

* `Invariance`: the size computed from the wrapped indices stays within the
  capacity, and what a side saw before it entered the ring (room or data) still
  holds when it leaves.
* `SlotsApart`: the two sides are never at one slot.
* `Refinement`: the ring implements `BoundedFifo`. The consumer counts an item as
  taken when it copies it, before it stores its index.

`MCChannel_proofs` (copy queue), for every set of bytes, every size of the ring, every
range of the indices that is a multiple of it (at least two rounds) and every length of
the calls:

* `SidesStayApart`: the bytes a `Put` has claimed and those a `Get` has claimed are
  disjoint, also when both run over the end of the ring.
* `CopyQueueIsFifo`: the ring implements `ByteFifo`: what one call puts appears at
  once, whole and as given; a call gets the oldest bytes in their order; a reset
  clears.

  Both follow from `ByteInv`: what is queued and what is claimed together fit the
  ring, and every byte a side has copied so far is at its place. That the second
  half survives the other side's steps is what the claims are for: a write lands only
  on places less than a lap beyond the get index and past all that is queued
  (`WriteElsewhere`). `PutAppends`, `GetRemoves` and `TwoPieces` say what moving an
  index and cutting a copy at the end of the ring do to the content.
* `CopyQueueSized`, for every width of a word that is a power of two and every size of a
  megabyte: the queue has the smallest power of two of bytes that holds what was
  typed, if a word can hold one. `x & (x - 1)` finds the powers of two
  (`RecognisedIsPower`), and the shifts of `next_power_of_two` fill every place below
  the top one, because after the shift by `2^(i-1)` the `2^i` places from the top are
  ones. `LargerComesOutEmpty`: beyond that the rounding wraps to zero, so that the bound
  in `SizedAsAsked` is exact.
* `SizesFitTheRing`: a size that comes out of this goes two or more whole times into the
  range of an index, and `index & (size - 1)` is the remainder by the size. That is what
  the model of the byte ring takes for granted where it counts modulo `Size`, and what
  its assumption about the index range asks for, so the two halves of `Init` and of the
  ring fit together.
* `WindowsKeepsOrder`: the Windows channel writes the first blocks `Send` accepted in
  the session, in order, each once. While the worker lives, written, fetched and queued
  are all that was accepted (`WinNumbers`); after a failed or cancelled write only the
  block in the DMA buffer is missing. This is the safety half of `Delivers`.

`PosixReader_proofs`, for every number of workers, limit, ring, pool and device:

* `FollowsProtocol`: producer, task queue, workers, pool and output thread implement the
  protocol of `OrderedRead`: a request is the protocol's read in flight from the
  moment the producer passes the gate, through the queue, until its worker has
  stored the block. The simulation needs that a request is in one place only
  (`PlaceInv`: the queue ascends, no worker has what is queued, no two have the same).
* `WindowHolds`, `DeliveredInOrder`, `SlotsExclusive`, `StalledForGood`,
  `DeliversEachOnce`: what is proved of the protocol carried over, the refinement of
  `OrderedDelivery` included.
* `MissedStopIsForGood`: a worker asleep when `Stop` joins, the producer being gone,
  sleeps for ever; so does a producer asleep in the capacity wait with no task pending.
  The hang of the run `posix_stop` is therefore no matter of scheduling or of its bounds.
  For the producer it takes the exact pending count: no task pending means that no
  worker has one, so none will notify.
* `BuffersConserved`: as for the streaming reader, with the workers' blocks counted as
  the cardinality of a set of threads.
* `PendingIsCounted`: `pending_tasks_` is the length of the queue plus the busy
  workers. It is inductive only together with its bound, which the producer's check
  before it queues a task keeps.
* `EndsComplete`: at a natural end without a failed read nothing numbered is missing.
  The invariant says that every number given out is in the queue, with a worker or in
  the processor, and that the producer raises the stop flag only at a count of zero.
* `TypeCorrect`.

`DmaChannelLinux_proofs`, for every capacity of the queues, pool and number of blocks:
`ChannelTypeCorrect`, `ChannelConservesBlocks`, `ChannelKeepsPathsInOrder`,
`ChannelStopsClean`, `MissedStopIsForGood` (a worker asleep when `Stop` joins stays so:
the only other thread that notifies is gone by then), and `AcceptedIsNotLost`: while the worker lives, what a path
accepted is what it wrote, has in hand and has queued, in this order. `AcceptedIsNotLost` is
the strengthening the order needs: that what is written is a prefix of what was
accepted is kept by a write only because the block in hand is the next.

`MemorySource_proofs`, for every ring and every pool no larger than it (`PoolFitsRing`:
`Init` asks for `MAX_DISORDER_GROUPS * io_request_num` blocks and the ring has as many
slots, or more when the number of requests is zero):

* `Refinement`: it implements `OrderedDelivery` without a gate. One producer submits in
  order, so the ring always holds a run of consecutive numbers that starts at the first
  slot not yet cleared (`Run`, `Place`); a block that would lap it meets a filled slot
  and is refused.
* `EndsAtFullRing`: that refusal happens only while the output thread stands between
  giving a buffer back and clearing its slot. Here the pool's size matters: at any
  other moment a lapping block would have to hold one buffer more than there are.
* `BuffersConserved`, `TypeCorrect`.

`MCWindow_proofs`, for every size of the rings, pools, queues, file lists and numbers of
requests, items and transfers (`SessionAssumption`: a list has a number of blocks, a
queue room for one at least):

* `IocpReadsInOrder`: the IOCP reader implements the protocol of `OrderedRead`; a read
  is in the kernel, in the port or in the batch, and in one of them only.
* `KeepsReadMemory`: pool and `OVERLAPPED` structures go only when no read is under
  way. The count `active_requests` is exact in the loop and, once a break has dropped
  completions it still counts, never too small; the drain waits for it to reach zero,
  so it may wait for ever but does not return early. If not all first requests could
  be issued there is no drain, and the property excepts it.
* `IocpDeliversEachOnce`: so the IOCP reader implements `OrderedDelivery` as well and never
  finds a slot occupied, by the theorems about the protocol.
* `IocpHangsForGood`: the two hangs that `StopCompletes` of `IocpReader` excepts are hangs.
  Shut in at the gate, the one thread that could fill the slot the output thread waits for
  is the thread that waits; and a count above the reads that are left never falls to zero.
* `ShmRingIsFifo`: the ring in shared memory implements `BoundedFifo`, whichever process
  dies at whichever store: a slot taken and not given back stays as it was.
* `TransfersStayApart`: the reset button is offered only while neither output thread nor
  worker lives, and blocks of two transfers mix only after a device reset that failed.
* `TimerCutsNothingOff`: a transfer the timer stops has been written to the end.
  `BlocksInv` is needed for both: each queue holds a rest that earlier sessions left,
  empty unless a reset failed, and then blocks of this one; and what this session has
  written, queued and in hand is no more than the output thread gave. `SentInv` adds
  that the published count is late but never ahead.
* `PartsTypeCorrect`: the types of all these modules.

The proofs rest on lemmas about remainders (uniqueness, periods, distinctness within a
lap), about sequences (what appending, taking the head and concatenating keep) and, for
the counts, about cardinalities, stated first in each module. The invariants the proofs
use hold for all values of the constants; the runs check the properties that follow
from them, and the mutants show that these can fail.

Only model-checked:

* Every progress property (`DeliveryProgress`, `BufferComes`, `EndIsDelivered`, the
  `StopCompletes`, `AcceptedIsWritten`, the second half of `WindowsDelivers`,
  `ButtonComesBack`): liveness under fairness is outside what the proof system handles,
  and so is `ENABLED`.

Every safety property and action property a passing run checks is a theorem. No
induction theorem of the library is used for the arithmetic of words: where a proof needs
induction it forms the set of the numbers that have the property and takes the least
number outside it (`NatLessThanWellFounded`, `WFMin`), which states the same for one set
and no operator parameter. Of the runs that find a violation, what is proved is that the hangs they end in last.

The type invariants of the descriptor queue, `TypeOK` and `IInv`, of the memory source
and of the Windows channel, and `InOrder` of `OrderedRead`, are proved for all
parameters; no run repeats them on their own.

## Not modelled, and the plan

What is left to model is little, and nothing two threads meet in:

* `DmaChannelAsync`: compiled only with `DMA_ASYNC`, which no build file sets.
* `PreadFileDataProvider`, `OverlappedQueue`: no caller in the program, so there is
  no interaction to model.
* `AlignedBufferPool::Shutdown`: only the destructor calls it, when no thread is left.
* Settings, the editing of the file list, hardware synchronisation, and the start at
  program start (single-shot timers that press the buttons `Session` models).
* Short writes of the device: a block is written in one piece, and nothing says what
  a short write means.
* The virtual memory buffer (allocation and locking), the scanner (directory
  listing), logger, CPU affinity, widgets, scripts and the other tools: input and
  output or display, with no state a property is about.
* The vendored libraries (`spdlog`, `json_struct`) and the build output, which make up
  most of the lines of the repository.

What could still be proved: the progress properties, with a prover that handles
fairness; and that the channels, which use their queues as bounded FIFOs, keep their
order with the rings themselves in their place, which `Refinement` of the descriptor
queue and `CopyQueueIsFifo` imply but no module composes.
