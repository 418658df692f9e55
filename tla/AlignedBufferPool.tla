-------------------------- MODULE AlignedBufferPool --------------------------
(***************************************************************************)
(* AlignedBufferPool: a fixed number of I/O blocks.  Reader threads take   *)
(* one with Acquire, which blocks on a condition variable while there is   *)
(* none and the caller's stop flag is down; whoever is done with a block   *)
(* gives it back with Release.                                             *)
(*                                                                         *)
(* Blocks are interchangeable, so the module counts them.  Release, like   *)
(* the code, does not check that the block is out: who holds how many is   *)
(* for the users of the pool to say.  A thread found its condition false   *)
(* but not yet asleep still holds the mutex, which NotifyAll does not take.*)
(***************************************************************************)
EXTENDS Integers, FiniteSets

CONSTANTS PoolBlocks,  \* block_count given to Initialize
          PoolUsers    \* the threads that call Acquire

ASSUME PoolBlocksAssumption == PoolBlocks \in Nat \ {0}

VARIABLES freeBlocks,  \* number of entries of free_indices_
          poolWait     \* where each thread is in Acquire's wait

poolVars == <<freeBlocks, poolWait>>

PoolWaits == {"out", "checked", "asleep"}

PoolInit == /\ freeBlocks = PoolBlocks
            /\ poolWait = [t \in PoolUsers |-> "out"]

PoolMutexFree == \A t \in PoolUsers : poolWait[t] # "checked"

-----------------------------------------------------------------------------
(* Acquire(out, stop_flag) by thread t, whose stop flag reads stop.        *)

\* A block is free and there is no stop: take one, return true.
AcquireBlock(t, stop) ==
  /\ PoolMutexFree /\ poolWait[t] = "out"
  /\ ~stop
  /\ freeBlocks > 0
  /\ freeBlocks' = freeBlocks - 1
  /\ UNCHANGED poolWait

\* The stop flag is up: return false, even if a block is free.
AcquireStopped(t, stop) ==
  /\ PoolMutexFree /\ poolWait[t] = "out"
  /\ stop
  /\ UNCHANGED poolVars

\* Neither: evaluate the condition, then sleep and give up the mutex.
AcquireCheck(t, stop) ==
  /\ PoolMutexFree /\ poolWait[t] = "out"
  /\ ~stop
  /\ freeBlocks = 0
  /\ poolWait' = [poolWait EXCEPT ![t] = "checked"]
  /\ UNCHANGED freeBlocks

AcquireSleep(t) ==
  /\ poolWait[t] = "checked"
  /\ poolWait' = [poolWait EXCEPT ![t] = "asleep"]
  /\ UNCHANGED freeBlocks

-----------------------------------------------------------------------------
Asleep == {t \in PoolUsers : poolWait[t] = "asleep"}

\* notify_one wakes one sleeping thread if there is one.
WakeOne == IF Asleep = {}
             THEN UNCHANGED poolWait
             ELSE \E t \in Asleep : poolWait' = [poolWait EXCEPT ![t] = "out"]

\* Mutant of ReleaseBlock: nobody is notified.
ReleaseBlockSilently == /\ PoolMutexFree
                        /\ freeBlocks' = freeBlocks + 1
                        /\ UNCHANGED poolWait

ReleaseBlock == /\ PoolMutexFree
                /\ freeBlocks' = freeBlocks + 1
                /\ WakeOne

\* notify_all without the mutex: a thread about to sleep misses it.
NotifyAll ==
  /\ poolWait' = [t \in PoolUsers |-> IF t \in Asleep THEN "out" ELSE poolWait[t]]
  /\ UNCHANGED freeBlocks

\* Reset takes every block back, whoever holds it.
ResetPool ==
  /\ PoolMutexFree
  /\ freeBlocks' = PoolBlocks
  /\ poolWait' = [t \in PoolUsers |-> IF t \in Asleep THEN "out" ELSE poolWait[t]]
=============================================================================
