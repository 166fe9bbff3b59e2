--------------------------- MODULE SyncPrimitives ---------------------------
(***************************************************************************)
(* AsyncMutex, AsyncSemaphore, AsyncRWLock and AsyncLatch under one roof:  *)
(* a behaviour exercises one of them, and what is required of every        *)
(* primitive that suspends coroutines and resumes them inline is stated    *)
(* once.                                                                   *)
(***************************************************************************)
EXTENDS AsyncMutex, AsyncSemaphore, AsyncRWLock, AsyncLatch

VARIABLE subject   (* the primitive the coroutines of this behaviour use    *)

vars == <<subject, mutexVars, semVars, rwVars, latchVars>>

Init ==
  /\ subject \in {"mutex", "semaphore", "rwlock", "latch"}
  /\ pc = [c \in Coro |-> "run"] /\ StackInit
  /\ MutexInit /\ SemInit /\ RWInit /\ LatchInit

Mutex(c) ==
  /\ subject = "mutex" /\ MutexStep(c)
  /\ UNCHANGED <<subject, semaphore, lock, passed, latch_count_, latch_waiters_>>

Semaphore(c) ==
  /\ subject = "semaphore" /\ SemStep(c)
  /\ UNCHANGED <<subject, mutex, lock, passed, latch_count_, latch_waiters_>>

RWLock(c) ==
  /\ subject = "rwlock" /\ RWStep(c)
  /\ UNCHANGED <<subject, mutex, semaphore, latch_count_, latch_waiters_>>

Latch(c) ==
  /\ subject = "latch" /\ LatchStep(c)
  /\ UNCHANGED <<subject, mutex, semaphore, lock, passed>>

Next == \E c \in Coro : Mutex(c) \/ Semaphore(c) \/ RWLock(c) \/ Latch(c)

(* A coroutine takes the steps it is obliged to, and one that was resumed   *)
(* inline by a lock or a latch at last suspends or ends.                    *)
Fairness ==
  \A c \in Coro : /\ WF_mutexVars(subject = "mutex" /\ MutexObliged(c))
                  /\ WF_semVars(subject = "semaphore" /\ SemObliged(c))
                  /\ WF_rwVars(subject = "rwlock" /\ RWObliged(c))
                  /\ WF_latchVars(subject = "latch" /\ LatchObliged(c))
                  /\ SF_rwVars(subject = "rwlock" /\ RWYield(c))
                  /\ SF_latchVars(subject = "latch" /\ LatchYield(c))

Spec == Init /\ [][Next]_vars
FairSpec == Spec /\ Fairness

-----------------------------------------------------------------------------
(***************************************************************************)
(* No handle is resumed while its coroutine runs, none is resumed twice    *)
(* and none is dropped: each suspended coroutine is in exactly one place,  *)
(* a waiters list or the local to_wake of one Release(), unlock or         *)
(* CountDown() (mutex.hpp:131, semaphore.hpp:101, rwlock.hpp:188,          *)
(* latch.hpp:71).                                                          *)
(***************************************************************************)
HandlesValid ==
  InOnePlace(mutex_waiters_ \o waiters_ \o read_waiters_ \o write_waiters_
               \o latch_waiters_,
             {c \in Coro : pc[c] \in {"mwait", "susp", "rwait", "wwait", "lwait"}})

(***************************************************************************)
(* No lost wakeup between await_ready and await_suspend: a coroutine is    *)
(* queued for a mutex only while it is locked, for a permit only while     *)
(* there is none, as a reader only while a writer has the lock or waits    *)
(* for it, as a writer only while somebody has the lock, and at a latch    *)
(* only while its count is not zero.                                       *)
(***************************************************************************)
WaitersJustified ==
  /\ mutex_waiters_ # <<>> => locked_
  /\ waiters_ # <<>> => count_ = 0
  /\ read_waiters_ # <<>> => write_locked_ \/ write_waiters_ # <<>>
  /\ write_waiters_ # <<>> => write_locked_ \/ reader_count_ > 0
  /\ latch_waiters_ # <<>> => latch_count_ > 0

(***************************************************************************)
(* Every suspended Lock(), Acquire(), ReadLock() and WriteLock() is        *)
(* eventually granted, and every Wait() of a latch that reaches zero       *)
(* returns.                                                                *)
(***************************************************************************)
WaitersServed ==
  \A c \in Coro :
    pc[c] \in {"mwait", "susp", "rwait", "wwait"}
        \/ (pc[c] = "lwait" /\ latch_count_ = 0)
      ~> pc[c] \in {"owner", "hold", "read", "write", "open"}

=============================================================================
