----------------------------- MODULE AsyncMutex -----------------------------
(***************************************************************************)
(* AsyncMutex (sync/mutex.hpp).  co_await Lock() is await_ready and, when  *)
(* that fails, await_suspend; co_await TryLock() decides in await_resume.  *)
(* Unlock() leaves locked_ TRUE when it pops a waiter: ownership passes to *)
(* a coroutine that is still suspended, and that Unlock() then resumes     *)
(* inline, on its own stack.                                               *)
(***************************************************************************)
EXTENDS Coroutines

VARIABLES
  locked_,         (* AsyncMutex::locked_                                   *)
  mutex_waiters_   (* AsyncMutex::waiters_                                  *)

mutex == <<locked_, mutex_waiters_>>
mutexVars == <<mutex, pc, stack>>

(* "run"   in user code, without a ScopedLock                               *)
(* "owner" in user code, with a ScopedLock                                  *)
(* "lock?" await_ready returned false     "mwait" await_suspend returned true *)

MutexInit == locked_ = FALSE /\ mutex_waiters_ = <<>>

TakeLock(c) ==
  /\ ~locked_
  /\ locked_' = TRUE
  /\ At(c, "owner")
  /\ UNCHANGED mutex_waiters_

(* LockAwaitable::await_ready *)
LockReady(c) ==
  /\ pc[c] = "run"
  /\ \/ TakeLock(c)
     \/ locked_ /\ At(c, "lock?") /\ UNCHANGED mutex

Bug_LockSuspend(c) ==  (* locked_ is not tested again *)
  /\ pc[c] = "lock?"
  /\ mutex_waiters_' = Append(mutex_waiters_, c)
  /\ Leave(c, "mwait")
  /\ UNCHANGED locked_

(* LockAwaitable::await_suspend *)
LockSuspend(c) ==
  /\ pc[c] = "lock?"
  /\ \/ TakeLock(c)
     \/ /\ locked_
        /\ mutex_waiters_' = Append(mutex_waiters_, c)
        /\ Leave(c, "mwait")
        /\ UNCHANGED locked_

(* TryLockAwaitable::await_resume; a nullopt result changes nothing. *)
TryLock(c) ==
  /\ pc[c] = "run"
  /\ TakeLock(c)

Bug_Unlock(c) ==  (* locked_ = false even when a waiter is woken *)
  /\ pc[c] = "owner"
  /\ locked_' = FALSE
  /\ \/ /\ mutex_waiters_ # <<>>
        /\ mutex_waiters_' = Tail(mutex_waiters_)
        /\ WakeAll(c, <<Head(mutex_waiters_)>>, "run")
     \/ mutex_waiters_ = <<>> /\ At(c, "run") /\ UNCHANGED mutex_waiters_

(* ~ScopedLock calls Unlock(): its critical section. *)
Unlock(c) ==
  /\ pc[c] = "owner"
  /\ \/ /\ mutex_waiters_ # <<>>
        /\ mutex_waiters_' = Tail(mutex_waiters_)
        /\ WakeAll(c, <<Head(mutex_waiters_)>>, "run")
        /\ UNCHANGED locked_
     \/ /\ mutex_waiters_ = <<>>
        /\ locked_' = FALSE
        /\ At(c, "run")
        /\ UNCHANGED mutex_waiters_

(* to_wake.resume(): await_resume makes the waiter's ScopedLock. *)
LockResume(c) == ResumeAt(c, LAMBDA w : "owner") /\ UNCHANGED mutex

LockYield(c) == YieldAt(c, {"run", "owner"}) /\ UNCHANGED mutex

MutexStep(c) ==
  \/ LockReady(c) \/ LockSuspend(c) \/ TryLock(c)
  \/ Unlock(c) \/ LockResume(c) \/ LockYield(c)

(* A started await_suspend or resume() runs to its end, and a ScopedLock is *)
(* eventually destroyed.  Nothing obliges a coroutine to lock or to yield.  *)
MutexObliged(c) == LockSuspend(c) \/ Unlock(c) \/ LockResume(c)

-----------------------------------------------------------------------------
(* Who has the mutex: a coroutine with a ScopedLock, or one that Unlock()   *)
(* has popped and not yet resumed.                                          *)
LockOwners == {c \in Coro : pc[c] = "owner" \/ (pc[c] = "mwait" /\ c \in Woken)}

(***************************************************************************)
(* Mutual exclusion, counting a popped waiter that is not yet resumed: at  *)
(* most one coroutine has the mutex, and nobody has it while locked_ is    *)
(* false (mutex.hpp:74-91 and the handoff at mutex.hpp:131-147).           *)
(***************************************************************************)
MutualExclusion ==
  /\ \A c, d \in LockOwners : c = d
  /\ locked_ <=> LockOwners # {}

LP == INSTANCE FifoPermits WITH free <- (IF locked_ THEN 0 ELSE 1),
                                owners <- LockOwners, queue <- mutex_waiters_,
                                permits <- 1, InitialCount <- 1,
                                MaxPermits <- 1

(***************************************************************************)
(* The mutex implements the FIFO pool of one permit: no Lock() or          *)
(* TryLock() overtakes a queued waiter, and Unlock() hands over to the one *)
(* that queued longest ("FIFO wakeup for waiting coroutines",              *)
(* mutex.hpp:11).                                                          *)
(***************************************************************************)
MutexRefinesFifo == LP!Spec

=============================================================================
