--------------------------- MODULE AsyncSemaphore ---------------------------
(***************************************************************************)
(* AsyncSemaphore (sync/semaphore.hpp).  co_await Acquire() runs           *)
(* await_ready and, when that fails, await_suspend: two critical sections  *)
(* of mutex_ with a gap between them.  Release() pops the first waiter     *)
(* under mutex_ and resumes it inline after unlocking.                     *)
(***************************************************************************)
EXTENDS Coroutines

CONSTANTS
  InitialCount,  (* constructor argument                                    *)
  MaxPermits     (* bound on the permits unguarded Release() calls create   *)

ASSUME SemaphoreAssumption == InitialCount \in Nat /\ MaxPermits \in Nat

VARIABLES
  count_,        (* AsyncSemaphore::count_                                  *)
  waiters_,      (* AsyncSemaphore::waiters_                                *)
  permits        (* history: InitialCount plus unguarded releases           *)

semaphore == <<count_, waiters_, permits>>
semVars == <<semaphore, pc, stack>>

(* "run"   in user code, without a Guard                                    *)
(* "hold"  in user code, with a Guard                                       *)
(* "check" await_ready returned false     "susp" await_suspend returned true *)

SemInit == count_ = InitialCount /\ waiters_ = <<>> /\ permits = InitialCount

TakePermit(c) ==
  /\ count_ > 0
  /\ count_' = count_ - 1
  /\ At(c, "hold")
  /\ UNCHANGED <<waiters_, permits>>

(* AcquireAwaitable::await_ready *)
AcquireReady(c) ==
  /\ pc[c] = "run"
  /\ \/ TakePermit(c)
     \/ count_ = 0 /\ At(c, "check") /\ UNCHANGED semaphore

(* AcquireAwaitable::await_suspend *)
AcquireSuspend(c) ==
  /\ pc[c] = "check"
  /\ \/ TakePermit(c)
     \/ /\ count_ = 0
        /\ waiters_' = Append(waiters_, c)
        /\ Leave(c, "susp")
        /\ UNCHANGED <<count_, permits>>

Bug_NoPop(c) ==  (* front() without pop_front() *)
  /\ waiters_ # <<>>
  /\ WakeAll(c, <<Head(waiters_)>>, "run")
  /\ UNCHANGED <<count_, waiters_>>

Bug_PopBack(c) ==  (* back() and pop_back() *)
  LET n == Len(waiters_) IN
  \/ /\ n > 0
     /\ WakeAll(c, <<waiters_[n]>>, "run")
     /\ waiters_' = SubSeq(waiters_, 1, n - 1)
     /\ UNCHANGED count_
  \/ n = 0 /\ count_' = count_ + 1 /\ At(c, "run") /\ UNCHANGED waiters_

(* The critical section of Release(). *)
PopOrCount(c) ==
  \/ /\ waiters_ # <<>>
     /\ waiters_' = Tail(waiters_)
     /\ WakeAll(c, <<Head(waiters_)>>, "run")
     /\ UNCHANGED count_
  \/ /\ waiters_ = <<>>
     /\ count_' = count_ + 1
     /\ At(c, "run")
     /\ UNCHANGED waiters_

(* ~Guard calls Release(). *)
GuardRelease(c) == pc[c] = "hold" /\ PopOrCount(c) /\ UNCHANGED permits

(* Release() is public: a coroutine may call it without a Guard. *)
UnguardedRelease(c) ==
  /\ pc[c] = "run" /\ permits < MaxPermits
  /\ PopOrCount(c)
  /\ permits' = permits + 1

(* to_wake.resume(): await_resume makes the waiter's Guard. *)
SemResume(c) == ResumeAt(c, LAMBDA w : "hold") /\ UNCHANGED semaphore

SemYield(c) == YieldAt(c, {"run", "hold"}) /\ UNCHANGED semaphore

SemStep(c) ==
  \/ AcquireReady(c) \/ AcquireSuspend(c)
  \/ GuardRelease(c) \/ UnguardedRelease(c) \/ SemResume(c) \/ SemYield(c)

(* The steps a coroutine is sure to take: a started await_suspend or        *)
(* resume() runs to its end, and a Guard is eventually destroyed.  Nothing  *)
(* obliges a coroutine to acquire or to yield.                              *)
SemObliged(c) == AcquireSuspend(c) \/ GuardRelease(c) \/ SemResume(c)

-----------------------------------------------------------------------------
(* The coroutines that have a permit, the popped waiters among them. *)
Owners == {c \in Coro : pc[c] = "hold" \/ (pc[c] = "susp" /\ c \in Woken)}

FP == INSTANCE FifoPermits WITH free <- count_, owners <- Owners,
                                queue <- waiters_

(***************************************************************************)
(* The semaphore implements the FIFO permit pool, in which permits are     *)
(* conserved and a permit is free only when nobody queues: in particular   *)
(* no await_ready overtakes a queued waiter and a released permit goes to  *)
(* the one that queued longest (docs/tutorials/10, "FIFO queue").          *)
(***************************************************************************)
SemaphoreRefinesFifo == FP!Spec

=============================================================================
