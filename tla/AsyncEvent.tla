----------------------------- MODULE AsyncEvent -----------------------------
(***************************************************************************)
(* AsyncEvent (sync/event.hpp): a flag coroutines wait for.  Set() takes   *)
(* all waiters under mutex_ and resumes them inline, one after the other,  *)
(* after unlocking; a Reset(), or another Set(), may come in between.      *)
(* The operations take the label the caller goes on at, so that TaskGroup  *)
(* can use them; the specification below is the event by itself.           *)
(***************************************************************************)
EXTENDS Coroutines

VARIABLES
  signaled_,
  waiters_

event == <<signaled_, waiters_>>
vars == <<event, pc, stack>>

(* "run"   in user code                                                     *)
(* "wait?" await_ready returned false       "susp"  suspended in Wait()     *)
EventInit(set) == signaled_ = set /\ waiters_ = <<>> /\ StackInit

(* WaitAwaitable::await_ready *)
WaitReady(c, passed) ==
  At(c, IF signaled_ THEN passed ELSE "wait?") /\ UNCHANGED event

Bug_WaitSuspend(c, passed) ==  (* signaled_ is not tested again *)
  /\ pc[c] = "wait?"
  /\ waiters_' = Append(waiters_, c)
  /\ Leave(c, "susp")
  /\ UNCHANGED signaled_

(* WaitAwaitable::await_suspend *)
WaitSuspend(c, passed) ==
  /\ pc[c] = "wait?"
  /\ \/ signaled_ /\ At(c, passed) /\ UNCHANGED waiters_
     \/ /\ ~signaled_
        /\ waiters_' = Append(waiters_, c)
        /\ Leave(c, "susp")
  /\ UNCHANGED signaled_

Bug_Set(c, next) ==  (* waiters_ are copied, not moved *)
  /\ signaled_' = TRUE
  /\ IF signaled_ THEN At(c, next) ELSE WakeAll(c, waiters_, next)
  /\ UNCHANGED waiters_

(* Set(); the caller goes on at `next`. *)
Set(c, next) ==
  /\ signaled_' = TRUE
  /\ \/ signaled_ /\ At(c, next) /\ UNCHANGED waiters_
     \/ ~signaled_ /\ WakeAll(c, waiters_, next) /\ waiters_' = <<>>

Reset(c, next) == signaled_' = FALSE /\ At(c, next) /\ UNCHANGED waiters_

(* resume() of the next handle, which goes on at `passed`. *)
Resume(c, passed) == ResumeAt(c, LAMBDA w : passed) /\ UNCHANGED event

Yield(c, here) == YieldAt(c, {here}) /\ UNCHANGED event

-----------------------------------------------------------------------------
Wait(c) == pc[c] = "run" /\ WaitReady(c, "run")
Suspend(c) == WaitSuspend(c, "run")
CallSet(c) == pc[c] = "run" /\ Set(c, "run")
CallReset(c) == pc[c] = "run" /\ Reset(c, "run")
ResumeNext(c) == Resume(c, "run")

EventStep(c) ==
  \/ Wait(c) \/ Suspend(c) \/ CallSet(c) \/ CallReset(c)
  \/ ResumeNext(c) \/ Yield(c, "run")

-----------------------------------------------------------------------------
(***************************************************************************)
(* Whoever uses the event, each suspended coroutine is in exactly one      *)
(* place, once: waiters_ or the to_wake of one Set() (event.hpp:80-95);    *)
(* and nobody is listed while the event is set.                            *)
(***************************************************************************)
HandlesValid ==
  /\ InOnePlace(waiters_, {c \in Coro : pc[c] = "susp"})
  /\ signaled_ => waiters_ = <<>>

=============================================================================
