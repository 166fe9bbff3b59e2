----------------------------- MODULE AsyncLatch -----------------------------
(***************************************************************************)
(* AsyncLatch (sync/latch.hpp): a count that only falls.  Wait() reads it  *)
(* without mutex_ and, when it is not zero, again under mutex_; the        *)
(* CountDown() that finds it at zero takes all waiters under mutex_ and    *)
(* resumes them inline.                                                    *)
(***************************************************************************)
EXTENDS Coroutines

CONSTANTS
  LatchCount,    (* constructor argument                                    *)
  MaxStep        (* the largest n of CountDown(n)                           *)

ASSUME LatchAssumption == LatchCount \in Nat /\ MaxStep \in Nat

VARIABLES
  latch_count_,   (* AsyncLatch::count_                                     *)
  latch_waiters_  (* AsyncLatch::waiters_                                   *)

latchVars == <<latch_count_, latch_waiters_, pc, stack>>

(* "run" in user code   "wait?" await_ready returned false                  *)
(* "lwait" suspended    "open" past co_await Wait()                         *)
LatchInit == latch_count_ = LatchCount /\ latch_waiters_ = <<>>

(* WaitAwaitable::await_ready *)
LatchReady(c) ==
  /\ pc[c] = "run"
  /\ At(c, IF latch_count_ = 0 THEN "open" ELSE "wait?")
  /\ UNCHANGED <<latch_count_, latch_waiters_>>

Bug_LatchSuspend(c) ==  (* the count is not tested again *)
  /\ pc[c] = "wait?"
  /\ latch_waiters_' = Append(latch_waiters_, c)
  /\ Leave(c, "lwait")
  /\ UNCHANGED latch_count_

(* WaitAwaitable::await_suspend *)
LatchSuspend(c) ==
  /\ pc[c] = "wait?"
  /\ \/ latch_count_ = 0 /\ At(c, "open") /\ UNCHANGED latch_waiters_
     \/ /\ latch_count_ > 0
        /\ latch_waiters_' = Append(latch_waiters_, c)
        /\ Leave(c, "lwait")
  /\ UNCHANGED latch_count_

(* CountDown(n): a count below n becomes 0. *)
CountDown(c, n) ==
  LET left == IF latch_count_ >= n THEN latch_count_ - n ELSE 0 IN
  /\ pc[c] \in {"run", "open"}
  /\ latch_count_' = left
  /\ \/ /\ left = 0
        /\ WakeAll(c, latch_waiters_, pc[c])
        /\ latch_waiters_' = <<>>
     \/ left > 0 /\ UNCHANGED <<latch_waiters_, pc, stack>>

LatchResume(c) ==
  ResumeAt(c, LAMBDA w : "open") /\ UNCHANGED <<latch_count_, latch_waiters_>>

LatchYield(c) ==
  YieldAt(c, {"run", "open"}) /\ UNCHANGED <<latch_count_, latch_waiters_>>

LatchStep(c) ==
  \/ LatchReady(c) \/ LatchSuspend(c)
  \/ \E n \in 0 .. MaxStep : CountDown(c, n)
  \/ LatchResume(c) \/ LatchYield(c)

(* The steps a coroutine is sure to take. *)
LatchObliged(c) == LatchSuspend(c) \/ LatchResume(c)

=============================================================================
