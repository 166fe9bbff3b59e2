-------------------------- MODULE IoUringExecutor --------------------------
(***************************************************************************)
(* IoUringExecutor (io/iouring_executor.cpp).  `armed` is what the kernel  *)
(* has, `due` the completion queue.  The loop blocks until there is a      *)
(* completion; other threads wake it through a read of the eventfd that    *)
(* it keeps in the ring and renews each time it completes.  A full         *)
(* submission queue makes a timer fire at once, and the renewal fail.      *)
(***************************************************************************)
EXTENDS EventLoop

CONSTANTS
  QueueDepth,    (* config_.queue_depth: entries of the submission queue    *)
  Wakeup         (* wakeup_ctx_                                             *)

ASSUME IoUringAssumption ==
  /\ QueueDepth \in Nat \ {0}
  /\ Wakeup \notin Handles \union Callbacks \union Delayed \union Io

VARIABLES
  sq,                (* submission queue entries not yet submitted          *)
  pending_timeouts_,
  unarmed            (* history: SubmitWakeupRead() found the queue full    *)

uring == <<sq, pending_timeouts_, unarmed>>
uringVars == <<loopVars, uring>>

USchedule(t, i) ==
  /\ i \in Handles /\ Push(t, i)
  /\ ready_queue_' = Append(ready_queue_, i)
  /\ UNCHANGED <<callback_queue_, timer_queue_, armed, uring>>

UScheduleAfter(t, i) ==
  /\ i \in Delayed /\ Push(t, i)
  /\ timer_queue_' = Append(timer_queue_, i)
  /\ UNCHANGED <<ready_queue_, callback_queue_, armed, uring>>

UPost(t, i) ==
  /\ i \in Callbacks /\ Push(t, i)
  /\ callback_queue_' = Append(callback_queue_, i)
  /\ UNCHANGED <<ready_queue_, timer_queue_, armed, uring>>

Bug_UStop(t) ==  (* the loop is not woken *)
  /\ CanCall(t)
  /\ stop_requested_' = TRUE
  /\ UNCHANGED <<queues, armed, due, wake, upc, loop, given, ran, uring>>

UStop(t) ==
  /\ CanCall(t)
  /\ stop_requested_' = TRUE
  /\ upc' = [upc EXCEPT ![t] = "wake"]
  /\ UNCHANGED <<queues, armed, due, wake, loop, given, ran, uring>>

(* await_suspend of an operation (io/iouring_async_ops.hpp): with a free    *)
(* entry it is prepared and, except for IoUringRecvProvided, submitted with   *)
(* whatever else is in the queue.                                           *)
UStartIo(i, submit) ==
  /\ i \in Io /\ Fresh(i) /\ CanCall(Loop) /\ Len(sq) < QueueDepth
  /\ given' = given \union {i}
  /\ \/ /\ submit
        /\ armed' = armed \union {i} \union ToSet(sq) /\ sq' = <<>>
     \/ ~submit /\ sq' = Append(sq, i) /\ UNCHANGED armed
  /\ UNCHANGED <<queues, due, stop_requested_, wake, upc, loop, ran,
                 pending_timeouts_, unarmed>>

URun ==
  /\ lpc = "out"
  /\ lpc' = "test" /\ once' = FALSE /\ stop_requested_' = FALSE
  /\ UNCHANGED <<queues, armed, due, wake, upc, batch, copies, arming, cur, given,
                 ran, uring>>

URunOnce ==
  /\ lpc = "out"
  /\ lpc' = "submit" /\ once' = TRUE
  /\ UNCHANGED <<queues, armed, due, stop_requested_, wake, upc, batch, copies, arming,
                 cur, given, ran, uring>>

UTest == Goto("test", IF stop_requested_ THEN "out" ELSE "submit") /\ UNCHANGED uring

(* io_uring_submit, or the first half of io_uring_submit_and_wait *)
USubmit ==
  /\ Between("submit")
  /\ armed' = armed \union ToSet(sq) /\ sq' = <<>>
  /\ lpc' = IF once THEN "cqe" ELSE "blocked"
  /\ UNCHANGED <<queues, due, stop_requested_, wake, upc, once, batch, copies, arming,
                 cur, given, ran, pending_timeouts_, unarmed>>

(* The wait ends with a completion. *)
UWait == due # <<>> /\ Goto("blocked", "cqe") /\ UNCHANGED uring

(* The wait is interrupted by a signal (EINTR), or fails for good. *)
UInterrupted ==
  /\ due = <<>>
  /\ Goto("blocked", "test") \/ Goto("blocked", "out")
  /\ UNCHANGED uring

UComplete(i) == Complete(i) /\ UNCHANGED uring

(* The kernel's read of the eventfd completes once somebody has written. *)
CompleteWakeup ==
  /\ Wakeup \in armed /\ wake
  /\ wake' = FALSE
  /\ armed' = armed \ {Wakeup} /\ due' = Append(due, Wakeup)
  /\ UNCHANGED <<queues, stop_requested_, upc, loop, given, ran, uring>>

Bug_SubmitWakeupRead ==  (* the read is not renewed *)
  UNCHANGED <<sq, unarmed>>

SubmitWakeupRead ==
  \/ Len(sq) < QueueDepth /\ sq' = Append(sq, Wakeup) /\ UNCHANGED unarmed
  \/ Len(sq) = QueueDepth /\ unarmed' = TRUE /\ UNCHANGED sq

Bug_UCompletion(i) ==  (* pending_timeouts_ keeps the context *)
  batch' = <<i>> /\ UNCHANGED uring

(* A timeout, whose context is erased and deleted, or an operation, whose   *)
(* result is stored in the coroutine's frame: resume.                       *)
UCompletion(i) ==
  /\ batch' = <<i>>
  /\ pending_timeouts_' = pending_timeouts_ \ {i}
  /\ UNCHANGED <<sq, unarmed>>

(* ProcessCompletions() *)
UCqe ==
  \/ due = <<>> /\ Goto("cqe", "ready") /\ UNCHANGED uring
  \/ /\ Between("cqe") /\ due # <<>>
     /\ due' = Tail(due)
     /\ \/ /\ Head(due) = Wakeup
           /\ SubmitWakeupRead /\ UNCHANGED <<batch, pending_timeouts_>>
        \/ Head(due) # Wakeup /\ UCompletion(Head(due))
     /\ UNCHANGED <<queues, armed, stop_requested_, wake, upc, lpc, once, copies,
                    arming, cur, given, ran>>

UReady == Between("ready") /\ SwapQueues("arm") /\ UNCHANGED uring

(* ProcessReadyQueue(): each request becomes a timeout entry or, when the   *)
(* submission queue is full, is resumed at once.                            *)
UArm ==
  /\ Between("arm") /\ arming # <<>>
  /\ arming' = Tail(arming)
  /\ \/ /\ Len(sq) < QueueDepth
        /\ sq' = Append(sq, Head(arming))
        /\ pending_timeouts_' = pending_timeouts_ \union {Head(arming)}
        /\ UNCHANGED batch
     \/ Len(sq) = QueueDepth /\ batch' = <<Head(arming)>> /\ UNCHANGED <<sq, pending_timeouts_>>
  /\ UNCHANGED <<queues, armed, due, stop_requested_, wake, upc, lpc, once, copies,
                 cur, given, ran, unarmed>>

UArmed ==
  arming = <<>> /\ Goto("arm", IF once THEN "out" ELSE "test") /\ UNCHANGED uring

(* The destructor drains the completion queue and deletes the timeouts.     *)
UDestroy ==
  /\ \A t \in Thread : upc[t] = "idle"
  /\ lpc = "out" /\ lpc' = "dead"
  /\ due' = <<>> /\ pending_timeouts_' = {}
  /\ armed' = {} /\ sq' = <<>>
  /\ UNCHANGED <<queues, stop_requested_, wake, upc, once, batch, copies, arming, cur,
                 given, ran, unarmed>>

IoUringCall(t) ==
  \/ \E i \in Handles \union Delayed \union Callbacks :
       USchedule(t, i) \/ UScheduleAfter(t, i) \/ UPost(t, i)
  \/ UStop(t)

IoUringLoop == UTest \/ USubmit \/ UWait \/ UCqe \/ UReady \/ UArm \/ UArmed

IoUringNext ==
  \/ \E t \in Thread : IoUringCall(t)
  \/ \E i \in Io : UComplete(i) \/ \E submit \in BOOLEAN : UStartIo(i, submit)
  \/ URun \/ URunOnce \/ UDestroy \/ UInterrupted \/ CompleteWakeup \/ IoUringLoop

=============================================================================
