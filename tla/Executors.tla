----------------------------- MODULE Executors -----------------------------
(***************************************************************************)
(* The three event loops against what any Executor promises.  A behaviour  *)
(* is one of them.                                                         *)
(***************************************************************************)
EXTENDS PollingExecutor, LibuvExecutor, IoUringExecutor

VARIABLE kind      (* "polling", "libuv" or "uring"                         *)

vars == <<kind, loopVars, completed, idle_active_, uring>>

(* The io_uring constructor puts the wakeup read into the ring. *)
Init ==
  /\ kind \in {"polling", "libuv", "uring"}
  /\ LoopInit
  /\ armed = IF kind = "uring" THEN {Wakeup} ELSE {}
  /\ completed = <<>> /\ idle_active_ = FALSE
  /\ sq = <<>> /\ pending_timeouts_ = {} /\ unarmed = FALSE

(* What the loops have in common. *)
Common ==
  /\ \/ \E t \in Thread : WakeUp(t)
     \/ \E i \in Delayed : Complete(i)
     \/ StartItem \/ EndItem
  /\ UNCHANGED <<completed, idle_active_, uring>>

Next ==
  /\ \/ Common
     \/ kind = "polling" /\ PollingNext /\ UNCHANGED <<idle_active_, uring>>
     \/ kind = "libuv" /\ LibuvNext /\ UNCHANGED <<completed, uring>>
     \/ kind = "uring" /\ IoUringNext /\ UNCHANGED <<completed, idle_active_>>
  /\ UNCHANGED kind

(* The loop thread keeps running, what it runs at last returns however      *)
(* often it calls the executor, a call is completed, every timer expires    *)
(* and every operation completes.                                           *)
Fairness ==
  /\ WF_loopVars(StartItem) /\ SF_loopVars(EndItem)
  /\ WF_pollVars(kind = "polling" /\ PollingLoop)
  /\ WF_uvVars(kind = "libuv" /\ LibuvLoop)
  /\ WF_uringVars(kind = "uring" /\ IoUringLoop)
  /\ WF_uringVars(CompleteWakeup)
  /\ \A t \in Thread : WF_loopVars(WakeUp(t))
  /\ \A i \in Delayed : WF_loopVars(Complete(i))
  /\ \A i \in Io : /\ WF_pollVars(kind = "polling" /\ PComplete(i))
                   /\ WF_uringVars(kind = "uring" /\ UComplete(i))

Spec == Init /\ [][Next]_vars
FairSpec == Spec /\ Fairness

-----------------------------------------------------------------------------
Queued == ready_queue_ \o callback_queue_ \o timer_queue_

(* A destroyed executor has dropped what was waiting. *)
Live(s) == IF lpc = "dead" THEN <<>> ELSE s

(* Timers and operations not yet resumed, and the wakeup read. *)
Waiting == armed \union ToSet(due) \union ToSet(sq) \union ToSet(completed)
             \union ToSet(timer_queue_) \union ToSet(arming) \union ToSet(batch)

FE == INSTANCE FifoExecutor WITH
  Waits <- Delayed \union Io,
  handles <- Live(ready \o ready_queue_),
  callbacks <- Live(callbacks \o callback_queue_),
  waits <- IF lpc = "dead" THEN {}
           ELSE Waiting \intersect (Delayed \union Io)

(***************************************************************************)
(* Every executor keeps the interface's promise: what is scheduled from    *)
(* any thread, or by what the loop is running, is never lost or run twice, *)
(* and handles and callbacks run in the order they were given, although    *)
(* the queues are swapped while others push (ProcessReadyQueue).           *)
(***************************************************************************)
RefinesFifoExecutor == FE!Spec

(***************************************************************************)
(* No lost wakeup: while the loop is blocked with work queued, or (for     *)
(* io_uring) a Stop() made, the wakeup is on its way, and for io_uring the *)
(* ring still has the read that will see it, unless renewing that read     *)
(* failed for want of a submission entry (SubmitWakeupRead()).             *)
(***************************************************************************)
NoLostWakeup ==
  lpc = "blocked" /\ ~unarmed =>
    /\ Queued # <<>> \/ (stop_requested_ /\ kind = "uring")
         => wake \/ due # <<>> \/ \E t \in Thread : upc[t] = "wake"
    /\ kind = "uring" => Wakeup \in armed \union ToSet(due)

(***************************************************************************)
(* The destructor frees pending_timeouts_ and nothing else: these are      *)
(* exactly the timeouts the ring still has (iouring_executor.cpp:83-87).   *)
(***************************************************************************)
TimeoutsTracked ==
  kind = "uring" =>
    pending_timeouts_ = (armed \union ToSet(due) \union ToSet(sq)) \intersect Delayed

(***************************************************************************)
(* While Run() goes on, whatever was given to the executor is run.         *)
(***************************************************************************)
ItemsServed ==
  \A i \in Handles \union Callbacks \union Delayed \union Io :
    i \in given ~> i \in ran \/ lpc \in {"out", "closing", "dead"} \/ unarmed

(***************************************************************************)
(* "Run the event loop until Stop() is called" (executor.hpp:58): a loop   *)
(* that is told to stop while it runs leaves Run(), except a uv loop told  *)
(* so by another thread while it is blocked.                               *)
(***************************************************************************)
StopEndsRun ==
  stop_requested_ /\ lpc \notin {"out", "closing", "dead"}
    /\ ~(kind = "libuv" /\ lpc = "blocked") ~> lpc = "out" \/ unarmed

=============================================================================
