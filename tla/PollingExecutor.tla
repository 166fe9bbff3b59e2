-------------------------- MODULE PollingExecutor --------------------------
(***************************************************************************)
(* PollingExecutor (io/polling_executor.cpp): the loop polls the user's    *)
(* CompletionSource, the timer heap and the queues in turn and never       *)
(* blocks for long: the idle strategies spin or sleep for a bounded time   *)
(* and change nothing.  `armed` is the timer heap and what the source is   *)
(* working on, `due` the timers that have expired.                         *)
(***************************************************************************)
EXTENDS EventLoop

CONSTANT BatchSize    (* options_.batch_size                                *)

ASSUME PollingAssumption == BatchSize \in Nat \ {0}

VARIABLE completed    (* what source_ has to report, in order               *)

pollVars == <<loopVars, completed>>

PSchedule(t, i) ==
  /\ i \in Handles /\ Push(t, i)
  /\ ready_queue_' = Append(ready_queue_, i)
  /\ UNCHANGED <<callback_queue_, timer_queue_, armed, completed>>

(* timer_heap_.push *)
PScheduleAfter(t, i) ==
  /\ i \in Delayed /\ Push(t, i)
  /\ armed' = armed \union {i}
  /\ UNCHANGED <<queues, completed>>

PPost(t, i) ==
  /\ i \in Callbacks /\ Push(t, i)
  /\ callback_queue_' = Append(callback_queue_, i)
  /\ UNCHANGED <<ready_queue_, timer_queue_, armed, completed>>

(* A coroutine starts an operation with the CompletionSource. *)
PStartIo(i) ==
  /\ i \in Io /\ Fresh(i) /\ CanCall(Loop)
  /\ given' = given \union {i} /\ armed' = armed \union {i}
  /\ UNCHANGED <<queues, due, stop_requested_, wake, upc, loop, ran, completed>>

(* The CompletionSource finishes it. *)
PComplete(i) ==
  /\ i \in armed
  /\ armed' = armed \ {i} /\ completed' = Append(completed, i)
  /\ UNCHANGED <<queues, due, stop_requested_, wake, upc, loop, given, ran>>

PStop(t) ==
  /\ CanCall(t)
  /\ stop_requested_' = TRUE
  /\ upc' = [upc EXCEPT ![t] = "wake"]
  /\ UNCHANGED <<queues, armed, due, wake, loop, given, ran, completed>>

(* Run() forgets a Stop() that came before it. *)
PRun ==
  /\ lpc = "out"
  /\ lpc' = "test" /\ once' = FALSE /\ stop_requested_' = FALSE
  /\ UNCHANGED <<queues, armed, due, wake, upc, batch, copies, arming, cur, given,
                 ran, completed>>

PRunOnce ==
  /\ lpc = "out"
  /\ lpc' = "poll" /\ once' = TRUE
  /\ UNCHANGED <<queues, armed, due, stop_requested_, wake, upc, batch, copies,
                 arming, cur, given, ran, completed>>

PTest ==
  /\ Goto("test", IF stop_requested_ THEN "out" ELSE "poll")
  /\ UNCHANGED completed

(* source_->Poll(): at most batch_size completions. *)
PPoll ==
  LET n == IF Len(completed) < BatchSize THEN Len(completed) ELSE BatchSize
  IN /\ Between("poll")
     /\ batch' = SubSeq(completed, 1, n)
     /\ completed' = SubSeq(completed, n + 1, Len(completed))
     /\ lpc' = "timers"
     /\ UNCHANGED <<queues, armed, due, stop_requested_, wake, upc, once, copies,
                    arming, cur, given, ran>>

Bug_PTimers ==  (* expired timers stay in the heap *)
  /\ Between("timers")
  /\ batch' = due
  /\ lpc' = "ready"
  /\ UNCHANGED <<due, queues, armed, stop_requested_, wake, upc, once, copies,
                 arming, cur, given, ran, completed>>

(* ProcessTimers() *)
PTimers ==
  /\ Between("timers")
  /\ batch' = due /\ due' = <<>>
  /\ lpc' = "ready"
  /\ UNCHANGED <<queues, armed, stop_requested_, wake, upc, once, copies, arming,
                 cur, given, ran, completed>>

(* ProcessReadyQueue() *)
PReady == Between("ready") /\ SwapQueues("drain") /\ UNCHANGED completed

(* read(eventfd_) and the idle strategy *)
PDrain ==
  /\ Between("drain")
  /\ wake' = FALSE
  /\ lpc' = IF once THEN "out" ELSE "test"
  /\ UNCHANGED <<queues, armed, due, stop_requested_, upc, once, batch, copies,
                 arming, cur, given, ran, completed>>

(* The destructor closes the file descriptors; what is queued is dropped. *)
PDestroy ==
  /\ \A t \in Thread : upc[t] = "idle"
  /\ Goto("out", "dead") /\ UNCHANGED completed

PollingCall(t) ==
  \/ \E i \in Handles \union Delayed \union Callbacks :
       PSchedule(t, i) \/ PScheduleAfter(t, i) \/ PPost(t, i)
  \/ PStop(t)

PollingLoop == PTest \/ PPoll \/ PTimers \/ PReady \/ PDrain

PollingNext ==
  \/ \E t \in Thread : PollingCall(t)
  \/ \E i \in Io : PStartIo(i) \/ PComplete(i)
  \/ PRun \/ PRunOnce \/ PDestroy \/ PollingLoop

=============================================================================
