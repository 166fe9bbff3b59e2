--------------------------- MODULE LibuvExecutor ---------------------------
(***************************************************************************)
(* LibuvExecutor (io/libuv_executor.cpp) on a uv loop: an iteration runs   *)
(* the expired timers, the idle handle (when started) and then polls,      *)
(* blocking only when there is neither a stop flag, nor an active idle     *)
(* handle, nor an expired timer.  The async handle's callback starts the   *)
(* idle handle, and that one's callback empties the queues.                *)
(***************************************************************************)
EXTENDS EventLoop

VARIABLE idle_active_

uvVars == <<loopVars, idle_active_>>

LSchedule(t, i) ==
  /\ i \in Handles /\ Push(t, i)
  /\ ready_queue_' = Append(ready_queue_, i)
  /\ UNCHANGED <<callback_queue_, timer_queue_, armed, idle_active_>>

LScheduleAfter(t, i) ==
  /\ i \in Delayed /\ Push(t, i)
  /\ timer_queue_' = Append(timer_queue_, i)
  /\ UNCHANGED <<ready_queue_, callback_queue_, armed, idle_active_>>

LPost(t, i) ==
  /\ i \in Callbacks /\ Push(t, i)
  /\ callback_queue_' = Append(callback_queue_, i)
  /\ UNCHANGED <<ready_queue_, timer_queue_, armed, idle_active_>>

(* uv_stop() sets the loop's flag and wakes nobody. *)
LStop(t) ==
  /\ CanCall(t)
  /\ stop_requested_' = TRUE
  /\ UNCHANGED <<queues, armed, due, wake, upc, loop, given, ran, idle_active_>>

(* Run(): uv_run(UV_RUN_DEFAULT).  RunOnce(): uv_run(UV_RUN_NOWAIT). *)
LRun(nowait) ==
  /\ lpc = "out"
  /\ lpc' = "test" /\ once' = nowait
  /\ UNCHANGED <<queues, armed, due, stop_requested_, wake, upc, batch, copies,
                 arming, cur, given, ran, idle_active_>>

(* uv_run returns: it clears the stop flag. *)
LReturn ==
  /\ lpc' = "out" /\ stop_requested_' = FALSE
  /\ UNCHANGED <<queues, armed, due, wake, upc, once, batch, copies, arming, cur, given,
                 ran, idle_active_>>

LTest ==
  \/ stop_requested_ /\ Between("test") /\ LReturn
  \/ ~stop_requested_ /\ Goto("test", "timers") /\ UNCHANGED idle_active_

(* OnTimer() of the expired timers, each of which is then closed; also in   *)
(* the destructor, which runs the loop until no handle is left.             *)
LTimers ==
  /\ Between("timers") \/ Between("closing")
  /\ lpc = "closing" => due # <<>>
  /\ batch' = due /\ due' = <<>>
  /\ lpc' = IF lpc = "timers" THEN "idle" ELSE "closing"
  /\ UNCHANGED <<queues, armed, stop_requested_, wake, upc, once, copies, arming, cur,
                 given, ran, idle_active_>>

(* OnIdle(): ProcessReadyQueue() *)
LIdle ==
  /\ \/ idle_active_ /\ Between("idle") /\ SwapQueues("arm")
     \/ ~idle_active_ /\ Goto("idle", "poll")
  /\ UNCHANGED idle_active_

(* ProcessReadyQueue(): each request becomes a timer or, when uv_timer_init *)
(* fails, is resumed at once.                                               *)
LArm ==
  /\ Between("arm") /\ arming # <<>>
  /\ arming' = Tail(arming)
  /\ \/ armed' = armed \union {Head(arming)} /\ UNCHANGED batch
     \/ batch' = <<Head(arming)>> /\ UNCHANGED armed
  /\ UNCHANGED <<queues, due, stop_requested_, wake, upc, lpc, once, copies, cur, given,
                 ran, idle_active_>>

(* OnIdle(): the idle handle is stopped if, under the mutex, all queues are *)
(* empty.                                                                   *)
LIdleEnd ==
  /\ arming = <<>> /\ Goto("arm", "poll")
  /\ idle_active_' = (ready_queue_ \o callback_queue_ \o timer_queue_ # <<>>)

LPoll ==
  /\ Goto("poll", IF idle_active_ \/ stop_requested_ \/ once \/ due # <<>>
                  THEN "async" ELSE "blocked")
  /\ UNCHANGED idle_active_

LUnblock ==
  /\ wake \/ due # <<>>
  /\ Goto("blocked", "async") /\ UNCHANGED idle_active_

Bug_LAsync ==  (* the idle handle is not started *)
  /\ Between("async")
  /\ wake' = FALSE
  /\ lpc' = IF once THEN "out" ELSE "test"
  /\ stop_requested_' = (stop_requested_ /\ ~once)
  /\ UNCHANGED <<queues, armed, due, upc, once, batch, copies, arming,
                 cur, given, ran, idle_active_>>

(* OnAsync(), if anything was sent, and the end of the iteration. *)
LAsync ==
  /\ Between("async")
  /\ wake' = FALSE
  /\ idle_active_' = (idle_active_ \/ wake)
  /\ lpc' = IF once THEN "out" ELSE "test"
  /\ stop_requested_' = (stop_requested_ /\ ~once)
  /\ UNCHANGED <<queues, armed, due, upc, once, batch, copies, arming, cur, given, ran>>

(* The destructor closes async_ and idle_ and runs the loop while timers    *)
(* are left.                                                                *)
LDestroy ==
  /\ \A t \in Thread : upc[t] = "idle"
  /\ Goto("out", "closing") /\ UNCHANGED idle_active_

LDestroyed ==
  armed = {} /\ due = <<>> /\ Goto("closing", "dead") /\ UNCHANGED idle_active_

LibuvCall(t) ==
  \/ \E i \in Handles \union Delayed \union Callbacks :
       LSchedule(t, i) \/ LScheduleAfter(t, i) \/ LPost(t, i)
  \/ LStop(t)

LibuvLoop ==
  \/ LTest \/ LTimers \/ LIdle \/ LArm \/ LIdleEnd \/ LPoll \/ LUnblock \/ LAsync
  \/ LDestroyed

LibuvNext ==
  \/ \E t \in Thread : LibuvCall(t)
  \/ LRun(TRUE) \/ LRun(FALSE) \/ LDestroy \/ LibuvLoop

=============================================================================
