----------------------------- MODULE EventLoop -----------------------------
(***************************************************************************)
(* What the three event loops share: queues under queue_mutex_, a way to   *)
(* wake the loop, and a loop thread that moves queued items to local       *)
(* copies and runs them one after the other.  Any thread, and whatever the  *)
(* loop is running, may give the executor more: it pushes under the mutex  *)
(* and then, in a second step, wakes the loop (eventfd or uv_async).       *)
(***************************************************************************)
EXTENDS Integers, Sequences, FiniteSets, SequencesExt

CONSTANTS
  User,          (* threads besides the loop's                              *)
  Loop,          (* the thread that calls Run(), RunOnce(), the destructor  *)
  Handles,       (* coroutines given to Schedule()                          *)
  Callbacks,     (* callbacks given to Post()                               *)
  Delayed,       (* coroutines given to ScheduleAfter()                     *)
  Io,            (* coroutines that start an I/O operation                  *)
  MaxGiven,      (* bound on what a behaviour gives to the executor         *)
  None

ASSUME EventLoopAssumption ==
  /\ Loop \notin User /\ MaxGiven \in Nat
  /\ None \notin Handles \union Callbacks \union Delayed \union Io
  /\ Handles \intersect (Callbacks \union Delayed \union Io) = {}
  /\ Callbacks \intersect (Delayed \union Io) = {} /\ Delayed \intersect Io = {}

Thread == User \union {Loop}

VARIABLES
  ready_queue_, callback_queue_,
  timer_queue_,    (* requests for timers the loop has not armed yet        *)
  armed,           (* timers running and operations in flight               *)
  due,             (* those that expired or completed, in that order        *)
  stop_requested_,
  wake,            (* eventfd counter not zero, or uv_async_send pending    *)
  upc,             (* per thread: "idle", or "wake": pushed, about to wake  *)
  lpc,             (* where the loop is; "out": not in Run(); "dead"        *)
  once,            (* RunOnce() rather than Run()                           *)
  batch,           (* expired timers, completed operations still to resume  *)
  ready, callbacks,  (* the local copies of ProcessReadyQueue()             *)
  arming,          (* timer requests it took and has still to arm           *)
  cur,             (* what it is running                                    *)
  given, ran       (* history: given to the executor; run                   *)

queues == <<ready_queue_, callback_queue_, timer_queue_>>
copies == <<ready, callbacks>>
loop == <<lpc, once, batch, copies, arming, cur>>
loopVars == <<queues, armed, due, stop_requested_, wake, upc, loop, given, ran>>

LoopInit ==
  /\ ready_queue_ = <<>> /\ callback_queue_ = <<>> /\ timer_queue_ = <<>>
  /\ due = <<>> /\ stop_requested_ = FALSE /\ wake = FALSE
  /\ upc = [t \in Thread |-> "idle"]
  /\ lpc = "out" /\ once = FALSE /\ cur = None
  /\ batch = <<>> /\ ready = <<>> /\ callbacks = <<>> /\ arming = <<>>
  /\ given = {} /\ ran = {}

(* t is in user code and may call the executor. *)
CanCall(t) == upc[t] = "idle" /\ lpc # "dead" /\ (t = Loop => cur # None)

Fresh(i) == i \notin given /\ Cardinality(given) < MaxGiven

(* The push of Schedule(), Post() or ScheduleAfter(). *)
Push(t, i) ==
  /\ CanCall(t) /\ Fresh(i)
  /\ given' = given \union {i}
  /\ upc' = [upc EXCEPT ![t] = "wake"]
  /\ UNCHANGED <<stop_requested_, wake, due, loop, ran>>

(* WakeUp(), uv_async_send() *)
WakeUp(t) ==
  /\ upc[t] = "wake"
  /\ wake' = TRUE
  /\ upc' = [upc EXCEPT ![t] = "idle"]
  /\ UNCHANGED <<queues, armed, due, stop_requested_, loop, given, ran>>

(* Time passes, a device answers: outside the program. *)
Complete(i) ==
  /\ i \in armed
  /\ armed' = armed \ {i}
  /\ due' = Append(due, i)
  /\ UNCHANGED <<queues, stop_requested_, wake, upc, loop, given, ran>>

(* The loop is between two items and has none left: it can go on. *)
Between(l) ==
  lpc = l /\ cur = None /\ batch = <<>> /\ ready = <<>> /\ callbacks = <<>>

(* resume(), or the call of a callback; whatever runs may call the executor *)
(* before it returns.                                                       *)
StartItem ==
  /\ cur = None
  /\ \/ /\ batch # <<>>
        /\ cur' = Head(batch) /\ batch' = Tail(batch) /\ UNCHANGED copies
     \/ /\ batch = <<>> /\ ready # <<>>
        /\ cur' = Head(ready) /\ ready' = Tail(ready) /\ UNCHANGED <<batch, callbacks>>
     \/ /\ batch = <<>> /\ ready = <<>> /\ callbacks # <<>>
        /\ cur' = Head(callbacks) /\ callbacks' = Tail(callbacks)
        /\ UNCHANGED <<batch, ready>>
  /\ ran' = ran \union {cur'}
  /\ UNCHANGED <<queues, armed, due, stop_requested_, wake, upc, lpc, once, arming, given>>

EndItem ==
  /\ cur # None /\ upc[Loop] = "idle"
  /\ cur' = None
  /\ UNCHANGED <<queues, armed, due, stop_requested_, wake, upc, lpc, once, batch,
                 copies, arming, given, ran>>

(* ProcessReadyQueue(): the queues are swapped with local ones; handles run *)
(* before callbacks.                                                        *)
SwapQueues(next) ==
  /\ ready' = ready_queue_ /\ callbacks' = callback_queue_
  /\ ready_queue_' = <<>> /\ callback_queue_' = <<>>
  /\ arming' = timer_queue_ /\ timer_queue_' = <<>>
  /\ lpc' = next
  /\ UNCHANGED <<armed, due, stop_requested_, wake, upc, once, batch, cur, given, ran>>

(* The loop goes from one place to the next. *)
Goto(l, next) ==
  /\ Between(l)
  /\ lpc' = next
  /\ UNCHANGED <<queues, armed, due, stop_requested_, wake, upc, once, batch,
                 copies, arming, cur, given, ran>>

=============================================================================
