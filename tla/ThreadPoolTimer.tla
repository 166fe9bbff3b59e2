-------------------------- MODULE ThreadPoolTimer --------------------------
(***************************************************************************)
(* The timer thread of ThreadPoolExecutor (TimerLoop, ScheduleAfter and    *)
(* the part of Stop() that concerns it).  TimerLoop binds `auto& top` to   *)
(* the first element of the priority queue's vector and keeps using the    *)
(* reference after wait_until has released delayed_mutex_: a push that     *)
(* meanwhile puts an earlier item in front is seen through it, a push that *)
(* makes the vector grow leaves it dangling.                               *)
(***************************************************************************)
EXTENDS Integers, Sequences, FiniteSets

CONSTANTS
  Handle,        (* coroutine handles, each scheduled once                  *)
  Caller,        (* the threads that call ScheduleAfter() and Stop()        *)
  NoHandle,
  Garbage,       (* what a handle read from freed memory may be             *)
  Delay,         (* the delays used                                         *)
  MaxTime,       (* bound on the clock                                      *)
  Capacities     (* of the vector at first: 0 in a new pool, and what       *)
                 (* earlier bursts have left in one that has been running   *)

ASSUME TimerAssumption ==
  /\ IsFiniteSet(Handle) /\ NoHandle \notin Handle
  /\ Garbage \notin Handle /\ Garbage # NoHandle
  /\ Delay \subseteq Nat /\ MaxTime \in Nat /\ Capacities \subseteq Nat

Never == MaxTime + 1    (* a time the clock does not reach                  *)

VARIABLES
  delayed_queue_,  (* the handles in the queue                              *)
  front,           (* the one in the vector's first element, or NoHandle    *)
  capacity,        (* of the vector                                         *)
  stopping,        (* the pool's stopping_                                  *)
  now,             (* steady_clock                                          *)
  when,            (* DelayedWork::when of each handle                      *)
  tpc,             (* timer thread, see TimerPC                             *)
  upc,             (* its callers: "idle" or "notify"                       *)
  top,             (* the reference top: NoHandle while it is bound to the  *)
                   (* first element, or the handle that was there when that *)
                   (* memory was freed                                      *)
  atime,           (* the time the thread sleeps until                      *)
  handle,          (* the local handle of TimerLoop                         *)
  fired,           (* history: handles given to Schedule(), with the time   *)
  moved            (* history: a push has left top dangling                 *)

queue == <<delayed_queue_, front, capacity, when>>
timerVars == <<queue, stopping, now, tpc, upc, top, atime, handle, fired,
               moved>>

TimerPC ==
  {"loop",     (* at while (!stopping_)                                     *)
   "lock",     (* about to take delayed_mutex_                              *)
   "wait",     (* wait: pred was false, mutex held, about to block          *)
   "blocked",  (* wait: blocked                                             *)
   "until",    (* wait_until: pred was false, mutex held, about to block    *)
   "asleep",   (* wait_until: blocked                                       *)
   "notified", (* wait_until: notified, about to take the mutex             *)
   "timeout",  (* wait_until: timed out, about to take the mutex            *)
   "schedule", (* about to call Schedule(handle)                            *)
   "exit"}

TimerInit ==
  /\ delayed_queue_ = {} /\ front = NoHandle /\ capacity \in Capacities
  /\ stopping = FALSE /\ now = 0
  /\ when = [h \in Handle |-> Never]
  /\ tpc = "loop" /\ upc = [u \in Caller |-> "idle"]
  /\ top = NoHandle /\ atime = Never /\ handle = NoHandle /\ fired = <<>>
  /\ moved = FALSE

MutexFree == tpc \notin {"wait", "until"}
Dangling == top # NoHandle

(* What a read of top.when, of top.handle gives: freed memory may still     *)
(* hold the old element, or something else.                                 *)
TopWhen == IF Dangling THEN {when[top], 0, Never} ELSE {when[front]}
TopHandle == IF Dangling THEN {top, Garbage} ELSE {front}

-----------------------------------------------------------------------------
(* ScheduleAfter: push, which puts a strictly earlier item in front and     *)
(* moves the elements to new memory when the vector is full.                *)
ScheduleAfter(u, h, d) ==
  /\ upc[u] = "idle" /\ MutexFree
  /\ when[h] = Never /\ now + d <= MaxTime
  /\ when' = [when EXCEPT ![h] = now + d]
  /\ delayed_queue_' = delayed_queue_ \union {h}
  /\ front' = IF front = NoHandle THEN h
              ELSE IF now + d < when[front] THEN h ELSE front
  /\ \/ /\ Cardinality(delayed_queue_) < capacity
        /\ UNCHANGED <<capacity, top, moved>>
     \/ /\ Cardinality(delayed_queue_) = capacity
        /\ capacity' = IF capacity = 0 THEN 1 ELSE 2 * capacity
        /\ top' = IF tpc \in {"asleep", "notified", "timeout"} /\ ~Dangling
                  THEN front ELSE top
        /\ moved' = (moved \/ top' # NoHandle)
  /\ upc' = [upc EXCEPT ![u] = "notify"]
  /\ UNCHANGED <<stopping, now, tpc, atime, handle, fired>>

(* delayed_cv_.notify_one() or notify_all(): only the timer waits on it. *)
Notify(u) ==
  /\ upc[u] = "notify"
  /\ upc' = [upc EXCEPT ![u] = "idle"]
  /\ tpc' = IF tpc = "blocked" THEN "lock"
           ELSE IF tpc = "asleep" THEN "notified" ELSE tpc
  /\ UNCHANGED <<queue, stopping, now, top, atime, handle, fired, moved>>

Stop(u) ==
  /\ upc[u] = "idle"
  /\ stopping' = TRUE
  /\ upc' = [upc EXCEPT ![u] = "notify"]
  /\ UNCHANGED <<queue, now, tpc, top, atime, handle, fired, moved>>

Tick ==
  /\ now < MaxTime
  /\ now' = now + 1
  /\ UNCHANGED <<queue, stopping, tpc, upc, top, atime, handle, fired, moved>>

-----------------------------------------------------------------------------
(* TimerLoop *)
TimerTest ==
  /\ tpc = "loop"
  /\ tpc' = IF stopping THEN "exit" ELSE "lock"
  /\ handle' = NoHandle
  /\ UNCHANGED <<queue, stopping, now, upc, top, atime, fired, moved>>

Bug_TimerEmpty ==  (* break where nothing is delayed *)
  /\ tpc = "lock" /\ delayed_queue_ = {}
  /\ tpc' = "exit"
  /\ UNCHANGED <<queue, stopping, now, upc, top, atime, handle, fired, moved>>

(* Nothing delayed: wait(lock, pred), then continue. *)
TimerEmpty ==
  /\ tpc = "lock" /\ delayed_queue_ = {}
  /\ tpc' = IF stopping THEN "loop" ELSE "wait"
  /\ UNCHANGED <<queue, stopping, now, upc, top, atime, handle, fired, moved>>

TimerBlock ==
  /\ tpc = "wait"
  /\ tpc' = "blocked"
  /\ UNCHANGED <<queue, stopping, now, upc, top, atime, handle, fired, moved>>

(* wait_until(lock, top.when, stopping_): from the top of the loop, with    *)
(* the reference just bound, and again after a notification.                *)
TimerUntil ==
  /\ \/ tpc = "lock" /\ delayed_queue_ # {}
     \/ tpc = "notified"
  /\ \/ /\ stopping
        /\ tpc' = "exit"
        /\ UNCHANGED atime
     \/ /\ ~stopping
        /\ tpc' = "until"
        /\ atime' \in TopWhen
  /\ UNCHANGED <<queue, stopping, now, upc, top, handle, fired, moved>>

TimerSleep ==
  /\ tpc = "until"
  /\ tpc' = "asleep"
  /\ UNCHANGED <<queue, stopping, now, upc, top, atime, handle, fired, moved>>

TimerTimeout ==
  /\ tpc = "asleep" /\ now >= atime
  /\ tpc' = "timeout"
  /\ UNCHANGED <<queue, stopping, now, upc, top, atime, handle, fired, moved>>

Bug_TimerPopKeeps ==  (* top() without pop() *)
  /\ tpc = "timeout" /\ ~stopping
  /\ handle' = front
  /\ tpc' = "schedule" /\ top' = NoHandle
  /\ UNCHANGED <<queue, stopping, now, upc, atime, fired, moved>>

(* wait_until returned false: if (now() >= top.when), the handle is read    *)
(* through top, and the first element of the queue is popped.               *)
TimerPop ==
  /\ tpc = "timeout" /\ ~stopping
  /\ \E t \in TopWhen :
       \/ /\ now >= t
          /\ handle' \in TopHandle
          /\ delayed_queue_' = delayed_queue_ \ {front}
          /\ LET Q == delayed_queue_' IN
             front' \in IF Q = {} THEN {NoHandle}
                        ELSE {h \in Q : \A g \in Q : when[h] <= when[g]}
          /\ tpc' = "schedule"
       \/ /\ now < t
          /\ tpc' = "loop"
          /\ UNCHANGED <<handle, delayed_queue_, front>>
  /\ top' = NoHandle
  /\ UNCHANGED <<capacity, when, stopping, now, upc, atime, fired, moved>>

TimerStopped ==
  /\ tpc = "timeout" /\ stopping
  /\ tpc' = "exit"
  /\ UNCHANGED <<queue, stopping, now, upc, top, atime, handle, fired, moved>>

(* Schedule(handle): see ThreadPoolExecutor. *)
TimerSchedule ==
  /\ tpc = "schedule"
  /\ fired' = Append(fired, <<handle, now>>)
  /\ handle' = NoHandle
  /\ tpc' = "loop"
  /\ UNCHANGED <<queue, stopping, now, upc, top, atime, moved>>

TimerSpurious ==
  /\ tpc \in {"blocked", "asleep"}
  /\ tpc' = IF tpc = "blocked" THEN "lock" ELSE "notified"
  /\ UNCHANGED <<queue, stopping, now, upc, top, atime, handle, fired, moved>>

TimerStep ==
  \/ TimerTest \/ TimerEmpty \/ TimerBlock \/ TimerUntil \/ TimerSleep
  \/ TimerTimeout \/ TimerPop \/ TimerStopped \/ TimerSchedule

TimerNext ==
  \/ \E u \in Caller : \/ \E h \in Handle, d \in Delay : ScheduleAfter(u, h, d)
                       \/ Notify(u) \/ Stop(u)
  \/ Tick
  \/ TimerStep
  \/ TimerSpurious

(* Time passes, the timer thread runs, an expired wait_until at last times  *)
(* out whatever wakes it spuriously before, and a notification is made.     *)
(* ScheduleAfter and Stop are up to the users.                              *)
TimerFairness ==
  /\ WF_timerVars(Tick) /\ WF_timerVars(TimerStep)
  /\ SF_timerVars(TimerTimeout)
  /\ \A u \in Caller : WF_timerVars(Notify(u))

TimerSpec == TimerInit /\ [][TimerNext]_timerVars
TimerFairSpec == TimerSpec /\ TimerFairness

-----------------------------------------------------------------------------
Requested == {h \in Handle : when[h] # Never}
Fired == {fired[i][1] : i \in DOMAIN fired}

(***************************************************************************)
(* "Schedule a coroutine to run after a delay" (executor.hpp:78): every    *)
(* requested handle is in exactly one place, the queue, the timer thread's *)
(* hand or the list of those given to Schedule(), and given once; and none *)
(* is given to Schedule() before its time.                                 *)
(***************************************************************************)
DelayedOnceNotEarly ==
  /\ delayed_queue_ \union ({handle} \ {NoHandle}) \union Fired = Requested
  /\ delayed_queue_ \intersect Fired = {}
  /\ handle \notin delayed_queue_ \union Fired
  /\ \A i, j \in DOMAIN fired : i # j => fired[i][1] # fired[j][1]
  /\ \A i \in DOMAIN fired : fired[i][2] >= when[fired[i][1]]

(***************************************************************************)
(* The same as long as no push has moved the vector under the reference    *)
(* that TimerLoop() keeps: nothing else goes wrong, with an earlier item   *)
(* arriving, a spurious wakeup or a Stop() at any moment.                  *)
(***************************************************************************)
DelayedOnceUnlessMoved == ~moved => DelayedOnceNotEarly

(***************************************************************************)
(* Every delayed handle is eventually given to Schedule(), unless somebody *)
(* calls Stop() or the vector has moved under the reference.               *)
(***************************************************************************)
DelayedServed ==
  \A h \in Handle : h \in Requested ~> h \in Fired \/ stopping \/ moved

=============================================================================
