------------------------- MODULE ThreadPoolExecutor -------------------------
(***************************************************************************)
(* The work queue of ThreadPoolExecutor (io/thread_pool_executor.cpp): the *)
(* workers, and user threads that schedule work, call Run(), RunOnce() and *)
(* Stop() and at last destroy the pool.  The timer thread, which calls     *)
(* Schedule() like a user, is the module ThreadPoolTimer.                  *)
(*                                                                         *)
(* work_available_.wait(lock, pred) evaluates pred with queue_mutex_ held  *)
(* and then, in one step, releases the mutex and blocks.  Stop() writes    *)
(* stopping_, and a worker active_tasks_, WITHOUT the mutex: such a write  *)
(* and its notification can fall between the two.                          *)
(***************************************************************************)
EXTENDS Integers, Sequences, FiniteSets

CONSTANTS
  Worker,        (* workers_                                                *)
  User,          (* the threads that use the pool                           *)
  None,          (* no thread                                               *)
  Programs,      (* the sets of operations users may call, besides          *)
                 (* Schedule(): of "Run", "RunOnce", "Stop" and "Destroy"   *)
  MaxItems,      (* bound on the items scheduled                            *)
  MaxRequeues    (* bound on items that schedule themselves again           *)

ASSUME ThreadPoolAssumption ==
  /\ IsFiniteSet(Worker) /\ Worker # {} /\ Worker \intersect User = {}
  /\ None \notin Worker \union User
  /\ Programs \subseteq SUBSET {"Run", "RunOnce", "Stop", "Destroy"}
  /\ MaxItems \in Nat /\ MaxRequeues \in Nat

Thread == Worker \union User
Item == 1 .. MaxItems
NoItem == 0

VARIABLES
  work_queue_,
  queue_mutex_,  (* the thread that has it across a step, or None           *)
  stopping_,
  active_tasks_,
  pc,            (* where each thread is, see PC                            *)
  item,          (* the item each thread executes                           *)
  posted,        (* history: items scheduled so far                         *)
  requeues,      (* history: items that scheduled themselves again          *)
  finished,      (* history: items that ran to their end                    *)
  dying,         (* the destructor has been called                          *)
  ops            (* the operations this program calls, one of Programs      *)

vars == <<work_queue_, queue_mutex_, stopping_, active_tasks_, pc, item,
          posted, requeues, finished, dying, ops>>

PC == {"idle",      (* user: outside the pool                               *)
       "loop",      (* worker: at while (!stopping_)                        *)
       "lock",      (* about to take queue_mutex_ and evaluate pred         *)
       "false",     (* pred was false: about to release the mutex and block *)
       "blocked",   (* waits on work_available_                             *)
       "true",      (* worker: pred was true, mutex still held, queue empty *)
       "exec",      (* executes an item                                     *)
       "popped",    (* RunOnce: has an item, active_tasks_ not yet raised   *)
       "once",      (* RunOnce: executes an item                            *)
       "one",       (* user: about to notify_one                            *)
       "rone",      (* worker, in its item: about to notify_one             *)
       "over",      (* worker: the item's resume() is about to return       *)
       "all",       (* about to notify_all                                  *)
       "dtor",      (* destructor: about to notify_all once more            *)
       "join",      (* destructor: joins the workers                        *)
       "exit"}      (* worker: returned; user: the pool is destroyed        *)

Init ==
  /\ work_queue_ = <<>> /\ queue_mutex_ = None
  /\ stopping_ = FALSE /\ active_tasks_ = 0
  /\ pc = [t \in Thread |-> IF t \in Worker THEN "loop" ELSE "idle"]
  /\ item = [t \in Thread |-> NoItem]
  /\ posted = 0 /\ requeues = 0 /\ finished = {} /\ dying = FALSE
  /\ ops \in Programs

Goto(t, l) == pc' = [pc EXCEPT ![t] = l]

-----------------------------------------------------------------------------
(* work_available_ *)
Waiting == {t \in Thread : pc[t] = "blocked"}

NotifyAll(t, next) ==
  pc' = [d \in Thread |-> IF d = t THEN next
                          ELSE IF d \in Waiting THEN "lock" ELSE pc[d]]

(* Whoever is notified, a worker or Run(). *)
NotifyOne(t, next) ==
  \/ /\ Waiting = {} /\ Goto(t, next)
  \/ \E w \in Waiting : pc' = [pc EXCEPT ![t] = next, ![w] = "lock"]

(* wait() releases the mutex and blocks, atomically for notifiers. *)
Block(t) ==
  /\ pc[t] = "false"
  /\ Goto(t, "blocked")
  /\ queue_mutex_' = None
  /\ UNCHANGED <<work_queue_, stopping_, active_tasks_, item, posted, requeues,
                 finished, dying, ops>>

SpuriousWakeup(t) ==
  /\ pc[t] = "blocked"
  /\ Goto(t, "lock")
  /\ UNCHANGED <<work_queue_, queue_mutex_, stopping_, active_tasks_, item,
                 posted, requeues, finished, dying, ops>>

-----------------------------------------------------------------------------
(* WorkerLoop *)
WorkerTest(w) ==
  /\ pc[w] = "loop"
  /\ Goto(w, IF stopping_ THEN "exit" ELSE "lock")
  /\ UNCHANGED <<work_queue_, queue_mutex_, stopping_, active_tasks_, item,
                 posted, requeues, finished, dying, ops>>

Bug_Take(w) ==  (* active_tasks_ is not raised *)
  /\ work_queue_ # <<>>
  /\ item' = [item EXCEPT ![w] = Head(work_queue_)]
  /\ work_queue_' = Tail(work_queue_)
  /\ Goto(w, "exec")
  /\ UNCHANGED <<queue_mutex_, active_tasks_>>

Bug_TakeLeave(w) ==  (* front() without pop() *)
  /\ work_queue_ # <<>>
  /\ item' = [item EXCEPT ![w] = Head(work_queue_)]
  /\ active_tasks_' = active_tasks_ + 1
  /\ Goto(w, "exec")
  /\ UNCHANGED <<work_queue_, queue_mutex_>>

Take(w) ==
  /\ work_queue_ # <<>>
  /\ item' = [item EXCEPT ![w] = Head(work_queue_)]
  /\ work_queue_' = Tail(work_queue_)
  /\ active_tasks_' = active_tasks_ + 1
  /\ Goto(w, "exec")
  /\ UNCHANGED queue_mutex_

(* The mutex is taken and pred evaluated; an item ends the section at once. *)
WorkerWait(w) ==
  /\ pc[w] = "lock" /\ queue_mutex_ = None
  /\ \/ Take(w)
     \/ /\ work_queue_ = <<>>
        /\ Goto(w, IF stopping_ THEN "true" ELSE "false")
        /\ queue_mutex_' = w
        /\ UNCHANGED <<work_queue_, item, active_tasks_>>
  /\ UNCHANGED <<stopping_, posted, requeues, finished, dying, ops>>

(* if (stopping_ && work_queue_.empty()) break; Run() may have cleared      *)
(* stopping_ since pred was evaluated.                                      *)
WorkerBreak(w) ==
  /\ pc[w] = "true"
  /\ Goto(w, IF stopping_ THEN "exit" ELSE "loop")
  /\ queue_mutex_' = None
  /\ UNCHANGED <<work_queue_, stopping_, active_tasks_, item, posted, requeues,
                 finished, dying, ops>>

(* The coroutine schedules itself again and suspends (Yield, ScheduleOn). *)
Requeue(w) ==
  /\ pc[w] = "exec" /\ queue_mutex_ = None
  /\ requeues < MaxRequeues
  /\ requeues' = requeues + 1
  /\ work_queue_' = Append(work_queue_, item[w])
  /\ item' = [item EXCEPT ![w] = NoItem]
  /\ Goto(w, "rone")
  /\ UNCHANGED <<queue_mutex_, stopping_, active_tasks_, posted, finished, dying, ops>>

RequeueNotify(w) ==
  /\ pc[w] = "rone"
  /\ NotifyOne(w, "over")
  /\ UNCHANGED <<work_queue_, queue_mutex_, stopping_, active_tasks_, item,
                 posted, requeues, finished, dying, ops>>

(* The item ends: active_tasks_--, then notify_all. *)
WorkerDone(w) ==
  /\ pc[w] \in {"exec", "over"}
  /\ finished' = (finished \union {item[w]}) \ {NoItem}
  /\ item' = [item EXCEPT ![w] = NoItem]
  /\ active_tasks_' = active_tasks_ - 1
  /\ Goto(w, "all")
  /\ UNCHANGED <<work_queue_, queue_mutex_, stopping_, posted, requeues, dying, ops>>

WorkerNotify(w) ==
  /\ pc[w] = "all"
  /\ NotifyAll(w, "loop")
  /\ UNCHANGED <<work_queue_, queue_mutex_, stopping_, active_tasks_, item,
                 posted, requeues, finished, dying, ops>>

-----------------------------------------------------------------------------
(* User threads *)
Bug_Schedule(u) ==  (* notify_one before the item is queued *)
  \/ /\ pc[u] = "idle" /\ ~dying /\ posted < MaxItems
     /\ NotifyOne(u, "one")
     /\ UNCHANGED <<posted, work_queue_>>
     /\ UNCHANGED <<queue_mutex_, stopping_, active_tasks_, item, requeues,
                    finished, dying, ops>>
  \/ /\ pc[u] = "one" /\ queue_mutex_ = None
     /\ posted' = posted + 1
     /\ work_queue_' = Append(work_queue_, posted + 1)
     /\ Goto(u, "idle")
     /\ UNCHANGED <<queue_mutex_, stopping_, active_tasks_, item, requeues,
                    finished, dying, ops>>

(* Schedule(handle), Post(callback), in two steps: the queue, then the      *)
(* notification.                                                            *)
Schedule(u) ==
  \/ /\ pc[u] = "idle" /\ ~dying /\ queue_mutex_ = None
     /\ posted < MaxItems
     /\ posted' = posted + 1
     /\ work_queue_' = Append(work_queue_, posted + 1)
     /\ Goto(u, "one")
     /\ UNCHANGED <<queue_mutex_, stopping_, active_tasks_, item, requeues,
                    finished, dying, ops>>
  \/ /\ pc[u] = "one"
     /\ NotifyOne(u, "idle")
     /\ UNCHANGED <<work_queue_, queue_mutex_, stopping_, active_tasks_, item,
                    posted, requeues, finished, dying, ops>>

(* Run() *)
RunStart(u) ==
  /\ "Run" \in ops
  /\ pc[u] = "idle" /\ ~dying
  /\ stopping_' = FALSE
  /\ Goto(u, "lock")
  /\ UNCHANGED <<work_queue_, queue_mutex_, active_tasks_, item, posted,
                 requeues, finished, dying, ops>>

RunDone == stopping_ \/ (work_queue_ = <<>> /\ active_tasks_ = 0)

RunWait(u) ==
  /\ pc[u] = "lock" /\ queue_mutex_ = None
  /\ \/ /\ RunDone
        /\ Goto(u, "idle")
        /\ UNCHANGED queue_mutex_
     \/ /\ ~RunDone
        /\ Goto(u, "false")
        /\ queue_mutex_' = u
  /\ UNCHANGED <<work_queue_, stopping_, active_tasks_, item, posted, requeues,
                 finished, dying, ops>>

(* RunOnce(): the mutex is released before active_tasks_ is raised, and     *)
(* nobody is notified at the end.  On an empty queue it changes nothing.    *)
RunOnce(u) ==
  \/ /\ "RunOnce" \in ops
     /\ pc[u] = "idle" /\ ~dying /\ queue_mutex_ = None
     /\ work_queue_ # <<>>
     /\ item' = [item EXCEPT ![u] = Head(work_queue_)]
     /\ work_queue_' = Tail(work_queue_)
     /\ Goto(u, "popped")
     /\ UNCHANGED <<active_tasks_, finished>>
     /\ UNCHANGED <<queue_mutex_, stopping_, posted, requeues, dying, ops>>
  \/ /\ pc[u] = "popped"
     /\ active_tasks_' = active_tasks_ + 1
     /\ Goto(u, "once")
     /\ UNCHANGED <<work_queue_, item, finished>>
     /\ UNCHANGED <<queue_mutex_, stopping_, posted, requeues, dying, ops>>
  \/ /\ pc[u] = "once"
     /\ active_tasks_' = active_tasks_ - 1
     /\ finished' = finished \union {item[u]}
     /\ item' = [item EXCEPT ![u] = NoItem]
     /\ Goto(u, "idle")
     /\ UNCHANGED work_queue_
     /\ UNCHANGED <<queue_mutex_, stopping_, posted, requeues, dying, ops>>

(* Stop(): the flag, without the mutex, and then notify_all. *)
StopFlag(u) ==
  /\ "Stop" \in ops
  /\ pc[u] = "idle" /\ ~dying
  /\ stopping_' = TRUE
  /\ Goto(u, "all")
  /\ UNCHANGED <<work_queue_, queue_mutex_, active_tasks_, item, posted,
                 requeues, finished, dying, ops>>

StopNotify(u) ==
  /\ pc[u] = "all"
  /\ NotifyAll(u, IF dying THEN "dtor" ELSE "idle")
  /\ UNCHANGED <<work_queue_, queue_mutex_, stopping_, active_tasks_, item,
                 posted, requeues, finished, dying, ops>>

(* ~ThreadPoolExecutor(), once no thread is inside the pool: Stop(), one    *)
(* more notify_all, and join().                                             *)
Destroy(u) ==
  \/ /\ "Destroy" \in ops /\ ~dying
     /\ \A d \in User : pc[d] = "idle"
     /\ dying' = TRUE /\ stopping_' = TRUE
     /\ Goto(u, "all")
     /\ UNCHANGED <<work_queue_, queue_mutex_, active_tasks_, item, posted,
                    requeues, finished, ops>>
  \/ /\ \/ pc[u] = "dtor" /\ NotifyAll(u, "join")
        \/ /\ pc[u] = "join" /\ \A w \in Worker : pc[w] = "exit"
           /\ Goto(u, "exit")
     /\ UNCHANGED <<work_queue_, queue_mutex_, stopping_, active_tasks_, item,
                    posted, requeues, finished, dying, ops>>

-----------------------------------------------------------------------------
WorkerStep(w) ==
  \/ WorkerTest(w) \/ WorkerWait(w) \/ WorkerBreak(w) \/ Block(w)
  \/ Requeue(w) \/ RequeueNotify(w) \/ WorkerDone(w) \/ WorkerNotify(w)

(* What a thread inside a call of the pool does; outside, it may do nothing. *)
UserStep(u) ==
  \/ Schedule(u) \/ RunStart(u) \/ RunWait(u) \/ Block(u) \/ RunOnce(u)
  \/ StopFlag(u) \/ StopNotify(u) \/ Destroy(u)

Next ==
  \/ \E w \in Worker : WorkerStep(w)
  \/ \E u \in User : UserStep(u)
  \/ \E t \in Thread : SpuriousWakeup(t)

(* Every thread inside the pool is scheduled, every item ends, and nobody   *)
(* waits for queue_mutex_ for ever.  No wakeup is spurious for certain.     *)
Fairness ==
  /\ \A w \in Worker : SF_vars(WorkerStep(w))
  /\ \A u \in User : SF_vars(pc[u] # "idle" /\ UserStep(u))

Spec == Init /\ [][Next]_vars
FairSpec == Spec /\ Fairness

-----------------------------------------------------------------------------
Queued == {work_queue_[i] : i \in DOMAIN work_queue_}
Posted == 1 .. posted

(***************************************************************************)
(* An item is resumed by one thread at a time and none is dropped: every   *)
(* scheduled item that is not finished is in exactly one place, once, the  *)
(* queue or a thread that executes it.                                     *)
(***************************************************************************)
ItemsInOnePlace ==
  /\ \A i, j \in DOMAIN work_queue_ : i # j => work_queue_[i] # work_queue_[j]
  /\ \A s, t \in Thread : s # t /\ item[s] # NoItem => item[s] # item[t]
  /\ \A t \in Thread : item[t] \notin Queued
  /\ Queued \union ({item[t] : t \in Thread} \ {NoItem}) = Posted \ finished

(***************************************************************************)
(* "so that Run() never sees empty queue + zero active tasks prematurely"  *)
(* (thread_pool_executor.cpp:189-190): Run() returns without a Stop() only *)
(* when every item scheduled so far has ended.                             *)
(***************************************************************************)
RunReturnsIdle ==
  [][\A u \in User : pc[u] = "lock" /\ pc'[u] = "idle" /\ ~stopping_
                       => finished = Posted]_vars

(***************************************************************************)
(* Every scheduled item is executed to its end in a program that only      *)
(* schedules items and calls RunOnce().                                    *)
(***************************************************************************)
ItemsServed ==
  \A i \in Item : i \in Posted /\ ops \subseteq {"RunOnce"} ~> i \in finished

(***************************************************************************)
(* "Signal all workers to stop" (thread_pool_executor.hpp:99), "Wake up    *)
(* all workers" (thread_pool_executor.cpp:48): the destructor's join()     *)
(* returns.                                                                *)
(***************************************************************************)
DestructorReturns == dying ~> \E u \in User : pc[u] = "exit"

=============================================================================
