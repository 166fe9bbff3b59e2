----------------------------- MODULE TaskGroup -----------------------------
(***************************************************************************)
(* TaskGroup (core/task_group.hpp) over its AsyncEvent.  Start() is three  *)
(* separate effects: event.Reset(), size.fetch_add, and the inline resume  *)
(* of the task.  A task's callback, run by the thread the task ends on, is *)
(* two: size.fetch_sub and, at zero, event.Set(), which resumes a waiting  *)
(* owner inline.  A task that suspends goes on later on another thread of  *)
(* the executor, or, when one_thread, on the only one.                     *)
(***************************************************************************)
EXTENDS AsyncEvent

CONSTANTS
  Owner,         (* the coroutine that starts tasks and awaits the group    *)
  Task           (* the tasks; a task may start tasks too                   *)

ASSUME TaskGroupAssumption ==
  Owner \notin Task /\ {Owner} \union Task \subseteq Coro

VARIABLES
  size,          (* SharedState::size                                       *)
  child,         (* the task a coroutine's Start() is about to start        *)
  ended,         (* history: tasks whose body has ended                     *)
  joined,        (* history: the owner is past a co_await group             *)
  one_thread     (* whether the executor is a single-threaded event loop    *)

group == <<size, child, ended, joined, one_thread>>
groupVars == <<vars, group>>

(* More labels, besides those of AsyncEvent:                                *)
(* "new"   not yet started           "add"   in Start(), after Reset()      *)
(* "begin" in Start(), size raised   "set"   in the callback, at zero       *)
(* "end"   the callback has returned "done"  the frame is destroyed         *)
Between == {"run", "susp", "nest", "new", "done"}

NoGroup ==
  size = 0 /\ child = [c \in Coro |-> None] /\ ended = {} /\ joined = FALSE

(* The constructor sets the event. *)
GroupInit ==
  /\ EventInit(TRUE)
  /\ pc = [c \in Coro |-> IF c = Owner THEN "run" ELSE "new"]
  /\ NoGroup
  /\ one_thread \in BOOLEAN

(* On one thread, an operation of the library is not interrupted. *)
HasThread(c) == one_thread => \A d \in Coro \ {c} : pc[d] \in Between

Bug_StartReset(c, t) ==  (* the event is not reset *)
  /\ HasThread(c) /\ pc[c] = "run"
  /\ pc[t] = "new" /\ \A d \in Coro : child[d] # t
  /\ At(c, "add")
  /\ child' = [child EXCEPT ![c] = t]
  /\ joined' = (joined /\ c # Owner)
  /\ UNCHANGED <<event, size, ended, one_thread>>

(* Start(task): event.Reset() *)
StartReset(c, t) ==
  /\ HasThread(c) /\ pc[c] = "run"
  /\ pc[t] = "new" /\ \A d \in Coro : child[d] # t
  /\ Reset(c, "add")
  /\ child' = [child EXCEPT ![c] = t]
  /\ joined' = (joined /\ c # Owner)
  /\ UNCHANGED <<size, ended, one_thread>>

(* Start(task): size.fetch_add(1) *)
StartAdd(c) ==
  /\ HasThread(c) /\ pc[c] = "add"
  /\ size' = size + 1
  /\ At(c, "begin")
  /\ UNCHANGED <<event, child, ended, joined, one_thread>>

(* Start(task): detached.Start() resumes the task inline *)
StartRun(c) ==
  /\ HasThread(c) /\ pc[c] = "begin"
  /\ pc' = [pc EXCEPT ![c] = "nest", ![child[c]] = "run"]
  /\ runner' = [runner EXCEPT ![child[c]] = c]
  /\ after' = [after EXCEPT ![c] = "run"]
  /\ child' = [child EXCEPT ![c] = None]
  /\ UNCHANGED <<event, to_wake, size, ended, joined, one_thread>>

Bug_TaskEnd(t) ==  (* fetch_sub(1) == 0 *)
  /\ HasThread(t) /\ t \in Task /\ pc[t] = "run"
  /\ ended' = ended \union {t}
  /\ size' = size - 1
  /\ At(t, IF size = 0 THEN "set" ELSE "end")
  /\ UNCHANGED <<event, child, joined, one_thread>>

(* The task's body ends: the callback's size.fetch_sub(1) == 1. *)
TaskEnd(t) ==
  /\ HasThread(t) /\ t \in Task /\ pc[t] = "run"
  /\ ended' = ended \union {t}
  /\ size' = size - 1
  /\ At(t, IF size = 1 THEN "set" ELSE "end")
  /\ UNCHANGED <<event, child, joined, one_thread>>

TaskSet(t) ==
  /\ HasThread(t) /\ pc[t] = "set"
  /\ Set(t, "end")
  /\ UNCHANGED group

(* The callback returns: DetachedTask destroys the frame. *)
TaskDestroy(t) ==
  /\ HasThread(t) /\ pc[t] = "end"
  /\ Leave(t, "done")
  /\ UNCHANGED <<event, group>>

(* co_await group: event.Wait() *)
Await ==
  /\ HasThread(Owner) /\ pc[Owner] = "run"
  /\ WaitReady(Owner, "run")
  /\ joined' = signaled_
  /\ UNCHANGED <<size, child, ended, one_thread>>

AwaitSuspend ==
  /\ HasThread(Owner)
  /\ WaitSuspend(Owner, "run")
  /\ joined' = signaled_
  /\ UNCHANGED <<size, child, ended, one_thread>>

ResumeOwner(c) ==
  /\ HasThread(c)
  /\ Resume(c, "run")
  /\ joined' = TRUE
  /\ UNCHANGED <<size, child, ended, one_thread>>

YieldUser(c) ==
  /\ HasThread(c)
  /\ Yield(c, "run")
  /\ UNCHANGED group

GroupStep(c) ==
  \/ \E t \in Task : StartReset(c, t)
  \/ StartAdd(c) \/ StartRun(c)
  \/ TaskEnd(c) \/ TaskSet(c) \/ TaskDestroy(c)
  \/ ResumeOwner(c) \/ YieldUser(c)

GroupNext == Await \/ AwaitSuspend \/ \E c \in Coro : GroupStep(c)

(* A started operation runs to its end; that every task ends is required    *)
(* of TaskEnd by itself.                                                    *)
GroupObliged(c) ==
  \/ c = Owner /\ AwaitSuspend
  \/ StartAdd(c) \/ StartRun(c) \/ TaskSet(c) \/ TaskDestroy(c) \/ ResumeOwner(c)

GroupSpec == GroupInit /\ [][GroupNext]_groupVars

-----------------------------------------------------------------------------
(***************************************************************************)
(* "all spawned work is guaranteed to complete before the scope exits"     *)
(* (task_group.hpp:7-8): past co_await group, every task started has ended *)
(* and size is 0, as the destructor asserts.                               *)
(***************************************************************************)
JoinsAll ==
  joined => /\ \A t \in Task : pc[t] # "new" => t \in ended
            /\ size = 0

(***************************************************************************)
(* The same where Start() and a task's callback cannot overlap, because    *)
(* the executor is one event loop, whichever of owner and tasks start      *)
(* tasks and wherever they suspend.                                        *)
(***************************************************************************)
JoinsAllOnOneThread == one_thread => JoinsAll

(***************************************************************************)
(* A suspended co_await group goes on: the last task to end, wherever it   *)
(* ends and whoever started it, sets the event.                            *)
(***************************************************************************)
AwaitReturns == pc[Owner] = "susp" ~> pc[Owner] # "susp"

=============================================================================
