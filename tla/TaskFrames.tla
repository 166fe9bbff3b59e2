----------------------------- MODULE TaskFrames -----------------------------
(***************************************************************************)
(* Task<T> (core/task.hpp) and what makes any sender awaitable and any     *)
(* Task a sender (execution/): coroutine frames on the stacks of threads.  *)
(* resume() pushes a frame, symmetric transfer replaces the one on top,    *)
(* and a coroutine that suspends or ends returns to the one below.  Main's *)
(* own program runs when its stack is empty; a worker then takes what was  *)
(* scheduled or posted.                                                    *)
(*                                                                         *)
(* A coroutine of the host (Spawn, SyncWait, DetachedTask) awaits Child.   *)
(* Child may suspend into the executor and may await Leaf, directly or as  *)
(* a sender through Bridge, or await the scheduler.                        *)
(***************************************************************************)
EXTENDS FramePool

CONSTANTS
  Main,          (* the thread of the caller                                *)
  Wrapper,       (* the coroutine of WrapForSpawn() or in SyncWait()        *)
  Detached,      (* that of MakeDetached(); its promise is not pooled, like *)
  Bridge,        (* that of run_bridge(): both have a size above the pool's *)
  Child, Leaf,   (* the user's Tasks                                        *)
  NoFrame,
  MaxHops        (* how often the Tasks suspend into the executor           *)

ASSUME FramesAssumption ==
  /\ Frame = {Wrapper, Detached, Bridge, Child, Leaf}
  /\ Wrapper \notin {Detached, Bridge, Child, Leaf} /\ Detached \notin {Bridge, Child, Leaf}
  /\ Bridge \notin {Child, Leaf} /\ Child # Leaf
  /\ NoFrame \notin Frame /\ Main \in Thread /\ MaxHops \in Nat
  /\ GetBucket(FrameSize[Detached]) = Oversized
  /\ GetBucket(FrameSize[Bridge]) = Oversized

VARIABLES
  host,          (* what runs Child: "spawn", "no executor", "sync" or      *)
                 (* "detach"                                                *)
  caller,        (* where Main's own program is                             *)
  frame,         (* where each coroutine is                                 *)
  continuation_, (* TaskPromise::continuation_                              *)
  result_,       (* TaskPromise::result_: "none", "value" or "moved"        *)
  stack,         (* of each thread: <<frame, "body">>, or the frame with    *)
                 (* "start" or "started" when its await_suspend is about to *)
                 (* start, or has started, the operation of a sender        *)
  scheduled,     (* the handles the executor has                            *)
  posted,        (* whether it has ScheduleOperation's lambda               *)
  has_op_,       (* SenderAwaitable::has_op_, in Child's frame              *)
  hops

promiseVars == <<continuation_, result_>>
execVars == <<scheduled, posted, has_op_, hops>>
taskVars == <<host, caller, frame, promiseVars, stack, execVars, poolVars>>

(* A frame is "none" before it is created and "freed" after it, "new" at    *)
(* initial_suspend, "run" in its body, "await" in a co_await of a Task or   *)
(* sender, "hop" scheduled, "got" resumed from the co_await, and "final" at *)
(* final_suspend.                                                           *)
TasksInit ==
  /\ caller = "start"
  /\ frame = [f \in Frame |-> "none"]
  /\ continuation_ = [f \in Frame |-> NoFrame]
  /\ result_ = [f \in Frame |-> "none"]
  /\ stack = [t \in Thread |-> <<>>]
  /\ scheduled = {} /\ posted = FALSE /\ has_op_ = FALSE /\ hops = 0
  /\ PoolInit

host_frame == IF host = "detach" THEN Detached ELSE Wrapper

Live(f) == frame[f] \notin {"none", "freed"}
Top(t) == stack[t][Len(stack[t])]
Running(t, f, here) == stack[t] # <<>> /\ Top(t) = <<f, "body">> /\ frame[f] = here

Popped(t) == SubSeq(stack[t], 1, Len(stack[t]) - 1)
Pop(t) == stack' = [stack EXCEPT ![t] = Popped(t)]
Push(t, f) == stack' = [stack EXCEPT ![t] = Append(@, <<f, "body">>)]
Transfer(t, f) == stack' = [stack EXCEPT ![t] = Append(Popped(t), <<f, "body">>)]

At(f, here) == frame' = [frame EXCEPT ![f] = here]

(* The call of a coroutine: its frame is allocated, and suspends at once. *)
Create(t, f) ==
  /\ frame[f] = "none" /\ DoAllocate(t, f)

(* handle.destroy(), of ~Task() and at the ends of the other coroutines *)
Destroy(t, f, next) ==
  /\ DoDeallocate(t, f)
  /\ frame' = [next EXCEPT ![f] = "freed"]

-----------------------------------------------------------------------------
(* Task<T>                                                                  *)

(* Main calls Child(). *)
MakeTask ==
  /\ caller = "start" /\ caller' = "made"
  /\ Create(Main, Child) /\ At(Child, "new")
  /\ UNCHANGED <<host, promiseVars, stack, execVars>>

(* The Task is destroyed before anybody awaits it. *)
DropTask ==
  /\ caller = "made" /\ caller' = "end"
  /\ Destroy(Main, Child, frame)
  /\ UNCHANGED <<host, promiseVars, stack, execVars>>

(* Awaiter::await_suspend of g, in f *)
Await(t, f, g) ==
  /\ frame' = [frame EXCEPT ![f] = "await", ![g] = "run"]
  /\ continuation_' = [continuation_ EXCEPT ![g] = f]
  /\ Transfer(t, g)

(* The host's coroutine: co_await std::move(task) *)
AwaitChild(t) ==
  /\ Running(t, host_frame, "run")
  /\ Await(t, host_frame, Child)
  /\ UNCHANGED <<host, caller, result_, execVars, poolVars>>

(* Child: co_await Leaf() *)
AwaitLeaf(t) ==
  /\ Running(t, Child, "run")
  /\ Create(t, Leaf) /\ Await(t, Child, Leaf)
  /\ UNCHANGED <<host, caller, result_, execVars>>

(* A Task suspends; the executor has its handle. *)
Hop(t, f) ==
  /\ f \in {Child, Leaf} /\ Running(t, f, "run") /\ hops < MaxHops
  /\ At(f, "hop") /\ hops' = hops + 1
  /\ scheduled' = scheduled \union {f}
  /\ Pop(t)
  /\ UNCHANGED <<host, caller, promiseVars, posted, has_op_, poolVars>>

(* The executor resumes a handle. *)
RunScheduled(t) ==
  /\ t # Main /\ stack[t] = <<>>
  /\ \E f \in scheduled :
       /\ scheduled' = scheduled \ {f}
       /\ Push(t, f) /\ At(f, "run")
  /\ UNCHANGED <<host, caller, promiseVars, posted, has_op_, hops, poolVars>>

(* return_value, final_suspend and FinalAwaiter::await_suspend *)
Return(t, f) ==
  /\ f \in {Child, Leaf} /\ Running(t, f, "run")
  /\ result_' = [result_ EXCEPT ![f] = "value"]
  /\ frame' = [frame EXCEPT ![f] = "final", ![continuation_[f]] = "got"]
  /\ Transfer(t, continuation_[f])
  /\ UNCHANGED <<host, caller, continuation_, execVars, poolVars>>

(* Awaiter::await_resume of g; the awaiter goes on at `next`. *)
AwaitResume(f, g, next) ==
  /\ result_' = [result_ EXCEPT ![g] = "moved"]
  /\ At(f, next)

-----------------------------------------------------------------------------
(* Senders                                                                  *)

(* Child: co_await AsAwaitable(AsSender(Leaf())).  await_suspend connects   *)
(* and starts the operation, in which run_bridge() is called.               *)
AwaitSender(t) ==
  /\ Running(t, Child, "run")
  /\ Create(t, Leaf)
  /\ has_op_' = TRUE
  /\ frame' = [frame EXCEPT ![Child] = "await", ![Leaf] = "new"]
  /\ stack' = [stack EXCEPT ![t] = Append(Popped(t), <<Child, "start">>)]
  /\ UNCHANGED <<host, caller, promiseVars, scheduled, posted, hops>>

(* run_bridge(): it starts at once and awaits the Task. *)
StartBridge(t) ==
  /\ stack[t] # <<>> /\ Top(t) = <<Child, "start">>
  /\ Create(t, Bridge)
  /\ frame' = [frame EXCEPT ![Bridge] = "await", ![Leaf] = "run"]
  /\ continuation_' = [continuation_ EXCEPT ![Leaf] = Bridge]
  /\ stack' = [stack EXCEPT ![t] = Popped(t) \o <<<<Child, "started">>, <<Leaf, "body">>>>]
  /\ UNCHANGED <<host, caller, result_, execVars>>

(* set_value: BridgeReceiver resumes Child on this stack. *)
SetValue(t) ==
  /\ Running(t, Bridge, "got")
  /\ result_' = [result_ EXCEPT ![Leaf] = "moved"]
  /\ frame' = [frame EXCEPT ![Bridge] = "final", ![Child] = "got"]
  /\ Push(t, Child)
  /\ UNCHANGED <<host, caller, continuation_, execVars, poolVars>>

(* The bridge ends: its parameters are destroyed, and then its frame. *)
BridgeEnds(t) ==
  \/ /\ Running(t, Bridge, "final")
     /\ Destroy(t, Leaf, [frame EXCEPT ![Bridge] = "dying"])
     /\ UNCHANGED <<host, caller, promiseVars, stack, execVars>>
  \/ /\ Running(t, Bridge, "dying")
     /\ Destroy(t, Bridge, frame) /\ Pop(t)
     /\ UNCHANGED <<host, caller, promiseVars, execVars>>

(* Child: co_await AsAwaitable(scheduler.schedule()): start() posts. *)
AwaitSchedule(t) ==
  /\ Running(t, Child, "run") /\ frame[Leaf] = "none" /\ hops < MaxHops
  /\ has_op_' = TRUE /\ posted' = TRUE /\ hops' = hops + 1
  /\ At(Child, "await")
  /\ stack' = [stack EXCEPT ![t] = Append(Popped(t), <<Child, "started">>)]
  /\ UNCHANGED <<host, caller, promiseVars, scheduled, poolVars>>

(* The posted lambda: set_value resumes Child.  The receiver has no stop    *)
(* token.                                                                   *)
RunPosted(t) ==
  /\ t # Main /\ stack[t] = <<>> /\ posted
  /\ posted' = FALSE
  /\ Push(t, Child) /\ At(Child, "got")
  /\ UNCHANGED <<host, caller, promiseVars, scheduled, has_op_, hops, poolVars>>

Bug_StartReturns(t) ==  (* has_op_ is set after start() *)
  /\ stack[t] # <<>> /\ Top(t) = <<Child, "started">>
  /\ has_op_' = TRUE /\ Pop(t)
  /\ UNCHANGED <<host, caller, frame, promiseVars, scheduled, posted, hops, poolVars>>

(* start() and await_suspend return, and touch nothing: Child may have gone *)
(* on and been destroyed.                                                   *)
StartReturns(t) ==
  /\ stack[t] # <<>> /\ Top(t) = <<Child, "started">>
  /\ Pop(t)
  /\ UNCHANGED <<host, caller, frame, promiseVars, execVars, poolVars>>

(* Child goes on: it has the result, and destroys the temporaries of the    *)
(* co_await, an operation state or the Task.                                *)
ChildResumed(t) ==
  /\ Running(t, Child, "got")
  /\ \/ /\ has_op_
        /\ has_op_' = FALSE /\ At(Child, "run")
        /\ UNCHANGED <<result_, poolVars>>
     \/ /\ ~has_op_
        /\ result_' = [result_ EXCEPT ![Leaf] = "moved"]
        /\ Destroy(t, Leaf, [frame EXCEPT ![Child] = "run"])
        /\ UNCHANGED has_op_
  /\ UNCHANGED <<host, caller, continuation_, stack, scheduled, posted, hops>>

TaskStep(t) ==
  \/ AwaitChild(t) \/ AwaitLeaf(t) \/ RunScheduled(t) \/ ChildResumed(t)
  \/ \E f \in {Child, Leaf} : Hop(t, f) \/ Return(t, f)
  \/ AwaitSender(t) \/ StartBridge(t) \/ SetValue(t) \/ BridgeEnds(t)
  \/ AwaitSchedule(t) \/ RunPosted(t) \/ StartReturns(t)

(* A host's coroutine ends: ~Task() of its parameter, and its frame. *)
HostEnds(t) ==
  \/ /\ Running(t, host_frame, "ending")
     /\ Destroy(t, Child, [frame EXCEPT ![host_frame] = "dying"])
     /\ UNCHANGED <<host, caller, promiseVars, stack, execVars>>
  \/ /\ Running(t, host_frame, "dying")
     /\ Destroy(t, host_frame, frame) /\ Pop(t)
     /\ UNCHANGED <<host, caller, promiseVars, execVars>>

=============================================================================
