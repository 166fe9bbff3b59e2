----------------------------- MODULE Lifetimes -----------------------------
(***************************************************************************)
(* Coroutines from their creation to their end: Tasks run by Spawn(),      *)
(* SyncWait() or a DetachedTask, awaited directly or as senders, with      *)
(* their frames in the FramePool; and what decides how long they go on:    *)
(* cancellation, retries, the iteration of a Generator.  A behaviour is    *)
(* about one of these.                                                     *)
(***************************************************************************)
EXTENDS Spawn, SyncWait, Cancellation, Retry, Generator

VARIABLE about

tasks == <<taskVars, spawnVars, waitVars>>
allVars == <<about, tasks, cancelVars, retryVars, generatorVars>>

-----------------------------------------------------------------------------
(* Two Tasks share a bucket, at its upper bound and just above the next     *)
(* lower one; see TaskFrames for the two that are not pooled.               *)
SomeSizes ==
  [f \in Frame |-> CASE f = Wrapper -> 200 [] f = Child -> 128 [] f = Leaf -> 65
                     [] OTHER -> 4096]

SomePolicies ==
  [max_attempts : {0, 1, 4}, initial_delay : {2, 3}, multiplier : {2, 3, 4}, max_delay : {4},
   jitter : BOOLEAN, retryable : {{"ok", "e1", "e2", "zero"}, {"e1"}}]

SomeOutcomes == {"ok", "e1", "e2", "zero"}

-----------------------------------------------------------------------------
(* A program that is not the behaviour's stands at its beginning. *)
Init ==
  /\ about \in {"tasks", "cancellation", "retry", "generator"}
  /\ host \in {"spawn", "no executor", "sync", "detach"}
  /\ TasksInit /\ SpawnInit /\ WaitInit /\ CancelInit /\ RetryInit /\ GeneratorInit
  /\ about # "tasks" => host = "spawn"
  /\ about # "cancellation" => bridge = "none"
  /\ about # "retry" => policy_ = CHOOSE p \in Policies : TRUE
  /\ about # "generator" => length = 0

(* What Main's own program, and what a thread does next *)
Caller ==
  \/ /\ (MakeTask \/ DropTask) /\ UNCHANGED <<spawnVars, waitVars>>
  \/ SpawnCaller /\ UNCHANGED waitVars
  \/ WaitCaller /\ UNCHANGED spawnVars

ThreadStep(t) ==
  \/ (TaskStep(t) \/ HostEnds(t)) /\ UNCHANGED <<spawnVars, waitVars>>
  \/ SpawnStep(t) /\ UNCHANGED waitVars
  \/ WaitStep(t) /\ UNCHANGED spawnVars

(* Somebody calls FramePool::Clear(), on a thread that runs no coroutine. *)
ClearPool(t) ==
  /\ stack[t] = <<>> /\ DoClear(t)
  /\ UNCHANGED <<host, caller, frame, promiseVars, stack, execVars, spawnVars, waitVars>>

TaskProgram ==
  /\ about = "tasks"
  /\ Caller \/ \E t \in Thread : ThreadStep(t) \/ ClearPool(t)
  /\ UNCHANGED <<about, cancelVars, retryVars, generatorVars>>

CancelProgram ==
  /\ about = "cancellation" /\ CancelNext
  /\ UNCHANGED <<about, tasks, retryVars, generatorVars>>

RetryProgram ==
  /\ about = "retry" /\ RetryNext
  /\ UNCHANGED <<about, tasks, cancelVars, generatorVars>>

GeneratorProgram ==
  /\ about = "generator" /\ GeneratorNext
  /\ UNCHANGED <<about, tasks, cancelVars, retryVars>>

Next == TaskProgram \/ CancelProgram \/ RetryProgram \/ GeneratorProgram

(* Main's program goes on, and every thread runs what it has, and takes     *)
(* what the executor has; a thread inside Cancel() finishes it.             *)
Fairness ==
  /\ WF_tasks(about = "tasks" /\ Caller)
  /\ \A t \in Thread : WF_tasks(about = "tasks" /\ ThreadStep(t))
  /\ \A x \in Canceller : WF_cancelVars(about = "cancellation" /\ CancelObliged(x))
  /\ \A l \in Client : WF_cancelVars(about = "cancellation" /\ InvokeAtOnce(l))

Spec == Init /\ [][Next]_allVars
FairSpec == Spec /\ Fairness

-----------------------------------------------------------------------------
(***************************************************************************)
(* No thread runs in, and nobody will resume, a frame that is destroyed    *)
(* or that another thread runs in; the operation state of a sender is gone *)
(* with the frame it is in; and the blocks of the pools are where they     *)
(* belong although frames move between threads.  One exception: SyncWait() *)
(* destroys its wrapper (sync_wait.hpp:175) as soon as that has signalled, *)
(* so a wrapper that ends on another thread may still have to reach its    *)
(* final_suspend.                                                          *)
(***************************************************************************)
FramesSafe ==
  LET Entries == UNION {{t} \X DOMAIN stack[t] : t \in Thread}
      Entry(e) == stack[e[1]][e[2]]
      Bodies == {e \in Entries : Entry(e)[2] = "body"}
  IN /\ \A e \in Bodies :
          \/ Live(Entry(e)[1])
          \/ host = "sync" /\ Entry(e)[1] = Wrapper /\ e[1] # Main
     /\ \A d, e \in Bodies : Entry(d) = Entry(e) => d = e
     /\ \A f \in scheduled : Live(f) /\ ~\E e \in Bodies : Entry(e)[1] = f
     /\ \A f \in Frame : frame[f] \in {"run", "hop", "await"} /\ continuation_[f] # NoFrame =>
          frame[continuation_[f]] = "await"
     /\ posted \/ has_op_ => Live(Child)
     /\ BlocksConserved

(***************************************************************************)
(* What is promised to whoever waits for the end of a coroutine comes      *)
(* exactly once: see SpawnedOnce, WaitedFor and CancelledOnce.             *)
(***************************************************************************)
ToldOnce == SpawnedOnce /\ WaitedFor /\ CancelledOnce

(***************************************************************************)
(* The loops make the steps they should: see RetriedRightly and            *)
(* IteratedInOrder.                                                        *)
(***************************************************************************)
LoopsRight == RetriedRightly /\ IteratedInOrder

(***************************************************************************)
(* Every coroutine that was created is at last destroyed, whoever has to   *)
(* do that; and every callback still registered after a cancellation, or   *)
(* registered too late for it, is at last called.                          *)
(***************************************************************************)
EverythingEnds ==
  /\ caller # "start" ~> \A f \in Frame : ~Live(f)
  /\ \A l \in Client :
       cancelled_ /\ cpc[l] \in {"invoke", "held"} ~> calls[l] = 1 \/ cpc[l] = "released"

=============================================================================
