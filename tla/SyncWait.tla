------------------------------ MODULE SyncWait ------------------------------
(***************************************************************************)
(* SyncWait() (sync/sync_wait.hpp) and DetachedTask                        *)
(* (core/detached_task.hpp): the caller resumes a coroutine around the     *)
(* Task inline.  SyncWait() then blocks until that coroutine has stored    *)
(* the result and signalled, and destroys it; a DetachedTask destroys      *)
(* itself at its end, and only one that was never started is destroyed by  *)
(* its owner.                                                              *)
(***************************************************************************)
EXTENDS TaskFrames

VARIABLES
  signaled_,     (* SyncWaitEvent::signaled_                                *)
  wait_result,   (* `result` in SyncWait()                                  *)
  callback       (* the DetachedTask's: "none", "set" or "called"           *)

waitVars == <<signaled_, wait_result, callback>>

WaitInit == signaled_ = FALSE /\ wait_result = "none" /\ callback = "none"

(* SyncWait(): the wrapper is created and resumed. *)
SyncWaitStart ==
  /\ host = "sync" /\ caller = "made" /\ caller' = "waiting"
  /\ Create(Main, Wrapper) /\ At(Wrapper, "run") /\ Push(Main, Wrapper)
  /\ UNCHANGED <<host, promiseVars, execVars, waitVars>>

(* The wrapper: result = co_await std::move(task) *)
StoreResult(t) ==
  /\ host = "sync" /\ Running(t, Wrapper, "got")
  /\ AwaitResume(Wrapper, Child, "stored")
  /\ wait_result' = "value"
  /\ UNCHANGED <<host, caller, continuation_, stack, execVars, poolVars, signaled_, callback>>

Signal(t) ==
  /\ host = "sync" /\ Running(t, Wrapper, "stored")
  /\ signaled_' = TRUE /\ At(Wrapper, "signalled")
  /\ UNCHANGED <<host, caller, promiseVars, stack, execVars, poolVars, wait_result, callback>>

(* The wrapper is a Task with no continuation.  If SyncWait() has destroyed *)
(* it meanwhile, what is read is undefined; no other coroutine has had the  *)
(* memory, so it is what was there.                                         *)
WrapperReturns(t) ==
  /\ host = "sync" /\ stack[t] # <<>> /\ Top(t) = <<Wrapper, "body">>
  /\ frame[Wrapper] \in {"signalled", "freed"}
  /\ frame' = [frame EXCEPT ![Wrapper] = IF @ = "freed" THEN @ ELSE "final"]
  /\ Pop(t)
  /\ UNCHANGED <<host, caller, promiseVars, execVars, poolVars, waitVars>>

(* event.Wait(), and the end of SyncWait(): wrapper_task and task go. *)
SyncWaitEnds ==
  \/ /\ caller = "waiting" /\ stack[Main] = <<>> /\ signaled_
     /\ caller' = "returning"
     /\ Destroy(Main, Wrapper, frame)
     /\ UNCHANGED <<host, promiseVars, stack, execVars, waitVars>>
  \/ /\ caller = "returning" /\ caller' = "end"
     /\ Destroy(Main, Child, frame)
     /\ UNCHANGED <<host, promiseVars, stack, execVars, waitVars>>

-----------------------------------------------------------------------------
(* DetachedTask                                                             *)

MakeDetached ==
  /\ host = "detach" /\ caller = "made" /\ caller' = "detached"
  /\ Create(Main, Detached) /\ At(Detached, "new")
  /\ UNCHANGED <<host, promiseVars, stack, execVars, waitVars>>

SetCallback ==
  /\ caller = "detached" /\ callback = "none" /\ callback' = "set"
  /\ UNCHANGED <<taskVars, signaled_, wait_result>>

Start ==
  /\ caller = "detached" /\ caller' = "started"
  /\ At(Detached, "run") /\ Push(Main, Detached)
  /\ UNCHANGED <<host, promiseVars, execVars, poolVars, waitVars>>

(* ~DetachedTask(): it destroys only what was not started. *)
DetachedDropped ==
  \/ /\ caller = "started" /\ stack[Main] = <<>> /\ caller' = "end"
     /\ UNCHANGED <<host, frame, promiseVars, stack, execVars, poolVars, waitVars>>
  \/ /\ caller = "detached" /\ caller' = "dropped"
     /\ Destroy(Main, Child, frame)
     /\ UNCHANGED <<host, promiseVars, stack, execVars, waitVars>>
  \/ /\ caller = "dropped" /\ caller' = "end"
     /\ Destroy(Main, Detached, frame)
     /\ UNCHANGED <<host, promiseVars, stack, execVars, waitVars>>

Bug_DetachedFinal(t) ==  (* final_suspend does not destroy the frame *)
  /\ host = "detach" /\ Running(t, Detached, "got")
  /\ callback' = IF callback = "set" THEN "called" ELSE callback
  /\ AwaitResume(Detached, Child, "final") /\ Pop(t)
  /\ UNCHANGED <<host, caller, continuation_, execVars, poolVars, signaled_, wait_result>>

(* final_suspend: the callback; the frame is then destroyed. *)
DetachedFinal(t) ==
  /\ host = "detach" /\ Running(t, Detached, "got")
  /\ callback' = IF callback = "set" THEN "called" ELSE callback
  /\ AwaitResume(Detached, Child, "ending")
  /\ UNCHANGED <<host, caller, continuation_, stack, execVars, poolVars, signaled_, wait_result>>

WaitCaller ==
  SyncWaitStart \/ SyncWaitEnds \/ MakeDetached \/ SetCallback \/ Start \/ DetachedDropped

WaitStep(t) == StoreResult(t) \/ Signal(t) \/ WrapperReturns(t) \/ DetachedFinal(t)

-----------------------------------------------------------------------------
(* SyncWait() has the result when it returns, and the callback of a         *)
(* DetachedTask that was started has been called when its frame is gone.    *)
WaitedFor ==
  /\ host = "sync" /\ frame[Wrapper] = "freed" => wait_result = "value"
  /\ host = "detach" /\ frame[Detached] = "freed" /\ result_[Child] # "none"
       => callback # "set"

=============================================================================
