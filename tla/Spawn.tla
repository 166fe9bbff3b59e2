-------------------------------- MODULE Spawn --------------------------------
(***************************************************************************)
(* Spawn() (core/spawn.hpp): a Task wrapped in a coroutine that destroys   *)
(* itself, and a SpawnState that the wrapper and the SpawnHandle share.    *)
(* A callback is called outside SpawnState::mutex, by whichever of         *)
(* Complete() and OnComplete() comes second.                               *)
(***************************************************************************)
EXTENDS TaskFrames

CONSTANTS
  Callback,      (* callbacks for OnComplete()                              *)
  ErrorCallback, (* one for OnError()                                       *)
  NoCallback

ASSUME CallbackAssumption ==
  NoCallback \notin Callback \union {ErrorCallback} /\ ErrorCallback \notin Callback

VARIABLES
  state,         (* SpawnState                                              *)
  calling,       (* cb and val in Complete(), called outside the lock       *)
  late,          (* callback and value_copy in OnComplete() and OnError()   *)
  given,         (* history: the callbacks given to the handle              *)
  replaced,      (* history: those that another took the place of           *)
  called         (* history: what each callback was called with             *)

spawnVars == <<state, calling, late, given, replaced, called>>

Nothing == [cb |-> NoCallback, val |-> "none"]

SpawnInit ==
  /\ state = [completed |-> FALSE, failed |-> FALSE, result |-> "none",
              on_complete |-> NoCallback, on_error |-> NoCallback]
  /\ calling = Nothing /\ late = Nothing /\ given = {} /\ replaced = {}
  /\ called = [cb \in Callback \union {ErrorCallback} |-> <<>>]

(* Spawn(executor, task): the wrapper is scheduled. *)
SpawnOn ==
  /\ host = "spawn" /\ caller = "made" /\ caller' = "handle"
  /\ Create(Main, Wrapper) /\ At(Wrapper, "new")
  /\ scheduled' = scheduled \union {Wrapper}
  /\ UNCHANGED <<host, promiseVars, stack, posted, has_op_, hops, spawnVars>>

(* Spawn(task) with no current executor: Fail(), and the Task is destroyed. *)
SpawnNoExecutor ==
  /\ host = "no executor" /\ caller = "made" /\ caller' = "handle"
  /\ state' = [state EXCEPT !.failed = TRUE]
  /\ Destroy(Main, Child, frame)
  /\ UNCHANGED <<host, promiseVars, stack, execVars, calling, late, given, replaced, called>>

(* WrapForSpawn() returns the value: return_value() and Complete(), to the  *)
(* unlock                                                                   *)
Complete(t) ==
  /\ host = "spawn" /\ Running(t, Wrapper, "got")
  /\ AwaitResume(Wrapper, Child, "complete")
  /\ \/ /\ state.on_complete # NoCallback
        /\ calling' = [cb |-> state.on_complete, val |-> "value"]
        /\ state' = [state EXCEPT !.completed = TRUE, !.result = "moved",
                                  !.on_complete = NoCallback]
     \/ /\ state.on_complete = NoCallback
        /\ state' = [state EXCEPT !.completed = TRUE, !.result = "value"]
        /\ UNCHANGED calling
  /\ UNCHANGED <<host, caller, continuation_, stack, execVars, poolVars, late, given, replaced, called>>

Call(call) ==
  called' = IF call = Nothing THEN called
            ELSE [called EXCEPT ![call.cb] = Append(@, call.val)]

(* The callback of Complete(); final_suspend then destroys the frame. *)
CompleteCall(t) ==
  /\ host = "spawn" /\ Running(t, Wrapper, "complete")
  /\ Call(calling) /\ calling' = Nothing
  /\ At(Wrapper, "ending")
  /\ UNCHANGED <<host, caller, promiseVars, stack, execVars, poolVars, state, late, given, replaced>>

Bug_OnComplete(cb) ==  (* the callback is stored although the task is done *)
  /\ caller = "handle" /\ cb \notin given
  /\ given' = given \union {cb}
  /\ state' = [state EXCEPT !.on_complete = cb]
  /\ replaced' = replaced \union ({state.on_complete} \ {NoCallback})
  /\ UNCHANGED <<caller, calling, late, called>>

(* SpawnHandle::OnComplete(), to the unlock *)
OnComplete(cb) ==
  /\ caller = "handle" /\ cb \notin given
  /\ given' = given \union {cb}
  /\ \/ /\ state.completed
        /\ late' = [cb |-> cb, val |-> state.result]
        /\ caller' = "late" /\ UNCHANGED <<state, replaced>>
     \/ /\ ~state.completed
        /\ state' = [state EXCEPT !.on_complete = cb]
        /\ replaced' = replaced \union ({state.on_complete} \ {NoCallback})
        /\ UNCHANGED <<caller, late>>
  /\ UNCHANGED <<calling, called>>

(* SpawnHandle::OnError(), to the unlock *)
OnError ==
  /\ caller = "handle" /\ ErrorCallback \notin given
  /\ given' = given \union {ErrorCallback}
  /\ \/ /\ state.failed
        /\ late' = [cb |-> ErrorCallback, val |-> "NoExecutor"]
        /\ caller' = "late" /\ UNCHANGED state
     \/ /\ ~state.failed
        /\ state' = [state EXCEPT !.on_error = ErrorCallback]
        /\ UNCHANGED <<caller, late>>
  /\ UNCHANGED <<calling, replaced, called>>

(* The callback of a SpawnHandle whose task is done *)
LateCall ==
  /\ caller = "late" /\ caller' = "handle"
  /\ Call(late) /\ late' = Nothing
  /\ UNCHANGED <<state, calling, given, replaced>>

(* The handle is dropped. *)
HandleEnds == caller = "handle" /\ caller' = "end" /\ UNCHANGED spawnVars

SpawnCaller ==
  /\ host \in {"spawn", "no executor"}
  /\ \/ SpawnOn \/ SpawnNoExecutor
     \/ /\ (\E cb \in Callback : OnComplete(cb)) \/ OnError \/ LateCall \/ HandleEnds
        /\ UNCHANGED <<host, frame, promiseVars, stack, scheduled, posted, has_op_, hops, poolVars>>

SpawnStep(t) == Complete(t) \/ CompleteCall(t)

-----------------------------------------------------------------------------
(* A callback is called at most once, with the result, which is moved from  *)
(* only if an earlier callback has had it, or with the error.  Once both    *)
(* sides are through, the callbacks called are those that were given for    *)
(* how the task ended and that no later one took the place of.              *)
SpawnedOnce ==
  LET due == IF state.failed THEN {ErrorCallback} ELSE Callback
      quiet == late = Nothing /\ (state.failed \/ frame[Wrapper] = "freed")
  IN /\ \A cb \in Callback :
          /\ called[cb] \in {<<>>, <<"value">>, <<"moved">>}
          /\ called[cb] = <<"moved">> => \E d \in Callback : called[d] = <<"value">>
                                           \/ calling = [cb |-> d, val |-> "value"]
     /\ called[ErrorCallback] \in {<<>>, <<"NoExecutor">>}
     /\ quiet => {cb \in DOMAIN called : called[cb] # <<>>} = (given \intersect due) \ replaced

=============================================================================
