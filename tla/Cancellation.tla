---------------------------- MODULE Cancellation ----------------------------
(***************************************************************************)
(* CancellationState with its sources, tokens and guards                   *)
(* (core/cancellation.hpp) and its bridges to std::stop_token              *)
(* (execution/stop_token_adapter.hpp).  Cancel() sets the flag without     *)
(* mutex_, takes the callbacks under it and calls them outside.  A client  *)
(* holds a CancellationCallbackGuard or a CancellationLink.                *)
(***************************************************************************)
EXTENDS Integers, SequencesExt, FiniteSets

CONSTANTS
  Canceller,     (* threads that cancel, directly or by a std::stop_source  *)
  Client         (* threads that each hold one registered callback          *)

ASSUME CancellationAssumption ==
  /\ IsFiniteSet(Canceller) /\ IsFiniteSet(Client)
  /\ Canceller \intersect Client = {}

VARIABLES
  cancelled_,
  callbacks_,    (* the callbacks, named by their clients, with handles     *)
  next_handle_,
  bridge,        (* StopTokenBridge: "none" when no stop is possible,       *)
                 (* "built" or "gone"                                       *)
  stop_requested,(* external: the std::stop_source                          *)
  cpc,           (* where each thread is                                    *)
  to_call,       (* callbacks_to_call of each canceller                     *)
  handle,        (* what RegisterCallback() returned to each client         *)
  calls,         (* history: how often each callback was called             *)
  hopeless       (* history: clients that unregistered before the flag      *)

cancelVars == <<cancelled_, callbacks_, next_handle_, bridge, stop_requested, cpc, to_call,
                handle, calls, hopeless>>

CancelInit ==
  /\ cancelled_ = FALSE /\ callbacks_ = <<>> /\ next_handle_ = 1
  /\ bridge \in {"none", "built"} /\ stop_requested = FALSE
  /\ cpc = [x \in Canceller \union Client |-> "idle"]
  /\ to_call = [x \in Canceller |-> <<>>]
  /\ handle = [l \in Client |-> 0]
  /\ calls = [l \in Client |-> 0] /\ hopeless = {}

(* CancellationSource::Cancel(): the exchange *)
Exchange(x, label) ==
  /\ cancelled_' = TRUE
  /\ cpc' = [cpc EXCEPT ![x] = IF cancelled_ THEN "done" ELSE label]

Cancel(x) ==
  /\ cpc[x] = "idle" /\ Exchange(x, "take")
  /\ UNCHANGED <<callbacks_, next_handle_, bridge, stop_requested, to_call, handle, calls, hopeless>>

(* request_stop() calls the bridge's callback, once, while it is there. *)
RequestStop(x) ==
  /\ cpc[x] = "idle" /\ stop_requested' = TRUE
  /\ \/ bridge = "built" /\ ~stop_requested /\ Exchange(x, "take (bridge)")
     \/ /\ bridge # "built" \/ stop_requested
        /\ cpc' = [cpc EXCEPT ![x] = "done"] /\ UNCHANGED cancelled_
  /\ UNCHANGED <<callbacks_, next_handle_, bridge, to_call, handle, calls, hopeless>>

(* ~StopTokenBridge(): ~stop_callback waits for a callback that runs. *)
DestroyBridge ==
  /\ bridge = "built"
  /\ \A x \in Canceller : cpc[x] \notin {"take (bridge)", "call (bridge)"}
  /\ bridge' = "gone"
  /\ UNCHANGED <<cancelled_, callbacks_, next_handle_, stop_requested, cpc, to_call, handle, calls,
                 hopeless>>

Taken == [i \in DOMAIN callbacks_ |-> callbacks_[i].client]

(* Cancel(): the callbacks are moved out under mutex_. *)
TakeCallbacks(x) ==
  /\ cpc[x] \in {"take", "take (bridge)"}
  /\ to_call' = [to_call EXCEPT ![x] = Taken]
  /\ callbacks_' = <<>>
  /\ cpc' = [cpc EXCEPT ![x] = IF @ = "take" THEN "call" ELSE "call (bridge)"]
  /\ UNCHANGED <<cancelled_, next_handle_, bridge, stop_requested, handle, calls, hopeless>>

(* Cancel(): one callback; a CancellationLink's requests a stop. *)
CallNext(x) ==
  /\ cpc[x] \in {"call", "call (bridge)"}
  /\ \/ /\ to_call[x] # <<>>
        /\ calls' = [calls EXCEPT ![Head(to_call[x])] = @ + 1]
        /\ to_call' = [to_call EXCEPT ![x] = Tail(@)]
        /\ UNCHANGED cpc
     \/ to_call[x] = <<>> /\ cpc' = [cpc EXCEPT ![x] = "done"] /\ UNCHANGED <<calls, to_call>>
  /\ UNCHANGED <<cancelled_, callbacks_, next_handle_, bridge, stop_requested, handle, hopeless>>

(* OnCancel() and RegisterCallback() *)
RegisterCallback(l) ==
  /\ cpc[l] = "idle"
  /\ \/ /\ cancelled_ /\ cpc' = [cpc EXCEPT ![l] = "invoke"]
        /\ UNCHANGED <<callbacks_, handle, next_handle_>>
     \/ /\ ~cancelled_
        /\ callbacks_' = Append(callbacks_, [client |-> l, handle |-> next_handle_])
        /\ handle' = [handle EXCEPT ![l] = next_handle_]
        /\ next_handle_' = next_handle_ + 1
        /\ cpc' = [cpc EXCEPT ![l] = "held"]
  /\ UNCHANGED <<cancelled_, bridge, stop_requested, to_call, calls, hopeless>>

(* RegisterCallback() after the cancellation: the callback, outside mutex_ *)
InvokeAtOnce(l) ==
  /\ cpc[l] = "invoke" /\ cpc' = [cpc EXCEPT ![l] = "held"]
  /\ calls' = [calls EXCEPT ![l] = @ + 1]
  /\ UNCHANGED <<cancelled_, callbacks_, next_handle_, bridge, stop_requested, to_call, handle,
                 hopeless>>

(* The callbacks without the first that has this handle *)
Erase(h) ==
  LET found == {i \in DOMAIN callbacks_ : callbacks_[i].handle = h} IN
  IF found = {} THEN callbacks_
  ELSE RemoveAt(callbacks_, CHOOSE i \in found : \A j \in found : i <= j)

(* Unregister() and UnregisterCallback(), from ~CancellationCallbackGuard() *)
(* and ~CancellationLink()                                                  *)
UnregisterCallback(l) ==
  /\ cpc[l] = "held" /\ cpc' = [cpc EXCEPT ![l] = "released"]
  /\ callbacks_' = IF handle[l] = 0 THEN callbacks_ ELSE Erase(handle[l])
  /\ hopeless' = IF cancelled_ THEN hopeless ELSE hopeless \union {l}
  /\ UNCHANGED <<cancelled_, next_handle_, bridge, stop_requested, to_call, handle, calls>>

CancelObliged(x) == TakeCallbacks(x) \/ CallNext(x)

CancelNext ==
  \/ DestroyBridge
  \/ \E x \in Canceller : Cancel(x) \/ RequestStop(x) \/ CancelObliged(x)
  \/ \E l \in Client : RegisterCallback(l) \/ InvokeAtOnce(l) \/ UnregisterCallback(l)

-----------------------------------------------------------------------------
(* No callback is called twice or without a cancellation, and none of a     *)
(* client that had unregistered before it; when the one Cancel() that won   *)
(* the exchange is through, every callback still registered has been        *)
(* called.                                                                  *)
CancelledOnce ==
  /\ \A l \in Client :
       /\ calls[l] <= 1 /\ (calls[l] = 1 => cancelled_)
       /\ l \in hopeless => calls[l] = 0
  /\ cancelled_ /\ (\A x \in Canceller : cpc[x] \in {"idle", "done"}) =>
       \A l \in Client : cpc[l] = "held" => calls[l] = 1

=============================================================================
