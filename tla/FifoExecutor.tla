---------------------------- MODULE FifoExecutor ----------------------------
(***************************************************************************)
(* What every Executor promises (io/executor.hpp): whatever is given to it *)
(* runs at most once, handles and callbacks each in the order they were    *)
(* given, timers and I/O when the outside world says so.  Only destroying  *)
(* the executor drops anything.                                            *)
(***************************************************************************)
EXTENDS Sequences

CONSTANTS Handles, Callbacks, Waits   (* what may be given to an executor   *)

VARIABLES
  handles,       (* scheduled coroutines, longest wait first                *)
  callbacks,     (* posted callbacks                                        *)
  waits,         (* coroutines that wait for a delay or for I/O             *)
  ran            (* what has been resumed or called                         *)

vars == <<handles, callbacks, waits, ran>>

New(i) == /\ i \notin ran \union waits
          /\ \A n \in DOMAIN handles : handles[n] # i
          /\ \A n \in DOMAIN callbacks : callbacks[n] # i

Init == handles = <<>> /\ callbacks = <<>> /\ waits = {} /\ ran = {}

Give(i) ==
  /\ New(i)
  /\ \/ i \in Handles /\ handles' = Append(handles, i) /\ UNCHANGED <<callbacks, waits>>
     \/ i \in Callbacks /\ callbacks' = Append(callbacks, i) /\ UNCHANGED <<handles, waits>>
     \/ i \in Waits /\ waits' = waits \union {i} /\ UNCHANGED <<handles, callbacks>>
  /\ UNCHANGED ran

Run(i) ==
  /\ \/ /\ handles # <<>> /\ i = Head(handles)
        /\ handles' = Tail(handles) /\ UNCHANGED <<callbacks, waits>>
     \/ /\ callbacks # <<>> /\ i = Head(callbacks)
        /\ callbacks' = Tail(callbacks) /\ UNCHANGED <<handles, waits>>
     \/ i \in waits /\ waits' = waits \ {i} /\ UNCHANGED <<handles, callbacks>>
  /\ ran' = ran \union {i}

Destroy == handles' = <<>> /\ callbacks' = <<>> /\ waits' = {} /\ UNCHANGED ran

Next == Destroy \/ \E i \in Handles \union Callbacks \union Waits : Give(i) \/ Run(i)

Spec == Init /\ [][Next]_vars

=============================================================================
