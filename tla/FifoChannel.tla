---------------------------- MODULE FifoChannel ----------------------------
(***************************************************************************)
(* What Channel promises its users, without awaitables, waiter lists or    *)
(* nested resumes: a bounded queue that takes every message at most once,  *)
(* gives messages out in the order it took them, takes nothing after it is *)
(* closed and still gives out what it has.                                 *)
(***************************************************************************)
EXTENDS Integers, Sequences

CONSTANTS
  Msg,           (* the messages that may be sent                           *)
  Capacity       (* constructor argument                                    *)

VARIABLES
  queue,         (* messages accepted and not yet taken                     *)
  taken,         (* messages given to receivers, in that order              *)
  closed

vars == <<queue, taken, closed>>

Accepted == {queue[i] : i \in DOMAIN queue} \union {taken[i] : i \in DOMAIN taken}

Init ==
  /\ queue = <<>>
  /\ taken = <<>>
  /\ closed = FALSE

Accept(m) ==
  /\ ~closed /\ m \notin Accepted
  /\ Len(queue) < Capacity
  /\ queue' = Append(queue, m)
  /\ UNCHANGED <<taken, closed>>

Take ==
  /\ queue # <<>>
  /\ taken' = Append(taken, Head(queue))
  /\ queue' = Tail(queue)
  /\ UNCHANGED closed

(* A message goes from sender to receiver at once: only past an empty queue. *)
PassThrough(m) ==
  /\ ~closed /\ m \notin Accepted
  /\ queue = <<>>
  /\ taken' = Append(taken, m)
  /\ UNCHANGED <<queue, closed>>

(* The place of the message taken goes to the next one in the same step. *)
Shift(m) ==
  /\ ~closed /\ m \notin Accepted
  /\ queue # <<>>
  /\ taken' = Append(taken, Head(queue))
  /\ queue' = Append(Tail(queue), m)
  /\ UNCHANGED closed

Close ==
  /\ closed' = TRUE
  /\ UNCHANGED <<queue, taken>>

Next ==
  \/ \E m \in Msg : Accept(m) \/ PassThrough(m) \/ Shift(m)
  \/ Take
  \/ Close

Spec == Init /\ [][Next]_vars

=============================================================================
