---------------------------- MODULE FifoPermits ----------------------------
(***************************************************************************)
(* What AsyncSemaphore and AsyncMutex promise their users, without         *)
(* awaitables, handles or nested resumes: a pool of permits.  A coroutine  *)
(* takes a free permit or joins a queue; a permit given back goes straight *)
(* to the coroutine that has queued longest, and becomes free only when    *)
(* nobody queues.  AsyncMutex is the pool with one permit.                 *)
(***************************************************************************)
EXTENDS Integers, Sequences, FiniteSets

CONSTANTS
  Coro,          (* the coroutines that use the pool                        *)
  InitialCount,  (* permits the pool is created with                        *)
  MaxPermits     (* bound: no donation beyond this many permits             *)

VARIABLES
  free,          (* permits nobody has                                      *)
  owners,        (* coroutines that have a permit                           *)
  queue,         (* coroutines waiting for one, longest wait first          *)
  permits        (* permits in existence                                    *)

vars == <<free, owners, queue, permits>>

Queued == {queue[i] : i \in DOMAIN queue}

Init ==
  /\ free = InitialCount
  /\ owners = {}
  /\ queue = <<>>
  /\ permits = InitialCount

Take(c) ==
  /\ c \notin owners /\ c \notin Queued
  /\ queue = <<>>
  /\ free > 0
  /\ free' = free - 1
  /\ owners' = owners \union {c}
  /\ UNCHANGED <<queue, permits>>

Enqueue(c) ==
  /\ c \notin owners /\ c \notin Queued
  /\ free = 0
  /\ queue' = Append(queue, c)
  /\ UNCHANGED <<free, owners, permits>>

(* A permit comes back; `rest` are the owners that keep theirs. *)
PassOn(rest) ==
  \/ /\ queue = <<>>
     /\ free' = free + 1
     /\ owners' = rest
     /\ UNCHANGED queue
  \/ /\ queue # <<>>
     /\ owners' = rest \union {Head(queue)}
     /\ queue' = Tail(queue)
     /\ UNCHANGED free

Give(c) ==
  /\ c \in owners
  /\ PassOn(owners \ {c})
  /\ UNCHANGED permits

(* A Release() by somebody who owns nothing creates a permit. *)
Donate ==
  /\ permits < MaxPermits
  /\ PassOn(owners)
  /\ permits' = permits + 1

Next ==
  \/ \E c \in Coro : Take(c) \/ Enqueue(c) \/ Give(c)
  \/ Donate

Spec == Init /\ [][Next]_vars

(***************************************************************************)
(* No permit is lost or duplicated: the free ones and the owned ones make  *)
(* up the pool (AsyncSemaphore::count_ and the live Guards).               *)
(***************************************************************************)
Conservation == free + Cardinality(owners) = permits

(* No permit lies idle while a coroutine queues: no lost wakeup. *)
NoIdlePermit == queue # <<>> => free = 0

=============================================================================
