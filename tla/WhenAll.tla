------------------------------ MODULE WhenAll ------------------------------
(***************************************************************************)
(* WhenAll (core/when_all.hpp): the awaitable starts every child inline,   *)
(* then TryAwait() stores the parent's handle and takes the "+1" off the   *)
(* latch; each child takes one off at its final suspension, and the one    *)
(* that takes the last resumes the parent on its own stack.  The latch and *)
(* the children's frames belong to the awaitable and die when the parent   *)
(* goes on.  Labels, resume() and stacks are those of AsyncEvent.          *)
(***************************************************************************)
EXTENDS AsyncEvent

CONSTANTS
  Parent         (* the coroutine that awaits WhenAll(children)             *)

VARIABLES
  children,      (* the set of children                                     *)
  started,       (* those already started                                   *)
  count_,        (* WhenAllLatch::count_                                    *)
  awaiting_,     (* WhenAllLatch::awaiting_                                 *)
  freed          (* the latch and the children's frames are destroyed       *)

latch == <<children, started, count_, awaiting_, freed>>

(* Labels of the parent:                                                    *)
(* "start"  in await_suspend, starting children                             *)
(* "sub"    in TryAwait(), awaiting_ stored                                 *)
(* "join"   suspended                      "joined" past the co_await       *)
(* Labels of a child:                                                       *)
(* "notify" at its final suspension, in Notify()                            *)
(* "end"    back from awaiting_.resume()   "done"   its thread is elsewhere *)

Bug_LatchInit(set) ==  (* the count without the "+1" *)
  /\ children = set /\ started = {}
  /\ count_ = Cardinality(set) /\ awaiting_ = None /\ freed = FALSE

LatchInit(set) ==
  /\ children = set /\ started = {}
  /\ count_ = Cardinality(set) + 1 /\ awaiting_ = None /\ freed = FALSE

(* WhenAllTask::Start() of one child, which begins at `begin`. *)
StartChild(c, begin) ==
  /\ pc[Parent] = "start" /\ c \in children \ started
  /\ started' = started \union {c}
  /\ pc' = [pc EXCEPT ![Parent] = "nest", ![c] = begin]
  /\ runner' = [runner EXCEPT ![c] = Parent]
  /\ after' = [after EXCEPT ![Parent] = "start"]
  /\ UNCHANGED <<event, to_wake, children, count_, awaiting_, freed>>

(* TryAwait(): awaiting_ = awaiting *)
StoreAwaiting ==
  /\ pc[Parent] = "start" /\ started = children
  /\ awaiting_' = Parent
  /\ pc' = [pc EXCEPT ![Parent] = "sub"]
  /\ UNCHANGED <<event, stack, children, started, count_, freed>>

(* TryAwait(): return count_.fetch_sub(1) > 1 *)
TryAwait ==
  /\ pc[Parent] = "sub"
  /\ count_' = count_ - 1
  /\ \/ /\ count_ > 1
        /\ Leave(Parent, "join")
     \/ /\ count_ <= 1
        /\ pc' = [pc EXCEPT ![Parent] = "joined"]
        /\ UNCHANGED runner
  /\ UNCHANGED <<event, to_wake, after, children, started,
                 awaiting_, freed>>

(* Notify() at the final suspension of a child *)
Notify(c) ==
  /\ pc[c] = "notify" /\ c \in children
  /\ count_' = count_ - 1
  /\ \/ /\ count_ # 1
        /\ Leave(c, "done")
        /\ UNCHANGED after
     \/ /\ count_ = 1
        /\ pc' = [d \in Coro |-> IF d = c THEN "nest"
                                 ELSE IF d = awaiting_ THEN "joined" ELSE pc[d]]
        /\ runner' = [d \in Coro |-> IF d = awaiting_ THEN c ELSE runner[d]]
        /\ after' = [after EXCEPT ![c] = "end"]
  /\ UNCHANGED <<event, to_wake, children, started, awaiting_, freed>>

(* awaiting_.resume() has returned into Notify(), which touches nothing. *)
NotifyReturns(c) ==
  /\ pc[c] = "end"
  /\ Leave(c, "done")
  /\ UNCHANGED <<event, to_wake, after, latch>>

(* The parent takes the results; the awaitable is destroyed at the end of   *)
(* the co_await expression, and the parent, which goes on at `next`, ends.  *)
Joined(next) ==
  /\ pc[Parent] = "joined"
  /\ freed' = TRUE
  /\ Leave(Parent, next)
  /\ UNCHANGED <<event, to_wake, after, children, started,
                 count_, awaiting_>>

-----------------------------------------------------------------------------
(***************************************************************************)
(* The parent passes co_await only when every child is at its final        *)
(* suspension, and nobody touches the latch or a child's frame once they   *)
(* are destroyed: a child is past Notify()'s decrement, at most one still  *)
(* inside the resume() that runs the parent.                               *)
(***************************************************************************)
NoUseAfterFree ==
  freed => \A c \in children :
             pc[c] \in {"end", "done"} \/ (pc[c] = "nest" /\ after[c] = "end")

=============================================================================
