------------------------------- MODULE Race -------------------------------
(***************************************************************************)
(* WhenAny (core/when_any.hpp) and WithTimeout (core/timeout.hpp).  The    *)
(* caller starts a detached controller, which runs the children through    *)
(* WhenAll, and waits for an AsyncEvent.  The child that wins a compare-   *)
(* exchange publishes its result and sets the event, which resumes the     *)
(* caller on the winner's stack; the losers and the controller go on       *)
(* without the caller.  In WithTimeout one of the two children is a timer. *)
(* Every coroutine that suspends goes on later on a thread of its own.     *)
(***************************************************************************)
EXTENDS WhenAll

CONSTANTS
  Caller,        (* the coroutine of WhenAny() or WithTimeout()             *)
  User,          (* the user's tasks                                        *)
  Timer          (* TimeoutTimerChild                                       *)

ASSUME RaceAssumption ==
  /\ IsFiniteSet(User) /\ User \intersect {Caller, Parent, Timer} = {}
  /\ Cardinality({Caller, Parent, Timer}) = 3
  /\ User \union {Caller, Parent, Timer} \subseteq Coro

VARIABLES
  executor,        (* whether GetCurrentExecutor() is set                   *)
  first_completed,
  result           (* the child whose result, or timed_out, is published    *)

race == <<executor, first_completed, result>>
raceVars == <<vars, latch, race>>

(* WhenAny over some tasks, perhaps none, or WithTimeout of one. *)
Contests == (SUBSET User) \union {{u, Timer} : u \in User}

(* More labels.  Caller: "call", "wait" before notify.Wait(), "got" past    *)
(* it.  Child: "sleep" the timer, "run" the task's body, "won" the exchange *)
(* succeeded, "set" the result is published.                                *)
NoRace(set) ==
  LatchInit(set) /\ executor = FALSE /\ first_completed = FALSE /\ result = None

RaceInit ==
  /\ EventInit(FALSE)
  /\ \E s \in Contests : LatchInit(s)
  /\ pc = [c \in Coro |-> IF c = Caller THEN "call" ELSE "new"]
  /\ executor \in BOOLEAN
  /\ first_completed = FALSE /\ result = None

(* controller.Start(); WhenAny of no tasks is an error at once. *)
StartController ==
  /\ pc[Caller] = "call"
  /\ \/ /\ children = {}
        /\ pc' = [pc EXCEPT ![Caller] = "done"]
        /\ UNCHANGED <<runner, after>>
     \/ /\ children # {}
        /\ pc' = [pc EXCEPT ![Caller] = "nest", ![Parent] = "start"]
        /\ runner' = [runner EXCEPT ![Parent] = Caller]
        /\ after' = [after EXCEPT ![Caller] = "wait"]
  /\ UNCHANGED <<event, to_wake, latch, race>>

(* The controller starts the children in order, the timer last. *)
StartNext(c) ==
  /\ c = Timer => children \ started = {Timer}
  /\ StartChild(c, IF c = Timer THEN "sleep" ELSE "run")
  /\ UNCHANGED race

(* AsyncSleep: without an executor it does not suspend. *)
Sleep ==
  /\ pc[Timer] = "sleep"
  /\ \/ executor /\ Leave(Timer, "run")
     \/ ~executor /\ pc' = [pc EXCEPT ![Timer] = "run"] /\ UNCHANGED runner
  /\ UNCHANGED <<event, to_wake, after, latch, race>>

Bug_ChildEnd(c) ==  (* first_completed is not exchanged *)
  /\ pc[c] = "run"
  /\ pc' = [pc EXCEPT ![c] = IF first_completed THEN "notify" ELSE "won"]
  /\ UNCHANGED <<event, stack, latch, race>>

(* The task's body has ended, or the timer has fired: the exchange. *)
ChildEnd(c) ==
  /\ pc[c] = "run"
  /\ first_completed' = TRUE
  /\ pc' = [pc EXCEPT ![c] = IF first_completed THEN "notify" ELSE "won"]
  /\ UNCHANGED <<event, stack, latch, executor, result>>

Bug_Publish(c) ==  (* the winner notifies before it stores its result *)
  /\ pc[c] = "won"
  /\ Set(c, "set")
  /\ UNCHANGED <<latch, race>>

(* result.emplace(), or timed_out = true *)
Publish(c) ==
  /\ pc[c] = "won"
  /\ result' = c
  /\ pc' = [pc EXCEPT ![c] = "set"]
  /\ UNCHANGED <<event, stack, latch, executor, first_completed>>

(* notify.Set(), and the child's final suspension *)
NotifyCaller(c) ==
  /\ pc[c] = "set"
  /\ Set(c, "notify")
  /\ UNCHANGED <<latch, race>>

ResumeCaller(c) ==
  /\ Resume(c, "got")
  /\ UNCHANGED <<latch, race>>

(* co_await state->notify.Wait() *)
WaitNotify ==
  /\ pc[Caller] = "wait"
  /\ WaitReady(Caller, "got")
  /\ UNCHANGED <<latch, race>>

SuspendNotify ==
  /\ WaitSuspend(Caller, "got")
  /\ UNCHANGED <<latch, race>>

(* co_return state->result.value(), or the TimeoutError *)
ReturnResult ==
  /\ pc[Caller] = "got"
  /\ Leave(Caller, "done")
  /\ UNCHANGED <<event, to_wake, after, latch, race>>

(* The controller ends and its DetachedTask destroys it. *)
ControllerEnds == Joined("done") /\ UNCHANGED race

LatchStep ==
  \/ StoreAwaiting \/ TryAwait
  \/ \E c \in children : Notify(c) \/ NotifyReturns(c)

(* A user's task suspends; see AsyncEvent. *)
YieldTask(c) ==
  /\ c \in User
  /\ Yield(c, "run")
  /\ UNCHANGED <<latch, race>>

RaceStep(c) ==
  \/ StartNext(c) \/ Publish(c) \/ NotifyCaller(c) \/ ResumeCaller(c)

RaceNext ==
  \/ StartController \/ WaitNotify \/ SuspendNotify \/ ReturnResult
  \/ ControllerEnds \/ Sleep
  \/ LatchStep /\ UNCHANGED race
  \/ \E c \in children : RaceStep(c) \/ ChildEnd(c) \/ YieldTask(c)

(* Everything but the tasks runs to its end and the timer fires; a task     *)
(* started inline at last suspends or ends, and may then never go on.       *)
CallerObliged == StartController \/ WaitNotify \/ SuspendNotify \/ ReturnResult

ParentObliged == ControllerEnds \/ ((StoreAwaiting \/ TryAwait) /\ UNCHANGED race)

TimerObliged == Sleep \/ ChildEnd(Timer)

ChildObliged(c) ==
  \/ RaceStep(c)
  \/ (Notify(c) \/ NotifyReturns(c)) /\ UNCHANGED race
  \/ runner[c] # None /\ (ChildEnd(c) \/ YieldTask(c))

-----------------------------------------------------------------------------
(***************************************************************************)
(* The caller reads result.value(), or timed_out, only when the winner has *)
(* published it, and the winner was one of the children.                   *)
(***************************************************************************)
ResultPublished ==
  pc[Caller] \in {"got", "done"} /\ children # {} => result \in children

(***************************************************************************)
(* There is one winner: a published result is never replaced, however many *)
(* children end at once, so that the caller returns the first one.         *)
(***************************************************************************)
OneWinner == [][result # None => result' = result]_raceVars

(***************************************************************************)
(* The caller returns once a child has won.  With a timeout it returns     *)
(* although the user's task may never end, provided that an executor is    *)
(* there to fire the timer.                                                *)
(***************************************************************************)
CallerReturns ==
  first_completed \/ (executor /\ Timer \in children) ~> pc[Caller] = "done"

(***************************************************************************)
(* core/timeout.hpp says: "Without an executor, the timer cannot fire, so  *)
(* the user's task always wins."  It does not: AsyncSleep::await_suspend() *)
(* then refuses to suspend, so the timer's child ends at once and wins     *)
(* over a task that has suspended.                                         *)
(***************************************************************************)
TaskAlwaysWins == ~executor /\ Timer \in children => result # Timer

=============================================================================
