---------------------------- MODULE PeriodicTimer ----------------------------
(***************************************************************************)
(* PeriodicTimer (io/periodic_timer.hpp).  Everything is on the loop's     *)
(* thread.  The destructor resumes the coroutine that waits, inline, and   *)
(* only then closes the handle: that coroutine may well Wait() again.      *)
(***************************************************************************)
EXTENDS Integers, Sequences, FiniteSets

CONSTANTS
  Waiter,        (* the coroutines that use the timer                       *)
  Nobody         (* an empty slot                                           *)

ASSUME WaiterAssumption == Nobody \notin Waiter

VARIABLES
  timer_,        (* its uv_timer_t: "open", "closing" or "freed"            *)
  started,       (* libuv will call OnTimer                                 *)
  running_t, waiting_,
  destroying,    (* the destructor: "no", "resumed", "done"                 *)
  tpc,           (* coroutines: "run", "wait", "inline" (resumed by the     *)
                 (* destructor) or "end"                                    *)
  forgotten      (* history: waiting, and in no slot any more               *)

timerVars == <<timer_, started, running_t, waiting_, destroying, tpc, forgotten>>

PeriodicInit ==
  /\ timer_ = "open" /\ started = FALSE /\ running_t = FALSE
  /\ waiting_ = Nobody /\ destroying = "no"
  /\ tpc = [c \in Waiter |-> "run"] /\ forgotten = {}

Resumed(c, here) == waiting_' = Nobody /\ tpc' = [tpc EXCEPT ![c] = here]

(* await_suspend: the slot is overwritten. *)
Wait(c) ==
  /\ tpc[c] \in {"run", "inline"} /\ (destroying = "no" \/ tpc[c] = "inline")
  /\ tpc' = [tpc EXCEPT ![c] = "wait"]
  /\ forgotten' = forgotten \union ({waiting_} \ {Nobody})
                    \union IF tpc[c] = "inline" THEN {c} ELSE {}
  /\ waiting_' = c
  /\ started' = (started \/ ~running_t) /\ running_t' = TRUE
  /\ UNCHANGED <<timer_, destroying>>

OnTimer ==
  /\ started /\ destroying # "resumed"
  /\ \E c \in Waiter : waiting_ = c /\ Resumed(c, "run")
  /\ UNCHANGED <<timer_, started, running_t, destroying, forgotten>>

StopTimer ==
  /\ destroying = "no" /\ running_t
  /\ started' = FALSE /\ running_t' = FALSE
  /\ UNCHANGED <<timer_, waiting_, destroying, tpc, forgotten>>

(* The destructor, up to the resumption. *)
DestroyTimer ==
  /\ destroying = "no"
  /\ started' = FALSE /\ running_t' = FALSE
  /\ destroying' = "resumed"
  /\ \/ waiting_ = Nobody /\ UNCHANGED <<waiting_, tpc>>
     \/ \E c \in Waiter : waiting_ = c /\ Resumed(c, "inline")
  /\ UNCHANGED <<timer_, forgotten>>

(* The rest of it, when the resumed coroutine has suspended or ended. *)
DestroyTimerEnd ==
  /\ destroying = "resumed" /\ \A c \in Waiter : tpc[c] # "inline"
  /\ destroying' = "done" /\ timer_' = "closing" /\ started' = FALSE
  /\ UNCHANGED <<running_t, waiting_, tpc, forgotten>>

TimerFreed ==
  /\ timer_ = "closing" /\ timer_' = "freed"
  /\ UNCHANGED <<started, running_t, waiting_, destroying, tpc, forgotten>>

WaiterEnds(c) ==
  /\ tpc[c] \in {"run", "inline"}
  /\ tpc' = [tpc EXCEPT ![c] = "end"]
  /\ UNCHANGED <<timer_, started, running_t, waiting_, destroying, forgotten>>

PeriodicNext ==
  \/ OnTimer \/ StopTimer \/ DestroyTimer \/ DestroyTimerEnd \/ TimerFreed
  \/ \E c \in Waiter : Wait(c) \/ WaiterEnds(c)

-----------------------------------------------------------------------------
(***************************************************************************)
(* libuv calls back only into a timer that is there, and then resumes a    *)
(* coroutine that waits; the destructor leaves nobody waiting ("so its     *)
(* frame is not leaked", periodic_timer.hpp:41), except a coroutine whose  *)
(* slot another Wait() took, and one that waits again when the destructor  *)
(* resumes it.                                                             *)
(***************************************************************************)
TimerReleased ==
  /\ started => timer_ = "open" /\ destroying # "done"
  /\ waiting_ # Nobody => tpc[waiting_] = "wait"
  /\ destroying = "done" => timer_ # "open"
  /\ \A c \in Waiter : tpc[c] = "wait" =>
       (waiting_ = c /\ destroying = "no") \/ c \in forgotten

=============================================================================
