----------------------------- MODULE Structured -----------------------------
(***************************************************************************)
(* What is built on AsyncEvent: the event used directly, a TaskGroup, and  *)
(* WhenAny or WithTimeout over WhenAll.  A behaviour is one of them; the   *)
(* same coroutines play the parts of each.                                 *)
(***************************************************************************)
EXTENDS TaskGroup, Race

CONSTANT Users   (* the coroutines that use the event by itself             *)

ASSUME UsersAssumption == Users \subseteq Coro \ {Owner} /\ Owner # Caller

VARIABLE program

allVars == <<program, groupVars, raceVars>>

Init ==
  \/ /\ program = "event"
     /\ EventInit(FALSE) /\ pc = [c \in Coro |-> "run"]
     /\ NoGroup /\ one_thread = FALSE /\ NoRace({})
  \/ program = "group" /\ GroupInit /\ NoRace({})
  \/ program = "race" /\ RaceInit /\ NoGroup /\ one_thread = FALSE

EventProgram ==
  /\ program = "event" /\ \E c \in Users : EventStep(c)
  /\ UNCHANGED <<program, group, latch, race>>

GroupProgram ==
  program = "group" /\ GroupNext /\ UNCHANGED <<program, latch, race>>

RaceProgram ==
  program = "race" /\ RaceNext /\ UNCHANGED <<program, group>>

Next == EventProgram \/ GroupProgram \/ RaceProgram

(* A coroutine takes the steps it is obliged to.  For the event by itself,  *)
(* one resumed inline at last suspends or ends; every task of a group ends. *)
Fairness ==
  /\ \A c \in Users :
       /\ WF_vars(program = "event" /\ (Suspend(c) \/ ResumeNext(c)))
       /\ SF_vars(program = "event" /\ Yield(c, "run"))
  /\ \A c \in {Owner} \union Task :
       /\ WF_groupVars(program = "group" /\ GroupObliged(c))
       /\ SF_groupVars(program = "group" /\ TaskEnd(c))
  /\ WF_raceVars(program = "race" /\ CallerObliged)
  /\ WF_raceVars(program = "race" /\ ParentObliged)
  /\ WF_raceVars(program = "race" /\ TimerObliged)
  /\ \A c \in User \union {Timer} :
       WF_raceVars(program = "race" /\ ChildObliged(c))

Spec == Init /\ [][Next]_allVars
FairSpec == Spec /\ Fairness

=============================================================================
