----------------------------- MODULE Coroutines -----------------------------
(***************************************************************************)
(* What the primitives share: coroutines that suspend in one of them and   *)
(* are resumed INLINE, from a local list of handles, on the stack of the   *)
(* coroutine that wakes them.  resume() returns when the resumed coroutine *)
(* gives the thread up; the waker then resumes its next handle or goes on. *)
(* Every coroutine starts on a thread of its own.                          *)
(***************************************************************************)
EXTENDS Integers, Sequences, FiniteSets

CONSTANTS
  Coro,          (* the coroutines                                          *)
  None           (* no coroutine: the bottom of a stack                     *)

ASSUME CoroAssumption == IsFiniteSet(Coro) /\ None \notin Coro

VARIABLES
  pc,            (* where each coroutine is; "wake" is: Head(to_wake) is to *)
                 (* be resumed, and "nest": inside that resume()            *)
  to_wake,       (* the handles it has still to resume                      *)
  runner,        (* the coroutine on whose stack it was resumed             *)
  after          (* where it goes on when what it resumed has returned      *)

stack == <<to_wake, runner, after>>

StackInit ==
  /\ to_wake = [c \in Coro |-> <<>>]
  /\ runner = [c \in Coro |-> None]
  /\ after = [c \in Coro |-> "run"]

Elems(s) == {s[i] : i \in DOMAIN s}

(* The coroutines that are in some waker's list. *)
Woken == UNION {Elems(to_wake[c]) : c \in Coro}

At(c, l) == pc' = [pc EXCEPT ![c] = l] /\ UNCHANGED stack

(* c gives its thread up and stands at `next`. *)
Leave(c, next) ==
  /\ pc' = [d \in Coro |-> IF d = c THEN next
                           ELSE IF d # runner[c] THEN pc[d]
                           ELSE IF to_wake[d] = <<>> THEN after[d] ELSE "wake"]
  /\ runner' = [runner EXCEPT ![c] = None]
  /\ UNCHANGED <<to_wake, after>>

(* c is to resume `handles` and then to go on at `next`. *)
WakeAll(c, handles, next) ==
  /\ pc' = [pc EXCEPT ![c] = IF handles = <<>> THEN next ELSE "wake"]
  /\ to_wake' = [to_wake EXCEPT ![c] = handles]
  /\ after' = [after EXCEPT ![c] = next]
  /\ UNCHANGED runner

(* resume() of the next handle, which goes on at passed(it). *)
ResumeAt(c, passed(_)) ==
  LET w == Head(to_wake[c]) IN
  /\ pc[c] = "wake"
  /\ pc' = [pc EXCEPT ![c] = "nest", ![w] = passed(w)]
  /\ runner' = [runner EXCEPT ![w] = c]
  /\ to_wake' = [to_wake EXCEPT ![c] = Tail(@)]
  /\ UNCHANGED after

(* User code at one of `here` suspends on something else, or ends, and      *)
(* carries on later from an executor's thread.                              *)
YieldAt(c, here) ==
  /\ pc[c] \in here /\ runner[c] # None
  /\ Leave(c, pc[c])

(* Each of the coroutines `suspended` is in exactly one place, once: in     *)
(* `waiting` or in the list one waker is working through.                   *)
InOnePlace(waiting, suspended) ==
  LET Places == {<<None, i>> : i \in DOMAIN waiting}
                  \union UNION {{<<c, i>> : i \in DOMAIN to_wake[c]} : c \in Coro}
      Handle(p) == IF p[1] = None THEN waiting[p[2]] ELSE to_wake[p[1]][p[2]]
  IN /\ \A p, q \in Places : p # q => Handle(p) # Handle(q)
     /\ {Handle(p) : p \in Places} = suspended

=============================================================================
